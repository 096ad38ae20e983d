----------------------------- MODULE FlowLookup -----------------------------
(***************************************************************************)
(* The entries of one flow table as the lookups see them: the hash map of  *)
(* every table, the prefix tree of an LPM table (common/pof_tree.c) and    *)
(* the three lookups of local_resource/pof_flow_table.c.                   *)
(*                                                                         *)
(* Abstractions.  A key is a sequence of keyLen symbols: bits in an MM or  *)
(* LPM table, 32-bit words in an EM table.  Entries are memory objects, so *)
(* that a pointer to a freed entry can be told from one to a live entry.   *)
(* Which entry MODIFY and DELETE find by its index is the business of      *)
(* LocalResource: here it is any entry.  The tree's count is not used by   *)
(* the program and left out.                                               *)
(***************************************************************************)
EXTENDS Integers, Sequences, SequencesExt, FiniteSets, FiniteSetsExt

CONSTANTS
    keyLen,      \* length of the table's key
    Buckets,     \* number of buckets of the entry hash map
    Priorities,  \* priorities of entries
    Objects,     \* memory for entries; bounds their number
    NULL,        \* no object
    Types        \* table types considered

ASSUME LookupAssumption ==
    /\ keyLen \in Nat
    /\ Buckets \in Nat \ {0}
    /\ Priorities \subseteq Nat
    /\ NULL \notin Objects
    /\ Types \subseteq {"MM", "LPM", "EM"}

VARIABLES
    type,   \* type of the table
    table   \* its entries: see TableOK

vars == <<type, table>>

Symbols == {0, 1}
Key     == [1..keyLen -> Symbols]
Path    == UNION {[1..n -> Symbols] : n \in 0..keyLen}
Entry   == [value : Key, mask : Key, priority : Priorities, bucket : 0..(Buckets - 1)]
Free    == [free |-> TRUE]

\* heap: the entry in each object; entryMap: the objects in the hash map,
\* newest first; tree: what each node of the prefix tree points to; spoiled
\* is history: the prefixes that two entries have had at once.
TableOK(t) ==
    /\ t = [heap |-> t.heap, entryMap |-> t.entryMap, tree |-> t.tree, spoiled |-> t.spoiled]
    /\ t.heap \in [Objects -> Entry \cup {Free}]
    /\ t.entryMap \in Seq(Objects)
    /\ DOMAIN t.tree \subseteq Path /\ t.tree \in [DOMAIN t.tree -> Objects \cup {NULL}]
    /\ t.spoiled \subseteq Path

Live(t) == {o \in Objects : t.heap[o] # Free}

\* lpmInsert, lpmDelete: the path in the tree is as long as the mask has ones.
get1sCountInBytes(mask) == Cardinality({i \in 1..keyLen : mask[i] = 1})
PathOf(e) == SubSeq(e.value, 1, get1sCountInBytes(e.mask))
-----------------------------------------------------------------------------
(* The prefix tree.                                                        *)

tree_create == [p \in {<<>>} |-> NULL]

\* The nodes on the way from the root to p.
Way(p) == {SubSeq(p, 1, n) : n \in 0..Len(p)}

\* Mutant: the memory of a new node is not zeroed.
MutantNodeInsert(tree, o, p) ==
    [q \in DOMAIN tree \cup Way(p) |->
        IF q = p THEN o ELSE IF q \in DOMAIN tree THEN tree[q] ELSE Free]

tree_nodeInsert(tree, o, p) ==
    [q \in DOMAIN tree \cup Way(p) |->
        IF q = p THEN o ELSE IF q \in DOMAIN tree THEN tree[q] ELSE NULL]

isLeaf(tree, p) == \A b \in Symbols : Append(p, b) \notin DOMAIN tree

\* Mutant: a node that is no leaf keeps its pointer.
MutantNodeDelete(tree, p) ==
    IF ~(Way(p) \subseteq DOMAIN tree) THEN tree
    ELSE IF isLeaf(tree, p) /\ p # <<>> THEN [q \in DOMAIN tree \ {p} |-> tree[q]]
    ELSE tree

\* Without the whole way nothing happens (POF_ERROR, which the callers do not
\* look at). A leaf goes away; the nodes above it stay.
tree_nodeDelete(tree, p) ==
    IF ~(Way(p) \subseteq DOMAIN tree) THEN tree
    ELSE IF isLeaf(tree, p) /\ p # <<>> THEN [q \in DOMAIN tree \ {p} |-> tree[q]]
    ELSE [tree EXCEPT ![p] = NULL]

\* Lengths of the prefixes of the key whose nodes point to an entry, as far
\* as the tree goes.
Hits(tree, key) ==
    {n \in 0..keyLen : /\ Way(SubSeq(key, 1, n)) \subseteq DOMAIN tree
                       /\ tree[SubSeq(key, 1, n)] # NULL}

\* Mutant: the first pointer on the way is taken.
MutantNodeLookup(tree, key) ==
    IF Hits(tree, key) = {} THEN NULL ELSE tree[SubSeq(key, 1, Min(Hits(tree, key)))]

tree_nodeLookup(tree, key) ==
    IF Hits(tree, key) = {} THEN NULL ELSE tree[SubSeq(key, 1, Max(Hits(tree, key)))]
-----------------------------------------------------------------------------
(* The lookups.                                                            *)

maskMatch(e, key) == \A i \in 1..keyLen : e.mask[i] = 1 => key[i] = e.value[i]

\* Mutant: a later match wins whatever its priority.
MutantVisit(key, ret, o) == IF maskMatch(table.heap[o], key) THEN o ELSE ret

\* The body of the loop of entryLookup_MM: what it makes of ret at the entry o.
Visit(key, ret, o) ==
    IF ~maskMatch(table.heap[o], key) THEN ret
    ELSE IF ret = NULL THEN o
    ELSE IF table.heap[ret].priority < table.heap[o].priority THEN o ELSE ret

\* A chain of the hash map: of all the nodes, newest first, those in bucket b.
Chain(key, start, b) ==
    LET ret[i \in 0..Len(table.entryMap)] ==
            IF i = 0 THEN start
            ELSE IF table.heap[table.entryMap[i]].bucket # b THEN ret[i - 1]
            ELSE Visit(key, ret[i - 1], table.entryMap[i])
    IN  ret[Len(table.entryMap)]

\* HMAP_NODES_IN_STRUCT_TRAVERSE: bucket by bucket.
entryLookup_MM(key) ==
    LET ret[b \in 0..Buckets] == IF b = 0 THEN NULL ELSE Chain(key, ret[b - 1], b - 1)
    IN  ret[Buckets]

\* hmap_hashForBytes: the exclusive or of the hashes of the words, so a word
\* that occurs twice cancels out. Here the set of words that occur an odd
\* number of times: keys with the same set have the same hash in the code. The
\* model leaves out collisions of hmap_hashForUint32 itself.
hashForBytes(key) == {w \in Symbols : Cardinality({i \in 1..keyLen : key[i] = w}) % 2 = 1}

\* hmap_nodeGetWithHash compares hashes only.
entryLookup_EM(key) ==
    LET same == SelectSeq(table.entryMap,
                    LAMBDA o : hashForBytes(table.heap[o].value) = hashForBytes(key))
    IN  IF same = <<>> THEN NULL ELSE Head(same)

entryLookup_LPM(key) == tree_nodeLookup(table.tree, key)

poflr_entry_lookup(key) ==
    CASE type = "MM"  -> entryLookup_MM(key)
      [] type = "LPM" -> entryLookup_LPM(key)
      [] type = "EM"  -> entryLookup_EM(key)
-----------------------------------------------------------------------------
(* The operations on the table.                                            *)

TypeOK == type \in Types /\ TableOK(table)

\* The code makes a tree for LPM tables only; in the others it stays unused.
NewTable == [heap |-> [o \in Objects |-> Free], entryMap |-> <<>>,
             tree |-> tree_create, spoiled |-> {}]

Init == type \in Types /\ table = NewTable

\* entryInsert of e into the new object o.
entryInsert(t, o, e) ==
    [heap     |-> [t.heap EXCEPT ![o] = e],
     entryMap |-> <<o>> \o t.entryMap,
     tree     |-> IF type = "LPM" THEN tree_nodeInsert(t.tree, o, PathOf(e)) ELSE t.tree,
     spoiled  |-> t.spoiled \cup
                  {p \in {PathOf(e)} : type = "LPM" /\ \E l \in Live(t) : PathOf(t.heap[l]) = p}]

\* hmap_nodeDelete: the first node that is the object, if any, is unlinked.
hmap_nodeDelete(s, o) ==
    LET at == {i \in DOMAIN s : s[i] = o}
    IN  IF at = {} THEN s ELSE RemoveAt(s, Min(at))

\* entryDelete of the entry in o; a prefix without entries is as new.
entryDelete(t, o) ==
    [heap     |-> [t.heap EXCEPT ![o] = Free],
     entryMap |-> hmap_nodeDelete(t.entryMap, o),
     tree     |-> IF type = "LPM" THEN tree_nodeDelete(t.tree, PathOf(t.heap[o])) ELSE t.tree,
     spoiled  |-> {p \in t.spoiled : \E l \in Live(t) \ {o} : PathOf(t.heap[l]) = p}]

\* The entries a request can make, one for all those the operations cannot
\* tell apart. An entry of an EM table has no mask. In an MM table the value
\* matters only under the mask; only there do priority and bucket matter.
Requested(e) ==
    /\ type = "EM" => \A i \in 1..keyLen : e.mask[i] = 0
    /\ type = "MM" => \A i \in 1..keyLen : e.mask[i] = 0 => e.value[i] = 0
    /\ type # "MM" => e.bucket = 0 /\ \A p \in Priorities : e.priority <= p

add_flow_entry ==
    /\ \E o \in Objects \ Live(table), e \in Entry :
            Requested(e) /\ table' = entryInsert(table, o, e)
    /\ UNCHANGED type

\* The old entry is freed first; the new one may get its memory, or may be
\* refused by entryFill.
modify_flow_entry ==
    /\ \E o \in Live(table) :
        LET left == entryDelete(table, o)
        IN  \/ table' = left
            \/ \E n \in Objects \ Live(left), e \in Entry :
                    Requested(e) /\ table' = entryInsert(left, n, e)
    /\ UNCHANGED type

delete_flow_entry ==
    /\ \E o \in Live(table) : table' = entryDelete(table, o)
    /\ UNCHANGED type

\* The table is deleted, or all tables are emptied; a new one is created.
create_flow_table == type' \in Types /\ table' = NewTable

Next == add_flow_entry \/ modify_flow_entry \/ delete_flow_entry \/ create_flow_table

Spec == Init /\ [][Next]_vars
-----------------------------------------------------------------------------
(* Properties.                                                             *)

\* Every pointer in the tree is to an entry of the table, and stands at the
\* node of this entry's prefix: the lookup of an LPM table never returns
\* freed memory, whatever prefixes were added twice, modified or deleted.
PointersLive ==
    \A p \in DOMAIN table.tree :
        table.tree[p] # NULL => /\ table.tree[p] \in Live(table)
                                /\ PathOf(table.heap[table.tree[p]]) = p

Contiguous(mask) == \A i \in 1..keyLen : i > get1sCountInBytes(mask) => mask[i] = 0

\* The lookup of an LPM table is longest prefix match: it finds an entry that
\* matches with no longer one matching, or finds nothing when none matches.
\* This needs masks that are prefixes, and no prefix of the key given to two
\* entries: then deleting one hides the other.
LpmLongest ==
    type = "LPM" /\ (\A o \in Live(table) : Contiguous(table.heap[o].mask)) =>
        \A key \in Key :
            LET match == {o \in Live(table) : maskMatch(table.heap[o], key)}
                found == entryLookup_LPM(key)
            IN  (\A o \in match : PathOf(table.heap[o]) \notin table.spoiled) =>
                    IF match = {} THEN found = NULL
                    ELSE /\ found \in match
                         /\ \A o \in match : get1sCountInBytes(table.heap[o].mask)
                                            <= get1sCountInBytes(table.heap[found].mask)

\* The lookup of an MM table finds a matching entry of the highest priority,
\* whatever the order of the hash map.
MmBest ==
    type = "MM" =>
        \A key \in Key :
            LET match == {o \in Live(table) : maskMatch(table.heap[o], key)}
                found == entryLookup_MM(key)
            IN  IF match = {} THEN found = NULL
                ELSE /\ found \in match
                     /\ \A o \in match : table.heap[o].priority <= table.heap[found].priority

\* README:331: the packet goes to the first flow table "to find the flow entry
\* matched with the packet". In an EM table the entry found has the packet's
\* key as its value.
EmFoundMatches ==
    type = "EM" =>
        \A key \in Key : poflr_entry_lookup(key) # NULL
                            => table.heap[poflr_entry_lookup(key)].value = key
=============================================================================
