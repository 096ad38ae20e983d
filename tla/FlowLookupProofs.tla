-------------------------- MODULE FlowLookupProofs --------------------------
(***************************************************************************)
(* Proofs about FlowLookup, for keys of every length and any number of     *)
(* entries.                                                                *)
(***************************************************************************)
EXTENDS FlowLookup, SeqLemmas, FiniteSetTheorems

-----------------------------------------------------------------------------
(* Paths in the tree.                                                      *)

\* The paths are the sequences of bits that are not longer than the key.
LEMMA PathIsSeq ==
    \A p : p \in Path <=> p \in Seq(Symbols) /\ Len(p) <= keyLen
<1>1. ASSUME NEW p \in Path
      PROVE  p \in Seq(Symbols) /\ Len(p) <= keyLen
  <2>1. PICK n \in 0..keyLen : p \in [1..n -> Symbols]
    BY DEF Path
  <2>2. n \in Nat /\ n <= keyLen
    BY LookupAssumption
  <2>3. p \in Seq(Symbols)
    BY <2>1, <2>2, SeqDef
  <2>4. Len(p) \in Nat /\ 1..Len(p) = 1..n
    BY <2>1, <2>3, LenProperties
  <2>5. Len(p) = n
    BY <2>2, <2>4
  <2> QED
    BY <2>2, <2>3, <2>5
<1>2. ASSUME NEW p \in Seq(Symbols), Len(p) <= keyLen
      PROVE  p \in Path
  <2>1. Len(p) \in Nat /\ p \in [1..Len(p) -> Symbols]
    BY LenProperties
  <2>2. Len(p) \in 0..keyLen
    BY <1>2, <2>1, LookupAssumption
  <2> QED
    BY <2>1, <2>2 DEF Path
<1> QED
  BY <1>1, <1>2

\* A beginning of a path.
LEMMA Beginning ==
    ASSUME NEW p \in Seq(Symbols), NEW n \in 0..Len(p)
    PROVE  /\ SubSeq(p, 1, n) \in Seq(Symbols)
           /\ Len(SubSeq(p, 1, n)) = n
           /\ \A i \in 1..n : SubSeq(p, 1, n)[i] = p[i]
<1>1. Len(p) \in Nat /\ n \in Int /\ n <= Len(p) /\ 0 <= n
  BY LenProperties
<1>2. \A i \in 1..n : p[i] \in Symbols
  BY <1>1, ElementOfSeq
<1>3. /\ SubSeq(p, 1, n) \in Seq(Symbols)
      /\ Len(SubSeq(p, 1, n)) = IF 1 <= n THEN n - 1 + 1 ELSE 0
      /\ \A i \in 1..(n - 1 + 1) : SubSeq(p, 1, n)[i] = p[1 + i - 1]
  BY <1>1, <1>2, SubSeqProperties
<1> QED
  BY <1>1, <1>3

\* The way to p consists of paths, ends with p, and contains the way to each
\* of its nodes.
LEMMA WayProperties ==
    ASSUME NEW p \in Path
    PROVE  /\ Way(p) \subseteq Path
           /\ p \in Way(p)
           /\ \A q \in Way(p) : Way(q) \subseteq Way(p)
<1>1. p \in Seq(Symbols) /\ Len(p) <= keyLen /\ Len(p) \in Nat
  BY PathIsSeq, LenProperties
<1>2. \A n \in 0..Len(p) : /\ SubSeq(p, 1, n) \in Seq(Symbols)
                           /\ Len(SubSeq(p, 1, n)) = n
                           /\ \A i \in 1..n : SubSeq(p, 1, n)[i] = p[i]
  BY <1>1, Beginning
<1>3. Way(p) \subseteq Path
  <2>1. \A n \in 0..Len(p) : n <= keyLen
    BY <1>1, LookupAssumption
  <2> QED
    BY <1>2, <2>1, PathIsSeq DEF Way
<1>4. p \in Way(p)
  BY <1>1, SubSeqFull DEF Way
<1>5. ASSUME NEW q \in Way(p), NEW r \in Way(q)
      PROVE  r \in Way(p)
  <2>1. PICK n \in 0..Len(p) : q = SubSeq(p, 1, n)
    BY DEF Way
  <2>2. PICK m \in 0..Len(q) : r = SubSeq(q, 1, m)
    BY DEF Way
  <2>3. /\ q \in Seq(Symbols) /\ Len(q) = n
        /\ \A i \in 1..n : q[i] = p[i]
    BY <1>2, <2>1
  <2>4. /\ r \in Seq(Symbols) /\ Len(r) = m
        /\ \A i \in 1..m : r[i] = q[i]
    BY <2>2, <2>3, Beginning
  <2>5. m \in 0..Len(p) /\ m <= n /\ m \in Nat /\ n \in Nat
    BY <1>1, <2>3
  <2>6. /\ SubSeq(p, 1, m) \in Seq(Symbols) /\ Len(SubSeq(p, 1, m)) = m
        /\ \A i \in 1..m : SubSeq(p, 1, m)[i] = p[i]
    BY <1>2, <2>5
  <2>7. \A i \in 1..m : r[i] = SubSeq(p, 1, m)[i]
    BY <2>3, <2>4, <2>5, <2>6
  <2>8. r = SubSeq(p, 1, m)
    BY <2>4, <2>6, <2>7, SeqEqual
  <2> QED
    BY <2>5, <2>8 DEF Way
<1> QED
  BY <1>3, <1>4, <1>5

\* A way that goes through p and does not end there goes on to a son of p.
LEMMA WayGoesOn ==
    ASSUME NEW r \in Path, NEW p \in Way(r), p # r
    PROVE  \E b \in Symbols : Append(p, b) \in Way(r)
<1>1. r \in Seq(Symbols) /\ Len(r) \in Nat
  BY PathIsSeq, LenProperties
<1>2. PICK n \in 0..Len(r) : p = SubSeq(r, 1, n)
  BY DEF Way
<1>3. n # Len(r)
  BY <1>1, <1>2, SubSeqFull
<1>4. n \in Nat /\ n + 1 \in 1..Len(r) /\ n + 1 \in 0..Len(r)
  BY <1>1, <1>3
<1>5. r[n + 1] \in Symbols
  BY <1>1, <1>4, ElementOfSeq
<1>6. p \in Seq(Symbols) /\ Len(p) = n /\ \A i \in 1..n : p[i] = r[i]
  BY <1>1, <1>2, Beginning
<1> DEFINE a == Append(p, r[n + 1])
           b == SubSeq(r, 1, n + 1)
<1>7. /\ a \in Seq(Symbols) /\ Len(a) = n + 1
      /\ \A i \in 1..n : a[i] = p[i]
      /\ a[n + 1] = r[n + 1]
  BY <1>5, <1>6, AppendProperties
<1>8. /\ b \in Seq(Symbols) /\ Len(b) = n + 1
      /\ \A i \in 1..(n + 1) : b[i] = r[i]
  BY <1>1, <1>4, Beginning
<1>9. a = b
  <2> HIDE DEF a, b
  <2>1. \A i \in 1..(n + 1) : a[i] = b[i]
    BY <1>4, <1>6, <1>7, <1>8
  <2> QED
    BY <1>7, <1>8, <2>1, SeqEqual
<1>10. b \in Way(r)
  BY <1>4 DEF Way
<1> QED
  BY <1>5, <1>9, <1>10

\* The number of ones of a mask is at most the length of the key, and the
\* path of an entry is one of the tree.
LEMMA PathOfEntry ==
    ASSUME NEW e \in Entry
    PROVE  PathOf(e) \in Path
<1> DEFINE ones == {i \in 1..keyLen : e.mask[i] = 1}
           n == get1sCountInBytes(e.mask)
<1>1. keyLen \in Nat
  BY LookupAssumption
<1>2. IsFiniteSet(1..keyLen) /\ Cardinality(1..keyLen) = keyLen
  BY <1>1, FS_Interval
<1>3. IsFiniteSet(ones) /\ Cardinality(ones) <= keyLen
  BY <1>2, FS_Subset
<1>4. Cardinality(ones) \in Nat
  BY <1>3, FS_CardinalityType
<1>5. n \in Nat /\ n <= keyLen
  BY <1>3, <1>4 DEF get1sCountInBytes
<1>6. e.value \in Seq(Symbols) /\ Len(e.value) = keyLen
  <2>1. e.value \in [1..keyLen -> Symbols]
    BY DEF Entry, Key
  <2>2. e.value \in Seq(Symbols)
    BY <1>1, <2>1, SeqDef
  <2>3. Len(e.value) \in Nat /\ 1..Len(e.value) = 1..keyLen
    BY <2>1, <2>2, LenProperties
  <2> QED
    BY <1>1, <2>2, <2>3
<1> HIDE DEF n
<1>7. SubSeq(e.value, 1, n) \in Seq(Symbols) /\ Len(SubSeq(e.value, 1, n)) = n
  BY <1>1, <1>5, <1>6, Beginning
<1>8. SubSeq(e.value, 1, n) \in Path
  BY <1>5, <1>7, PathIsSeq
<1> QED
  BY <1>8 DEF n, PathOf

\* An entry is not free memory.
LEMMA EntryNotFree == Free \notin Entry
<1>1. DOMAIN Free = {"free"}
  BY DEF Free
<1>2. ASSUME NEW e \in Entry PROVE "value" \in DOMAIN e
  BY DEF Entry
<1> QED
  BY <1>1, <1>2
-----------------------------------------------------------------------------
(* The inductive invariant, as a predicate of the table's contents.        *)

Points(t) ==
    \A p \in DOMAIN t.tree :
        t.tree[p] # NULL => t.tree[p] \in Live(t) /\ PathOf(t.heap[t.tree[p]]) = p

\* A node is reached from the root: without this a deletion could miss the
\* pointer to the entry it frees.
Closed(t) == \A p \in DOMAIN t.tree : Way(p) \subseteq DOMAIN t.tree

\* Only LPM tables use their tree, and no table changes its type.
Unused(t) == type # "LPM" => \A p \in DOMAIN t.tree : t.tree[p] = NULL

\* An entry whose prefix was its own all the time is found at its node.
Reached(t) ==
    type = "LPM" =>
        \A o \in Live(t) : PathOf(t.heap[o]) \notin t.spoiled =>
            PathOf(t.heap[o]) \in DOMAIN t.tree /\ t.tree[PathOf(t.heap[o])] = o

Good(t) == TableOK(t) /\ Points(t) /\ Closed(t) /\ Unused(t) /\ Reached(t)

IInv == type \in Types /\ Good(table)

\* hmap_nodeDelete leaves a chain of objects.
LEMMA NodeDeleteType ==
    ASSUME NEW s \in Seq(Objects), NEW o
    PROVE  hmap_nodeDelete(s, o) \in Seq(Objects)
<1> DEFINE at == {i \in DOMAIN s : s[i] = o}
<1>1. CASE at = {}
  BY <1>1 DEF hmap_nodeDelete
<1>2. CASE at # {}
  <2>1. DOMAIN s = 1..Len(s) /\ Len(s) \in Nat
    BY LenProperties
  <2>2. at \subseteq Nat
    BY <2>1
  <2>3. \E x \in at : \A y \in at : x <= y
    <3> HIDE DEF at
    <3> QED  BY <1>2, <2>2, LeastNat
  <2>4. Min(at) \in at
    BY <2>3 DEF Min
  <2>5. Min(at) \in 1..Len(s)
    BY <2>1, <2>4
  <2>6. RemoveAt(s, Min(at)) \in Seq(Objects)
    <3> HIDE DEF at
    <3> QED  BY <2>5, RemoveAtProperties
  <2> QED
    BY <1>2, <2>6 DEF hmap_nodeDelete
<1> QED
  BY <1>1, <1>2

\* An empty table is good.
LEMMA NewTableGood == Good(NewTable)
<1>1. <<>> \in Path
  <2>1. <<>> \in Seq(Symbols) /\ Len(<<>>) <= keyLen
    BY LookupAssumption
  <2> QED
    BY <2>1, PathIsSeq, Zenon
<1>2. Way(<<>>) = {<<>>}
  <2>1. Len(<<>>) = 0 /\ 0..0 = {0}
    OBVIOUS
  <2>2. SubSeq(<<>>, 1, 0) = <<>>
    BY SubSeqEmpty
  <2> QED
    BY <2>1, <2>2 DEF Way
<1>3. TableOK(NewTable)
  BY <1>1 DEF TableOK, NewTable, tree_create
<1>4. Points(NewTable) /\ Unused(NewTable)
  BY DEF Points, Unused, NewTable, tree_create
<1>5. Closed(NewTable)
  BY <1>2 DEF Closed, NewTable, tree_create
<1>6. Live(NewTable) = {}
  BY DEF Live, NewTable
<1>7. Reached(NewTable)
  BY <1>6 DEF Reached
<1> QED
  BY <1>3, <1>4, <1>5, <1>7 DEF Good

\* entryInsert into free memory: no pointer in the tree was to this memory,
\* and the new pointer is to the new entry.
LEMMA InsertGood ==
    ASSUME NEW t, Good(t), NEW o \in Objects, o \notin Live(t), NEW e \in Entry
    PROVE  Good(entryInsert(t, o, e))
<1> DEFINE u == entryInsert(t, o, e)
           p == PathOf(e)
<1>1. TableOK(t) /\ Points(t) /\ Closed(t) /\ Unused(t) /\ Reached(t)
  BY DEF Good
<1>2. p \in Path
  BY PathOfEntry
<1>3. e # Free
  BY EntryNotFree
<1>4. /\ u.heap = [t.heap EXCEPT ![o] = e]
      /\ u.entryMap = <<o>> \o t.entryMap
      /\ u.tree = IF type = "LPM" THEN tree_nodeInsert(t.tree, o, p) ELSE t.tree
      /\ u.spoiled = t.spoiled \cup
            {q \in {p} : type = "LPM" /\ \E l \in Live(t) : PathOf(t.heap[l]) = q}
      /\ u = [heap |-> u.heap, entryMap |-> u.entryMap, tree |-> u.tree, spoiled |-> u.spoiled]
  BY DEF entryInsert
<1> HIDE DEF u, p
<1>5. u.heap \in [Objects -> Entry \cup {Free}] /\ u.heap[o] = e
      /\ \A x \in Objects : x # o => u.heap[x] = t.heap[x]
  BY <1>1, <1>4 DEF TableOK
<1>6. o \in Live(u) /\ \A x \in Live(t) : x \in Live(u) /\ x # o /\ u.heap[x] = t.heap[x]
  BY <1>3, <1>5 DEF Live
<1>7. u.entryMap \in Seq(Objects)
  BY <1>1, <1>4, ConsProperties DEF TableOK
<1>8. u.spoiled \subseteq Path
  BY <1>1, <1>2, <1>4 DEF TableOK
<1>9. CASE type # "LPM"
  <2>1. u.tree = t.tree
    BY <1>4, <1>9
  <2>2. TableOK(u)
    BY <1>1, <1>4, <1>5, <1>7, <1>8, <2>1 DEF TableOK
  <2>3. Points(u)
    BY <1>1, <1>9, <2>1 DEF Points, Unused
  <2>4. Closed(u) /\ Unused(u) /\ Reached(u)
    BY <1>1, <1>9, <2>1 DEF Closed, Unused, Reached
  <2> QED
    BY <2>2, <2>3, <2>4 DEF Good, u
<1>10. CASE type = "LPM"
  <2>1. /\ DOMAIN u.tree = DOMAIN t.tree \cup Way(p)
        /\ \A q \in DOMAIN u.tree :
              u.tree[q] = IF q = p THEN o
                          ELSE IF q \in DOMAIN t.tree THEN t.tree[q] ELSE NULL
        /\ u.tree = [q \in DOMAIN u.tree |-> u.tree[q]]
    BY <1>4, <1>10 DEF tree_nodeInsert
  <2>2. /\ Way(p) \subseteq Path
        /\ \A q \in Way(p) : Way(q) \subseteq Way(p)
    BY <1>2, WayProperties
  <2>3. DOMAIN u.tree \subseteq Path /\ u.tree \in [DOMAIN u.tree -> Objects \cup {NULL}]
    <3>1. \A q \in DOMAIN u.tree : u.tree[q] \in Objects \cup {NULL}
      BY <1>1, <2>1 DEF TableOK
    <3> QED
      BY <1>1, <2>1, <2>2, <3>1 DEF TableOK
  <2>4. TableOK(u)
    BY <1>4, <1>5, <1>7, <1>8, <2>3 DEF TableOK
  <2>5. Points(u)
    <3> SUFFICES ASSUME NEW q \in DOMAIN u.tree, u.tree[q] # NULL
                 PROVE  u.tree[q] \in Live(u) /\ PathOf(u.heap[u.tree[q]]) = q
      BY DEF Points
    <3>1. CASE q = p
      BY <1>5, <1>6, <2>1, <3>1 DEF p
    <3>2. CASE q # p
      <4>1. q \in DOMAIN t.tree /\ u.tree[q] = t.tree[q]
        BY <2>1, <3>2
      <4>2. t.tree[q] \in Live(t) /\ PathOf(t.heap[t.tree[q]]) = q
        BY <1>1, <4>1 DEF Points
      <4> QED
        BY <1>6, <4>1, <4>2
    <3> QED
      BY <3>1, <3>2
  <2>6. Closed(u)
    BY <1>1, <2>1, <2>2 DEF Closed
  <2>7. Unused(u)
    BY <1>10 DEF Unused
  <2>8. Reached(u)
    <3> SUFFICES ASSUME NEW x \in Live(u), PathOf(u.heap[x]) \notin u.spoiled
                 PROVE  /\ PathOf(u.heap[x]) \in DOMAIN u.tree
                        /\ u.tree[PathOf(u.heap[x])] = x
      BY DEF Reached
    <3>1. CASE x = o
      <4>1. PathOf(u.heap[x]) = p
        BY <1>5, <3>1 DEF p
      <4> QED
        BY <1>2, <2>1, <3>1, <4>1, WayProperties
    <3>2. CASE x # o
      <4>1. x \in Live(t) /\ u.heap[x] = t.heap[x]
        BY <1>5, <3>2 DEF Live
      <4>2. PathOf(t.heap[x]) # p
        BY <1>4, <1>10, <4>1
      <4>3. PathOf(t.heap[x]) \in DOMAIN t.tree /\ t.tree[PathOf(t.heap[x])] = x
        BY <1>1, <1>4, <1>10, <4>1 DEF Reached
      <4> QED
        BY <2>1, <4>1, <4>2, <4>3
    <3> QED
      BY <3>1, <3>2
  <2> QED
    BY <2>4, <2>5, <2>6, <2>7, <2>8 DEF Good, u
<1> QED
  BY <1>9, <1>10

\* tree_nodeDelete leaves a tree without a pointer at p, and every other
\* pointer in place. A node is freed only when no way goes through it.
LEMMA NodeDeleteTree ==
    ASSUME NEW t, Good(t), NEW p \in Path
    PROVE  LET u == tree_nodeDelete(t.tree, p) IN
           /\ DOMAIN u \subseteq DOMAIN t.tree /\ DOMAIN t.tree \ {p} \subseteq DOMAIN u
           /\ u \in [DOMAIN u -> Objects \cup {NULL}]
           /\ \A q \in DOMAIN u : Way(q) \subseteq DOMAIN u
           /\ \A q \in DOMAIN u : u[q] = IF q = p THEN NULL ELSE t.tree[q]
<1> DEFINE u == tree_nodeDelete(t.tree, p)
           D == DOMAIN t.tree
<1>1. /\ D \subseteq Path /\ t.tree \in [D -> Objects \cup {NULL}]
      /\ \A q \in D : Way(q) \subseteq D
  BY DEF Good, TableOK, Closed
<1>2. p \in Way(p)
  BY WayProperties
<1>3. CASE ~(Way(p) \subseteq D)
  <2>1. p \notin D
    BY <1>1, <1>3
  <2>2. u = t.tree
    BY <1>3 DEF tree_nodeDelete
  <2> QED
    BY <1>1, <2>1, <2>2
<1>4. CASE Way(p) \subseteq D /\ isLeaf(t.tree, p) /\ p # <<>>
  <2>1. u = [q \in D \ {p} |-> t.tree[q]]
    BY <1>4 DEF tree_nodeDelete
  <2>2. ASSUME NEW r \in D \ {p} PROVE Way(r) \subseteq D \ {p}
    <3>1. SUFFICES ASSUME p \in Way(r) PROVE FALSE
      BY <1>1
    <3>2. PICK b \in Symbols : Append(p, b) \in Way(r)
      BY <1>1, <3>1, WayGoesOn
    <3>3. Append(p, b) \in D
      BY <1>1, <3>2
    <3> QED
      BY <1>4, <3>3 DEF isLeaf
  <2> QED
    BY <1>1, <2>1, <2>2
<1>5. CASE Way(p) \subseteq D /\ ~(isLeaf(t.tree, p) /\ p # <<>>)
  <2>1. u = [t.tree EXCEPT ![p] = NULL]
    BY <1>5 DEF tree_nodeDelete
  <2> QED
    BY <1>1, <1>2, <1>5, <2>1
<1> QED
  BY <1>3, <1>4, <1>5

\* entryDelete: the pointer to the freed entry was at the node of its prefix
\* and is gone, whether or not another entry has overwritten it before.
LEMMA DeleteGood ==
    ASSUME NEW t, Good(t), NEW o \in Live(t)
    PROVE  Good(entryDelete(t, o)) /\ Live(entryDelete(t, o)) = Live(t) \ {o}
<1> DEFINE u == entryDelete(t, o)
           p == PathOf(t.heap[o])
<1>1. TableOK(t) /\ Points(t) /\ Closed(t) /\ Unused(t) /\ Reached(t)
  BY DEF Good
<1>2. o \in Objects /\ t.heap[o] \in Entry
  BY <1>1 DEF TableOK, Live
<1>3. p \in Path
  BY <1>2, PathOfEntry
<1>4. /\ u.heap = [t.heap EXCEPT ![o] = Free]
      /\ u.entryMap = hmap_nodeDelete(t.entryMap, o)
      /\ u.tree = IF type = "LPM" THEN tree_nodeDelete(t.tree, p) ELSE t.tree
      /\ u.spoiled = {q \in t.spoiled : \E l \in Live(t) \ {o} : PathOf(t.heap[l]) = q}
      /\ u = [heap |-> u.heap, entryMap |-> u.entryMap, tree |-> u.tree, spoiled |-> u.spoiled]
  BY DEF entryDelete
<1> HIDE DEF u, p
<1>5. u.heap \in [Objects -> Entry \cup {Free}] /\ u.heap[o] = Free
      /\ \A x \in Objects : x # o => u.heap[x] = t.heap[x]
  BY <1>1, <1>2, <1>4 DEF TableOK
<1>6. Live(u) = Live(t) \ {o}
  BY <1>5 DEF Live
<1>7. u.entryMap \in Seq(Objects)
  BY <1>1, <1>4, NodeDeleteType DEF TableOK
<1>8. u.spoiled \subseteq Path
  BY <1>1, <1>4 DEF TableOK
<1>9. Good(u)
  <2>1. CASE type # "LPM"
    <3>1. u.tree = t.tree
      BY <1>4, <2>1
    <3>2. TableOK(u)
      BY <1>1, <1>4, <1>5, <1>7, <1>8, <3>1 DEF TableOK
    <3>3. Points(u)
      BY <1>1, <2>1, <3>1 DEF Points, Unused
    <3>4. Closed(u) /\ Unused(u) /\ Reached(u)
      BY <1>1, <2>1, <3>1 DEF Closed, Unused, Reached
    <3> QED
      BY <3>2, <3>3, <3>4 DEF Good
  <2>2. CASE type = "LPM"
    <3>1. /\ DOMAIN u.tree \subseteq DOMAIN t.tree
          /\ DOMAIN t.tree \ {p} \subseteq DOMAIN u.tree
          /\ u.tree \in [DOMAIN u.tree -> Objects \cup {NULL}]
          /\ \A q \in DOMAIN u.tree : Way(q) \subseteq DOMAIN u.tree
          /\ \A q \in DOMAIN u.tree : u.tree[q] = IF q = p THEN NULL ELSE t.tree[q]
      BY <1>3, <1>4, <2>2, NodeDeleteTree
    <3>2. TableOK(u)
      BY <1>1, <1>4, <1>5, <1>7, <1>8, <3>1 DEF TableOK
    <3>3. Points(u)
      <4> SUFFICES ASSUME NEW q \in DOMAIN u.tree, u.tree[q] # NULL
                   PROVE  u.tree[q] \in Live(u) /\ PathOf(u.heap[u.tree[q]]) = q
        BY DEF Points
      <4>1. q # p /\ u.tree[q] = t.tree[q] /\ q \in DOMAIN t.tree
        BY <3>1
      <4>2. t.tree[q] \in Live(t) /\ PathOf(t.heap[t.tree[q]]) = q
        BY <1>1, <4>1 DEF Points
      <4>3. t.tree[q] # o
        BY <4>1, <4>2 DEF p
      <4>4. u.heap[t.tree[q]] = t.heap[t.tree[q]]
        BY <1>5, <4>2, <4>3 DEF Live
      <4> QED
        BY <1>6, <4>1, <4>2, <4>3, <4>4
    <3>4. Closed(u) /\ Unused(u)
      BY <2>2, <3>1 DEF Closed, Unused
    <3>5. Reached(u)
      <4> SUFFICES ASSUME NEW x \in Live(u), PathOf(u.heap[x]) \notin u.spoiled
                   PROVE  /\ PathOf(u.heap[x]) \in DOMAIN u.tree
                          /\ u.tree[PathOf(u.heap[x])] = x
        BY DEF Reached
      <4>1. x \in Live(t) /\ x # o /\ u.heap[x] = t.heap[x]
        BY <1>5, <1>6 DEF Live
      <4>2. PathOf(t.heap[x]) \notin t.spoiled
        BY <1>4, <4>1
      <4>3. PathOf(t.heap[x]) \in DOMAIN t.tree /\ t.tree[PathOf(t.heap[x])] = x
        BY <1>1, <2>2, <4>1, <4>2 DEF Reached
      <4>4. PathOf(t.heap[x]) # p
        <5>1. ASSUME PathOf(t.heap[x]) = p PROVE FALSE
          <6>1. t.tree[p] = o
            BY <1>1, <2>2, <4>2, <5>1 DEF Reached, p
          <6> QED
            BY <4>1, <4>3, <5>1, <6>1
        <5> QED
          BY <5>1
      <4> QED
        BY <3>1, <4>1, <4>3, <4>4
    <3> QED
      BY <3>2, <3>3, <3>4, <3>5 DEF Good
  <2> QED
    BY <2>1, <2>2
<1> QED
  BY <1>6, <1>9 DEF u
-----------------------------------------------------------------------------
(* The theorems.                                                           *)

\* IInv is inductive.
LEMMA Inductive == IInv /\ [Next]_vars => IInv'
<1> SUFFICES ASSUME IInv, [Next]_vars PROVE IInv'
  OBVIOUS
<1>1. type \in Types /\ Good(table)
  BY DEF IInv
<1>2. ASSUME NEW t, Good(t), table' = t, type' = type PROVE IInv'
  BY <1>1, <1>2 DEF IInv, Good, TableOK, Points, Closed, Unused, Reached, Live
<1>3. CASE add_flow_entry
  <2>1. PICK o \in Objects \ Live(table), e \in Entry : table' = entryInsert(table, o, e)
    BY <1>3 DEF add_flow_entry
  <2>2. Good(entryInsert(table, o, e))
    BY <1>1, InsertGood
  <2> QED
    BY <1>2, <1>3, <2>1, <2>2 DEF add_flow_entry
<1>4. CASE modify_flow_entry
  <2>1. PICK o \in Live(table) :
            \/ table' = entryDelete(table, o)
            \/ \E n \in Objects \ Live(entryDelete(table, o)), e \in Entry :
                    table' = entryInsert(entryDelete(table, o), n, e)
    BY <1>4 DEF modify_flow_entry
  <2>2. Good(entryDelete(table, o))
    BY <1>1, DeleteGood
  <2>3. \A n \in Objects \ Live(entryDelete(table, o)), e \in Entry :
            Good(entryInsert(entryDelete(table, o), n, e))
    BY <2>2, InsertGood
  <2>4. Good(table')
    BY <2>1, <2>2, <2>3
  <2>5. type' = type
    BY <1>4 DEF modify_flow_entry
  <2> QED
    BY <1>2, <2>4, <2>5
<1>5. CASE delete_flow_entry
  <2>1. PICK o \in Live(table) : table' = entryDelete(table, o)
    BY <1>5 DEF delete_flow_entry
  <2>2. Good(entryDelete(table, o))
    BY <1>1, DeleteGood
  <2> QED
    BY <1>2, <1>5, <2>1, <2>2 DEF delete_flow_entry
<1>6. CASE create_flow_table
  <2>1. TableOK(NewTable) /\ Points(NewTable) /\ Closed(NewTable)
    BY NewTableGood DEF Good
  <2>2. Live(NewTable) = {}
    BY DEF Live, NewTable
  <2>3. \A p \in DOMAIN NewTable.tree : NewTable.tree[p] = NULL
    BY DEF NewTable, tree_create
  <2> QED
    BY <1>6, <2>1, <2>2, <2>3 DEF create_flow_table, IInv, Good, TableOK, Points, Closed, Unused, Reached, Live
<1>7. CASE UNCHANGED vars
  BY <1>2, <1>1, <1>7 DEF vars
<1> QED
  BY <1>3, <1>4, <1>5, <1>6, <1>7 DEF Next

\* IInv holds in every reachable state.
LEMMA InvariantHolds == Spec => []IInv
<1>1. Init => IInv
  BY NewTableGood DEF Init, IInv
<1> QED
  BY <1>1, Inductive, PTL DEF Spec

\* The entry map, the tree and the heap keep their types, for every length of
\* key, every number of buckets and every number of entries.
THEOREM TypeCorrect == Spec => []TypeOK
<1>1. IInv => TypeOK
  BY DEF IInv, Good, TypeOK
<1> QED
  BY <1>1, InvariantHolds, PTL

\* The tree of an LPM table never points to freed memory, nor to an entry of
\* another prefix.
THEOREM TreeSafe == Spec => []PointersLive
<1>1. IInv => PointersLive
  BY DEF IInv, Good, Points, PointersLive
<1> QED
  BY <1>1, InvariantHolds, PTL

-----------------------------------------------------------------------------
(* Longest prefix match.                                                   *)

\* A beginning of a key is a path of its length.
LEMMA KeyPath ==
    ASSUME NEW key \in Key, NEW n \in 0..keyLen
    PROVE  /\ SubSeq(key, 1, n) \in Path
           /\ SubSeq(key, 1, n) \in Seq(Symbols)
           /\ Len(SubSeq(key, 1, n)) = n
           /\ \A i \in 1..n : SubSeq(key, 1, n)[i] = key[i]
<1>1. keyLen \in Nat
  BY LookupAssumption
<1>2. key \in Seq(Symbols)
  BY <1>1, SeqDef DEF Key
<1>3. Len(key) \in Nat /\ 1..Len(key) = 1..keyLen
  BY <1>2, LenProperties DEF Key
<1>4. Len(key) = keyLen
  BY <1>1, <1>3
<1>5. /\ SubSeq(key, 1, n) \in Seq(Symbols)
      /\ Len(SubSeq(key, 1, n)) = n
      /\ \A i \in 1..n : SubSeq(key, 1, n)[i] = key[i]
  BY <1>2, <1>4, Beginning
<1>6. Len(SubSeq(key, 1, n)) <= keyLen
  BY <1>1, <1>5
<1>7. SubSeq(key, 1, n) \in Path
  BY <1>5, <1>6, PathIsSeq, Zenon
<1> QED
  BY <1>5, <1>7

\* A mask whose ones come first has its ones at the positions up to their
\* number.
LEMMA ContiguousOnes ==
    ASSUME NEW mask \in Key, Contiguous(mask)
    PROVE  /\ get1sCountInBytes(mask) \in 0..keyLen
           /\ \A i \in 1..keyLen : mask[i] = 1 <=> i <= get1sCountInBytes(mask)
<1> DEFINE ones == {i \in 1..keyLen : mask[i] = 1}
           n == get1sCountInBytes(mask)
<1>1. keyLen \in Nat
  BY LookupAssumption
<1>2. IsFiniteSet(1..keyLen) /\ Cardinality(1..keyLen) = keyLen
  BY <1>1, FS_Interval
<1>3. IsFiniteSet(ones) /\ Cardinality(ones) <= keyLen
  BY <1>2, FS_Subset
<1>4. n = Cardinality(ones) /\ n \in Nat /\ n <= keyLen
  BY <1>3, FS_CardinalityType DEF get1sCountInBytes
<1>5. ones \subseteq 1..n
  <2> HIDE DEF n
  <2>1. \A i \in 1..keyLen : i > n => mask[i] = 0
    BY DEF Contiguous, n
  <2> QED
    BY <1>1, <1>4, <2>1
<1>6. IsFiniteSet(1..n) /\ Cardinality(1..n) = n
  <2> HIDE DEF n
  <2> QED
    BY <1>4, FS_Interval
<1>7. ones = 1..n
  <2> HIDE DEF n, ones
  <2> QED
    BY <1>4, <1>5, <1>6, FS_Subset
<1> HIDE DEF n
<1>8. \A i \in 1..keyLen : mask[i] = 1 <=> i <= n
  BY <1>1, <1>4, <1>7
<1> QED
  BY <1>1, <1>4, <1>8 DEF n

\* Under a contiguous mask, to match is to have the key begin with the path.
LEMMA MatchIsPrefix ==
    ASSUME NEW e \in Entry, Contiguous(e.mask), NEW key \in Key
    PROVE  LET n == get1sCountInBytes(e.mask) IN
           /\ n \in 0..keyLen
           /\ Len(PathOf(e)) = n
           /\ maskMatch(e, key) <=> PathOf(e) = SubSeq(key, 1, n)
<1> DEFINE n == get1sCountInBytes(e.mask)
<1>1. e.mask \in Key /\ e.value \in Key
  BY DEF Entry
<1>2. n \in 0..keyLen /\ \A i \in 1..keyLen : e.mask[i] = 1 <=> i <= n
  BY <1>1, ContiguousOnes
<1>3. PathOf(e) = SubSeq(e.value, 1, n)
  BY DEF PathOf
<1> HIDE DEF n
<1>4. /\ PathOf(e) \in Seq(Symbols) /\ Len(PathOf(e)) = n
      /\ \A i \in 1..n : PathOf(e)[i] = e.value[i]
  BY <1>1, <1>2, <1>3, KeyPath
<1>5. /\ SubSeq(key, 1, n) \in Seq(Symbols) /\ Len(SubSeq(key, 1, n)) = n
      /\ \A i \in 1..n : SubSeq(key, 1, n)[i] = key[i]
  BY <1>2, KeyPath
<1>6. maskMatch(e, key) <=> \A i \in 1..n : key[i] = e.value[i]
  BY <1>2, LookupAssumption DEF maskMatch
<1>7. (\A i \in 1..n : key[i] = e.value[i]) <=> PathOf(e) = SubSeq(key, 1, n)
  <2>1. ASSUME \A i \in 1..n : key[i] = e.value[i]
        PROVE  PathOf(e) = SubSeq(key, 1, n)
    <3>1. \A i \in 1..Len(PathOf(e)) : PathOf(e)[i] = SubSeq(key, 1, n)[i]
      BY <1>4, <1>5, <2>1
    <3> QED
      BY <1>4, <1>5, <3>1, SeqEqual
  <2>2. ASSUME PathOf(e) = SubSeq(key, 1, n)
        PROVE  \A i \in 1..n : key[i] = e.value[i]
    BY <1>4, <1>5, <2>2
  <2> QED
    BY <2>1, <2>2
<1> QED
  BY <1>2, <1>4, <1>6, <1>7 DEF n

\* tree_nodeLookup returns the pointer of the deepest node on the way that has
\* one. It is to a live entry whose path begins the key.
LEMMA LpmLookupFinds ==
    ASSUME IInv, NEW key \in Key, Hits(table.tree, key) # {}
    PROVE  \E n \in Hits(table.tree, key) :
              /\ \A m \in Hits(table.tree, key) : m <= n
              /\ n \in 0..keyLen
              /\ entryLookup_LPM(key) \in Live(table)
              /\ PathOf(table.heap[entryLookup_LPM(key)]) = SubSeq(key, 1, n)
<1> DEFINE H == Hits(table.tree, key)
           n == Max(H)
<1>1. H \subseteq 0..keyLen /\ keyLen \in Nat
  BY LookupAssumption DEF Hits
<1>2. \E x \in H : \A y \in H : x >= y
  <2> HIDE DEF H
  <2> QED  BY <1>1, GreatestNat DEF H
<1>3. n \in H /\ \A m \in H : n >= m
  <2> HIDE DEF H
  <2> QED  BY <1>2 DEF Max
<1>4. entryLookup_LPM(key) = table.tree[SubSeq(key, 1, n)]
  BY DEF entryLookup_LPM, tree_nodeLookup
<1> HIDE DEF n
<1>5. /\ n \in 0..keyLen
      /\ Way(SubSeq(key, 1, n)) \subseteq DOMAIN table.tree
      /\ table.tree[SubSeq(key, 1, n)] # NULL
  BY <1>3 DEF Hits
<1>6. SubSeq(key, 1, n) \in DOMAIN table.tree
  BY <1>5, KeyPath, WayProperties
<1>7. /\ entryLookup_LPM(key) \in Live(table)
      /\ PathOf(table.heap[entryLookup_LPM(key)]) = SubSeq(key, 1, n)
  BY <1>4, <1>5, <1>6 DEF IInv, Good, Points
<1> HIDE DEF H
<1>8. \A m \in H : m <= n
  BY <1>1, <1>3, <1>5
<1> QED
  BY <1>3, <1>5, <1>7, <1>8 DEF H

\* The lookup of an LPM table is longest prefix match, for keys of every
\* length and every history of the table, as far as no matching entry shares
\* its prefix.
THEOREM LpmCorrect == Spec => []LpmLongest
<1>1. IInv => LpmLongest
  <2> SUFFICES ASSUME IInv, type = "LPM",
                      \A o \in Live(table) : Contiguous(table.heap[o].mask),
                      NEW key \in Key,
                      \A o \in {l \in Live(table) : maskMatch(table.heap[l], key)} :
                            PathOf(table.heap[o]) \notin table.spoiled
               PROVE  LET match == {o \in Live(table) : maskMatch(table.heap[o], key)}
                          found == entryLookup_LPM(key)
                      IN  IF match = {} THEN found = NULL
                          ELSE /\ found \in match
                               /\ \A o \in match : get1sCountInBytes(table.heap[o].mask)
                                            <= get1sCountInBytes(table.heap[found].mask)
    BY DEF LpmLongest
  <2> DEFINE match == {o \in Live(table) : maskMatch(table.heap[o], key)}
             found == entryLookup_LPM(key)
             H == Hits(table.tree, key)
             ones(o) == get1sCountInBytes(table.heap[o].mask)
  <2>1. ASSUME NEW o \in Live(table)
        PROVE  /\ ones(o) \in 0..keyLen
               /\ Len(PathOf(table.heap[o])) = ones(o)
               /\ maskMatch(table.heap[o], key) <=> PathOf(table.heap[o]) = SubSeq(key, 1, ones(o))
    <3>1. table.heap[o] \in Entry
      BY DEF IInv, Good, TableOK, Live
    <3> QED
      BY <3>1, MatchIsPrefix
  <2>2. ASSUME NEW o \in match PROVE ones(o) \in H
    <3>1. PathOf(table.heap[o]) = SubSeq(key, 1, ones(o))
      BY <2>1
    <3>2. PathOf(table.heap[o]) \notin table.spoiled
      OBVIOUS
    <3>3. /\ SubSeq(key, 1, ones(o)) \in DOMAIN table.tree
          /\ table.tree[SubSeq(key, 1, ones(o))] = o
      BY <3>1, <3>2 DEF IInv, Good, Reached
    <3>4. Way(SubSeq(key, 1, ones(o))) \subseteq DOMAIN table.tree
      BY <3>3 DEF IInv, Good, Closed
    <3>5. o # NULL
      BY LookupAssumption DEF Live
    <3> QED
      BY <2>1, <3>3, <3>4, <3>5 DEF Hits
  <2>3. CASE H = {}
    <3>1. match = {}
      BY <2>2, <2>3
    <3>2. found = NULL
      BY <2>3 DEF entryLookup_LPM, tree_nodeLookup
    <3> QED
      BY <3>1, <3>2
  <2>4. CASE H # {}
    <3>1. PICK n \in H : /\ \A m \in H : m <= n
                         /\ n \in 0..keyLen
                         /\ found \in Live(table)
                         /\ PathOf(table.heap[found]) = SubSeq(key, 1, n)
      BY <2>4, LpmLookupFinds
    <3> HIDE DEF found
    <3>2. ones(found) = n
      BY <2>1, <3>1, KeyPath
    <3>3. found \in match
      BY <2>1, <3>1, <3>2
    <3>4. \A o \in match : ones(o) <= ones(found)
      BY <2>2, <3>1, <3>2
    <3> QED
      BY <3>3, <3>4 DEF found
  <2> QED
    BY <2>3, <2>4
<1> QED
  BY <1>1, InvariantHolds, PTL
-----------------------------------------------------------------------------
(* The best of all matches.                                                *)

\* The hash map has every entry of the table, once.
Mapped(t) ==
    /\ \A i \in 1..Len(t.entryMap) : t.entryMap[i] \in Live(t)
    /\ \A o \in Live(t) : \E i \in 1..Len(t.entryMap) : t.entryMap[i] = o
    /\ \A i, j \in 1..Len(t.entryMap) : t.entryMap[i] = t.entryMap[j] => i = j

LEMMA InsertMapped ==
    ASSUME NEW t, Good(t), Mapped(t), NEW o \in Objects, o \notin Live(t), NEW e \in Entry
    PROVE  Mapped(entryInsert(t, o, e))
<1>1. PICK u : u = entryInsert(t, o, e)
  OBVIOUS
<1>2. u.heap = [t.heap EXCEPT ![o] = e] /\ u.entryMap = <<o>> \o t.entryMap
  BY <1>1 DEF entryInsert
<1>3. t.heap \in [Objects -> Entry \cup {Free}] /\ t.entryMap \in Seq(Objects) /\ e # Free
  BY EntryNotFree DEF Good, TableOK
<1>4. Live(u) = Live(t) \cup {o}
  BY <1>2, <1>3 DEF Live
<1>5. PICK s \in Seq(Objects) : s = t.entryMap
  BY <1>3
<1>6. PICK n \in Nat : n = Len(s)
  BY LenProperties
<1>7. PICK v : v = u.entryMap
  OBVIOUS
<1>8. Len(v) = n + 1 /\ v[1] = o /\ \A i \in 2..(n + 1) : v[i] = s[i - 1]
  BY <1>2, <1>5, <1>6, <1>7, ConsProperties
<1>9. \A i \in 1..(n + 1) : i = 1 \/ (i \in 2..(n + 1) /\ i - 1 \in 1..n)
  OBVIOUS
<1>10. \A i \in 1..n : i + 1 \in 2..(n + 1) /\ i + 1 \in 1..(n + 1) /\ (i + 1) - 1 = i
  OBVIOUS
<1>11. /\ \A i \in 1..n : s[i] \in Live(t)
       /\ \A x \in Live(t) : \E i \in 1..n : s[i] = x
       /\ \A i, j \in 1..n : s[i] = s[j] => i = j
  BY <1>5, <1>6 DEF Mapped
<1>12. \A i \in 1..(n + 1) : v[i] \in Live(u)
  BY <1>4, <1>8, <1>9, <1>11
<1>13. ASSUME NEW x \in Live(u) PROVE \E i \in 1..(n + 1) : v[i] = x
  <2>1. CASE x = o
    <3>1. 1 \in 1..(n + 1)
      OBVIOUS
    <3> QED
      BY <1>8, <2>1, <3>1
  <2>2. CASE x # o
    <3>1. PICK i \in 1..n : s[i] = x
      BY <1>4, <1>11, <2>2
    <3>2. v[i + 1] = x
      BY <1>8, <1>10, <3>1
    <3> QED
      BY <1>10, <3>2
  <2> QED
    BY <2>1, <2>2
<1>14. ASSUME NEW i \in 1..(n + 1), NEW j \in 1..(n + 1), v[i] = v[j] PROVE i = j
  <2>1. \A k \in 1..(n + 1) : k # 1 => v[k] # o
    BY <1>8, <1>9, <1>11
  <2>2. CASE i = 1 \/ j = 1
    BY <1>8, <1>14, <2>1, <2>2
  <2>3. CASE i # 1 /\ j # 1
    <3>1. i - 1 \in 1..n /\ j - 1 \in 1..n /\ s[i - 1] = s[j - 1]
      BY <1>8, <1>9, <1>14, <2>3
    <3>2. i - 1 = j - 1
      BY <1>11, <3>1
    <3> QED
      BY <3>2
  <2> QED
    BY <2>2, <2>3
<1>15. Mapped(u)
  BY <1>7, <1>8, <1>12, <1>13, <1>14 DEF Mapped
<1> QED
  BY <1>1, <1>15

LEMMA DeleteMapped ==
    ASSUME NEW t, Good(t), Mapped(t), NEW o \in Live(t)
    PROVE  Mapped(entryDelete(t, o))
<1>1. PICK u : u = entryDelete(t, o)
  OBVIOUS
<1>2. u.entryMap = hmap_nodeDelete(t.entryMap, o)
  BY <1>1 DEF entryDelete
<1>3. Live(u) = Live(t) \ {o}
  BY <1>1, DeleteGood
<1>4. PICK s \in Seq(Objects) : s = t.entryMap
  BY DEF Good, TableOK
<1>5. PICK n \in Nat : n = Len(s)
  BY LenProperties
<1>6. PICK v : v = u.entryMap
  OBVIOUS
<1>7. /\ \A i \in 1..n : s[i] \in Live(t)
      /\ \A x \in Live(t) : \E i \in 1..n : s[i] = x
      /\ \A i, j \in 1..n : s[i] = s[j] => i = j
  BY <1>4, <1>5 DEF Mapped
<1>8. PICK p \in 1..n : s[p] = o
  BY <1>7
<1>9. {i \in DOMAIN s : s[i] = o} = {p}
  BY <1>5, <1>7, <1>8, LenProperties
<1>10. Min({p}) = p
  BY DEF Min
<1>11. v = RemoveAt(s, p)
  BY <1>2, <1>4, <1>6, <1>9, <1>10 DEF hmap_nodeDelete
<1>12. Len(v) = n - 1 /\ \A i \in 1..(n - 1) : v[i] = IF i < p THEN s[i] ELSE s[i + 1]
  BY <1>5, <1>8, <1>11, RemoveAtProperties
<1>13. \A i \in 1..(n - 1) : i \in 1..n /\ i + 1 \in 1..n
  OBVIOUS
<1>14. ASSUME NEW i \in 1..(n - 1) PROVE v[i] \in Live(u)
  <2>1. CASE i < p
    <3>1. i # p /\ v[i] = s[i]
      BY <1>12, <2>1
    <3> QED
      BY <1>3, <1>7, <1>8, <1>13, <3>1
  <2>2. CASE ~(i < p)
    <3>1. i + 1 # p /\ v[i] = s[i + 1]
      BY <1>12, <2>2
    <3> QED
      BY <1>3, <1>7, <1>8, <1>13, <3>1
  <2> QED
    BY <2>1, <2>2
<1>15. ASSUME NEW x \in Live(u) PROVE \E i \in 1..(n - 1) : v[i] = x
  <2>1. PICK k \in 1..n : s[k] = x
    BY <1>3, <1>7
  <2>2. k # p
    BY <1>3, <1>8, <2>1
  <2>3. CASE k < p
    <3>1. k \in 1..(n - 1)
      BY <2>3
    <3> QED
      BY <1>12, <2>1, <2>3, <3>1
  <2>4. CASE k > p
    <3>1. k - 1 \in 1..(n - 1) /\ ~(k - 1 < p) /\ (k - 1) + 1 = k
      BY <2>4
    <3> QED
      BY <1>12, <2>1, <3>1
  <2> QED
    BY <2>2, <2>3, <2>4
<1>16. ASSUME NEW i \in 1..(n - 1), NEW j \in 1..(n - 1), v[i] = v[j] PROVE i = j
  <2>1. PICK k \in 1..n : v[i] = s[k] /\ k = IF i < p THEN i ELSE i + 1
    BY <1>12, <1>13
  <2>2. PICK l \in 1..n : v[j] = s[l] /\ l = IF j < p THEN j ELSE j + 1
    BY <1>12, <1>13
  <2>3. k = l
    BY <1>7, <1>16, <2>1, <2>2
  <2> QED
    BY <2>1, <2>2, <2>3
<1>17. Mapped(u)
  BY <1>6, <1>12, <1>14, <1>15, <1>16 DEF Mapped
<1> QED
  BY <1>1, <1>17

\* What the two loops of entryLookup_MM compute.
IsInner(f, key, start, b) ==
    f = [i \in 0..Len(table.entryMap) |->
            IF i = 0 THEN start
            ELSE IF table.heap[table.entryMap[i]].bucket # b THEN f[i - 1]
            ELSE Visit(key, f[i - 1], table.entryMap[i])]
Inner(key, start, b) == (CHOOSE f : IsInner(f, key, start, b))[Len(table.entryMap)]

IsOuter(f, key) ==
    f = [b \in 0..Buckets |-> IF b = 0 THEN NULL ELSE Inner(key, f[b - 1], b - 1)]

LEMMA TwoLoops ==
    ASSUME NEW key
    PROVE  entryLookup_MM(key) = (CHOOSE f : IsOuter(f, key))[Buckets]
  BY DEF entryLookup_MM, Chain, Inner, IsInner, IsOuter

\* r is a match of highest priority among the entries in S, or NULL.
Best(S, key, r) ==
    /\ r = NULL => \A o \in S : ~maskMatch(table.heap[o], key)
    /\ r # NULL => /\ r \in S /\ maskMatch(table.heap[r], key)
                   /\ \A o \in S : maskMatch(table.heap[o], key) =>
                            table.heap[o].priority <= table.heap[r].priority

\* The loop visits one more entry.
LEMMA VisitBest ==
    ASSUME IInv, NEW key, NEW S, S \subseteq Live(table), NEW o \in Live(table), NEW r, Best(S, key, r)
    PROVE  Best(S \cup {o}, key, Visit(key, r, o))
<1>1. \A x \in Live(table) : x # NULL /\ table.heap[x] \in Entry
  BY LookupAssumption DEF IInv, Good, TableOK, Live
<1>2. \A x \in Live(table) : table.heap[x].priority \in Nat
  BY <1>1, LookupAssumption DEF Entry
<1>3. CASE ~maskMatch(table.heap[o], key)
  <2>1. Visit(key, r, o) = r
    BY <1>3 DEF Visit
  <2> QED
    BY <1>3, <2>1 DEF Best
<1>4. CASE maskMatch(table.heap[o], key) /\ r = NULL
  <2>1. Visit(key, r, o) = o
    BY <1>4 DEF Visit
  <2>2. \A x \in S : ~maskMatch(table.heap[x], key)
    BY <1>4 DEF Best
  <2> QED
    BY <1>1, <1>2, <1>4, <2>1, <2>2 DEF Best
<1>5. CASE maskMatch(table.heap[o], key) /\ r # NULL
  <2>1. /\ r \in S /\ maskMatch(table.heap[r], key)
        /\ \A x \in S : maskMatch(table.heap[x], key) =>
                            table.heap[x].priority <= table.heap[r].priority
    BY <1>5 DEF Best
  <2>2. CASE table.heap[r].priority < table.heap[o].priority
    <3>1. Visit(key, r, o) = o
      BY <1>5, <2>2 DEF Visit
    <3>2. \A x \in S : maskMatch(table.heap[x], key) =>
                            table.heap[x].priority <= table.heap[o].priority
      BY <1>2, <2>1, <2>2
    <3> QED
      BY <1>1, <1>2, <1>5, <3>1, <3>2 DEF Best
  <2>3. CASE ~(table.heap[r].priority < table.heap[o].priority)
    <3>1. Visit(key, r, o) = r
      BY <1>5, <2>3 DEF Visit
    <3>2. table.heap[o].priority <= table.heap[r].priority
      BY <1>2, <2>1, <2>3
    <3> QED
      BY <1>5, <2>1, <3>1, <3>2 DEF Best
  <2> QED
    BY <2>2, <2>3
<1> QED
  BY <1>3, <1>4, <1>5

\* The inner loop is defined.
LEMMA InnerDefined ==
    ASSUME IInv, NEW key, NEW start \in Objects \cup {NULL}, NEW b
    PROVE  \E f : /\ IsInner(f, key, start, b)
                  /\ f \in [0..Len(table.entryMap) -> Objects \cup {NULL}]
                  /\ Inner(key, start, b) = f[Len(table.entryMap)]
<1>1. table.entryMap \in Seq(Objects)
  BY DEF IInv, Good, TableOK
<1>2. PICK n \in Nat : n = Len(table.entryMap)
  BY <1>1, LenProperties
<1>3. PICK R : R = Objects \cup {NULL}
  OBVIOUS
<1>4. PICK Do : Do = [x \in (1..n) \X R |->
                        IF table.heap[table.entryMap[x[1]]].bucket # b THEN x[2]
                        ELSE Visit(key, x[2], table.entryMap[x[1]])]
  OBVIOUS
<1>5. ASSUME NEW i \in 1..n, NEW r \in R
      PROVE  /\ Do[<<i, r>>] = IF table.heap[table.entryMap[i]].bucket # b THEN r
                               ELSE Visit(key, r, table.entryMap[i])
             /\ Do[<<i, r>>] \in R
  <2>1. Do[<<i, r>>] = IF table.heap[table.entryMap[i]].bucket # b THEN r
                       ELSE Visit(key, r, table.entryMap[i])
    BY <1>4
  <2>2. table.entryMap[i] \in R
    BY <1>1, <1>2, <1>3, ElementOfSeq
  <2>3. Visit(key, r, table.entryMap[i]) \in R
    BY <2>2 DEF Visit
  <2> QED
    BY <2>1, <2>3
<1>6. Do \in [(1..n) \X R -> R]
  <2>1. ASSUME NEW x \in (1..n) \X R PROVE Do[x] \in R
    <3>1. x = <<x[1], x[2]>> /\ x[1] \in 1..n /\ x[2] \in R
      OBVIOUS
    <3> QED
      BY <1>5, <3>1
  <2> QED
    BY <1>4, <2>1
<1>7. PICK f \in [0..n -> R] : f[0] = start /\ \A i \in 1..n : f[i] = Do[<<i, f[i - 1]>>]
  <2>1. start \in R
    BY <1>3
  <2>2. PICK f \in [0..n -> R] : IsLoop(f, start, n, Do)
    BY <1>6, <2>1, LoopExists, Zenon
  <2> QED
    BY <2>2 DEF IsLoop
<1>8. ASSUME NEW i \in 0..n
      PROVE  f[i] = IF i = 0 THEN start
                    ELSE IF table.heap[table.entryMap[i]].bucket # b THEN f[i - 1]
                    ELSE Visit(key, f[i - 1], table.entryMap[i])
  <2>1. CASE i = 0
    BY <1>7, <2>1
  <2>2. CASE i # 0
    <3>1. i \in 1..n /\ i - 1 \in 0..n
      BY <2>2
    <3>2. f[i - 1] \in R
      BY <1>7, <3>1
    <3> QED
      BY <1>5, <1>7, <2>2, <3>1, <3>2
  <2> QED
    BY <2>1, <2>2
<1>9. IsInner(f, key, start, b)
  BY <1>2, <1>7, <1>8 DEF IsInner
<1>10. PICK g : g = CHOOSE h : IsInner(h, key, start, b)
  OBVIOUS
<1>11. IsInner(g, key, start, b)
  BY <1>9, <1>10
<1>12. Inner(key, start, b) = g[n]
  BY <1>2, <1>10 DEF Inner
<1>13. ASSUME NEW i \in 0..n
       PROVE  g[i] = IF i = 0 THEN start
                     ELSE IF table.heap[table.entryMap[i]].bucket # b THEN g[i - 1]
                     ELSE Visit(key, g[i - 1], table.entryMap[i])
  BY <1>2, <1>11 DEF IsInner
<1>14. DOMAIN g = 0..n /\ g = [i \in 0..n |-> g[i]]
  BY <1>2, <1>11 DEF IsInner
<1>15. ASSUME NEW T, T = {i \in 0..n : g[i] \notin R}, T # {} PROVE FALSE
  <2>1. PICK i \in T : \A j \in T : i <= j
    <3>1. T \subseteq Nat
      BY <1>15
    <3> QED
      BY <1>15, <3>1, LeastNat
  <2>2. i \in 0..n /\ g[i] \notin R
    BY <1>15
  <2>3. i # 0
    BY <1>3, <1>13, <2>2
  <2>4. i \in 1..n /\ i - 1 \in 0..n /\ ~(i <= i - 1)
    BY <2>2, <2>3
  <2>5. g[i - 1] \in R
    BY <1>15, <2>1, <2>4
  <2>6. g[i] = Do[<<i, g[i - 1]>>]
    BY <1>5, <1>13, <2>2, <2>3, <2>4, <2>5
  <2> QED
    BY <1>5, <2>2, <2>4, <2>5, <2>6
<1>16. g \in [0..n -> R]
  BY <1>14, <1>15
<1> QED
  BY <1>2, <1>3, <1>11, <1>12, <1>16

\* The entries in the buckets before b.
Below(b) == {o \in Live(table) : table.heap[o].bucket < b}

\* The inner loop: the best before a bucket becomes the best after it.
LEMMA InnerBest ==
    ASSUME IInv, Mapped(table), NEW key, NEW b \in Nat,
           NEW start \in Objects \cup {NULL}, Best(Below(b), key, start)
    PROVE  Best(Below(b + 1), key, Inner(key, start, b))
<1>1. PICK s \in Seq(Objects) : s = table.entryMap
  BY DEF IInv, Good, TableOK
<1>2. PICK n \in Nat : n = Len(s)
  BY LenProperties
<1>3. PICK f : IsInner(f, key, start, b) /\ Inner(key, start, b) = f[n]
  BY <1>1, <1>2, InnerDefined
<1>4. ASSUME NEW i \in 0..n
      PROVE  f[i] = IF i = 0 THEN start
                    ELSE IF table.heap[s[i]].bucket # b THEN f[i - 1]
                    ELSE Visit(key, f[i - 1], s[i])
  BY <1>1, <1>2, <1>3 DEF IsInner
<1>5. /\ \A i \in 1..n : s[i] \in Live(table)
      /\ \A o \in Live(table) : \E i \in 1..n : s[i] = o
  BY <1>1, <1>2 DEF Mapped
<1>6. \A o \in Live(table) : table.heap[o].bucket \in Nat
  <2>1. \A o \in Live(table) : table.heap[o] \in Entry
    BY DEF IInv, Good, TableOK, Live
  <2> QED
    BY <2>1, LookupAssumption DEF Entry
<1> DEFINE Seen(i) == Below(b) \cup {o \in Live(table) : table.heap[o].bucket = b /\ \E j \in 1..i : s[j] = o}
           T == {i \in 0..n : ~Best(Seen(i), key, f[i])}
<1>7. Seen(0) = Below(b)
  OBVIOUS
<1>8. ASSUME NEW i \in 1..n
      PROVE  Seen(i) = IF table.heap[s[i]].bucket = b THEN Seen(i - 1) \cup {s[i]} ELSE Seen(i - 1)
  <2>1. \A j \in 1..i : j = i \/ j \in 1..(i - 1)
    OBVIOUS
  <2>2. \A j \in 1..(i - 1) : j \in 1..i
    OBVIOUS
  <2>3. i \in 1..i
    OBVIOUS
  <2> QED
    BY <1>5, <2>1, <2>2, <2>3
<1>9. \A i \in 0..n : Seen(i) \subseteq Live(table)
  BY DEF Below
<1>10. Seen(n) = Below(b + 1)
  <2>1. \A o \in Live(table) : table.heap[o].bucket < b + 1 <=>
                    table.heap[o].bucket < b \/ table.heap[o].bucket = b
    BY <1>6
  <2> QED
    BY <1>5, <2>1 DEF Below
<1> HIDE DEF Seen
<1>11. ASSUME T # {} PROVE FALSE
  <2>1. T \subseteq Nat
    OBVIOUS
  <2>2. PICK i \in T : \A j \in T : i <= j
    <3> HIDE DEF T
    <3> QED
      BY <1>11, <2>1, LeastNat
  <2>3. i \in 0..n /\ ~Best(Seen(i), key, f[i])
    OBVIOUS
  <2>4. i # 0
    BY <1>4, <1>7, <2>3
  <2>5. i \in 1..n /\ i - 1 \in 0..n /\ ~(i <= i - 1)
    BY <2>3, <2>4
  <2>6. i - 1 \notin T
    <3> HIDE DEF T
    <3> QED
      BY <2>2, <2>5
  <2>7. Best(Seen(i - 1), key, f[i - 1])
    BY <2>5, <2>6
  <2>8. CASE table.heap[s[i]].bucket # b
    <3>1. Seen(i) = Seen(i - 1) /\ f[i] = f[i - 1]
      BY <1>4, <1>8, <2>3, <2>4, <2>5, <2>8
    <3> QED
      BY <2>3, <2>7, <3>1
  <2>9. CASE table.heap[s[i]].bucket = b
    <3>1. Seen(i) = Seen(i - 1) \cup {s[i]}
      BY <1>8, <2>5, <2>9
    <3>2. f[i] = Visit(key, f[i - 1], s[i])
      BY <1>4, <2>3, <2>4, <2>9
    <3>3. Best(Seen(i - 1) \cup {s[i]}, key, Visit(key, f[i - 1], s[i]))
      BY <1>5, <1>9, <2>5, <2>7, VisitBest
    <3> QED
      BY <2>3, <3>1, <3>2, <3>3
  <2> QED
    BY <2>8, <2>9
<1>12. Best(Seen(n), key, f[n])
  BY <1>11
<1> QED
  BY <1>3, <1>10, <1>12

\* The outer loop is defined.
LEMMA OuterDefined ==
    ASSUME IInv, NEW key
    PROVE  \E f : /\ IsOuter(f, key)
                  /\ f \in [0..Buckets -> Objects \cup {NULL}]
                  /\ entryLookup_MM(key) = f[Buckets]
<1>1. Buckets \in Nat
  BY LookupAssumption
<1>2. PICK R : R = Objects \cup {NULL}
  OBVIOUS
<1>3. ASSUME NEW r \in R, NEW b PROVE Inner(key, r, b) \in R
  <2>1. Len(table.entryMap) \in Nat
    BY LenProperties DEF IInv, Good, TableOK
  <2>2. Len(table.entryMap) \in 0..Len(table.entryMap)
    BY <2>1
  <2>3. PICK f : f \in [0..Len(table.entryMap) -> R] /\ Inner(key, r, b) = f[Len(table.entryMap)]
    BY <1>2, InnerDefined
  <2> QED
    BY <2>2, <2>3
<1>4. PICK Do : Do = [x \in (1..Buckets) \X R |-> Inner(key, x[2], x[1] - 1)]
  OBVIOUS
<1>5. \A b \in 1..Buckets, r \in R : Do[<<b, r>>] = Inner(key, r, b - 1)
  BY <1>4
<1>6. Do \in [(1..Buckets) \X R -> R]
  BY <1>3, <1>4
<1>7. PICK f \in [0..Buckets -> R] : f[0] = NULL /\ \A b \in 1..Buckets : f[b] = Do[<<b, f[b - 1]>>]
  <2>1. NULL \in R
    BY <1>2
  <2>2. PICK f \in [0..Buckets -> R] : IsLoop(f, NULL, Buckets, Do)
    BY <1>1, <1>6, <2>1, LoopExists, Zenon
  <2> QED
    BY <2>2 DEF IsLoop
<1>8. ASSUME NEW b \in 0..Buckets
      PROVE  f[b] = IF b = 0 THEN NULL ELSE Inner(key, f[b - 1], b - 1)
  <2>1. CASE b = 0
    BY <1>7, <2>1
  <2>2. CASE b # 0
    <3>1. b \in 1..Buckets /\ b - 1 \in 0..Buckets
      BY <1>1, <2>2
    <3>2. f[b - 1] \in R
      BY <1>7, <3>1
    <3> QED
      BY <1>5, <1>7, <2>2, <3>1, <3>2
  <2> QED
    BY <2>1, <2>2
<1>9. IsOuter(f, key)
  BY <1>7, <1>8 DEF IsOuter
<1>10. PICK g : g = CHOOSE h : IsOuter(h, key)
  OBVIOUS
<1>11. IsOuter(g, key)
  BY <1>9, <1>10
<1>12. entryLookup_MM(key) = g[Buckets]
  BY <1>10, TwoLoops
<1>13. ASSUME NEW b \in 0..Buckets
       PROVE  g[b] = IF b = 0 THEN NULL ELSE Inner(key, g[b - 1], b - 1)
  BY <1>11 DEF IsOuter
<1>14. g = [b \in 0..Buckets |-> g[b]]
  BY <1>11 DEF IsOuter
<1>15. ASSUME NEW T, T = {b \in 0..Buckets : g[b] \notin R}, T # {} PROVE FALSE
  <2>1. PICK b \in T : \A c \in T : b <= c
    <3>1. T \subseteq Nat
      BY <1>1, <1>15
    <3> QED
      BY <1>15, <3>1, LeastNat
  <2>2. b \in 0..Buckets /\ g[b] \notin R
    BY <1>15
  <2>3. b # 0
    BY <1>2, <1>13, <2>2
  <2>4. b - 1 \in 0..Buckets /\ ~(b <= b - 1)
    BY <1>1, <2>2, <2>3
  <2>5. g[b - 1] \in R
    BY <1>15, <2>1, <2>4
  <2> QED
    BY <1>3, <1>13, <2>2, <2>3, <2>5
<1>16. g \in [0..Buckets -> R]
  BY <1>14, <1>15
<1> QED
  BY <1>2, <1>11, <1>12, <1>16

\* The outer loop: after all buckets, the best of all entries.
LEMMA LookupBest ==
    ASSUME IInv, Mapped(table), NEW key
    PROVE  Best(Live(table), key, entryLookup_MM(key))
<1>1. Buckets \in Nat
  BY LookupAssumption
<1>2. PICK f : /\ IsOuter(f, key)
               /\ f \in [0..Buckets -> Objects \cup {NULL}]
               /\ entryLookup_MM(key) = f[Buckets]
  BY OuterDefined
<1>3. \A b \in 0..Buckets : f[b] = IF b = 0 THEN NULL ELSE Inner(key, f[b - 1], b - 1)
  BY <1>2 DEF IsOuter
<1>4. \A o \in Live(table) : table.heap[o].bucket \in Nat /\ table.heap[o].bucket < Buckets
  <2>1. \A o \in Live(table) : table.heap[o] \in Entry
    BY DEF IInv, Good, TableOK, Live
  <2>2. \A o \in Live(table) : table.heap[o].bucket \in 0..(Buckets - 1)
    BY <2>1 DEF Entry
  <2> QED
    BY <1>1, <2>2
<1>5. ASSUME NEW T, T = {b \in 0..Buckets : ~Best(Below(b), key, f[b])}, T # {} PROVE FALSE
  <2>1. PICK b \in T : \A c \in T : b <= c
    <3>1. T \subseteq Nat
      BY <1>1, <1>5
    <3> QED
      BY <1>5, <3>1, LeastNat
  <2>2. b \in 0..Buckets /\ ~Best(Below(b), key, f[b])
    BY <1>5
  <2>3. b # 0
    <3>1. Below(0) = {}
      BY <1>4 DEF Below
    <3>2. f[0] = NULL
      BY <1>1, <1>3
    <3>3. Best(Below(0), key, f[0])
      BY <3>1, <3>2 DEF Best
    <3> QED
      BY <2>2, <3>3
  <2>4. PICK c \in Nat : c = b - 1
    BY <1>1, <2>2, <2>3
  <2>5. c \in 0..Buckets /\ ~(b <= c) /\ c + 1 = b
    BY <1>1, <2>2, <2>3, <2>4
  <2>6. Best(Below(c), key, f[c])
    BY <1>5, <2>1, <2>5
  <2>7. f[c] \in Objects \cup {NULL}
    BY <1>2, <2>5
  <2>8. Best(Below(c + 1), key, Inner(key, f[c], c))
    BY <2>6, <2>7, InnerBest
  <2>9. f[b] = Inner(key, f[c], c)
    BY <1>3, <2>2, <2>3, <2>4
  <2> QED
    BY <2>2, <2>5, <2>8, <2>9
<1>6. Best(Below(Buckets), key, f[Buckets])
  <2>1. Buckets \in 0..Buckets
    BY <1>1
  <2> QED
    BY <1>5, <2>1
<1>7. Below(Buckets) = Live(table)
  BY <1>4 DEF Below
<1> QED
  BY <1>2, <1>6, <1>7

\* Every entry stays in the hash map, once.
LEMMA MappedHolds == Spec => []Mapped(table)
<1>1. Init => Mapped(table)
  BY DEF Init, NewTable, Mapped, Live
<1>2. IInv /\ Mapped(table) /\ [Next]_vars => Mapped(table)'
  <2> SUFFICES ASSUME IInv, Mapped(table), [Next]_vars PROVE Mapped(table)'
    OBVIOUS
  <2>1. Good(table)
    BY DEF IInv
  <2>2. ASSUME NEW t, Mapped(t), table' = t PROVE Mapped(table)'
    BY <2>2 DEF Mapped, Live
  <2>3. CASE add_flow_entry
    <3>1. PICK o \in Objects \ Live(table), e \in Entry : table' = entryInsert(table, o, e)
      BY <2>3 DEF add_flow_entry
    <3>2. Mapped(entryInsert(table, o, e))
      BY <2>1, InsertMapped
    <3> QED
      BY <2>2, <3>1, <3>2
  <2>4. ASSUME NEW o \in Live(table)
        PROVE  Good(entryDelete(table, o)) /\ Mapped(entryDelete(table, o))
    BY <2>1, DeleteGood, DeleteMapped
  <2>5. CASE modify_flow_entry
    <3>1. PICK o \in Live(table) :
              \/ table' = entryDelete(table, o)
              \/ \E n \in Objects \ Live(entryDelete(table, o)), e \in Entry :
                      table' = entryInsert(entryDelete(table, o), n, e)
      BY <2>5 DEF modify_flow_entry
    <3>2. \A n \in Objects \ Live(entryDelete(table, o)), e \in Entry :
              Mapped(entryInsert(entryDelete(table, o), n, e))
      BY <2>4, InsertMapped
    <3>3. Mapped(table')
      BY <2>4, <3>1, <3>2
    <3> QED
      BY <2>2, <3>3
  <2>6. CASE delete_flow_entry
    <3>1. PICK o \in Live(table) : table' = entryDelete(table, o)
      BY <2>6 DEF delete_flow_entry
    <3> QED
      BY <2>2, <2>4, <3>1
  <2>7. CASE create_flow_table
    <3>1. Mapped(NewTable)
      BY DEF NewTable, Mapped, Live
    <3> QED
      BY <2>2, <2>7, <3>1 DEF create_flow_table
  <2>8. CASE UNCHANGED vars
    BY <2>2, <2>8 DEF vars
  <2> QED
    BY <2>3, <2>5, <2>6, <2>7, <2>8 DEF Next
<1> QED
  BY <1>1, <1>2, InvariantHolds, PTL DEF Spec

\* The lookup of an MM table finds a matching entry of the highest priority
\* whenever there is a match, for any number of entries and buckets, however
\* the entries are spread over the buckets and whatever came and went before.
THEOREM MmCorrect == Spec => []MmBest
<1>1. IInv /\ Mapped(table) => MmBest
  <2> SUFFICES ASSUME IInv, Mapped(table), NEW key \in Key
               PROVE  LET match == {o \in Live(table) : maskMatch(table.heap[o], key)}
                          found == entryLookup_MM(key)
                      IN  IF match = {} THEN found = NULL
                          ELSE /\ found \in match
                               /\ \A o \in match :
                                    table.heap[o].priority <= table.heap[found].priority
    BY DEF MmBest
  <2>1. PICK found : found = entryLookup_MM(key)
    OBVIOUS
  <2>2. Best(Live(table), key, found)
    BY <2>1, LookupBest
  <2> QED
    BY <2>1, <2>2 DEF Best
<1> QED
  BY <1>1, InvariantHolds, MappedHolds, PTL
=============================================================================
