-------------------------- MODULE RouteTableProofs --------------------------
(***************************************************************************)
(* Proofs about the routing table, for every size of the id space and of a *)
(* bucket, every set of announced ids and every length of the history.     *)
(***************************************************************************)
EXTENDS RouteTable, FiniteSetTheorems, TLAPS

-----------------------------------------------------------------------------
(***************************************************************************)
(* Paths: what a child's path has in common with its parent's.             *)
(***************************************************************************)
\* The walk to a child is the walk to its parent and one turn more.
LEMMA ChildPath ==
    ASSUME NEW n \in Path, NEW b \in {0, 1}
    PROVE  /\ Append(n, b) \in Path
           /\ Len(Append(n, b)) = Len(n) + 1
           /\ Append(n, b)[Len(n) + 1] = b
           /\ \A k \in 1 .. Len(n) : Append(n, b)[k] = n[k]
           /\ \A k \in 0 .. Len(n) : SubSeq(Append(n, b), 1, k) = SubSeq(n, 1, k)
           /\ SubSeq(n, 1, Len(n)) = n
  BY DEF Path

\* A prefix of a path is a path, and the next longer one is one of its children.
LEMMA PrefixPath ==
    ASSUME NEW m \in Path, NEW k \in 0 .. Len(m) - 1
    PROVE  /\ SubSeq(m, 1, k) \in Path
           /\ Len(SubSeq(m, 1, k)) = k
           /\ m[k + 1] \in {0, 1}
           /\ SubSeq(m, 1, k + 1) = Append(SubSeq(m, 1, k), m[k + 1])
  BY DEF Path

-----------------------------------------------------------------------------
(***************************************************************************)
(* Types.                                                                  *)
(***************************************************************************)
LEMMA PeerTypes ==
    /\ Zeroed \in Peer
    /\ \A id \in Id : Fresh(id) \in Peer
    /\ EmptyBucket \in [Slots -> Peer]
    /\ \A p \in Peer : p.status = "IN_USE" /\ p.refresh_count_down > 0 /\ p.refresh_times > 0
                          => Aged(p) \in Peer
  BY SpaceAssumption, BucketAssumption, RefreshAssumption, DetectAssumption
  DEF Peer, Zeroed, Fresh, EmptyBucket, Aged, Id, Slots

\* What dealing entries of one bucket into another yields.
LEMMA PackedType ==
    ASSUME NEW n, tree[n].slots \in [Slots -> Peer],
           NEW S \in SUBSET Slots, NEW last \in Peer
    PROVE  Packed(n, S, last) \in [Slots -> Peer]
<1>1. ASSUME NEW j \in Slots
      PROVE  Packed(n, S, last)[j] \in Peer
  <2>1. CASE \E i \in S : Rank(S, i) = j
    <3> DEFINE c == CHOOSE i \in S : Rank(S, i) = j
    <3>1. c \in S
      BY <2>1
    <3>2. Packed(n, S, last)[j] = tree[n].slots[c]
      BY <2>1 DEF Packed
    <3> QED
      BY <3>1, <3>2
  <2>2. CASE ~ \E i \in S : Rank(S, i) = j
    BY <2>2, PeerTypes DEF Packed
  <2> QED
    BY <2>1, <2>2
<1> QED
  BY <1>1 DEF Packed

\* A round of the split loop adds two well-formed leaves and keeps the slots of
\* every node it found.
LEMMA DividedTree ==
    ASSUME TypeOK, NEW n \in DOMAIN tree,
           NEW l \in [Slots -> Peer], NEW r \in [Slots -> Peer]
    PROVE  /\ Divided(n, l, r) \in [DOMAIN Divided(n, l, r) -> Bucket]
           /\ DOMAIN Divided(n, l, r) = DOMAIN tree \cup {Left(n), Right(n)}
           /\ DOMAIN Divided(n, l, r) \subseteq Path
           /\ Middle(n) \in 0 .. Space
           /\ Divided(n, l, r)[Left(n)] = [lo |-> tree[n].lo, hi |-> Middle(n), slots |-> l]
           /\ Divided(n, l, r)[Right(n)] = [lo |-> Middle(n), hi |-> tree[n].hi, slots |-> r]
           /\ n \notin {Left(n), Right(n)} 
           /\ Divided(n, l, r)[n] = [lo |-> Middle(n), hi |-> Middle(n), slots |-> tree[n].slots]
           /\ \A p \in DOMAIN tree \ {n, Left(n), Right(n)} : Divided(n, l, r)[p] = tree[p]
<1>1. n \in Path /\ tree[n] \in Bucket
  BY DEF TypeOK
<1>2. /\ Left(n) \in Path /\ Right(n) \in Path /\ Left(n) # Right(n)
      /\ n \notin {Left(n), Right(n)}
  BY <1>1, ChildPath DEF Left, Right
<1>3. Middle(n) \in 0 .. Space
  BY <1>1, SpaceAssumption DEF Middle, Bucket
<1>4. /\ [lo |-> tree[n].lo, hi |-> Middle(n), slots |-> l] \in Bucket
      /\ [lo |-> Middle(n), hi |-> tree[n].hi, slots |-> r] \in Bucket
      /\ [lo |-> Middle(n), hi |-> Middle(n), slots |-> tree[n].slots] \in Bucket
  BY <1>1, <1>3 DEF Bucket
<1> QED
  BY <1>1, <1>2, <1>3, <1>4 DEF Divided, TypeOK

\* Setting one slot keeps the nodes, their ranges and all the other slots.
LEMMA WithSlotTree ==
    ASSUME TypeOK, NEW n \in DOMAIN tree, NEW i \in Slots, NEW p \in Peer
    PROVE  /\ WithSlot(n, i, p) \in [DOMAIN tree -> Bucket]
           /\ DOMAIN WithSlot(n, i, p) = DOMAIN tree
           /\ \A m \in DOMAIN tree :
                 /\ WithSlot(n, i, p)[m].lo = tree[m].lo
                 /\ WithSlot(n, i, p)[m].hi = tree[m].hi
                 /\ \A j \in Slots : WithSlot(n, i, p)[m].slots[j]
                                       = IF m = n /\ j = i THEN p ELSE tree[m].slots[j]
<1>1. tree[n] \in Bucket
  BY DEF TypeOK
<1>2. [lo |-> tree[n].lo, hi |-> tree[n].hi, slots |-> [tree[n].slots EXCEPT ![i] = p]]
        \in Bucket
  BY <1>1 DEF Bucket
<1> QED
  BY <1>1, <1>2 DEF WithSlot, TypeOK, Bucket

\* The nodes and the slots that Sweep leaves behind.
LEMMA SweepTree ==
    ASSUME TypeOK, CountersRun, Sweep
    PROVE  /\ tree' \in [DOMAIN tree -> Bucket]
           /\ DOMAIN tree' = DOMAIN tree
           /\ \A n \in DOMAIN tree :
                 /\ tree'[n].lo = tree[n].lo
                 /\ tree'[n].hi = tree[n].hi
                 /\ \A i \in Slots : tree'[n].slots[i] = IF IsLeaf(n)
                                                         THEN Aged(tree[n].slots[i])
                                                         ELSE tree[n].slots[i]
<1>1. ASSUME NEW n \in DOMAIN tree, NEW i \in Slots
      PROVE  Aged(tree[n].slots[i]) \in Peer
  <2>1. tree[n].slots[i] \in Peer
    BY DEF TypeOK, Bucket
  <2>2. CASE InUse(n, i)
    BY <2>1, <2>2, PeerTypes DEF CountersRun, InUse
  <2>3. CASE ~InUse(n, i)
    BY <2>1, <2>3 DEF InUse, Aged, Peer
  <2> QED
    BY <2>2, <2>3
<1>2. \A n \in DOMAIN tree :
         [lo |-> tree[n].lo, hi |-> tree[n].hi,
          slots |-> [i \in Slots |-> Aged(tree[n].slots[i])]] \in Bucket
  BY <1>1 DEF TypeOK, Bucket
<1> QED
  BY <1>2 DEF Sweep, TypeOK, Bucket

-----------------------------------------------------------------------------
\* Every step keeps the types, given that the counters run (a counter may not
\* be taken below 0) and that the split loop stands on an allocated node.
LEMMA TypeStep == IInv /\ [Next]_vars => TypeOK'
<1> SUFFICES ASSUME IInv, [Next]_vars
             PROVE  TypeOK'
  OBVIOUS
<1> USE DEF IInv
<1>1. ASSUME NEW id \in Announced, InsertRoot(id)
      PROVE  TypeOK'
  <2>1. /\ 0 \in 0 .. Space /\ Space \in 0 .. Space /\ id \in Id
        /\ [i \in Slots |-> IF i = 1 THEN Fresh(id) ELSE Zeroed] \in [Slots -> Peer]
    BY PeerTypes, SpaceAssumption, IdAssumption DEF Id
  <2>2. [lo |-> 0, hi |-> Space,
         slots |-> [i \in Slots |-> IF i = 1 THEN Fresh(id) ELSE Zeroed]] \in Bucket
    BY <2>1 DEF Bucket
  <2> QED
    BY <1>1, <2>2 DEF InsertRoot, TypeOK, Path
<1>2. ASSUME NEW id \in Announced, NEW n \in DOMAIN tree, NEW i \in Slots,
             FillSlot(n, i, id)
      PROVE  TypeOK'
  <2>1. Fresh(id) \in Peer
    BY PeerTypes, IdAssumption DEF Id
  <2> QED
    BY <1>2, <2>1, WithSlotTree DEF FillSlot, TypeOK
<1>3. ASSUME NEW id \in Announced, NEW n \in DOMAIN tree, BeginSplit(n, id)
      PROVE  TypeOK'
  BY <1>3, IdAssumption DEF BeginSplit, TypeOK, Id
<1>4. ASSUME SplitTurns
      PROVE  TypeOK'
  <2>1. split.at \in DOMAIN tree
    BY <1>4 DEF SplitTurns, SplitOK, Leaves
  <2>2. Left(split.at) \in Path /\ Right(split.at) \in Path
    BY <2>1, ChildPath DEF TypeOK, Left, Right
  <2>3. split' \in [on : BOOLEAN, leaf : Path, at : Path, id : Id]
    <3>1. split.leaf \in Path /\ split.id \in Id
      BY DEF TypeOK
    <3>2. \A n \in Path : SplitAt(n) \in [on : BOOLEAN, leaf : Path, at : Path, id : Id]
      BY <3>1 DEF SplitAt
    <3>3. split' = SplitAt(Right(split.at)) \/ split' = SplitAt(Left(split.at))
      BY <1>4 DEF SplitTurns
    <3> QED
      BY <2>2, <3>2, <3>3
  <2>4. tree' \in [DOMAIN tree' -> Bucket] /\ DOMAIN tree' \subseteq Path
    <3>1. tree' = Divided(split.at, EmptyBucket, EmptyBucket)
      BY <1>4 DEF SplitTurns
    <3>2. EmptyBucket \in [Slots -> Peer] /\ TypeOK
      BY PeerTypes
    <3> QED
      BY <2>1, <3>1, <3>2, DividedTree
  <2> QED
    BY <1>4, <2>3, <2>4 DEF SplitTurns, TypeOK
<1>5. ASSUME SplitSeparates
      PROVE  TypeOK'
  <2> DEFINE below == Below(split.leaf, Middle(split.at))
             l == Packed(split.leaf, below,
                         IF split.id < Middle(split.at) THEN Fresh(split.id) ELSE Zeroed)
             r == Packed(split.leaf, Slots \ below,
                         IF split.id < Middle(split.at) THEN Zeroed ELSE Fresh(split.id))
  <2>1. split.at \in DOMAIN tree /\ split.leaf \in DOMAIN tree /\ split.id \in Id
    BY <1>5 DEF SplitSeparates, SplitOK, Leaves, TypeOK
  <2>2. l \in [Slots -> Peer] /\ r \in [Slots -> Peer]
    <3>1. tree[split.leaf].slots \in [Slots -> Peer]
      BY <2>1 DEF TypeOK, Bucket
    <3>2. Fresh(split.id) \in Peer /\ Zeroed \in Peer
      BY <2>1, PeerTypes
    <3>3. below \subseteq Slots
      BY DEF Below
    <3> QED
      BY <3>1, <3>2, <3>3, PackedType
  <2>3. tree' = Divided(split.at, l, r)
    BY <1>5 DEF SplitSeparates
  <2>4. tree' \in [DOMAIN tree' -> Bucket] /\ DOMAIN tree' \subseteq Path
    <3> HIDE DEF l, r
    <3>1. TypeOK
      OBVIOUS
    <3> QED
      BY <2>1, <2>2, <2>3, <3>1, DividedTree
  <2>5. split' \in [on : BOOLEAN, leaf : Path, at : Path, id : Id]
    BY <1>5, SpaceAssumption DEF SplitSeparates, NoSplit, Path, Id
  <2>6. routeNum' \in Nat /\ pending' \subseteq Pointer
    BY <1>5 DEF SplitSeparates, TypeOK, Pointer
  <2> QED
    BY <2>4, <2>5, <2>6 DEF TypeOK
<1>6. ASSUME Sweep
      PROVE  TypeOK'
  <2>1. Buffered \subseteq Pointer
    BY DEF Buffered, Pointer, Leaves, TypeOK
  <2>2. pending' \subseteq Pointer
    BY <1>6, <2>1 DEF Sweep, TypeOK
  <2> QED
    BY <1>6, <2>2, SweepTree DEF Sweep, TypeOK
<1>7. ASSUME NEW c \in pending, Answer(c)
      PROVE  TypeOK'
  <2>1. c.at \in DOMAIN tree /\ c.slot \in Slots
    BY DEF PointersFilled, TypeOK, Pointer
  <2>2. Fresh(tree[c.at].slots[c.slot].id) \in Peer
    BY <2>1, PeerTypes DEF TypeOK, Bucket, Peer
  <2>3. tree' = WithSlot(c.at, c.slot, Fresh(tree[c.at].slots[c.slot].id))
    BY <1>7 DEF Answer
  <2>4. tree' \in [DOMAIN tree -> Bucket] /\ DOMAIN tree' = DOMAIN tree
    <3> DEFINE m == c.at
               i == c.slot
               p == Fresh(tree[c.at].slots[c.slot].id)
    <3>1. TypeOK /\ m \in DOMAIN tree /\ i \in Slots /\ p \in Peer /\ tree' = WithSlot(m, i, p)
      BY <2>1, <2>2, <2>3
    <3> HIDE DEF m, i, p, TypeOK
    <3> QED
      BY <3>1, WithSlotTree
  <2>5. /\ tree' \in [DOMAIN tree' -> Bucket] /\ DOMAIN tree' \subseteq Path
    BY <2>4 DEF TypeOK
  <2>6. pending' \in SUBSET pending /\ UNCHANGED << routeNum, split >>
    BY <1>7 DEF Answer
  <2> QED
    BY <2>5, <2>6 DEF TypeOK
<1>8. ASSUME Forget
      PROVE  TypeOK'
  BY <1>8 DEF Forget, TypeOK
<1>9. CASE UNCHANGED vars
  BY <1>9 DEF vars, TypeOK, Pointer
<1> QED
  BY <1>1, <1>2, <1>3, <1>4, <1>5, <1>6, <1>7, <1>8, <1>9 DEF Next, Insert

-----------------------------------------------------------------------------
(***************************************************************************)
(* The walk of find_prop_node.                                             *)
(***************************************************************************)
\* Steps that allocate nothing and move no range keep every walk.
LEMMA SameNodes ==
    ASSUME Shape, FindProperNode, TypeOK,
           DOMAIN tree' = DOMAIN tree,
           \A n \in DOMAIN tree : tree'[n].lo = tree[n].lo /\ tree'[n].hi = tree[n].hi
    PROVE  Shape' /\ FindProperNode' /\ Leaves' = Leaves
<1>1. Shape' /\ Leaves' = Leaves
  BY DEF Shape, Leaves, IsLeaf
<1>2. ASSUME NEW n \in DOMAIN tree, NEW id \in Id
      PROVE  (OnWalk(n, id)' <=> OnWalk(n, id)) /\ (InRange(n, id)' <=> InRange(n, id))
  <2>1. n \in Path
    BY DEF TypeOK
  <2>2. \A k \in 0 .. Len(n) - 1 : SubSeq(n, 1, k) \in DOMAIN tree
    BY <2>1 DEF Shape, Path
  <2>3. \A k \in 0 .. Len(n) - 1 : Turn(SubSeq(n, 1, k), id)' = Turn(SubSeq(n, 1, k), id)
    BY <2>2 DEF Turn
  <2> QED
    BY <2>3 DEF OnWalk, InRange
<1> QED
  BY <1>1, <1>2 DEF FindProperNode, Leaves

\* A leaf is no proper prefix of an allocated path.
LEMMA LeafEndsPath ==
    ASSUME TypeOK, Shape, NEW n \in Leaves, NEW m \in DOMAIN tree, NEW k \in 0 .. Len(m) - 1
    PROVE  SubSeq(m, 1, k) # n
<1>1. m \in Path /\ n \in DOMAIN tree /\ Left(n) \notin DOMAIN tree /\ Right(n) \notin DOMAIN tree
  BY DEF TypeOK, Shape, Leaves, IsLeaf
<1>2. k \in 0 .. Len(m) /\ k + 1 \in 0 .. Len(m)
  BY <1>1 DEF Path
<1>3. SubSeq(m, 1, k + 1) \in DOMAIN tree
  BY <1>2 DEF Shape
<1> QED
  BY <1>1, <1>3, PrefixPath DEF Left, Right

\* A round of the split loop at the leaf n: the leaf is replaced by its two
\* children, every other leaf stays, and every walk that ended at n goes on to
\* the child whose half of the range holds the id.
LEMMA DividedWalk ==
    ASSUME TypeOK, Shape, FindProperNode, NEW n \in Leaves,
           NEW l \in [Slots -> Peer], NEW r \in [Slots -> Peer],
           tree' = Divided(n, l, r)
    PROVE  /\ Shape'
           /\ FindProperNode'
           /\ Leaves' = (Leaves \ {n}) \cup {Left(n), Right(n)}
           /\ Left(n) \notin DOMAIN tree /\ Right(n) \notin DOMAIN tree
<1> DEFINE a == Left(n)
           b == Right(n)
<1>1. /\ n \in DOMAIN tree /\ n \in Path /\ tree[n] \in Bucket
      /\ a \notin DOMAIN tree /\ b \notin DOMAIN tree
  BY DEF TypeOK, Shape, Leaves, IsLeaf
<1>2. /\ a \in Path /\ b \in Path /\ a # b
      /\ Len(a) = Len(n) + 1 /\ Len(b) = Len(n) + 1
      /\ a[Len(n) + 1] = 0 /\ b[Len(n) + 1] = 1
      /\ \A k \in 1 .. Len(n) : a[k] = n[k] /\ b[k] = n[k]
      /\ \A k \in 0 .. Len(n) : SubSeq(a, 1, k) = SubSeq(n, 1, k) /\ SubSeq(b, 1, k) = SubSeq(n, 1, k)
      /\ SubSeq(n, 1, Len(n)) = n /\ Len(n) \in Nat
      /\ SubSeq(a, 1, Len(a)) = a /\ SubSeq(b, 1, Len(b)) = b
  <2>1. /\ a \in Path /\ Len(a) = Len(n) + 1 /\ a[Len(n) + 1] = 0
        /\ \A k \in 1 .. Len(n) : a[k] = n[k]
        /\ \A k \in 0 .. Len(n) : SubSeq(a, 1, k) = SubSeq(n, 1, k)
        /\ SubSeq(n, 1, Len(n)) = n
    BY <1>1, ChildPath DEF Left
  <2>2. /\ b \in Path /\ Len(b) = Len(n) + 1 /\ b[Len(n) + 1] = 1
        /\ \A k \in 1 .. Len(n) : b[k] = n[k]
        /\ \A k \in 0 .. Len(n) : SubSeq(b, 1, k) = SubSeq(n, 1, k)
    BY <1>1, ChildPath DEF Right
  <2>3. SubSeq(a, 1, Len(a)) = a /\ SubSeq(b, 1, Len(b)) = b
    <3> HIDE DEF a, b
    <3> QED
      BY <2>1, <2>2, ChildPath
  <2>4. Len(n) \in Nat
    BY <1>1 DEF Path
  <2> HIDE DEF a, b
  <2> QED
    BY <2>1, <2>2, <2>3, <2>4
<1>3. /\ DOMAIN tree' = DOMAIN tree \cup {a, b}
      /\ tree'[a].lo = tree[n].lo /\ tree'[a].hi = Middle(n)
      /\ tree'[b].lo = Middle(n) /\ tree'[b].hi = tree[n].hi
      /\ tree'[n].hi = Middle(n)
      /\ \A p \in DOMAIN tree \ {n} : tree'[p] = tree[p]
      /\ Middle(n) \in Int
  <2>1. /\ DOMAIN tree' = DOMAIN tree \cup {a, b}
        /\ tree'[a] = [lo |-> tree[n].lo, hi |-> Middle(n), slots |-> l]
        /\ tree'[b] = [lo |-> Middle(n), hi |-> tree[n].hi, slots |-> r]
        /\ tree'[n] = [lo |-> Middle(n), hi |-> Middle(n), slots |-> tree[n].slots]
        /\ \A p \in DOMAIN tree \ {n, a, b} : tree'[p] = tree[p]
        /\ Middle(n) \in 0 .. Space
    BY <1>1, DividedTree
  <2> HIDE DEF a, b
  <2> QED
    BY <1>1, <2>1, SpaceAssumption
<1> HIDE DEF a, b
<1>4. \A p \in DOMAIN tree' : p \in Path
  BY <1>2, <1>3 DEF TypeOK
<1>5. \A p \in DOMAIN tree' : \A k \in 0 .. Len(p) : SubSeq(p, 1, k) \in DOMAIN tree'
  <2>1. \A k \in 0 .. Len(n) : SubSeq(n, 1, k) \in DOMAIN tree
    BY <1>1 DEF Shape
  <2>2. ASSUME NEW c \in {a, b}, NEW k \in 0 .. Len(c)
        PROVE  SubSeq(c, 1, k) \in DOMAIN tree'
    <3>1. k \in 0 .. Len(n) \/ k = Len(c)
      BY <1>2
    <3> QED
      BY <1>2, <1>3, <2>1, <3>1
  <2> QED
    BY <1>3, <2>2 DEF Shape
\* No allocated path but n has a child among the two new nodes, and they have none.
<1>6. /\ \A p \in DOMAIN tree \ {n} : Left(p) \notin {a, b} /\ Right(p) \notin {a, b}
      /\ \A p \in {a, b} : Left(p) \notin DOMAIN tree' /\ Right(p) \notin DOMAIN tree'
  <2>1. ASSUME NEW p \in Path, NEW q \in {a, b}, Left(p) = q \/ Right(p) = q
        PROVE  p = n
    <3>1. Len(p) = Len(n)
      BY <1>1, <1>2, <2>1, ChildPath DEF Left, Right, Path
    <3>2. SubSeq(q, 1, Len(n)) = p
      BY <2>1, <3>1, ChildPath DEF Left, Right, Path
    <3> QED
      BY <1>1, <1>2, <3>2 DEF Path
  <2>2. ASSUME NEW p \in {a, b}, NEW q \in {Left(p), Right(p)}, q \in DOMAIN tree
        PROVE  FALSE
    <3>0. p \in Path /\ Len(p) \in Nat
      BY <1>2, <2>2
    <3>1. Len(q) = Len(p) + 1 /\ SubSeq(q, 1, Len(p)) = p
      <4>1. \A c \in {0, 1} : /\ Len(Append(p, c)) = Len(p) + 1
                              /\ SubSeq(Append(p, c), 1, Len(p)) = p
        BY <3>0, ChildPath
      <4> QED
        BY <4>1 DEF Left, Right
    <3>2. p \in DOMAIN tree
      <4>1. Len(p) \in 0 .. Len(q)
        BY <3>0, <3>1
      <4> QED
        BY <2>2, <3>1, <4>1 DEF Shape
    <3> QED
      BY <1>1, <3>2 DEF a, b
  <2>3. \A p \in {a, b} : Left(p) \notin {a, b} /\ Right(p) \notin {a, b}
    BY <1>1, <1>2, ChildPath DEF Left, Right, Path
  <2> QED
    BY <1>2, <1>3, <2>1, <2>2, <2>3 DEF TypeOK
<1>7. Shape'
  <2>1. \A p \in DOMAIN tree' : Left(p) \in DOMAIN tree' <=> Right(p) \in DOMAIN tree'
    BY <1>3, <1>6 DEF Shape, a, b
  <2> QED
    BY <1>5, <2>1 DEF Shape
<1>8. Leaves' = (Leaves \ {n}) \cup {a, b}
  <2>1. a = Left(n)
    BY DEF a
  <2> QED
    BY <1>1, <1>3, <1>6, <2>1 DEF Leaves, IsLeaf
\* Walks to other nodes did not pass n, and so did not change.
<1>9. ASSUME NEW m \in Leaves \ {n}, NEW id \in Id
      PROVE  (OnWalk(m, id)' <=> OnWalk(m, id)) /\ (InRange(m, id)' <=> InRange(m, id))
  <2>1. m \in DOMAIN tree /\ m \in Path
    BY DEF Leaves, TypeOK
  <2>2. \A k \in 0 .. Len(m) - 1 : SubSeq(m, 1, k) \in DOMAIN tree \ {n}
    BY <2>1, LeafEndsPath DEF Shape, Path
  <2>3. \A k \in 0 .. Len(m) - 1 : Turn(SubSeq(m, 1, k), id)' = Turn(SubSeq(m, 1, k), id)
    BY <1>3, <2>2 DEF Turn
  <2> QED
    BY <1>3, <2>1, <2>3 DEF OnWalk, InRange
<1>10. ASSUME NEW id \in Id, OnWalk(n, id), InRange(n, id)
       PROVE  \E m \in {a, b} : OnWalk(m, id)' /\ InRange(m, id)'
  <2>0. Len(n) \in Nat /\ Len(a) = Len(n) + 1 /\ Len(b) = Len(n) + 1
    BY <1>2
  <2>1. \A k \in 0 .. Len(n) - 1 : SubSeq(n, 1, k) \in DOMAIN tree \ {n}
    BY <1>1, LeafEndsPath DEF Shape, Path
  <2>2. \A k \in 0 .. Len(n) - 1 : n[k + 1] = Turn(SubSeq(n, 1, k), id)'
    BY <1>3, <1>10, <2>1 DEF Turn, OnWalk
  <2>3. Turn(n, id)' = IF Middle(n) > id THEN 0 ELSE 1
    BY <1>3 DEF Turn
  <2>4. CASE Middle(n) > id
    <3>1. ASSUME NEW k \in 0 .. Len(a) - 1
          PROVE  a[k + 1] = Turn(SubSeq(a, 1, k), id)'
      <4>1. CASE k = Len(n)
        <5>1. SubSeq(a, 1, k) = n /\ a[k + 1] = 0
          BY <1>2, <4>1
        <5> QED
          BY <2>3, <2>4, <5>1 DEF Turn
      <4>2. CASE k # Len(n)
        <5>1. k \in 0 .. Len(n) - 1 /\ k \in 0 .. Len(n) /\ k + 1 \in 1 .. Len(n)
          BY <2>0, <4>2
        <5> QED
          BY <1>2, <2>2, <5>1
      <4> QED
        BY <4>1, <4>2
    <3>2. InRange(a, id)'
      BY <1>3, <1>10, <2>4 DEF InRange
    <3> QED
      BY <3>1, <3>2 DEF OnWalk
  <2>5. CASE ~ (Middle(n) > id)
    <3>1. ASSUME NEW k \in 0 .. Len(b) - 1
          PROVE  b[k + 1] = Turn(SubSeq(b, 1, k), id)'
      <4>1. CASE k = Len(n)
        <5>1. SubSeq(b, 1, k) = n /\ b[k + 1] = 1
          BY <1>2, <4>1
        <5> QED
          BY <2>3, <2>5, <5>1 DEF Turn
      <4>2. CASE k # Len(n)
        <5>1. k \in 0 .. Len(n) - 1 /\ k \in 0 .. Len(n) /\ k + 1 \in 1 .. Len(n)
          BY <2>0, <4>2
        <5> QED
          BY <1>2, <2>2, <5>1
      <4> QED
        BY <4>1, <4>2
    <3>2. InRange(b, id)'
      BY <1>3, <1>10, <2>5 DEF InRange, Id
    <3> QED
      BY <3>1, <3>2 DEF OnWalk
  <2> QED
    BY <2>4, <2>5
<1>11. FindProperNode'
  <2> SUFFICES ASSUME NEW id \in Id
               PROVE  \E m \in Leaves' : /\ OnWalk(m, id)'
                                         /\ InRange(m, id)'
                                         /\ \A q \in Leaves' : InRange(q, id)' => q = m
    BY DEF FindProperNode
  <2>1. PICK m \in Leaves : /\ OnWalk(m, id) /\ InRange(m, id)
                            /\ \A q \in Leaves : InRange(q, id) => q = m
    BY <1>1 DEF FindProperNode
  <2>2. /\ InRange(a, id)' => InRange(n, id) /\ Middle(n) > id
        /\ InRange(b, id)' => InRange(n, id) /\ ~ (Middle(n) > id)
    BY <1>1, <1>3 DEF InRange, Id, Bucket, Middle
  <2>3. CASE m = n
    <3>1. PICK c \in {a, b} : OnWalk(c, id)' /\ InRange(c, id)'
      BY <1>10, <2>1, <2>3
    <3> QED
      BY <1>8, <1>9, <2>1, <2>2, <2>3, <3>1
  <2>4. CASE m # n
    BY <1>8, <1>9, <2>1, <2>2, <2>4
  <2> QED
    BY <2>3, <2>4
<1> QED
  BY <1>1, <1>7, <1>8, <1>11 DEF a, b

-----------------------------------------------------------------------------
(***************************************************************************)
(* What a split deals out.                                                 *)
(***************************************************************************)
LEMMA SlotsFinite == IsFiniteSet(Slots) /\ Cardinality(Slots) = BucketSize
<1>1. 1 \in Int /\ BucketSize \in Int /\ BucketSize >= 1
  BY BucketAssumption
<1> QED
  BY <1>1, FS_Interval DEF Slots

\* A packed bucket holds nothing but slots of the old one and last, and is
\* empty behind them.
LEMMA PackedEntries ==
    ASSUME NEW n, NEW S \in SUBSET Slots, NEW last, NEW j \in Slots
    PROVE  /\ Cardinality(S) \in Nat
           /\ \/ Packed(n, S, last)[j] \in {Zeroed, last}
              \/ \E i \in S : Packed(n, S, last)[j] = tree[n].slots[i]
           /\ j > Cardinality(S) + 1 => Packed(n, S, last)[j] = Zeroed
           /\ j > Cardinality(S) => Packed(n, S, last)[j] \in {Zeroed, last}
<1>1. IsFiniteSet(S) /\ Cardinality(S) \in Nat
  BY SlotsFinite, FS_Subset, FS_CardinalityType
<1>2. \A i \in S : Rank(S, i) <= Cardinality(S)
  <2> TAKE i \in S
  <2> {k \in S : k <= i} \in SUBSET S
    OBVIOUS
  <2> QED
    BY <1>1, FS_Subset DEF Rank
<1>3. CASE \E i \in S : Rank(S, i) = j
  <2> DEFINE c == CHOOSE i \in S : Rank(S, i) = j
  <2>1. c \in S /\ Rank(S, c) = j
    BY <1>3
  <2>2. Packed(n, S, last)[j] = tree[n].slots[c]
    BY <1>3 DEF Packed
  <2>3. j <= Cardinality(S)
    BY <1>2, <2>1
  <2> HIDE DEF c
  <2> QED
    BY <1>1, <2>1, <2>2, <2>3 DEF Slots
<1>4. CASE ~ \E i \in S : Rank(S, i) = j
  <2>1. Packed(n, S, last)[j] = IF j = Cardinality(S) + 1 THEN last ELSE Zeroed
    BY <1>4 DEF Packed
  <2> QED
    BY <1>1, <2>1 DEF Slots
<1> QED
  BY <1>3, <1>4

\* The last round of the loop: the two new buckets have room for the entries of
\* the full one and for the new id, and hold nothing else.
LEMMA SeparateTree ==
    ASSUME IInv, SplitSeparates
    PROVE  \E l, r \in [Slots -> Peer] : \E a, b \in Nat :
              /\ tree' = Divided(split.at, l, r)
              /\ a + b = BucketSize + 1
              /\ \A j \in Slots : /\ j > a => l[j] = Zeroed
                                  /\ j > b => r[j] = Zeroed
                                  /\ \A p \in {l[j], r[j]} :
                                        \/ p \in {Zeroed, Fresh(split.id)}
                                        \/ \E i \in Slots : p = tree[split.leaf].slots[i]
<1> DEFINE mid == Middle(split.at)
           S == Below(split.leaf, mid)
           left == split.id < mid
           lastl == IF left THEN Fresh(split.id) ELSE Zeroed
           lastr == IF left THEN Zeroed ELSE Fresh(split.id)
           l == Packed(split.leaf, S, lastl)
           r == Packed(split.leaf, Slots \ S, lastr)
           a == Cardinality(S) + (IF left THEN 1 ELSE 0)
           b == Cardinality(Slots \ S) + (IF left THEN 0 ELSE 1)
<1>1. S \in SUBSET Slots /\ (Slots \ S) \in SUBSET Slots
  BY DEF Below
<1>2. split.leaf \in DOMAIN tree /\ split.id \in Id
  BY DEF IInv, SplitOK, SplitSeparates, TypeOK
<1>3. l \in [Slots -> Peer] /\ r \in [Slots -> Peer]
  <2>1. tree[split.leaf].slots \in [Slots -> Peer] /\ lastl \in Peer /\ lastr \in Peer
    BY <1>2, PeerTypes DEF IInv, TypeOK, Bucket
  <2> HIDE DEF lastl, lastr, S
  <2> QED
    BY <1>1, <2>1, PackedType
<1>4. a \in Nat /\ b \in Nat /\ a + b = BucketSize + 1
  <2>1. IsFiniteSet(Slots) /\ Cardinality(Slots) = BucketSize
    BY SlotsFinite
  <2>2. /\ Cardinality(S) \in Nat /\ Cardinality(Slots \ S) \in Nat
        /\ Cardinality(S) + Cardinality(Slots \ S) = BucketSize
    <3> HIDE DEF S
    <3>1. IsFiniteSet(S) /\ IsFiniteSet(Slots \ S)
      BY <1>1, <2>1, FS_Subset
    <3>2. S \cup (Slots \ S) = Slots /\ S \cap (Slots \ S) = {}
      BY <1>1
    <3>3. Cardinality(Slots) = Cardinality(S) + Cardinality(Slots \ S) - Cardinality({})
      BY <3>1, <3>2, FS_Union
    <3> QED
      BY <2>1, <3>1, <3>3, FS_EmptySet, FS_CardinalityType, BucketAssumption
  <2> HIDE DEF S, left
  <2> QED
    BY <2>2, BucketAssumption
<1>5. tree' = Divided(split.at, l, r)
  BY DEF SplitSeparates
<1>6. ASSUME NEW j \in Slots
      PROVE  /\ j > a => l[j] = Zeroed
             /\ j > b => r[j] = Zeroed
             /\ \A p \in {l[j], r[j]} : \/ p \in {Zeroed, Fresh(split.id)}
                                        \/ \E i \in Slots : p = tree[split.leaf].slots[i]
  <2> HIDE DEF S, left, lastl, lastr
  <2>1. /\ Cardinality(S) \in Nat
        /\ l[j] \in {Zeroed, lastl} \/ \E i \in Slots : l[j] = tree[split.leaf].slots[i]
        /\ j > Cardinality(S) + 1 => l[j] = Zeroed
        /\ j > Cardinality(S) => l[j] \in {Zeroed, lastl}
    BY <1>1, PackedEntries
  <2>2. /\ Cardinality(Slots \ S) \in Nat
        /\ r[j] \in {Zeroed, lastr} \/ \E i \in Slots : r[j] = tree[split.leaf].slots[i]
        /\ j > Cardinality(Slots \ S) + 1 => r[j] = Zeroed
        /\ j > Cardinality(Slots \ S) => r[j] \in {Zeroed, lastr}
    <3> DEFINE T == Slots \ S
    <3>1. T \in SUBSET Slots
      BY <1>1
    <3> HIDE DEF T
    <3>2. /\ Cardinality(T) \in Nat
          /\ \/ Packed(split.leaf, T, lastr)[j] \in {Zeroed, lastr}
             \/ \E i \in T : Packed(split.leaf, T, lastr)[j] = tree[split.leaf].slots[i]
          /\ j > Cardinality(T) + 1 => Packed(split.leaf, T, lastr)[j] = Zeroed
          /\ j > Cardinality(T) => Packed(split.leaf, T, lastr)[j] \in {Zeroed, lastr}
      BY <3>1, PackedEntries
    <3> QED
      BY <3>1, <3>2 DEF T
  <2>3. \/ left /\ lastl = Fresh(split.id) /\ lastr = Zeroed
        \/ ~left /\ lastl = Zeroed /\ lastr = Fresh(split.id)
    BY DEF lastl, lastr
  <2> HIDE DEF l, r
  <2> QED
    BY <2>1, <2>2, <2>3 DEF Slots
<1> HIDE DEF l, r, a, b
<1> QED
  BY <1>3, <1>4, <1>5, <1>6

\* A node that was there before a round of the loop keeps its slots.
LEMMA DividedSlots ==
    ASSUME TypeOK, Shape, NEW n \in Leaves,
           NEW l \in [Slots -> Peer], NEW r \in [Slots -> Peer]
    PROVE  \A p \in DOMAIN tree : /\ p \in DOMAIN Divided(n, l, r)
                                  /\ Divided(n, l, r)[p].slots = tree[p].slots
<1>1. n \in DOMAIN tree /\ Left(n) \notin DOMAIN tree /\ Right(n) \notin DOMAIN tree
  BY DEF Shape, Leaves, IsLeaf
<1> QED
  BY <1>1 DEF Divided

-----------------------------------------------------------------------------
(***************************************************************************)
(* The steps, one conjunct of the invariant at a time.                     *)
(***************************************************************************)
\* The first insertion: one leaf over the whole id space.
LEMMA RootTree ==
    ASSUME NEW id, InsertRoot(id)
    PROVE  Shape' /\ FindProperNode' /\ Leaves' = {<<>>}
<1>1. DOMAIN tree' = {<<>>} /\ tree'[<<>>].lo = 0 /\ tree'[<<>>].hi = Space
  BY DEF InsertRoot
<1>2. <<>> \in Path /\ Len(<<>>) = 0 /\ SubSeq(<<>>, 1, 0) = <<>>
  BY DEF Path
<1>3. Left(<<>>) # <<>> /\ Right(<<>>) # <<>>
  BY <1>2, ChildPath DEF Left, Right
<1>4. Leaves' = {<<>>}
  BY <1>1, <1>3 DEF Leaves, IsLeaf
<1>5. Shape'
  BY <1>1, <1>2, <1>3 DEF Shape
<1>6. \A id2 \in Id : OnWalk(<<>>, id2)' /\ InRange(<<>>, id2)'
  BY <1>1, <1>2, SpaceAssumption DEF OnWalk, InRange, Id
<1> QED
  BY <1>4, <1>5, <1>6 DEF FindProperNode

\* A step that sets one slot.
LEMMA SlotStep ==
    ASSUME IInv, NEW n \in DOMAIN tree, NEW i \in Slots, NEW p \in Peer,
           tree' = WithSlot(n, i, p)
    PROVE  /\ DOMAIN tree' = DOMAIN tree
           /\ Shape' /\ FindProperNode' /\ Leaves' = Leaves
           /\ \A m \in DOMAIN tree : \A j \in Slots :
                 tree'[m].slots[j] = IF m = n /\ j = i THEN p ELSE tree[m].slots[j]
<1>1. TypeOK /\ Shape /\ FindProperNode
  BY DEF IInv
<1>2. /\ DOMAIN tree' = DOMAIN tree
      /\ \A m \in DOMAIN tree :
            /\ tree'[m].lo = tree[m].lo
            /\ tree'[m].hi = tree[m].hi
            /\ \A j \in Slots :
                  tree'[m].slots[j] = IF m = n /\ j = i THEN p ELSE tree[m].slots[j]
  BY <1>1, WithSlotTree
<1> QED
  BY <1>1, <1>2, SameNodes

LEMMA FillStep ==
    ASSUME IInv, NEW id \in Announced, NEW n \in DOMAIN tree, NEW i \in Slots,
           FillSlot(n, i, id)
    PROVE  /\ DOMAIN tree' = DOMAIN tree
           /\ Shape' /\ FindProperNode' /\ Leaves' = Leaves
           /\ \A m \in DOMAIN tree : \A j \in Slots :
                 tree'[m].slots[j] = IF m = n /\ j = i THEN Fresh(id) ELSE tree[m].slots[j]
<1>1. Fresh(id) \in Peer
  BY PeerTypes, IdAssumption DEF Id
<1>2. tree' = WithSlot(n, i, Fresh(id))
  BY DEF FillSlot
<1> QED
  BY <1>1, <1>2, SlotStep

LEMMA AnswerStep ==
    ASSUME IInv, NEW c \in pending, Answer(c)
    PROVE  /\ DOMAIN tree' = DOMAIN tree
           /\ Shape' /\ FindProperNode' /\ Leaves' = Leaves
           /\ c.at \in DOMAIN tree /\ c.slot \in Slots
           /\ \A m \in DOMAIN tree : \A j \in Slots :
                 tree'[m].slots[j] = IF m = c.at /\ j = c.slot
                                     THEN Fresh(tree[m].slots[j].id) ELSE tree[m].slots[j]
<1>1. c.at \in DOMAIN tree /\ c.slot \in Slots
  BY DEF IInv, PointersFilled, TypeOK, Pointer
<1>2. Fresh(tree[c.at].slots[c.slot].id) \in Peer
  BY <1>1, PeerTypes DEF IInv, TypeOK, Bucket, Peer
<1>3. PICK n \in DOMAIN tree, i \in Slots, p \in Peer :
         /\ n = c.at /\ i = c.slot /\ p = Fresh(tree[n].slots[i].id)
         /\ tree' = WithSlot(n, i, p)
  BY <1>1, <1>2 DEF Answer
<1>4. /\ DOMAIN tree' = DOMAIN tree
      /\ Shape' /\ FindProperNode' /\ Leaves' = Leaves
      /\ \A m \in DOMAIN tree : \A j \in Slots :
            tree'[m].slots[j] = IF m = n /\ j = i THEN p ELSE tree[m].slots[j]
  <2>1. tree' = WithSlot(n, i, p)
    BY <1>3
  <2> QED
    BY <2>1, SlotStep
<1>5. ASSUME NEW m \in DOMAIN tree, NEW j \in Slots
      PROVE  tree'[m].slots[j] = IF m = c.at /\ j = c.slot
                                 THEN Fresh(tree[m].slots[j].id) ELSE tree[m].slots[j]
  BY <1>3, <1>4
<1> QED
  BY <1>1, <1>4, <1>5

\* Both kinds of rounds of the split loop: two new leaves under split.at.
LEMMA RoundStep ==
    ASSUME IInv, SplitTurns \/ SplitSeparates
    PROVE  /\ Shape' /\ FindProperNode'
           /\ split.on /\ split.at \in Leaves
           /\ split.at \in DOMAIN tree /\ split.leaf \in DOMAIN tree
           /\ Leaves' = (Leaves \ {split.at}) \cup {Left(split.at), Right(split.at)}
           /\ DOMAIN tree' = DOMAIN tree \cup {Left(split.at), Right(split.at)}
           /\ Left(split.at) \notin DOMAIN tree /\ Right(split.at) \notin DOMAIN tree
           /\ \A p \in DOMAIN tree : tree'[p].slots = tree[p].slots
<1>1. TypeOK /\ Shape /\ FindProperNode
  BY DEF IInv
<1>2. split.on /\ split.at \in Leaves /\ split.at \in DOMAIN tree /\ split.leaf \in DOMAIN tree
  BY DEF IInv, SplitOK, SplitTurns, SplitSeparates, Leaves
<1>3. \E l, r \in [Slots -> Peer] : tree' = Divided(split.at, l, r)
  <2>1. CASE SplitTurns
    BY <2>1, PeerTypes DEF SplitTurns
  <2>2. CASE SplitSeparates
    BY <2>2, SeparateTree
  <2> QED
    BY <2>1, <2>2
<1>4. PICK l, r \in [Slots -> Peer] : tree' = Divided(split.at, l, r)
  BY <1>3
<1>5. /\ Shape' /\ FindProperNode'
      /\ Leaves' = (Leaves \ {split.at}) \cup {Left(split.at), Right(split.at)}
      /\ Left(split.at) \notin DOMAIN tree /\ Right(split.at) \notin DOMAIN tree
  BY <1>1, <1>2, <1>4, DividedWalk
<1>6. DOMAIN tree' = DOMAIN tree \cup {Left(split.at), Right(split.at)}
  BY <1>4 DEF Divided
<1>7. \A p \in DOMAIN tree : tree'[p].slots = tree[p].slots
  BY <1>1, <1>2, <1>4, DividedSlots
<1> QED
  BY <1>2, <1>5, <1>6, <1>7

-----------------------------------------------------------------------------
LEMMA ShapeStep == IInv /\ [Next]_vars => Shape' /\ FindProperNode' /\ SplitOK'
<1> SUFFICES ASSUME IInv, [Next]_vars
             PROVE  Shape' /\ FindProperNode' /\ SplitOK'
  OBVIOUS
<1>1. ASSUME NEW id \in Announced, InsertRoot(id)
      PROVE  Shape' /\ FindProperNode' /\ SplitOK'
  <2>1. ~split.on
    BY <1>1 DEF InsertRoot, IInv, SplitOK, Leaves
  <2> QED
    BY <1>1, <2>1, RootTree DEF InsertRoot, SplitOK
<1>2. ASSUME NEW id \in Announced, NEW n \in DOMAIN tree, NEW i \in Slots,
             FillSlot(n, i, id)
      PROVE  Shape' /\ FindProperNode' /\ SplitOK'
  BY <1>2, FillStep DEF FillSlot, SplitOK
<1>3. ASSUME NEW id \in Announced, NEW n \in DOMAIN tree, BeginSplit(n, id)
      PROVE  Shape' /\ FindProperNode' /\ SplitOK'
  <2>1. Shape' /\ FindProperNode' /\ Leaves' = Leaves
    BY <1>3, SameNodes DEF BeginSplit, IInv
  <2>2. SplitOK'
    BY <1>3, <2>1 DEF BeginSplit, SplitOK, Leaves, Full, InUse
  <2> QED
    BY <2>1, <2>2
<1>4. ASSUME SplitTurns
      PROVE  Shape' /\ FindProperNode' /\ SplitOK'
  <2>1. /\ split'.leaf = split.leaf
        /\ split'.at \in {Left(split.at), Right(split.at)}
    BY <1>4 DEF SplitTurns, SplitAt
  <2>2. \A i \in Slots : InUse(split.leaf, i)'
    BY <1>4, <2>1, RoundStep DEF IInv, SplitOK, InUse
  <2>3. tree'[split'.at].slots = EmptyBucket
    <3>1. tree' = Divided(split.at, EmptyBucket, EmptyBucket)
      BY <1>4 DEF SplitTurns
    <3> QED
      BY <2>1, <3>1 DEF Divided
  <2>4. split'.leaf \notin Leaves'
    BY <1>4, <2>1, RoundStep DEF IInv, SplitOK
  <2> QED
    BY <1>4, <2>1, <2>2, <2>3, <2>4, RoundStep DEF SplitOK
<1>5. ASSUME SplitSeparates
      PROVE  Shape' /\ FindProperNode' /\ SplitOK'
  BY <1>5, RoundStep DEF SplitSeparates, NoSplit, SplitOK
<1>6. ASSUME Sweep
      PROVE  Shape' /\ FindProperNode' /\ SplitOK'
  <2>1. Shape' /\ FindProperNode'
    BY <1>6, SweepTree, SameNodes DEF IInv
  <2> QED
    BY <1>6, <2>1 DEF Sweep, SplitOK
<1>7. ASSUME NEW c \in pending, Answer(c)
      PROVE  Shape' /\ FindProperNode' /\ SplitOK'
  BY <1>7, AnswerStep DEF Answer, SplitOK
<1>8. ASSUME Forget
      PROVE  Shape' /\ FindProperNode' /\ SplitOK'
  <2>1. Shape' /\ FindProperNode'
    BY <1>8, SameNodes DEF Forget, IInv
  <2> QED
    BY <1>8, <2>1 DEF Forget, SplitOK
<1>9. CASE UNCHANGED vars
  <2>1. Shape' /\ FindProperNode' /\ Leaves' = Leaves
    BY <1>9, SameNodes DEF vars, IInv
  <2> QED
    BY <1>9, <2>1 DEF vars, IInv, SplitOK, InUse
<1> QED
  BY <1>1, <1>2, <1>3, <1>4, <1>5, <1>6, <1>7, <1>8, <1>9 DEF Next, Insert

-----------------------------------------------------------------------------
(***************************************************************************)
(* The counters.                                                           *)
(***************************************************************************)
\* A slot that is in use has both counters running.
Running(p) == p.status = "IN_USE" => p.refresh_count_down > 0 /\ p.refresh_times > 0

LEMMA RunningPeers ==
    /\ Running(Zeroed)
    /\ \A id : Running(Fresh(id))
    /\ \A p \in Peer : Running(p) => Running(Aged(p))
<1>1. Running(Zeroed) /\ \A id : Running(Fresh(id))
  BY RefreshAssumption, DetectAssumption DEF Running, Zeroed, Fresh
<1>2. ASSUME NEW p \in Peer, Running(p)
      PROVE  Running(Aged(p))
  <2>1. /\ p.refresh_count_down \in Nat /\ p.refresh_times \in Nat
        /\ p.status \in {"NOT_USE", "IN_USE"}
    BY DetectAssumption, RefreshAssumption DEF Peer
  <2> QED
    BY <1>2, <2>1, RefreshAssumption DEF Running, Aged
<1> QED
  BY <1>1, <1>2

LEMMA CountersStep == IInv /\ [Next]_vars => CountersRun'
<1> SUFFICES ASSUME IInv, [Next]_vars
             PROVE  CountersRun'
  OBVIOUS
<1> SUFFICES \A n \in DOMAIN tree', i \in Slots : Running(tree'[n].slots[i])
  BY DEF CountersRun, InUse, Running
<1>0. \A n \in DOMAIN tree, i \in Slots :
         /\ Running(tree[n].slots[i])
         /\ tree[n].slots[i] \in Peer
  BY DEF IInv, CountersRun, InUse, Running, TypeOK, Bucket
<1>1. ASSUME NEW id \in Announced, InsertRoot(id)
      PROVE  \A n \in DOMAIN tree', i \in Slots : Running(tree'[n].slots[i])
  BY <1>1, RunningPeers DEF InsertRoot
<1>2. ASSUME NEW id \in Announced, NEW n \in DOMAIN tree, NEW i \in Slots,
             FillSlot(n, i, id)
      PROVE  \A m \in DOMAIN tree', j \in Slots : Running(tree'[m].slots[j])
  BY <1>0, <1>2, FillStep, RunningPeers
<1>3. ASSUME NEW id \in Announced, NEW n \in DOMAIN tree, BeginSplit(n, id)
      PROVE  \A m \in DOMAIN tree', j \in Slots : Running(tree'[m].slots[j])
  BY <1>0, <1>3 DEF BeginSplit
<1>4. ASSUME SplitTurns
      PROVE  \A m \in DOMAIN tree', j \in Slots : Running(tree'[m].slots[j])
  <2>1. /\ tree'[Left(split.at)].slots = EmptyBucket
        /\ tree'[Right(split.at)].slots = EmptyBucket
    BY <1>4 DEF SplitTurns, Divided
  <2> QED
    BY <1>0, <1>4, <2>1, RoundStep, RunningPeers DEF EmptyBucket
<1>5. ASSUME SplitSeparates
      PROVE  \A m \in DOMAIN tree', j \in Slots : Running(tree'[m].slots[j])
  <2>1. PICK l, r \in [Slots -> Peer] :
           /\ tree' = Divided(split.at, l, r)
           /\ \A j \in Slots : \A p \in {l[j], r[j]} :
                 \/ p \in {Zeroed, Fresh(split.id)}
                 \/ \E i \in Slots : p = tree[split.leaf].slots[i]
    BY <1>5, SeparateTree
  <2>2. \A j \in Slots : Running(l[j]) /\ Running(r[j])
    BY <1>0, <1>5, <2>1, RoundStep, RunningPeers
  <2>3. tree'[Left(split.at)].slots = l /\ tree'[Right(split.at)].slots \in {l, r}
    BY <2>1 DEF Divided
  <2> QED
    BY <1>0, <1>5, <2>2, <2>3, RoundStep
<1>6. ASSUME Sweep
      PROVE  \A m \in DOMAIN tree', j \in Slots : Running(tree'[m].slots[j])
  BY <1>0, <1>6, SweepTree, RunningPeers DEF IInv
<1>7. ASSUME NEW c \in pending, Answer(c)
      PROVE  \A m \in DOMAIN tree', j \in Slots : Running(tree'[m].slots[j])
  BY <1>0, <1>7, AnswerStep, RunningPeers
<1>8. ASSUME Forget
      PROVE  \A m \in DOMAIN tree', j \in Slots : Running(tree'[m].slots[j])
  BY <1>0, <1>8 DEF Forget
<1>9. CASE UNCHANGED vars
  BY <1>0, <1>9 DEF vars
<1> QED
  BY <1>1, <1>2, <1>3, <1>4, <1>5, <1>6, <1>7, <1>8, <1>9 DEF Next, Insert

-----------------------------------------------------------------------------
(***************************************************************************)
(* The slots that requests point to.                                       *)
(***************************************************************************)
\* Ageing neither empties a slot that was filled nor fills one that was not.
LEMMA AgedFilled == \A p \in Peer : Running(p) => (Aged(p) # Zeroed <=> p # Zeroed)
  BY RefreshAssumption DEF Peer, Running, Aged, Zeroed

LEMMA FreshFilled == \A id : Fresh(id) # Zeroed
  BY DEF Fresh, Zeroed

LEMMA PointersStep == IInv /\ [Next]_vars => PointersFilled'
<1> SUFFICES ASSUME IInv, [Next]_vars
             PROVE  PointersFilled'
  OBVIOUS
<1>0. /\ \A c \in pending : /\ c.at \in DOMAIN tree /\ c.slot \in Slots
                             /\ tree[c.at].slots[c.slot] # Zeroed
      /\ \A n \in DOMAIN tree, i \in Slots : /\ tree[n].slots[i] \in Peer
                                             /\ Running(tree[n].slots[i])
  BY DEF IInv, PointersFilled, TypeOK, Pointer, Bucket, CountersRun, InUse, Running
<1>1. ASSUME NEW id \in Announced, InsertRoot(id)
      PROVE  PointersFilled'
  BY <1>0, <1>1 DEF InsertRoot, PointersFilled
<1>2. ASSUME NEW id \in Announced, NEW n \in DOMAIN tree, NEW i \in Slots,
             FillSlot(n, i, id)
      PROVE  PointersFilled'
  <2>1. pending' = pending
    BY <1>2 DEF FillSlot
  <2> QED
    BY <1>0, <1>2, <2>1, FillStep, FreshFilled DEF PointersFilled
<1>3. ASSUME NEW id \in Announced, NEW n \in DOMAIN tree, BeginSplit(n, id)
      PROVE  PointersFilled'
  BY <1>0, <1>3 DEF BeginSplit, PointersFilled
<1>4. ASSUME SplitTurns \/ SplitSeparates
      PROVE  PointersFilled'
  <2>1. pending' = pending
    BY <1>4 DEF SplitTurns, SplitSeparates
  <2> QED
    BY <1>0, <1>4, <2>1, RoundStep DEF PointersFilled
<1>5. ASSUME Sweep
      PROVE  PointersFilled'
  <2>1. \A c \in pending' : c \in pending \/ c \in Buffered
    BY <1>5 DEF Sweep
  <2>2. \A c \in Buffered : /\ c.at \in DOMAIN tree /\ c.slot \in Slots
                            /\ tree[c.at].slots[c.slot] # Zeroed
    BY DEF Buffered, Leaves, InUse, Zeroed
  <2> QED
    BY <1>0, <1>5, <2>1, <2>2, SweepTree, AgedFilled DEF IInv, PointersFilled
<1>6. ASSUME NEW c \in pending, Answer(c)
      PROVE  PointersFilled'
  <2>1. pending' \subseteq pending
    BY <1>6 DEF Answer
  <2> QED
    BY <1>0, <1>6, <2>1, AnswerStep, FreshFilled DEF PointersFilled
<1>7. ASSUME Forget
      PROVE  PointersFilled'
  BY <1>0, <1>7 DEF Forget, PointersFilled
<1>8. CASE UNCHANGED vars
  BY <1>0, <1>8 DEF vars, PointersFilled
<1> QED
  BY <1>1, <1>2, <1>3, <1>4, <1>5, <1>6, <1>7, <1>8 DEF Next, Insert

-----------------------------------------------------------------------------
(***************************************************************************)
(* route_num against the slots that were filled.                           *)
(***************************************************************************)
LEMMA CountedFinite ==
    ASSUME IInv
    PROVE  IsFiniteSet(Counted) /\ Cardinality(Counted) \in Nat /\ routeNum \in Nat
<1>1. IsFiniteSet(DOMAIN tree) /\ IsFiniteSet(Slots)
  BY SlotsFinite DEF IInv, CountOK
<1>2. IsFiniteSet((DOMAIN tree) \X Slots)
  BY <1>1, FS_Product, Zenon
<1>3. Counted \in SUBSET ((DOMAIN tree) \X Slots)
  <2>1. Leaves \subseteq DOMAIN tree /\ (split.on => split.leaf \in DOMAIN tree)
    BY DEF Leaves, IInv, SplitOK
  <2> QED
    BY <2>1 DEF Counted, Filled
<1> QED
  BY <1>2, <1>3, FS_Subset, FS_CardinalityType DEF IInv, TypeOK

\* A step that fills no slot of a leaf that was not counted.
LEMMA CountedKept ==
    ASSUME IInv, IsFiniteSet(DOMAIN tree'), Counted' \subseteq Counted, routeNum' = routeNum
    PROVE  CountOK'
<1>1. /\ IsFiniteSet(Counted) /\ Cardinality(Counted) \in Nat /\ routeNum \in Nat
      /\ Cardinality(Counted) <= routeNum
  BY CountedFinite DEF IInv, CountOK
<1>2. Cardinality(Counted') <= Cardinality(Counted) /\ Cardinality(Counted') \in Nat
  <2> DEFINE S == Counted'
  <2>1. S \in SUBSET Counted
    OBVIOUS
  <2> HIDE DEF S
  <2>2. Cardinality(S) <= Cardinality(Counted) /\ Cardinality(S) \in Nat
    BY <1>1, <2>1, FS_Subset, FS_CardinalityType
  <2> QED
    BY <2>2 DEF S
<1> QED
  BY <1>1, <1>2 DEF CountOK

\* A step that counts one slot more.
LEMMA CountedGrows ==
    ASSUME IInv, IsFiniteSet(DOMAIN tree'), NEW x, Counted' \subseteq Counted \cup {x},
           routeNum' = routeNum + 1
    PROVE  CountOK'
<1>1. /\ IsFiniteSet(Counted) /\ Cardinality(Counted) \in Nat /\ routeNum \in Nat
      /\ Cardinality(Counted) <= routeNum
  BY CountedFinite DEF IInv, CountOK
<1>2. /\ IsFiniteSet(Counted \cup {x})
      /\ Cardinality(Counted \cup {x}) <= Cardinality(Counted) + 1
      /\ Cardinality(Counted \cup {x}) \in Nat
  <2> DEFINE C == Counted
  <2>1. IsFiniteSet(C) /\ Cardinality(C) \in Nat
    BY <1>1
  <2> HIDE DEF C
  <2>2. /\ IsFiniteSet(C \cup {x})
        /\ Cardinality(C \cup {x}) = IF x \in C THEN Cardinality(C) ELSE Cardinality(C) + 1
    BY <2>1, FS_AddElement
  <2>3. Cardinality(C \cup {x}) <= Cardinality(C) + 1 /\ Cardinality(C \cup {x}) \in Nat
    BY <2>1, <2>2
  <2> QED
    BY <2>2, <2>3 DEF C
<1>3. Cardinality(Counted') <= Cardinality(Counted \cup {x}) /\ Cardinality(Counted') \in Nat
  <2> DEFINE S == Counted'
             T == Counted \cup {x}
  <2>1. S \in SUBSET T
    OBVIOUS
  <2>2. IsFiniteSet(T)
    BY <1>2
  <2> HIDE DEF S, T
  <2>3. Cardinality(S) <= Cardinality(T) /\ Cardinality(S) \in Nat
    BY <2>1, <2>2, FS_Subset, FS_CardinalityType
  <2> QED
    BY <2>3 DEF S, T
<1> QED
  BY <1>1, <1>2, <1>3 DEF CountOK

\* The last round of a split: the slots of the full bucket, counted until now,
\* give way to one more than their number in the two new leaves.
LEMMA CountedSplit ==
    ASSUME IInv, SplitSeparates
    PROVE  CountOK'
<1> DEFINE L == Left(split.at)
           R == Right(split.at)
           A == {x \in Filled : x[1] # split.at /\ x[1] # split.leaf}
           B == {split.leaf} \X Slots
<1>1. PICK l, r \in [Slots -> Peer], a, b \in Nat :
         /\ tree' = Divided(split.at, l, r)
         /\ a + b = BucketSize + 1
         /\ \A j \in Slots : (j > a => l[j] = Zeroed) /\ (j > b => r[j] = Zeroed)
  BY SeparateTree
<1>2. /\ split.on /\ split.leaf \in DOMAIN tree
      /\ split.at # split.leaf => split.leaf \notin Leaves
      /\ routeNum' = routeNum + 1 /\ ~split'.on
  BY DEF IInv, SplitOK, SplitSeparates, NoSplit
<1>3. IsFiniteSet(DOMAIN tree')
  <2>1. DOMAIN tree' = (DOMAIN tree \cup {L}) \cup {R}
    BY <1>1 DEF Divided
  <2>2. IsFiniteSet(DOMAIN tree \cup {L})
    BY FS_AddElement DEF IInv, CountOK
  <2> QED
    BY <2>1, <2>2, FS_AddElement
<1>4. tree'[L].slots = l /\ tree'[R].slots \in {l, r} /\ (L # R => tree'[R].slots = r)
  BY <1>1 DEF Divided
<1>5. L # R
  BY RoundStep, ChildPath DEF IInv, TypeOK, Left, Right
<1>6. Filled' \subseteq (A \cup ({L} \X (1 .. a))) \cup ({R} \X (1 .. b))
  <2> SUFFICES ASSUME NEW x \in Filled'
               PROVE  x \in (A \cup ({L} \X (1 .. a))) \cup ({R} \X (1 .. b))
    OBVIOUS
  <2>1. PICK m \in Leaves', i \in Slots : x = <<m, i>> /\ tree'[m].slots[i] # Zeroed
    BY DEF Filled
  <2>2. m \in (Leaves \ {split.at}) \cup {L, R}
    BY <2>1, RoundStep
  <2>3. CASE m = L
    <3>1. l[i] # Zeroed
      BY <1>4, <2>1, <2>3
    <3>2. i \in 1 .. a
      BY <1>1, <3>1 DEF Slots
    <3> QED
      BY <2>1, <2>3, <3>2
  <2>4. CASE m = R
    <3>1. r[i] # Zeroed
      BY <1>4, <1>5, <2>1, <2>4
    <3>2. i \in 1 .. b
      BY <1>1, <3>1 DEF Slots
    <3> QED
      BY <2>1, <2>4, <3>2
  <2>5. CASE m \in Leaves \ {split.at}
    <3>1. m # split.leaf
      BY <1>2, <2>5
    <3>2. tree'[m].slots = tree[m].slots
      BY <2>5, RoundStep DEF Leaves
    <3> QED
      BY <2>1, <2>5, <3>1, <3>2 DEF Filled
  <2> QED
    BY <2>2, <2>3, <2>4, <2>5
<1>7. /\ IsFiniteSet(A) /\ Cardinality(A) \in Nat
      /\ Cardinality(A) + BucketSize <= Cardinality(Counted)
  <2>1. IsFiniteSet(Counted) /\ IsFiniteSet(Slots) /\ Cardinality(Slots) = BucketSize
    BY CountedFinite, SlotsFinite
  <2>2. A \in SUBSET Counted /\ A \cup B \in SUBSET Counted /\ A \cap B = {}
    BY <1>2 DEF Counted, Filled
  <2>3. IsFiniteSet({split.leaf}) /\ Cardinality({split.leaf}) = 1
    BY FS_Singleton
  <2>4. IsFiniteSet(B) /\ Cardinality(B) = BucketSize
    BY <2>1, <2>3, FS_Product, BucketAssumption
  <2> HIDE DEF A, B
  <2>5. IsFiniteSet(A) /\ Cardinality(A) \in Nat
    BY <2>1, <2>2, FS_Subset, FS_CardinalityType
  <2>6. Cardinality(A \cup B) = Cardinality(A) + Cardinality(B) - 0
    BY <2>2, <2>4, <2>5, FS_Union, FS_EmptySet
  <2>7. Cardinality(A \cup B) <= Cardinality(Counted)
    BY <2>1, <2>2, FS_Subset
  <2> QED
    BY <2>4, <2>5, <2>6, <2>7, BucketAssumption
<1>8. ASSUME NEW z, NEW c \in Nat
      PROVE  IsFiniteSet({z} \X (1 .. c)) /\ Cardinality({z} \X (1 .. c)) = c
  <2>1. IsFiniteSet(1 .. c) /\ Cardinality(1 .. c) = c
    BY FS_Interval
  <2>2. IsFiniteSet({z}) /\ Cardinality({z}) = 1
    BY FS_Singleton
  <2> DEFINE T == 1 .. c
  <2> HIDE DEF T
  <2>3. /\ IsFiniteSet({z} \X T)
        /\ Cardinality({z} \X T) = Cardinality({z}) * Cardinality(T)
    BY <2>1, <2>2, FS_Product, Zenon DEF T
  <2>4. Cardinality({z}) * Cardinality(T) = c
    BY <2>1, <2>2 DEF T
  <2> QED
    BY <2>3, <2>4, Zenon DEF T
<1>9. ASSUME NEW S, IsFiniteSet(S), NEW T, IsFiniteSet(T)
      PROVE  /\ IsFiniteSet(S \cup T)
             /\ Cardinality(S \cup T) <= Cardinality(S) + Cardinality(T)
             /\ Cardinality(S \cup T) \in Nat
  <2> DEFINE I == S \cap T
  <2>1. IsFiniteSet(I) /\ Cardinality(I) \in Nat
    BY <1>9, FS_Subset, FS_CardinalityType
  <2>2. Cardinality(S) \in Nat /\ Cardinality(T) \in Nat
    BY <1>9, FS_CardinalityType
  <2>3. /\ IsFiniteSet(S \cup T)
        /\ Cardinality(S \cup T) = Cardinality(S) + Cardinality(T) - Cardinality(I)
    BY <1>9, FS_Union
  <2>4. Cardinality(S \cup T) \in Nat
    BY <2>3, FS_CardinalityType
  <2> HIDE DEF I
  <2> QED
    BY <2>1, <2>2, <2>3, <2>4
<1>10. Cardinality(Filled') <= Cardinality(Counted) + 1 /\ Cardinality(Filled') \in Nat
  <2> DEFINE F == Filled'
             X == {L} \X (1 .. a)
             Y == {R} \X (1 .. b)
             AX == A \cup X
             AXY == AX \cup Y
  <2>1. F \in SUBSET AXY
    BY <1>6
  <2>2. /\ IsFiniteSet(X) /\ Cardinality(X) = a
        /\ IsFiniteSet(Y) /\ Cardinality(Y) = b
    BY <1>1, <1>8
  <2> HIDE DEF F, X, Y, A
  <2>3. /\ IsFiniteSet(AX) /\ Cardinality(AX) \in Nat
        /\ Cardinality(AX) <= Cardinality(A) + a
    BY <1>7, <1>9, <2>2
  <2> HIDE DEF AX
  <2>4. /\ IsFiniteSet(AXY) /\ Cardinality(AXY) \in Nat
        /\ Cardinality(AXY) <= Cardinality(AX) + b
    BY <1>9, <2>2, <2>3
  <2> HIDE DEF AXY
  <2>5. Cardinality(F) <= Cardinality(AXY) /\ Cardinality(F) \in Nat
    BY <2>1, <2>4, FS_Subset, FS_CardinalityType
  <2>6. Cardinality(Counted) \in Nat /\ a \in Nat /\ b \in Nat /\ a + b = BucketSize + 1
    BY <1>1, CountedFinite
  <2>7. Cardinality(F) <= Cardinality(Counted) + 1
    BY <1>7, <2>3, <2>4, <2>5, <2>6, BucketAssumption
  <2> QED
    BY <2>5, <2>7 DEF F
<1>11. Counted' = Filled'
  BY <1>2 DEF Counted
<1> QED
  BY <1>2, <1>3, <1>10, <1>11, CountedFinite DEF IInv, CountOK

LEMMA CountStep == IInv /\ [Next]_vars => CountOK'
<1> SUFFICES ASSUME IInv, [Next]_vars
             PROVE  CountOK'
  OBVIOUS
<1>0. /\ IsFiniteSet(DOMAIN tree)
      /\ \A n \in DOMAIN tree, i \in Slots : /\ tree[n].slots[i] \in Peer
                                             /\ Running(tree[n].slots[i])
  BY DEF IInv, CountOK, TypeOK, Bucket, CountersRun, InUse, Running
<1>1. ASSUME NEW id \in Announced, InsertRoot(id)
      PROVE  CountOK'
  <2>1. DOMAIN tree' = {<<>>} /\ tree'[<<>>].slots = [i \in Slots |-> IF i = 1 THEN Fresh(id) ELSE Zeroed]
    BY <1>1 DEF InsertRoot
  <2>2. ~split'.on
    BY <1>1 DEF InsertRoot, IInv, SplitOK, Leaves
  <2>3. Counted' \subseteq Counted \cup {<< <<>>, 1 >>}
    BY <1>1, <2>1, <2>2, RootTree DEF Counted, Filled
  <2>4. IsFiniteSet(DOMAIN tree')
    <3>1. \A x : IsFiniteSet({x})
      BY FS_Singleton
    <3>2. DOMAIN tree' = {<<>>}
      BY <2>1
    <3> QED
      BY <3>1, <3>2
  <2> QED
    BY <1>1, <2>3, <2>4, CountedGrows DEF InsertRoot
<1>2. ASSUME NEW id \in Announced, NEW n \in DOMAIN tree, NEW i \in Slots,
             FillSlot(n, i, id)
      PROVE  CountOK'
  <2>1. ~split.on /\ ~split'.on /\ routeNum' = routeNum + 1
    BY <1>2 DEF FillSlot
  <2>2. Counted' \subseteq Counted \cup {<<n, i>>}
    <3> SUFFICES ASSUME NEW x \in Filled'
                 PROVE  x \in Filled \cup {<<n, i>>}
      BY <2>1 DEF Counted
    <3>1. PICK m \in Leaves', j \in Slots : x = <<m, j>> /\ tree'[m].slots[j] # Zeroed
      BY DEF Filled
    <3>2. m \in Leaves /\ m \in DOMAIN tree
      BY <1>2, <3>1, FillStep DEF Leaves
    <3>3. CASE m = n /\ j = i
      BY <3>1, <3>3
    <3>4. CASE ~ (m = n /\ j = i)
      BY <1>2, <3>1, <3>2, <3>4, FillStep DEF Filled
    <3> QED
      BY <3>3, <3>4
  <2> QED
    BY <1>0, <1>2, <2>1, <2>2, FillStep, CountedGrows
<1>3. ASSUME NEW id \in Announced, NEW n \in DOMAIN tree, BeginSplit(n, id)
      PROVE  CountOK'
  <2>1. n \in Leaves /\ \A i \in Slots : InUse(n, i)
    BY <1>3 DEF BeginSplit, Full, Leaves
  <2>2. {n} \X Slots \subseteq Filled
    BY <2>1 DEF Filled, InUse, Zeroed
  <2>3. split'.leaf = n /\ tree' = tree /\ routeNum' = routeNum
    BY <1>3 DEF BeginSplit
  <2>4. Counted' \subseteq Counted
    BY <2>2, <2>3 DEF Counted, Filled, Leaves, IsLeaf
  <2> QED
    BY <1>0, <2>3, <2>4, CountedKept
<1>4. ASSUME SplitTurns
      PROVE  CountOK'
  <2>1. /\ split.on /\ split'.on /\ split'.leaf = split.leaf /\ routeNum' = routeNum
        /\ tree' = Divided(split.at, EmptyBucket, EmptyBucket)
    BY <1>4 DEF SplitTurns, SplitAt
  <2>2. /\ tree'[Left(split.at)].slots = EmptyBucket
        /\ tree'[Right(split.at)].slots = EmptyBucket
    BY <2>1 DEF Divided
  <2>3. Filled' \subseteq Filled
    <3> SUFFICES ASSUME NEW x \in Filled'
                 PROVE  x \in Filled
      OBVIOUS
    <3>1. PICK m \in Leaves', j \in Slots : x = <<m, j>> /\ tree'[m].slots[j] # Zeroed
      BY DEF Filled
    <3>2. m \notin {Left(split.at), Right(split.at)}
      BY <2>2, <3>1 DEF EmptyBucket
    <3>3. m \in Leaves /\ m \in DOMAIN tree
      BY <1>4, <3>1, <3>2, RoundStep DEF Leaves
    <3> QED
      BY <1>4, <3>1, <3>3, RoundStep DEF Filled
  <2>4. Counted' \subseteq Counted
    BY <2>1, <2>3 DEF Counted
  <2>5. IsFiniteSet(DOMAIN tree')
    <3>1. DOMAIN tree' = (DOMAIN tree \cup {Left(split.at)}) \cup {Right(split.at)}
      BY <1>4, RoundStep
    <3>2. IsFiniteSet(DOMAIN tree \cup {Left(split.at)})
      BY <1>0, FS_AddElement
    <3> QED
      BY <3>1, <3>2, FS_AddElement
  <2> QED
    BY <2>1, <2>4, <2>5, CountedKept
<1>5. ASSUME SplitSeparates
      PROVE  CountOK'
  BY <1>5, CountedSplit
<1>6. ASSUME Sweep
      PROVE  CountOK'
  <2>1. Leaves' = Leaves
    BY <1>6, SweepTree, SameNodes DEF IInv
  <2>2. ~split.on /\ ~split'.on /\ routeNum' = routeNum
    BY <1>6 DEF Sweep
  <2>3. Counted' \subseteq Counted
    BY <1>0, <1>6, <2>1, <2>2, SweepTree, AgedFilled DEF IInv, Counted, Filled, Leaves
  <2> QED
    BY <1>0, <1>6, <2>2, <2>3, SweepTree, CountedKept DEF IInv
<1>7. ASSUME NEW c \in pending, Answer(c)
      PROVE  CountOK'
  <2>1. ~split.on /\ ~split'.on /\ routeNum' = routeNum
    BY <1>7 DEF Answer
  <2>2. tree[c.at].slots[c.slot] # Zeroed
    BY DEF IInv, PointersFilled
  <2>3. Counted' \subseteq Counted
    BY <1>7, <2>1, <2>2, AnswerStep DEF Counted, Filled, Leaves
  <2> QED
    BY <1>0, <1>7, <2>1, <2>3, AnswerStep, CountedKept
<1>8. ASSUME Forget
      PROVE  CountOK'
  BY <1>8 DEF Forget, IInv, CountOK, Counted, Filled, Leaves, IsLeaf
<1>9. CASE UNCHANGED vars
  BY <1>9 DEF vars, IInv, CountOK, Counted, Filled, Leaves, IsLeaf
<1> QED
  BY <1>1, <1>2, <1>3, <1>4, <1>5, <1>6, <1>7, <1>8, <1>9 DEF Next, Insert

-----------------------------------------------------------------------------
(***************************************************************************)
(* What a split deals out.                                                 *)
(***************************************************************************)
\* While a split runs, the leaves below the full bucket are empty, except the
\* one that the loop stands on.
SplitBelow ==
    split.on => /\ Under(split.at, split.leaf)
                /\ \A m \in Leaves : Under(m, split.leaf) =>
                      m = split.at \/ tree[m].slots = EmptyBucket

\* The walk to a bucket that a round allocates leads through the full one.
LEMMA ChildUnder ==
    ASSUME NEW n \in Path, NEW m \in Path, Under(n, m), NEW b \in {0, 1}
    PROVE  Under(Append(n, b), m)
<1>1. Len(m) \in 0 .. Len(n) /\ Len(n) \in Nat
  BY DEF Under, Path
<1> QED
  BY <1>1, ChildPath DEF Under

\* Each round keeps SplitBelow.
LEMMA BelowStep == IInv /\ SplitBelow /\ [Next]_vars => SplitBelow'
<1> SUFFICES ASSUME IInv, SplitBelow, [Next]_vars, split'.on
             PROVE  /\ Under(split.at, split.leaf)'
                    /\ \A m \in Leaves' : Under(m, split'.leaf) =>
                          m = split'.at \/ tree'[m].slots = EmptyBucket
  BY DEF SplitBelow
<1>1. ASSUME NEW id \in Announced, NEW n \in DOMAIN tree, BeginSplit(n, id)
      PROVE  /\ Under(split.at, split.leaf)'
             /\ \A m \in Leaves' : Under(m, split'.leaf) => m = split'.at
  <2>1. split'.at = n /\ split'.leaf = n /\ Leaves' = Leaves /\ n \in Leaves
    BY <1>1 DEF BeginSplit, Leaves, IsLeaf
  <2>2. n \in Path /\ SubSeq(n, 1, Len(n)) = n /\ Len(n) \in Nat
    BY ChildPath DEF IInv, TypeOK, Path
  <2>3. ASSUME NEW m \in Leaves, Under(m, n) PROVE m = n
    <3>1. m \in DOMAIN tree /\ m \in Path /\ Len(m) \in Nat /\ SubSeq(m, 1, Len(m)) = m
      BY DEF IInv, TypeOK, Leaves, Path
    <3>2. ~ (Len(n) \in 0 .. Len(m) - 1)
      BY <2>1, <2>3, <3>1, LeafEndsPath DEF IInv, Under
    <3>3. Len(n) = Len(m)
      <4> DEFINE p == Len(n)
                 q == Len(m)
      <4>1. p <= q /\ p \in Nat /\ q \in Nat /\ p \notin 0 .. q - 1
        BY <2>2, <2>3, <3>1, <3>2 DEF Under
      <4> HIDE DEF p, q
      <4>2. p = q
        BY <4>1
      <4> QED
        BY <4>2 DEF p, q
    <3> QED
      BY <2>3, <3>1, <3>3 DEF Under
  <2> QED
    BY <2>1, <2>2, <2>3 DEF Under
<1>2. ASSUME SplitTurns
      PROVE  /\ Under(split.at, split.leaf)'
             /\ \A m \in Leaves' : Under(m, split'.leaf) => tree'[m].slots = EmptyBucket
  <2> DEFINE L == Left(split.at)
             R == Right(split.at)
  <2>1. split'.leaf = split.leaf /\ split'.at \in {L, R} /\ split.on
    BY <1>2 DEF SplitTurns, SplitAt
  <2>2. split.at \in Path /\ split.leaf \in Path
    BY <1>2, RoundStep DEF IInv, TypeOK
  <2>3. Under(L, split.leaf) /\ Under(R, split.leaf)
    BY <2>1, <2>2, ChildUnder DEF SplitBelow, Left, Right
  <2>4. tree'[L].slots = EmptyBucket /\ tree'[R].slots = EmptyBucket
    BY <1>2 DEF SplitTurns, Divided
  <2>5. ASSUME NEW m \in Leaves', Under(m, split.leaf) PROVE tree'[m].slots = EmptyBucket
    <3>1. CASE m \in {L, R}
      BY <2>4, <3>1
    <3>2. CASE m \notin {L, R}
      <4>1. m \in Leaves /\ m # split.at /\ tree'[m].slots = tree[m].slots
        BY <1>2, <3>2, RoundStep DEF Leaves
      <4> QED
        BY <2>1, <2>5, <4>1 DEF SplitBelow
    <3> QED
      BY <3>1, <3>2
  <2> QED
    BY <2>1, <2>3, <2>5
<1>3. CASE UNCHANGED vars
  BY <1>3 DEF vars, SplitBelow, Leaves, IsLeaf
<1>4. ASSUME NEW id \in Announced, InsertRoot(id) PROVE FALSE
  BY <1>4 DEF InsertRoot, IInv, SplitOK, Leaves
<1>5. ASSUME NEW id \in Announced, NEW n \in DOMAIN tree, NEW i \in Slots, FillSlot(n, i, id)
      PROVE  FALSE
  BY <1>5 DEF FillSlot
<1>6. CASE SplitSeparates
  BY <1>6 DEF SplitSeparates, NoSplit
<1>7. CASE Sweep \/ Forget \/ \E c \in pending : Answer(c)
  BY <1>7 DEF Sweep, Forget, Answer
<1> QED
  BY <1>1, <1>2, <1>3, <1>4, <1>5, <1>6, <1>7 DEF Next, Insert

\* Ranks number the entries of a side from 1 on.
LEMMA RankIs ==
    ASSUME NEW S \in SUBSET Slots
    PROVE  /\ Cardinality(S) \in Nat /\ IsFiniteSet(S)
           /\ \A i \in S : Rank(S, i) \in 1 .. Cardinality(S)
           /\ \A i, k \in S : Rank(S, i) = Rank(S, k) => i = k
           /\ \A j \in 1 .. Cardinality(S) : \E i \in S : Rank(S, i) = j
<1> DEFINE To(i) == {k \in S : k <= i}
           n == Cardinality(S)
           f == [i \in S |-> Rank(S, i)]
<1>1. IsFiniteSet(S) /\ n \in Nat
  BY SlotsFinite, FS_Subset, FS_CardinalityType
<1>2. \A i \in S : i \in Int
  BY DEF Slots
<1>3. ASSUME NEW i \in S
      PROVE  /\ IsFiniteSet(To(i)) /\ Cardinality(To(i)) \in Nat
             /\ i \in To(i) /\ Rank(S, i) = Cardinality(To(i))
             /\ Rank(S, i) \in 1 .. n
  <2>1. To(i) \in SUBSET S /\ i \in To(i)
    BY <1>2
  <2> DEFINE T == To(i)
  <2> HIDE DEF T
  <2>2. IsFiniteSet(T) /\ Cardinality(T) \in Nat /\ Cardinality(T) <= n
    BY <1>1, <2>1, FS_Subset, FS_CardinalityType DEF T
  <2>3. Cardinality(T) # 0
    BY <2>1, <2>2, FS_EmptySet DEF T
  <2> QED
    BY <1>1, <2>1, <2>2, <2>3 DEF T, Rank
<1>4. ASSUME NEW i \in S, NEW k \in S, i < k PROVE Rank(S, i) # Rank(S, k)
  <2>1. To(i) \in SUBSET To(k) /\ k \notin To(i) /\ k \in To(k)
    BY <1>2, <1>4
  <2>2. To(i) # To(k)
    BY <2>1
  <2> HIDE DEF To
  <2>3. Cardinality(To(i)) # Cardinality(To(k))
    BY <1>3, <2>1, <2>2, FS_Subset
  <2> QED
    BY <1>3, <2>3
<1>5. \A i, k \in S : Rank(S, i) = Rank(S, k) => i = k
  BY <1>2, <1>4
<1>6. IsFiniteSet(1 .. n) /\ Cardinality(1 .. n) = n
  <2>1. 1 \in Int /\ n \in Int
    BY <1>1
  <2> QED
    BY <1>1, <2>1, FS_Interval
<1>7. f \in Injection(S, 1 .. n)
  BY <1>3, <1>5 DEF Injection, IsInjective
<1>8. f \in Surjection(S, 1 .. n)
  <2> DEFINE I == 1 .. n
  <2>1. IsFiniteSet(I) /\ Cardinality(I) = Cardinality(S) /\ f \in Injection(S, I)
    BY <1>6, <1>7
  <2> HIDE DEF I, f, n
  <2>2. f \in Surjection(S, I)
    BY <2>1, FS_Injection
  <2> QED
    BY <2>2 DEF I
<1>9. \A j \in 1 .. n : \E i \in S : Rank(S, i) = j
  BY <1>8 DEF Surjection
<1> QED
  BY <1>1, <1>3, <1>5, <1>9

\* Bucket P has the slots S of bucket n in the front, last behind them, and
\* nothing else.
TakesAll(P, n, S, last) ==
    /\ Cardinality(S) \in Nat /\ Cardinality(S) + 1 \in Slots
    /\ \A i \in S : \E j \in 1 .. Cardinality(S) : P[j] = tree[n].slots[i]
    /\ \A j \in 1 .. Cardinality(S) : \E i \in S : P[j] = tree[n].slots[i]
    /\ P[Cardinality(S) + 1] = last
    /\ \A j \in Slots : j > Cardinality(S) + 1 => P[j] = Zeroed

\* A side with room left takes all of its entries.
LEMMA PackedAll ==
    ASSUME NEW n, NEW S \in SUBSET Slots, S # Slots, NEW last
    PROVE  TakesAll(Packed(n, S, last), n, S, last)
<1> DEFINE c == Cardinality(S)
           P == Packed(n, S, last)
<1>1. c \in Nat /\ c < BucketSize /\ BucketSize \in Nat
  <2>1. IsFiniteSet(Slots) /\ Cardinality(Slots) = BucketSize /\ BucketSize \in Nat
    BY SlotsFinite, BucketAssumption
  <2>2. Cardinality(S) <= Cardinality(Slots) /\ Cardinality(S) # Cardinality(Slots)
    BY <2>1, FS_Subset
  <2> QED
    BY <2>1, <2>2, RankIs
<1>2. c + 1 \in Slots /\ \A j \in 1 .. c : j \in Slots
  BY <1>1 DEF Slots
<1>3. ASSUME NEW i \in S
      PROVE  Rank(S, i) \in 1 .. c /\ P[Rank(S, i)] = tree[n].slots[i]
  <2> DEFINE k == CHOOSE h \in S : Rank(S, h) = Rank(S, i)
  <2>1. Rank(S, i) \in 1 .. c
    BY RankIs
  <2>2. k \in S /\ Rank(S, k) = Rank(S, i)
    OBVIOUS
  <2>3. k = i
    BY <2>2, RankIs
  <2>4. P[Rank(S, i)] = tree[n].slots[k]
    BY <1>2, <2>1 DEF Packed
  <2> QED
    BY <2>1, <2>3, <2>4
<1>4. \A j \in 1 .. c : \E i \in S : Rank(S, i) = j
  BY RankIs
<1>5. P[c + 1] = last
  <2>1. ~ \E i \in S : Rank(S, i) = c + 1
    BY <1>1, <1>3
  <2> QED
    BY <1>2, <2>1 DEF Packed
<1>6. ASSUME NEW j \in Slots, j > c + 1 PROVE P[j] = Zeroed
  BY <1>6, PackedEntries
<1> HIDE DEF P
<1>7. TakesAll(P, n, S, last)
  BY <1>1, <1>2, <1>3, <1>4, <1>5, <1>6 DEF TakesAll
<1> QED
  BY <1>7 DEF P

\* One row of slots.
LEMMA RowCounted ==
    ASSUME NEW z, NEW c \in Nat
    PROVE  IsFiniteSet({z} \X (1 .. c)) /\ Cardinality({z} \X (1 .. c)) = c
<1> DEFINE T == 1 .. c
<1>1. IsFiniteSet(T) /\ Cardinality(T) = c
  BY FS_Interval
<1>2. IsFiniteSet({z}) /\ Cardinality({z}) = 1
  BY FS_Singleton
<1> HIDE DEF T
<1>3. /\ IsFiniteSet({z} \X T)
      /\ Cardinality({z} \X T) = Cardinality({z}) * Cardinality(T)
  BY <1>1, <1>2, FS_Product, Zenon
<1>4. Cardinality({z}) * Cardinality(T) = c
  BY <1>1, <1>2
<1> QED
  BY <1>3, <1>4, Zenon DEF T

\* The last round: the live slots below the full bucket are the first a of the
\* left and the first b of the right leaf, one more than there were, and each
\* entry is in one of them.
LEMMA SeparateAll ==
    ASSUME IInv, SplitBelow, SplitSeparates
    PROVE  /\ Cardinality({x \in Live' : Under(x[1], split.leaf)}) = BucketSize + 1
           /\ \A p \in {tree[split.leaf].slots[i] : i \in Slots} \cup {Fresh(split.id)} :
                 \E x \in Live' : tree'[x[1]].slots[x[2]] = p
<1> DEFINE L == Left(split.at)
           R == Right(split.at)
           leaf == split.leaf
           S == Below(leaf, Middle(split.at))
           T == Slots \ S
           left == split.id < Middle(split.at)
           lastl == IF left THEN Fresh(split.id) ELSE Zeroed
           lastr == IF left THEN Zeroed ELSE Fresh(split.id)
           l == Packed(leaf, S, lastl)
           r == Packed(leaf, T, lastr)
           a == Cardinality(S) + (IF left THEN 1 ELSE 0)
           b == Cardinality(T) + (IF left THEN 0 ELSE 1)
<1>1. /\ split.on /\ tree' = Divided(split.at, l, r) /\ S # {} /\ T # {}
  BY DEF SplitSeparates
<1>2. /\ S \in SUBSET Slots /\ T \in SUBSET Slots /\ S # Slots /\ T # Slots
      /\ S \cup T = Slots /\ S \cap T = {}
  BY <1>1 DEF Below
<1>3. /\ split.at \in Path /\ leaf \in Path /\ leaf \in DOMAIN tree /\ L # R
      /\ \A i \in Slots : InUse(leaf, i)
      /\ Leaves' = (Leaves \ {split.at}) \cup {L, R}
      /\ Under(L, leaf) /\ Under(R, leaf)
  <2>1. split.at \in Path /\ leaf \in Path /\ leaf \in DOMAIN tree
    BY RoundStep DEF IInv, TypeOK
  <2>2. L # R
    BY <2>1, ChildPath DEF Left, Right
  <2>3. Under(L, leaf) /\ Under(R, leaf)
    BY <1>1, <2>1, ChildUnder DEF SplitBelow, Left, Right
  <2> QED
    BY <1>1, <2>1, <2>2, <2>3, RoundStep DEF IInv, SplitOK
<1>4. tree'[L].slots = l /\ tree'[R].slots = r
  <2> HIDE DEF l, r
  <2> QED
    BY <1>1, <1>3 DEF Divided
<1>5. Cardinality(S) \in Nat /\ Cardinality(T) \in Nat /\ Cardinality(S) + Cardinality(T) = BucketSize
  <2> HIDE DEF S, T
  <2>1. IsFiniteSet(S) /\ IsFiniteSet(T) /\ Cardinality(S) \in Nat /\ Cardinality(T) \in Nat
    BY <1>2, RankIs
  <2>2. Cardinality(Slots) = Cardinality(S) + Cardinality(T) - Cardinality({})
    BY <1>2, <2>1, FS_Union
  <2> QED
    BY <2>1, <2>2, SlotsFinite, FS_EmptySet, BucketAssumption
<1>6. a \in Nat /\ b \in Nat /\ a + b = BucketSize + 1
  <2> HIDE DEF S, T, left
  <2> QED
    BY <1>5, BucketAssumption
<1>7. /\ Zeroed.status # "IN_USE" /\ Fresh(split.id).status = "IN_USE"
      /\ \A i \in Slots : tree[leaf].slots[i].status = "IN_USE"
  BY <1>3 DEF Zeroed, Fresh, InUse
<1>8. /\ TakesAll(l, leaf, S, lastl)
      /\ TakesAll(r, leaf, T, lastr)
  <2> HIDE DEF S, T, lastl, lastr
  <2> QED
    BY <1>2, PackedAll
<1>9. ASSUME NEW U \in SUBSET Slots, NEW last \in {Zeroed, Fresh(split.id)},
             NEW P, TakesAll(P, leaf, U, last),
             NEW c, c = Cardinality(U) + (IF last = Zeroed THEN 0 ELSE 1)
      PROVE  \A j \in Slots : P[j].status = "IN_USE" <=> j \in 1 .. c
  <2>1. /\ Cardinality(U) \in Nat
        /\ \A j \in 1 .. Cardinality(U) : \E i \in U : P[j] = tree[leaf].slots[i]
        /\ P[Cardinality(U) + 1] = last
        /\ \A j \in Slots : j > Cardinality(U) + 1 => P[j] = Zeroed
    BY <1>9 DEF TakesAll
  <2> TAKE j \in Slots
  <2>2. j \in Nat /\ j >= 1
    BY DEF Slots
  <2>3. CASE j \in 1 .. Cardinality(U)
    <3>1. P[j].status = "IN_USE"
      BY <1>7, <2>1, <2>3
    <3>2. j \in 1 .. c
      BY <1>9, <2>1, <2>3
    <3> QED
      BY <3>1, <3>2
  <2>4. CASE j = Cardinality(U) + 1
    <3>1. P[j].status = "IN_USE" <=> last # Zeroed
      BY <1>7, <2>1, <2>4
    <3>2. j \in 1 .. c <=> last # Zeroed
      BY <1>9, <2>1, <2>4
    <3> QED
      BY <3>1, <3>2
  <2>5. CASE j > Cardinality(U) + 1
    <3>1. P[j].status # "IN_USE"
      BY <1>7, <2>1, <2>5
    <3>2. j \notin 1 .. c
      BY <1>9, <2>1, <2>5
    <3> QED
      BY <3>1, <3>2
  <2> QED
    BY <2>1, <2>2, <2>3, <2>4, <2>5
<1>10. Zeroed # Fresh(split.id)
  BY <1>7
<1>11. /\ \A j \in Slots : l[j].status = "IN_USE" <=> j \in 1 .. a
       /\ \A j \in Slots : r[j].status = "IN_USE" <=> j \in 1 .. b
  <2>1. /\ lastl \in {Zeroed, Fresh(split.id)} /\ lastr \in {Zeroed, Fresh(split.id)}
        /\ a = Cardinality(S) + (IF lastl = Zeroed THEN 0 ELSE 1)
        /\ b = Cardinality(T) + (IF lastr = Zeroed THEN 0 ELSE 1)
    <3> HIDE DEF S, T, left
    <3> QED
      BY <1>10
  <2> HIDE DEF S, T, a, b, lastl, lastr
  <2> QED
    BY <1>2, <1>8, <1>9, <2>1
<1>12. (1 .. a) \subseteq Slots /\ (1 .. b) \subseteq Slots
  <2>1. a <= BucketSize /\ b <= BucketSize
    <3>1. Cardinality(S) # 0 /\ Cardinality(T) # 0
      <4> HIDE DEF S, T
      <4> QED
        BY <1>1, <1>2, RankIs, FS_EmptySet
    <3> HIDE DEF S, T, left
    <3> QED
      BY <1>5, <3>1, BucketAssumption
  <2> QED
    BY <1>6, <2>1, BucketAssumption DEF Slots
<1> DEFINE X == {L} \X (1 .. a)
           Y == {R} \X (1 .. b)
<1> HIDE DEF S, T, l, r, a, b, left, lastl, lastr
<1>13. {x \in Live' : Under(x[1], leaf)} = X \cup Y
  <2>1. ASSUME NEW m \in Leaves', NEW i \in Slots, tree'[m].slots[i].status = "IN_USE", Under(m, leaf)
        PROVE  << m, i >> \in X \cup Y
    <3>1. CASE m = L
      BY <1>4, <1>11, <2>1, <3>1
    <3>2. CASE m = R
      BY <1>4, <1>11, <2>1, <3>2
    <3>3. CASE m \in Leaves \ {split.at}
      <4>1. tree'[m].slots = tree[m].slots /\ tree[m].slots = EmptyBucket
        BY <1>1, <2>1, <3>3, RoundStep DEF SplitBelow, Leaves
      <4> QED
        BY <1>7, <2>1, <4>1 DEF EmptyBucket
    <3> QED
      BY <1>3, <2>1, <3>1, <3>2, <3>3
  <2>2. ASSUME NEW i \in 1 .. a PROVE << L, i >> \in Live'
    BY <1>3, <1>4, <1>11, <1>12, <2>2 DEF Live, InUse
  <2>3. ASSUME NEW i \in 1 .. b PROVE << R, i >> \in Live'
    BY <1>3, <1>4, <1>11, <1>12, <2>3 DEF Live, InUse
  <2>4. Live' = {x \in Leaves' \X Slots : tree'[x[1]].slots[x[2]].status = "IN_USE"}
    BY DEF Live, InUse
  <2> HIDE DEF L, R, leaf
  <2>5. ASSUME NEW x \in Live', Under(x[1], leaf) PROVE x \in X \cup Y
    BY <2>1, <2>4, <2>5
  <2>6. ASSUME NEW x \in X \cup Y PROVE x \in Live' /\ Under(x[1], leaf)
    BY <1>3, <2>2, <2>3, <2>6
  <2> QED
    BY <2>5, <2>6
<1>14. Cardinality(X \cup Y) = BucketSize + 1
  <2>1. ASSUME NEW z, NEW c \in Nat
        PROVE  IsFiniteSet({z} \X (1 .. c)) /\ Cardinality({z} \X (1 .. c)) = c
    BY RowCounted
  <2>2. IsFiniteSet(X) /\ Cardinality(X) = a /\ IsFiniteSet(Y) /\ Cardinality(Y) = b
    BY <1>6, <2>1
  <2>3. X \cap Y = {}
    BY <1>3
  <2> HIDE DEF X, Y
  <2>4. Cardinality(X \cup Y) = Cardinality(X) + Cardinality(Y) - Cardinality({})
    BY <2>2, <2>3, FS_Union
  <2> QED
    BY <1>6, <2>2, <2>4, FS_EmptySet, BucketAssumption
<1>15. ASSUME NEW j \in 1 .. a PROVE \E x \in Live' : tree'[x[1]].slots[x[2]] = l[j]
  <2>1. << L, j >> \in Live'
    BY <1>13
  <2> QED
    BY <1>4, <2>1
<1>16. ASSUME NEW j \in 1 .. b PROVE \E x \in Live' : tree'[x[1]].slots[x[2]] = r[j]
  <2>1. << R, j >> \in Live'
    BY <1>13
  <2> QED
    BY <1>4, <2>1
<1>17. ASSUME NEW i \in Slots PROVE \E x \in Live' : tree'[x[1]].slots[x[2]] = tree[leaf].slots[i]
  <2>1. CASE i \in S
    <3>1. PICK j \in 1 .. Cardinality(S) : l[j] = tree[leaf].slots[i]
      BY <2>1, <1>8 DEF TakesAll
    <3>2. j \in 1 .. a
      BY <1>5 DEF a
    <3> QED
      BY <1>15, <3>1, <3>2
  <2>2. CASE i \in T
    <3>1. PICK j \in 1 .. Cardinality(T) : r[j] = tree[leaf].slots[i]
      BY <2>2, <1>8 DEF TakesAll
    <3>2. j \in 1 .. b
      BY <1>5 DEF b
    <3> QED
      BY <1>16, <3>1, <3>2
  <2> QED
    BY <1>2, <2>1, <2>2
<1>18. \E x \in Live' : tree'[x[1]].slots[x[2]] = Fresh(split.id)
  <2>1. CASE left
    <3>1. a = Cardinality(S) + 1 /\ l[a] = Fresh(split.id)
      BY <2>1, <1>8 DEF a, lastl, TakesAll
    <3>2. a \in 1 .. a
      BY <1>5, <1>6, <3>1
    <3> QED
      BY <1>15, <3>1, <3>2
  <2>2. CASE ~ left
    <3>1. b = Cardinality(T) + 1 /\ r[b] = Fresh(split.id)
      BY <2>2, <1>8 DEF b, lastr, TakesAll
    <3>2. b \in 1 .. b
      BY <1>5, <1>6, <3>1
    <3> QED
      BY <1>16, <3>1, <3>2
  <2> QED
    BY <2>1, <2>2
<1>19. Cardinality({x \in Live' : Under(x[1], leaf)}) = BucketSize + 1
  BY <1>13, <1>14, Zenon
<1>20. ASSUME NEW p \in {tree[leaf].slots[i] : i \in Slots} \cup {Fresh(split.id)}
       PROVE  \E x \in Live' : tree'[x[1]].slots[x[2]] = p
  <2>1. CASE p = Fresh(split.id)
    BY <1>18, <2>1, Zenon
  <2>2. CASE p # Fresh(split.id)
    <3>1. PICK i \in Slots : p = tree[leaf].slots[i]
      BY <2>2
    <3> QED
      BY <1>17, <3>1, Zenon
  <2> QED
    BY <2>1, <2>2, Zenon
<1> QED
  BY <1>19, <1>20, Zenon DEF leaf

-----------------------------------------------------------------------------
(***************************************************************************)
(* The theorems.                                                           *)
(***************************************************************************)
LEMMA InitInv == Init => IInv
<1> SUFFICES ASSUME Init
             PROVE  IInv
  OBVIOUS
<1>1. DOMAIN tree = {} /\ routeNum = 0 /\ pending = {} /\ split = NoSplit
  BY DEF Init
<1>2. TypeOK
  BY <1>1, SpaceAssumption DEF TypeOK, NoSplit, Path, Id, Init
<1>3. Shape /\ SplitOK /\ FindProperNode /\ CountersRun /\ PointersFilled
  BY <1>1 DEF Shape, SplitOK, NoSplit, FindProperNode, CountersRun, PointersFilled
<1>4. Counted = {}
  BY <1>1 DEF Counted, Filled, Leaves, NoSplit
<1> QED
  BY <1>1, <1>2, <1>3, <1>4, FS_EmptySet DEF IInv, CountOK

\* The inductive invariant holds in every reachable state.
THEOREM Invariance == Spec => []IInv
<1>1. IInv /\ [Next]_vars => IInv'
  BY TypeStep, ShapeStep, CountersStep, PointersStep, CountStep DEF IInv
<1> QED
  BY InitInv, <1>1, PTL DEF Spec

\* Every variable stays in its type: no range, no counter and no pointer of the
\* table is ever out of bounds.
THEOREM TypeCorrect == Spec => []TypeOK
<1>1. IInv => TypeOK
  BY DEF IInv
<1> QED
  BY Invariance, <1>1, PTL

\* Once the table has a root, the walk of find_prop_node ends for every id at
\* the one leaf whose range holds it, during a split too.
THEOREM WalkFindsItsLeaf == Spec => []FindProperNode
<1>1. IInv => FindProperNode
  BY DEF IInv
<1> QED
  BY Invariance, <1>1, PTL

\* The buffer that refresh_route allocates for route_num entries has room for
\* every live slot of the table.
THEOREM RefreshBufferFits == Spec => []BufferFits
<1>1. ASSUME IInv
      PROVE  BufferFits
  <2>1. Live \in SUBSET Counted
    BY DEF Live, Counted, Filled, InUse, Zeroed
  <2>2. IsFiniteSet(Counted) /\ Cardinality(Counted) \in Nat /\ routeNum \in Nat
    BY <1>1, CountedFinite
  <2>3. Cardinality(Live) <= Cardinality(Counted) /\ Cardinality(Live) \in Nat
    BY <2>1, <2>2, FS_Subset, FS_CardinalityType
  <2> QED
    BY <1>1, <2>2, <2>3 DEF IInv, CountOK, BufferFits
<1> QED
  BY Invariance, <1>1, PTL

\* A live slot always has both counters running, so none is stuck in the table.
THEOREM LiveSlotsAge == Spec => []CountersRun
<1>1. IInv => CountersRun
  BY DEF IInv
<1> QED
  BY Invariance, <1>1, PTL

\* An answer never revives a slot that no insertion filled.
THEOREM PointersStayFilled == Spec => []PointersFilled
<1>1. IInv => PointersFilled
  BY DEF IInv
<1> QED
  BY Invariance, <1>1, PTL

\* A slot gives up its peer only after the peer was found dead: no insertion,
\* split, sweep or answer puts another id in a slot that is in use.
THEOREM LivePeersStay == Spec => LivePeerKept
<1> DEFINE Kept == \A n \in DOMAIN tree, i \in Slots :
                      InUse(n, i) => tree'[n].slots[i].id = tree[n].slots[i].id
<1>1. ASSUME IInv, [Next]_vars
      PROVE  [Kept]_vars
  <2> SUFFICES ASSUME Next
               PROVE  Kept
    BY <1>1
  <2>0. \A n \in DOMAIN tree, i \in Slots : tree[n].slots[i] \in Peer
    BY <1>1 DEF IInv, TypeOK, Bucket
  <2>1. ASSUME NEW id \in Announced, InsertRoot(id)
        PROVE  Kept
    BY <2>1 DEF InsertRoot
  <2>2. ASSUME NEW id \in Announced, NEW n \in DOMAIN tree, NEW i \in Slots,
               FillSlot(n, i, id)
        PROVE  Kept
    <3>1. ~InUse(n, i)
      BY <2>2 DEF FillSlot, FreeSlot
    <3> QED
      BY <1>1, <2>2, <3>1, FillStep
  <2>3. ASSUME NEW id \in Announced, NEW n \in DOMAIN tree, BeginSplit(n, id)
        PROVE  Kept
    BY <2>3 DEF BeginSplit
  <2>4. ASSUME SplitTurns \/ SplitSeparates
        PROVE  Kept
    BY <1>1, <2>4, RoundStep
  <2>5. ASSUME Sweep
        PROVE  Kept
    <3>1. \A q \in Peer : Aged(q).id = q.id
      BY DEF Aged, Peer
    <3> QED
      BY <1>1, <2>0, <2>5, <3>1, SweepTree DEF IInv
  <2>6. ASSUME NEW c \in pending, Answer(c)
        PROVE  Kept
    <3>1. \A id : Fresh(id).id = id
      BY DEF Fresh
    <3> QED
      BY <1>1, <2>6, <3>1, AnswerStep
  <2>7. ASSUME Forget
        PROVE  Kept
    BY <2>7 DEF Forget
  <2> QED
    BY <2>1, <2>2, <2>3, <2>4, <2>5, <2>6, <2>7 DEF Next, Insert
<1> QED
  BY Invariance, <1>1, PTL DEF Spec, LivePeerKept

\* A split loses and doubles nothing: when its loop ends, the leaves below the
\* full bucket hold one live slot more than it, and every entry of it and the
\* new peer are among the live slots.
THEOREM SplitsKeepAll == Spec => SplitKeepsAll
<1> DEFINE Kept == split.on /\ ~split'.on =>
              /\ Cardinality({x \in Live' : Under(x[1], split.leaf)}) = BucketSize + 1
              /\ \A p \in {tree[split.leaf].slots[i] : i \in Slots} \cup {Fresh(split.id)} :
                    \E x \in Live' : tree'[x[1]].slots[x[2]] = p
<1>1. Init => SplitBelow
  BY DEF Init, NoSplit, SplitBelow
<1>2. ASSUME IInv, SplitBelow, [Next]_vars, split.on, ~split'.on
      PROVE  SplitSeparates
  BY <1>2 DEF Next, Insert, InsertRoot, FillSlot, BeginSplit, SplitTurns, SplitAt, Sweep,
              Answer, Forget, vars, IInv, SplitOK, Leaves
<1>3. IInv /\ SplitBelow /\ [Next]_vars => [Kept]_vars
  BY <1>2, SeparateAll
<1> QED
  BY <1>1, <1>3, BelowStep, Invariance, PTL DEF Spec, SplitKeepsAll
=============================================================================
