----------------------------- MODULE NodeProofs -----------------------------
(***************************************************************************)
(* Theorems about the running node, for every size of its tables, every    *)
(* hash and every bound: what the handlers do to the routing table and to  *)
(* the contexts are steps of RouteTable and of ReqCtx, although a context  *)
(* that leaves one table is a pointer that leaves the other, no peer is    *)
(* given up before it is asked once more, and a node that has lost all its *)
(* peers does not find back by itself.                                     *)
(***************************************************************************)
EXTENDS Node, FiniteSetTheorems, LeastNumber, TLAPS

-----------------------------------------------------------------------------
(***************************************************************************)
(* The inductive invariant.                                                *)
(***************************************************************************)
Context == [key : 0 .. MaxTid, timeout_sec : Int, route_info : RT!Pointer \cup {NoPeer}]

\* The slots of a bucket: one in use has its counter running.
Peers == {p \in [id : RT!Id, status : {"NOT_USE", "IN_USE"},
                 refresh_count_down : Nat, refresh_times : Int] :
             p.status = "IN_USE" => p.refresh_count_down > 0}

TreeOK ==
    /\ tree \in [DOMAIN tree -> [lo : Int, hi : Int, slots : [RT!Slots -> Peers]]]
    /\ IsFiniteSet(DOMAIN tree) /\ DOMAIN tree \subseteq RT!Path
    /\ \A n \in RT!Path : RT!Left(n) \in DOMAIN tree \/ RT!Right(n) \in DOMAIN tree
                             => n \in DOMAIN tree /\ RT!Left(n) \in DOMAIN tree
    /\ split.on => /\ RT!IsLeaf(split.at) /\ split.leaf \in DOMAIN tree
                   /\ split.id \in RT!Id

QueuesOK ==
    /\ bucket \in [0 .. NumBuckets - 1 -> Seq(Context)]
    /\ reqId \in 0 .. MaxTid
    /\ requests \in Seq(Request)
    /\ todo \in Seq(Announced)
    /\ requests # <<>> => ~split.on /\ todo = <<>>

IInv == TreeOK /\ QueuesOK

\* No slot in use is given up.
NoneDropped ==
    \A n \in DOMAIN tree, i \in RT!Slots :
        RT!InUse(n, i) => tree'[n].slots[i].status = "IN_USE"

-----------------------------------------------------------------------------
(***************************************************************************)
(* The routing table.                                                      *)
(***************************************************************************)
\* Paths of children.
LEMMA Children ==
    ASSUME NEW n \in RT!Path, NEW m \in RT!Path
    PROVE  /\ RT!Left(n) \in RT!Path /\ RT!Right(n) \in RT!Path
           /\ RT!Left(n) # RT!Right(m)
           /\ RT!Left(n) = RT!Left(m) => n = m
           /\ RT!Right(n) = RT!Right(m) => n = m
           /\ RT!Left(n) # <<>> /\ RT!Right(n) # <<>>
           /\ RT!Left(n) # n /\ RT!Right(n) # n
<1>1. ASSUME NEW b \in {0, 1}, NEW d \in {0, 1}
      PROVE  /\ Append(n, b) \in RT!Path
             /\ Append(n, b) = Append(m, d) => n = m /\ b = d
             /\ Append(n, b) # <<>> /\ Append(n, b) # n
  <2>1. n \in Seq({0, 1}) /\ m \in Seq({0, 1})
    BY DEF RT!Path
  <2>2. Append(n, b) \in Seq({0, 1}) /\ Len(Append(n, b)) = Len(n) + 1 /\ Len(n) \in Nat
    BY <2>1
  <2>3. ASSUME Append(n, b) = Append(m, d) PROVE n = m /\ b = d
    <3>1. Len(n) = Len(m)
      BY <2>1, <2>3
    <3>2. b = d
      BY <2>1, <2>3, <3>1
    <3>3. \A i \in 1 .. Len(n) : n[i] = m[i]
      BY <2>1, <2>3, <3>1
    <3> QED
      BY <2>1, <3>1, <3>2, <3>3
  <2>4. Append(n, b) # <<>> /\ Append(n, b) # n
    BY <2>1, <2>2
  <2> QED
    BY <2>2, <2>3, <2>4 DEF RT!Path
<1> QED
  BY <1>1 DEF RT!Left, RT!Right

\* The peers that the handlers put into slots.
LEMMA NewPeers ==
    /\ RT!Zeroed \in Peers
    /\ \A id \in RT!Id : RT!Fresh(id) \in Peers /\ RT!Fresh(id).status = "IN_USE"
    /\ \A p \in Peers : RT!Aged(p) \in Peers
<1>1. 0 \in RT!Id
  BY TableAssumption DEF RT!Id
<1> QED
  BY <1>1, TableAssumption DEF Peers, RT!Zeroed, RT!Fresh, RT!Aged

\* A step that sets one slot to a live peer.
LEMMA OneSlot ==
    ASSUME TreeOK, NEW n \in DOMAIN tree, NEW i \in RT!Slots, NEW id \in RT!Id,
           tree' = RT!WithSlot(n, i, RT!Fresh(id)), ~ split'.on
    PROVE  TreeOK' /\ NoneDropped
<1>1. /\ DOMAIN tree' = DOMAIN tree
      /\ \A m \in DOMAIN tree :
            tree'[m] = IF m = n
                       THEN [lo |-> tree[n].lo, hi |-> tree[n].hi,
                             slots |-> [tree[n].slots EXCEPT ![i] = RT!Fresh(id)]]
                       ELSE tree[m]
  BY DEF TreeOK, RT!WithSlot
<1>2. tree' = [m \in DOMAIN tree' |-> tree'[m]]
  BY DEF RT!WithSlot
<1>3. RT!Fresh(id) \in Peers /\ RT!Fresh(id).status = "IN_USE"
  BY NewPeers
<1>4. tree[n].slots \in [RT!Slots -> Peers] /\ tree[n].lo \in Int /\ tree[n].hi \in Int
  BY DEF TreeOK
<1>5. /\ [tree[n].slots EXCEPT ![i] = RT!Fresh(id)] \in [RT!Slots -> Peers]
      /\ \A j \in RT!Slots : [tree[n].slots EXCEPT ![i] = RT!Fresh(id)][j]
                                = IF j = i THEN RT!Fresh(id) ELSE tree[n].slots[j]
  BY <1>3, <1>4
<1>6. tree' \in [DOMAIN tree' -> [lo : Int, hi : Int, slots : [RT!Slots -> Peers]]]
  <2>1. \A m \in DOMAIN tree' : tree'[m] \in [lo : Int, hi : Int, slots : [RT!Slots -> Peers]]
    BY <1>1, <1>4, <1>5 DEF TreeOK
  <2> QED
    BY <1>2, <2>1
<1>7. NoneDropped
  BY <1>1, <1>3, <1>5 DEF NoneDropped, RT!InUse
<1> QED
  BY <1>1, <1>6, <1>7 DEF TreeOK

\* A round of the split loop puts two buckets below the leaf it stands on.
LEMMA DividedLeaf ==
    ASSUME TreeOK, split.on, NEW l \in [RT!Slots -> Peers], NEW r \in [RT!Slots -> Peers],
           tree' = RT!Divided(split.at, l, r),
           split' = RT!NoSplit \/ split' = RT!SplitAt(RT!Left(split.at))
                               \/ split' = RT!SplitAt(RT!Right(split.at))
    PROVE  TreeOK' /\ NoneDropped
<1> DEFINE n == split.at
           a == RT!Left(n)
           b == RT!Right(n)
<1>1. /\ n \in DOMAIN tree /\ n \in RT!Path
      /\ a \notin DOMAIN tree /\ b \notin DOMAIN tree
  BY DEF TreeOK, RT!IsLeaf
<1>2. a \in RT!Path /\ b \in RT!Path /\ a # b /\ a # n /\ b # n
  BY <1>1, Children
<1>3. DOMAIN tree' = DOMAIN tree \cup {a, b}
  BY DEF RT!Divided
<1>4. tree' = [p \in DOMAIN tree' |-> tree'[p]]
  BY DEF RT!Divided
<1>5. /\ tree'[a] = [lo |-> tree[n].lo, hi |-> RT!Middle(n), slots |-> l]
      /\ tree'[b] = [lo |-> RT!Middle(n), hi |-> tree[n].hi, slots |-> r]
      /\ tree'[n] = [lo |-> RT!Middle(n), hi |-> RT!Middle(n), slots |-> tree[n].slots]
      /\ \A p \in DOMAIN tree \ {n} : tree'[p] = tree[p]
  BY <1>1, <1>2 DEF RT!Divided
<1>6. \A p \in DOMAIN tree : tree[p] \in [lo : Int, hi : Int, slots : [RT!Slots -> Peers]]
  BY DEF TreeOK
<1>7. RT!Middle(n) \in Int
  BY <1>1, <1>6 DEF RT!Middle
<1>8. tree' \in [DOMAIN tree' -> [lo : Int, hi : Int, slots : [RT!Slots -> Peers]]]
  <2>1. ASSUME NEW p \in DOMAIN tree'
        PROVE  tree'[p] \in [lo : Int, hi : Int, slots : [RT!Slots -> Peers]]
    <3> HIDE DEF a, b
    <3>1. p \in DOMAIN tree \ {n} \/ p \in {a, b, n}
      BY <1>3, <2>1
    <3> QED
      BY <1>1, <1>5, <1>6, <1>7, <3>1
  <2> QED
    BY <1>4, <2>1
<1>9. IsFiniteSet(DOMAIN tree') /\ DOMAIN tree' \subseteq RT!Path
  <2> DEFINE D == DOMAIN tree
  <2> HIDE DEF a, b, D
  <2>1. IsFiniteSet(D) /\ D \subseteq RT!Path
    BY DEF TreeOK, D
  <2>2. IsFiniteSet((D \cup {a}) \cup {b})
    BY <2>1, FS_AddElement
  <2>3. (D \cup {a}) \cup {b} = DOMAIN tree'
    BY <1>3 DEF D
  <2> QED
    BY <1>2, <2>1, <2>2, <2>3
<1>10. ASSUME NEW m \in RT!Path, RT!Left(m) \in DOMAIN tree' \/ RT!Right(m) \in DOMAIN tree'
       PROVE  m \in DOMAIN tree' /\ RT!Left(m) \in DOMAIN tree'
  <2>1. CASE RT!Left(m) \in DOMAIN tree \/ RT!Right(m) \in DOMAIN tree
    BY <1>3, <2>1 DEF TreeOK
  <2>2. CASE RT!Left(m) \in {a, b} \/ RT!Right(m) \in {a, b}
    <3>1. m = n
      BY <1>1, <2>2, Children
    <3> QED
      BY <1>1, <1>3, <3>1
  <2> QED
    BY <1>3, <1>10, <2>1, <2>2
<1>11. ASSUME split'.on
       PROVE  RT!IsLeaf(split.at)' /\ split'.leaf \in DOMAIN tree' /\ split'.id \in RT!Id
  <2>1. /\ split'.at \in {a, b} /\ split'.leaf = split.leaf /\ split'.id = split.id
    BY <1>11 DEF RT!NoSplit, RT!SplitAt
  <2>2. /\ RT!Left(a) \notin DOMAIN tree /\ RT!Left(b) \notin DOMAIN tree
    BY <1>1, <1>2 DEF TreeOK
  <2>3. RT!Left(a) \notin {a, b} /\ RT!Left(b) \notin {a, b}
    <3>1. RT!Left(a) # RT!Right(n) /\ RT!Left(b) # RT!Right(n)
      BY <1>1, <1>2, Children
    <3>2. (RT!Left(a) = RT!Left(n) => a = n) /\ (RT!Left(b) = RT!Left(n) => b = n)
      BY <1>1, <1>2, Children
    <3> QED
      BY <1>2, <3>1, <3>2
  <2>4. RT!Left(split.at)' \notin DOMAIN tree'
    BY <1>3, <2>1, <2>2, <2>3 DEF RT!Left
  <2> QED
    BY <1>3, <2>1, <2>4 DEF TreeOK, RT!IsLeaf
<1>12. NoneDropped
  <2>1. \A p \in DOMAIN tree : tree'[p].slots = tree[p].slots
    BY <1>1, <1>5
  <2> QED
    BY <2>1 DEF NoneDropped, RT!InUse
<1> QED
  BY <1>8, <1>9, <1>10, <1>11, <1>12 DEF TreeOK

\* What the last round of a split deals out are slots of the full bucket, the
\* new peer and empty slots.
LEMMA PackedPeers ==
    ASSUME NEW n, tree[n].slots \in [RT!Slots -> Peers],
           NEW S \in SUBSET RT!Slots, NEW last \in Peers
    PROVE  RT!Packed(n, S, last) \in [RT!Slots -> Peers]
<1>1. ASSUME NEW j \in RT!Slots
      PROVE  RT!Packed(n, S, last)[j] \in Peers
  <2>1. CASE \E i \in S : RT!Rank(S, i) = j
    <3> DEFINE k == CHOOSE i \in S : RT!Rank(S, i) = j
    <3>1. k \in S
      BY <2>1
    <3>2. RT!Packed(n, S, last)[j] = tree[n].slots[k]
      BY <2>1 DEF RT!Packed
    <3> QED
      BY <3>1, <3>2
  <2>2. CASE ~ \E i \in S : RT!Rank(S, i) = j
    BY <2>2, NewPeers DEF RT!Packed
  <2> QED
    BY <2>1, <2>2
<1> QED
  BY <1>1 DEF RT!Packed

\* Both kinds of rounds of the split loop.
LEMMA RoundTree ==
    ASSUME TreeOK, RT!SplitTurns \/ RT!SplitSeparates
    PROVE  TreeOK' /\ NoneDropped
<1>1. CASE RT!SplitTurns
  <2>1. RT!EmptyBucket \in [RT!Slots -> Peers]
    BY NewPeers DEF RT!EmptyBucket
  <2> QED
    BY <1>1, <2>1, DividedLeaf DEF RT!SplitTurns
<1>2. CASE RT!SplitSeparates
  <2> DEFINE mid == RT!Middle(split.at)
             below == RT!Below(split.leaf, mid)
             left == split.id < mid
             l == RT!Packed(split.leaf, below, IF left THEN RT!Fresh(split.id) ELSE RT!Zeroed)
             r == RT!Packed(split.leaf, RT!Slots \ below,
                            IF left THEN RT!Zeroed ELSE RT!Fresh(split.id))
  <2>1. /\ split.on /\ tree' = RT!Divided(split.at, l, r) /\ split' = RT!NoSplit
    BY <1>2 DEF RT!SplitSeparates
  <2>2. below \in SUBSET RT!Slots
    BY DEF RT!Below
  <2>3. tree[split.leaf].slots \in [RT!Slots -> Peers]
    BY <2>1 DEF TreeOK
  <2>4. RT!Fresh(split.id) \in Peers /\ RT!Zeroed \in Peers
    BY <2>1, NewPeers DEF TreeOK
  <2>5. l \in [RT!Slots -> Peers]
    <3> HIDE DEF below, left
    <3> QED
      BY <2>2, <2>3, <2>4, PackedPeers
  <2>6. r \in [RT!Slots -> Peers]
    <3> HIDE DEF below, left
    <3> QED
      BY <2>3, <2>4, PackedPeers
  <2> HIDE DEF l, r
  <2> QED
    BY <2>1, <2>5, <2>6, DividedLeaf
<1> QED
  BY <1>1, <1>2

\* The insertion of an announced id.
LEMMA InsertTree ==
    ASSUME TreeOK, ~ split.on, NEW id \in Announced, RT!Insert(id)
    PROVE  TreeOK' /\ NoneDropped
<1>1. id \in RT!Id
  BY TableAssumption DEF RT!Id
<1>2. CASE RT!InsertRoot(id)
  <2>1. /\ tree' = [n \in {<<>>} |->
                      [lo |-> 0, hi |-> Space,
                       slots |-> [i \in RT!Slots |-> IF i = 1 THEN RT!Fresh(id) ELSE RT!Zeroed]]]
        /\ split' = split /\ DOMAIN tree = {}
    BY <1>2 DEF RT!InsertRoot
  <2>2. [i \in RT!Slots |-> IF i = 1 THEN RT!Fresh(id) ELSE RT!Zeroed] \in [RT!Slots -> Peers]
    BY <1>1, NewPeers
  <2>3. DOMAIN tree' = {<<>>} /\ <<>> \in RT!Path
    BY <2>1 DEF RT!Path
  <2>4. tree' \in [DOMAIN tree' -> [lo : Int, hi : Int, slots : [RT!Slots -> Peers]]]
    BY <2>1, <2>2, TableAssumption
  <2>5. IsFiniteSet(DOMAIN tree')
    BY <2>3, FS_Singleton
  <2>6. \A n \in RT!Path : RT!Left(n) \notin DOMAIN tree' /\ RT!Right(n) \notin DOMAIN tree'
    BY <2>3, Children
  <2>7. NoneDropped
    BY <2>1 DEF NoneDropped
  <2> QED
    BY <2>1, <2>3, <2>4, <2>5, <2>6, <2>7 DEF TreeOK
<1>3. ASSUME NEW n \in DOMAIN tree, NEW i \in RT!Slots, RT!FillSlot(n, i, id)
      PROVE  TreeOK' /\ NoneDropped
  BY <1>1, <1>3, OneSlot DEF RT!FillSlot
<1>4. ASSUME NEW n \in DOMAIN tree, RT!BeginSplit(n, id)
      PROVE  TreeOK' /\ NoneDropped
  <2>1. /\ tree' = tree /\ split'.at = n /\ split'.leaf = n /\ split'.id = id
        /\ RT!IsLeaf(n)
    BY <1>4 DEF RT!BeginSplit
  <2>2. RT!IsLeaf(split.at)'
    BY <2>1 DEF RT!IsLeaf, RT!Left
  <2> QED
    BY <1>1, <2>1, <2>2 DEF TreeOK, NoneDropped, RT!InUse
<1> QED
  BY <1>2, <1>3, <1>4 DEF RT!Insert

\* refresh_route ages the slots of the leaves.
LEMMA SweepTree ==
    ASSUME TreeOK, RT!Sweep
    PROVE  TreeOK' /\ ~ split'.on
<1>1. /\ DOMAIN tree' = DOMAIN tree /\ tree' = [n \in DOMAIN tree |-> tree'[n]]
      /\ ~ split.on /\ split' = split
      /\ \A n \in DOMAIN tree :
            tree'[n] = IF RT!IsLeaf(n)
                       THEN [lo |-> tree[n].lo, hi |-> tree[n].hi,
                             slots |-> [i \in RT!Slots |-> RT!Aged(tree[n].slots[i])]]
                       ELSE tree[n]
  BY DEF RT!Sweep
<1>2. ASSUME NEW n \in DOMAIN tree
      PROVE  tree'[n] \in [lo : Int, hi : Int, slots : [RT!Slots -> Peers]]
  <2>1. tree[n] \in [lo : Int, hi : Int, slots : [RT!Slots -> Peers]]
    BY DEF TreeOK
  <2>2. [i \in RT!Slots |-> RT!Aged(tree[n].slots[i])] \in [RT!Slots -> Peers]
    BY <2>1, NewPeers
  <2> QED
    BY <1>1, <2>1, <2>2
<1> QED
  BY <1>1, <1>2 DEF TreeOK

\* An answer revives the slot of the peer that was asked, if one was.
LEMMA CreditTree ==
    ASSUME TreeOK, QueuesOK, ~ split.on, NEW t \in 0 .. MaxTid, Credit(t), split' = split
    PROVE  TreeOK' /\ NoneDropped
<1>1. CASE tree' = tree
  BY <1>1 DEF TreeOK, NoneDropped, RT!InUse
<1>2. ASSUME NEW k \in CtxOf(t), k.route_info # NoPeer, tree' = Revived(k.route_info)
      PROVE  TreeOK' /\ NoneDropped
  <2> DEFINE p == k.route_info
  <2>1. p \in RT!Pointer
    <3>1. HashOf[t] \in 0 .. NumBuckets - 1
      BY CtxAssumption
    <3>2. bucket[HashOf[t]] \in Seq(Context)
      BY <3>1 DEF QueuesOK
    <3>3. PICK i \in 1 .. Len(bucket[HashOf[t]]) : k = bucket[HashOf[t]][i]
      BY <1>2 DEF CtxOf
    <3>4. k \in Context
      BY <3>2, <3>3
    <3> QED
      BY <1>2, <3>4 DEF Context
  <2>2. p.slot \in RT!Slots
    BY <2>1 DEF RT!Pointer
  <2>3. tree' = RT!WithSlot(p.at, p.slot, RT!Fresh(tree[p.at].slots[p.slot].id))
    BY <1>2 DEF Revived
  <2>4. CASE p.at \in DOMAIN tree
    <3>1. tree[p.at].slots[p.slot] \in Peers
      BY <2>2, <2>4 DEF TreeOK
    <3>2. tree[p.at].slots[p.slot].id \in RT!Id
      BY <3>1 DEF Peers
    <3> QED
      BY <2>2, <2>3, <2>4, <3>2, OneSlot
  <2>5. CASE p.at \notin DOMAIN tree
    <3>1. tree' = tree
      BY <2>3, <2>5 DEF RT!WithSlot, TreeOK
    <3> QED
      BY <1>1, <3>1
  <2> QED
    BY <2>4, <2>5
<1> QED
  BY <1>1, <1>2 DEF Credit

-----------------------------------------------------------------------------
(***************************************************************************)
(* The list of peers that refresh_route makes.                             *)
(***************************************************************************)
\* There are finitely many live slots to ask.
LEMMA BufferedFinite ==
    ASSUME TreeOK
    PROVE  RT!Buffered \subseteq RT!Pointer /\ IsFiniteSet(RT!Buffered)
<1> DEFINE B == RT!Buffered
           F == (DOMAIN tree) \X RT!Slots
           g == [c \in B |-> << c.at, c.slot >>]
<1>1. \A c \in B : /\ c \in [at : RT!Leaves, slot : RT!Slots, peer : RT!Id]
                   /\ c.at \in DOMAIN tree /\ c.at \in RT!Path
                   /\ c.peer = tree[c.at].slots[c.slot].id
  BY DEF RT!Buffered, RT!Leaves, TreeOK
<1>2. B \subseteq RT!Pointer
  BY <1>1 DEF RT!Pointer
<1>3. IsFiniteSet(RT!Slots)
  <2>1. 1 \in Int /\ BucketSize \in Int
    BY TableAssumption
  <2> QED
    BY <2>1, FS_Interval DEF RT!Slots
<1>4. IsFiniteSet(F)
  <2>1. IsFiniteSet(DOMAIN tree)
    BY DEF TreeOK
  <2> QED
    BY <1>3, <2>1, FS_Product, Zenon
<1> HIDE DEF B
<1>5. g \in [B -> F]
  <2>1. \A c \in B : << c.at, c.slot >> \in F
    BY <1>1
  <2> QED
    BY <2>1, Zenon
<1>6. \A c, d \in B : g[c] = g[d] => c = d
  <2> SUFFICES ASSUME NEW c \in B, NEW d \in B, << c.at, c.slot >> = << d.at, d.slot >>
               PROVE  c = d
    OBVIOUS
  <2>1. c.at = d.at /\ c.slot = d.slot
    OBVIOUS
  <2>2. c.peer = d.peer
    BY <1>1, <2>1
  <2> QED
    BY <1>1, <2>1, <2>2
<1> HIDE DEF F, g
<1>7. g \in Injection(B, F)
  BY <1>5, <1>6 DEF Injection, IsInjective
<1>8. IsFiniteSet(B)
  BY <1>4, <1>7, FS_Injection
<1> QED
  BY <1>2, <1>8 DEF B

\* The list holds every one of them, and nothing else.
LEMMA FoundAll ==
    ASSUME NEW S, S \subseteq RT!Pointer, IsFiniteSet(S), NEW q \in Found(S)
    PROVE  /\ q \in Seq(S) /\ Len(q) = Cardinality(S) /\ Len(q) \in Nat
           /\ \A x \in S : \E i \in 1 .. Len(q) : q[i] = x
<1> DEFINE n == Cardinality(S)
           I == 1 .. n
<1>1. n \in Nat
  BY FS_CardinalityType
<1>2. q \in [I -> S] /\ \A i, j \in I : i < j => ReadBefore(q[i], q[j])
  BY DEF Found
<1>3. \A i, j \in I : i < j => q[i] # q[j]
  <2> SUFFICES ASSUME NEW i \in I, NEW j \in I, i < j, q[i] = q[j]
               PROVE  FALSE
    OBVIOUS
  <2>1. ReadBefore(q[i], q[i])
    BY <1>2
  <2>2. q[i].slot \in Nat
    <3>1. q[i] \in RT!Pointer
      BY <1>2
    <3> QED
      BY <3>1, TableAssumption DEF RT!Pointer, RT!Slots
  <2>3. q[i].slot < q[i].slot
    BY <2>1 DEF ReadBefore
  <2> QED
    BY <2>2, <2>3
<1>4. IsFiniteSet(I) /\ Cardinality(I) = n
  <2>1. 1 \in Int /\ n \in Int
    BY <1>1
  <2>2. Cardinality(I) = IF 1 > n THEN 0 ELSE n - 1 + 1
    BY <2>1, FS_Interval
  <2> QED
    BY <1>1, <2>1, <2>2, FS_Interval
<1>5. q \in Injection(I, S)
  <2>1. \A i, j \in I : q[i] = q[j] => i = j
    BY <1>1, <1>3
  <2> QED
    BY <1>2, <2>1 DEF Injection, IsInjective
<1>6. q \in Surjection(I, S)
  <2> HIDE DEF I, n
  <2>1. Cardinality(I) = Cardinality(S)
    BY <1>4 DEF n
  <2> QED
    BY <1>5, <2>1, FS_Injection
<1>7. q \in Seq(S) /\ Len(q) = n
  BY <1>1, <1>2
<1> QED
  BY <1>1, <1>6, <1>7 DEF Surjection

-----------------------------------------------------------------------------
(***************************************************************************)
(* Chains of contexts, and what ReqCtx sees of them.                       *)
(***************************************************************************)
BareCtx(x)   == [key |-> x.key, timeout_sec |-> x.timeout_sec]
Bared(chain) == [i \in 1 .. Len(chain) |-> BareCtx(chain[i])]

\* The bare contexts stand in the same places and have the same ids.
LEMMA BaredIs ==
    ASSUME NEW q \in Seq(Context)
    PROVE  /\ Bared(q) \in Seq(RC!Ctx) /\ Len(Bared(q)) = Len(q) /\ Len(q) \in Nat
           /\ \A i \in 1 .. Len(q) : q[i] \in Context /\ Bared(q)[i] = BareCtx(q[i])
           /\ RC!Keys(Bared(q)) = Keys(q)
<1>1. Len(q) \in Nat /\ \A i \in 1 .. Len(q) : q[i] \in Context
  OBVIOUS
<1>2. ASSUME NEW i \in 1 .. Len(q) PROVE BareCtx(q[i]) \in RC!Ctx
  BY <1>1 DEF BareCtx, Context, RC!Ctx, RC!Tid
<1>3. Bared(q) \in Seq(RC!Ctx) /\ Len(Bared(q)) = Len(q)
  BY <1>1, <1>2 DEF Bared
<1>4. \A i \in 1 .. Len(q) : Bared(q)[i] = BareCtx(q[i]) /\ Bared(q)[i].key = q[i].key
  BY DEF Bared, BareCtx
<1>5. RC!Keys(Bared(q)) = Keys(q)
  BY <1>3, <1>4 DEF RC!Keys, Keys
<1> QED
  BY <1>1, <1>3, <1>4, <1>5

\* What is behind the first k entries.
LEMMA EndOfSeq ==
    ASSUME NEW S, NEW q \in Seq(S), NEW k \in 0 .. Len(q)
    PROVE  /\ SubSeq(q, k + 1, Len(q)) \in Seq(S)
           /\ Len(SubSeq(q, k + 1, Len(q))) = Len(q) - k
           /\ \A i \in 1 .. Len(q) - k : SubSeq(q, k + 1, Len(q))[i] = q[i + k]
  OBVIOUS

\* Sequences with the same entries are equal.
LEMMA SameSeq ==
    ASSUME NEW S, NEW p \in Seq(S), NEW q \in Seq(S), Len(p) = Len(q),
           \A i \in 1 .. Len(p) : p[i] = q[i]
    PROVE  p = q
  OBVIOUS

\* map_put.
LEMMA PutChain ==
    ASSUME NEW q \in Seq(Context), NEW e \in Context
    PROVE  /\ Put(q, e) \in Seq(Context)
           /\ \A i \in 1 .. Len(Put(q, e)) :
                 Put(q, e)[i] = e \/ \E j \in 1 .. Len(q) : Put(q, e)[i] = q[j]
           /\ Bared(Put(q, e)) = RC!Put(Bared(q), BareCtx(e))
<1>1. BareCtx(e) \in RC!Ctx /\ BareCtx(e).key = e.key
  BY DEF BareCtx, Context, RC!Ctx, RC!Tid
<1>2. CASE e.key \in Keys(q)
  <2>1. Put(q, e) = q
    BY <1>2 DEF Put
  <2>2. RC!Put(Bared(q), BareCtx(e)) = Bared(q)
    BY <1>1, <1>2, BaredIs DEF RC!Put
  <2> QED
    BY <2>1, <2>2
<1>3. CASE e.key \notin Keys(q)
  <2> DEFINE p == <<e>> \o q
             r == <<BareCtx(e)>> \o Bared(q)
  <2>1. Put(q, e) = p /\ RC!Put(Bared(q), BareCtx(e)) = r
    BY <1>1, <1>3, BaredIs DEF Put, RC!Put
  <2>2. /\ p \in Seq(Context) /\ Len(p) = Len(q) + 1
        /\ \A i \in 1 .. Len(q) + 1 : p[i] = IF i = 1 THEN e ELSE q[i - 1]
    OBVIOUS
  <2>3. /\ Bared(q) \in Seq(RC!Ctx) /\ Len(Bared(q)) = Len(q) /\ Len(q) \in Nat
        /\ \A i \in 1 .. Len(q) : Bared(q)[i] = BareCtx(q[i])
    BY BaredIs
  <2>4. /\ r \in Seq(RC!Ctx) /\ Len(r) = Len(q) + 1
        /\ \A i \in 1 .. Len(q) + 1 : r[i] = IF i = 1 THEN BareCtx(e) ELSE Bared(q)[i - 1]
    BY <1>1, <2>3
  <2> HIDE DEF p, r
  <2>5. /\ Bared(p) \in Seq(RC!Ctx) /\ Len(Bared(p)) = Len(p)
        /\ \A i \in 1 .. Len(p) : Bared(p)[i] = BareCtx(p[i])
    BY <2>2, BaredIs
  <2>6. ASSUME NEW i \in 1 .. Len(q) + 1 PROVE Bared(p)[i] = r[i]
    <3>1. Bared(p)[i] = BareCtx(p[i])
      BY <2>2, <2>5
    <3>2. CASE i = 1
      BY <2>2, <2>4, <3>1, <3>2
    <3>3. CASE i # 1
      <4>1. i - 1 \in 1 .. Len(q)
        BY <2>3, <3>3
      <4> QED
        BY <2>2, <2>3, <2>4, <3>1, <3>3, <4>1
    <3> QED
      BY <3>2, <3>3
  <2>7. Bared(p) = r
    BY <2>2, <2>4, <2>5, <2>6, SameSeq
  <2>8. ASSUME NEW i \in 1 .. Len(p) PROVE p[i] = e \/ \E j \in 1 .. Len(q) : p[i] = q[j]
    <3>1. i = 1 \/ i - 1 \in 1 .. Len(q)
      BY <2>2, <2>3
    <3> QED
      BY <2>2, <3>1
  <2> QED
    BY <2>1, <2>2, <2>7, <2>8
<1> QED
  BY <1>2, <1>3

\* A chain that lost its first entries.
LEMMA SuffixChain ==
    ASSUME NEW q \in Seq(Context), NEW k \in 0 .. Len(q)
    PROVE  Bared(SubSeq(q, k + 1, Len(q))) = SubSeq(Bared(q), k + 1, Len(Bared(q)))
<1> DEFINE p == SubSeq(q, k + 1, Len(q))
           r == SubSeq(Bared(q), k + 1, Len(Bared(q)))
<1>1. /\ p \in Seq(Context) /\ Len(p) = Len(q) - k
      /\ \A i \in 1 .. Len(q) - k : p[i] = q[i + k]
  BY EndOfSeq
<1>2. /\ Bared(q) \in Seq(RC!Ctx) /\ Len(Bared(q)) = Len(q) /\ Len(q) \in Nat
      /\ \A i \in 1 .. Len(q) : Bared(q)[i] = BareCtx(q[i])
  BY BaredIs
<1>3. /\ r \in Seq(RC!Ctx) /\ Len(r) = Len(q) - k
      /\ \A i \in 1 .. Len(q) - k : r[i] = Bared(q)[i + k]
  BY <1>2, EndOfSeq
<1> HIDE DEF p, r
<1>4. /\ Bared(p) \in Seq(RC!Ctx) /\ Len(Bared(p)) = Len(p)
      /\ \A i \in 1 .. Len(p) : Bared(p)[i] = BareCtx(p[i])
  BY <1>1, BaredIs
<1>5. ASSUME NEW i \in 1 .. Len(p) PROVE Bared(p)[i] = r[i]
  <2>1. i \in 1 .. Len(q) - k /\ i + k \in 1 .. Len(q)
    BY <1>1, <1>2
  <2> QED
    BY <1>1, <1>2, <1>3, <1>4, <2>1
<1>6. Bared(p) = r
  BY <1>1, <1>3, <1>4, <1>5, SameSeq
<1> QED
  BY <1>6 DEF p, r

\* map_del.
LEMMA DeletedChain ==
    ASSUME NEW q \in Seq(Context), NEW t
    PROVE  /\ Deleted(q, t) \in Seq(Context)
           /\ \A i \in 1 .. Len(Deleted(q, t)) : \E j \in 1 .. Len(q) : Deleted(q, t)[i] = q[j]
           /\ Bared(Deleted(q, t)) = RC!Deleted(Bared(q), t)
<1>1. /\ Bared(q) \in Seq(RC!Ctx) /\ Len(Bared(q)) = Len(q) /\ Len(q) \in Nat
      /\ \A i \in 1 .. Len(q) : Bared(q)[i] = BareCtx(q[i])
      /\ RC!Keys(Bared(q)) = Keys(q)
  BY BaredIs
<1>2. CASE q = <<>>
  <2>1. Bared(q) = <<>>
    BY <1>1, <1>2
  <2>2. Deleted(q, t) = <<>> /\ RC!Deleted(Bared(q), t) = <<>>
    BY <1>2, <2>1 DEF Deleted, RC!Deleted
  <2> QED
    BY <1>2, <2>1, <2>2
<1>3. CASE q # <<>>
  <2>1. Bared(q) # <<>> /\ Len(q) - 1 \in 0 .. Len(q)
    BY <1>1, <1>3
  <2>2. \E k \in 0 .. Len(q) : /\ Deleted(q, t) = SubSeq(q, k + 1, Len(q))
                               /\ RC!Deleted(Bared(q), t) = SubSeq(Bared(q), k + 1, Len(Bared(q)))
    <3>1. CASE t \in Keys(q)
      <4> DEFINE k == CHOOSE i \in 1 .. Len(q) : q[i].key = t
                 h == CHOOSE i \in 1 .. Len(Bared(q)) : Bared(q)[i].key = t
      <4>1. k \in 1 .. Len(q)
        BY <3>1 DEF Keys
      <4>2. \A i \in 1 .. Len(q) : Bared(q)[i].key = q[i].key
        <5> HIDE DEF k, h
        <5>1. \A x : BareCtx(x).key = x.key
          BY DEF BareCtx
        <5> QED
          BY <1>1, <5>1
      <4>3. {i \in 1 .. Len(Bared(q)) : Bared(q)[i].key = t} = {i \in 1 .. Len(q) : q[i].key = t}
        BY <1>1, <4>2
      <4>4. /\ k = (CHOOSE i \in {j \in 1 .. Len(q) : q[j].key = t} : TRUE)
            /\ h = (CHOOSE i \in {j \in 1 .. Len(Bared(q)) : Bared(q)[j].key = t} : TRUE)
        OBVIOUS
      <4>5. h = k
        BY <4>3, <4>4
      <4>6. Deleted(q, t) = SubSeq(q, k + 1, Len(q))
        BY <1>3, <3>1 DEF Deleted, Behind
      <4>7. RC!Deleted(Bared(q), t) = SubSeq(Bared(q), h + 1, Len(Bared(q)))
        BY <1>1, <2>1, <3>1 DEF RC!Deleted, RC!Behind
      <4> HIDE DEF k, h
      <4> QED
        BY <4>1, <4>5, <4>6, <4>7
    <3>2. CASE t \notin Keys(q)
      <4> DEFINE k == Len(q) - 1
      <4>1. k + 1 = Len(q) /\ k \in 0 .. Len(q)
        BY <1>1, <2>1
      <4>2. Deleted(q, t) = SubSeq(q, Len(q), Len(q))
        BY <1>3, <3>2 DEF Deleted, Behind
      <4>3. RC!Deleted(Bared(q), t) = SubSeq(Bared(q), Len(q), Len(Bared(q)))
        BY <1>1, <2>1, <3>2 DEF RC!Deleted, RC!Behind
      <4> HIDE DEF k
      <4> QED
        BY <4>1, <4>2, <4>3
    <3> QED
      BY <3>1, <3>2
  <2>3. PICK k \in 0 .. Len(q) :
           /\ Deleted(q, t) = SubSeq(q, k + 1, Len(q))
           /\ RC!Deleted(Bared(q), t) = SubSeq(Bared(q), k + 1, Len(Bared(q)))
    BY <2>2
  <2>4. /\ Deleted(q, t) \in Seq(Context) /\ Len(Deleted(q, t)) = Len(q) - k
        /\ \A i \in 1 .. Len(q) - k : Deleted(q, t)[i] = q[i + k]
    BY <2>3, EndOfSeq
  <2>5. ASSUME NEW i \in 1 .. Len(Deleted(q, t))
        PROVE  \E j \in 1 .. Len(q) : Deleted(q, t)[i] = q[j]
    <3>1. i + k \in 1 .. Len(q) /\ i \in 1 .. Len(q) - k
      BY <1>1, <2>4
    <3> QED
      BY <2>4, <3>1
  <2> QED
    BY <2>3, <2>4, <2>5, SuffixChain
<1> QED
  BY <1>2, <1>3

\* The timeout pass counts every context of a chain down.
LEMMA TickedChain ==
    ASSUME NEW q \in Seq(Context)
    PROVE  /\ RC!Ticked(q) \in Seq(Context) /\ Len(RC!Ticked(q)) = Len(q)
           /\ \A i \in 1 .. Len(q) : RC!Ticked(q)[i].route_info = q[i].route_info
           /\ Bared(RC!Ticked(q)) = RC!Ticked(Bared(q))
<1>1. /\ Len(Bared(q)) = Len(q) /\ Len(q) \in Nat
      /\ \A i \in 1 .. Len(q) : q[i] \in Context /\ Bared(q)[i] = BareCtx(q[i])
  BY BaredIs
<1>2. ASSUME NEW x \in Context
      PROVE  /\ [x EXCEPT !.timeout_sec = @ - 1] \in Context
             /\ [x EXCEPT !.timeout_sec = @ - 1].route_info = x.route_info
             /\ BareCtx([x EXCEPT !.timeout_sec = @ - 1])
                   = [BareCtx(x) EXCEPT !.timeout_sec = @ - 1]
  BY DEF Context, BareCtx
<1>3. RC!Ticked(q) = [i \in 1 .. Len(q) |-> [q[i] EXCEPT !.timeout_sec = @ - 1]]
  BY DEF RC!Ticked
<1>4. RC!Ticked(Bared(q)) = [i \in 1 .. Len(q) |-> [Bared(q)[i] EXCEPT !.timeout_sec = @ - 1]]
  BY <1>1 DEF RC!Ticked
<1>5. RC!Ticked(q) \in Seq(Context) /\ Len(RC!Ticked(q)) = Len(q)
  <2>1. \A i \in 1 .. Len(q) : [q[i] EXCEPT !.timeout_sec = @ - 1] \in Context
    BY <1>1, <1>2
  <2> QED
    BY <1>1, <1>3, <2>1
<1>6. ASSUME NEW i \in 1 .. Len(q)
      PROVE  /\ RC!Ticked(q)[i].route_info = q[i].route_info
             /\ BareCtx(RC!Ticked(q)[i]) = RC!Ticked(Bared(q))[i]
  <2>1. RC!Ticked(q)[i] = [q[i] EXCEPT !.timeout_sec = @ - 1]
    BY <1>3
  <2>2. RC!Ticked(Bared(q))[i] = [BareCtx(q[i]) EXCEPT !.timeout_sec = @ - 1]
    BY <1>1, <1>4
  <2> QED
    BY <1>1, <1>2, <2>1, <2>2
<1>7. Bared(RC!Ticked(q)) = RC!Ticked(Bared(q))
  <2>1. Bared(RC!Ticked(q)) = [i \in 1 .. Len(q) |-> BareCtx(RC!Ticked(q)[i])]
    BY <1>5 DEF Bared
  <2>2. RC!Ticked(Bared(q)) = [i \in 1 .. Len(q) |-> RC!Ticked(Bared(q))[i]]
    BY <1>4
  <2> QED
    BY <1>6, <2>1, <2>2
<1> QED
  BY <1>5, <1>6, <1>7

\* What msg_timeout_handler notes lies in the chains.
LEMMA LastTakenInChain ==
    ASSUME NEW b \in 0 .. NumBuckets - 1, NEW n \in Nat, Len(Bare[b]) = n
    PROVE  RC!LastTaken(b) \in 0 .. n
<1>1. CASE \E x \in RC!Taken : x[1] = b
  <2> DEFINE S == {i \in 1 .. n : <<b, i>> \in RC!Taken}
  <2>1. \A x \in RC!Taken : x[1] = b => x = <<b, x[2]>> /\ x[2] \in S
    <3> SUFFICES ASSUME NEW x \in RC!Taken, x[1] = b PROVE x = <<b, x[2]>> /\ x[2] \in S
      OBVIOUS
    <3>1. x \in RC!Buckets \X (1 .. MaxTid + 1) /\ x[2] <= Len(Bare[x[1]])
      BY DEF RC!Taken, RC!Due
    <3>2. x = <<b, x[2]>> /\ x[2] \in 1 .. n
      BY <3>1, CtxAssumption
    <3> QED
      BY <3>2
  <2>2. S # {} /\ S \in SUBSET (0 .. n)
    <3>1. PICK x \in RC!Taken : x[1] = b
      BY <1>1
    <3>2. S \in SUBSET (0 .. n)
      OBVIOUS
    <3> HIDE DEF S
    <3> QED
      BY <2>1, <3>1, <3>2
  <2>3. PICK m \in S : \A k \in S : k <= m
    BY <2>2, GreatestNat
  <2>4. m \in 1 .. Len(Bare[b]) /\ <<b, m>> \in RC!Taken /\ \A x \in RC!Taken : x[1] = b => x[2] <= m
    BY <2>1, <2>3
  <2>5. RC!LastTaken(b) \in 1 .. Len(Bare[b])
    BY <1>1, <2>4 DEF RC!LastTaken
  <2> QED
    BY <2>5
<1>2. CASE ~ \E x \in RC!Taken : x[1] = b
  BY <1>2 DEF RC!LastTaken
<1> QED
  BY <1>1, <1>2

-----------------------------------------------------------------------------
(***************************************************************************)
(* What the handlers do to the contexts: a step of ReqCtx, after which     *)
(* every pointer in a chain was there before, or is the one of the request *)
(* that is being sent.                                                     *)
(***************************************************************************)
Chains == 0 .. NumBuckets - 1

\* The contexts as ReqCtx has them, chain by chain.
LEMMA BareIs ==
    ASSUME bucket \in [Chains -> Seq(Context)]
    PROVE  /\ Bare = [b \in Chains |-> Bared(bucket[b])]
           /\ \A b \in Chains : bucket[b] \in Seq(Context) /\ Bare[b] = Bared(bucket[b])
BY DEF Bare, Bared, BareCtx, Chains

\* The pointers in the chains come from there, or are p.
FromChains(p) ==
    \A b \in Chains : \A i \in 1 .. Len(bucket'[b]) :
        \/ bucket'[b][i].route_info = p
        \/ \E j \in 1 .. Len(bucket[b]) : bucket'[b][i].route_info = bucket[b][j].route_info

\* A step that changes one chain.
LEMMA OneChain ==
    ASSUME bucket \in [Chains -> Seq(Context)], NEW h \in Chains, NEW q \in Seq(Context),
           bucket' = [bucket EXCEPT ![h] = q]
    PROVE  /\ bucket' \in [Chains -> Seq(Context)]
           /\ Bare' = [Bare EXCEPT ![h] = Bared(q)]
           /\ \A b \in Chains : bucket'[b] = IF b = h THEN q ELSE bucket[b]
<1>1. /\ bucket' \in [Chains -> Seq(Context)]
      /\ \A b \in Chains : bucket'[b] = IF b = h THEN q ELSE bucket[b]
  OBVIOUS
<1>2. Bare' = [b \in Chains |-> Bared(bucket'[b])]
  BY DEF Bare, Bared, BareCtx, Chains
<1>3. [Bare EXCEPT ![h] = Bared(q)] = [b \in Chains |-> IF b = h THEN Bared(q) ELSE Bare[b]]
  BY BareIs
<1> QED
  BY <1>1, <1>2, <1>3, BareIs

\* __put_msg_ctx_map.
LEMMA PutCtxStep ==
    ASSUME QueuesOK, NEW p \in RT!Pointer \cup {NoPeer}, PutCtx(p)
    PROVE  /\ bucket' \in [Chains -> Seq(Context)]
           /\ FromChains(p)
           /\ IF used >= MaxUsed
              THEN Bare' = Bare /\ used' = used
              ELSE /\ Bare' = [Bare EXCEPT ![HashOf[reqId]] =
                                 RC!Put(@, [key |-> reqId, timeout_sec |-> TimeoutInterval])]
                   /\ used' = IF reqId \in RC!Keys(Bare[HashOf[reqId]]) THEN used ELSE used + 1
<1> DEFINE h == HashOf[reqId]
           e == [key |-> reqId, timeout_sec |-> TimeoutInterval, route_info |-> p]
<1>1. bucket \in [Chains -> Seq(Context)] /\ h \in Chains
  BY CtxAssumption DEF QueuesOK, Chains
<1>2. e \in Context /\ BareCtx(e) = [key |-> reqId, timeout_sec |-> TimeoutInterval]
  BY CtxAssumption DEF QueuesOK, Context, BareCtx
<1>3. bucket[h] \in Seq(Context) /\ Bare[h] = Bared(bucket[h])
  BY <1>1, BareIs
<1>4. CASE used >= MaxUsed
  <2>1. bucket' = bucket /\ used' = used
    BY <1>4 DEF PutCtx
  <2>2. Bare' = Bare
    BY <2>1 DEF Bare
  <2> QED
    BY <1>1, <1>4, <2>1, <2>2 DEF FromChains
<1>5. CASE ~ (used >= MaxUsed)
  <2>1. /\ bucket' = [bucket EXCEPT ![h] = Put(bucket[h], e)]
        /\ used' = IF reqId \in Keys(bucket[h]) THEN used ELSE used + 1
    BY <1>1, <1>5 DEF PutCtx
  <2> HIDE DEF h, e
  <2>2. /\ Put(bucket[h], e) \in Seq(Context)
        /\ \A i \in 1 .. Len(Put(bucket[h], e)) :
              \/ Put(bucket[h], e)[i] = e
              \/ \E j \in 1 .. Len(bucket[h]) : Put(bucket[h], e)[i] = bucket[h][j]
        /\ Bared(Put(bucket[h], e)) = RC!Put(Bared(bucket[h]), BareCtx(e))
    BY <1>2, <1>3, PutChain
  <2>3. /\ bucket' \in [Chains -> Seq(Context)]
        /\ Bare' = [Bare EXCEPT ![h] = Bared(Put(bucket[h], e))]
        /\ \A b \in Chains : bucket'[b] = IF b = h THEN Put(bucket[h], e) ELSE bucket[b]
    BY <1>1, <2>1, <2>2, OneChain
  <2>4. e.route_info = p
    BY DEF e
  <2>5. FromChains(p)
    <3>1. ASSUME NEW b \in Chains, NEW i \in 1 .. Len(bucket'[b])
          PROVE  \/ bucket'[b][i].route_info = p
                 \/ \E j \in 1 .. Len(bucket[b]) :
                       bucket'[b][i].route_info = bucket[b][j].route_info
      <4>1. CASE b = h
        <5>1. bucket'[b] = Put(bucket[h], e)
          BY <2>3, <4>1
        <5> QED
          BY <2>2, <2>4, <4>1, <5>1
      <4>2. CASE b # h
        BY <2>3, <4>2
      <4> QED
        BY <4>1, <4>2
    <3> QED
      BY <3>1 DEF FromChains
  <2>6. Bare' = [Bare EXCEPT ![h] = RC!Put(Bare[h], BareCtx(e))]
    BY <1>3, <2>2, <2>3
  <2>7. RC!Keys(Bare[h]) = Keys(bucket[h])
    BY <1>3, BaredIs
  <2> QED
    BY <1>2, <1>5, <2>1, <2>3, <2>5, <2>6, <2>7 DEF h
<1> QED
  BY <1>4, <1>5

\* An answer: map_del, and the slot of the peer that was asked.
LEMMA CreditStep ==
    ASSUME QueuesOK, NEW t \in 0 .. MaxTid, Credit(t)
    PROVE  /\ bucket' \in [Chains -> Seq(Context)]
           /\ FromChains(NoPeer)
           /\ Bare' = [Bare EXCEPT ![HashOf[t]] = RC!Deleted(@, t)]
           /\ used' = IF t \in RC!Keys(Bare[HashOf[t]]) THEN used - 1 ELSE used
           /\ \/ tree' = tree
              \/ \E c \in Pointers : tree' = Revived(c)
<1> DEFINE h == HashOf[t]
<1>1. bucket \in [Chains -> Seq(Context)] /\ h \in Chains
  BY CtxAssumption DEF QueuesOK, Chains
<1>2. bucket[h] \in Seq(Context) /\ Bare[h] = Bared(bucket[h])
  BY <1>1, BareIs
<1>3. /\ bucket' = [bucket EXCEPT ![h] = Deleted(bucket[h], t)]
      /\ used' = IF CtxOf(t) # {} THEN used - 1 ELSE used
  BY <1>1 DEF Credit
<1>4. /\ Deleted(bucket[h], t) \in Seq(Context)
      /\ \A i \in 1 .. Len(Deleted(bucket[h], t)) :
            \E j \in 1 .. Len(bucket[h]) : Deleted(bucket[h], t)[i] = bucket[h][j]
      /\ Bared(Deleted(bucket[h], t)) = RC!Deleted(Bared(bucket[h]), t)
      /\ RC!Keys(Bared(bucket[h])) = Keys(bucket[h])
  BY <1>2, DeletedChain, BaredIs
<1>5. CtxOf(t) # {} <=> t \in Keys(bucket[h])
  BY DEF CtxOf, Keys
<1>6. ASSUME NEW x \in CtxOf(t), x.route_info # NoPeer PROVE x.route_info \in Pointers
  <2>1. PICK i \in 1 .. Len(bucket[h]) : x = bucket[h][i]
    BY DEF CtxOf
  <2>2. h \in 0 .. NumBuckets - 1
    BY <1>1 DEF Chains
  <2> HIDE DEF h
  <2> QED
    BY <1>6, <2>1, <2>2 DEF Pointers
<1>7. tree' = tree \/ \E c \in Pointers : tree' = Revived(c)
  BY <1>6 DEF Credit
<1> HIDE DEF h
<1>8. /\ bucket' \in [Chains -> Seq(Context)]
      /\ Bare' = [Bare EXCEPT ![h] = Bared(Deleted(bucket[h], t))]
      /\ \A b \in Chains : bucket'[b] = IF b = h THEN Deleted(bucket[h], t) ELSE bucket[b]
  BY <1>1, <1>3, <1>4, OneChain
<1>9. FromChains(NoPeer)
  BY <1>4, <1>8 DEF FromChains
<1>10. Bare' = [Bare EXCEPT ![h] = RC!Deleted(Bare[h], t)]
  BY <1>2, <1>4, <1>8
<1> QED
  BY <1>2, <1>3, <1>4, <1>5, <1>7, <1>8, <1>9, <1>10 DEF h

\* The timeout pass.
LEMMA TimeoutStep ==
    ASSUME QueuesOK, MsgTimeout
    PROVE  /\ bucket' \in [Chains -> Seq(Context)]
           /\ FromChains(NoPeer)
           /\ RC!Timeout
<1> DEFINE k(b) == RC!LastTaken(b)
           T(b) == RC!Ticked(bucket[b])
<1>1. bucket \in [Chains -> Seq(Context)]
  BY DEF QueuesOK, Chains
<1>2. /\ bucket' = [b \in Chains |-> SubSeq(T(b), k(b) + 1, Len(bucket[b]))]
      /\ used' = used - Cardinality(RC!Taken) /\ reqId' = reqId
  BY DEF MsgTimeout, Chains
<1>3. ASSUME NEW b \in Chains
      PROVE  /\ bucket'[b] \in Seq(Context)
             /\ \A i \in 1 .. Len(bucket'[b]) : \E j \in 1 .. Len(bucket[b]) :
                   bucket'[b][i].route_info = bucket[b][j].route_info
             /\ Bared(bucket'[b]) = SubSeq(RC!Ticked(Bare[b]), k(b) + 1, Len(Bare[b]))
  <2>1. bucket[b] \in Seq(Context) /\ Bare[b] = Bared(bucket[b])
    BY <1>1, BareIs
  <2>2. Len(Bare[b]) = Len(bucket[b]) /\ Len(bucket[b]) \in Nat
    BY <2>1, BaredIs
  <2>3. k(b) \in 0 .. Len(bucket[b])
    BY <2>2, LastTakenInChain DEF Chains
  <2>4. /\ T(b) \in Seq(Context) /\ Len(T(b)) = Len(bucket[b])
        /\ \A i \in 1 .. Len(bucket[b]) : T(b)[i].route_info = bucket[b][i].route_info
        /\ Bared(T(b)) = RC!Ticked(Bared(bucket[b]))
    BY <2>1, TickedChain
  <2>5. Len(Bared(T(b))) = Len(T(b))
    BY <2>4, BaredIs
  <2>6. bucket'[b] = SubSeq(T(b), k(b) + 1, Len(T(b)))
    BY <1>2, <2>4
  <2> HIDE DEF k, T
  <2>7. /\ bucket'[b] \in Seq(Context) /\ Len(bucket'[b]) = Len(bucket[b]) - k(b)
        /\ \A i \in 1 .. Len(bucket[b]) - k(b) : bucket'[b][i] = T(b)[i + k(b)]
    BY <2>3, <2>4, <2>6, EndOfSeq
  <2>8. ASSUME NEW i \in 1 .. Len(bucket'[b])
        PROVE  \E j \in 1 .. Len(bucket[b]) : bucket'[b][i].route_info = bucket[b][j].route_info
    <3>1. i + k(b) \in 1 .. Len(bucket[b]) /\ i \in 1 .. Len(bucket[b]) - k(b)
      BY <2>2, <2>3, <2>7
    <3> QED
      BY <2>4, <2>7, <3>1
  <2>9. Bared(bucket'[b]) = SubSeq(Bared(T(b)), k(b) + 1, Len(Bared(T(b))))
    BY <2>3, <2>4, <2>6, SuffixChain
  <2> QED
    BY <2>1, <2>2, <2>4, <2>5, <2>7, <2>8, <2>9
<1>4. bucket' \in [Chains -> Seq(Context)]
  <2>1. bucket' = [b \in Chains |-> bucket'[b]]
    BY <1>2
  <2> QED
    BY <1>3, <2>1
<1>5. FromChains(NoPeer)
  BY <1>3 DEF FromChains
<1>6. Bare' = [b \in Chains |-> SubSeq(RC!Ticked(Bare[b]), k(b) + 1, Len(Bare[b]))]
  <2>1. Bare' = [b \in Chains |-> Bared(bucket'[b])]
    BY DEF Bare, Bared, BareCtx, Chains
  <2> HIDE DEF k
  <2> QED
    BY <1>3, <2>1
<1>7. RC!Cardinality(RC!Taken) = Cardinality(RC!Taken)
  BY DEF RC!Cardinality, Cardinality
<1>8. RC!Timeout
  BY <1>2, <1>6, <1>7 DEF RC!Timeout, RC!Buckets, Chains
<1> QED
  BY <1>4, <1>5, <1>8

-----------------------------------------------------------------------------
(***************************************************************************)
(* The steps of the node.                                                  *)
(***************************************************************************)
\* A peer that is given up is among those that are asked.
DroppedAreAsked ==
    \A n \in DOMAIN tree, i \in RT!Slots :
        (RT!IsLeaf(n) /\ RT!InUse(n, i) /\ tree'[n].slots[i].status = "NOT_USE") =>
            \E k \in 1 .. Len(requests') : /\ requests'[k].peer.at = n
                                           /\ requests'[k].peer.slot = i

\* What each step has to keep and to implement.
StepOK == /\ IInv'
          /\ [RT!Next]_(RT!vars)
          /\ [RC!Next]_(RC!vars)
          /\ DroppedAreAsked

\* A step that leaves the chains alone.
LEMMA SameChains ==
    ASSUME bucket' = bucket
    PROVE  FromChains(NoPeer) /\ Bare' = Bare
BY DEF FromChains, Bare

\* The requests that are still to be sent, and the chains, point to Pointers.
LEMMA PointersAre ==
    ASSUME QueuesOK
    PROVE  /\ \A b \in Chains : \A i \in 1 .. Len(bucket[b]) :
                 bucket[b][i].route_info \in Pointers \cup {NoPeer}
           /\ \A i \in 1 .. Len(requests) : requests[i].peer \in Pointers \cup {NoPeer}
BY DEF Pointers, Chains

\* A step that makes no new pointer.
LEMMA FewerPointers ==
    ASSUME QueuesOK, NEW p \in Pointers \cup {NoPeer}, FromChains(p),
           \A i \in 1 .. Len(requests') : requests'[i].peer \in Pointers \cup {NoPeer}
    PROVE  Pointers' \in SUBSET Pointers
<1> SUFFICES ASSUME NEW c \in Pointers' PROVE c \in Pointers
  OBVIOUS
<1>1. c # NoPeer
  BY DEF Pointers
<1>2. CASE \E i \in 1 .. Len(requests') : c = requests'[i].peer
  BY <1>1, <1>2
<1>3. CASE \E b \in Chains : \E i \in 1 .. Len(bucket'[b]) : c = bucket'[b][i].route_info
  BY <1>1, <1>3, PointersAre DEF FromChains
<1> QED
  BY <1>2, <1>3 DEF Pointers, Chains

\* Handlers start only when no other one is under way.
LEMMA IdleMeans ==
    ASSUME Idle
    PROVE  ~ split.on /\ requests = <<>> /\ todo = <<>>
BY DEF Idle

\* A sweep: every peer that it ages, and so every one that it gives up, is on
\* the list of those to ask.
LEMMA RefreshStep ==
    ASSUME IInv, NEW op \in {"PING", "FIND_NODE"}, RefreshRoute(op)
    PROVE  StepOK
<1>1. /\ RT!Sweep /\ bucket' = bucket /\ used' = used /\ reqId' = reqId
      /\ todo' = todo /\ todo = <<>>
  BY IdleMeans DEF RefreshRoute
<1>2. PICK q \in Found(RT!Buffered) :
         requests' = [i \in 1 .. Len(q) |-> [op |-> op, peer |-> q[i]]]
  BY DEF RefreshRoute
<1>3. TreeOK' /\ ~ split'.on
  BY <1>1, SweepTree DEF IInv
<1>4. RT!Buffered \subseteq RT!Pointer /\ IsFiniteSet(RT!Buffered)
  BY BufferedFinite DEF IInv
<1> DEFINE B == RT!Buffered
<1>5. /\ q \in Seq(B) /\ Len(q) \in Nat
      /\ \A x \in B : \E i \in 1 .. Len(q) : q[i] = x
  <2> HIDE DEF B
  <2>1. q \in Found(B) /\ B \subseteq RT!Pointer /\ IsFiniteSet(B)
    BY <1>2, <1>4 DEF B
  <2> QED
    BY <2>1, FoundAll
<1>6. requests' \in Seq(Request) /\ Len(requests') = Len(q)
  <2>1. ASSUME NEW i \in 1 .. Len(q) PROVE [op |-> op, peer |-> q[i]] \in Request
    <3> HIDE DEF B
    <3>1. q[i] \in B
      BY <1>5
    <3>2. q[i] \in RT!Pointer
      BY <1>4, <3>1 DEF B
    <3> QED
      BY <3>2 DEF Request
  <2> QED
    BY <1>2, <1>5, <2>1
<1>7. IInv'
  BY <1>1, <1>3, <1>6 DEF IInv, QueuesOK
<1>8. UNCHANGED RC!vars
  BY <1>1, SameChains DEF RC!vars
<1>9. ASSUME NEW n \in DOMAIN tree, NEW i \in RT!Slots,
             RT!IsLeaf(n), RT!InUse(n, i), tree'[n].slots[i].status = "NOT_USE"
      PROVE  \E k \in 1 .. Len(requests') : requests'[k].peer.at = n /\ requests'[k].peer.slot = i
  <2> DEFINE p == tree[n].slots[i]
             x == [at |-> n, slot |-> i, peer |-> p.id]
  <2>1. p \in Peers
    BY DEF IInv, TreeOK
  <2>2. p.id \in RT!Id /\ p.refresh_count_down > 0
    BY <1>9, <2>1 DEF Peers, RT!InUse
  <2>3. x \in B
    BY <1>9, <2>2 DEF RT!Buffered, RT!Leaves
  <2> HIDE DEF B
  <2>4. PICK k \in 1 .. Len(q) : q[k] = x
    BY <1>5, <2>3
  <2>5. requests'[k].peer = x
    BY <1>2, <2>4
  <2> QED
    BY <1>6, <2>5
<1>10. DroppedAreAsked
  BY <1>9 DEF DroppedAreAsked
<1> QED
  BY <1>1, <1>7, <1>8, <1>10 DEF StepOK, RT!Next

\* The steps that change neither the table nor the split.
LEMMA TableKept ==
    ASSUME IInv, tree' = tree, split' = split
    PROVE  TreeOK' /\ DroppedAreAsked
<1>1. TreeOK'
  BY DEF IInv, TreeOK, RT!IsLeaf, RT!Left
<1>2. NoneDropped
  BY DEF NoneDropped, RT!InUse
<1> QED
  BY <1>1, <1>2 DEF NoneDropped, DroppedAreAsked

\* find_neighbor with no peers: the bootstrap node is asked.
LEMMA AskBootstrapStep ==
    ASSUME IInv, FindNeighbor, ~ RefreshRoute("FIND_NODE")
    PROVE  StepOK
<1>1. /\ Idle /\ requests' = <<[op |-> "FIND_NODE", peer |-> NoPeer]>>
      /\ tree' = tree /\ routeNum' = routeNum /\ split' = split
      /\ bucket' = bucket /\ used' = used /\ reqId' = reqId /\ todo' = todo
  BY DEF FindNeighbor, table, ctxs
<1>2. /\ requests' \in Seq(Request) /\ Len(requests') = 1 /\ requests'[1].peer = NoPeer
  BY <1>1 DEF Request
<1>3. IInv'
  BY <1>1, <1>2, TableKept, IdleMeans DEF IInv, QueuesOK
<1>4. Pointers' \in SUBSET Pointers
  BY <1>1, <1>2, SameChains, FewerPointers DEF IInv
<1>5. RT!Forget
  BY <1>1, <1>4, IdleMeans DEF RT!Forget
<1>6. UNCHANGED RC!vars
  BY <1>1, SameChains DEF RC!vars
<1> QED
  BY <1>1, <1>3, <1>5, <1>6, TableKept DEF StepOK, RT!Next

\* One request leaves: to the peer of the first one in the list.
LEMMA SendStep ==
    ASSUME IInv, PingNode \/ FindNode
    PROVE  StepOK
<1> DEFINE p == Head(requests).peer
<1>1. /\ requests # <<>> /\ reqId < MaxTid /\ reqId' = reqId + 1 /\ requests' = Tail(requests)
      /\ tree' = tree /\ routeNum' = routeNum /\ split' = split /\ todo' = todo
  BY DEF PingNode, FindNode, table
<1>2. /\ requests \in Seq(Request) /\ Tail(requests) \in Seq(Request) /\ Len(requests) \in Nat \ {0}
      /\ Len(Tail(requests)) = Len(requests) - 1
      /\ \A i \in 1 .. Len(requests) - 1 : Tail(requests)[i] = requests[i + 1]
      /\ Head(requests) = requests[1] /\ Head(requests) \in Request
  BY <1>1 DEF IInv, QueuesOK
<1>3. p \in RT!Pointer \cup {NoPeer} /\ ~ split.on /\ todo = <<>>
  BY <1>1, <1>2 DEF Request, IInv, QueuesOK
<1>4. p \in Pointers \cup {NoPeer}
  BY <1>2, PointersAre DEF IInv
<1>5. ASSUME NEW i \in 1 .. Len(requests') PROVE requests'[i].peer \in Pointers \cup {NoPeer}
  <2>1. i \in 1 .. Len(requests) - 1 /\ i + 1 \in 1 .. Len(requests)
    BY <1>1, <1>2
  <2>2. requests'[i] = requests[i + 1]
    BY <1>1, <1>2, <2>1
  <2> QED
    BY <2>1, <2>2, PointersAre DEF IInv
<1>6. reqId' \in 0 .. MaxTid
  BY <1>1, CtxAssumption DEF IInv, QueuesOK
<1> HIDE DEF p
<1>7. ASSUME NEW p2 \in Pointers \cup {NoPeer}, FromChains(p2), bucket' \in [Chains -> Seq(Context)]
      PROVE  IInv' /\ RT!Next /\ DroppedAreAsked
  <2>1. IInv'
    BY <1>1, <1>2, <1>3, <1>6, <1>7, TableKept DEF IInv, QueuesOK, Chains
  <2>2. Pointers' \in SUBSET Pointers
    BY <1>5, <1>7, FewerPointers DEF IInv
  <2>3. RT!Forget
    BY <1>1, <1>3, <2>2 DEF RT!Forget
  <2> QED
    BY <1>1, <2>1, <2>3, TableKept DEF RT!Next
<1>8. CASE bucket' = bucket /\ used' = used
  <2>1. bucket' \in [Chains -> Seq(Context)]
    BY <1>8 DEF IInv, QueuesOK, Chains
  <2>2. IInv' /\ RT!Next /\ DroppedAreAsked
    BY <1>7, <1>8, <2>1, SameChains
  <2>3. RC!SendUntracked
    BY <1>1, <1>8, SameChains DEF RC!SendUntracked
  <2> QED
    BY <2>2, <2>3 DEF StepOK, RC!Next
<1>9. CASE PutCtx(p)
  <2>1. /\ bucket' \in [Chains -> Seq(Context)] /\ FromChains(p)
        /\ IF used >= MaxUsed
           THEN Bare' = Bare /\ used' = used
           ELSE /\ Bare' = [Bare EXCEPT ![HashOf[reqId]] =
                              RC!Put(@, [key |-> reqId, timeout_sec |-> TimeoutInterval])]
                /\ used' = IF reqId \in RC!Keys(Bare[HashOf[reqId]]) THEN used ELSE used + 1
    BY <1>3, <1>9, PutCtxStep DEF IInv
  <2>2. IInv' /\ RT!Next /\ DroppedAreAsked
    BY <1>4, <1>7, <2>1
  <2>3. RC!Send
    BY <1>1, <2>1 DEF RC!Send
  <2> QED
    BY <2>2, <2>3 DEF StepOK, RC!Next
<1> QED
  BY <1>8, <1>9 DEF PingNode, FindNode, p

\* An answer, asked for or not.
LEMMA AnswerStep ==
    ASSUME IInv, NEW t \in 0 .. MaxTid, Idle, Credit(t), todo' \in Seq(Announced),
           routeNum' = routeNum, split' = split, reqId' = reqId, requests' = requests
    PROVE  StepOK
<1>1. ~ split.on /\ requests = <<>>
  BY IdleMeans
<1>2. /\ bucket' \in [Chains -> Seq(Context)] /\ FromChains(NoPeer)
      /\ Bare' = [Bare EXCEPT ![HashOf[t]] = RC!Deleted(@, t)]
      /\ used' = IF t \in RC!Keys(Bare[HashOf[t]]) THEN used - 1 ELSE used
      /\ tree' = tree \/ \E c \in Pointers : tree' = Revived(c)
  BY CreditStep DEF IInv
<1>3. TreeOK' /\ NoneDropped
  BY <1>1, CreditTree DEF IInv
<1>4. IInv'
  BY <1>1, <1>2, <1>3 DEF IInv, QueuesOK, Chains
<1>5. Pointers' \in SUBSET Pointers
  BY <1>1, <1>2, FewerPointers DEF IInv
<1>6. RT!Next
  <2>1. CASE tree' = tree
    BY <1>1, <1>5, <2>1 DEF RT!Next, RT!Forget
  <2>2. ASSUME NEW c \in Pointers, tree' = Revived(c) PROVE RT!Answer(c)
    BY <1>1, <1>5, <2>2 DEF RT!Answer, Revived
  <2> QED
    BY <1>2, <2>1, <2>2 DEF RT!Next
<1>7. RC!Respond(t)
  BY <1>2 DEF RC!Respond
<1>8. DroppedAreAsked
  BY <1>3 DEF NoneDropped, DroppedAreAsked, RT!InUse
<1> QED
  BY <1>4, <1>6, <1>7, <1>8 DEF StepOK, RC!Next, RC!Tid

\* The timeout pass.
LEMMA TimeoutPassStep ==
    ASSUME IInv, MsgTimeout
    PROVE  StepOK
<1>1. /\ Idle /\ reqId' = reqId /\ requests' = requests /\ todo' = todo
      /\ tree' = tree /\ routeNum' = routeNum /\ split' = split
  BY DEF MsgTimeout, table
<1>2. ~ split.on /\ requests = <<>>
  BY <1>1, IdleMeans
<1>3. bucket' \in [Chains -> Seq(Context)] /\ FromChains(NoPeer) /\ RC!Timeout
  BY TimeoutStep DEF IInv
<1>4. IInv'
  BY <1>1, <1>2, <1>3, TableKept DEF IInv, QueuesOK, Chains
<1>5. Pointers' \in SUBSET Pointers
  BY <1>1, <1>2, <1>3, FewerPointers DEF IInv
<1>6. RT!Forget
  BY <1>1, <1>2, <1>5 DEF RT!Forget
<1> QED
  BY <1>1, <1>3, <1>4, <1>6, TableKept DEF StepOK, RT!Next, RC!Next

\* The loops that insert and split.
LEMMA InsertStep ==
    ASSUME IInv, InsertNext \/ SplitRound
    PROVE  StepOK
<1>1. /\ bucket' = bucket /\ used' = used /\ reqId' = reqId /\ requests' = requests
  BY DEF InsertNext, SplitRound
<1>2. Pointers' = Pointers
  BY <1>1 DEF Pointers
<1>3. UNCHANGED RC!vars
  BY <1>1, SameChains DEF RC!vars
<1>4. ASSUME requests = <<>>, todo' \in Seq(Announced), TreeOK', NoneDropped,
             [RT!Next]_(RT!vars)
      PROVE  StepOK
  <2>1. IInv'
    BY <1>1, <1>4 DEF IInv, QueuesOK
  <2>2. DroppedAreAsked
    BY <1>4 DEF NoneDropped, DroppedAreAsked, RT!InUse
  <2> QED
    BY <1>3, <1>4, <2>1, <2>2 DEF StepOK
<1>5. CASE InsertNext
  <2>1. /\ todo # <<>> /\ ~ split.on /\ todo' = Tail(todo)
        /\ RT!Insert(Head(todo)) \/ (tree' = tree /\ routeNum' = routeNum /\ split' = split)
    BY <1>5 DEF InsertNext, table
  <2>2. Head(todo) \in Announced /\ todo' \in Seq(Announced) /\ requests = <<>>
    BY <2>1 DEF IInv, QueuesOK
  <2>3. CASE RT!Insert(Head(todo))
    <3>1. TreeOK' /\ NoneDropped
      BY <2>1, <2>2, <2>3, InsertTree DEF IInv
    <3> QED
      BY <1>4, <2>2, <2>3, <3>1 DEF RT!Next
  <2>4. CASE tree' = tree /\ routeNum' = routeNum /\ split' = split
    <3>1. TreeOK' /\ NoneDropped
      BY <2>4, TableKept DEF IInv, NoneDropped, RT!InUse
    <3>2. UNCHANGED RT!vars
      BY <1>2, <2>4 DEF RT!vars
    <3> QED
      BY <1>4, <2>2, <3>1, <3>2
  <2> QED
    BY <2>1, <2>3, <2>4
<1>6. CASE SplitRound
  <2>1. (RT!SplitTurns \/ RT!SplitSeparates) /\ todo' = todo
    BY <1>6 DEF SplitRound
  <2>2. split.on
    BY <2>1 DEF RT!SplitTurns, RT!SplitSeparates
  <2>3. requests = <<>> /\ todo' \in Seq(Announced)
    BY <2>1, <2>2 DEF IInv, QueuesOK
  <2>4. TreeOK' /\ NoneDropped
    BY <2>1, RoundTree DEF IInv
  <2> QED
    BY <1>4, <2>1, <2>3, <2>4 DEF RT!Next
<1> QED
  BY <1>5, <1>6

\* The lists of an answer, or of the route file, are sequences of ids.
LEMMA ListsAre ==
    ASSUME NEW ids \in Lists
    PROVE  ids \in Seq(Announced)
<1>1. PICK k \in 0 .. MaxNodes : ids \in [1 .. k -> Announced]
  BY DEF Lists
<1>2. k \in Nat
  BY <1>1, ListAssumption
<1> QED
  BY <1>1, <1>2

\* Nothing happens.
LEMMA StutterStep ==
    ASSUME IInv, UNCHANGED vars
    PROVE  StepOK
<1>1. /\ tree' = tree /\ routeNum' = routeNum /\ split' = split
      /\ bucket' = bucket /\ used' = used /\ reqId' = reqId
      /\ requests' = requests /\ todo' = todo
  BY DEF vars
<1>2. Bare' = Bare /\ Pointers' = Pointers
  BY <1>1 DEF Bare, Pointers
<1>3. IInv'
  BY <1>1, TableKept DEF IInv, QueuesOK
<1> QED
  BY <1>1, <1>2, <1>3, TableKept DEF StepOK, RT!vars, RC!vars

\* Every step of the node.
LEMMA NextStep ==
    ASSUME IInv, [Next]_vars
    PROVE  StepOK
<1>1. CASE PeriodPing
  BY <1>1, RefreshStep DEF PeriodPing
<1>2. CASE FindNeighbor
  BY <1>2, RefreshStep, AskBootstrapStep
<1>3. CASE PingNode \/ FindNode
  BY <1>3, SendStep
<1>4. CASE MsgTimeout
  BY <1>4, TimeoutPassStep
<1>5. ASSUME NEW t \in 0 .. MaxTid, PingRsp(t)
      PROVE  StepOK
  <2>1. todo' \in Seq(Announced)
    BY <1>5 DEF PingRsp, IInv, QueuesOK
  <2> QED
    BY <1>5, <2>1, AnswerStep DEF PingRsp
<1>6. ASSUME NEW t \in 0 .. MaxTid, NEW ids \in Lists, FindNodeRsp(t, ids)
      PROVE  StepOK
  <2>1. todo' \in Seq(Announced)
    BY <1>6, ListsAre DEF FindNodeRsp
  <2> QED
    BY <1>6, <2>1, AnswerStep DEF FindNodeRsp
<1>7. CASE InsertNext \/ SplitRound
  BY <1>7, InsertStep
<1>8. CASE UNCHANGED vars
  BY <1>8, StutterStep
<1> QED
  BY <1>1, <1>2, <1>3, <1>4, <1>5, <1>6, <1>7, <1>8 DEF Next

\* The node starts where the routing table and the contexts start.
LEMMA InitStep ==
    ASSUME Init
    PROVE  IInv /\ RT!Init /\ RC!Init
<1>1. /\ tree = [n \in {} |-> RT!Zeroed] /\ routeNum = 0 /\ split = RT!NoSplit
      /\ bucket = [b \in 0 .. NumBuckets - 1 |-> <<>>] /\ used = 0 /\ reqId = 0
  BY DEF Init
<1>2. todo \in Lists
  BY DEF Init
<1>3. \/ requests = <<>>
      \/ /\ todo = <<>>
         /\ requests = <<[op |-> "FIND_NODE", peer |-> NoPeer], [op |-> "PING", peer |-> NoPeer]>>
  BY DEF Init
<1>4. /\ requests \in Seq(Request)
      /\ requests # <<>> => todo = <<>>
      /\ \A i \in 1 .. Len(requests) : requests[i].peer = NoPeer
  <2>1. CASE requests = <<>>
    BY <2>1
  <2>2. CASE requests # <<>>
    <3> DEFINE ask  == [op |-> "FIND_NODE", peer |-> NoPeer]
               ping == [op |-> "PING", peer |-> NoPeer]
    <3>1. todo = <<>> /\ requests = <<ask, ping>>
      BY <1>3, <2>2
    <3>2. ask \in Request /\ ping \in Request /\ ask.peer = NoPeer /\ ping.peer = NoPeer
      BY DEF Request
    <3> HIDE DEF ask, ping
    <3>3. /\ requests \in Seq(Request) /\ Len(requests) = 2
          /\ requests[1] = ask /\ requests[2] = ping
      BY <3>1, <3>2
    <3>4. \A i \in 1 .. 2 : i = 1 \/ i = 2
      OBVIOUS
    <3> QED
      BY <3>1, <3>2, <3>3, <3>4
  <2> QED
    BY <2>1, <2>2
<1>5. TreeOK
  <2>1. DOMAIN tree = {} /\ IsFiniteSet({})
    BY <1>1, FS_EmptySet
  <2>2. ~ split.on
    BY <1>1 DEF RT!NoSplit
  <2>3. tree \in [DOMAIN tree -> [lo : Int, hi : Int, slots : [RT!Slots -> Peers]]]
    BY <1>1, <2>1
  <2> QED
    BY <2>1, <2>2, <2>3 DEF TreeOK
<1>6. QueuesOK
  <2>1. reqId \in 0 .. MaxTid /\ bucket \in [0 .. NumBuckets - 1 -> Seq(Context)]
    BY <1>1, CtxAssumption
  <2>2. ~ split.on
    BY <1>1 DEF RT!NoSplit
  <2>3. todo \in Seq(Announced)
    BY <1>2, ListsAre
  <2> QED
    BY <1>4, <2>1, <2>2, <2>3 DEF QueuesOK
<1>7. Pointers = {}
  <2>1. \A b \in 0 .. NumBuckets - 1 : 1 .. Len(bucket[b]) = {}
    BY <1>1
  <2> QED
    BY <1>4, <2>1 DEF Pointers
<1>8. Bare = [b \in 0 .. NumBuckets - 1 |-> <<>>]
  <2>1. ASSUME NEW b \in 0 .. NumBuckets - 1
        PROVE  [i \in 1 .. Len(bucket[b]) |->
                  [key |-> bucket[b][i].key, timeout_sec |-> bucket[b][i].timeout_sec]] = <<>>
    <3>1. bucket[b] = <<>>
      BY <1>1
    <3> QED
      BY <3>1
  <2> QED
    BY <2>1 DEF Bare
<1> QED
  BY <1>1, <1>5, <1>6, <1>7, <1>8 DEF IInv, RT!Init, RC!Init, RC!Buckets

-----------------------------------------------------------------------------
(***************************************************************************)
(* Theorems.                                                               *)
(***************************************************************************)
\* The tree stays a tree of live and expired peers, and no handler of the loop
\* starts while another one is under way.
THEOREM NodeInvariance == Spec => []IInv
<1>1. IInv /\ [Next]_vars => IInv'
  BY NextStep DEF StepOK
<1> QED
  BY <1>1, InitStep, PTL DEF Spec

\* What the timers and the handlers do to the routing table, to the pointers of
\* the contexts into it and to the requests of a sweep under way are steps of
\* RouteTable.
THEOREM NodeKeepsTable == Spec => TableSpec
<1>1. IInv /\ [Next]_vars => [RT!Next]_(RT!vars)
  BY NextStep DEF StepOK
<1> QED
  BY <1>1, InitStep, NodeInvariance, PTL DEF Spec, TableSpec, RT!Spec

\* What they do to the contexts are steps of ReqCtx.
THEOREM NodeKeepsContexts == Spec => ContextSpec
<1>1. IInv /\ [Next]_vars => [RC!Next]_(RC!vars)
  BY NextStep DEF StepOK
<1> QED
  BY <1>1, InitStep, NodeInvariance, PTL DEF Spec, ContextSpec, RC!Spec

\* refresh_route gives no peer up without asking it once more.
THEOREM DroppedPeersAreAsked == Spec => AskedWhenDropped
<1>1. IInv /\ [Next]_vars => [DroppedAreAsked]_vars
  BY NextStep DEF StepOK
<1> QED
  BY <1>1, NodeInvariance, PTL DEF Spec, AskedWhenDropped, DroppedAreAsked

\* A sweep over a table without live slots finds nobody to ask and leaves the
\* slots as they are.
LEMMA EmptySweep ==
    ASSUME TreeOK, RT!Live = {}, NEW op, RefreshRoute(op)
    PROVE  requests' = <<>> /\ RT!Live' = {}
<1>1. ASSUME NEW n \in RT!Leaves, NEW i \in RT!Slots, RT!InUse(n, i) PROVE FALSE
  <2>1. << n, i >> \in RT!Live
    BY <1>1 DEF RT!Live
  <2> QED
    BY <2>1
<1>2. RT!Buffered = {}
  <2> SUFFICES ASSUME NEW c \in RT!Buffered PROVE FALSE
    OBVIOUS
  <2>1. c.at \in RT!Leaves /\ c.slot \in RT!Slots /\ RT!InUse(c.at, c.slot)
    BY DEF RT!Buffered
  <2> QED
    BY <1>1, <2>1
<1>3. PICK q \in Found({}) : requests' = [i \in 1 .. Len(q) |-> [op |-> op, peer |-> q[i]]]
  BY <1>2 DEF RefreshRoute
<1>4. Len(q) = 0
  BY <1>3, FS_EmptySet DEF Found
<1>5. requests' = <<>>
  BY <1>3, <1>4
<1>6. /\ DOMAIN tree' = DOMAIN tree
      /\ \A n \in DOMAIN tree : RT!IsLeaf(n) =>
            \A i \in RT!Slots : tree'[n].slots[i] = RT!Aged(tree[n].slots[i])
  BY DEF RefreshRoute, RT!Sweep
<1>7. RT!Leaves' = RT!Leaves
  BY <1>6 DEF RT!Leaves, RT!IsLeaf
<1>8. ASSUME NEW n \in RT!Leaves, NEW i \in RT!Slots PROVE tree'[n].slots[i].status # "IN_USE"
  <2>1. n \in DOMAIN tree /\ RT!IsLeaf(n)
    BY DEF RT!Leaves
  <2>2. tree[n].slots[i] \in Peers
    BY <2>1 DEF TreeOK
  <2>3. tree[n].slots[i].status = "NOT_USE"
    BY <1>1, <2>2 DEF Peers, RT!InUse
  <2> QED
    BY <1>6, <2>1, <2>3 DEF RT!Aged
<1>9. RT!Live' = {}
  BY <1>7, <1>8 DEF RT!Live, RT!InUse
<1> QED
  BY <1>5, <1>9

\* What a marooned node has to keep for being marooned still.
LEMMA StillMarooned ==
    ASSUME IInv, Marooned, RT!Live' = {}, FromChains(NoPeer), requests' = <<>>,
           todo' = <<>>, split' = split, routeNum' = routeNum
    PROVE  Marooned'
<1>1. Pointers' \in SUBSET Pointers
  BY FewerPointers DEF IInv
<1> QED
  BY <1>1 DEF Marooned, Idle

\* The live slots are read off the tree.
LEMMA SameLive ==
    ASSUME tree' = tree, RT!Live = {}
    PROVE  RT!Live' = {}
BY DEF RT!Live, RT!Leaves, RT!IsLeaf, RT!InUse

\* Without a pointer into the table an answer revives nobody.
LEMMA CreditsNobody ==
    ASSUME IInv, Marooned, NEW t \in 0 .. MaxTid, Credit(t)
    PROVE  tree' = tree /\ FromChains(NoPeer)
BY CreditStep DEF IInv, Marooned

\* A node that has lost all its peers, and every context that could revive one,
\* stays so until it is told of peers.
THEOREM MaroonedNeverRejoins == Spec => MaroonedForGood
<1> DEFINE P == Marooned => Marooned' \/ todo' # <<>>
<1>1. ASSUME IInv, Next, Marooned, todo' = <<>>
      PROVE  Marooned'
  <2>1. requests = <<>> /\ ~ split.on /\ todo = <<>> /\ routeNum > 0 /\ RT!Live = {}
    BY <1>1, IdleMeans DEF Marooned
  <2>2. ASSUME NEW op, RefreshRoute(op)
        PROVE  Marooned'
    <3>1. bucket' = bucket /\ split' = split /\ routeNum' = routeNum
      BY <2>2 DEF RefreshRoute, RT!Sweep
    <3> QED
      BY <1>1, <2>1, <2>2, <3>1, EmptySweep, SameChains, StillMarooned DEF IInv
  <2>3. CASE PeriodPing \/ FindNeighbor
    BY <2>1, <2>2, <2>3 DEF PeriodPing, FindNeighbor
  <2>4. CASE PingNode \/ FindNode \/ InsertNext \/ SplitRound
    BY <2>1, <2>4 DEF PingNode, FindNode, InsertNext, SplitRound, RT!SplitTurns,
                      RT!SplitSeparates
  <2>5. CASE MsgTimeout
    <3>1. /\ tree' = tree /\ routeNum' = routeNum /\ split' = split
          /\ requests' = requests
      BY <2>5 DEF MsgTimeout, table
    <3>2. FromChains(NoPeer)
      BY <1>1, <2>5, TimeoutStep DEF IInv
    <3> QED
      BY <1>1, <2>1, <3>1, <3>2, SameLive, StillMarooned
  <2>6. ASSUME NEW t \in 0 .. MaxTid, PingRsp(t) \/ \E ids \in Lists : FindNodeRsp(t, ids)
        PROVE  Marooned'
    <3>1. Credit(t) /\ routeNum' = routeNum /\ split' = split /\ requests' = requests
      BY <2>6 DEF PingRsp, FindNodeRsp
    <3>2. tree' = tree /\ FromChains(NoPeer)
      BY <1>1, <3>1, CreditsNobody
    <3> QED
      BY <1>1, <2>1, <3>1, <3>2, SameLive, StillMarooned
  <2> QED
    BY <1>1, <2>3, <2>4, <2>5, <2>6 DEF Next
<1>2. IInv /\ [Next]_vars => [P]_vars
  BY <1>1
<1> QED
  BY <1>2, NodeInvariance, PTL DEF Spec, MaroonedForGood

-----------------------------------------------------------------------------
(***************************************************************************)
(* What is proved of RouteTable and of ReqCtx holds in the running node:   *)
(* the theorems of RouteTableProofs and ReqCtxProofs, instanced on the     *)
(* node's state.                                                           *)
(***************************************************************************)
RTP == INSTANCE RouteTableProofs WITH pending <- Pointers, MaxPending <- MaxTid
RCP == INSTANCE ReqCtxProofs WITH bucket <- Bare

\* The node's constants meet what RouteTable assumes of its own.
LEMMA TableConstants ==
    /\ Space \in Nat \ {0} /\ BucketSize \in Nat \ {0}
    /\ RefreshInterval \in Nat \ {0} /\ DetectPeriod \in Nat \ {0}
    /\ SelfId \in 0 .. Space - 1 /\ Announced \subseteq 0 .. Space - 1
    /\ MaxRouteNum \in Nat /\ MaxTid \in Nat /\ MaxDepth \in Nat
BY TableAssumption, CtxAssumption

\* The same of ReqCtx.
LEMMA CtxConstants ==
    /\ NumBuckets \in Nat \ {0} /\ MaxUsed \in Nat
    /\ MaxTimeoutTid \in Nat \ {0} /\ TimeoutInterval \in Nat \ {0}
    /\ MaxTid \in Nat /\ HashOf \in [0 .. MaxTid -> RCP!Buckets]
BY CtxAssumption DEF RCP!Buckets

\* Both instances of RouteTable are the same specification.
LEMMA TableSame == TableSpec => RTP!Spec
<1>1. RT!Init => RTP!Init
  BY DEF RT!Init, RTP!Init, RT!NoSplit, RTP!NoSplit, RT!Zeroed, RTP!Zeroed
<1>2. [RT!Next]_(RT!vars) => [RTP!Next]_(RTP!vars)
  <2>0. \A S : RT!Cardinality(S) = RTP!Cardinality(S)
    BY DEF RT!Cardinality, RTP!Cardinality
  <2>1. ASSUME NEW id, RT!InsertRoot(id) PROVE RTP!InsertRoot(id)
    BY <2>1, <2>0
    DEF RT!InsertRoot, RTP!InsertRoot, RT!Slots, RTP!Slots, RT!Fresh, RTP!Fresh,
       RT!Zeroed, RTP!Zeroed
  <2>2. ASSUME NEW n, NEW i, NEW id, RT!FillSlot(n, i, id) PROVE RTP!FillSlot(n, i, id)
    BY <2>2, <2>0
    DEF RT!FillSlot, RTP!FillSlot, RT!IsLeaf, RTP!IsLeaf, RT!Left, RTP!Left, RT!OnWalk,
       RTP!OnWalk, RT!Turn, RTP!Turn, RT!FreeSlot, RTP!FreeSlot, RT!InUse, RTP!InUse,
       RT!WithSlot, RTP!WithSlot, RT!Fresh, RTP!Fresh
  <2>3. ASSUME NEW n, NEW id, RT!BeginSplit(n, id) PROVE RTP!BeginSplit(n, id)
    BY <2>3, <2>0
    DEF RT!BeginSplit, RTP!BeginSplit, RT!IsLeaf, RTP!IsLeaf, RT!Left, RTP!Left,
       RT!OnWalk, RTP!OnWalk, RT!Turn, RTP!Turn, RT!Full, RTP!Full, RT!InUse, RTP!InUse,
       RT!HoldsSelf, RTP!HoldsSelf, RT!Slots, RTP!Slots
  <2>4. RT!SplitTurns => RTP!SplitTurns
    BY <2>0
    DEF RT!SplitTurns, RTP!SplitTurns, RT!Divided, RTP!Divided, RT!Left, RTP!Left,
       RT!Right, RTP!Right, RT!Middle, RTP!Middle, RT!Below, RTP!Below, RT!Slots,
       RTP!Slots, RT!EmptyBucket, RTP!EmptyBucket, RT!Zeroed, RTP!Zeroed, RT!SplitAt,
       RTP!SplitAt
  <2>5. RT!SplitSeparates => RTP!SplitSeparates
    <3>1. ASSUME NEW n, NEW S, NEW p PROVE RT!Packed(n, S, p) = RTP!Packed(n, S, p)
      BY DEF RT!Packed, RTP!Packed, RT!Rank, RTP!Rank, RT!Slots, RTP!Slots, RT!Zeroed,
         RTP!Zeroed, RT!Cardinality, RTP!Cardinality
    <3>2. ASSUME NEW n, NEW l, NEW r PROVE RT!Divided(n, l, r) = RTP!Divided(n, l, r)
      BY DEF RT!Divided, RTP!Divided, RT!Left, RTP!Left, RT!Right, RTP!Right, RT!Middle,
         RTP!Middle
    <3>3. ASSUME NEW n, NEW m
          PROVE  RT!Below(n, m) = RTP!Below(n, m) /\ RT!Middle(n) = RTP!Middle(n)
      BY DEF RT!Below, RTP!Below, RT!Middle, RTP!Middle, RT!Slots, RTP!Slots
    <3>4. RT!Slots = RTP!Slots /\ RT!NoSplit = RTP!NoSplit /\ RT!Zeroed = RTP!Zeroed
      BY DEF RT!Slots, RTP!Slots, RT!NoSplit, RTP!NoSplit, RT!Zeroed, RTP!Zeroed
    <3>5. RT!Fresh(split.id) = RTP!Fresh(split.id)
      BY DEF RT!Fresh, RTP!Fresh
    <3> SUFFICES ASSUME RT!SplitSeparates PROVE RTP!SplitSeparates
      OBVIOUS
    <3> DEFINE mid == RT!Middle(split.at)
               below == RT!Below(split.leaf, mid)
               above == RT!Slots \ below
               left == split.id < mid
               lp == IF left THEN RT!Fresh(split.id) ELSE RT!Zeroed
               rp == IF left THEN RT!Zeroed ELSE RT!Fresh(split.id)
    <3>6. /\ split.on /\ Len(split.at) < MaxDepth
          /\ below # {} /\ above # {}
          /\ tree' = RT!Divided(split.at, RT!Packed(split.leaf, below, lp),
                                          RT!Packed(split.leaf, above, rp))
          /\ routeNum' = routeNum + 1 /\ split' = RT!NoSplit /\ UNCHANGED Pointers
      BY DEF RT!SplitSeparates
    <3>7. /\ mid = RTP!Middle(split.at)
          /\ below = RTP!Below(split.leaf, RTP!Middle(split.at))
      BY <3>3
    <3>8. above = RTP!Slots \ RTP!Below(split.leaf, RTP!Middle(split.at))
      BY <3>4, <3>7
    <3>9. /\ lp = IF split.id < RTP!Middle(split.at)
                THEN RTP!Fresh(split.id) ELSE RTP!Zeroed
          /\ rp = IF split.id < RTP!Middle(split.at)
                THEN RTP!Zeroed ELSE RTP!Fresh(split.id)
      BY <3>4, <3>5, <3>7
    <3> HIDE DEF mid, below, above, lp, rp
    <3>10. tree' = RTP!Divided(split.at, RTP!Packed(split.leaf, below, lp),
                                         RTP!Packed(split.leaf, above, rp))
      BY <3>1, <3>2, <3>6
    <3> QED
      BY <3>4, <3>6, <3>7, <3>8, <3>9, <3>10 DEF RTP!SplitSeparates
  <2>6. RT!Sweep => RTP!Sweep
    BY <2>0
    DEF RT!Sweep, RTP!Sweep, RT!Buffered, RTP!Buffered, RT!Leaves, RTP!Leaves, RT!IsLeaf,
       RTP!IsLeaf, RT!Left, RTP!Left, RT!Slots, RTP!Slots, RT!Id, RTP!Id, RT!InUse,
       RTP!InUse, RT!Aged, RTP!Aged
  <2>7. ASSUME NEW c, RT!Answer(c) PROVE RTP!Answer(c)
    BY <2>7, <2>0 DEF RT!Answer, RTP!Answer, RT!WithSlot, RTP!WithSlot, RT!Fresh, RTP!Fresh
  <2>8. RT!Forget => RTP!Forget
    BY <2>0 DEF RT!Forget, RTP!Forget
  <2>9. (UNCHANGED RT!vars) => UNCHANGED RTP!vars
    BY DEF RT!vars, RTP!vars
  <2> QED
    BY <2>1, <2>2, <2>3, <2>4, <2>5, <2>6, <2>7, <2>8, <2>9
    DEF RT!Next, RTP!Next, RT!Insert, RTP!Insert, RT!Slots, RTP!Slots
<1> QED
  BY <1>1, <1>2, PTL DEF TableSpec, RT!Spec, RTP!Spec

\* And so are both of ReqCtx.
LEMMA CtxSame == ContextSpec => RCP!Spec
<1>1. RC!Init => RCP!Init
  BY DEF RC!Init, RCP!Init, RC!Buckets, RCP!Buckets
<1>2. [RC!Next]_(RC!vars) => [RCP!Next]_(RCP!vars)
  <2>1. ASSUME NEW q, NEW t
        PROVE  RC!Deleted(q, t) = RCP!Deleted(q, t) /\ RC!Put(q, t) = RCP!Put(q, t)
    BY DEF RC!Deleted, RCP!Deleted, RC!Behind, RCP!Behind, RC!Put, RCP!Put, RC!Keys,
       RCP!Keys
  <2>2. RC!Send => RCP!Send
    BY <2>1 DEF RC!Send, RCP!Send, RC!Keys, RCP!Keys
  <2>3. RC!SendUntracked => RCP!SendUntracked
    BY DEF RC!SendUntracked, RCP!SendUntracked
  <2>4. ASSUME NEW t, RC!Respond(t) PROVE RCP!Respond(t)
    BY <2>1, <2>4 DEF RC!Respond, RCP!Respond, RC!Keys, RCP!Keys
  <2>5. RC!Timeout => RCP!Timeout
    <3>1. RC!Taken = RCP!Taken
      BY DEF RC!Taken, RCP!Taken, RC!Due, RCP!Due, RC!Buckets, RCP!Buckets, RC!Before,
         RCP!Before, RC!Cardinality, RCP!Cardinality
    <3>2. ASSUME NEW b PROVE RC!LastTaken(b) = RCP!LastTaken(b)
      BY <3>1 DEF RC!LastTaken, RCP!LastTaken
    <3>3. ASSUME NEW q PROVE RC!Ticked(q) = RCP!Ticked(q)
      BY DEF RC!Ticked, RCP!Ticked
    <3>4. ASSUME NEW S PROVE RC!Cardinality(S) = RCP!Cardinality(S)
      BY DEF RC!Cardinality, RCP!Cardinality
    <3> QED
      BY <3>1, <3>2, <3>3, <3>4 DEF RC!Timeout, RCP!Timeout, RC!Buckets, RCP!Buckets
  <2>6. UNCHANGED RC!vars => UNCHANGED RCP!vars
    BY DEF RC!vars, RCP!vars
  <2> QED
    BY <2>2, <2>3, <2>4, <2>5, <2>6 DEF RC!Next, RCP!Next, RC!Tid, RCP!Tid
<1> QED
  BY <1>1, <1>2, PTL DEF ContextSpec, RC!Spec, RCP!Spec


\* In the running node, whatever is being sent, answered or split: the walk for
\* every id ends at the one bucket whose range holds it, the buffer of
\* refresh_route has room for every live peer, a live slot has both counters
\* running, and every pointer that a context or a request still to be sent holds
\* is a slot that an insertion has filled and counted.
THEOREM NodeTableSound ==
    Spec => [](/\ RT!TypeOK /\ RT!FindProperNode /\ RT!BufferFits
               /\ RT!CountersRun /\ RT!PointersFilled)
<1>1. RTP!Spec => [](RTP!IInv /\ RTP!BufferFits)
  BY TableConstants, RTP!Invariance, RTP!RefreshBufferFits, PTL
<1>2. RTP!IInv => RTP!TypeOK /\ RTP!FindProperNode /\ RTP!CountersRun /\ RTP!PointersFilled
  BY DEF RTP!IInv
<1>3. RTP!TypeOK => RT!TypeOK
  BY DEF RT!TypeOK, RTP!TypeOK, RT!Bucket, RTP!Bucket, RT!Slots, RTP!Slots, RT!Peer,
     RTP!Peer, RT!Path, RTP!Path, RT!Pointer, RTP!Pointer, RT!Id, RTP!Id
<1>4. RTP!FindProperNode => RT!FindProperNode
  BY DEF RT!FindProperNode, RTP!FindProperNode, RT!Id, RTP!Id, RT!Leaves, RTP!Leaves,
     RT!IsLeaf, RTP!IsLeaf, RT!Left, RTP!Left, RT!OnWalk, RTP!OnWalk, RT!Turn, RTP!Turn,
     RT!InRange, RTP!InRange
<1>5. RTP!BufferFits => RT!BufferFits
  <2>1. RTP!Live = RT!Live
    BY DEF RT!Live, RTP!Live, RT!Leaves, RTP!Leaves, RT!IsLeaf, RTP!IsLeaf, RT!Left,
       RTP!Left, RT!Slots, RTP!Slots, RT!InUse, RTP!InUse
  <2> QED
    BY <2>1 DEF RT!BufferFits, RTP!BufferFits, RT!Cardinality, RTP!Cardinality
<1>6. RTP!CountersRun => RT!CountersRun
  BY DEF RT!CountersRun, RTP!CountersRun, RT!Slots, RTP!Slots, RT!InUse, RTP!InUse
<1>7. RTP!PointersFilled => RT!PointersFilled
  BY DEF RT!PointersFilled, RTP!PointersFilled, RT!Zeroed, RTP!Zeroed
<1> QED
  BY <1>1, <1>2, <1>3, <1>4, <1>5, <1>6, <1>7, TableSame, NodeKeepsTable, PTL

\* In the running node a context stands in the bucket that its id hashes to, no id
\* stands there twice, and the table stays below its limit, although refresh_route
\* sends to all peers at once and map_del does not count what it drops.
THEOREM NodeContextsSound ==
    Spec => [](RC!TypeOK /\ RC!InItsBucket /\ RC!NewestFirst /\ RC!StoredBounded)
<1>1. RCP!Spec => []RCP!IInv
  BY CtxConstants, RCP!ContextInvariance
<1>2. RCP!IInv => RCP!TypeOK /\ RCP!InItsBucket /\ RCP!NewestFirst /\ RCP!StoredBounded
  BY DEF RCP!IInv
<1>3. RCP!TypeOK => RC!TypeOK
  BY DEF RC!TypeOK, RCP!TypeOK, RC!Buckets, RCP!Buckets, RC!Ctx, RCP!Ctx, RC!Tid, RCP!Tid
<1>4. RCP!InItsBucket => RC!InItsBucket
  BY DEF RC!InItsBucket, RCP!InItsBucket, RC!Buckets, RCP!Buckets, RC!Keys, RCP!Keys
<1>5. RCP!NewestFirst => RC!NewestFirst
  BY DEF RC!NewestFirst, RCP!NewestFirst, RC!Buckets, RCP!Buckets, RC!Keys, RCP!Keys
<1>6. RCP!StoredBounded => RC!StoredBounded
  BY DEF RC!StoredBounded, RCP!StoredBounded, RC!Stored, RCP!Stored, RC!Buckets,
     RCP!Buckets, RC!Keys, RCP!Keys, RC!Cardinality, RCP!Cardinality
<1> QED
  BY <1>1, <1>2, <1>3, <1>4, <1>5, <1>6, CtxSame, NodeKeepsContexts, PTL

\* No insertion, split, sweep or late answer of the running node replaces a live
\* peer by another one.
THEOREM NodeKeepsPeers == Spec => RT!LivePeerKept
<1>1. RTP!Spec => RTP!LivePeerKept
  BY TableConstants, RTP!LivePeersStay
<1>2. RTP!LivePeerKept => RT!LivePeerKept
  BY DEF RT!LivePeerKept, RTP!LivePeerKept, RT!Slots, RTP!Slots, RT!InUse, RTP!InUse,
     RT!vars, RTP!vars
<1> QED
  BY <1>1, <1>2, TableSame, NodeKeepsTable, PTL

\* When a split that an answer has set off ends, the entries of the full bucket and
\* the new one are in the leaves, each of them once.
THEOREM NodeSplitsKeepAll == Spec => RT!SplitKeepsAll
<1>1. RTP!Spec => RTP!SplitKeepsAll
  BY TableConstants, RTP!SplitsKeepAll
<1>2. RTP!SplitKeepsAll => RT!SplitKeepsAll
  BY DEF RT!SplitKeepsAll, RTP!SplitKeepsAll, RT!Slots, RTP!Slots, RT!Live, RTP!Live,
     RT!Leaves, RTP!Leaves, RT!IsLeaf, RTP!IsLeaf, RT!Left, RTP!Left, RT!InUse,
     RTP!InUse, RT!vars, RTP!vars, RT!Under, RTP!Under, RT!Fresh, RTP!Fresh,
     RT!Cardinality, RTP!Cardinality
<1> QED
  BY <1>1, <1>2, TableSame, NodeKeepsTable, PTL

\* msg_timeout_handler leaves a due context behind only when it has taken out as
\* many as it can note.
THEOREM NodeDueLeave == Spec => RC!DueSurvivesOnlyFullPass
<1>1. RCP!Spec => RCP!DueSurvivesOnlyFullPass
  BY CtxConstants, RCP!DueContextsLeave
<1>2. RCP!DueSurvivesOnlyFullPass => RC!DueSurvivesOnlyFullPass
  BY DEF RC!DueSurvivesOnlyFullPass, RCP!DueSurvivesOnlyFullPass, RC!vars, RCP!vars,
     RC!Buckets, RCP!Buckets, RC!Timeout, RCP!Timeout, RC!Taken, RCP!Taken, RC!Due,
     RCP!Due, RC!Before, RCP!Before, RC!Ticked, RCP!Ticked, RC!LastTaken, RCP!LastTaken,
     RC!Cardinality, RCP!Cardinality
<1> QED
  BY <1>1, <1>2, CtxSame, NodeKeepsContexts, PTL

\* The handlers keep to what Outstanding promises of the requests awaiting an
\* answer: an id is opened once, in order, and never more than the limit.
THEOREM NodeImplementsOutstanding == Spec => RC!OutstandingSpec
<1>1. RCP!Spec => RCP!OutstandingSpec
  BY CtxConstants, RCP!ImplementsOutstanding
<1>2. RCP!OutstandingSpec => RC!OutstandingSpec
  BY DEF RC!OutstandingSpec, RCP!OutstandingSpec, RC!Table!OutstandingSpec,
     RCP!Table!OutstandingSpec, RC!Table!OutstandingInit, RCP!Table!OutstandingInit,
     RC!Table!Issue, RCP!Table!Issue, RC!Table!Close, RCP!Table!Close, RC!Stored,
     RCP!Stored, RC!Buckets, RCP!Buckets, RC!Keys, RCP!Keys, RC!Table!Cardinality,
     RCP!Table!Cardinality
<1> QED
  BY <1>1, <1>2, CtxSame, NodeKeepsContexts, PTL
\* What is left of a list when its first id has been taken is a list.
LEMMA TailIsList ==
    ASSUME NEW ids \in Lists, ids # <<>>
    PROVE  Tail(ids) \in Lists
<1>1. PICK k \in 0 .. MaxNodes : ids \in [1 .. k -> Announced]
  BY DEF Lists
<1>2. k \in Nat /\ k # 0
  BY <1>1, ListAssumption
<1>3. ids \in Seq(Announced) /\ Len(ids) = k
  BY <1>1, <1>2
<1>4. Tail(ids) \in Seq(Announced) /\ Len(Tail(ids)) = k - 1
  BY <1>2, <1>3
<1>5. Tail(ids) \in [1 .. k - 1 -> Announced]
  <2> DEFINE q == Tail(ids)
  <2> HIDE DEF q
  <2>1. q \in Seq(Announced) /\ Len(q) = k - 1
    BY <1>4 DEF q
  <2>2. q \in [1 .. Len(q) -> Announced]
    BY <2>1
  <2> QED
    BY <2>1, <2>2 DEF q
<1>6. k - 1 \in 0 .. MaxNodes
  BY <1>1, <1>2, ListAssumption
<1> QED
  BY <1>5, <1>6 DEF Lists

\* Every variable of the node stays in its type, the table's and the contexts'
\* among them; a request never names a peer that is not a slot of the table.
THEOREM NodeTypeCorrect == Spec => []TypeOK
<1>1. Init => todo \in Lists
  BY DEF Init
<1>2. todo \in Lists /\ [Next]_vars => (todo \in Lists)'
  <2> SUFFICES ASSUME todo \in Lists, [Next]_vars
               PROVE  todo' \in Lists
    OBVIOUS
  <2>1. CASE InsertNext
    BY <2>1, TailIsList DEF InsertNext
  <2>2. ASSUME NEW t \in 0 .. MaxTid, NEW ids \in Lists, FindNodeRsp(t, ids)
        PROVE  todo' \in Lists
    BY <2>2 DEF FindNodeRsp
  <2>3. CASE todo' = todo
    BY <2>3
  <2> QED
    BY <2>1, <2>2, <2>3
    DEF Next, vars, PeriodPing, FindNeighbor, RefreshRoute, PingNode, FindNode, MsgTimeout,
        PingRsp, SplitRound
<1>3. Spec => [](todo \in Lists)
  BY <1>1, <1>2, PTL DEF Spec
<1>4. RT!TypeOK /\ RC!TypeOK /\ IInv /\ todo \in Lists => TypeOK
  <2> SUFFICES ASSUME RT!TypeOK, RC!TypeOK, IInv, todo \in Lists
               PROVE  TypeOK
    OBVIOUS
  <2>1. ASSUME NEW b \in DOMAIN bucket, NEW i \in 1 .. MaxTid, i <= Len(bucket[b])
        PROVE  bucket[b][i].route_info \in RT!Pointer \cup {NoPeer}
    <3>1. bucket[b] \in Seq(Context)
      BY DEF IInv, QueuesOK
    <3>2. bucket[b][i] \in Context
      BY <2>1, <3>1, CtxAssumption
    <3> QED
      BY <3>2 DEF Context
  <2> QED
    BY <2>1 DEF TypeOK, IInv, QueuesOK
<1> QED
  BY <1>3, <1>4, NodeInvariance, NodeTableSound, NodeContextsSound, PTL
=============================================================================
