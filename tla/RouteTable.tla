----------------------------- MODULE RouteTable -----------------------------
(***************************************************************************)
(* The routing table of platform/dht_spider.c: a binary tree whose leaves  *)
(* ("buckets") hold BucketSize peer slots.  The program is one thread, so  *)
(* every call on the table is atomic, except the loop that splits a full   *)
(* bucket: that is taken one round at a time, because whether it ever ends *)
(* is a question about the code.                                           *)
(*                                                                         *)
(* A tree node is named by its path from the root, a sequence over {0, 1}  *)
(* (0 is the field l, 1 the field r); DOMAIN tree is what has been         *)
(* allocated and an empty domain is bkt_tree == NULL.  Nothing is freed: a *)
(* node that was split keeps its old slots, and the request contexts that  *)
(* point into them (peer_addr_in_mem) stay valid pointers.  An address and *)
(* a port play no part in any decision and are left out; the id space      *)
(* 0 .. 2^160-1 becomes 0 .. Space-1.                                      *)
(***************************************************************************)
EXTENDS Integers, Sequences, FiniteSets

CONSTANTS
    Space,            \* number of node ids, 2^160 in the code
    BucketSize,       \* BUCKET_SIZE
    RefreshInterval,  \* PEER_REFRESH_INTERVAL
    DetectPeriod,     \* PEER_DETECT_UNOK_PERIOD
    SelfId,           \* node_id of this node
    Announced,        \* the ids that other nodes, or the saved file, name
    MaxRouteNum,      \* bound: insertions explored
    MaxPending,       \* bound: slots that outstanding requests point to
    MaxDepth          \* bound: depth of the tree explored

ASSUME SpaceAssumption   == Space \in Nat \ {0}
ASSUME BucketAssumption  == BucketSize \in Nat \ {0}
ASSUME RefreshAssumption == RefreshInterval \in Nat \ {0}
ASSUME DetectAssumption  == DetectPeriod \in Nat \ {0}
ASSUME IdAssumption      == /\ SelfId \in 0 .. Space - 1
                            /\ Announced \subseteq 0 .. Space - 1
ASSUME BoundAssumption   == /\ MaxRouteNum \in Nat
                            /\ MaxPending \in Nat
                            /\ MaxDepth \in Nat

VARIABLES
    tree,       \* path |-> [lo, hi, slots]: range_start_str, range_end_str, peer_nodes
    routeNum,   \* node->route_num
    pending,    \* the slots that request contexts point to
    split       \* the split loop of insert_into_bkt, when it is running

vars == <<tree, routeNum, pending, split>>

-----------------------------------------------------------------------------
Id    == 0 .. Space - 1
Slots == 1 .. BucketSize
Path  == Seq({0, 1})

\* peer_info_t.  A bucket is allocated zeroed: status NOT_USE is 0.
Peer == [id : Id, status : {"NOT_USE", "IN_USE"},
         refresh_count_down : 0 .. RefreshInterval, refresh_times : 0 .. DetectPeriod]

\* bucket_tree_node_t, without the two pointers.
Bucket == [lo : 0 .. Space, hi : 0 .. Space, slots : [Slots -> Peer]]

Zeroed    == [id |-> 0, status |-> "NOT_USE", refresh_count_down |-> 0, refresh_times |-> 0]
Fresh(id) == [id |-> id, status |-> "IN_USE",
              refresh_count_down |-> RefreshInterval, refresh_times |-> DetectPeriod]

NoSplit == [on |-> FALSE, leaf |-> <<>>, at |-> <<>>, id |-> 0]

Left(n)  == Append(n, 0)
Right(n) == Append(n, 1)

\* is_node_leaf.  The two children are always allocated together.
IsLeaf(n) == n \in DOMAIN tree /\ Left(n) \notin DOMAIN tree
Leaves    == {n \in DOMAIN tree : IsLeaf(n)}

\* Where find_prop_node goes from the inner node n.
Turn(n, id) == IF tree[n].hi > id THEN 0 ELSE 1

\* n lies on the walk of find_prop_node from the root for id.
OnWalk(n, id) == \A k \in 0 .. Len(n) - 1 : n[k + 1] = Turn(SubSeq(n, 1, k), id)

InUse(n, i) == tree[n].slots[i].status = "IN_USE"

\* The tree with p in slot i of node n.
WithSlot(n, i, p) ==
    [tree EXCEPT ![n] = [lo |-> tree[n].lo, hi |-> tree[n].hi,
                         slots |-> [tree[n].slots EXCEPT ![i] = p]]]

-----------------------------------------------------------------------------
(***************************************************************************)
(* insert_into_bucket_tree                                                 *)
(***************************************************************************)
\* bkt_tree is NULL: allocate the root over the whole space, id in slot 1.
InsertRoot(id) ==
    /\ DOMAIN tree = {}
    /\ routeNum < MaxRouteNum
    /\ tree' = [n \in {<<>>} |->
                  [lo |-> 0, hi |-> Space,
                   slots |-> [i \in Slots |-> IF i = 1 THEN Fresh(id) ELSE Zeroed]]]
    /\ routeNum' = routeNum + 1
    /\ UNCHANGED <<pending, split>>

FreeSlotAnyStatus(n, id, i) ==    \* Mutant: does not look at the status
    \A j \in 1 .. i : tree[n].slots[j].id # id

\* The scan of the bucket stops at the first slot that is NOT_USE or that
\* already names id.  FreeSlot: it stopped at i and i does not name id.
FreeSlot(n, id, i) ==
    /\ ~InUse(n, i)
    /\ tree[n].slots[i].id # id
    /\ \A j \in 1 .. i - 1 : InUse(n, j) /\ tree[n].slots[j].id # id

\* Full: the scan ran through the whole bucket.
Full(n, id) == \A i \in Slots : InUse(n, i) /\ tree[n].slots[i].id # id

FillSlotUncounted(n, i, id) ==    \* Mutant: no route_num++
    /\ ~split.on
    /\ IsLeaf(n) /\ OnWalk(n, id)
    /\ FreeSlot(n, id, i)
    /\ tree' = WithSlot(n, i, Fresh(id))
    /\ UNCHANGED <<routeNum, pending, split>>

\* When the scan stops at a slot that names id, whatever its status, or when
\* the bucket is full and its range does not hold this node's own id, the call
\* returns with nothing changed: a stuttering step.
FillSlot(n, i, id) ==
    /\ ~split.on
    /\ routeNum < MaxRouteNum
    /\ IsLeaf(n) /\ OnWalk(n, id)
    /\ FreeSlot(n, id, i)
    /\ tree' = WithSlot(n, i, Fresh(id))
    /\ routeNum' = routeNum + 1
    /\ UNCHANGED <<pending, split>>

HoldsSelf(n) == tree[n].lo <= SelfId /\ SelfId < tree[n].hi

BeginSplit(n, id) ==
    /\ ~split.on
    /\ routeNum < MaxRouteNum
    /\ IsLeaf(n) /\ OnWalk(n, id)
    /\ Full(n, id)
    /\ HoldsSelf(n)
    /\ split' = [on |-> TRUE, leaf |-> n, at |-> n, id |-> id]
    /\ UNCHANGED <<tree, routeNum, pending>>

-----------------------------------------------------------------------------
(***************************************************************************)
(* One round of while(!split_ok): __split_into_two_bkt allocates two       *)
(* children of tmp_root (split.at), __check_if_split_ok hands them the two *)
(* halves of its range and counts the entries of the full bucket           *)
(* (split.leaf) on each side of the middle.                                *)
(***************************************************************************)
Middle(n)   == (tree[n].lo + tree[n].hi) \div 2
Below(n, m) == {i \in Slots : tree[n].slots[i].id < m}

DividedKeepsRange(n, lslots, rslots) ==    \* Mutant: the inner node keeps its range
    [p \in DOMAIN tree \cup {Left(n), Right(n)} |->
        IF p = Left(n) THEN [lo |-> tree[n].lo, hi |-> Middle(n), slots |-> lslots]
        ELSE IF p = Right(n) THEN [lo |-> Middle(n), hi |-> tree[n].hi, slots |-> rslots]
        ELSE tree[p]]

DividedClears(n, lslots, rslots) ==    \* Mutant: the inner node's slots are cleared
    [p \in DOMAIN tree \cup {Left(n), Right(n)} |->
        IF p = Left(n) THEN [lo |-> tree[n].lo, hi |-> Middle(n), slots |-> lslots]
        ELSE IF p = Right(n) THEN [lo |-> Middle(n), hi |-> tree[n].hi, slots |-> rslots]
        ELSE IF p = n THEN [lo |-> Middle(n), hi |-> Middle(n), slots |-> [i \in Slots |-> Zeroed]]
        ELSE tree[p]]

Divided(n, lslots, rslots) ==
    [p \in DOMAIN tree \cup {Left(n), Right(n)} |->
        IF p = Left(n) THEN [lo |-> tree[n].lo, hi |-> Middle(n), slots |-> lslots]
        ELSE IF p = Right(n) THEN [lo |-> Middle(n), hi |-> tree[n].hi, slots |-> rslots]
        ELSE IF p = n THEN [lo |-> Middle(n), hi |-> Middle(n), slots |-> tree[n].slots]
        ELSE tree[p]]

EmptyBucket == [i \in Slots |-> Zeroed]
SplitAt(n)  == [on |-> TRUE, leaf |-> split.leaf, at |-> n, id |-> split.id]

\* All entries on one side: go down that side and try again.
SplitTurns ==
    /\ split.on
    /\ Len(split.at) < MaxDepth
    /\ tree' = Divided(split.at, EmptyBucket, EmptyBucket)
    /\ \/ /\ Below(split.leaf, Middle(split.at)) = {}
          /\ split' = SplitAt(Right(split.at))
       \/ /\ Below(split.leaf, Middle(split.at)) = Slots
          /\ split' = SplitAt(Left(split.at))
    /\ UNCHANGED <<routeNum, pending>>

\* The slots S of bucket n copied in order to the front of a new bucket, the
\* slot behind them set to last.
Rank(S, i) == Cardinality({k \in S : k <= i})
PackedOver(n, S, last) ==    \* Mutant: last goes on top of the last entry copied
    [j \in Slots |->
        IF j = Cardinality(S) /\ last # Zeroed THEN last
        ELSE IF \E i \in S : Rank(S, i) = j
        THEN tree[n].slots[CHOOSE i \in S : Rank(S, i) = j]
        ELSE Zeroed]

Packed(n, S, last) ==
    [j \in Slots |->
        IF \E i \in S : Rank(S, i) = j
        THEN tree[n].slots[CHOOSE i \in S : Rank(S, i) = j]
        ELSE IF j = Cardinality(S) + 1 THEN last ELSE Zeroed]

\* Both sides have entries: deal them out, and put the new id behind the
\* entries of its side of the middle of tmp_root.
SplitSeparates ==
    LET mid   == Middle(split.at)
        below == Below(split.leaf, mid)
        above == Slots \ below
        left  == split.id < mid
    IN  /\ split.on
        /\ Len(split.at) < MaxDepth
        /\ below # {} /\ above # {}
        /\ tree' = Divided(split.at,
                      Packed(split.leaf, below, IF left THEN Fresh(split.id) ELSE Zeroed),
                      Packed(split.leaf, above, IF left THEN Zeroed ELSE Fresh(split.id)))
        /\ routeNum' = routeNum + 1
        /\ split' = NoSplit
        /\ UNCHANGED pending

Insert(id) == \/ InsertRoot(id)
              \/ \E n \in DOMAIN tree : \/ \E i \in Slots : FillSlot(n, i, id)
                                        \/ BeginSplit(n, id)

-----------------------------------------------------------------------------
(***************************************************************************)
(* refresh_route: tree_node_to_buffer lists the live slots of every leaf   *)
(* and ages them; a request to each follows, and its context points at the *)
(* slot.  A context is not stored when the context table is full, so any   *)
(* part of the list may end up pending.  A pointer carries no id in the    *)
(* code; peer remembers whom the request was sent to.                      *)
(***************************************************************************)
AgedUnchecked(p) ==    \* Mutant: counts slots down that are not in use
    [id |-> p.id, status |-> p.status,
     refresh_count_down |-> p.refresh_count_down - 1, refresh_times |-> p.refresh_times]

AgedNotRewound(p) ==    \* Mutant: refresh_count_down is not set back
    IF p.status = "NOT_USE" \/ p.refresh_count_down = 0 THEN p
    ELSE IF p.refresh_count_down - 1 # 0
    THEN [id |-> p.id, status |-> p.status,
          refresh_count_down |-> p.refresh_count_down - 1, refresh_times |-> p.refresh_times]
    ELSE [id |-> p.id, status |-> IF p.refresh_times - 1 = 0 THEN "NOT_USE" ELSE "IN_USE",
          refresh_count_down |-> 0, refresh_times |-> p.refresh_times - 1]

AgedForever(p) ==    \* Mutant: refresh_times is not counted down
    IF p.status = "NOT_USE" THEN p
    ELSE [id |-> p.id, status |-> p.status,
          refresh_count_down |-> IF p.refresh_count_down - 1 # 0
                                 THEN p.refresh_count_down - 1 ELSE RefreshInterval,
          refresh_times |-> p.refresh_times]

Aged(p) ==
    IF p.status = "NOT_USE" THEN p
    ELSE IF p.refresh_count_down - 1 # 0
    THEN [id |-> p.id, status |-> p.status,
          refresh_count_down |-> p.refresh_count_down - 1, refresh_times |-> p.refresh_times]
    ELSE [id |-> p.id, status |-> IF p.refresh_times - 1 = 0 THEN "NOT_USE" ELSE "IN_USE",
          refresh_count_down |-> RefreshInterval, refresh_times |-> p.refresh_times - 1]

Pointer == [at : Path, slot : Slots, peer : Id]

BufferedAnyStatus ==    \* Mutant: does not look at the status
    {c \in [at : Leaves, slot : Slots, peer : Id] :
        /\ tree[c.at].slots[c.slot].refresh_count_down > 0
        /\ c.peer = tree[c.at].slots[c.slot].id}

Buffered ==
    {c \in [at : Leaves, slot : Slots, peer : Id] :
        /\ InUse(c.at, c.slot)
        /\ tree[c.at].slots[c.slot].refresh_count_down > 0
        /\ c.peer = tree[c.at].slots[c.slot].id}

Sweep ==
    /\ ~split.on
    /\ routeNum > 0
    /\ DOMAIN tree # {}
    /\ tree' = [n \in DOMAIN tree |->
                  IF IsLeaf(n)
                  THEN [lo |-> tree[n].lo, hi |-> tree[n].hi,
                        slots |-> [i \in Slots |-> Aged(tree[n].slots[i])]]
                  ELSE tree[n]]
    /\ \E S \in SUBSET Buffered :
          /\ Cardinality(pending \cup S) <= MaxPending
          /\ pending' = pending \cup S
    /\ UNCHANGED <<routeNum, split>>

(***************************************************************************)
(* handle_ping_rsp and handle_find_node_rsp, once the context is found:    *)
(* the slot it points to is live again.  map_del may drop further contexts *)
(* with the one answered, and others may still point to the slot.          *)
(***************************************************************************)
Answer(c) ==
    /\ ~split.on
    /\ tree' = WithSlot(c.at, c.slot, Fresh(tree[c.at].slots[c.slot].id))
    /\ pending' \in SUBSET pending
    /\ UNCHANGED <<routeNum, split>>

\* Contexts leave the context table unanswered, or are refused by it.
Forget ==
    /\ ~split.on
    /\ pending' \in SUBSET pending
    /\ UNCHANGED <<tree, routeNum, split>>

-----------------------------------------------------------------------------
Init ==
    /\ tree = [n \in {} |-> Zeroed]
    /\ routeNum = 0
    /\ pending = {}
    /\ split = NoSplit

Next ==
    \/ \E id \in Announced : Insert(id)
    \/ SplitTurns
    \/ SplitSeparates
    \/ Sweep
    \/ \E c \in pending : Answer(c)
    \/ Forget

Spec == Init /\ [][Next]_vars

\* The timers of main() keep firing, and a loop that can go round does.
FairSpec == Spec /\ WF_vars(Sweep) /\ WF_vars(SplitTurns \/ SplitSeparates)

-----------------------------------------------------------------------------
(***************************************************************************)
(* Properties                                                              *)
(***************************************************************************)
\* Every variable stays in its type.
TypeOK ==
    /\ tree \in [DOMAIN tree -> Bucket]
    /\ DOMAIN tree \subseteq Path
    /\ routeNum \in Nat
    /\ pending \subseteq Pointer
    /\ split \in [on : BOOLEAN, leaf : Path, at : Path, id : Id]

\* The slots of the buckets that hold a live peer.
Live == {x \in Leaves \X Slots : InUse(x[1], x[2])}

InRange(n, id) == tree[n].lo <= id /\ id < tree[n].hi

\* Whatever was split, and in the middle of a split too: for every id the walk
\* of find_prop_node ends at a leaf (its "Not find !! must be err" branch is
\* never taken), and that leaf is the one bucket whose range holds the id.
FindProperNode ==
    DOMAIN tree # {} =>
        \A id \in Id : \E n \in Leaves :
            /\ OnWalk(n, id)
            /\ InRange(n, id)
            /\ \A m \in Leaves : InRange(m, id) => m = n

\* refresh_route allocates route_num entries and tree_node_to_buffer writes one
\* for every live slot: the buffer is never overrun, although route_num is kept
\* by hand at every insertion, splits copy entries, and late answers revive
\* slots that had expired.
BufferFits == Cardinality(Live) <= routeNum

\* A live slot has both counters running.  One that had reached 0 would never
\* be asked again, nor ever be aged out, and would stay in the table for good.
CountersRun ==
    \A n \in DOMAIN tree, i \in Slots :
        InUse(n, i) => /\ tree[n].slots[i].refresh_count_down > 0
                       /\ tree[n].slots[i].refresh_times > 0

\* Every slot a context points to was filled by an insertion, which counted it:
\* an answer can therefore never make a slot live that route_num left out.
PointersFilled ==
    \A c \in pending : c.at \in DOMAIN tree /\ tree[c.at].slots[c.slot] # Zeroed

\* m is n or lies below it.
Under(m, n) == Len(n) <= Len(m) /\ SubSeq(m, 1, Len(n)) = n

\* A split deals out what it found: when its loop ends, every entry of the full
\* bucket and the new one are in the leaves, each of them once.
SplitKeepsAll ==
    [][split.on /\ ~split'.on =>
         /\ Cardinality({x \in Live' : Under(x[1], split.leaf)}) = BucketSize + 1
         /\ \A p \in {tree[split.leaf].slots[i] : i \in Slots} \cup {Fresh(split.id)} :
               \E x \in Live' : tree'[x[1]].slots[x[2]] = p]_vars

\* A slot changes its peer only while it is not in use: no insertion, split or
\* answer replaces a live peer, so a peer that answers is never pushed out.
LivePeerKept ==
    [][\A n \in DOMAIN tree, i \in Slots :
         InUse(n, i) => tree'[n].slots[i].id = tree[n].slots[i].id]_vars

\* When the network falls silent (only the timers run), every peer leaves the
\* table in the end, unless a split never comes to an end.
SilenceEmptiesTable ==
    <>[][Sweep \/ SplitTurns \/ SplitSeparates \/ Forget]_vars
        /\ []<>(~split.on) => <>[](Live = {})

-----------------------------------------------------------------------------
(***************************************************************************)
(* The inductive invariant of the proofs in RouteTableProofs.              *)
(***************************************************************************)
\* Every prefix of an allocated path is allocated; children come in pairs.
Shape ==
    /\ \A n \in DOMAIN tree : \A k \in 0 .. Len(n) : SubSeq(n, 1, k) \in DOMAIN tree
    /\ \A n \in DOMAIN tree : Left(n) \in DOMAIN tree <=> Right(n) \in DOMAIN tree

\* The bucket being split is full of live peers and the loop stands on a leaf:
\* the full bucket itself, or below it on a bucket just allocated.
SplitOK ==
    split.on => /\ split.at \in Leaves
                /\ split.leaf \in DOMAIN tree
                /\ \A i \in Slots : InUse(split.leaf, i)
                /\ split.at # split.leaf => /\ split.leaf \notin Leaves
                                            /\ tree[split.at].slots = EmptyBucket

\* The slots that route_num has counted: those that were ever filled in a leaf,
\* and those of a bucket that has stopped being a leaf to be split.
Filled  == {x \in Leaves \X Slots : tree[x[1]].slots[x[2]] # Zeroed}
Counted == Filled \cup (IF split.on THEN {split.leaf} \X Slots ELSE {})

CountOK == IsFiniteSet(DOMAIN tree) /\ Cardinality(Counted) <= routeNum

IInv == /\ TypeOK
        /\ Shape
        /\ SplitOK
        /\ FindProperNode
        /\ CountersRun
        /\ PointersFilled
        /\ CountOK

-----------------------------------------------------------------------------
(***************************************************************************)
(* What the source says of the table and the code does not keep.           *)
(***************************************************************************)
\* "[ERROR] should'nt happen" (line 1412): the scan for an announced id never
\* meets a slot that is not in use and names that id.
DeadTwinNeverMet ==
    \A id \in Announced \ {0}, n \in Leaves :
        OnWalk(n, id) => ~ \E i \in Slots : ~InUse(n, i) /\ tree[n].slots[i].id = id

\* "bkt should split into two bucket" (line 1467), by the halves of its range:
\* every entry of a bucket lies in the bucket's range, where find_prop_node
\* looks for it.
EntryInItsBucket == \A x \in Live : InRange(x[1], tree[x[1]].slots[x[2]].id)

\* "bkt should split into two bucket" (line 1467): a round of the loop has a
\* range of at least two ids, which two halves can still tell apart.
SplitCanSeparate ==
    split.on => tree[split.at].hi - tree[split.at].lo >= 2
=============================================================================
