-------------------------------- MODULE Node --------------------------------
(***************************************************************************)
(* The running node of platform/dht_spider.c: the timers and the message   *)
(* handlers that main.c hangs into the event loop, on the routing table    *)
(* (RouteTable) and the table of request contexts (ReqCtx) they share.     *)
(*                                                                         *)
(* One handler runs at a time.  The two loops that walk a list are taken   *)
(* one element per step: refresh_route, which sends one request to every   *)
(* peer it has found (requests), and handle_find_node_rsp, which inserts   *)
(* the peers that an answer names (todo).  No other handler starts in      *)
(* between.  The network may deliver any answer at any time: late, twice,  *)
(* or to a request that was never sent.                                    *)
(*                                                                         *)
(* The handlers of other nodes' requests (ping, find_node, get_peers) read *)
(* the table and leave this state alone: they are not actions.             *)
(***************************************************************************)
EXTENDS HashTbl, FiniteSets

CONSTANTS
    Space, BucketSize, RefreshInterval, DetectPeriod, SelfId, Announced,
    MaxRouteNum, MaxDepth,                      \* of RouteTable
    NumBuckets, HashOf, MaxUsed, MaxTimeoutTid,
    TimeoutInterval, MaxTid,                    \* of ReqCtx
    MaxNodes                                    \* bound: peers named in one answer

ASSUME TableAssumption == /\ Space \in Nat \ {0} /\ BucketSize \in Nat \ {0}
                          /\ RefreshInterval \in Nat \ {0} /\ DetectPeriod \in Nat \ {0}
                          /\ SelfId \in 0 .. Space - 1
                          /\ Announced \subseteq 0 .. Space - 1
                          /\ MaxRouteNum \in Nat /\ MaxDepth \in Nat
ASSUME CtxAssumption   == /\ NumBuckets \in Nat \ {0} /\ MaxTid \in Nat
                          /\ TimeoutInterval \in Nat \ {0}
                          /\ MaxUsed \in Nat /\ MaxTimeoutTid \in Nat \ {0}
                          /\ HashOf \in [0 .. MaxTid -> 0 .. NumBuckets - 1]
ASSUME ListAssumption  == MaxNodes \in Nat

VARIABLES
    tree, routeNum, split,  \* of RouteTable
    bucket, used, reqId,    \* of ReqCtx; a context also has its route_info
    requests,               \* the requests that the running handler still sends
    todo                    \* the ids that the running handler still inserts

table == <<tree, routeNum, split>>
ctxs  == <<bucket, used, reqId>>
vars  == <<tree, routeNum, split, bucket, used, reqId, requests, todo>>

-----------------------------------------------------------------------------
\* The peer_addr NULL.
NoPeer == [at |-> <<>>, slot |-> 0, peer |-> 0]

\* The slots that contexts, and requests about to be sent, point to.
Pointers ==
    ((UNION {{bucket[b][i].route_info : i \in 1 .. Len(bucket[b])} : b \in 0 .. NumBuckets - 1})
        \cup {requests[i].peer : i \in 1 .. Len(requests)}) \ {NoPeer}

\* The contexts as ReqCtx has them.
Bare == [b \in 0 .. NumBuckets - 1 |->
           [i \in 1 .. Len(bucket[b]) |->
              [key |-> bucket[b][i].key, timeout_sec |-> bucket[b][i].timeout_sec]]]

RT == INSTANCE RouteTable WITH pending <- Pointers, MaxPending <- MaxTid
RC == INSTANCE ReqCtx WITH bucket <- Bare

\* The event loop may call the next handler.
Idle == ~split.on /\ requests = <<>> /\ todo = <<>>

-----------------------------------------------------------------------------
(***************************************************************************)
(* Sending                                                                 *)
(***************************************************************************)
Request == [op : {"PING", "FIND_NODE"}, peer : RT!Pointer \cup {NoPeer}]

\* The stack of tree_node_to_buffer takes the right subtree first; a leaf is
\* read from its first slot on.
ReadBefore(c, d) ==
    IF c.at = d.at THEN c.slot < d.slot
    ELSE \E k \in 1 .. Len(c.at) : /\ SubSeq(c.at, 1, k - 1) = SubSeq(d.at, 1, k - 1)
                                   /\ c.at[k] > d.at[k]

\* The pointers of S in the order in which tree_node_to_buffer finds them.
Found(S) ==
    {q \in [1 .. Cardinality(S) -> S] :
        \A i, j \in 1 .. Cardinality(S) : i < j => ReadBefore(q[i], q[j])}

RefreshRouteLate(op) ==    \* Mutant: asks the peers that are left after ageing
    /\ Idle
    /\ reqId + Cardinality(RT!Buffered) <= MaxTid
    /\ \E q \in Found({c \in RT!Buffered :
                       RT!Aged(tree[c.at].slots[c.slot]).status = "IN_USE"}) :
          requests' = [i \in 1 .. Len(q) |-> [op |-> op, peer |-> q[i]]]
    /\ UNCHANGED <<bucket, used, reqId, todo>>
    /\ RT!Sweep

\* refresh_route: age the table and note the peers to ask.
RefreshRoute(op) ==
    /\ Idle
    /\ reqId + Cardinality(RT!Buffered) <= MaxTid
    /\ \E q \in Found(RT!Buffered) :
          requests' = [i \in 1 .. Len(q) |-> [op |-> op, peer |-> q[i]]]
    /\ UNCHANGED <<bucket, used, reqId, todo>>
    /\ RT!Sweep

\* The timer period_ping returns at once when route_num is 0.
PeriodPing == RefreshRoute("PING")

\* The timer find_neighbor asks the bootstrap node when route_num is 0.
FindNeighbor ==
    \/ RefreshRoute("FIND_NODE")
    \/ /\ Idle
       /\ routeNum = 0
       /\ reqId < MaxTid
       /\ requests' = <<[op |-> "FIND_NODE", peer |-> NoPeer]>>
       /\ UNCHANGED <<table, ctxs, todo>>

PutCtxUnlimited(p) ==    \* Mutant: does not test the limit
    /\ bucket' = [bucket EXCEPT ![HashOf[reqId]] =
                     Put(@, [key |-> reqId, timeout_sec |-> TimeoutInterval, route_info |-> p])]
    /\ used' = IF reqId \in Keys(bucket[HashOf[reqId]]) THEN used ELSE used + 1

\* __put_msg_ctx_map, for the request that has just been numbered reqId.
PutCtx(p) ==
    IF used >= MaxUsed
    THEN UNCHANGED <<bucket, used>>
    ELSE /\ bucket' = [bucket EXCEPT ![HashOf[reqId]] =
                         Put(@, [key |-> reqId, timeout_sec |-> TimeoutInterval, route_info |-> p])]
         /\ used' = IF reqId \in Keys(bucket[HashOf[reqId]]) THEN used ELSE used + 1

PingNode ==
    /\ requests # <<>> /\ Head(requests).op = "PING"
    /\ reqId < MaxTid
    /\ PutCtx(Head(requests).peer)
    /\ reqId' = reqId + 1
    /\ requests' = Tail(requests)
    /\ UNCHANGED <<table, todo>>

\* No context is kept for a request to the bootstrap node.
FindNode ==
    /\ requests # <<>> /\ Head(requests).op = "FIND_NODE"
    /\ reqId < MaxTid
    /\ IF Head(requests).peer = NoPeer
       THEN UNCHANGED <<bucket, used>>
       ELSE PutCtx(Head(requests).peer)
    /\ reqId' = reqId + 1
    /\ requests' = Tail(requests)
    /\ UNCHANGED <<table, todo>>

-----------------------------------------------------------------------------
(***************************************************************************)
(* Receiving: handle_rcv_msg calls a handler by the letter of y, and for   *)
(* an answer by the first letter of the transaction id.  An answer without *)
(* a transaction id, or find_node's without nodes, ends before map_del.    *)
(***************************************************************************)
CtxOf(t) ==
    LET chain == bucket[HashOf[t]]
    IN  IF t \in Keys(chain) THEN {chain[i] : i \in {j \in 1 .. Len(chain) : chain[j].key = t}}
        ELSE {}

RevivedOtherwise(c) ==    \* Mutant: gives the slot back to the peer that was asked
    RT!WithSlot(c.at, c.slot, RT!Fresh(c.peer))

\* What an answer does to the slot of the request it answers.
Revived(c) == RT!WithSlot(c.at, c.slot, RT!Fresh(tree[c.at].slots[c.slot].id))

CreditUncounted(t) ==    \* Mutant: counts a context that is not there
    /\ bucket' = [bucket EXCEPT ![HashOf[t]] = Deleted(@, t)]
    /\ used' = used - 1
    /\ \/ /\ \A c \in CtxOf(t) : c.route_info = NoPeer
          /\ tree' = tree
       \/ \E c \in CtxOf(t) : c.route_info # NoPeer /\ tree' = Revived(c.route_info)

\* map_del, and the peer asked, if any, is alive.
Credit(t) ==
    /\ bucket' = [bucket EXCEPT ![HashOf[t]] = Deleted(@, t)]
    /\ used' = IF CtxOf(t) # {} THEN used - 1 ELSE used
    /\ \/ /\ \A c \in CtxOf(t) : c.route_info = NoPeer
          /\ tree' = tree
       \/ \E c \in CtxOf(t) : c.route_info # NoPeer /\ tree' = Revived(c.route_info)

PingRsp(t) ==
    /\ Idle
    /\ Credit(t)
    /\ UNCHANGED <<routeNum, split, reqId, requests, todo>>

\* ids: the peers the answer names, or none when its length is not a multiple
\* of the length of one.
FindNodeRsp(t, ids) ==
    /\ Idle
    /\ routeNum + Len(ids) <= MaxRouteNum
    /\ Credit(t)
    /\ todo' = ids
    /\ UNCHANGED <<routeNum, split, reqId, requests>>

\* insert_into_bucket_tree leaves the table alone: the scan ends at a slot that
\* names id, or the bucket is full and is not the one to split.
Ignored(id) ==
    \E n \in DOMAIN tree :
        /\ RT!IsLeaf(n) /\ RT!OnWalk(n, id)
        /\ ~ \E i \in RT!Slots : RT!FreeSlot(n, id, i)
        /\ RT!Full(n, id) => ~RT!HoldsSelf(n)

\* One round of the loop of handle_find_node_rsp, or of the route file's reader.
InsertNext ==
    /\ todo # <<>> /\ ~split.on
    /\ todo' = Tail(todo)
    /\ UNCHANGED <<bucket, used, reqId, requests>>
    /\ RT!Insert(Head(todo)) \/ (Ignored(Head(todo)) /\ UNCHANGED table)

SplitRound ==
    /\ UNCHANGED <<bucket, used, reqId, requests, todo>>
    /\ RT!SplitTurns \/ RT!SplitSeparates

\* msg_timeout_handler.
MsgTimeout ==
    /\ Idle
    /\ bucket' = [b \in 0 .. NumBuckets - 1 |->
                    SubSeq(RC!Ticked(bucket[b]), RC!LastTaken(b) + 1, Len(bucket[b]))]
    /\ used' = used - Cardinality(RC!Taken)
    /\ UNCHANGED <<table, reqId, requests, todo>>

-----------------------------------------------------------------------------
\* The ids an answer, or the route file, may list.
Lists == UNION {[1 .. k -> Announced] : k \in 0 .. MaxNodes}

\* init_route_table: what the route file lists is inserted; when that is
\* nothing the bootstrap node is asked, and then pinged, which does leave a
\* context, one without a peer.
Init ==
    /\ tree = [n \in {} |-> RT!Zeroed]
    /\ routeNum = 0
    /\ split = RT!NoSplit
    /\ bucket = [b \in 0 .. NumBuckets - 1 |-> <<>>]
    /\ used = 0
    /\ reqId = 0
    /\ todo \in {ids \in Lists : Len(ids) <= MaxRouteNum}
    /\ requests = IF todo # <<>> THEN <<>>
                  ELSE <<[op |-> "FIND_NODE", peer |-> NoPeer], [op |-> "PING", peer |-> NoPeer]>>

Next ==
    \/ PeriodPing \/ FindNeighbor \/ PingNode \/ FindNode \/ MsgTimeout
    \/ \E t \in 0 .. MaxTid : PingRsp(t) \/ \E ids \in Lists : FindNodeRsp(t, ids)
    \/ InsertNext \/ SplitRound

Spec == Init /\ [][Next]_vars

-----------------------------------------------------------------------------
(***************************************************************************)
(* Properties                                                              *)
(***************************************************************************)
\* Every variable stays in its type.
TypeOK ==
    /\ RT!TypeOK /\ RC!TypeOK
    /\ \A b \in DOMAIN bucket, i \in 1 .. MaxTid :
          i <= Len(bucket[b]) => bucket[b][i].route_info \in RT!Pointer \cup {NoPeer}
    /\ requests \in Seq(Request)
    /\ todo \in Lists

\* All that the handlers do to the routing table, and to the slot pointers held
\* by contexts and by a sweep under way, are steps of RouteTable: what is
\* checked and proved there holds in the running node.
TableSpec == RT!Spec

\* All that they do to the contexts are steps of ReqCtx.
ContextSpec == RC!Spec

\* A peer is given up only by a sweep that also asks it once more: no peer is
\* dropped whose last request is not still to be sent.
AskedWhenDropped ==
    [][\A n \in DOMAIN tree, i \in RT!Slots :
         (RT!IsLeaf(n) /\ RT!InUse(n, i) /\ tree'[n].slots[i].status = "NOT_USE") =>
            \E k \in 1 .. Len(requests') : /\ requests'[k].peer.at = n
                                           /\ requests'[k].peer.slot = i]_vars

\* A node that has had peers, has lost them all and has no request open that could
\* bring one of them back.
Marooned == Idle /\ routeNum > 0 /\ RT!Live = {} /\ Pointers = {}

\* That state is a trap, because route_num counts insertions and never falls:
\* whatever timer runs and whatever answer comes, the node queues no request, not
\* even one to the bootstrap node, and gets no peer back, until an answer lists
\* peers though no context of a request to a peer is open.
MaroonedForGood ==
    [][Marooned => Marooned' \/ todo' # <<>>]_vars
=============================================================================
