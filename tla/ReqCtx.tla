------------------------------- MODULE ReqCtx -------------------------------
(***************************************************************************)
(* The request contexts of platform/dht_spider.c: ping_node and find_node  *)
(* number their requests with g_req_id and put a context into              *)
(* node->msg_ctx_map, a response takes it out with map_del, and            *)
(* msg_timeout_handler takes out the ones that nobody answered.  The       *)
(* network loses, delays and duplicates: any transaction id may arrive at  *)
(* any time, any number of times, or never.                                *)
(***************************************************************************)
EXTENDS HashTbl, FiniteSets

CONSTANTS
    NumBuckets,       \* 1 << 16 in init_msg_ctx_map
    HashOf,           \* int_hash & mask: the bucket of a transaction id
    MaxUsed,          \* MAX_MSG_QUEUE_SIZE, the limit of __put_msg_ctx_map
    MaxTimeoutTid,    \* MAX_TIMEOUT_TID, the most one timeout pass takes out
    TimeoutInterval,  \* MSG_TIMEOUT_INTERVAL, in passes of the timeout timer
    MaxTid            \* bound: requests explored

Buckets == 0 .. NumBuckets - 1

ASSUME SizeAssumption == /\ NumBuckets \in Nat \ {0}
                         /\ MaxUsed \in Nat
                         /\ MaxTimeoutTid \in Nat \ {0}
                         /\ TimeoutInterval \in Nat \ {0}
                         /\ MaxTid \in Nat
ASSUME HashAssumption == HashOf \in [0 .. MaxTid -> Buckets]

VARIABLES
    bucket,   \* msg_ctx_map->bucket: one chain of contexts per bucket
    used,     \* msg_ctx_map->used, the table's own count of its entries
    reqId     \* g_req_id, the id of the next request

vars == <<bucket, used, reqId>>

Tid == 0 .. MaxTid

\* refresh_route_ctx_t under its key.
Ctx == [key : Tid, timeout_sec : Int]

\* All the ids with a context in the table.
Stored == UNION {Keys(bucket[b]) : b \in Buckets}

-----------------------------------------------------------------------------
SendUnlimited ==    \* Mutant: does not test the limit
    /\ reqId < MaxTid
    /\ reqId' = reqId + 1
    /\ bucket' = [bucket EXCEPT ![HashOf[reqId]] =
                     Put(@, [key |-> reqId, timeout_sec |-> TimeoutInterval])]
    /\ used' = used + 1

SendHashesNext ==    \* Mutant: takes the bucket after g_req_id++
    /\ reqId < MaxTid
    /\ used < MaxUsed
    /\ reqId' = reqId + 1
    /\ bucket' = [bucket EXCEPT ![HashOf[reqId + 1]] =
                     Put(@, [key |-> reqId, timeout_sec |-> TimeoutInterval])]
    /\ used' = used + 1

SendStoresNext ==    \* Mutant: stores the context under the next id
    /\ reqId < MaxTid
    /\ used < MaxUsed
    /\ reqId' = reqId + 1
    /\ bucket' = [bucket EXCEPT ![HashOf[reqId + 1]] =
                     Put(@, [key |-> reqId + 1, timeout_sec |-> TimeoutInterval])]
    /\ used' = used + 1

\* ping_node, and find_node with a peer: g_req_id++, then __put_msg_ctx_map,
\* which drops the context when the table says that it is full.
Send ==
    /\ reqId < MaxTid
    /\ reqId' = reqId + 1
    /\ IF used >= MaxUsed
       THEN UNCHANGED <<bucket, used>>
       ELSE /\ bucket' = [bucket EXCEPT ![HashOf[reqId]] =
                            Put(@, [key |-> reqId, timeout_sec |-> TimeoutInterval])]
            /\ used' = IF reqId \in Keys(bucket[HashOf[reqId]]) THEN used ELSE used + 1

\* find_node to a bootstrap node: the id is spent, no context is kept.
SendUntracked ==
    /\ reqId < MaxTid
    /\ reqId' = reqId + 1
    /\ UNCHANGED <<bucket, used>>

RespondUncounted(t) ==    \* Mutant: counts a context that is not there
    /\ bucket' = [bucket EXCEPT ![HashOf[t]] = Deleted(@, t)]
    /\ used' = used - 1
    /\ UNCHANGED reqId

\* A response with transaction id t: handle_ping_rsp, handle_find_node_rsp.
Respond(t) ==
    /\ bucket' = [bucket EXCEPT ![HashOf[t]] = Deleted(@, t)]
    /\ used' = IF t \in Keys(bucket[HashOf[t]]) THEN used - 1 ELSE used
    /\ UNCHANGED reqId

-----------------------------------------------------------------------------
(***************************************************************************)
(* msg_timeout_handler.  The first pass over the table (map_for_each: the  *)
(* buckets in order, each from its head) takes one from every timeout_sec  *)
(* and notes the first MaxTimeoutTid ids that have come to 0; the second   *)
(* calls map_del on each of them, in that order.  Because map_del drops    *)
(* what stands in front, a chain keeps what stands behind its last victim. *)
(***************************************************************************)
Due == {x \in Buckets \X (1 .. MaxTid + 1) :
          /\ x[2] <= Len(bucket[x[1]])
          /\ bucket[x[1]][x[2]].timeout_sec - 1 <= 0}

Before(x, y) == x[1] < y[1] \/ (x[1] = y[1] /\ x[2] <= y[2])

TakenOneLess ==    \* Mutant: stops one short of MAX_TIMEOUT_TID
    {x \in Due : Cardinality({y \in Due : Before(y, x)}) < MaxTimeoutTid}

Taken == {x \in Due : Cardinality({y \in Due : Before(y, x)}) <= MaxTimeoutTid}

LastTaken(b) ==
    IF \E x \in Taken : x[1] = b
    THEN CHOOSE i \in 1 .. Len(bucket[b]) :
            <<b, i>> \in Taken /\ \A x \in Taken : x[1] = b => x[2] <= i
    ELSE 0

TickedNever(chain) == chain    \* Mutant: timeout_sec is not counted down

Ticked(chain) == [i \in 1 .. Len(chain) |-> [chain[i] EXCEPT !.timeout_sec = @ - 1]]

Timeout ==
    /\ bucket' = [b \in Buckets |->
                    SubSeq(Ticked(bucket[b]), LastTaken(b) + 1, Len(bucket[b]))]
    /\ used' = used - Cardinality(Taken)
    /\ UNCHANGED reqId

-----------------------------------------------------------------------------
Init ==
    /\ bucket = [b \in Buckets |-> <<>>]
    /\ used = 0
    /\ reqId = 0

Next == Send \/ SendUntracked \/ Timeout \/ \E t \in Tid : Respond(t)

Spec == Init /\ [][Next]_vars

\* The timeout timer keeps firing.
FairSpec == Spec /\ WF_vars(Timeout)

-----------------------------------------------------------------------------
\* Every variable stays in its type; used in particular never falls below 0.
TypeOK ==
    /\ bucket \in [Buckets -> Seq(Ctx)]
    /\ used \in Nat
    /\ reqId \in Tid

\* A context is where map_del and map_get look for it.
InItsBucket == \A b \in Buckets : \A t \in Keys(bucket[b]) : HashOf[t] = b

\* The ids of a chain fall from its head to its tail: no id is stored twice,
\* and every stored id was given to a request.
NewestFirst ==
    \A b \in Buckets :
        /\ \A i, j \in 1 .. Len(bucket[b]) : i < j => bucket[b][i].key > bucket[b][j].key
        /\ \A t \in Keys(bucket[b]) : t < reqId

\* The table never holds more than MAX_MSG_QUEUE_SIZE contexts, although the
\* limit is tested on used and map_del loses entries without counting them.
StoredBounded == Cardinality(Stored) <= used /\ used <= MaxUsed

\* A pass leaves a context that is due in the table only when it has taken out
\* as many as it can note: no due context hides behind one that map_del moved.
DueSurvivesOnlyFullPass ==
    [][Timeout /\ Cardinality(Taken) < MaxTimeoutTid =>
         \A b \in Buckets : \A i \in 1 .. Len(bucket'[b]) :
            bucket'[b][i].timeout_sec > 0]_vars

\* Every context leaves the table in the end, answered or not.
CtxLeaves == \A t \in Tid : t \in Stored ~> t \notin Stored

\* The table as its users may rely on it.
Table == INSTANCE Outstanding
           WITH open <- Stored, next <- reqId, Limit <- MaxUsed, MaxId <- MaxTid
OutstandingSpec == Table!OutstandingSpec

(***************************************************************************)
(* What the source says of the table and the code does not keep.           *)
(***************************************************************************)
\* "delete one" (hash_tbl.c:203): taking out one entry leaves the others.  A
\* context leaves the table only by its own response or when it is due.
CtxLostOnlyWhenDone ==
    [][\A b \in Buckets, i \in 1 .. MaxTid :
         i <= Len(bucket[b]) /\ bucket[b][i].key \notin Stored' =>
            Respond(bucket[b][i].key) \/ bucket[b][i].timeout_sec - 1 <= 0]_vars
=============================================================================
