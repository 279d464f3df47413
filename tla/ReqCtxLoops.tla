---------------------------- MODULE ReqCtxLoops ----------------------------
(***************************************************************************)
(* The loops of map_del and msg_timeout_handler as they are written, round *)
(* by round.  ReqCtx says in one step what they leave of the table.        *)
(***************************************************************************)
EXTENDS ReqCtx

\* What map_del and the handler change of msg_ctx_map.
CtxMap == [bucket |-> bucket, used |-> used]

\* The loop of map_del: head is m->bucket[pos], e the entry the loop stands on,
\* both as positions in the chain.
Round(chain, key, at) ==
    IF at.found THEN at
    ELSE IF chain[at.e].key = key THEN [head |-> at.e + 1, e |-> at.e, found |-> TRUE]
    ELSE [head |-> at.e, e |-> at.e + 1, found |-> FALSE]

MapDelLoop(chain, key) ==
    LET loop[r \in 0 .. Len(chain)] == IF r = 0 THEN [head |-> 1, e |-> 1, found |-> FALSE]
                                       ELSE Round(chain, key, loop[r - 1])
    IN  loop[Len(chain)]

MapDel(m, key) ==
    LET end == MapDelLoop(m.bucket[HashOf[key]], key)
    IN  [bucket |-> [m.bucket EXCEPT ![HashOf[key]] = SubSeq(@, end.head, Len(@))],
         used   |-> IF end.found THEN m.used - 1 ELSE m.used]

-----------------------------------------------------------------------------
\* msg_timeout_handler on the entries of bucket b, tid_arr being arr before them:
\* a due id is noted if there is room.
NoteBucket(arr, b) ==
    LET noted[i \in 0 .. Len(bucket[b])] ==
          IF i = 0 THEN arr
          ELSE IF bucket[b][i].timeout_sec - 1 <= 0 /\ Len(noted[i - 1]) < MaxTimeoutTid
               THEN Append(noted[i - 1], bucket[b][i].key)
               ELSE noted[i - 1]
    IN  noted[Len(bucket[b])]

\* map_for_each takes the buckets in order.
TidArr ==
    LET upto[b \in 0 .. NumBuckets] == IF b = 0 THEN <<>> ELSE NoteBucket(upto[b - 1], b - 1)
    IN  upto[NumBuckets]

\* Then one map_del after the other.
DelEach(m, arr) ==
    LET after[j \in 0 .. Len(arr)] == IF j = 0 THEN m ELSE MapDel(after[j - 1], arr[j])
    IN  after[Len(arr)]

TimeoutLoops == DelEach([CtxMap EXCEPT !.bucket = [b \in Buckets |-> Ticked(bucket[b])]], TidArr)

-----------------------------------------------------------------------------
\* An answer leaves the table that the loop of map_del leaves, and a timeout
\* pass the one that its map_del calls, made one after the other, leave: each of
\* them still finds its context, whatever the calls before it have dropped.
LoopsAgree ==
    [][/\ \A t \in Tid : Respond(t) => CtxMap' = MapDel(CtxMap, t)
       /\ Timeout => CtxMap' = TimeoutLoops]_vars
=============================================================================
