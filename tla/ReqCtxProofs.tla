---------------------------- MODULE ReqCtxProofs ----------------------------
(***************************************************************************)
(* Theorems about the table of request contexts, for every number of       *)
(* buckets, every hash and every limit: a context is where its id hashes   *)
(* to, no id is there twice, the table stays below its limit although      *)
(* map_del does not count what it drops, it implements Outstanding, and    *)
(* the loops of the code do what the actions say.                          *)
(***************************************************************************)
EXTENDS ReqCtxLoops, FiniteSetTheorems, SequenceTheorems, LeastNumber, TLAPS

IInv == TypeOK /\ InItsBucket /\ NewestFirst /\ StoredBounded

-----------------------------------------------------------------------------
(***************************************************************************)
(* Lemmas about a chain.                                                   *)
(***************************************************************************)
\* new is what is left of old when its first k entries are gone; the other
\* fields of an entry may have changed.
Suffix(new, old, k) ==
    /\ k \in 0 .. Len(old)
    /\ new \in Seq(Ctx)
    /\ Len(new) = Len(old) - k
    /\ \A i \in 1 .. Len(new) : new[i].key = old[i + k].key

\* The end of a sequence, from the entry behind the k-th.
LEMMA EndOf ==
    ASSUME NEW S, NEW q \in Seq(S), NEW k \in 0 .. Len(q)
    PROVE  /\ Len(q) \in Nat
           /\ SubSeq(q, k + 1, Len(q)) \in Seq(S)
           /\ Len(SubSeq(q, k + 1, Len(q))) = Len(q) - k
           /\ \A i \in 1 .. Len(q) - k : SubSeq(q, k + 1, Len(q))[i] = q[i + k]
<1>1. Len(q) \in Nat /\ k \in Nat /\ k <= Len(q)
  OBVIOUS
<1>2. \A i \in k + 1 .. Len(q) : q[i] \in S
  BY <1>1, ElementOfSeq
<1> DEFINE r == SubSeq(q, k + 1, Len(q))
<1>3. /\ r \in Seq(S)
      /\ Len(r) = IF k + 1 <= Len(q) THEN Len(q) - (k + 1) + 1 ELSE 0
      /\ \A i \in 1 .. Len(q) - (k + 1) + 1 : r[i] = q[(k + 1) + i - 1]
  <2>1. k + 1 \in Int /\ Len(q) \in Int
    BY <1>1
  <2> QED
    BY <1>2, <2>1, SubSeqProperties
<1> HIDE DEF r
<1>4. Len(r) = Len(q) - k
  BY <1>1, <1>3
<1>5. ASSUME NEW i \in 1 .. Len(q) - k PROVE r[i] = q[i + k]
  <2>1. i \in 1 .. Len(q) - (k + 1) + 1 /\ (k + 1) + i - 1 = i + k
    BY <1>1
  <2> QED
    BY <1>3, <2>1
<1> QED
  BY <1>1, <1>3, <1>4, <1>5 DEF r

\* map_del leaves the end of the chain: what is behind the entry it looked for,
\* or the last entry when that one is not there.
LEMMA DeletedIsSuffix ==
    ASSUME NEW chain \in Seq(Ctx), NEW t
    PROVE  \E k \in 0 .. Len(chain) :
              /\ Suffix(Deleted(chain, t), chain, k)
              /\ t \in Keys(chain) => k >= 1 /\ chain[k].key = t
<1>1. CASE chain = << >>
  <2>1. Suffix(Deleted(chain, t), chain, 0) /\ Keys(chain) = {}
    BY <1>1 DEF Deleted, Suffix, Keys
  <2> QED
    BY <1>1, <2>1
<1>2. CASE chain # << >> /\ t \in Keys(chain)
  <2> DEFINE k == CHOOSE i \in 1 .. Len(chain) : chain[i].key = t
  <2>1. k \in 1 .. Len(chain) /\ chain[k].key = t
    BY <1>2 DEF Keys
  <2>2. Deleted(chain, t) = SubSeq(chain, k + 1, Len(chain))
    BY <1>2 DEF Deleted, Behind
  <2> HIDE DEF k
  <2>3. Suffix(SubSeq(chain, k + 1, Len(chain)), chain, k)
    BY <2>1, EndOf DEF Suffix
  <2> QED
    BY <2>1, <2>2, <2>3
<1>3. CASE chain # << >> /\ t \notin Keys(chain)
  <2>1. Deleted(chain, t) = SubSeq(chain, Len(chain), Len(chain))
    BY <1>3 DEF Deleted, Behind
  <2>2. Len(chain) - 1 \in 0 .. Len(chain) /\ (Len(chain) - 1) + 1 = Len(chain)
    BY <1>3, EmptySeq
  <2>3. Suffix(SubSeq(chain, Len(chain), Len(chain)), chain, Len(chain) - 1)
    BY <2>2, EndOf DEF Suffix
  <2> QED
    BY <1>3, <2>1, <2>2, <2>3
<1> QED
  BY <1>1, <1>2, <1>3

\* The end of a chain has the keys of the chain from there on, and no others.
LEMMA SuffixKeys ==
    ASSUME NEW old, NEW new, NEW k, Suffix(new, old, k), Len(old) \in Nat
    PROVE  \A t \in Keys(new) : \E i \in k + 1 .. Len(old) : old[i].key = t
<1> SUFFICES ASSUME NEW j \in 1 .. Len(new)
             PROVE  \E i \in k + 1 .. Len(old) : old[i].key = new[j].key
  BY DEF Keys
<1>1. j + k \in k + 1 .. Len(old) /\ old[j + k].key = new[j].key
  BY DEF Suffix
<1> QED
  BY <1>1

-----------------------------------------------------------------------------
(***************************************************************************)
(* The ids of the table.                                                   *)
(***************************************************************************)
LEMMA StoredFinite ==
    ASSUME TypeOK
    PROVE  Stored \subseteq Tid /\ IsFiniteSet(Stored) /\ Cardinality(Stored) \in Nat
<1>1. Stored \subseteq Tid
  <2> SUFFICES ASSUME NEW b \in Buckets, NEW i \in 1 .. Len(bucket[b])
               PROVE  bucket[b][i].key \in Tid
    BY DEF Stored, Keys
  <2>1. bucket[b] \in Seq(Ctx)
    BY DEF TypeOK
  <2>2. bucket[b][i] \in Ctx
    BY <2>1
  <2> QED
    BY <2>2 DEF Ctx
<1>2. IsFiniteSet(Tid)
  BY FS_Interval, SizeAssumption DEF Tid
<1> QED
  BY <1>1, <1>2, FS_Subset, FS_CardinalityType

\* The ids of the table were given out before.
LEMMA KeysAreOld ==
    ASSUME TypeOK, NewestFirst, NEW b \in Buckets, NEW t \in Keys(bucket[b])
    PROVE  t \in Nat /\ t < reqId /\ t < reqId + 1
<1>1. t \in Stored
  BY DEF Stored
<1>2. t \in Nat /\ reqId \in Nat
  BY <1>1, StoredFinite DEF Tid, TypeOK
<1>3. t < reqId
  BY DEF NewestFirst
<1> QED
  BY <1>2, <1>3

\* One id stands in one place of the table.
LEMMA OnePlace ==
    ASSUME TypeOK, InItsBucket, NewestFirst,
           NEW b \in Buckets, NEW i \in 1 .. Len(bucket[b]),
           NEW c \in Buckets, NEW j \in 1 .. Len(bucket[c]),
           bucket[b][i].key = bucket[c][j].key
    PROVE  b = c /\ i = j
<1>1. bucket[b][i].key \in Keys(bucket[b]) /\ bucket[c][j].key \in Keys(bucket[c])
  BY DEF Keys
<1>2. b = c
  BY <1>1 DEF InItsBucket
<1>3. bucket[b] \in Seq(Ctx) /\ Len(bucket[b]) \in Nat
  BY DEF TypeOK
<1>4. bucket[b][i] \in Ctx
  BY <1>3
<1>5. bucket[b][i].key \in Nat
  BY <1>4 DEF Ctx, Tid
<1>6. ~(i < j) /\ ~(j < i)
  BY <1>2, <1>3, <1>5 DEF NewestFirst
<1> QED
  BY <1>2, <1>3, <1>6

\* A step that leaves the end of every chain keeps the order, and the ids that
\* are left are those whose place is in the end of their chain.
LEMMA SuffixStep ==
    ASSUME TypeOK, InItsBucket, NewestFirst, reqId' = reqId,
           NEW k \in [Buckets -> Nat],
           bucket' \in [Buckets -> Seq(Ctx)],
           \A b \in Buckets : Suffix(bucket'[b], bucket[b], k[b])
    PROVE  /\ InItsBucket' /\ NewestFirst'
           /\ \A t \in Stored' :
                 \E b \in Buckets : \E i \in k[b] + 1 .. Len(bucket[b]) : bucket[b][i].key = t
<1>1. ASSUME NEW b \in Buckets
      PROVE  /\ Len(bucket[b]) \in Nat
             /\ \A t \in Keys(bucket'[b]) :
                   \E i \in k[b] + 1 .. Len(bucket[b]) : bucket[b][i].key = t
             /\ \A t \in Keys(bucket'[b]) : t \in Keys(bucket[b])
  <2>1. Len(bucket[b]) \in Nat
    BY DEF TypeOK
  <2>2. \A t \in Keys(bucket'[b]) : \E i \in k[b] + 1 .. Len(bucket[b]) : bucket[b][i].key = t
    <3> DEFINE old == bucket[b]
               new == bucket'[b]
               d   == k[b]
    <3>1. Suffix(new, old, d) /\ Len(old) \in Nat
      BY <2>1
    <3> HIDE DEF old, new, d
    <3>2. \A t \in Keys(new) : \E i \in d + 1 .. Len(old) : old[i].key = t
      BY ONLY <3>1, SuffixKeys
    <3> QED
      BY <3>2 DEF old, new, d
  <2>3. \A i \in k[b] + 1 .. Len(bucket[b]) : i \in 1 .. Len(bucket[b])
    BY <2>1
  <2> QED
    BY <2>1, <2>2, <2>3 DEF Keys
<1>2. InItsBucket'
  BY <1>1 DEF InItsBucket, Keys
<1>3. NewestFirst'
  <2> SUFFICES ASSUME NEW b \in Buckets
               PROVE  /\ \A i, j \in 1 .. Len(bucket'[b]) :
                            i < j => bucket'[b][i].key > bucket'[b][j].key
                      /\ \A t \in Keys(bucket'[b]) : t < reqId
    BY DEF NewestFirst, Keys
  <2>1. ASSUME NEW i \in 1 .. Len(bucket'[b]), NEW j \in 1 .. Len(bucket'[b]), i < j
        PROVE  bucket'[b][i].key > bucket'[b][j].key
    <3> DEFINE new == bucket'[b]
               old == bucket[b]
               d == k[b]
    <3>1. /\ d \in 0 .. Len(old) /\ Len(old) \in Nat /\ Len(new) = Len(old) - d
          /\ \A u \in 1 .. Len(new) : new[u].key = old[u + d].key
      BY <1>1 DEF Suffix
    <3>2. new[i].key = old[i + d].key /\ new[j].key = old[j + d].key
      BY <3>1
    <3>3. \A u, v \in 1 .. Len(old) : u < v => old[u].key > old[v].key
      BY DEF NewestFirst
    <3> HIDE DEF new, old, d
    <3>4. i + d \in 1 .. Len(old) /\ j + d \in 1 .. Len(old) /\ i + d < j + d
      BY <2>1, <3>1 DEF new
    <3>5. old[i + d].key > old[j + d].key
      BY <3>3, <3>4
    <3> QED
      BY <3>2, <3>5 DEF new
  <2> QED
    BY <1>1, <2>1 DEF NewestFirst
<1>4. ASSUME NEW t \in Stored'
      PROVE  \E b \in Buckets : \E i \in k[b] + 1 .. Len(bucket[b]) : bucket[b][i].key = t
  <2>1. PICK b \in Buckets : t \in Keys(bucket'[b])
    BY DEF Stored, Keys
  <2> QED
    BY <1>1, <2>1
<1> QED
  BY <1>2, <1>3, <1>4

-----------------------------------------------------------------------------
(***************************************************************************)
(* ping_node and find_node, and the answers.                               *)
(***************************************************************************)
LEMMA IInvInit == Init => IInv
<1> SUFFICES ASSUME Init PROVE IInv
  OBVIOUS
<1>1. TypeOK
  BY SizeAssumption DEF Init, TypeOK, Tid
<1>2. \A b \in Buckets : Keys(bucket[b]) = {} /\ Len(bucket[b]) = 0
  BY DEF Init, Keys
<1>3. Stored = {}
  BY <1>2 DEF Stored
<1>4. Cardinality(Stored) = 0
  BY <1>3, FS_EmptySet
<1> QED
  BY <1>1, <1>2, <1>4, SizeAssumption DEF IInv, InItsBucket, NewestFirst, StoredBounded, Init

\* The new context goes in front of the newest one of its chain.
LEMMA SendStep ==
    ASSUME IInv, Send
    PROVE  IInv' /\ Stored' \in {Stored, Stored \cup {reqId}}
<1> USE DEF IInv
<1> DEFINE h == HashOf[reqId]
           e == [key |-> reqId, timeout_sec |-> TimeoutInterval]
<1>1. /\ h \in Buckets /\ e \in Ctx /\ reqId \in Nat /\ used \in Nat /\ MaxUsed \in Nat
      /\ reqId' = reqId + 1 /\ reqId' \in Tid
  BY SizeAssumption, HashAssumption DEF TypeOK, Tid, Ctx, Send
<1>2. \A b \in Buckets : bucket[b] \in Seq(Ctx) /\ \A t \in Keys(bucket[b]) : t < reqId
  BY DEF TypeOK, NewestFirst
<1>3. CASE used >= MaxUsed
  <2>1. bucket' = bucket /\ used' = used
    BY <1>3 DEF Send
  <2>2. TypeOK' /\ InItsBucket'
    BY <1>1, <2>1 DEF TypeOK, InItsBucket, Keys
  <2>3. \A b \in Buckets : \A t \in Keys(bucket[b]) : t < reqId + 1
    BY KeysAreOld
  <2>4. NewestFirst'
    BY <1>1, <2>1, <2>3 DEF NewestFirst, Keys
  <2>5. Stored' = Stored
    BY <2>1 DEF Stored, Keys
  <2> QED
    BY <2>1, <2>2, <2>4, <2>5 DEF StoredBounded
<1>4. CASE used < MaxUsed
  <2>1. reqId \notin Keys(bucket[h])
    <3>1. ~(reqId < reqId)
      BY <1>1
    <3> QED
      BY <1>1, <3>1, KeysAreOld
  <2>2. /\ bucket' = [bucket EXCEPT ![h] = << e >> \o @]
        /\ used' = used + 1
    BY <1>1, <1>4, <2>1 DEF Send, Put
  <2> HIDE DEF e, h
  <2>3. /\ << e >> \o bucket[h] \in Seq(Ctx)
        /\ Len(<< e >> \o bucket[h]) = Len(bucket[h]) + 1
        /\ (<< e >> \o bucket[h])[1] = e
        /\ \A i \in 2 .. Len(bucket[h]) + 1 : (<< e >> \o bucket[h])[i] = bucket[h][i - 1]
        /\ Len(bucket[h]) \in Nat
    BY <1>1, <1>2
  <2>4. /\ bucket' \in [Buckets -> Seq(Ctx)]
        /\ \A b \in Buckets : b # h => bucket'[b] = bucket[b]
        /\ bucket'[h] = << e >> \o bucket[h]
    BY <1>1, <2>2, <2>3 DEF TypeOK
  <2>5. e.key = reqId
    BY DEF e
  <2>6. Keys(bucket'[h]) = Keys(bucket[h]) \cup {reqId}
    <3>1. ASSUME NEW i \in 1 .. Len(bucket'[h])
          PROVE  bucket'[h][i].key \in Keys(bucket[h]) \cup {reqId}
      <4>1. CASE i = 1
        BY <2>3, <2>4, <2>5, <4>1
      <4>2. CASE i # 1
        <5>1. i - 1 \in 1 .. Len(bucket[h]) /\ bucket'[h][i] = bucket[h][i - 1]
          BY <2>3, <2>4, <4>2
        <5> QED
          BY <5>1 DEF Keys
      <4> QED
        BY <4>1, <4>2
    <3>2. ASSUME NEW i \in 1 .. Len(bucket[h])
          PROVE  bucket[h][i].key \in Keys(bucket'[h])
      <4>1. i + 1 \in 2 .. Len(bucket[h]) + 1 /\ i + 1 - 1 = i /\ i + 1 \in 1 .. Len(bucket'[h])
        BY <2>3, <2>4
      <4>2. bucket'[h][i + 1] = bucket[h][i]
        BY <2>3, <2>4, <4>1
      <4> QED
        BY <4>1, <4>2 DEF Keys
    <3>3. reqId \in Keys(bucket'[h])
      <4>1. 1 \in 1 .. Len(bucket'[h]) /\ bucket'[h][1].key = reqId
        BY <2>3, <2>4, <2>5
      <4> QED
        BY <4>1 DEF Keys
    <3> QED
      BY <3>1, <3>2, <3>3 DEF Keys
  <2>7. TypeOK'
    BY <1>1, <2>2, <2>4 DEF TypeOK
  <2>8. InItsBucket'
    <3> SUFFICES ASSUME NEW b \in Buckets, NEW t \in Keys(bucket'[b]) PROVE HashOf[t] = b
      BY DEF InItsBucket, Keys
    <3> QED
      BY <2>4, <2>6 DEF InItsBucket, h
  <2>9. NewestFirst'
    <3> SUFFICES ASSUME NEW b \in Buckets
                 PROVE  /\ \A i, j \in 1 .. Len(bucket'[b]) :
                              i < j => bucket'[b][i].key > bucket'[b][j].key
                        /\ \A t \in Keys(bucket'[b]) : t < reqId + 1
      BY <1>1 DEF NewestFirst, Keys
    <3>1. ASSUME NEW t \in Keys(bucket'[b]) PROVE t < reqId + 1
      <4>1. CASE t = reqId
        BY <1>1, <4>1
      <4>2. CASE t # reqId
        <5>1. t \in Keys(bucket[b])
          BY <2>4, <2>6, <4>2
        <5> QED
          BY <5>1, KeysAreOld
      <4> QED
        BY <4>1, <4>2
    <3>2. ASSUME NEW i \in 1 .. Len(bucket'[b]), NEW j \in 1 .. Len(bucket'[b]), i < j
          PROVE  bucket'[b][i].key > bucket'[b][j].key
      <4>1. CASE b # h
        BY <2>4, <3>2, <4>1 DEF NewestFirst
      <4>2. CASE b = h
        <5>1. j - 1 \in 1 .. Len(bucket[h]) /\ bucket'[h][j] = bucket[h][j - 1]
          BY <2>3, <2>4, <3>2, <4>2
        <5>2. bucket[h][j - 1].key < reqId /\ bucket[h][j - 1].key \in Nat
          <6>1. bucket[h][j - 1].key \in Keys(bucket[h])
            BY <5>1 DEF Keys
          <6> QED
            BY <1>1, <6>1, KeysAreOld
        <5>3. CASE i = 1
          BY <1>1, <2>3, <2>4, <2>5, <4>2, <5>1, <5>2, <5>3
        <5>4. CASE i # 1
          <6>1. i - 1 \in 1 .. Len(bucket[h]) /\ bucket'[h][i] = bucket[h][i - 1] /\ i - 1 < j - 1
            BY <2>3, <2>4, <3>2, <4>2, <5>4
          <6> QED
            BY <1>1, <4>2, <5>1, <6>1 DEF NewestFirst
        <5> QED
          BY <5>3, <5>4
      <4> QED
        BY <4>1, <4>2
    <3> QED
      BY <3>1, <3>2
  <2>10. Stored' = Stored \cup {reqId}
    <3>1. \A t : t \in Stored' <=> \E b \in Buckets : t \in Keys(bucket'[b])
      BY DEF Stored, Keys
    <3>2. \A t : t \in Stored <=> \E b \in Buckets : t \in Keys(bucket[b])
      BY DEF Stored
    <3> QED
      BY <1>1, <2>4, <2>6, <3>1, <3>2
  <2>11. StoredBounded'
    <3>1. IsFiniteSet(Stored) /\ Cardinality(Stored) \in Nat
      BY StoredFinite
    <3>2. Cardinality(Stored \cup {reqId}) = IF reqId \in Stored THEN Cardinality(Stored)
                                                              ELSE Cardinality(Stored) + 1
      BY <3>1, FS_AddElement
    <3> QED
      BY <1>1, <1>4, <2>2, <2>10, <3>1, <3>2 DEF StoredBounded
  <2> QED
    BY <2>7, <2>8, <2>9, <2>10, <2>11
<1> QED
  BY <1>1, <1>3, <1>4

\* A bootstrap request spends an id and nothing else.
LEMMA SendUntrackedStep ==
    ASSUME IInv, SendUntracked
    PROVE  IInv' /\ Stored' = Stored
<1> USE DEF IInv
<1>1. reqId \in Nat /\ reqId' = reqId + 1 /\ reqId' \in Tid /\ bucket' = bucket /\ used' = used
  BY SizeAssumption DEF TypeOK, Tid, SendUntracked
<1>2. TypeOK' /\ InItsBucket' /\ Stored' = Stored
  BY <1>1 DEF TypeOK, InItsBucket, Stored, Keys
<1>3. ASSUME NEW b \in Buckets, NEW t \in Keys(bucket[b]) PROVE t < reqId + 1
  BY KeysAreOld
<1>4. NewestFirst'
  BY <1>1, <1>3 DEF NewestFirst, Keys
<1> QED
  BY <1>1, <1>2, <1>4 DEF StoredBounded

\* An answer takes ids out of one chain, its own among them if it is there, and
\* used falls exactly then.
LEMMA RespondStep ==
    ASSUME IInv, NEW t \in Tid, Respond(t)
    PROVE  IInv' /\ Stored' \subseteq Stored
<1> USE DEF IInv
<1> DEFINE h == HashOf[t]
<1>1. /\ h \in Buckets /\ reqId' = reqId
      /\ \A b \in Buckets : bucket[b] \in Seq(Ctx) /\ Len(bucket[b]) \in Nat
  BY HashAssumption DEF Respond, TypeOK, Tid
<1>2. PICK d \in 0 .. Len(bucket[h]) :
         /\ Suffix(Deleted(bucket[h], t), bucket[h], d)
         /\ t \in Keys(bucket[h]) => d >= 1 /\ bucket[h][d].key = t
  BY <1>1, DeletedIsSuffix
<1>3. /\ bucket' = [bucket EXCEPT ![h] = Deleted(@, t)]
      /\ used' = IF t \in Keys(bucket[h]) THEN used - 1 ELSE used
  BY DEF Respond
<1> HIDE DEF h
<1> DEFINE k == [b \in Buckets |-> IF b = h THEN d ELSE 0]
<1>4. k \in [Buckets -> Nat] /\ k[h] = d /\ \A b \in Buckets : b # h => k[b] = 0
  BY <1>1, <1>2
<1> HIDE DEF k
<1>5. ASSUME NEW b \in Buckets PROVE bucket'[b] \in Seq(Ctx) /\ Suffix(bucket'[b], bucket[b], k[b])
  <2>1. CASE b = h
    <3>1. bucket'[b] = Deleted(bucket[h], t) /\ bucket[b] = bucket[h] /\ k[b] = d
      BY <1>1, <1>3, <1>4, <2>1 DEF TypeOK
    <3> QED
      BY <1>2, <3>1 DEF Suffix
  <2>2. CASE b # h
    <3>1. bucket'[b] = bucket[b] /\ k[b] = 0 /\ bucket[b] \in Seq(Ctx)
      BY <1>1, <1>3, <1>4, <2>2 DEF TypeOK
    <3> QED
      BY <3>1 DEF Suffix
  <2> QED
    BY <2>1, <2>2
<1>6. bucket' \in [Buckets -> Seq(Ctx)]
  BY <1>3, <1>5 DEF TypeOK
<1>7. /\ InItsBucket' /\ NewestFirst'
      /\ \A u \in Stored' :
            \E b \in Buckets : \E i \in k[b] + 1 .. Len(bucket[b]) : bucket[b][i].key = u
  BY <1>1, <1>4, <1>5, <1>6, SuffixStep
<1>8. ASSUME NEW u \in Stored'
      PROVE  u \in Stored /\ (t \in Keys(bucket[h]) => u # t)
  <2>1. PICK b \in Buckets : \E i \in k[b] + 1 .. Len(bucket[b]) : bucket[b][i].key = u
    BY <1>7
  <2>2. PICK i \in k[b] + 1 .. Len(bucket[b]) : bucket[b][i].key = u
    BY <2>1
  <2>3. i \in 1 .. Len(bucket[b]) /\ k[b] \in Nat /\ i > k[b]
    BY <1>1, <1>4
  <2>4. u \in Stored
    BY <2>2, <2>3 DEF Stored, Keys
  <2>5. ASSUME t \in Keys(bucket[h]), u = t PROVE FALSE
    <3>1. d \in 1 .. Len(bucket[h]) /\ bucket[h][d].key = t
      BY <1>2, <2>5
    <3>2. b = h /\ i = d
      BY <1>1, <2>2, <2>3, <2>5, <3>1, OnePlace
    <3> QED
      BY <1>4, <2>3, <3>1, <3>2
  <2> QED
    BY <2>4, <2>5
<1>9. IsFiniteSet(Stored) /\ Cardinality(Stored) \in Nat
  BY StoredFinite
<1>10. TypeOK' /\ StoredBounded'
  <2>1. CASE t \in Keys(bucket[h])
    <3>1. t \in Stored
      BY <1>1, <2>1 DEF Stored
    <3>2. Stored' \in SUBSET (Stored \ {t})
      BY <1>8, <2>1
    <3>3. IsFiniteSet(Stored \ {t}) /\ Cardinality(Stored \ {t}) = Cardinality(Stored) - 1
      BY <1>9, <3>1, FS_RemoveElement
    <3>4. Cardinality(Stored') <= Cardinality(Stored) - 1 /\ Cardinality(Stored') \in Nat
      BY <3>2, <3>3, FS_Subset, FS_CardinalityType
    <3>5. used' = used - 1 /\ used \in Nat /\ MaxUsed \in Nat
      BY <1>3, <2>1, SizeAssumption DEF TypeOK
    <3> QED
      BY <1>1, <1>6, <1>9, <3>4, <3>5 DEF TypeOK, StoredBounded
  <2>2. CASE t \notin Keys(bucket[h])
    <3>1. Stored' \in SUBSET Stored
      BY <1>8
    <3>2. Cardinality(Stored') <= Cardinality(Stored) /\ Cardinality(Stored') \in Nat
      BY <1>9, <3>1, FS_Subset, FS_CardinalityType
    <3>3. used' = used /\ used \in Nat /\ MaxUsed \in Nat
      BY <1>3, <2>2, SizeAssumption DEF TypeOK
    <3> QED
      BY <1>1, <1>6, <1>9, <3>2, <3>3 DEF TypeOK, StoredBounded
  <2> QED
    BY <2>1, <2>2
<1> QED
  BY <1>7, <1>8, <1>10

-----------------------------------------------------------------------------
(***************************************************************************)
(* The timeout pass.                                                       *)
(***************************************************************************)
LEMMA TickedType ==
    ASSUME NEW chain \in Seq(Ctx)
    PROVE  /\ Ticked(chain) \in Seq(Ctx) /\ Len(Ticked(chain)) = Len(chain)
           /\ \A i \in 1 .. Len(chain) :
                 /\ Ticked(chain)[i].key = chain[i].key
                 /\ Ticked(chain)[i].timeout_sec = chain[i].timeout_sec - 1
<1>1. \A i \in 1 .. Len(chain) : chain[i] \in Ctx
  OBVIOUS
<1>2. \A i \in 1 .. Len(chain) : [chain[i] EXCEPT !.timeout_sec = @ - 1] \in Ctx
  BY <1>1 DEF Ctx
<1>3. Ticked(chain) \in Seq(Ctx) /\ Len(Ticked(chain)) = Len(chain)
  BY <1>2 DEF Ticked
<1> QED
  BY <1>1, <1>3 DEF Ticked, Ctx

\* LastTaken is the last place of a chain that the pass has noted, or 0.
LEMMA LastTakenIsLast ==
    ASSUME TypeOK, NEW b \in Buckets
    PROVE  /\ LastTaken(b) \in 0 .. Len(bucket[b])
           /\ \A x \in Taken : x[1] = b => x[2] <= LastTaken(b)
<1>1. Len(bucket[b]) \in Nat
  BY DEF TypeOK
<1>2. \A x \in Taken : /\ x = << x[1], x[2] >> /\ x[1] \in Buckets
                       /\ x[2] \in 1 .. Len(bucket[x[1]])
  <2>1. \A c \in Buckets : Len(bucket[c]) \in Nat
    BY DEF TypeOK
  <2> QED
    BY <2>1, SizeAssumption DEF Taken, Due
<1>3. CASE \E x \in Taken : x[1] = b
  <2> DEFINE S == {i \in 1 .. Len(bucket[b]) : << b, i >> \in Taken}
  <2>1. S # {}
    BY <1>2, <1>3
  <2>2. S \in SUBSET (0 .. Len(bucket[b]))
    BY <1>1
  <2>3. PICK i \in S : \A j \in S : j <= i
    BY <1>1, <2>1, <2>2, GreatestNat
  <2>4. /\ i \in 1 .. Len(bucket[b]) /\ << b, i >> \in Taken
        /\ \A x \in Taken : x[1] = b => x[2] <= i
    BY <1>2, <2>3
  <2>5. /\ LastTaken(b) \in 1 .. Len(bucket[b])
        /\ \A x \in Taken : x[1] = b => x[2] <= LastTaken(b)
    BY <1>3, <2>4 DEF LastTaken
  <2> QED
    BY <1>1, <2>5
<1>4. CASE ~ \E x \in Taken : x[1] = b
  BY <1>1, <1>4 DEF LastTaken
<1> QED
  BY <1>3, <1>4

\* The ids that the pass has noted; each place has its own.
TakenIds == {bucket[x[1]][x[2]].key : x \in Taken}

LEMMA TakenCounted ==
    ASSUME IInv
    PROVE  /\ IsFiniteSet(Taken) /\ TakenIds \subseteq Stored
           /\ Cardinality(TakenIds) = Cardinality(Taken) /\ Cardinality(Taken) \in Nat
<1> USE DEF IInv
<1> DEFINE f == [x \in Taken |-> bucket[x[1]][x[2]].key]
<1>1. ASSUME NEW x \in Taken
      PROVE  /\ x = << x[1], x[2] >> /\ x[1] \in Buckets
             /\ x[2] \in 1 .. Len(bucket[x[1]])
  <2>1. \A c \in Buckets : Len(bucket[c]) \in Nat
    BY DEF TypeOK
  <2> QED
    BY <2>1, SizeAssumption DEF Taken, Due
<1>2. ASSUME NEW x \in Taken PROVE f[x] \in Stored /\ f[x] \in TakenIds
  <2>1. f[x] = bucket[x[1]][x[2]].key
    OBVIOUS
  <2> HIDE DEF f
  <2>2. f[x] \in Keys(bucket[x[1]])
    BY <1>1, <2>1 DEF Keys
  <2>3. f[x] \in TakenIds
    BY <2>1 DEF TakenIds
  <2> QED
    BY <1>1, <2>2, <2>3 DEF Stored
<1>3. \A x, y \in Taken : f[x] = f[y] => x = y
  <2> SUFFICES ASSUME NEW x \in Taken, NEW y \in Taken, f[x] = f[y] PROVE x = y
    OBVIOUS
  <2>1. x[1] = y[1] /\ x[2] = y[2]
    BY <1>1, OnePlace
  <2> QED
    BY <1>1, <2>1
<1>4. f \in Injection(Taken, Stored)
  BY <1>2, <1>3 DEF Injection, IsInjective
<1>5. IsFiniteSet(Taken)
  BY <1>4, StoredFinite, FS_Injection
<1>6. f \in Surjection(Taken, TakenIds) /\ f \in Injection(Taken, TakenIds)
  BY <1>2, <1>3 DEF Injection, IsInjective, Surjection, TakenIds
<1>7. Cardinality(TakenIds) = Cardinality(Taken)
  BY <1>5, <1>6, FS_Surjection
<1> QED
  BY <1>2, <1>5, <1>7, FS_CardinalityType DEF TakenIds

\* The pass takes out what it has noted and counts exactly that; what it drops
\* besides only makes used too large.
LEMMA TimeoutStep ==
    ASSUME IInv, Timeout
    PROVE  IInv' /\ Stored' \subseteq Stored
<1> USE DEF IInv
<1>1. /\ reqId' = reqId /\ used' = used - Cardinality(Taken)
      /\ \A b \in Buckets : bucket[b] \in Seq(Ctx) /\ Len(bucket[b]) \in Nat
  BY DEF Timeout, TypeOK
<1> DEFINE k == [b \in Buckets |-> LastTaken(b)]
<1>2. k \in [Buckets -> Nat] /\ \A b \in Buckets : k[b] = LastTaken(b) /\ k[b] \in 0 .. Len(bucket[b])
  BY <1>1, LastTakenIsLast
<1> HIDE DEF k
<1>3. ASSUME NEW b \in Buckets PROVE bucket'[b] \in Seq(Ctx) /\ Suffix(bucket'[b], bucket[b], k[b])
  <2>1. bucket'[b] = SubSeq(Ticked(bucket[b]), k[b] + 1, Len(bucket[b]))
    BY <1>2 DEF Timeout
  <2> DEFINE c == Ticked(bucket[b])
  <2>2. /\ c \in Seq(Ctx) /\ Len(c) = Len(bucket[b])
        /\ \A i \in 1 .. Len(bucket[b]) : c[i].key = bucket[b][i].key
    BY <1>1, TickedType
  <2> HIDE DEF c
  <2>3. bucket'[b] = SubSeq(c, k[b] + 1, Len(c))
    BY <2>1, <2>2 DEF c
  <2>4. /\ bucket'[b] \in Seq(Ctx) /\ Len(bucket'[b]) = Len(c) - k[b]
        /\ \A i \in 1 .. Len(bucket'[b]) : bucket'[b][i] = c[i + k[b]]
    <3>1. k[b] \in 0 .. Len(c)
      BY <1>2, <2>2
    <3> DEFINE d == k[b]
               r == bucket'[b]
    <3>2. r = SubSeq(c, d + 1, Len(c)) /\ d \in 0 .. Len(c) /\ c \in Seq(Ctx)
      BY <2>2, <2>3, <3>1
    <3> HIDE DEF d, r
    <3>3. r \in Seq(Ctx) /\ Len(r) = Len(c) - d /\ \A i \in 1 .. Len(c) - d : r[i] = c[i + d]
      BY <3>2, EndOf
    <3> QED
      BY <3>3 DEF d, r
  <2>5. \A i \in 1 .. Len(bucket'[b]) : i + k[b] \in 1 .. Len(bucket[b])
    BY <1>1, <1>2, <2>2, <2>4
  <2> QED
    BY <1>1, <1>2, <2>2, <2>4, <2>5 DEF Suffix
<1>4. bucket' \in [Buckets -> Seq(Ctx)]
  BY <1>3 DEF Timeout
<1>5. /\ InItsBucket' /\ NewestFirst'
      /\ \A u \in Stored' :
            \E b \in Buckets : \E i \in k[b] + 1 .. Len(bucket[b]) : bucket[b][i].key = u
  BY <1>1, <1>2, <1>3, <1>4, SuffixStep
<1>6. ASSUME NEW u \in Stored' PROVE u \in Stored \ TakenIds
  <2>1. PICK b \in Buckets : \E i \in k[b] + 1 .. Len(bucket[b]) : bucket[b][i].key = u
    BY <1>5
  <2>2. PICK i \in k[b] + 1 .. Len(bucket[b]) : bucket[b][i].key = u
    BY <2>1
  <2>3. i \in 1 .. Len(bucket[b]) /\ k[b] \in Nat /\ i > k[b]
    BY <1>1, <1>2
  <2>4. u \in Stored
    BY <2>2, <2>3 DEF Stored, Keys
  <2>5. ASSUME NEW x \in Taken, bucket[x[1]][x[2]].key = u PROVE FALSE
    <3>1. x[1] \in Buckets /\ x[2] \in 1 .. Len(bucket[x[1]])
      BY <1>1, SizeAssumption DEF Taken, Due
    <3>2. x[1] = b /\ x[2] = i
      BY <2>2, <2>3, <2>5, <3>1, OnePlace
    <3>3. i <= k[b]
      BY <1>2, <3>2, LastTakenIsLast
    <3> QED
      BY <2>3, <3>3
  <2> QED
    BY <2>4, <2>5 DEF TakenIds
<1>7. /\ IsFiniteSet(Stored) /\ Cardinality(Stored) \in Nat
      /\ TakenIds \in SUBSET Stored /\ Cardinality(TakenIds) = Cardinality(Taken)
      /\ Cardinality(Taken) \in Nat
  BY StoredFinite, TakenCounted
<1>8. IsFiniteSet(Stored \ TakenIds) /\ Cardinality(Stored \ TakenIds) = Cardinality(Stored) - Cardinality(Taken)
  <2>1. IsFiniteSet(Stored \ TakenIds)
        /\ Cardinality(Stored \ TakenIds) = Cardinality(Stored) - Cardinality(Stored \cap TakenIds)
    BY <1>7, FS_Difference
  <2>2. Stored \cap TakenIds = TakenIds
    BY <1>7
  <2> QED
    BY <1>7, <2>1, <2>2
<1>9. Cardinality(Stored') <= Cardinality(Stored \ TakenIds) /\ Cardinality(Stored') \in Nat
  <2>1. Stored' \in SUBSET (Stored \ TakenIds)
    BY <1>6
  <2> QED
    BY <1>8, <2>1, FS_Subset, FS_CardinalityType
<1>10. used \in Nat /\ MaxUsed \in Nat /\ Cardinality(Stored) <= used /\ used <= MaxUsed
  BY SizeAssumption DEF TypeOK, StoredBounded
<1>11. TypeOK' /\ StoredBounded'
  BY <1>1, <1>4, <1>7, <1>8, <1>9, <1>10 DEF TypeOK, StoredBounded
<1> QED
  BY <1>5, <1>6, <1>11

\* A chain has no more entries than ids were given out.
LEMMA ChainShort ==
    ASSUME IInv, NEW b \in Buckets, NEW i \in 1 .. Len(bucket[b])
    PROVE  i <= MaxTid + 1
<1> USE DEF IInv
<1>1. bucket[b] \in Seq(Ctx) /\ Len(bucket[b]) \in Nat
  BY DEF TypeOK
<1> DEFINE f == [j \in 1 .. Len(bucket[b]) |-> bucket[b][j].key]
<1>2. \A j \in 1 .. Len(bucket[b]) : f[j] \in Tid
  <2> SUFFICES ASSUME NEW j \in 1 .. Len(bucket[b]) PROVE bucket[b][j].key \in Tid
    OBVIOUS
  <2>1. bucket[b][j] \in Ctx
    BY <1>1
  <2> QED
    BY <2>1 DEF Ctx
<1>3. \A j, l \in 1 .. Len(bucket[b]) : f[j] = f[l] => j = l
  BY OnePlace
<1>4. f \in Injection(1 .. Len(bucket[b]), Tid)
  BY <1>2, <1>3 DEF Injection, IsInjective
<1>5. IsFiniteSet(Tid) /\ Cardinality(Tid) = MaxTid + 1
  BY FS_Interval, SizeAssumption DEF Tid
<1>6. Cardinality(1 .. Len(bucket[b])) <= MaxTid + 1
  BY <1>4, <1>5, FS_Injection
<1>7. Cardinality(1 .. Len(bucket[b])) = Len(bucket[b])
  BY <1>1, FS_Interval
<1> QED
  BY <1>1, <1>6, <1>7, SizeAssumption

\* A pass that could have noted more has noted all that is due.
LEMMA NotFullTakesAll ==
    ASSUME IInv, Cardinality(Taken) < MaxTimeoutTid
    PROVE  Taken = Due
<1> USE DEF IInv
<1> DEFINE Upto(x) == {y \in Due : Before(y, x)}
<1>1. SUFFICES ASSUME Due \ Taken # {} PROVE FALSE
  BY DEF Taken
<1>2. IsFiniteSet(Due)
  <2>1. IsFiniteSet(Buckets) /\ IsFiniteSet(1 .. MaxTid + 1)
    BY FS_Interval, SizeAssumption DEF Buckets
  <2>2. IsFiniteSet(Buckets \X (1 .. MaxTid + 1))
    BY <2>1, FS_Product
  <2> QED
    BY <2>2, FS_Subset DEF Due
<1>3. ASSUME NEW x \in Due
      PROVE  IsFiniteSet(Upto(x)) /\ Cardinality(Upto(x)) \in Nat
  <2>1. Upto(x) \in SUBSET Due
    OBVIOUS
  <2> QED
    BY <1>2, <2>1, FS_Subset, FS_CardinalityType
<1> DEFINE Sizes == {n \in Nat : \E x \in Due \ Taken : Cardinality(Upto(x)) = n}
<1>4. Sizes \in SUBSET Nat /\ Sizes # {}
  <2>1. PICK x \in Due \ Taken : TRUE
    BY <1>1
  <2>2. Cardinality(Upto(x)) \in Sizes
    BY <1>3
  <2> QED
    BY <2>2
<1>5. PICK n \in Sizes : \A j \in Sizes : n <= j
  <2> HIDE DEF Sizes
  <2> QED
    BY <1>4, LeastNat
<1>6. PICK x \in Due \ Taken : Cardinality(Upto(x)) = n
  BY <1>5
<1>7. ASSUME NEW y \in Upto(x), y # x PROVE y \in Taken
  <2>1. /\ x = << x[1], x[2] >> /\ y = << y[1], y[2] >>
        /\ x[1] \in Int /\ x[2] \in Int /\ y[1] \in Int /\ y[2] \in Int
    BY DEF Due, Buckets
  <2>2. Upto(y) \in SUBSET Upto(x)
    <3> SUFFICES ASSUME NEW z \in Due, Before(z, y) PROVE Before(z, x)
      OBVIOUS
    <3>1. z[1] \in Int /\ z[2] \in Int
      BY DEF Due, Buckets
    <3> QED
      BY <2>1, <3>1 DEF Before
  <2>3. x \notin Upto(y) /\ x \in Upto(x)
    BY <1>7, <2>1 DEF Before
  <2>4. Cardinality(Upto(y)) < Cardinality(Upto(x))
    <3>1. IsFiniteSet(Upto(x)) /\ IsFiniteSet(Upto(y)) /\ Upto(y) # Upto(x)
      BY <1>3, <2>3
    <3> HIDE DEF Upto
    <3>2. Cardinality(Upto(y)) <= Cardinality(Upto(x)) /\ Cardinality(Upto(y)) # Cardinality(Upto(x))
      BY <2>2, <3>1, FS_Subset
    <3>3. Cardinality(Upto(x)) \in Nat /\ Cardinality(Upto(y)) \in Nat
      BY <3>1, FS_CardinalityType
    <3> QED
      BY <3>2, <3>3
  <2>5. ASSUME y \notin Taken PROVE FALSE
    <3>1. Cardinality(Upto(y)) \in Sizes
      BY <1>3, <2>5
    <3>2. n <= Cardinality(Upto(y)) /\ n \in Nat /\ Cardinality(Upto(y)) \in Nat
      BY <1>5, <3>1
    <3> QED
      BY <1>6, <2>4, <3>2
  <2> QED
    BY <2>5
<1>8. Upto(x) \ {x} \in SUBSET Taken
  BY <1>7
<1>9. x \in Upto(x)
  <2>1. x = << x[1], x[2] >> /\ x[1] \in Int /\ x[2] \in Int
    BY DEF Due, Buckets
  <2> QED
    BY <2>1 DEF Before
<1>10. Cardinality(Upto(x)) > MaxTimeoutTid
  <2>1. ~(Cardinality(Upto(x)) <= MaxTimeoutTid)
    BY DEF Taken
  <2> QED
    BY <1>3, <2>1, SizeAssumption
<1>11. IsFiniteSet(Upto(x)) /\ Cardinality(Upto(x)) \in Nat
  BY <1>3
<1> HIDE DEF Upto
<1>12. Cardinality(Upto(x) \ {x}) = Cardinality(Upto(x)) - 1
  BY <1>9, <1>11, FS_RemoveElement
<1>13. Cardinality(Upto(x) \ {x}) <= Cardinality(Taken) /\ Cardinality(Taken) \in Nat
  BY <1>8, TakenCounted, FS_Subset
<1> QED
  BY <1>10, <1>11, <1>12, <1>13, SizeAssumption

-----------------------------------------------------------------------------
(***************************************************************************)
(* The theorems.                                                           *)
(***************************************************************************)
LEMMA StutterStep ==
    ASSUME IInv, UNCHANGED vars
    PROVE  IInv' /\ Stored' = Stored
BY DEF vars, IInv, TypeOK, InItsBucket, NewestFirst, StoredBounded, Stored, Keys

\* The conjunction of the four invariants is inductive.
THEOREM ContextInvariance == Spec => []IInv
<1>1. IInv /\ [Next]_vars => IInv'
  BY SendStep, SendUntrackedStep, RespondStep, TimeoutStep, StutterStep DEF Next
<1> QED
  BY IInvInit, <1>1, PTL DEF Spec

\* Every variable keeps its type: used never falls below 0, although answers and
\* passes lower it and map_del drops contexts behind its back.
THEOREM ContextTypeCorrect == Spec => []TypeOK
<1>1. IInv => TypeOK
  BY DEF IInv
<1> QED
  BY ContextInvariance, <1>1, PTL

\* A context stands in the bucket that its id hashes to.
THEOREM ContextsInTheirBucket == Spec => []InItsBucket
<1>1. IInv => InItsBucket
  BY DEF IInv
<1> QED
  BY ContextInvariance, <1>1, PTL

\* The ids of a chain fall from its head on and were given to a request: map_put
\* never meets an id that is there already.
THEOREM ContextsNewestFirst == Spec => []NewestFirst
<1>1. IInv => NewestFirst
  BY DEF IInv
<1> QED
  BY ContextInvariance, <1>1, PTL

\* The table holds no more contexts than it counts, and so never more than the
\* limit that __put_msg_ctx_map tests.
THEOREM ContextsBounded == Spec => []StoredBounded
<1>1. IInv => StoredBounded
  BY DEF IInv
<1> QED
  BY ContextInvariance, <1>1, PTL

\* A timeout pass that had room to note one more id leaves no due context.
THEOREM DueContextsLeave == Spec => DueSurvivesOnlyFullPass
<1> DEFINE Survives ==
             Timeout /\ Cardinality(Taken) < MaxTimeoutTid =>
               \A b \in Buckets : \A i \in 1 .. Len(bucket'[b]) : bucket'[b][i].timeout_sec > 0
<1>1. IInv /\ [Next]_vars => [Survives]_vars
  <2> SUFFICES ASSUME IInv, Timeout, Cardinality(Taken) < MaxTimeoutTid,
                      NEW b \in Buckets, NEW i \in 1 .. Len(bucket'[b])
               PROVE  bucket'[b][i].timeout_sec > 0
    OBVIOUS
  <2> DEFINE k == LastTaken(b)
             c == Ticked(bucket[b])
             n == Len(bucket[b])
  <2>1. bucket[b] \in Seq(Ctx) /\ n \in Nat /\ k \in 0 .. n
    BY LastTakenIsLast DEF IInv, TypeOK
  <2>2. c \in Seq(Ctx) /\ Len(c) = n /\ bucket'[b] = SubSeq(c, k + 1, n)
    BY <2>1, TickedType DEF Timeout
  <2>3. i + k \in 1 .. n /\ i + k > k /\ bucket'[b][i] = c[i + k]
    <3> HIDE DEF c, k, n
    <3> QED
      BY <2>1, <2>2
  <2>4. bucket[b][i + k].timeout_sec \in Int /\ bucket[b][i + k].key \in Keys(bucket[b])
    <3>1. bucket[b][i + k] \in Ctx
      BY <2>1, <2>3
    <3> QED
      BY <2>3, <3>1 DEF Ctx, Keys
  <2>5. c[i + k].timeout_sec = bucket[b][i + k].timeout_sec - 1
    BY <2>1, <2>3, TickedType
  <2>6. ASSUME bucket[b][i + k].timeout_sec - 1 <= 0 PROVE FALSE
    <3>1. << b, i + k >> \notin Taken
      <4> HIDE DEF k
      <4>1. \A x \in Taken : x[1] = b => x[2] <= k
        BY LastTakenIsLast DEF k, IInv
      <4>2. ASSUME << b, i + k >> \in Taken PROVE FALSE
        <5>1. i + k <= k
          BY <4>1, <4>2
        <5> QED
          BY <2>1, <2>3, <5>1
      <4> QED
        BY <4>2
    <3>2. i + k <= MaxTid + 1
      BY <2>1, <2>3, ChainShort
    <3>3. << b, i + k >> \in Due
      BY <2>3, <2>6, <3>2 DEF Due
    <3> QED
      BY <3>1, <3>3, NotFullTakesAll
  <2> QED
    BY <2>3, <2>4, <2>5, <2>6
<1> QED
  BY ContextInvariance, <1>1, PTL DEF Spec, DueSurvivesOnlyFullPass

\* The context table of the handlers implements Outstanding: an id is given out
\* once, a context opens only with its own request, a closed one stays closed,
\* and the limit holds, whatever the network does with the answers.
THEOREM ImplementsOutstanding == Spec => OutstandingSpec
<1>1. Init => Table!OutstandingInit
  <2> SUFFICES ASSUME Init PROVE Table!OutstandingInit
    OBVIOUS
  <2>1. \A b \in Buckets : Keys(bucket[b]) = {}
    BY DEF Init, Keys
  <2>2. Stored = {}
    BY <2>1 DEF Stored
  <2> QED
    BY <2>2 DEF Init, Table!OutstandingInit
<1>2. ASSUME IInv, [Next]_vars
      PROVE  [Table!Issue \/ Table!Close]_<< Stored, reqId >>
  <2>1. Cardinality(Stored') <= MaxUsed
    <3>1. IInv'
      BY <1>2, SendStep, SendUntrackedStep, RespondStep, TimeoutStep, StutterStep DEF Next
    <3>2. Cardinality(Stored') \in Nat
      <4>1. Stored' \in SUBSET (Stored \cup {reqId})
        BY <1>2, SendStep, SendUntrackedStep, RespondStep, TimeoutStep, StutterStep DEF Next
      <4>2. IsFiniteSet(Stored \cup {reqId})
        BY <1>2, StoredFinite, FS_AddElement DEF IInv
      <4> QED
        BY <4>1, <4>2, FS_Subset, FS_CardinalityType
    <3>3. used' \in Nat /\ Cardinality(Stored') <= used' /\ used' <= MaxUsed
      BY <3>1 DEF IInv, TypeOK, StoredBounded
    <3> QED
      BY <3>2, <3>3, SizeAssumption
  <2>2. Table!Cardinality(Stored') <= MaxUsed
    <3>1. Table!Cardinality(Stored') = Cardinality(Stored')
      BY DEF Table!Cardinality, Cardinality
    <3> QED
      BY <2>1, <3>1
  <2>3. CASE Send
    BY <1>2, <2>2, <2>3, SendStep DEF Send, Table!Issue
  <2>4. CASE SendUntracked
    BY <1>2, <2>2, <2>4, SendUntrackedStep DEF SendUntracked, Table!Issue
  <2>5. CASE Timeout
    BY <1>2, <2>5, TimeoutStep DEF Timeout, Table!Close
  <2>6. ASSUME NEW t \in Tid, Respond(t) PROVE Table!Close
    BY <1>2, <2>6, RespondStep DEF Respond, Table!Close
  <2>7. CASE UNCHANGED vars
    BY <1>2, <2>7, StutterStep DEF vars
  <2> QED
    BY <1>2, <2>3, <2>4, <2>5, <2>6, <2>7 DEF Next
<1> QED
  BY <1>1, <1>2, ContextInvariance, PTL DEF Spec, OutstandingSpec, Table!OutstandingSpec

-----------------------------------------------------------------------------
(***************************************************************************)
(* The loop of map_del.                                                    *)
(***************************************************************************)
\* The loop of map_del finds a key that is there, and leaves what Deleted says.
LEMMA MapDelLoopIs ==
    ASSUME NEW chain \in Seq(Ctx), NEW t,
           \A i, j \in 1 .. Len(chain) : chain[i].key = chain[j].key => i = j
    PROVE  LET end == MapDelLoop(chain, t)
           IN  /\ end.found <=> t \in Keys(chain)
               /\ end.found \in BOOLEAN
               /\ SubSeq(chain, end.head, Len(chain)) = Deleted(chain, t)
<1> DEFINE n == Len(chain)
<1>1. n \in Nat /\ (chain = << >> <=> n = 0)
  OBVIOUS
<1>2. PICK k \in 1 .. n + 1 :
         /\ t \in Keys(chain) => k <= n /\ chain[k].key = t
         /\ t \notin Keys(chain) => k = n + 1
         /\ \A i \in 1 .. n : i < k => chain[i].key # t
  <2>1. CASE t \in Keys(chain)
    <3>1. PICK k \in 1 .. n : chain[k].key = t
      BY <2>1 DEF Keys
    <3>2. \A i \in 1 .. n : i < k => chain[i].key # t
      BY <1>1, <3>1
    <3>3. k \in 1 .. n + 1 /\ k <= n
      BY <1>1
    <3> QED
      BY <2>1, <3>1, <3>2, <3>3
  <2>2. CASE t \notin Keys(chain)
    <3>1. \A i \in 1 .. n : chain[i].key # t
      BY <2>2 DEF Keys
    <3>2. n + 1 \in 1 .. n + 1
      BY <1>1
    <3> QED
      BY <2>2, <3>1, <3>2
  <2> QED
    BY <2>1, <2>2
<1> DEFINE Running(r) == [head |-> IF r = 0 THEN 1 ELSE r, e |-> r + 1, found |-> FALSE]
           Stopped == [head |-> k + 1, e |-> k, found |-> TRUE]
           G == [r \in 0 .. n |-> IF r < k THEN Running(r) ELSE Stopped]
           Rec(h) == [r \in 0 .. n |-> IF r = 0 THEN [head |-> 1, e |-> 1, found |-> FALSE]
                                       ELSE Round(chain, t, h[r - 1])]
<1>3. k \in Nat /\ k >= 1 /\ (t \in Keys(chain) <=> k <= n)
  BY <1>1, <1>2
<1>4. ASSUME NEW r \in 0 .. n PROVE G[r] = Rec(G)[r]
  <2>1. CASE r = 0
    BY <1>3, <2>1
  <2>2. CASE r # 0 /\ k <= r - 1
    <3>1. r - 1 \in 0 .. n /\ ~ (r - 1 < k) /\ ~ (r < k)
      BY <1>1, <1>3, <2>2
    <3>2. G[r - 1] = Stopped /\ G[r] = Stopped
      BY <3>1
    <3>3. Round(chain, t, Stopped) = Stopped
      BY DEF Round
    <3> HIDE DEF G, Stopped
    <3> QED
      BY <2>2, <3>2, <3>3
  <2>3. CASE r # 0 /\ r - 1 < k
    <3>0. Rec(G)[r] = Round(chain, t, G[r - 1])
      <4> HIDE DEF G
      <4> QED
        BY <2>3
    <3>1. r - 1 \in 0 .. n /\ (r - 1) + 1 = r /\ r \in 1 .. n
      BY <1>1, <2>3
    <3>2. G[r - 1] = Running(r - 1)
      BY <2>3, <3>1
    <3>3. Running(r - 1).found = FALSE /\ Running(r - 1).e = r
      BY <3>1
    <3>4. Round(chain, t, Running(r - 1))
             = IF chain[r].key = t THEN [head |-> r + 1, e |-> r, found |-> TRUE]
               ELSE [head |-> r, e |-> r + 1, found |-> FALSE]
      BY <3>3 DEF Round
    <3>5. CASE r < k
      <4>1. G[r] = Running(r) /\ chain[r].key # t
        BY <1>2, <3>1, <3>5
      <4>2. Running(r) = [head |-> r, e |-> r + 1, found |-> FALSE]
        BY <2>3
      <4> HIDE DEF G, Running, Rec
      <4> QED
        BY <3>0, <3>2, <3>4, <4>1, <4>2
    <3>6. CASE ~ (r < k)
      <4>1. r = k /\ k <= n
        BY <1>1, <1>3, <2>3, <3>1, <3>6
      <4>2. G[r] = Stopped /\ chain[r].key = t
        BY <1>2, <1>3, <4>1
      <4> HIDE DEF G, Running, Rec
      <4> QED
        BY <3>0, <3>2, <3>4, <4>1, <4>2
    <3> QED
      BY <3>5, <3>6
  <2> QED
    BY <1>1, <1>3, <2>1, <2>2, <2>3
<1>5. G = Rec(G)
  <2>1. G = [r \in 0 .. n |-> G[r]]
    OBVIOUS
  <2> HIDE DEF G
  <2> QED
    BY <1>4, <2>1
<1>6. ASSUME NEW h, h = Rec(h) PROVE h = G
  <2> DEFINE Bad == {r \in 0 .. n : h[r] # G[r]}
  <2>1. SUFFICES ASSUME Bad # {} PROVE FALSE
    <3>1. h = [r \in 0 .. n |-> h[r]] /\ G = [r \in 0 .. n |-> G[r]]
      BY <1>6
    <3> HIDE DEF G, Rec
    <3> QED
      BY <3>1
  <2> HIDE DEF G
  <2>2. PICK r \in Bad : \A q \in Bad : r <= q
    <3>1. Bad \in SUBSET Nat
      BY <1>1
    <3> QED
      BY <2>1, <3>1, LeastNat
  <2>3. r \in 0 .. n /\ h[r] # G[r] /\ h[r] = Rec(h)[r] /\ G[r] = Rec(G)[r]
    BY <1>5, <1>6
  <2>4. r # 0
    BY <2>3
  <2>5. r - 1 \in 0 .. n /\ ~ (r <= r - 1)
    BY <1>1, <2>3, <2>4
  <2>6. h[r - 1] = G[r - 1]
    BY <2>2, <2>5
  <2>7. Rec(h)[r] = Rec(G)[r]
    BY <2>3, <2>4, <2>6
  <2> QED
    BY <2>3, <2>7
<1>7. MapDelLoop(chain, t) = G[n]
  <2>1. MapDelLoop(chain, t) = (CHOOSE h : h = Rec(h))[n]
    BY DEF MapDelLoop
  <2> HIDE DEF G, Rec
  <2>2. (CHOOSE h : h = Rec(h)) = G
    BY <1>5, <1>6
  <2> QED
    BY <2>1, <2>2
<1>8. G[n] = IF n < k THEN Running(n) ELSE Stopped
  BY <1>1
<1>9. CASE t \in Keys(chain)
  <2>1. G[n].found = TRUE /\ G[n].head = k + 1
    BY <1>1, <1>3, <1>8, <1>9
  <2> DEFINE j == CHOOSE i \in 1 .. n : chain[i].key = t
  <2>2. chain # << >> /\ k \in 1 .. n /\ chain[k].key = t
    BY <1>1, <1>2, <1>3, <1>9
  <2>4. j \in 1 .. n /\ chain[j].key = t
    BY <2>2
  <2>5. Deleted(chain, t) = SubSeq(chain, j + 1, n)
    BY <1>9, <2>2 DEF Deleted, Behind
  <2> HIDE DEF j
  <2>3. Deleted(chain, t) = SubSeq(chain, k + 1, n)
    BY <2>2, <2>4, <2>5
  <2> QED
    BY <1>7, <1>9, <2>1, <2>3
<1>10. CASE t \notin Keys(chain)
  <2>1. G[n].found = FALSE /\ G[n].head = IF n = 0 THEN 1 ELSE n
    BY <1>1, <1>3, <1>8, <1>10
  <2>2. Deleted(chain, t) = SubSeq(chain, IF n = 0 THEN 1 ELSE n, n)
    <3>1. CASE chain = << >>
      BY <3>1 DEF Deleted
    <3>2. CASE chain # << >>
      BY <1>1, <1>10, <3>2 DEF Deleted, Behind
    <3> QED
      BY <3>1, <3>2
  <2> QED
    BY <1>7, <1>10, <2>1, <2>2
<1> QED
  BY <1>9, <1>10

-----------------------------------------------------------------------------
(***************************************************************************)
(* The loop of map_for_each: what stands in tid_arr.                       *)
(***************************************************************************)
\* The due places up to x in the order of map_for_each, how many there are, and
\* the k-th of all.
Upto(x) == {y \in Due : Before(y, x)}

Count(b, i) == Cardinality(Upto(<< b, i >>))

At(k) == CHOOSE x \in Due : Cardinality(Upto(x)) = k

IdAt(x) == bucket[x[1]][x[2]].key

\* tid_arr after c due places.
Noted(c) == [k \in 1 .. IF c < MaxTimeoutTid THEN c ELSE MaxTimeoutTid |-> IdAt(At(k))]

\* Due places are places of the table, finitely many.
LEMMA DuePlaces ==
    ASSUME IInv
    PROVE  /\ IsFiniteSet(Due) /\ Cardinality(Due) \in Nat
           /\ \A x \in Due : /\ x = << x[1], x[2] >>
                             /\ x[1] \in Buckets /\ x[1] \in Int /\ x[2] \in Int
                             /\ x[2] \in 1 .. Len(bucket[x[1]])
           /\ \A b \in Buckets : \A i \in 1 .. Len(bucket[b]) :
                 << b, i >> \in Due <=> bucket[b][i].timeout_sec - 1 <= 0
<1>1. IsFiniteSet(Due) /\ Cardinality(Due) \in Nat
  <2>1. IsFiniteSet(Buckets) /\ IsFiniteSet(1 .. MaxTid + 1)
    BY FS_Interval, SizeAssumption DEF Buckets
  <2>2. IsFiniteSet(Buckets \X (1 .. MaxTid + 1))
    BY <2>1, FS_Product
  <2> QED
    BY <2>2, FS_Subset, FS_CardinalityType DEF Due
<1>2. \A b \in Buckets : Len(bucket[b]) \in Nat
  BY DEF IInv, TypeOK
<1>3. ASSUME NEW x \in Due
      PROVE  /\ x = << x[1], x[2] >>
             /\ x[1] \in Buckets /\ x[1] \in Int /\ x[2] \in Int
             /\ x[2] \in 1 .. Len(bucket[x[1]])
  <2>1. /\ x = << x[1], x[2] >> /\ x[1] \in Buckets /\ x[2] \in 1 .. MaxTid + 1
        /\ x[2] <= Len(bucket[x[1]])
    BY DEF Due
  <2> QED
    BY <1>2, <2>1, SizeAssumption DEF Buckets
<1>4. ASSUME NEW b \in Buckets, NEW i \in 1 .. Len(bucket[b])
      PROVE  << b, i >> \in Due <=> bucket[b][i].timeout_sec - 1 <= 0
  <2>1. i \in 1 .. MaxTid + 1 /\ i <= Len(bucket[b])
    BY <1>2, ChainShort, SizeAssumption
  <2> QED
    BY <2>1 DEF Due
<1> QED
  BY <1>1, <1>3, <1>4

\* Due places are counted up one by one along the chains.
LEMMA CountNext ==
    ASSUME IInv
    PROVE  /\ \A x : IsFiniteSet(Upto(x)) /\ Cardinality(Upto(x)) \in 0 .. Cardinality(Due)
           /\ Count(0, 0) = 0 /\ Count(NumBuckets, 0) = Cardinality(Due)
           /\ \A b \in Buckets : Count(b + 1, 0) = Count(b, Len(bucket[b]))
           /\ \A b \in Buckets : \A i \in 1 .. Len(bucket[b]) :
                 Count(b, i) = IF << b, i >> \in Due THEN Count(b, i - 1) + 1
                               ELSE Count(b, i - 1)
<1>1. /\ IsFiniteSet(Due) /\ Cardinality(Due) \in Nat
      /\ \A x \in Due : /\ x = << x[1], x[2] >>
                        /\ x[1] \in Buckets /\ x[1] \in Int /\ x[2] \in Int
                        /\ x[2] \in 1 .. Len(bucket[x[1]])
  BY DuePlaces
<1>2. ASSUME NEW x PROVE IsFiniteSet(Upto(x)) /\ Cardinality(Upto(x)) \in 0 .. Cardinality(Due)
  <2>1. Upto(x) \in SUBSET Due
    BY DEF Upto
  <2>2. IsFiniteSet(Upto(x)) /\ Cardinality(Upto(x)) <= Cardinality(Due) /\ Cardinality(Upto(x)) \in Nat
    BY <1>1, <2>1, FS_Subset, FS_CardinalityType
  <2> QED
    BY <1>1, <2>2
<1>3. \A b \in Buckets : b \in Nat /\ b < NumBuckets /\ Len(bucket[b]) \in Nat
  BY SizeAssumption DEF IInv, TypeOK, Buckets
<1>4. ASSUME NEW b, NEW i, NEW y \in Due
      PROVE  Before(y, << b, i >>) <=> y[1] < b \/ (y[1] = b /\ y[2] <= i)
  BY DEF Before
<1>5. Upto(<< 0, 0 >>) = {}
  <2>1. \A y \in Due : ~ (y[1] < 0) /\ ~ (y[2] <= 0)
    BY <1>1, <1>3
  <2> QED
    BY <1>4, <2>1 DEF Upto
<1>6. Upto(<< NumBuckets, 0 >>) = Due
  <2>1. \A y \in Due : y[1] < NumBuckets
    BY <1>1, <1>3
  <2> QED
    BY <1>4, <2>1 DEF Upto
<1>7. ASSUME NEW b \in Buckets PROVE Upto(<< b + 1, 0 >>) = Upto(<< b, Len(bucket[b]) >>)
  <2>1. ASSUME NEW y \in Due
        PROVE  y[1] < b + 1 \/ (y[1] = b + 1 /\ y[2] <= 0)
                  <=> y[1] < b \/ (y[1] = b /\ y[2] <= Len(bucket[b]))
    <3>1. /\ y[1] \in Int /\ y[2] \in Int /\ b \in Nat /\ y[2] >= 1
          /\ y[1] = b => y[2] <= Len(bucket[b])
      BY <1>1, <1>3
    <3>2. y[1] < b + 1 <=> y[1] < b \/ y[1] = b
      BY <3>1
    <3> QED
      BY <3>1, <3>2
  <2> QED
    BY <1>4, <2>1 DEF Upto
<1>8. ASSUME NEW b \in Buckets, NEW i \in 1 .. Len(bucket[b])
      PROVE  Count(b, i) = IF << b, i >> \in Due THEN Count(b, i - 1) + 1 ELSE Count(b, i - 1)
  <2>1. ASSUME NEW y \in Due
        PROVE  Before(y, << b, i >>) <=> Before(y, << b, i - 1 >>) \/ y = << b, i >>
    <3>1. /\ y[1] \in Int /\ y[2] \in Int /\ i \in Int /\ y = << y[1], y[2] >>
      BY <1>1, <1>3
    <3>2. y[2] <= i <=> y[2] <= i - 1 \/ y[2] = i
      BY <3>1
    <3>3. y = << b, i >> <=> y[1] = b /\ y[2] = i
      BY <3>1
    <3> QED
      BY <1>4, <3>2, <3>3
  <2>2. << b, i >> \notin Upto(<< b, i - 1 >>)
    <3>1. ~ (b < b) /\ ~ (i <= i - 1)
      BY <1>3
    <3> QED
      BY <3>1 DEF Upto, Before
  <2>3. CASE << b, i >> \in Due
    <3>1. Upto(<< b, i >>) = Upto(<< b, i - 1 >>) \cup {<< b, i >>}
      BY <2>1, <2>3 DEF Upto
    <3>2. Cardinality(Upto(<< b, i - 1 >>) \cup {<< b, i >>}) = Cardinality(Upto(<< b, i - 1 >>)) + 1
      BY <1>2, <2>2, FS_AddElement
    <3> QED
      BY <2>3, <3>1, <3>2 DEF Count
  <2>4. CASE << b, i >> \notin Due
    <3>1. Upto(<< b, i >>) = Upto(<< b, i - 1 >>)
      BY <2>1, <2>4 DEF Upto
    <3> QED
      BY <2>4, <3>1 DEF Count
  <2> QED
    BY <2>3, <2>4
<1>9. Count(0, 0) = 0 /\ Count(NumBuckets, 0) = Cardinality(Due)
  BY <1>5, <1>6, FS_EmptySet DEF Count
<1>10. \A b \in Buckets : Count(b + 1, 0) = Count(b, Len(bucket[b]))
  BY <1>7 DEF Count
<1> QED
  BY <1>2, <1>8, <1>9, <1>10

\* The count at a due place is its number, and no other due place has it.
LEMMA AtIs ==
    ASSUME IInv
    PROVE  /\ \A x, y \in Due : Before(x, y) \/ Before(y, x)
           /\ \A x, y \in Due : Before(x, y) /\ x # y =>
                 Cardinality(Upto(x)) < Cardinality(Upto(y))
           /\ \A k \in 1 .. Cardinality(Due) : At(k) \in Due /\ Cardinality(Upto(At(k))) = k
           /\ \A x \in Due : /\ Cardinality(Upto(x)) \in 1 .. Cardinality(Due)
                             /\ At(Cardinality(Upto(x))) = x
<1> DEFINE N(x) == Cardinality(Upto(x))
           m == Cardinality(Due)
<1>1. /\ IsFiniteSet(Due) /\ m \in Nat
      /\ \A x \in Due : x = << x[1], x[2] >> /\ x[1] \in Int /\ x[2] \in Int
  BY DuePlaces
<1>2. \A x : IsFiniteSet(Upto(x)) /\ N(x) \in 0 .. m
  BY CountNext
<1>3. \A x \in Due : x \in Upto(x)
  BY <1>1 DEF Upto, Before
<1>4. \A x, y \in Due : Before(x, y) \/ Before(y, x)
  <2> SUFFICES ASSUME NEW x \in Due, NEW y \in Due PROVE Before(x, y) \/ Before(y, x)
    OBVIOUS
  <2>1. x[1] \in Int /\ x[2] \in Int /\ y[1] \in Int /\ y[2] \in Int
    BY <1>1
  <2> QED
    BY <2>1 DEF Before
<1>5. ASSUME NEW x \in Due, NEW y \in Due, Before(x, y), x # y PROVE N(x) < N(y)
  <2>1. /\ x = << x[1], x[2] >> /\ y = << y[1], y[2] >>
        /\ x[1] \in Int /\ x[2] \in Int /\ y[1] \in Int /\ y[2] \in Int
    BY <1>1
  <2>2. Upto(x) \in SUBSET Upto(y)
    <3> SUFFICES ASSUME NEW z \in Due, Before(z, x) PROVE Before(z, y)
      BY DEF Upto
    <3>1. z[1] \in Int /\ z[2] \in Int
      BY <1>1
    <3> QED
      BY <1>5, <2>1, <3>1 DEF Before
  <2>3. y \notin Upto(x) /\ y \in Upto(y)
    BY <1>3, <1>5, <2>1 DEF Upto, Before
  <2>4. IsFiniteSet(Upto(y)) /\ Upto(x) # Upto(y) /\ N(x) \in Nat /\ N(y) \in Nat
    BY <1>1, <1>2, <2>3
  <2>5. N(x) <= N(y) /\ (N(x) = N(y) => Upto(x) = Upto(y))
    BY <2>2, <2>4, FS_Subset
  <2> QED
    BY <2>4, <2>5
<1>6. \A x, y \in Due : N(x) = N(y) => x = y
  <2> SUFFICES ASSUME NEW x \in Due, NEW y \in Due, x # y PROVE N(x) # N(y)
    OBVIOUS
  <2>1. N(x) < N(y) \/ N(y) < N(x)
    BY <1>4, <1>5
  <2>2. N(x) \in Nat /\ N(y) \in Nat
    BY <1>1, <1>2
  <2> HIDE DEF N
  <2> QED
    BY <2>1, <2>2
<1>7. ASSUME NEW x \in Due PROVE N(x) \in 1 .. m
  <2>1. N(x) # 0
    <3>1. Upto(x) # {}
      BY <1>3
    <3> QED
      BY <1>2, <3>1, FS_EmptySet
  <2> HIDE DEF N, m
  <2> QED
    BY <1>1, <1>2, <2>1
<1>8. ASSUME NEW k \in 1 .. m PROVE \E x \in Due : N(x) = k
  <2> DEFINE f == [x \in Due |-> N(x)]
  <2>1. f \in Injection(Due, 1 .. m)
    <3> HIDE DEF N, m
    <3> QED
      BY <1>6, <1>7 DEF Injection, IsInjective
  <2>2. IsFiniteSet(1 .. m) /\ Cardinality(1 .. m) = m
    <3>1. IsFiniteSet(1 .. m) /\ Cardinality(1 .. m) = IF 1 > m THEN 0 ELSE m - 1 + 1
      <4>1. 1 \in Int /\ m \in Int
        BY <1>1
      <4> HIDE DEF m
      <4> QED
        BY <4>1, FS_Interval
    <3>2. \A l \in Nat : (IF 1 > l THEN 0 ELSE l - 1 + 1) = l
      OBVIOUS
    <3> HIDE DEF m
    <3> QED
      BY <1>1, <3>1, <3>2, Zenon
  <2>3. Cardinality(Due) = Cardinality(1 .. m)
    BY <2>2
  <2>4. f \in Surjection(Due, 1 .. m)
    <3> HIDE DEF f, m
    <3> QED
      BY <2>1, <2>2, <2>3, FS_Injection
  <2> QED
    BY <2>4 DEF Surjection
<1>9. \A k \in 1 .. m : At(k) \in Due /\ N(At(k)) = k
  BY <1>8 DEF At
<1>10. \A x \in Due : At(N(x)) = x
  <2> HIDE DEF N, m
  <2> QED
    BY <1>6, <1>7, <1>9
<1> QED
  BY <1>4, <1>5, <1>7, <1>9, <1>10

\* tid_arr takes the ids of the due places in order, until it is full.
LEMMA NotedIs ==
    ASSUME IInv, NEW c \in 0 .. Cardinality(Due)
    PROVE  /\ Noted(c) \in Seq(Tid)
           /\ Len(Noted(c)) = IF c < MaxTimeoutTid THEN c ELSE MaxTimeoutTid
           /\ \A k \in 1 .. Len(Noted(c)) : Noted(c)[k] = IdAt(At(k))
           /\ c < Cardinality(Due) =>
                 Noted(c + 1) = IF Len(Noted(c)) < MaxTimeoutTid
                                THEN Append(Noted(c), IdAt(At(c + 1))) ELSE Noted(c)
<1> DEFINE m == Cardinality(Due)
           Room(d) == IF d < MaxTimeoutTid THEN d ELSE MaxTimeoutTid
<1>1. m \in Nat /\ MaxTimeoutTid \in Nat /\ MaxTimeoutTid # 0
  BY DuePlaces, SizeAssumption
<1>2. \A k \in 1 .. m : IdAt(At(k)) \in Tid
  <2> SUFFICES ASSUME NEW k \in 1 .. m PROVE IdAt(At(k)) \in Tid
    OBVIOUS
  <2>1. At(k) \in Due
    BY AtIs
  <2>2. At(k)[1] \in Buckets /\ At(k)[2] \in 1 .. Len(bucket[At(k)[1]])
    BY <2>1, DuePlaces
  <2>3. bucket[At(k)[1]] \in Seq(Ctx)
    BY <2>2 DEF IInv, TypeOK
  <2>4. bucket[At(k)[1]][At(k)[2]] \in Ctx
    BY <2>2, <2>3, ElementOfSeq
  <2> QED
    BY <2>4 DEF IdAt, Ctx
<1>3. ASSUME NEW d \in 0 .. m
      PROVE  /\ Noted(d) \in Seq(Tid) /\ Len(Noted(d)) = Room(d) /\ Room(d) \in Nat
             /\ \A k \in 1 .. Room(d) : Noted(d)[k] = IdAt(At(k))
  <2>1. Room(d) \in Nat /\ Room(d) <= m
    BY <1>1
  <2>2. \A k \in 1 .. Room(d) : k \in 1 .. m
    BY <1>1, <2>1
  <2>3. Noted(d) = [k \in 1 .. Room(d) |-> IdAt(At(k))]
    BY DEF Noted
  <2> HIDE DEF Room, m
  <2> QED
    BY <1>2, <2>1, <2>2, <2>3
<1>4. ASSUME c < m
      PROVE  Noted(c + 1) = IF Room(c) < MaxTimeoutTid
                            THEN Append(Noted(c), IdAt(At(c + 1))) ELSE Noted(c)
  <2>1. c + 1 \in 0 .. m /\ c + 1 \in 1 .. m /\ c \in Nat
    BY <1>1, <1>4
  <2>2. CASE c < MaxTimeoutTid
    <3>1. Room(c) = c /\ Room(c + 1) = c + 1 /\ Room(c) < MaxTimeoutTid
      BY <1>1, <2>1, <2>2
    <3> DEFINE q == Append(Noted(c), IdAt(At(c + 1)))
               r == Noted(c + 1)
    <3>2. /\ q \in Seq(Tid) /\ Len(q) = c + 1 /\ q[c + 1] = IdAt(At(c + 1))
          /\ \A k \in 1 .. c : q[k] = IdAt(At(k))
      BY <1>2, <1>3, <2>1, <3>1
    <3>3. r \in Seq(Tid) /\ Len(r) = c + 1 /\ \A k \in 1 .. c + 1 : r[k] = IdAt(At(k))
      BY <1>3, <2>1, <3>1
    <3>4. \A k \in 1 .. c + 1 : k \in 1 .. c \/ k = c + 1
      BY <2>1
    <3> HIDE DEF q, r
    <3>5. q = r
      <4>1. \A k \in 1 .. c + 1 : q[k] = r[k]
        BY <3>2, <3>3, <3>4
      <4> QED
        BY <3>2, <3>3, <4>1, SeqEqual
    <3> QED
      BY <3>1, <3>5 DEF q, r
  <2>3. CASE ~ (c < MaxTimeoutTid)
    <3>1. Room(c) = MaxTimeoutTid /\ Room(c + 1) = MaxTimeoutTid
      BY <1>1, <2>1, <2>3
    <3>2. Noted(c + 1) = Noted(c)
      BY <3>1 DEF Noted
    <3> QED
      BY <1>1, <3>1, <3>2
  <2> QED
    BY <2>2, <2>3
<1> QED
  BY <1>3, <1>4

\* What the handler has noted after the entries of a bucket.
LEMMA NoteBucketIs ==
    ASSUME IInv, NEW b \in Buckets
    PROVE  NoteBucket(Noted(Count(b, 0)), b) = Noted(Count(b + 1, 0))
<1> DEFINE n == Len(bucket[b])
           arr == Noted(Count(b, 0))
           DueAt(i) == bucket[b][i].timeout_sec - 1 <= 0
           G == [i \in 0 .. n |-> Noted(Count(b, i))]
           Rec(h) == [i \in 0 .. n |->
                        IF i = 0 THEN arr
                        ELSE IF DueAt(i) /\ Len(h[i - 1]) < MaxTimeoutTid
                             THEN Append(h[i - 1], bucket[b][i].key)
                             ELSE h[i - 1]]
<1>1. n \in Nat
  BY DEF IInv, TypeOK
<1>2. ASSUME NEW i \in 0 .. n PROVE G[i] = Rec(G)[i]
  <2>1. CASE i = 0
    BY <2>1
  <2>2. CASE i # 0
    <3>1. i - 1 \in 0 .. n /\ i \in 1 .. n
      BY <1>1, <2>2
    <3> DEFINE p == Count(b, i - 1)
    <3>2. p \in 0 .. Cardinality(Due) /\ Count(b, i) \in 0 .. Cardinality(Due)
      BY CountNext DEF Count
    <3>3. G[i - 1] = Noted(p) /\ G[i] = Noted(Count(b, i))
      BY <3>1
    <3>4. CASE DueAt(i)
      <4>1. << b, i >> \in Due /\ Count(b, i) = p + 1
        BY <3>1, <3>4, CountNext, DuePlaces
      <4>2. At(p + 1) = << b, i >>
        BY <4>1, AtIs DEF Count
      <4>3. p < Cardinality(Due)
        <5>1. p + 1 \in 0 .. Cardinality(Due) /\ Cardinality(Due) \in Nat
          BY <3>2, <4>1, DuePlaces
        <5> HIDE DEF p
        <5> QED
          BY <3>2, <5>1
      <4>4. IdAt(At(p + 1)) = bucket[b][i].key
        BY <4>2 DEF IdAt
      <4>5. Noted(p + 1) = IF Len(Noted(p)) < MaxTimeoutTid
                           THEN Append(Noted(p), bucket[b][i].key) ELSE Noted(p)
        <5> HIDE DEF p
        <5> QED
          BY <3>2, <4>3, <4>4, NotedIs
      <4> HIDE DEF G, p
      <4> QED
        BY <2>2, <3>3, <3>4, <4>1, <4>5
    <3>5. CASE ~ DueAt(i)
      <4>1. Count(b, i) = p
        BY <3>1, <3>5, CountNext, DuePlaces
      <4> HIDE DEF G, p, DueAt
      <4> QED
        BY <2>2, <3>3, <3>5, <4>1
    <3> QED
      BY <3>4, <3>5
  <2> QED
    BY <2>1, <2>2
<1>3. G = Rec(G)
  <2>1. G = [i \in 0 .. n |-> G[i]]
    OBVIOUS
  <2> HIDE DEF G
  <2> QED
    BY <1>2, <2>1
<1>4. ASSUME NEW h, h = Rec(h) PROVE h = G
  <2> DEFINE Bad == {i \in 0 .. n : h[i] # G[i]}
  <2>1. SUFFICES ASSUME Bad # {} PROVE FALSE
    <3>1. h = [i \in 0 .. n |-> h[i]] /\ G = [i \in 0 .. n |-> G[i]]
      BY <1>4
    <3> HIDE DEF G, Rec
    <3> QED
      BY <3>1
  <2> HIDE DEF G, DueAt
  <2>2. PICK i \in Bad : \A q \in Bad : i <= q
    <3>1. Bad \in SUBSET Nat
      BY <1>1
    <3> QED
      BY <2>1, <3>1, LeastNat
  <2>3. i \in 0 .. n /\ h[i] # G[i] /\ h[i] = Rec(h)[i] /\ G[i] = Rec(G)[i]
    BY <1>3, <1>4
  <2>4. i # 0
    BY <2>3
  <2>5. i - 1 \in 0 .. n /\ ~ (i <= i - 1)
    BY <1>1, <2>3, <2>4
  <2>6. h[i - 1] = G[i - 1]
    BY <2>2, <2>5
  <2>7. Rec(h)[i] = Rec(G)[i]
    BY <2>3, <2>4, <2>6
  <2> QED
    BY <2>3, <2>7
<1>5. NoteBucket(arr, b) = G[n]
  <2>1. NoteBucket(arr, b) = (CHOOSE h : h = Rec(h))[n]
    BY DEF NoteBucket
  <2> HIDE DEF G, Rec
  <2>2. (CHOOSE h : h = Rec(h)) = G
    BY <1>3, <1>4
  <2> QED
    BY <2>1, <2>2
<1>6. G[n] = Noted(Count(b, n)) /\ Count(b, n) = Count(b + 1, 0)
  BY <1>1, CountNext
<1> QED
  BY <1>5, <1>6

\* tid_arr after the pass over the table.
LEMMA TidArrIs ==
    ASSUME IInv
    PROVE  TidArr = Noted(Cardinality(Due))
<1> DEFINE m == NumBuckets
           G == [b \in 0 .. m |-> Noted(Count(b, 0))]
           Rec(h) == [b \in 0 .. m |-> IF b = 0 THEN <<>> ELSE NoteBucket(h[b - 1], b - 1)]
<1>1. m \in Nat
  BY SizeAssumption
<1>2. ASSUME NEW b \in 0 .. m PROVE G[b] = Rec(G)[b]
  <2>1. CASE b = 0
    <3>1. G[b] = Noted(0)
      BY <2>1, CountNext
    <3>2. Noted(0) \in Seq(Tid) /\ Len(Noted(0)) = 0
      <4>1. 0 \in 0 .. Cardinality(Due) /\ 0 < MaxTimeoutTid
        BY DuePlaces, SizeAssumption
      <4> QED
        BY <4>1, NotedIs
    <3>3. Noted(0) = << >>
      BY <3>2, EmptySeq
    <3> QED
      BY <2>1, <3>1, <3>3
  <2>2. CASE b # 0
    <3>1. b - 1 \in Buckets /\ b - 1 \in 0 .. m /\ (b - 1) + 1 = b
      BY <1>1, <2>2 DEF Buckets
    <3>2. NoteBucket(Noted(Count(b - 1, 0)), b - 1) = Noted(Count(b, 0))
      BY <3>1, NoteBucketIs
    <3>3. G[b - 1] = Noted(Count(b - 1, 0)) /\ G[b] = Noted(Count(b, 0))
      BY <3>1
    <3> HIDE DEF G
    <3> QED
      BY <2>2, <3>2, <3>3
  <2> QED
    BY <2>1, <2>2
<1>3. G = Rec(G)
  <2>1. G = [b \in 0 .. m |-> G[b]]
    OBVIOUS
  <2> HIDE DEF G
  <2> QED
    BY <1>2, <2>1
<1>4. ASSUME NEW h, h = Rec(h) PROVE h = G
  <2> DEFINE Bad == {b \in 0 .. m : h[b] # G[b]}
  <2>1. SUFFICES ASSUME Bad # {} PROVE FALSE
    <3>1. h = [b \in 0 .. m |-> h[b]] /\ G = [b \in 0 .. m |-> G[b]]
      BY <1>4
    <3> HIDE DEF G, Rec
    <3> QED
      BY <3>1
  <2> HIDE DEF G
  <2>2. PICK b \in Bad : \A q \in Bad : b <= q
    <3>1. Bad \in SUBSET Nat
      BY <1>1
    <3> QED
      BY <2>1, <3>1, LeastNat
  <2>3. b \in 0 .. m /\ h[b] # G[b] /\ h[b] = Rec(h)[b] /\ G[b] = Rec(G)[b]
    BY <1>3, <1>4
  <2>4. b # 0
    BY <2>3
  <2>5. b - 1 \in 0 .. m /\ ~ (b <= b - 1)
    BY <1>1, <2>3, <2>4
  <2>6. h[b - 1] = G[b - 1]
    BY <2>2, <2>5
  <2>7. Rec(h)[b] = Rec(G)[b]
    BY <2>3, <2>4, <2>6
  <2> QED
    BY <2>3, <2>7
<1>5. TidArr = (CHOOSE h : h = Rec(h))[m]
  BY DEF TidArr
<1>6. (CHOOSE h : h = Rec(h)) = G
  <2> HIDE DEF G, Rec
  <2> QED
    BY <1>3, <1>4
<1>7. G[m] = Noted(Cardinality(Due))
  BY <1>1, CountNext
<1> HIDE DEF G, Rec
<1> QED
  BY <1>5, <1>6, <1>7

-----------------------------------------------------------------------------
(***************************************************************************)
(* The calls of map_del, one after the other.                              *)
(***************************************************************************)
\* A chain without its first k entries, and then without what map_del takes from
\* it to find the entry p of the whole.
LEMMA DeletedFromEnd ==
    ASSUME NEW q \in Seq(Ctx), NEW k \in Nat, NEW p \in k + 1 .. Len(q),
           \A i, j \in 1 .. Len(q) : q[i].key = q[j].key => i = j
    PROVE  LET r == SubSeq(q, k + 1, Len(q))
           IN  /\ r \in Seq(Ctx)
               /\ \A i, j \in 1 .. Len(r) : r[i].key = r[j].key => i = j
               /\ q[p].key \in Keys(r)
               /\ Deleted(r, q[p].key) = SubSeq(q, p + 1, Len(q))
<1> DEFINE n == Len(q)
           r == SubSeq(q, k + 1, n)
           t == q[p].key
<1>1. n \in Nat /\ p \in Nat /\ k < p /\ p <= n
  OBVIOUS
<1>2. r \in Seq(Ctx) /\ Len(r) = n - k /\ \A i \in 1 .. n - k : r[i] = q[i + k]
  <2>1. k \in 0 .. n
    BY <1>1
  <2> QED
    BY <2>1, EndOf
<1>3. \A i \in 1 .. Len(r) : i + k \in 1 .. n
  BY <1>1, <1>2
<1>4. \A i, j \in 1 .. Len(r) : r[i].key = r[j].key => i = j
  <2> SUFFICES ASSUME NEW i \in 1 .. Len(r), NEW j \in 1 .. Len(r), r[i].key = r[j].key
               PROVE  i = j
    OBVIOUS
  <2>1. i + k = j + k
    BY <1>2, <1>3
  <2> QED
    BY <1>1, <1>2, <2>1
<1>5. p - k \in 1 .. Len(r) /\ (p - k) + k = p /\ r[p - k] = q[p]
  <2>1. p - k \in 1 .. n - k /\ (p - k) + k = p
    BY <1>1
  <2> QED
    BY <1>2, <2>1
<1>6. t \in Keys(r) /\ r # << >>
  <2> HIDE DEF r
  <2>1. r[p - k].key = t
    BY <1>5
  <2>2. t \in Keys(r)
    BY <1>5, <2>1 DEF Keys
  <2>3. Len(r) # 0
    BY <1>2, <1>5
  <2> QED
    BY <1>2, <2>2, <2>3, EmptySeq
<1> DEFINE d == CHOOSE i \in 1 .. Len(r) : r[i].key = t
<1>7. d \in 1 .. Len(r) /\ r[d].key = t
  BY <1>5
<1>8. Deleted(r, t) = SubSeq(r, d + 1, Len(r))
  BY <1>6 DEF Deleted, Behind
<1>9. d = p - k
  BY <1>4, <1>5, <1>7
<1> HIDE DEF d, r
<1>10. SubSeq(r, (p - k) + 1, Len(r)) = SubSeq(q, p + 1, n)
  <2> DEFINE x == SubSeq(r, (p - k) + 1, Len(r))
             y == SubSeq(q, p + 1, n)
  <2>1. y \in Seq(Ctx) /\ Len(y) = n - p /\ \A i \in 1 .. n - p : y[i] = q[i + p]
    BY <1>1
  <2>2. Len(r) \in Nat /\ p - k \in Nat /\ p - k <= Len(r)
    BY <1>1, <1>2
  <2>3. /\ x \in Seq(Ctx) /\ Len(x) = Len(r) - (p - k)
        /\ \A i \in 1 .. Len(r) - (p - k) : x[i] = r[i + (p - k)]
    BY <1>2, <2>2
  <2>4. Len(r) - (p - k) = n - p
    BY <1>1, <1>2
  <2>5. ASSUME NEW i \in 1 .. n - p PROVE x[i] = y[i]
    <3>1. i + (p - k) \in 1 .. n - k /\ (i + (p - k)) + k = i + p
      BY <1>1
    <3>2. r[i + (p - k)] = q[i + p]
      BY <1>2, <3>1
    <3> QED
      BY <2>1, <2>3, <2>4, <3>2
  <2> HIDE DEF x, y
  <2>6. x = y
    <3>1. /\ x \in Seq(Ctx) /\ y \in Seq(Ctx) /\ Len(x) = Len(y)
          /\ \A i \in 1 .. Len(x) : x[i] = y[i]
      BY <2>1, <2>3, <2>4, <2>5
    <3> QED
      BY <3>1, SeqEqual
  <2> QED
    BY <2>6 DEF x, y
<1> QED
  BY <1>2, <1>4, <1>6, <1>8, <1>9, <1>10 DEF r

\* No id stands twice in a chain, counted down or not.
LEMMA TickedOnce ==
    ASSUME IInv, NEW b \in Buckets
    PROVE  /\ bucket[b] \in Seq(Ctx) /\ Len(bucket[b]) \in Nat
           /\ \A i, j \in 1 .. Len(bucket[b]) : bucket[b][i].key = bucket[b][j].key => i = j
           /\ Ticked(bucket[b]) \in Seq(Ctx) /\ Len(Ticked(bucket[b])) = Len(bucket[b])
           /\ \A i \in 1 .. Len(bucket[b]) : Ticked(bucket[b])[i].key = bucket[b][i].key
           /\ \A i, j \in 1 .. Len(bucket[b]) :
                 Ticked(bucket[b])[i].key = Ticked(bucket[b])[j].key => i = j
<1>1. bucket[b] \in Seq(Ctx) /\ Len(bucket[b]) \in Nat
  BY DEF IInv, TypeOK
<1>2. \A i, j \in 1 .. Len(bucket[b]) : bucket[b][i].key = bucket[b][j].key => i = j
  BY OnePlace DEF IInv
<1>3. /\ Ticked(bucket[b]) \in Seq(Ctx) /\ Len(Ticked(bucket[b])) = Len(bucket[b])
      /\ \A i \in 1 .. Len(bucket[b]) : Ticked(bucket[b])[i].key = bucket[b][i].key
  BY <1>1, TickedType
<1> QED
  BY <1>1, <1>2, <1>3

\* tid_arr holds the ids of the places taken, in their order and each once.
LEMMA TidArrTaken ==
    ASSUME IInv
    PROVE  /\ Len(TidArr) \in 0 .. Cardinality(Due)
           /\ \A k \in 1 .. Len(TidArr) : At(k) \in Taken /\ TidArr[k] = IdAt(At(k))
           /\ Taken = {At(k) : k \in 1 .. Len(TidArr)}
           /\ Cardinality(Taken) = Len(TidArr)
<1> DEFINE m == Cardinality(Due)
           n == Len(TidArr)
<1>1. m \in Nat /\ MaxTimeoutTid \in Nat
  BY DuePlaces, SizeAssumption
<1>2. n = (IF m < MaxTimeoutTid THEN m ELSE MaxTimeoutTid) /\ \A k \in 1 .. n : TidArr[k] = IdAt(At(k))
  <2>1. m \in 0 .. m
    BY <1>1
  <2>2. TidArr = Noted(m)
    BY TidArrIs
  <2> HIDE DEF m
  <2> QED
    BY <2>1, <2>2, NotedIs DEF m
<1>3. n \in 0 .. m /\ n <= MaxTimeoutTid /\ n \in Nat
  BY <1>1, <1>2
<1>4. \A x : x \in Taken <=> x \in Due /\ Cardinality(Upto(x)) <= MaxTimeoutTid
  BY DEF Taken, Upto
<1>5. ASSUME NEW k \in 1 .. n PROVE At(k) \in Taken /\ Cardinality(Upto(At(k))) = k
  <2>1. k \in 1 .. m /\ k <= MaxTimeoutTid
    BY <1>1, <1>3
  <2>2. At(k) \in Due /\ Cardinality(Upto(At(k))) = k
    BY <2>1, AtIs
  <2> QED
    BY <1>4, <2>1, <2>2
<1>6. ASSUME NEW x \in Taken PROVE \E k \in 1 .. n : At(k) = x
  <2> DEFINE k == Cardinality(Upto(x))
  <2>1. k \in 1 .. m /\ k <= MaxTimeoutTid /\ At(k) = x
    BY <1>4, AtIs
  <2> HIDE DEF k, m, n
  <2>2. k \in 1 .. n
    BY <1>1, <1>2, <2>1
  <2> QED
    BY <2>1, <2>2
<1>7. Taken = {At(k) : k \in 1 .. n}
  BY <1>5, <1>6
<1>8. Cardinality(Taken) = n
  <2> DEFINE f == [k \in 1 .. n |-> At(k)]
  <2>1. \A k, l \in 1 .. n : f[k] = f[l] => k = l
    <3> HIDE DEF n
    <3> QED
      BY <1>5
  <2>2. f \in Injection(1 .. n, Taken)
    BY <1>5, <2>1 DEF Injection, IsInjective
  <2>3. f \in Surjection(1 .. n, Taken)
    BY <1>5, <1>6 DEF Surjection
  <2>4. IsFiniteSet(Taken)
    BY TakenCounted
  <2>5. Cardinality(1 .. n) = n
    <3>1. Cardinality(1 .. n) = IF 1 > n THEN 0 ELSE n - 1 + 1
      <4>1. 1 \in Int /\ n \in Int
        BY <1>3
      <4> HIDE DEF n
      <4> QED
        BY <4>1, FS_Interval
    <3>2. \A l \in Nat : (IF 1 > l THEN 0 ELSE l - 1 + 1) = l
      OBVIOUS
    <3> HIDE DEF n
    <3> QED
      BY <1>3, <3>1, <3>2, Zenon
  <2> HIDE DEF f, n
  <2> QED
    BY <2>2, <2>3, <2>4, <2>5, FS_Injection
<1> QED
  BY <1>2, <1>3, <1>5, <1>7, <1>8

\* The places of chain b among the first j taken, and the last of them, or 0.
Past(b, j) == {i \in 1 .. Len(bucket[b]) : \E k \in 1 .. j : At(k) = << b, i >>}

Furthest(i, S) == IF S = {} THEN i = 0 ELSE i \in S /\ \A l \in S : l <= i

Gone(b, j) == CHOOSE i \in 0 .. Len(bucket[b]) : Furthest(i, Past(b, j))

\* A place taken lies behind all those of its chain that were taken before it.
LEMMA GoneIs ==
    ASSUME IInv, NEW b \in Buckets
    PROVE  /\ \A j : Gone(b, j) \in 0 .. Len(bucket[b]) /\ Furthest(Gone(b, j), Past(b, j))
           /\ Gone(b, 0) = 0
           /\ \A j \in 1 .. Len(TidArr) :
                 /\ At(j)[1] = b =>
                       At(j)[2] \in Gone(b, j - 1) + 1 .. Len(bucket[b]) /\ Gone(b, j) = At(j)[2]
                 /\ At(j)[1] # b => Gone(b, j) = Gone(b, j - 1)
           /\ Gone(b, Len(TidArr)) = LastTaken(b)
<1> DEFINE n == Len(bucket[b])
           N == Len(TidArr)
<1>1. n \in Nat /\ N \in Nat /\ N <= Cardinality(Due) /\ Cardinality(Due) \in Nat
  BY TidArrTaken, DuePlaces DEF IInv, TypeOK
<1>2. ASSUME NEW j PROVE Gone(b, j) \in 0 .. n /\ Furthest(Gone(b, j), Past(b, j))
  <2>1. Past(b, j) \in SUBSET (0 .. n)
    BY <1>1 DEF Past
  <2>2. \E i \in 0 .. n : Furthest(i, Past(b, j))
    <3>1. CASE Past(b, j) = {}
      BY <1>1, <3>1 DEF Furthest
    <3>2. CASE Past(b, j) # {}
      <4>1. PICK i \in Past(b, j) : \A l \in Past(b, j) : l <= i
        BY <1>1, <2>1, <3>2, GreatestNat
      <4> QED
        BY <2>1, <3>2, <4>1 DEF Furthest
    <3> QED
      BY <3>1, <3>2
  <2> QED
    BY <2>2 DEF Gone
<1>3. ASSUME NEW S \in SUBSET (0 .. n), NEW i \in 0 .. n, NEW l \in 0 .. n,
             Furthest(i, S), Furthest(l, S)
      PROVE  i = l
  BY <1>1, <1>3 DEF Furthest
<1>4. \A j : Past(b, j) \in SUBSET (0 .. n)
  BY <1>1 DEF Past
<1>5. Gone(b, 0) = 0
  <2>1. Past(b, 0) = {}
    BY DEF Past
  <2> QED
    BY <1>2, <2>1 DEF Furthest
<1>6. ASSUME NEW j \in 1 .. N
      PROVE  /\ At(j)[1] = b =>
                   At(j)[2] \in Gone(b, j - 1) + 1 .. n /\ Gone(b, j) = At(j)[2]
             /\ At(j)[1] # b => Gone(b, j) = Gone(b, j - 1)
  <2>1. j \in 1 .. Cardinality(Due) /\ j \in Nat /\ j - 1 \in Nat
    BY <1>1
  <2>2. At(j) \in Due /\ Cardinality(Upto(At(j))) = j
    BY <2>1, AtIs
  <2>3. At(j) = << At(j)[1], At(j)[2] >> /\ (At(j)[1] = b => At(j)[2] \in 1 .. n)
    BY <2>2, DuePlaces
  <2>4. \A k : k \in 1 .. j <=> k \in 1 .. j - 1 \/ k = j
    BY <2>1
  <2>5. Past(b, j) = Past(b, j - 1) \cup {i \in 1 .. n : At(j) = << b, i >>}
    BY <2>4 DEF Past
  <2>6. CASE At(j)[1] # b
    <3>1. Past(b, j) = Past(b, j - 1)
      BY <2>3, <2>5, <2>6
    <3> QED
      BY <1>2, <1>3, <1>4, <2>6, <3>1
  <2>7. CASE At(j)[1] = b
    <3> DEFINE p == At(j)[2]
    <3>1. p \in 1 .. n /\ At(j) = << b, p >>
      BY <2>3, <2>7
    <3>2. Past(b, j) = Past(b, j - 1) \cup {p}
      BY <2>5, <3>1
    <3>3. ASSUME NEW i \in Past(b, j - 1) PROVE i < p
      <4>1. PICK k \in 1 .. j - 1 : At(k) = << b, i >>
        BY DEF Past
      <4>2. k \in 1 .. Cardinality(Due) /\ k < j /\ i \in 1 .. n
        BY <1>1, <2>1 DEF Past
      <4>3. At(k) \in Due /\ Cardinality(Upto(At(k))) = k
        BY <4>2, AtIs
      <4>4. At(k) # At(j)
        BY <2>1, <2>2, <4>2, <4>3
      <4>5. Before(At(k), At(j))
        <5>1. ASSUME Before(At(j), At(k)) PROVE FALSE
          <6>1. j < k
            BY <2>2, <4>3, <4>4, <5>1, AtIs
          <6> QED
            BY <2>1, <4>2, <6>1
        <5> QED
          BY <2>2, <4>3, <5>1, AtIs
      <4>6. b \in Int /\ ~ (b < b)
        BY DEF Buckets
      <4>7. i <= p
        BY <3>1, <4>1, <4>5, <4>6 DEF Before
      <4>8. i # p
        BY <3>1, <4>1, <4>4
      <4> QED
        BY <1>1, <3>1, <4>2, <4>7, <4>8
    <3> HIDE DEF p, n
    <3>4. Furthest(p, Past(b, j))
      <4>1. \A l \in Past(b, j) : l <= p
        <5>1. \A l \in Past(b, j - 1) : l <= p
          BY <1>4, <3>1, <3>3, <1>1
        <5>2. p <= p
          BY <1>1, <3>1
        <5> QED
          BY <3>2, <5>1, <5>2
      <4> QED
        BY <3>2, <4>1 DEF Furthest
    <3>5. Gone(b, j) = p
      <4>1. p \in 0 .. n
        BY <1>1, <3>1
      <4> QED
        BY <1>2, <1>3, <1>4, <3>4, <4>1
    <3>6. Gone(b, j - 1) < p
      <4>1. CASE Past(b, j - 1) = {}
        <5>1. Gone(b, j - 1) = 0
          BY <1>2, <4>1 DEF Furthest
        <5> QED
          BY <1>1, <3>1, <5>1
      <4>2. CASE Past(b, j - 1) # {}
        BY <1>2, <3>3, <4>2 DEF Furthest
      <4> QED
        BY <4>1, <4>2
    <3>7. p \in Gone(b, j - 1) + 1 .. n
      <4>1. Gone(b, j - 1) \in 0 .. n
        BY <1>2
      <4> QED
        BY <1>1, <3>1, <3>6, <4>1
    <3> QED
      BY <2>7, <3>5, <3>7 DEF p
  <2> QED
    BY <2>6, <2>7
<1>7. Gone(b, N) = LastTaken(b)
  <2>1. \A i \in 1 .. n : i \in Past(b, N) <=> << b, i >> \in Taken
    BY TidArrTaken DEF Past
  <2>2. \A x \in Taken : x = << x[1], x[2] >> /\ (x[1] = b => x[2] \in 1 .. n)
    BY DuePlaces DEF Taken
  <2>3. CASE \E x \in Taken : x[1] = b
    <3> DEFINE Top(i) == << b, i >> \in Taken /\ \A x \in Taken : x[1] = b => x[2] <= i
    <3>1. Past(b, N) # {}
      BY <2>1, <2>2, <2>3
    <3>2. Gone(b, N) \in Past(b, N) /\ \A l \in Past(b, N) : l <= Gone(b, N)
      BY <1>2, <3>1 DEF Furthest
    <3>3. Gone(b, N) \in 1 .. n /\ Top(Gone(b, N))
      <4>1. Gone(b, N) \in 1 .. n
        BY <3>2 DEF Past
      <4>2. \A x \in Taken : x[1] = b => x[2] <= Gone(b, N)
        BY <2>1, <2>2, <3>2
      <4> QED
        BY <2>1, <3>2, <4>1, <4>2
    <3>4. LastTaken(b) = CHOOSE i \in 1 .. n : Top(i)
      BY <2>3 DEF LastTaken
    <3> HIDE DEF Top
    <3>5. LastTaken(b) \in 1 .. n /\ Top(LastTaken(b))
      BY <3>3, <3>4
    <3>6. LastTaken(b) <= Gone(b, N) /\ Gone(b, N) <= LastTaken(b)
      <4>1. \A i, l \in 1 .. n : Top(i) /\ Top(l) => l <= i
        BY DEF Top
      <4> QED
        BY <3>3, <3>5, <4>1
    <3> QED
      BY <1>1, <3>3, <3>5, <3>6
  <2>4. CASE ~ \E x \in Taken : x[1] = b
    <3>1. Past(b, N) = {}
      BY <2>1, <2>4 DEF Past
    <3>2. Gone(b, N) = 0
      BY <1>2, <3>1 DEF Furthest
    <3> QED
      BY <2>4, <3>2 DEF LastTaken
  <2> QED
    BY <2>3, <2>4
<1> QED
  BY <1>2, <1>5, <1>6, <1>7

\* What is left of the table after the first j calls of map_del of a pass.
Left(j) == [bucket |-> [b \in Buckets |->
                          SubSeq(Ticked(bucket[b]), Gone(b, j) + 1, Len(bucket[b]))],
            used   |-> used - j]

\* A call finds its context and takes off its chain what stands up to it.
LEMMA LeftNext ==
    ASSUME IInv, NEW j \in 1 .. Len(TidArr)
    PROVE  MapDel(Left(j - 1), TidArr[j]) = Left(j)
<1> DEFINE t == TidArr[j]
           a == At(j)[1]
           p == At(j)[2]
           q == Ticked(bucket[a])
           k == Gone(a, j - 1)
           chain == SubSeq(q, k + 1, Len(q))
           rest == SubSeq(q, p + 1, Len(q))
           old == Left(j - 1)
           end == MapDelLoop(chain, t)
<1>1. /\ At(j) \in Due /\ t = IdAt(At(j))
  BY TidArrTaken DEF Taken
<1>2. a \in Buckets /\ p \in 1 .. Len(bucket[a]) /\ t = bucket[a][p].key
  BY <1>1, DuePlaces DEF IdAt
<1>3. /\ k \in 0 .. Len(bucket[a]) /\ p \in k + 1 .. Len(bucket[a])
      /\ Gone(a, j) = p
      /\ \A b \in Buckets : b # a => Gone(b, j) = Gone(b, j - 1)
  BY <1>2, GoneIs
<1>4. /\ q \in Seq(Ctx) /\ Len(q) = Len(bucket[a]) /\ q[p].key = t
      /\ \A i, l \in 1 .. Len(q) : q[i].key = q[l].key => i = l
  BY <1>2, TickedOnce
<1>5. HashOf[t] = a
  <2>1. t \in Keys(bucket[a])
    BY <1>2 DEF Keys
  <2> QED
    BY <1>2, <2>1 DEF IInv, InItsBucket
<1>6. k \in Nat /\ p \in k + 1 .. Len(q)
  BY <1>3, <1>4
<1> HIDE DEF q, k, p, t, a
<1>7. /\ chain \in Seq(Ctx) /\ t \in Keys(chain) /\ Deleted(chain, t) = rest
      /\ \A i, l \in 1 .. Len(chain) : chain[i].key = chain[l].key => i = l
  BY <1>4, <1>6, DeletedFromEnd
<1> HIDE DEF chain, rest
<1>8. end.found = TRUE /\ SubSeq(chain, end.head, Len(chain)) = rest
  BY <1>7, MapDelLoopIs
<1> HIDE DEF end
<1>9. old.bucket[a] = chain
  <2>1. old.bucket[a] = SubSeq(Ticked(bucket[a]), Gone(a, j - 1) + 1, Len(bucket[a]))
    BY <1>2 DEF Left
  <2> QED
    BY <1>4, <2>1 DEF chain, q, k
<1>10. MapDel(old, t) = [bucket |-> [old.bucket EXCEPT ![a] = rest], used |-> old.used - 1]
  <2>1. MapDelLoop(old.bucket[HashOf[t]], t) = end
    BY <1>5, <1>9 DEF end
  <2>2. MapDel(old, t) = [bucket |-> [old.bucket EXCEPT ![a] = SubSeq(old.bucket[a], end.head, Len(old.bucket[a]))],
                          used |-> IF end.found THEN old.used - 1 ELSE old.used]
    <3> HIDE DEF old
    <3> QED
      BY <1>5, <2>1 DEF MapDel
  <2> HIDE DEF old
  <2> QED
    BY <1>8, <1>9, <2>2
<1>11. old.used - 1 = used - j
  <2>1. used \in Int /\ j \in Int
    BY DEF IInv, TypeOK
  <2> QED
    BY <2>1 DEF Left
<1>12. [old.bucket EXCEPT ![a] = rest] = Left(j).bucket
  <2>1. old.bucket = [b \in Buckets |-> SubSeq(Ticked(bucket[b]), Gone(b, j - 1) + 1, Len(bucket[b]))]
    BY DEF Left
  <2>2. Left(j).bucket = [b \in Buckets |-> SubSeq(Ticked(bucket[b]), Gone(b, j) + 1, Len(bucket[b]))]
    BY DEF Left
  <2>3. Left(j).bucket[a] = rest
    BY <1>2, <1>3, <1>4, <2>2 DEF rest, q
  <2>4. \A b \in Buckets : b # a => Left(j).bucket[b] = old.bucket[b]
    BY <1>3, <2>1, <2>2
  <2>5. [old.bucket EXCEPT ![a] = rest] = [b \in Buckets |-> IF b = a THEN rest ELSE old.bucket[b]]
    <3> DEFINE f == old.bucket
    <3>1. f = [b \in Buckets |-> f[b]]
      BY <2>1
    <3> HIDE DEF f
    <3>2. [f EXCEPT ![a] = rest] = [b \in Buckets |-> IF b = a THEN rest ELSE f[b]]
      BY <3>1
    <3> QED
      BY <3>2 DEF f
  <2>6. Left(j).bucket = [b \in Buckets |-> Left(j).bucket[b]]
    BY <2>2
  <2> HIDE DEF old
  <2> QED
    BY <2>3, <2>4, <2>5, <2>6
<1>13. Left(j) = [bucket |-> Left(j).bucket, used |-> used - j]
  BY DEF Left
<1> QED
  BY <1>10, <1>11, <1>12, <1>13 DEF t

\* The calls of map_del of a pass leave what Timeout says, and count exactly.
LEMMA PassIs ==
    ASSUME IInv
    PROVE  TimeoutLoops
             = [bucket |-> [b \in Buckets |->
                              SubSeq(Ticked(bucket[b]), LastTaken(b) + 1, Len(bucket[b]))],
                used   |-> used - Cardinality(Taken)]
<1> DEFINE n == Len(TidArr)
           m == [CtxMap EXCEPT !.bucket = [b \in Buckets |-> Ticked(bucket[b])]]
           G == [j \in 0 .. n |-> Left(j)]
           Rec(h) == [j \in 0 .. n |-> IF j = 0 THEN m ELSE MapDel(h[j - 1], TidArr[j])]
<1>1. n \in Nat /\ n = Cardinality(Taken)
  BY TidArrTaken, DuePlaces
<1>2. Left(0) = m
  <2>1. m = [bucket |-> [b \in Buckets |-> Ticked(bucket[b])], used |-> used]
    BY DEF CtxMap
  <2>2. used \in Int /\ used - 0 = used
    BY DEF IInv, TypeOK
  <2>3. ASSUME NEW b \in Buckets
        PROVE  SubSeq(Ticked(bucket[b]), Gone(b, 0) + 1, Len(bucket[b])) = Ticked(bucket[b])
    <3> DEFINE q == Ticked(bucket[b])
               r == SubSeq(q, 1, Len(q))
    <3>1. q \in Seq(Ctx) /\ Len(q) = Len(bucket[b]) /\ Len(q) \in Nat
      BY TickedOnce
    <3>2. Gone(b, 0) + 1 = 1
      BY GoneIs
    <3> HIDE DEF q
    <3>3. r \in Seq(Ctx) /\ Len(r) = Len(q) /\ \A i \in 1 .. Len(r) : r[i] = q[i]
      BY <3>1
    <3> HIDE DEF r
    <3>4. r = q
      BY <3>1, <3>3, SeqEqual
    <3> QED
      BY <3>1, <3>2, <3>4 DEF q, r
  <2>4. [b \in Buckets |-> SubSeq(Ticked(bucket[b]), Gone(b, 0) + 1, Len(bucket[b]))]
           = [b \in Buckets |-> Ticked(bucket[b])]
    BY <2>3
  <2>5. Left(0) = [bucket |-> [b \in Buckets |->
                                 SubSeq(Ticked(bucket[b]), Gone(b, 0) + 1, Len(bucket[b]))],
                   used |-> used - 0]
    BY DEF Left
  <2> HIDE DEF m
  <2> QED
    BY <2>1, <2>2, <2>4, <2>5, Zenon
<1> HIDE DEF m
<1>3. ASSUME NEW j \in 0 .. n PROVE G[j] = Rec(G)[j]
  <2>1. CASE j = 0
    BY <1>2, <2>1
  <2>2. CASE j # 0
    <3>1. j \in 1 .. n /\ j - 1 \in 0 .. n
      BY <1>1, <2>2
    <3>2. MapDel(Left(j - 1), TidArr[j]) = Left(j)
      BY <3>1, LeftNext
    <3>3. G[j - 1] = Left(j - 1) /\ G[j] = Left(j)
      BY <3>1
    <3> HIDE DEF G
    <3> QED
      BY <2>2, <3>2, <3>3
  <2> QED
    BY <2>1, <2>2
<1>4. G = Rec(G)
  <2>1. G = [j \in 0 .. n |-> G[j]]
    OBVIOUS
  <2> HIDE DEF G
  <2> QED
    BY <1>3, <2>1
<1>5. ASSUME NEW h, h = Rec(h) PROVE h = G
  <2> DEFINE Bad == {j \in 0 .. n : h[j] # G[j]}
  <2>1. SUFFICES ASSUME Bad # {} PROVE FALSE
    <3>1. h = [j \in 0 .. n |-> h[j]] /\ G = [j \in 0 .. n |-> G[j]]
      BY <1>5
    <3> HIDE DEF G, Rec
    <3> QED
      BY <3>1
  <2> HIDE DEF G
  <2>2. PICK j \in Bad : \A l \in Bad : j <= l
    <3>1. Bad \in SUBSET Nat
      BY <1>1
    <3> QED
      BY <2>1, <3>1, LeastNat
  <2>3. j \in 0 .. n /\ h[j] # G[j] /\ h[j] = Rec(h)[j] /\ G[j] = Rec(G)[j]
    BY <1>4, <1>5
  <2>4. j # 0
    BY <2>3
  <2>5. j - 1 \in 0 .. n /\ ~ (j <= j - 1)
    BY <1>1, <2>3, <2>4
  <2>6. h[j - 1] = G[j - 1]
    BY <2>2, <2>5
  <2>7. Rec(h)[j] = Rec(G)[j]
    BY <2>3, <2>4, <2>6
  <2> QED
    BY <2>3, <2>7
<1>6. TimeoutLoops = (CHOOSE h : h = Rec(h))[n]
  BY DEF TimeoutLoops, DelEach, m
<1>7. (CHOOSE h : h = Rec(h)) = G
  <2> HIDE DEF G, Rec
  <2> QED
    BY <1>4, <1>5
<1>8. G[n] = Left(n)
  BY <1>1
<1>9. TimeoutLoops = Left(n)
  <2> HIDE DEF G, Rec
  <2> QED
    BY <1>6, <1>7, <1>8
<1>10. \A b \in Buckets : Gone(b, n) = LastTaken(b)
  BY GoneIs
<1> QED
  BY <1>1, <1>9, <1>10 DEF Left

\* One map_del leaves what Deleted says, and counts what it finds.
LEMMA MapDelIs ==
    ASSUME IInv, NEW t \in Tid
    PROVE  MapDel(CtxMap, t)
             = [bucket |-> [bucket EXCEPT ![HashOf[t]] = Deleted(@, t)],
                used   |-> IF t \in Keys(bucket[HashOf[t]]) THEN used - 1 ELSE used]
<1> DEFINE q == bucket[HashOf[t]]
           end == MapDelLoop(q, t)
<1>1. HashOf[t] \in Buckets
  BY HashAssumption DEF Tid
<1>2. q \in Seq(Ctx) /\ \A i, j \in 1 .. Len(q) : q[i].key = q[j].key => i = j
  BY <1>1, TickedOnce
<1>3. /\ (end.found <=> t \in Keys(q)) /\ end.found \in BOOLEAN
      /\ SubSeq(q, end.head, Len(q)) = Deleted(q, t)
  BY <1>2, MapDelLoopIs
<1>4. MapDel(CtxMap, t) = [bucket |-> [bucket EXCEPT ![HashOf[t]] = SubSeq(q, end.head, Len(q))],
                           used |-> IF end.found THEN used - 1 ELSE used]
  BY DEF MapDel, CtxMap
<1>5. (IF end.found THEN used - 1 ELSE used) = IF t \in Keys(q) THEN used - 1 ELSE used
  BY <1>3
<1> HIDE DEF end
<1> QED
  BY <1>3, <1>4, <1>5

\* However long the chains and however many ids a pass can note, the loops of
\* map_del and msg_timeout_handler leave the table that Respond and Timeout say,
\* and every map_del of a pass finds its context.
THEOREM LoopsDoAsModelled == Spec => LoopsAgree
<1>1. IInv => (\A t \in Tid : Respond(t) => CtxMap' = MapDel(CtxMap, t))
  <2> SUFFICES ASSUME IInv, NEW t \in Tid, Respond(t) PROVE CtxMap' = MapDel(CtxMap, t)
    OBVIOUS
  <2>1. /\ bucket' = [bucket EXCEPT ![HashOf[t]] = Deleted(@, t)]
        /\ used' = IF t \in Keys(bucket[HashOf[t]]) THEN used - 1 ELSE used
    BY DEF Respond
  <2>2. CtxMap' = [bucket |-> bucket', used |-> used']
    BY DEF CtxMap
  <2> QED
    BY <2>1, <2>2, MapDelIs
<1>2. IInv => (Timeout => CtxMap' = TimeoutLoops)
  <2> SUFFICES ASSUME IInv, Timeout PROVE CtxMap' = TimeoutLoops
    OBVIOUS
  <2>1. CtxMap' = [bucket |-> bucket', used |-> used']
    BY DEF CtxMap
  <2> QED
    BY <2>1, PassIs DEF Timeout
<1> QED
  BY <1>1, <1>2, ContextInvariance, PTL DEF LoopsAgree

=============================================================================
