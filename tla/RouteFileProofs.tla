-------------------------- MODULE RouteFileProofs --------------------------
(***************************************************************************)
(* For any peers, any limit on handles and any number of runs: the types,  *)
(* and that a start takes up the last save that opened the file.           *)
(***************************************************************************)
EXTENDS RouteFile, FiniteSetTheorems, TLAPS

USE PeersAssumption, LimitAssumption

\* The live peers can be counted, and one more or one less changes the count
\* by at most one.
LEMMA LiveCount ==
    ASSUME NEW S \in SUBSET Peers
    PROVE  /\ Cardinality(S) \in Nat
           /\ \A p \in Peers \ S : Cardinality(S \cup {p}) = Cardinality(S) + 1
           /\ \A p \in Peers : Cardinality(S \ {p}) <= Cardinality(S)
           /\ Cardinality(S) = 0 => S = {}
<1>1. IsFiniteSet(S)
  BY FS_Subset
<1>2. Cardinality(S) \in Nat
  BY <1>1, FS_CardinalityType
<1>3. \A p \in Peers \ S : Cardinality(S \cup {p}) = Cardinality(S) + 1
  BY <1>1, FS_AddElement
<1>4. \A p \in Peers : Cardinality(S \ {p}) <= Cardinality(S)
  BY <1>1, FS_Subset
<1>5. Cardinality(S) = 0 => S = {}
  BY <1>1, FS_EmptySet
<1> QED
  BY <1>2, <1>3, <1>4, <1>5

LEMMA IInvInit == Init => IInv
<1> SUFFICES ASSUME Init PROVE IInv
  OBVIOUS
<1>1. Cardinality({}) = 0
  BY FS_EmptySet
<1>2. 0 \in 0 .. MaxHandles /\ 0 \in 0 .. MaxStarts
  OBVIOUS
<1>3. TypeOK
  BY <1>2 DEF Init, TypeOK, Nothing, NoId
<1>4. FileOK
  BY <1>1 DEF Init, FileOK, Extends, Nothing, NoId
<1> QED
  BY <1>3, <1>4 DEF IInv

\* One step per action.
LEMMA IInvNext == IInv /\ [Next]_vars => IInv'
<1> SUFFICES ASSUME IInv, [Next]_vars
             PROVE  IInv'
  OBVIOUS
<1> USE DEF IInv, NoId
<1>1. CASE SaveOpen
  <2>1. TypeOK'
    BY <1>1 DEF SaveOpen, TypeOK, Nothing, Id
  <2>2. FileOK'
    BY <1>1 DEF SaveOpen, TypeOK, FileOK, Extends, Nothing
  <2> QED
    BY <2>1, <2>2
<1>2. CASE SaveEmpty
  <2>1. TypeOK'
    BY <1>2 DEF SaveEmpty, TypeOK, Nothing, Id
  <2>2. FileOK'
    BY <1>2 DEF SaveEmpty, TypeOK, FileOK, Extends, Nothing
  <2> QED
    BY <2>1, <2>2
<1>3. CASE Flush
  <2>1. routeNum = 0 => live = {}
    BY LiveCount DEF TypeOK, FileOK
  <2>2. /\ file' \in [id : Id \cup {NoId}, num : Nat, entries : SUBSET live]
        /\ file'.id \in {NoId, id}
        /\ file'.num = 0 => file'.entries = {}
    BY <1>3, <2>1 DEF Flush, Parts, Nothing, TypeOK
  <2>3. TypeOK'
    BY <1>3, <2>2 DEF Flush, TypeOK
  <2>4. FileOK'
    BY <1>3, <2>2 DEF Flush, TypeOK, FileOK, Extends
  <2> QED
    BY <2>3, <2>4
<1>4. CASE SaveClose
  <2>1. routeNum = 0 => live = {}
    BY LiveCount DEF TypeOK, FileOK
  <2>2. last' = [id |-> id, peers |-> live, how |-> "done"]
    BY <1>4 DEF SaveClose, FileOK
  <2>3. file' = [id |-> id, num |-> routeNum, entries |-> live]
    BY <1>4 DEF SaveClose, Image
  <2>4. TypeOK'
    <3>1. handles' \in 0 .. MaxHandles
      BY <1>4 DEF SaveClose, TypeOK, FileOK
    <3>2. /\ file' \in [id : Id \cup {NoId}, num : Nat, entries : SUBSET Peers]
          /\ last' \in [id : Id \cup {NoId}, peers : SUBSET Peers,
                        how : {"none", "empty", "begun", "done"}]
      BY <2>2, <2>3 DEF TypeOK
    <3> QED
      BY <1>4, <3>1, <3>2 DEF SaveClose, TypeOK
  <2>5. FileOK'
    BY <1>4, <2>1, <2>2, <2>3 DEF SaveClose, TypeOK, FileOK, Extends
  <2> QED
    BY <2>4, <2>5
<1>5. CASE Start
  <2>1. live' \subseteq file.entries
    BY <1>5 DEF Start, Listed
  <2>2. Cardinality(live') \in Nat
    BY <2>1, LiveCount DEF TypeOK
  <2>3. TypeOK'
    BY <1>5, <2>1, <2>2 DEF Start, TypeOK, Id
  <2>4. FileOK'
    BY <1>5, <2>1, <2>2 DEF Start, TypeOK, FileOK, Extends
  <2> QED
    BY <2>3, <2>4
<1>6. CASE Kill
  <2>1. Cardinality({}) = 0
    BY FS_EmptySet
  <2>2. TypeOK'
    <3>1. 0 \in 0 .. MaxHandles /\ live' \subseteq Peers
      BY <1>6 DEF Kill
    <3> QED
      BY <1>6, <3>1 DEF Kill, TypeOK
  <2>3. FileOK'
    BY <1>6, <2>1 DEF Kill, TypeOK, FileOK, Extends, Nothing
  <2> QED
    BY <2>2, <2>3
<1>7. ASSUME NEW p \in Peers, Learn(p)
      PROVE  IInv'
  <2>1. Cardinality(live') = Cardinality(live) + 1 /\ Cardinality(live) \in Nat
    BY <1>7, LiveCount DEF Learn, TypeOK
  <2>2. TypeOK'
    BY <1>7 DEF Learn, TypeOK
  <2>3. FileOK'
    BY <1>7, <2>1 DEF Learn, TypeOK, FileOK, Extends, Nothing
  <2> QED
    BY <2>2, <2>3
<1>8. ASSUME NEW p \in live, Expire(p)
      PROVE  IInv'
  <2>1. live' = live \ {p} /\ p \in Peers
    BY <1>8 DEF Expire, TypeOK
  <2>2. /\ Cardinality(live') <= Cardinality(live)
        /\ Cardinality(live) \in Nat /\ Cardinality(live') \in Nat
    BY <2>1, LiveCount DEF TypeOK
  <2>3. TypeOK'
    BY <1>8 DEF Expire, TypeOK
  <2>4. FileOK'
    BY <1>8, <2>2 DEF Expire, TypeOK, FileOK, Extends, Nothing
  <2> QED
    BY <2>3, <2>4
<1>9. CASE UNCHANGED vars
  BY <1>9 DEF vars, TypeOK, FileOK, Extends, Nothing
<1> QED
  BY <1>1, <1>2, <1>3, <1>4, <1>5, <1>6, <1>7, <1>8, <1>9 DEF Next

LEMMA Invariance == Spec => []IInv
<1> QED
  BY IInvInit, IInvNext, PTL DEF Spec

\* Every variable of the route file's model keeps its type, and the program
\* never holds more files open than it may.
THEOREM FileTypeCorrect == Spec => []TypeOK
<1>1. IInv => TypeOK
  BY DEF IInv
<1> QED
  BY <1>1, Invariance, PTL

\* Wherever a run was killed, the next one takes up the last save that opened
\* the file, and all of what identifies the node when that save was completed.
THEOREM StartRecovers == Spec => RecoversLastSave
<1>1. ASSUME IInv, [Next]_vars
      PROVE  [Start => /\ live' \subseteq last.peers
                       /\ id' \in {last.id, starts'}
                       /\ last.how = "done" => /\ id' = last.id
                                               /\ last.peers # {} => live' # {}]_vars
  <2> SUFFICES ASSUME Start
               PROVE  /\ live' \subseteq last.peers
                      /\ id' \in {last.id, starts'}
                      /\ last.how = "done" => /\ id' = last.id
                                              /\ last.peers # {} => live' # {}
    OBVIOUS
  <2>1. live' \subseteq file.entries /\ (Listed # {} => live' # {})
    BY DEF Start, Listed
  <2>2. file.entries \subseteq last.peers /\ file.id \in {NoId, last.id}
    BY <1>1 DEF IInv, FileOK, Extends
  <2>3. id' \in {last.id, starts'}
    BY <2>2 DEF Start
  <2>4. ASSUME last.how = "done"
        PROVE  id' = last.id /\ (last.peers # {} => live' # {})
    BY <1>1, <2>1, <2>4 DEF IInv, FileOK, Start, Listed, NoId
  <2> QED
    BY <2>1, <2>2, <2>3, <2>4
<1> QED
  BY <1>1, Invariance, PTL DEF Spec, RecoversLastSave
=============================================================================
