------------------------------ MODULE RouteFile ------------------------------
(***************************************************************************)
(* dht_route_s.dat: save_route_tbl_to_file, which a timer calls every 30   *)
(* seconds, and read_route_tbl_frm_config, which reads the file back when  *)
(* the program starts.  The program may be killed at any time; it never    *)
(* saves on its way out.                                                   *)
(*                                                                         *)
(* The table is what the file is about: the set of live peers, and         *)
(* route_num, which is 0 exactly when bkt_tree is NULL.  The order of the  *)
(* entries plays no part.  A file that is absent, empty or ends inside the *)
(* id has the same effect, a new id: it is Nothing.  An entry or a number  *)
(* that is cut short counts as not written.                                *)
(***************************************************************************)
EXTENDS Integers, FiniteSets

CONSTANTS
    Peers,        \* the ids of other nodes
    Garbage,      \* what a record of uninitialized memory names
    MaxHandles,   \* files a process may hold open
    MaxRouteNum,  \* bound: insertions of one run
    MaxStarts     \* bound: runs of the program

ASSUME PeersAssumption == IsFiniteSet(Peers) /\ Garbage \notin Peers
ASSUME LimitAssumption == /\ MaxHandles \in Nat \ {0}
                          /\ MaxRouteNum \in Nat
                          /\ MaxStarts \in Nat

VARIABLES
    up,       \* the program runs
    id,       \* node->node_id
    live,     \* the peers in slots that are IN_USE
    routeNum, \* node->route_num
    saving,   \* a save has opened the file and has not closed it
    handles,  \* open file handles
    file,     \* what the disk holds
    starts,   \* starts of the program: the n-th start makes up the id n
    last      \* history: what the last save to open the file set out to write

vars == <<up, id, live, routeNum, saving, handles, file, starts, last>>

-----------------------------------------------------------------------------
NoId    == 0
Id      == 1 .. MaxStarts
Nothing == [id |-> NoId, num |-> 0, entries |-> {}]
Image   == [id |-> id, num |-> routeNum, entries |-> live]

\* What a save may have brought to the disk before it is done.
Parts ==
    {Nothing, [id |-> id, num |-> 0, entries |-> {}]}
    \cup {[id |-> id, num |-> routeNum, entries |-> S] : S \in SUBSET live}

\* g has all that f has.
Extends(f, g) == /\ f.id \in {NoId, g.id}
                 /\ f.num \in {0, g.num}
                 /\ f.entries \subseteq g.entries

-----------------------------------------------------------------------------
(***************************************************************************)
(* save_route_tbl_to_file                                                  *)
(***************************************************************************)
SaveOpenUnchecked ==    \* Mutant: does not see that fopen failed
    /\ up /\ ~saving
    /\ routeNum > 0
    /\ file' = Nothing
    /\ handles' = handles + 1
    /\ saving' = TRUE
    /\ last' = [id |-> id, peers |-> live, how |-> "begun"]
    /\ UNCHANGED <<up, id, live, routeNum, starts>>

\* fopen(.., "wb+") truncates the file.  When no handle is left it fails, and
\* the call returns with the file as it was.
SaveOpen ==
    /\ up /\ ~saving
    /\ handles < MaxHandles
    /\ routeNum > 0
    /\ file' = Nothing
    /\ handles' = handles + 1
    /\ saving' = TRUE
    /\ last' = [id |-> id, peers |-> live, how |-> "begun"]
    /\ UNCHANGED <<up, id, live, routeNum, starts>>

\* bkt_tree is NULL: the file is truncated all the same, and stays open.
SaveEmpty ==
    /\ up /\ ~saving
    /\ handles < MaxHandles
    /\ routeNum = 0
    /\ file' = Nothing
    /\ handles' = handles + 1
    /\ last' = [id |-> id, peers |-> {}, how |-> "empty"]
    /\ UNCHANGED <<up, id, live, routeNum, saving, starts>>

\* The stdio buffer is full: part of what was written reaches the disk.
Flush ==
    /\ saving
    /\ file' \in Parts
    /\ Extends(file, file')
    /\ UNCHANGED <<up, id, live, routeNum, saving, handles, starts, last>>

SaveCloseForgotten ==    \* Mutant: no fclose, on this path either
    /\ saving
    /\ saving' = FALSE
    /\ last' = [last EXCEPT !.how = "done"]
    /\ UNCHANGED <<up, id, live, routeNum, handles, file, starts>>

\* fclose
SaveClose ==
    /\ saving
    /\ file' = Image
    /\ saving' = FALSE
    /\ handles' = handles - 1
    /\ last' = [last EXCEPT !.how = "done"]
    /\ UNCHANGED <<up, id, live, routeNum, starts>>

-----------------------------------------------------------------------------
(***************************************************************************)
(* init_self_node and read_route_tbl_frm_config                            *)
(***************************************************************************)
ListedTrusting ==    \* Mutant: goes by the number in the file
    IF file.num > Cardinality(file.entries) THEN file.entries \cup {Garbage} ELSE file.entries

\* The records that are inserted.  The buffer has room for file.num of them;
\* route_num is then set to the number that fread has found.
Listed == IF file.num = 0 THEN {} ELSE file.entries

\* The id of the file is adopted before anything else is read.  The first
\* insertion always succeeds; a later one may find its bucket full.
Start ==
    /\ ~up
    /\ starts < MaxStarts
    /\ up' = TRUE
    /\ starts' = starts + 1
    /\ id' = IF file.id = NoId THEN starts + 1 ELSE file.id
    /\ live' \in {S \in SUBSET Listed : Listed # {} => S # {}}
    /\ routeNum' = Cardinality(live')
    /\ UNCHANGED <<saving, handles, file, last>>

Kill ==
    /\ up
    /\ up' = FALSE
    /\ id' = NoId
    /\ live' = {}
    /\ routeNum' = 0
    /\ saving' = FALSE
    /\ handles' = 0
    /\ UNCHANGED <<file, starts, last>>

-----------------------------------------------------------------------------
(***************************************************************************)
(* The table meanwhile: an insertion is counted, an answer revives a slot  *)
(* that has been counted, a sweep lets a peer expire (see RouteTable).     *)
(***************************************************************************)
Learn(p) ==
    /\ up /\ ~saving
    /\ p \notin live
    /\ live' = live \cup {p}
    /\ \/ routeNum < MaxRouteNum /\ routeNum' = routeNum + 1
       \/ routeNum > Cardinality(live) /\ routeNum' = routeNum
    /\ UNCHANGED <<up, id, saving, handles, file, starts, last>>

Expire(p) ==
    /\ up /\ ~saving
    /\ live' = live \ {p}
    /\ UNCHANGED <<up, id, routeNum, saving, handles, file, starts, last>>

-----------------------------------------------------------------------------
Init ==
    /\ up = FALSE
    /\ id = NoId
    /\ live = {}
    /\ routeNum = 0
    /\ saving = FALSE
    /\ handles = 0
    /\ file = Nothing
    /\ starts = 0
    /\ last = [id |-> NoId, peers |-> {}, how |-> "none"]

Next ==
    \/ SaveOpen \/ SaveEmpty \/ Flush \/ SaveClose
    \/ Start \/ Kill
    \/ \E p \in Peers : Learn(p)
    \/ \E p \in live : Expire(p)

Spec == Init /\ [][Next]_vars

\* The save timer keeps firing, and a save comes to its end.
FairSpec == Spec /\ WF_vars(SaveOpen) /\ WF_vars(SaveClose)

-----------------------------------------------------------------------------
\* Every variable stays in its type, and no more handles are open than may be.
TypeOK ==
    /\ up \in BOOLEAN
    /\ id \in Id \cup {NoId}
    /\ live \subseteq Peers
    /\ routeNum \in Nat
    /\ saving \in BOOLEAN
    /\ handles \in 0 .. MaxHandles
    /\ file \in [id : Id \cup {NoId}, num : Nat, entries : SUBSET Peers]
    /\ starts \in 0 .. MaxStarts
    /\ last \in [id : Id \cup {NoId}, peers : SUBSET Peers, how : {"none", "empty", "begun", "done"}]

\* A start takes up the last save to have opened the file, and never one before
\* it, nor memory that was never read: wherever the program was killed, every
\* peer it begins with was live at that save.  If that save was completed, the
\* node keeps its id, and begins with peers if it had any.
RecoversLastSave ==
    [][Start => /\ live' \subseteq last.peers
                /\ id' \in {last.id, starts'}
                /\ last.how = "done" => /\ id' = last.id
                                        /\ last.peers # {} => live' # {}]_vars

\* A node that knows a peer and has a handle left comes to have its id and all
\* its live peers on the disk, unless it is killed.  Without a handle it never
\* saves again: every save before the first peer is known has cost one.
FileCatchesUp ==
    (up /\ ~saving /\ routeNum > 0 /\ handles < MaxHandles) ~> (~up \/ file = Image)

-----------------------------------------------------------------------------
\* The inductive invariant of the proofs in RouteFileProofs: the file belongs
\* to the last save, which is the one under way if there is one, and has all of
\* it once the save is done.
FileOK ==
    /\ Extends(file, [id |-> last.id, num |-> file.num, entries |-> last.peers])
    /\ file.num = 0 => file.entries = {}
    /\ last.how = "done" => file.id = last.id /\ file.entries = last.peers /\ last.id # NoId
    /\ last.how \in {"none", "empty"} => file = Nothing
    /\ saving => /\ up
                 /\ handles > 0
                 /\ last = [id |-> id, peers |-> live, how |-> "begun"]
    /\ up => id # NoId
    /\ Cardinality(live) <= routeNum

IInv == TypeOK /\ FileOK
=============================================================================
