----------------------------- MODULE Outstanding -----------------------------
(***************************************************************************)
(* What the table of request contexts promises to the handlers that use    *)
(* it: every request gets an id of its own, a context exists only from its *)
(* own request on and, once closed, never again, and there are at most     *)
(* Limit of them.  It does not promise that a context stays open until it  *)
(* is answered or due: see CtxLostOnlyWhenDone in ReqCtx.                  *)
(***************************************************************************)
EXTENDS Integers, FiniteSets

CONSTANTS Limit, \* the most contexts that may be open
          MaxId  \* bound: requests explored

VARIABLES open, \* ids of the requests whose answer is still awaited
          next  \* id of the next request

Issue == /\ next < MaxId
         /\ next' = next + 1
         /\ open' \in {open, open \cup {next}}
         /\ Cardinality(open') <= Limit

Close == /\ open' \in SUBSET open
         /\ UNCHANGED next

OutstandingInit == open = {} /\ next = 0

OutstandingSpec == OutstandingInit /\ [][Issue \/ Close]_<<open, next>>
=============================================================================
