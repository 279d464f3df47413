------------------------------ MODULE MCReqCtx ------------------------------
EXTENDS ReqCtxLoops

\* Two buckets, so that ids collide.
MCHashOf == [t \in 0 .. MaxTid |-> t % NumBuckets]
=============================================================================
