----------------------------- MODULE MCThreads -----------------------------
EXTENDS Threads

\* The message timer is due every tick, the ping timer every second one.
MCInterval == <<2, 1>>
=============================================================================
