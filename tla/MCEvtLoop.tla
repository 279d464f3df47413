----------------------------- MODULE MCEvtLoop -----------------------------
EXTENDS EvtLoop

\* main() creates four timers, three of one interval and the save timer of three
\* times that.  Here there are two, and neither interval is a whole number of
\* the four-millisecond seconds, so that when_ms carries.
MCList == <<"save", "ping">>
MCInterval == [save |-> 11, ping |-> 9]
=============================================================================
