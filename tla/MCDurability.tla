---------------------------- MODULE MCDurability ----------------------------
EXTENDS Durability

CONSTANTS m1, w1, w2

Deployment(config, kind, aof, rep, redacted, want, f, s, l) ==
    [config |-> config, kind |-> kind, aof |-> aof, replica |-> rep,
     redacted |-> redacted, want |-> want,
     budget |-> [faults |-> f, shorts |-> s, lapses |-> l]]

TierA == { Deployment("a", "pull-wake", TRUE, "online", FALSE, 1, 1, 0, 0) }
=============================================================================
