----------------------------- MODULE MCForkRefs -----------------------------
EXTENDS ForkRefs

AllFaults == {"expiry", "crash", "reply"}
=============================================================================
