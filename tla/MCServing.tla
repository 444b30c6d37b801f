----------------------------- MODULE MCServing -----------------------------
EXTENDS Serving
MCRequest == {"r1", "r2", "r3"}
============================================================================
