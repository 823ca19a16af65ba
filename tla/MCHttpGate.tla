----------------------------- MODULE MCHttpGate -----------------------------
EXTENDS HttpGate
=============================================================================
