------------------------------ MODULE MCRelays ------------------------------
EXTENDS Relays
=============================================================================
