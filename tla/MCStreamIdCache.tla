-------------------------- MODULE MCStreamIdCache --------------------------
EXTENDS StreamIdCache
=============================================================================
