---------------------------- MODULE MCLiveStream ----------------------------
EXTENDS LiveStream
=============================================================================
