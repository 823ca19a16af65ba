--------------------------- MODULE MCRecycleArray ---------------------------
EXTENDS RecycleArray
=============================================================================
