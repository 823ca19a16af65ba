----------------------------- MODULE MCManager ------------------------------
EXTENDS Manager
\* A reload that changes worker_threads from two to one.
TwoThenOne == <<2, 1>>
=============================================================================
