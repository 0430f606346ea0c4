----------------------------- MODULE MCFileSync ----------------------------
\* A file, there at first or not, and two writes, deletions or faults.
EXTENDS FileSync, TLC
=============================================================================
