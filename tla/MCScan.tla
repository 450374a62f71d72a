------------------------------- MODULE MCScan -------------------------------
\* Scan with two VCS names, so that one nests in the other, and a pruned one.
EXTENDS Scan
=============================================================================
