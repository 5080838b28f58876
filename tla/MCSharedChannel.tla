--------------------------- MODULE MCSharedChannel ---------------------------
EXTENDS SharedChannel

=============================================================================
