--------------------------- MODULE MCSnapshotSeal ---------------------------
EXTENDS SnapshotSeal

=============================================================================
