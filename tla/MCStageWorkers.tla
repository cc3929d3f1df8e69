--------------------------- MODULE MCStageWorkers ---------------------------
EXTENDS StageWorkers

=============================================================================
