--------------------------- MODULE MCCandleHistory ---------------------------
EXTENDS CandleHistory
=============================================================================
