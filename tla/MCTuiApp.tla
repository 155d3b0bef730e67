--------------------------- MODULE MCTuiApp ----------------------------
EXTENDS TuiAppProps

=============================================================================
