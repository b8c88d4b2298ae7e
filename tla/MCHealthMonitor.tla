--------------------------- MODULE MCHealthMonitor ---------------------------
EXTENDS HealthMonitor
TwoMetrics == <<"power", "water">>
=============================================================================
