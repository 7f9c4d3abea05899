------------------------------ MODULE MCTelemetry ------------------------------
EXTENDS Telemetry
=============================================================================
