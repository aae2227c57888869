----------------------------- MODULE MCConveyor -----------------------------
EXTENDS Conveyor
=============================================================================
