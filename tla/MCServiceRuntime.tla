-------------------------- MODULE MCServiceRuntime --------------------------
EXTENDS ServiceRuntime
CONSTANT d1
=============================================================================
