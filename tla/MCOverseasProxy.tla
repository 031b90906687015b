-------------------------- MODULE MCOverseasProxy --------------------------
EXTENDS OverseasProxy, TLC
=============================================================================
