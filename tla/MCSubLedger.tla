----------------------------- MODULE MCSubLedger -----------------------------
EXTENDS SubLedger
=============================================================================
