---------------------------- MODULE MCPriceAlerts ----------------------------
EXTENDS PriceAlerts
=============================================================================
