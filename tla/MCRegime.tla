------------------------------ MODULE MCRegime ------------------------------
EXTENDS Regime

CONSTANTS btc, eth
=============================================================================
