------------------------------ MODULE MCCandles ------------------------------
EXTENDS Candles

CONSTANTS btc, eth
=============================================================================
