------------------------------- MODULE MCSignal -------------------------------
EXTENDS Signal

\* Raw trades: high, low and close are the price.
Trades == {[high |-> p, low |-> p, close |-> p] : p \in {10, 12, 14}}
===============================================================================
