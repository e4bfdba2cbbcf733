----------------------------- MODULE MCRiskGate -----------------------------
EXTENDS RiskGate, TLC

CONSTANTS s1, s2, s3, t1, t2, btc, eth

\* Two signals on one symbol, the second of them closing, and one on another.
MCSymbolOf == s1 :> btc @@ s2 :> btc @@ s3 :> eth
MCSignalSide == s1 :> "BUY" @@ s2 :> "SELL" @@ s3 :> "BUY"
Symmetry == Permutations(Seconds)
=============================================================================
