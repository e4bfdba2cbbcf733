---------------------------- MODULE MCAllocation ----------------------------
(* Two strategies: one within the early-live threshold in the chaotic       *)
(* regime and above it in a trend, one above it in both.                    *)
EXTENDS Allocation

MCOrder == <<"paper", "donchian">>

MCRules == [s \in Strategies |->
              [r \in Regimes |-> CASE r = "UNKNOWN" -> 0
                                   [] r = "TREND" -> 10
                                   [] OTHER -> IF s = "paper" THEN 2 ELSE 3]]
=============================================================================
