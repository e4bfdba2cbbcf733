------------------------------ MODULE OneShot ------------------------------
(* What a restart-safe hand-over promises: an item is claimed, for good,    *)
(* before it is handed over, and is handed over at most once.  A claim that *)
(* is never followed by the hand-over is allowed: after a crash in between  *)
(* nobody can tell.                                                         *)
CONSTANT Items
VARIABLES claimed, done

Init == claimed = {} /\ done = {}

Claim(i) == i \notin claimed /\ claimed' = claimed \cup {i} /\ UNCHANGED done

HandOver(i) == i \in claimed \ done /\ done' = done \cup {i} /\ UNCHANGED claimed

Next == \E i \in Items : Claim(i) \/ HandOver(i)

Spec == Init /\ [][Next]_<<claimed, done>>
=============================================================================
