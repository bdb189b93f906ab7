------------------------------ MODULE MCStream ------------------------------
(* Two playback streams and a capture stream on one port, two open at a     *)
(* time.                                                                    *)
EXTENDS Stream

\* A bound on what is explored: behaviours in which a wait times out prepare
\* streams of one direction only.
LateAlone == "late" \in upset => \E d \in Dirs : ~chan[d].lli
=============================================================================
