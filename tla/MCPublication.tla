---------------------------- MODULE MCPublication ----------------------------
(* Instance of Publication for TLC: the pins rise with the commits, build 1 *)
(* carries an older application than the bootstrap, build 2 a newer one and *)
(* other sounds.                                                            *)
EXTENDS Publication

CONSTANTS s1, s2, ta, tb

MCPins == [c \in 0 .. NCommits |-> c + 1]
MCBuildApp == [b \in 0 .. NBuilds |-> IF b = 0 THEN 2 ELSE IF b = 1 THEN 0 ELSE 3]
MCSoundsTag == [b \in 0 .. NBuilds |-> IF b = 2 THEN tb ELSE ta]
=============================================================================
