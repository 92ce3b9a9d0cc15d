---------------------------- MODULE MCReleaseFeed ----------------------------
(* Instance of ReleaseFeed for TLC: one package, two Pythons, two people.   *)
EXTENDS ReleaseFeed

CONSTANTS p1, p2, t1, t2

MCContents == Tools \cup {Payload, Changed}

(* The service lists newest first; a draft is found through the same list. *)
Newest == [S \in NonEmptySubsets |-> CHOOSE i \in S : \A j \in S : i >= j]
MCLookups == {Newest}
=============================================================================
