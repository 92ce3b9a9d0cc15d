------------------------- MODULE MCComponentRelease -------------------------
(* Instance of ComponentRelease for TLC: two packages, one derived file.    *)
EXTENDS ComponentRelease

CONSTANTS p1, p2, t1, t2

MCContents == Tools \cup {"payload"}

(* The service resolves an ambiguous tag to its oldest or newest release. *)
Oldest == [S \in NonEmptySubsets |-> CHOOSE i \in S : \A j \in S : i <= j]
Newest == [S \in NonEmptySubsets |-> CHOOSE i \in S : \A j \in S : i >= j]
MCLookups == {Oldest, Newest}
=============================================================================
