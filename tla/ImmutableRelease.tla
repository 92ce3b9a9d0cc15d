-------------------------- MODULE ImmutableRelease --------------------------
(***************************************************************************)
(* What the release publishers promise: a release is filled while it is an *)
(* invisible draft, is exposed only when it is complete, and is frozen from *)
(* then on; nothing ever replaces or removes an asset.                     *)
(***************************************************************************)
CONSTANTS ReleaseIds, Files, NoAsset,
          Complete      \* the asset functions of a complete release

VARIABLE rels

Empty == [n \in Files |-> NoAsset]

Init == rels = [i \in ReleaseIds |-> [st |-> "none", assets |-> Empty]]

Create(i) ==
  /\ rels[i].st = "none"
  /\ rels' = [rels EXCEPT ![i] = [st |-> "draft", assets |-> Empty]]

Extends(new, old) == \A n \in Files : old[n] # NoAsset => new[n] = old[n]

(* A draft grows: what it holds already stays as it is. *)
Fill(i) ==
  /\ rels[i].st = "draft"
  /\ rels'[i].st = "draft"
  /\ Extends(rels'[i].assets, rels[i].assets)
  /\ \A j \in ReleaseIds \ {i} : rels'[j] = rels[j]

Expose(i) ==
  /\ rels[i].st = "draft"
  /\ rels[i].assets \in Complete
  /\ rels' = [rels EXCEPT ![i].st = "public"]

Next == \E i \in ReleaseIds : Create(i) \/ Fill(i) \/ Expose(i)

Spec == Init /\ [][Next]_rels
=============================================================================
