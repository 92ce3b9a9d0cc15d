----------------------- MODULE ComponentReleaseProofs -----------------------
(***************************************************************************)
(* Proofs about ComponentRelease, for every set of publishers, files,      *)
(* tools and releases, every batch size and every number of faults.        *)
(***************************************************************************)
EXTENDS ComponentRelease, TLAPS

USE DEF Working, Ended, GhCalls

(* The tag resolves to an existing release, and to a public one if any is. *)
LEMMA ByTagExists ==
  ASSUME TypeOK, Existing(rels) # {}
  PROVE  /\ ByTag(rels, lookup) \in ReleaseIds
         /\ ByTag(rels, lookup) \in Existing(rels)
         /\ Public(rels) # {} => ByTag(rels, lookup) \in Public(rels)
<1>1. Existing(rels) \in NonEmptySubsets
  BY DEF Existing, NonEmptySubsets
<1>2. Public(rels) # {} => Public(rels) \in NonEmptySubsets
  BY DEF Public, NonEmptySubsets
<1>3. Public(rels) \subseteq Existing(rels)
  BY DEF Public, Existing
<1>4. lookup.tag \in Lookups
  BY DEF TypeOK
<1>5. \A S \in NonEmptySubsets : lookup.tag[S] \in S
  BY <1>4, LookupsAssumption
<1> QED
  BY <1>1, <1>2, <1>3, <1>5 DEF ByTag, Existing

(* Resolution depends on which releases exist and are public, not on assets. *)
LEMMA ByTagStable ==
  ASSUME NEW r1, NEW r2, NEW l,
         \A i \in ReleaseIds : r1[i].st = r2[i].st
  PROVE  /\ Existing(r1) = Existing(r2)
         /\ Public(r1) = Public(r2)
         /\ ByTag(r1, l) = ByTag(r2, l)
BY DEF Existing, Public, ByTag

(* Uploading to a release keeps its status and whatever it already holds. *)
LEMMA AddKeeps ==
  ASSUME NEW r \in Release, NEW S \in SUBSET Files,
         NEW f \in [S -> Contents \cup {Absent, Torn}]
  PROVE  /\ Add(r, f) \in Release
         /\ Add(r, f).st = r.st
         /\ \A n \in Files : Add(r, f).assets[n]
                               = IF n \in S THEN f[n] ELSE r.assets[n]
BY DEF Add, Release

LEMMA BatchSubset == ASSUME NEW S PROVE Batch(S) \subseteq S
BY DEF Batch

LEMMA ContentType ==
  ASSUME NEW n, NEW t \in Tools PROVE Content(n, t) \in Contents
BY ContentAssumption DEF Content

LEMMA NoAssetsType == NoAssets \in [Files -> Contents \cup {Absent, Torn}]
BY DEF NoAssets

(* What an upload does to the releases. *)
LEMMA PutEffect ==
  ASSUME TypeOK, NEW p \in Publishers,
         NEW whole \in SUBSET Batch(missing[p]),
         NEW torn \in SUBSET Batch(missing[p]),
         PutAssets(p, whole, torn), Existing(rels) # {}
  PROVE  LET b == ByTag(rels, lookup) IN
         /\ rels' \in [ReleaseIds -> Release]
         /\ \A i \in ReleaseIds : rels'[i].st = rels[i].st
         /\ \A i \in ReleaseIds \ {b} : rels'[i] = rels[i]
         /\ \A n \in Files \ Batch(missing[p]) :
               rels'[b].assets[n] = rels[b].assets[n]
<1> DEFINE b == ByTag(rels, lookup)
           new == [n \in whole \cup torn |->
                     IF n \in whole THEN Content(n, tool[p]) ELSE Torn]
<1>1. b \in ReleaseIds
  BY ByTagExists
<1>2. whole \cup torn \in SUBSET Files
  BY BatchSubset, NamesAssumption DEF TypeOK
<1>3. new \in [whole \cup torn -> Contents \cup {Absent, Torn}]
  BY ContentType DEF TypeOK
<1>4. rels[b] \in Release
  BY <1>1 DEF TypeOK
<1>5. rels' = [rels EXCEPT ![b] = Add(rels[b], new)]
  BY DEF PutAssets
<1> HIDE DEF b, new
<1>6. /\ Add(rels[b], new) \in Release
      /\ Add(rels[b], new).st = rels[b].st
      /\ \A n \in Files : Add(rels[b], new).assets[n]
            = IF n \in whole \cup torn THEN new[n] ELSE rels[b].assets[n]
  BY <1>2, <1>3, <1>4, AddKeeps
<1>7. rels'[b] = Add(rels[b], new) /\ \A i \in ReleaseIds \ {b} : rels'[i] = rels[i]
  BY <1>1, <1>5 DEF TypeOK
<1>8. rels' \in [ReleaseIds -> Release]
  BY <1>5, <1>6 DEF TypeOK
<1>9. \A i \in ReleaseIds : rels'[i].st = rels[i].st
  BY <1>6, <1>7
<1>10. \A n \in Files \ Batch(missing[p]) : rels'[b].assets[n] = rels[b].assets[n]
  BY <1>6, <1>7
<1> QED
  BY <1>7, <1>8, <1>9, <1>10 DEF b

-----------------------------------------------------------------------------
LEMMA InitType == Init => TypeOK
<1> SUFFICES ASSUME Init PROVE TypeOK
  OBVIOUS
<1>1. rels \in [ReleaseIds -> Release]
  BY NoAssetsType DEF Init, Release
<1>2. /\ (CHOOSE i \in ReleaseIds : TRUE) \in ReleaseIds
      /\ (CHOOSE t \in Tools : TRUE) \in Tools
  BY NonEmptyAssumption
<1>3. state \in [Publishers -> [id : ReleaseIds, draft : BOOLEAN]]
  BY <1>2, Zenon DEF Init
<1>4. /\ lookup \in [list : Lookups, tag : Lookups]
      /\ pc \in [Publishers -> Working \cup Ended]
      /\ missing \in [Publishers -> SUBSET Expected]
      /\ tool \in [Publishers -> Tools]
  BY <1>2 DEF Init
<1>5. /\ attempt \in [Publishers -> 0 .. MaxAttempts - 1]
      /\ faults \in 0 .. MaxFaults
  BY BoundsAssumption DEF Init
<1> QED
  BY <1>1, <1>3, <1>4, <1>5 DEF TypeOK

(* A failed call leaves `attempt' below its bound. *)
LEMMA BackoffType ==
  ASSUME TypeOK, NEW p \in Publishers, Backoff(p)
  PROVE  /\ attempt' \in [Publishers -> 0 .. MaxAttempts - 1]
         /\ pc' \in [Publishers -> Working \cup Ended]
         /\ \A q \in Publishers : pc'[q] = pc[q] \/ (q = p /\ pc'[q] = "failed")
BY BoundsAssumption DEF Backoff, TypeOK, Goto

LEMMA FaultType == ASSUME TypeOK, Fault PROVE faults' \in 0 .. MaxFaults
BY BoundsAssumption DEF Fault, TypeOK

LEMMA NewDraftType ==
  ASSUME TypeOK, NEW i \in ReleaseIds, NewDraft(i)
  PROVE  /\ rels' \in [ReleaseIds -> Release]
         /\ rels[i].st = "none"
         /\ rels'[i] = [st |-> "draft", assets |-> NoAssets]
         /\ \A j \in ReleaseIds \ {i} : rels'[j] = rels[j]
BY NoAssetsType DEF NewDraft, TypeOK, Release

LEMMA PubliciseType ==
  ASSUME TypeOK, Existing(rels) # {}, Publicise
  PROVE  LET b == ByTag(rels, lookup) IN
         /\ rels' \in [ReleaseIds -> Release]
         /\ b \in ReleaseIds
         /\ rels'[b].st = "public"
         /\ \A i \in ReleaseIds : rels'[i].assets = rels[i].assets
         /\ \A i \in ReleaseIds \ {b} : rels'[i] = rels[i]
BY ByTagExists DEF Publicise, TypeOK, Release

(* A run past its listing or creation knows that a release exists. *)
LEMMA KnownExists ==
  ASSUME TypeOK, Known, NEW p \in Publishers,
         pc[p] \in {"assets", "upload", "edit"}
  PROVE  Existing(rels) # {} /\ state[p].id \in Existing(rels)
BY DEF Known, TypeOK, Existing

LEMMA VerdictType ==
  ASSUME NEW r, NEW t, NEW d
  PROVE  Verdict(r, t, d) \in {"failed", "upload", "edit", "done"}
BY DEF Verdict

-----------------------------------------------------------------------------
(* Type correctness is inductive together with Known. *)
LEMMA NextType == TypeOK /\ Known /\ [Next]_vars => TypeOK'
<1> SUFFICES ASSUME TypeOK, Known, [Next]_vars PROVE TypeOK'
  OBVIOUS
<1>1. ASSUME NEW p \in Publishers, Start(p) PROVE TypeOK'
  BY <1>1, FaultType, BoundsAssumption DEF Start, TypeOK, Goto
<1>2. ASSUME NEW p \in Publishers, ListReleases(p) PROVE TypeOK'
  <2>1. CASE Existing(rels) = {}
    BY <1>2, <2>1, BoundsAssumption DEF ListReleases, TypeOK, Goto
  <2>2. CASE Existing(rels) # {}
    <3>1. FirstListed(rels, lookup) \in ReleaseIds
      BY <2>2, LookupsAssumption DEF FirstListed, TypeOK, Existing, NonEmptySubsets
    <3> DEFINE i == FirstListed(rels, lookup)
               d == rels[i].st = "draft"
    <3>2. [id |-> i, draft |-> d] \in [id : ReleaseIds, draft : BOOLEAN]
      BY <3>1, Zenon
    <3>3. state' = [state EXCEPT ![p] = [id |-> i, draft |-> d]]
      BY <1>2, <2>2, Zenon DEF ListReleases
    <3> HIDE DEF i, d
    <3>4. state' \in [Publishers -> [id : ReleaseIds, draft : BOOLEAN]]
      BY <3>2, <3>3, Zenon DEF TypeOK
    <3>5. pc' \in [Publishers -> Working \cup Ended]
      BY <1>2, <2>2 DEF ListReleases, TypeOK, Goto
    <3>6. /\ attempt' \in [Publishers -> 0 .. MaxAttempts - 1]
          /\ UNCHANGED <<rels, lookup, missing, tool, faults>>
      BY <1>2, BoundsAssumption DEF ListReleases, TypeOK
    <3> QED
      BY <3>4, <3>5, <3>6 DEF TypeOK
  <2> QED
    BY <2>1, <2>2
<1>3. ASSUME NEW p \in Publishers, CreateDraft(p) PROVE TypeOK'
  BY <1>3, NewDraftType, BoundsAssumption DEF CreateDraft, TypeOK, Goto
<1>4. ASSUME NEW p \in Publishers, ListAssets(p) PROVE TypeOK'
  <2>1. Verdict(rels[state[p].id], tool[p], state[p].draft) \in Working \cup Ended
    BY VerdictType
  <2> QED
    BY <1>4, <2>1, BoundsAssumption DEF ListAssets, TypeOK, Goto
<1>5. ASSUME NEW p \in Publishers, UploadRefused(p) PROVE TypeOK'
  BY <1>5 DEF UploadRefused, TypeOK, Goto, runVars
<1>6. ASSUME NEW p \in Publishers, UploadBatch(p) PROVE TypeOK'
  <2>1. Existing(rels) # {}
    BY <1>6, KnownExists DEF UploadBatch, Uploadable
  <2>2. rels' \in [ReleaseIds -> Release]
    BY <1>6, <2>1, PutEffect DEF UploadBatch
  <2> QED
    BY <1>6, <2>2 DEF UploadBatch, TypeOK, Goto, runVars
<1>7. ASSUME NEW p \in Publishers, UploadBroken(p) PROVE TypeOK'
  <2>1. Existing(rels) # {}
    BY <1>7, KnownExists DEF UploadBroken, Uploadable
  <2>2. rels' \in [ReleaseIds -> Release]
    BY <1>7, <2>1, PutEffect DEF UploadBroken
  <2> QED
    BY <1>7, <2>2, FaultType DEF UploadBroken, TypeOK, Goto, runVars
<1>8. ASSUME NEW p \in Publishers, Edit(p) PROVE TypeOK'
  <2>1. Existing(rels) # {}
    BY <1>8, KnownExists DEF Edit
  <2> QED
    BY <1>8, <2>1, PubliciseType, BoundsAssumption DEF Edit, TypeOK, Goto
<1>9. ASSUME NEW p \in Publishers, GhBusy(p) PROVE TypeOK'
  BY <1>9, BackoffType, FaultType DEF GhBusy, TypeOK
<1>10. ASSUME NEW p \in Publishers, GhLostCreate(p) PROVE TypeOK'
  BY <1>10, BackoffType, FaultType, NewDraftType DEF GhLostCreate, TypeOK
<1>11. ASSUME NEW p \in Publishers, GhError(p) PROVE TypeOK'
  BY <1>11, FaultType DEF GhError, TypeOK, Goto, runVars
<1>12. ASSUME NEW p \in Publishers, GhLostEdit(p) PROVE TypeOK'
  <2>1. Existing(rels) # {}
    BY <1>12, KnownExists DEF GhLostEdit
  <2> QED
    BY <1>12, <2>1, PubliciseType, BackoffType, FaultType DEF GhLostEdit, TypeOK
<1>13. ASSUME NEW p \in Publishers, Crash(p) PROVE TypeOK'
  BY <1>13, FaultType DEF Crash, TypeOK, Goto, runVars
<1>14. ASSUME NEW i \in ReleaseIds, NEW n \in Foreign, AttachByHand(i, n)
       PROVE TypeOK'
  BY <1>14, FaultType DEF AttachByHand, TypeOK, Release, Foreign, runVars
<1>15. CASE UNCHANGED vars
  BY <1>15 DEF vars, TypeOK
<1> QED
  BY <1>1, <1>2, <1>3, <1>4, <1>5, <1>6, <1>7, <1>8, <1>9, <1>10, <1>11,
     <1>12, <1>13, <1>14, <1>15 DEF Next, Step, Disturbance

-----------------------------------------------------------------------------
(* The conjuncts of the invariant that speak about one run. *)
CreatingP(p) == pc[p] = "create" =>
    \A i \in ReleaseIds : rels[i].st # "public" /\ rels[i].assets = NoAssets
KnownP(p) == pc[p] \in {"assets", "upload", "edit"} =>
    /\ rels[state[p].id].st # "none"
    /\ ~state[p].draft => Public(rels) # {}
VerifiedP(p) ==
    pc[p] = "edit" => rels[state[p].id].assets = Snapshot(tool[p])
ReturnedP(p) == pc[p] = "done" => Public(rels) # {}
RunInv(p) == CreatingP(p) /\ KnownP(p) /\ VerifiedP(p) /\ ReturnedP(p)
StoreInv == Uncreated /\ OneTarget /\ PublicIsComplete

LEMMA InvParts ==
  IndInv <=> /\ TypeOK /\ Serial /\ StoreInv
             /\ \A p \in Publishers : RunInv(p)
BY DEF IndInv, StoreInv, RunInv, Creating, CreatingP, Known, KnownP,
       Verified, VerifiedP, Returned, ReturnedP

LEMMA InvPartsPrime ==
  IndInv' <=> /\ TypeOK' /\ Serial' /\ StoreInv'
              /\ \A p \in Publishers : RunInv(p)'
BY DEF IndInv, StoreInv, RunInv, Creating, CreatingP, Known, KnownP,
       Verified, VerifiedP, Returned, ReturnedP

(* A step of the working run p: the others have ended, so that only what   *)
(* the invariant says of p and of the releases is to be shown again.       *)
LEMMA OneRunMoves ==
  ASSUME IndInv, TypeOK', NEW p \in Publishers, Active(p),
         \A q \in Publishers \ {p} : pc'[q] = pc[q],
         Public(rels) # {} => Public(rels)' # {},
         StoreInv', RunInv(p)'
  PROVE  IndInv'
<1>1. \A q \in Publishers \ {p} : pc[q] \in Ended
  BY DEF IndInv, Serial, Active, TypeOK
<1>2. Serial'
  BY <1>1 DEF Serial, Active
<1>3. ASSUME NEW q \in Publishers \ {p} PROVE RunInv(q)'
  BY <1>1, <1>3 DEF RunInv, CreatingP, KnownP, VerifiedP, ReturnedP, IndInv, Returned
<1> QED
  BY <1>2, <1>3, InvPartsPrime

(* A step that changes no release keeps what the invariant says of them. *)
LEMMA StoreUnchanged ==
  ASSUME StoreInv, UNCHANGED <<rels, lookup>>
  PROVE  StoreInv' /\ Public(rels)' = Public(rels)
BY DEF StoreInv, Uncreated, OneTarget, PublicIsComplete, Public, ByTag,
       Existing, Stored

(* A run that ends without success owes nothing. *)
LEMMA FailedRun ==
  ASSUME NEW p \in Publishers, pc'[p] \in {"failed", "idle"}
  PROVE  RunInv(p)'
BY DEF RunInv, CreatingP, KnownP, VerifiedP, ReturnedP

(* What was listed whole is the run's own snapshot. *)
LEMMA VerdictMeaning ==
  ASSUME NEW r \in Release, NEW t \in Tools, NEW d \in BOOLEAN
  PROVE  /\ Verdict(r, t, d) = "edit" => r.assets = Snapshot(t)
         /\ Verdict(r, t, d) = "done" => ~d
<1>1. Verdict(r, t, d) = "done" => ~d
  BY DEF Verdict
<1>2. ASSUME Verdict(r, t, d) = "edit" PROVE r.assets = Snapshot(t)
  <2>1. /\ Stored(r) \ Expected = {}
        /\ \A n \in Stored(r) \cap Expected : r.assets[n] = Content(n, t)
        /\ Expected \subseteq Stored(r)
    BY <1>2 DEF Verdict, Unexpected, Differing
  <2>2. \A n \in Files : r.assets[n] = Snapshot(t)[n]
    BY <2>1 DEF Snapshot, Stored
  <2>3. r.assets \in [Files -> Contents \cup {Absent, Torn}]
    BY DEF Release
  <2>4. DOMAIN Snapshot(t) = Files /\ Snapshot(t) = [n \in Files |-> Snapshot(t)[n]]
    BY DEF Snapshot
  <2> QED
    BY <2>2, <2>3, <2>4
<1> QED
  BY <1>1, <1>2

(* A complete release holds an asset of the snapshot. *)
LEMMA SnapshotStored ==
  ASSUME NEW r, NEW t \in Tools, r.assets = Snapshot(t)
  PROVE  Expected \subseteq Stored(r) /\ Stored(r) \cap Expected # {}
BY NamesAssumption, ContentsAssumption, ContentType DEF Stored, Snapshot

(* An upload goes to the release the tag resolves to, adds only names that *)
(* release does not hold, and so never reaches a public release.           *)
LEMMA UploadStore ==
  ASSUME IndInv, NEW p \in Publishers, Uploadable(p),
         NEW whole \in SUBSET Batch(missing[p]),
         NEW torn \in SUBSET Batch(missing[p]),
         PutAssets(p, whole, torn), UNCHANGED lookup
  PROVE  /\ StoreInv'
         /\ Public(rels)' = Public(rels)
         /\ \A i \in ReleaseIds : rels'[i].st = rels[i].st
<1> DEFINE b == ByTag(rels, lookup)
<1>1. Existing(rels) # {} /\ TypeOK /\ Known
  BY KnownExists DEF IndInv, Uploadable
<1>2. /\ \A i \in ReleaseIds : rels'[i].st = rels[i].st
      /\ \A i \in ReleaseIds \ {b} : rels'[i] = rels[i]
      /\ \A n \in Files \ Batch(missing[p]) : rels'[b].assets[n] = rels[b].assets[n]
      /\ rels' \in [ReleaseIds -> Release]
  BY <1>1, PutEffect
<1>3. b \in Existing(rels) /\ b \in ReleaseIds
  BY <1>1, ByTagExists
<1>4. Public(rels)' = Public(rels) /\ ByTag(rels, lookup)' = b
  BY <1>2, ByTagStable
<1>5. Uncreated'
  <2> SUFFICES ASSUME NEW i \in ReleaseIds, rels'[i].st = "none"
               PROVE  rels'[i].assets = NoAssets
    BY DEF Uncreated
  <2>1. i # b
    BY <1>2, <1>3 DEF Existing
  <2> QED
    BY <1>2, <2>1 DEF IndInv, Uncreated
<1>6. OneTarget'
  BY <1>2, <1>4 DEF OneTarget, Stored, IndInv
<1>7. PublicIsComplete'
  <2> SUFFICES ASSUME NEW i \in ReleaseIds, rels'[i].st = "public"
               PROVE  rels'[i].assets \in Complete
    BY DEF PublicIsComplete
  <2>1. rels[i].assets \in Complete
    BY <1>2 DEF IndInv, PublicIsComplete
  <2>2. CASE i # b
    BY <1>2, <2>1, <2>2
  <2>3. CASE i = b
    <3>1. Expected \subseteq Stored(rels[b])
      BY <2>1, <2>3, SnapshotStored DEF Complete
    <3>2. Batch(missing[p]) = {}
      BY <1>1, <3>1, BatchSubset DEF TypeOK, Uploadable
    <3>3. \A n \in Files : rels'[b].assets[n] = rels[b].assets[n]
      BY <1>2, <3>2
    <3>4. rels'[b].assets = rels[b].assets
      BY <1>1, <1>2, <1>3, <3>3 DEF TypeOK, Release
    <3> QED
      BY <2>1, <2>3, <3>4
  <2> QED
    BY <2>2, <2>3
<1> QED
  BY <1>2, <1>4, <1>5, <1>6, <1>7 DEF StoreInv

(* A new draft is empty, and is created only while no release has assets. *)
LEMMA CreateStore ==
  ASSUME IndInv, NEW p \in Publishers, pc[p] = "create",
         NEW i \in ReleaseIds, NewDraft(i), UNCHANGED lookup
  PROVE  /\ StoreInv' /\ Public(rels) = {} /\ CreatingP(p)'
         /\ rels'[i].st = "draft"
<1>1. /\ \A j \in ReleaseIds : rels[j].st # "public" /\ rels[j].assets = NoAssets
      /\ TypeOK
  BY DEF IndInv, Creating
<1>2. /\ rels'[i] = [st |-> "draft", assets |-> NoAssets]
      /\ \A j \in ReleaseIds \ {i} : rels'[j] = rels[j]
  BY <1>1, NewDraftType
<1>3. \A j \in ReleaseIds : rels'[j].assets = NoAssets /\ rels'[j].st # "public"
  BY <1>1, <1>2
<1>4. \A j \in ReleaseIds : Stored(rels'[j]) = {}
  BY <1>3 DEF Stored, NoAssets
<1> QED
  BY <1>1, <1>2, <1>3, <1>4
  DEF StoreInv, Uncreated, OneTarget, PublicIsComplete, Public, CreatingP

(* The release that is exposed is the one that was verified. *)
LEMMA EditStore ==
  ASSUME IndInv, NEW p \in Publishers, pc[p] = "edit", Publicise,
         UNCHANGED lookup
  PROVE  /\ StoreInv' /\ Public(rels)' # {}
         /\ \A i \in ReleaseIds : rels'[i].assets = rels[i].assets
         /\ state[p].id = ByTag(rels, lookup)
         /\ rels'[state[p].id].st = "public"
         /\ rels[state[p].id].assets = Snapshot(tool[p])
<1> DEFINE b == ByTag(rels, lookup)
<1>1. TypeOK /\ Existing(rels) # {} /\ state[p].id \in ReleaseIds
  BY KnownExists DEF IndInv, Existing
<1>2. /\ b \in ReleaseIds
      /\ b \in Existing(rels)
      /\ Public(rels) # {} => b \in Public(rels)
  BY <1>1, ByTagExists
<1>3. /\ rels'[b].st = "public"
      /\ \A i \in ReleaseIds : rels'[i].assets = rels[i].assets
      /\ \A i \in ReleaseIds \ {b} : rels'[i] = rels[i]
  BY <1>1, PubliciseType
<1>4. rels[state[p].id].assets = Snapshot(tool[p]) /\ tool[p] \in Tools
  BY DEF IndInv, Verified, TypeOK
<1>5. state[p].id = b
  BY <1>1, <1>4, SnapshotStored DEF IndInv, OneTarget
<1>6. PublicIsComplete'
  BY <1>3, <1>4, <1>5 DEF IndInv, PublicIsComplete, Complete
<1>7. Uncreated'
  BY <1>3 DEF IndInv, Uncreated
<1>8. Public(rels') = Public(rels) \cup {b}
  BY <1>2, <1>3 DEF Public
<1>9. \A i \in ReleaseIds : Stored(rels'[i]) = Stored(rels[i])
  BY <1>3 DEF Stored
<1>10. ByTag(rels', lookup) = b
  <2>1. Existing(rels') = Existing(rels)
    BY <1>2, <1>3 DEF Existing
  <2>2. CASE Public(rels) # {}
    <3>1. Public(rels') = Public(rels)
      BY <1>2, <1>8, <2>2
    <3> QED
      BY <2>1, <3>1 DEF ByTag
  <2>3. CASE Public(rels) = {}
    <3>1. Public(rels') = {b}
      BY <1>8, <2>3
    <3>2. {b} \in NonEmptySubsets /\ lookup.tag \in Lookups
      BY <1>1, <1>2 DEF NonEmptySubsets, TypeOK
    <3>3. lookup.tag[{b}] \in {b}
      BY <3>2, LookupsAssumption
    <3> QED
      BY <3>1, <3>3 DEF ByTag
  <2> QED
    BY <2>2, <2>3
<1>11. OneTarget'
  BY <1>9, <1>10 DEF IndInv, OneTarget
<1> QED
  BY <1>3, <1>4, <1>5, <1>6, <1>7, <1>8, <1>11 DEF StoreInv

-----------------------------------------------------------------------------
LEMMA InitInv == Init => IndInv
<1> SUFFICES ASSUME Init PROVE IndInv
  OBVIOUS
<1>1. TypeOK
  BY InitType
<1>2. \A p \in Publishers : pc[p] = "idle"
  BY DEF Init
<1>3. \A i \in ReleaseIds : rels[i].st = "none" /\ rels[i].assets = NoAssets
  BY DEF Init
<1>4. \A i \in ReleaseIds : Stored(rels[i]) = {}
  BY <1>3 DEF Stored, NoAssets
<1> QED
  BY <1>1, <1>2, <1>3, <1>4 DEF IndInv, Serial, Active, Uncreated, Creating,
     OneTarget, Known, Verified, Returned, PublicIsComplete

(* One step per action; the releases change only in the last five. *)
LEMMA NextInv == IndInv /\ [Next]_vars => IndInv'
<1> SUFFICES ASSUME IndInv, [Next]_vars PROVE IndInv'
  OBVIOUS
<1>0. TypeOK' /\ TypeOK /\ StoreInv /\ \A p \in Publishers : RunInv(p)
  BY NextType, InvParts DEF IndInv
<1>1. ASSUME NEW p \in Publishers, Start(p) PROVE IndInv'
  <2>1. /\ \A q \in Publishers \ {p} : pc'[q] = pc[q] /\ pc[q] \notin Working
        /\ pc'[p] \in {"release", "failed"}
        /\ UNCHANGED <<rels, lookup>>
    BY <1>0, <1>1 DEF Start, Goto, GroupFree, Active, TypeOK
  <2>2. StoreInv' /\ Public(rels)' = Public(rels)
    BY <1>0, <2>1, StoreUnchanged
  <2>3. Serial'
    BY <2>1 DEF Serial, Active
  <2>4. \A q \in Publishers : RunInv(q)'
    BY <1>0, <2>1, <2>2 DEF RunInv, CreatingP, KnownP, VerifiedP, ReturnedP
  <2> QED
    BY <1>0, <2>2, <2>3, <2>4, InvPartsPrime
<1>2. ASSUME NEW p \in Publishers, ListReleases(p) PROVE IndInv'
  <2>1. /\ \A q \in Publishers \ {p} : pc'[q] = pc[q]
        /\ Active(p)
        /\ UNCHANGED <<rels, lookup>>
    BY <1>0, <1>2 DEF ListReleases, Goto, TypeOK, Active
  <2>2. StoreInv' /\ Public(rels)' = Public(rels)
    BY <1>0, <2>1, StoreUnchanged
  <2>3. CASE Existing(rels) = {}
    <3>1. pc'[p] = "create"
      BY <1>0, <1>2, <2>3 DEF ListReleases, Goto, TypeOK
    <3>2. \A i \in ReleaseIds : rels[i].st = "none" /\ rels[i].assets = NoAssets
      BY <2>3 DEF Existing, IndInv, Uncreated
    <3>3. RunInv(p)'
      BY <2>1, <3>1, <3>2 DEF RunInv, CreatingP, KnownP, VerifiedP, ReturnedP
    <3> QED
      BY <1>0, <2>1, <2>2, <3>3, OneRunMoves
  <2>4. CASE Existing(rels) # {}
    <3> DEFINE i == FirstListed(rels, lookup)
               d == rels[i].st = "draft"
    <3>1. i \in Existing(rels) /\ i \in ReleaseIds
      <4>1. Existing(rels) \in NonEmptySubsets
        BY <2>4 DEF Existing, NonEmptySubsets
      <4>2. lookup.list \in Lookups
        BY <1>0 DEF TypeOK
      <4>3. lookup.list[Existing(rels)] \in Existing(rels)
        BY <4>1, <4>2, LookupsAssumption
      <4> QED
        BY <4>3 DEF FirstListed, Existing
    <3>2. pc'[p] = "assets"
      BY <1>0, <1>2, <2>4 DEF ListReleases, Goto, TypeOK
    <3>3. state'[p] = [id |-> i, draft |-> d]
      BY <1>0, <1>2, <2>4, Zenon DEF ListReleases, TypeOK
    <3> HIDE DEF i, d
    <3>4. state'[p].id = i /\ state'[p].draft = d
      BY <3>3
    <3>5. rels[i].st # "none" /\ (~d => i \in Public(rels))
      BY <1>0, <3>1 DEF Existing, Public, TypeOK, Release, d
    <3>6. RunInv(p)'
      BY <2>1, <2>2, <3>2, <3>4, <3>5
      DEF RunInv, CreatingP, KnownP, VerifiedP, ReturnedP
    <3> QED
      BY <1>0, <2>1, <2>2, <3>6, OneRunMoves
  <2> QED
    BY <2>3, <2>4
<1>3. ASSUME NEW p \in Publishers, ListAssets(p) PROVE IndInv'
  <2> DEFINE r == rels[state[p].id]
             v == Verdict(r, tool[p], state[p].draft)
  <2>1. /\ \A q \in Publishers \ {p} : pc'[q] = pc[q]
        /\ Active(p) /\ pc[p] = "assets" /\ pc'[p] = v
        /\ UNCHANGED <<rels, lookup, state, tool>>
    BY <1>0, <1>3 DEF ListAssets, Goto, TypeOK, Active
  <2>2. StoreInv' /\ Public(rels)' = Public(rels)
    BY <1>0, <2>1, StoreUnchanged
  <2>3. r \in Release /\ tool[p] \in Tools /\ state[p].draft \in BOOLEAN
    BY <1>0 DEF TypeOK
  <2>4. /\ v \in {"failed", "upload", "edit", "done"}
        /\ v = "edit" => r.assets = Snapshot(tool[p])
        /\ v = "done" => ~state[p].draft
    BY <2>3, VerdictType, VerdictMeaning
  <2>5. /\ r.st # "none"
        /\ ~state[p].draft => Public(rels) # {}
    BY <2>1 DEF IndInv, Known
  <2>6. RunInv(p)'
    BY <2>1, <2>2, <2>4, <2>5 DEF RunInv, CreatingP, KnownP, VerifiedP, ReturnedP
  <2> QED
    BY <1>0, <2>1, <2>2, <2>6, OneRunMoves
<1>4. ASSUME NEW p \in Publishers, UploadRefused(p) PROVE IndInv'
  <2>1. /\ \A q \in Publishers \ {p} : pc'[q] = pc[q]
        /\ Active(p) /\ pc[p] = "upload" /\ pc'[p] = "assets"
        /\ UNCHANGED <<rels, lookup, state, tool>>
    BY <1>0, <1>4 DEF UploadRefused, Goto, TypeOK, Active, runVars
  <2>2. StoreInv' /\ Public(rels)' = Public(rels)
    BY <1>0, <2>1, StoreUnchanged
  <2>3. RunInv(p)'
    BY <1>0, <2>1, <2>2 DEF RunInv, CreatingP, KnownP, VerifiedP, ReturnedP
  <2> QED
    BY <1>0, <2>1, <2>2, <2>3, OneRunMoves
<1>5. ASSUME NEW p \in Publishers, GhBusy(p) PROVE IndInv'
  <2>1. /\ \A q \in Publishers \ {p} : pc'[q] = pc[q]
        /\ Active(p) /\ (pc'[p] = pc[p] \/ pc'[p] = "failed")
        /\ UNCHANGED <<rels, lookup, state, tool>>
    BY <1>0, <1>5, BackoffType DEF GhBusy, Active
  <2>2. StoreInv' /\ Public(rels)' = Public(rels)
    BY <1>0, <2>1, StoreUnchanged
  <2>3. RunInv(p)'
    BY <1>0, <2>1, <2>2 DEF RunInv, CreatingP, KnownP, VerifiedP, ReturnedP
  <2> QED
    BY <1>0, <2>1, <2>2, <2>3, OneRunMoves
<1>6. ASSUME NEW p \in Publishers, GhError(p) \/ Crash(p) PROVE IndInv'
  <2>1. /\ \A q \in Publishers \ {p} : pc'[q] = pc[q]
        /\ Active(p) /\ pc'[p] \in {"failed", "idle"}
        /\ UNCHANGED <<rels, lookup>>
    BY <1>0, <1>6 DEF GhError, Crash, Goto, TypeOK, Active
  <2>2. StoreInv' /\ Public(rels)' = Public(rels)
    BY <1>0, <2>1, StoreUnchanged
  <2> QED
    BY <1>0, <2>1, <2>2, FailedRun, OneRunMoves
<1>7. ASSUME NEW p \in Publishers, CreateDraft(p) PROVE IndInv'
  <2>1. PICK i \in ReleaseIds :
          NewDraft(i) /\ state' = [state EXCEPT ![p] = [id |-> i, draft |-> TRUE]]
    BY <1>7 DEF CreateDraft
  <2>2. /\ \A q \in Publishers \ {p} : pc'[q] = pc[q]
        /\ Active(p) /\ pc[p] = "create" /\ pc'[p] = "assets" /\ UNCHANGED lookup
    BY <1>0, <1>7 DEF CreateDraft, Goto, TypeOK, Active
  <2>3. StoreInv' /\ Public(rels) = {} /\ rels'[i].st = "draft"
    BY <2>1, <2>2, CreateStore
  <2>4. state'[p] = [id |-> i, draft |-> TRUE]
    BY <1>0, <2>1 DEF TypeOK
  <2>5. RunInv(p)'
    BY <2>2, <2>3, <2>4 DEF RunInv, CreatingP, KnownP, VerifiedP, ReturnedP
  <2> QED
    BY <1>0, <2>2, <2>3, <2>5, OneRunMoves
<1>8. ASSUME NEW p \in Publishers, GhLostCreate(p) PROVE IndInv'
  <2>1. PICK i \in ReleaseIds : NewDraft(i)
    BY <1>8 DEF GhLostCreate
  <2>2. /\ \A q \in Publishers \ {p} : pc'[q] = pc[q]
        /\ Active(p) /\ pc[p] = "create" /\ pc'[p] \in {"create", "failed"}
        /\ UNCHANGED lookup
    BY <1>0, <1>8, BackoffType DEF GhLostCreate, Active
  <2>3. StoreInv' /\ Public(rels) = {} /\ CreatingP(p)'
    BY <2>1, <2>2, CreateStore
  <2>4. RunInv(p)'
    BY <2>2, <2>3 DEF RunInv, KnownP, VerifiedP, ReturnedP
  <2> QED
    BY <1>0, <2>2, <2>3, <2>4, OneRunMoves
<1>9. ASSUME NEW p \in Publishers, UploadBatch(p) \/ UploadBroken(p) PROVE IndInv'
  <2>1. /\ \A q \in Publishers \ {p} : pc'[q] = pc[q]
        /\ Active(p) /\ pc[p] = "upload" /\ pc'[p] \in {"assets", "failed"}
        /\ UNCHANGED <<lookup, state, tool>>
        /\ Uploadable(p)
    BY <1>0, <1>9 DEF UploadBatch, UploadBroken, Uploadable, Goto, TypeOK,
                      Active, runVars
  <2>2. \E whole, torn \in SUBSET Batch(missing[p]) : PutAssets(p, whole, torn)
    <3>1. CASE UploadBatch(p)
      BY <3>1 DEF UploadBatch
    <3>2. CASE UploadBroken(p)
      BY <3>2 DEF UploadBroken
    <3> QED
      BY <1>9, <3>1, <3>2
  <2>3. /\ StoreInv' /\ Public(rels)' = Public(rels)
        /\ \A i \in ReleaseIds : rels'[i].st = rels[i].st
    BY <2>1, <2>2, UploadStore
  <2>4. state[p].id \in ReleaseIds
    BY <1>0 DEF TypeOK
  <2>5. RunInv(p)'
    BY <1>0, <2>1, <2>3, <2>4 DEF RunInv, CreatingP, KnownP, VerifiedP, ReturnedP
  <2> QED
    BY <1>0, <2>1, <2>3, <2>5, OneRunMoves
<1>10. ASSUME NEW p \in Publishers, Edit(p) \/ GhLostEdit(p) PROVE IndInv'
  <2>1. /\ \A q \in Publishers \ {p} : pc'[q] = pc[q]
        /\ Active(p) /\ pc[p] = "edit" /\ pc'[p] \in {"edit", "failed", "done"}
        /\ UNCHANGED <<lookup, state, tool>>
        /\ Publicise
    <3>1. CASE Edit(p)
      BY <1>0, <3>1 DEF Edit, Goto, TypeOK, Active
    <3>2. CASE GhLostEdit(p)
      BY <1>0, <3>2, BackoffType DEF GhLostEdit, Active
    <3> QED
      BY <1>10, <3>1, <3>2
  <2>2. /\ StoreInv' /\ Public(rels)' # {}
        /\ \A i \in ReleaseIds : rels'[i].assets = rels[i].assets
        /\ rels'[state[p].id].st = "public"
        /\ rels[state[p].id].assets = Snapshot(tool[p])
    BY <2>1, EditStore
  <2>3. state[p].id \in ReleaseIds
    BY <1>0 DEF TypeOK
  <2>4. RunInv(p)'
    BY <2>1, <2>2, <2>3 DEF RunInv, CreatingP, KnownP, VerifiedP, ReturnedP
  <2> QED
    BY <1>0, <2>1, <2>2, <2>4, OneRunMoves
<1>11. ASSUME NEW i \in ReleaseIds, NEW n \in Foreign, AttachByHand(i, n)
       PROVE IndInv'
  <2>1. /\ \A q \in Publishers : pc'[q] = pc[q] /\ pc[q] \notin Working
        /\ UNCHANGED lookup
        /\ rels[i].st = "draft"
    BY <1>11 DEF AttachByHand, GroupFree, Active
  <2>2. /\ \A j \in ReleaseIds : rels'[j].st = rels[j].st
        /\ \A j \in ReleaseIds : \A m \in Expected :
              rels'[j].assets[m] = rels[j].assets[m]
        /\ \A j \in ReleaseIds \ {i} : rels'[j] = rels[j]
    BY <1>0, <1>11, NamesAssumption DEF AttachByHand, TypeOK, Release, Foreign
  <2>3. Public(rels)' = Public(rels) /\ ByTag(rels, lookup)' = ByTag(rels, lookup)
    BY <2>1, <2>2, ByTagStable
  <2>4. StoreInv'
    <3>1. \A j \in ReleaseIds : Stored(rels'[j]) \cap Expected
                                = Stored(rels[j]) \cap Expected
      BY <2>2 DEF Stored
    <3>2. OneTarget'
      BY <1>0, <2>3, <3>1 DEF StoreInv, OneTarget
    <3>3. Uncreated' /\ PublicIsComplete'
      BY <1>0, <2>1, <2>2 DEF StoreInv, Uncreated, PublicIsComplete
    <3> QED
      BY <3>2, <3>3 DEF StoreInv
  <2>5. Serial'
    BY <2>1 DEF Serial, Active
  <2>6. \A q \in Publishers : RunInv(q)'
    BY <1>0, <2>1, <2>3 DEF RunInv, CreatingP, KnownP, VerifiedP, ReturnedP
  <2> QED
    BY <1>0, <2>4, <2>5, <2>6, InvPartsPrime
<1>12. CASE UNCHANGED vars
  <2>1. StoreInv' /\ Public(rels)' = Public(rels)
    BY <1>0, <1>12, StoreUnchanged DEF vars
  <2>2. Serial' /\ \A q \in Publishers : RunInv(q)'
    BY <1>0, <1>12, <2>1 DEF vars, IndInv, Serial, Active, RunInv, CreatingP,
                             KnownP, VerifiedP, ReturnedP
  <2> QED
    BY <1>0, <2>1, <2>2, InvPartsPrime
<1> QED
  BY <1>1, <1>2, <1>3, <1>4, <1>5, <1>6, <1>7, <1>8, <1>9, <1>10, <1>11, <1>12
  DEF Next, Step, Disturbance

-----------------------------------------------------------------------------
(* The inductive invariant holds in every reachable state. *)
THEOREM Invariance == Spec => []IndInv
<1>1. Init => IndInv
  BY InitInv
<1>2. IndInv /\ [Next]_vars => IndInv'
  BY NextInv
<1> QED
  BY <1>1, <1>2, PTL DEF Spec

(* Type correctness of the publisher. *)
THEOREM TypeCorrect == Spec => []TypeOK
<1>1. IndInv => TypeOK
  BY DEF IndInv
<1> QED
  BY <1>1, Invariance, PTL

(* A release everybody can see is the complete snapshot of one run. *)
THEOREM PublicReleasesComplete == Spec => []PublicIsComplete
<1>1. IndInv => PublicIsComplete
  BY DEF IndInv
<1> QED
  BY <1>1, Invariance, PTL

(* When publish() has returned, the tag serves a complete public release. *)
THEOREM ReturnMeansPublic == Spec => []ReturnedPublic
<1>1. IndInv => ReturnedPublic
  <2> SUFFICES ASSUME IndInv, NEW p \in Publishers, pc[p] = "done"
               PROVE  /\ Public(rels) # {}
                      /\ rels[ByTag(rels, lookup)].assets \in Complete
    BY DEF ReturnedPublic
  <2>1. Public(rels) # {} /\ TypeOK
    BY DEF IndInv, Returned
  <2>2. Existing(rels) # {}
    BY <2>1 DEF Public, Existing
  <2>3. ByTag(rels, lookup) \in Public(rels)
    BY <2>1, <2>2, ByTagExists
  <2> QED
    BY <2>1, <2>3 DEF Public, IndInv, PublicIsComplete
<1> QED
  BY <1>1, Invariance, PTL

-----------------------------------------------------------------------------
(* Every step of the publisher is a step of the promise, or changes no     *)
(* release at all.                                                         *)
LEMMA StepPromise == IndInv /\ [Next]_vars => [Promise!Next]_rels
<1> SUFFICES ASSUME IndInv, [Next]_vars PROVE [Promise!Next]_rels
  OBVIOUS
<1>0. TypeOK /\ TypeOK'
  BY NextType DEF IndInv
<1>1. ASSUME NEW p \in Publishers,
             \/ Start(p) \/ ListReleases(p) \/ ListAssets(p) \/ UploadRefused(p)
             \/ GhBusy(p) \/ GhError(p) \/ Crash(p)
      PROVE  rels' = rels
  BY <1>1 DEF Start, ListReleases, ListAssets, UploadRefused, GhBusy, GhError, Crash
<1>2. ASSUME NEW i \in ReleaseIds, NewDraft(i) PROVE Promise!Next
  BY <1>2 DEF NewDraft, NoAssets, Promise!Next, Promise!Create, Promise!Empty
<1>3. ASSUME NEW p \in Publishers, CreateDraft(p) \/ GhLostCreate(p)
      PROVE  Promise!Next
  <2>1. \E i \in ReleaseIds : NewDraft(i)
    BY <1>3 DEF CreateDraft, GhLostCreate
  <2> QED
    BY <1>2, <2>1
<1>4. ASSUME NEW p \in Publishers, UploadBatch(p) \/ UploadBroken(p)
      PROVE  Promise!Next \/ rels' = rels
  <2> DEFINE b == ByTag(rels, lookup)
  <2>1. Uploadable(p) /\ Existing(rels) # {} /\ UNCHANGED lookup
    BY <1>4, KnownExists DEF UploadBatch, UploadBroken, Uploadable, IndInv
  <2>2. \E whole, torn \in SUBSET Batch(missing[p]) : PutAssets(p, whole, torn)
    <3>1. CASE UploadBatch(p)
      BY <3>1 DEF UploadBatch
    <3>2. CASE UploadBroken(p)
      BY <3>2 DEF UploadBroken
    <3> QED
      BY <1>4, <3>1, <3>2
  <2>3. /\ \A i \in ReleaseIds : rels'[i].st = rels[i].st
        /\ \A i \in ReleaseIds \ {b} : rels'[i] = rels[i]
        /\ \A n \in Files \ Batch(missing[p]) : rels'[b].assets[n] = rels[b].assets[n]
    BY <1>0, <2>1, <2>2, PutEffect
  <2>4. b \in ReleaseIds /\ rels[b].st # "none"
    BY <1>0, <2>1, ByTagExists DEF Existing
  <2>5. \A n \in Files : rels[b].assets[n] # Absent
                           => rels'[b].assets[n] = rels[b].assets[n]
    BY <2>1, <2>3 DEF Uploadable, Stored
  <2>6. CASE rels[b].st = "draft"
    <3>1. Promise!Fill(b)
      BY <2>3, <2>4, <2>5, <2>6 DEF Promise!Fill, Promise!Extends
    <3> QED
      BY <2>4, <3>1 DEF Promise!Next
  <2>7. CASE rels[b].st = "public"
    <3>1. rels[b].assets \in Complete
      BY <2>4, <2>7 DEF IndInv, PublicIsComplete
    <3>2. Expected \subseteq Stored(rels[b])
      BY <3>1, SnapshotStored DEF Complete
    <3>3. Batch(missing[p]) = {}
      BY <1>0, <2>1, <3>2, BatchSubset DEF TypeOK, Uploadable
    <3>4. \A n \in Files : rels'[b].assets[n] = rels[b].assets[n]
      BY <2>3, <3>3
    <3>5. rels'[b] = rels[b]
      <4>1. rels[b] \in Release /\ rels'[b] \in Release
        BY <1>0, <2>4 DEF TypeOK
      <4>2. /\ rels[b].assets \in [Files -> Contents \cup {Absent, Torn}]
            /\ rels'[b].assets \in [Files -> Contents \cup {Absent, Torn}]
            /\ rels[b] = [st |-> rels[b].st, assets |-> rels[b].assets]
            /\ rels'[b] = [st |-> rels'[b].st, assets |-> rels'[b].assets]
        BY <4>1 DEF Release
      <4>3. rels'[b].assets = rels[b].assets
        BY <3>4, <4>2
      <4>4. rels'[b].st = rels[b].st
        BY <2>3, <2>4
      <4> QED
        BY <4>2, <4>3, <4>4
    <3>6. rels' = rels
      BY <1>0, <2>3, <3>5 DEF TypeOK
    <3> QED
      BY <3>6
  <2> QED
    BY <1>0, <2>4, <2>6, <2>7 DEF TypeOK, Release
<1>5. ASSUME NEW p \in Publishers, Edit(p) \/ GhLostEdit(p)
      PROVE  Promise!Next \/ rels' = rels
  <2> DEFINE b == ByTag(rels, lookup)
  <2>1. pc[p] = "edit" /\ Publicise /\ UNCHANGED lookup
    BY <1>5 DEF Edit, GhLostEdit
  <2>2. Existing(rels) # {}
    BY <1>0, <2>1, KnownExists DEF IndInv
  <2>3. b \in ReleaseIds /\ rels[b].st # "none"
    BY <1>0, <2>2, ByTagExists DEF Existing
  <2>4. rels[b].assets = Snapshot(tool[p]) /\ tool[p] \in Tools
    BY <1>0, <2>1, EditStore DEF TypeOK
  <2>5. rels' = [rels EXCEPT ![b].st = "public"]
    BY <2>1 DEF Publicise
  <2>6. CASE rels[b].st = "draft"
    <3>1. Promise!Expose(b)
      BY <2>4, <2>5, <2>6 DEF Promise!Expose, Complete
    <3> QED
      BY <2>3, <3>1 DEF Promise!Next
  <2>7. CASE rels[b].st = "public"
    BY <1>0, <2>3, <2>5, <2>7 DEF TypeOK, Release
  <2> QED
    BY <1>0, <2>3, <2>6, <2>7 DEF TypeOK, Release
<1>6. ASSUME NEW i \in ReleaseIds, NEW n \in Foreign, AttachByHand(i, n)
      PROVE  Promise!Next
  <2>1. /\ rels[i].st = "draft" /\ rels[i].assets[n] = Absent /\ n \in Files
        /\ rels'[i].st = "draft"
        /\ \A m \in Files \ {n} : rels'[i].assets[m] = rels[i].assets[m]
        /\ \A j \in ReleaseIds \ {i} : rels'[j] = rels[j]
    BY <1>0, <1>6 DEF AttachByHand, TypeOK, Release, Foreign
  <2>2. Promise!Fill(i)
    BY <2>1 DEF Promise!Fill, Promise!Extends
  <2> QED
    BY <2>2 DEF Promise!Next
<1>7. CASE UNCHANGED vars
  BY <1>7 DEF vars
<1> QED
  BY <1>1, <1>3, <1>4, <1>5, <1>6, <1>7 DEF Next, Step, Disturbance

(* publish-components.py implements ImmutableRelease: no interruption,     *)
(* retry, lost answer or hand-made change makes it clobber an asset, touch *)
(* a public release or expose an incomplete one.                           *)
THEOREM Refinement == Spec => PromiseKept
<1>1. Init => Promise!Init
  BY DEF Init, Promise!Init, Promise!Empty, NoAssets
<1>2. IndInv /\ [Next]_vars => [Promise!Next]_rels
  BY StepPromise
<1> QED
  BY <1>1, <1>2, Invariance, PTL DEF Spec, PromiseKept, Promise!Spec
=============================================================================
