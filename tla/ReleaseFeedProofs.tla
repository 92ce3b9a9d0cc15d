-------------------------- MODULE ReleaseFeedProofs --------------------------
(***************************************************************************)
(* Proofs about ReleaseFeed for every number of people, packages, Pythons, *)
(* releases and faults, and for every way the service resolves a tag.      *)
(***************************************************************************)
EXTENDS ReleaseFeed, FiniteSetTheorems, WellFoundedInduction, TLAPS

-----------------------------------------------------------------------------
(* The parts of the inductive invariant. *)

RunType == [tool : Tools, dir : [Files -> Contents \cup {Absent}], resealed : BOOLEAN,
            id : ReleaseIds, draft : BOOLEAN, missing : SUBSET Expected]

Types ==
  /\ rels \in [Tools -> [ReleaseIds -> Release]]
  /\ lookup \in [list : Lookups, tag : Lookups]
  /\ pc \in [Publishers -> Working \cup {"idle", "prepared", "done"}]
  /\ run \in [Publishers -> RunType]
  /\ faults \in 0 .. MaxFaults

(* What an asset can hold: only a person adds a name no run knows. *)
Genuine(t, i) ==
  \A n \in Files : rels[t][i].assets[n] \in
    IF n \in Expected THEN {Absent, Torn, Content(n, t)} ELSE {Absent, Changed}

AtMostOne(t) == \A i, j \in Existing(rels[t]) : i = j

ReleaseInv(t, i) ==
  /\ rels[t][i].st = "none" => rels[t][i].assets = NoAssets
  /\ Genuine(t, i)
  /\ AtMostOne(t) /\ rels[t][i].st = "public" => rels[t][i].assets = Snapshot(t)

(* What a run has learnt of the release it works on, while there is one. *)
Learnt(p) ==
  LET t == run[p].tool IN
  AtMostOne(t) =>
    \A i \in Existing(rels[t]) :
      /\ pc[p] \in {"compare", "upload", "edit"} =>
           /\ Stored(rels[t][i]) \subseteq Expected
           /\ Expected \ run[p].missing \subseteq Stored(rels[t][i])
      /\ pc[p] \in {"upload", "edit"} =>
           \A n \in Expected \ run[p].missing : rels[t][i].assets[n] = Content(n, t)

PublisherInv(p) ==
  /\ Active(p) => run[p].dir = Snapshot(run[p].tool)
  /\ pc[p] \in {"view", "assets", "compare", "upload", "edit"} => Existing(Here(p)) # {}
  /\ pc[p] \in {"assets", "compare"} =>
       /\ run[p].id \in Existing(Here(p))
       /\ ~run[p].draft => Here(p)[run[p].id].st = "public"
  /\ pc[p] = "upload" => run[p].missing # {}
  /\ pc[p] = "edit" => run[p].missing = {}
  /\ pc[p] = "compare" /\ ~run[p].draft /\ AtMostOne(run[p].tool) => run[p].missing = {}
  /\ Learnt(p)

IndInv ==
  /\ Types
  /\ \A t \in Tools, i \in ReleaseIds : ReleaseInv(t, i)
  /\ \A p \in Publishers : PublisherInv(p)
-----------------------------------------------------------------------------
(* The service. *)

LEMMA LookupIn ==
  ASSUME Types, NEW t \in Tools, Existing(rels[t]) # {}
  PROVE  /\ FirstListed(rels[t], lookup) \in Existing(rels[t])
         /\ ByTag(rels[t], lookup) \in Existing(rels[t])
         /\ Public(rels[t]) # {} => ByTag(rels[t], lookup) \in Public(rels[t])
<1>1. Existing(rels[t]) \in NonEmptySubsets
  BY DEF Existing, NonEmptySubsets
<1>2. Public(rels[t]) # {} => Public(rels[t]) \in NonEmptySubsets
  BY DEF Public, NonEmptySubsets
<1>3. Public(rels[t]) \subseteq Existing(rels[t])
  BY DEF Public, Existing
<1>4. lookup.list \in Lookups /\ lookup.tag \in Lookups
  BY DEF Types
<1> QED
  BY <1>1, <1>2, <1>3, <1>4, LookupsAssumption DEF FirstListed, ByTag

LEMMA SetRelease ==
  ASSUME Types, NEW t \in Tools, NEW i \in ReleaseIds, NEW x \in Release,
         rels' = [rels EXCEPT ![t][i] = x]
  PROVE  /\ rels' \in [Tools -> [ReleaseIds -> Release]]
         /\ rels'[t][i] = x
         /\ \A u \in Tools, j \in ReleaseIds : u # t \/ j # i => rels'[u][j] = rels[u][j]
BY DEF Types

(* sorted() has a first element. *)
LEMMA LeastMember ==
  ASSUME NEW T \in SUBSET Nat, T # {}
  PROVE  \E x \in T : \A y \in T : x <= y
<1> DEFINE R == OpToRel(<, Nat)
<1>1. IsWellFoundedOn(R, Nat)
  BY NatLessThanWellFounded
<1>2. \A x, y \in Nat : x < y => <<x, y>> \in R
  BY DEF OpToRel
<1> HIDE DEF R
<1>3. PICK x \in T : \A y \in T : ~(<<y, x>> \in R)
  BY <1>1, WFMin
<1>4. ASSUME NEW y \in T PROVE x <= y
  <2>1. x \in Nat /\ y \in Nat
    OBVIOUS
  <2>2. ~(y < x)
    BY <1>2, <1>3, <2>1
  <2> QED
    BY <2>1, <2>2
<1> QED
  BY <1>4

LEMMA NextFileMissing ==
  ASSUME Types, NEW p \in Publishers, run[p].missing # {}
  PROVE  NextFile(p) \in run[p].missing
<1> DEFINE ipks  == run[p].missing \cap Packages
           first == IF ipks # {} THEN ipks ELSE run[p].missing
<1>1. run[p].missing \subseteq Files
  BY ToolsAssumption DEF Types, RunType
<1>2. first \in SUBSET Nat /\ first # {} /\ first \subseteq run[p].missing
  BY <1>1, FilesAssumption
<1>3. NextFile(p) = CHOOSE n \in first : \A m \in first : n <= m
  BY DEF NextFile
<1> HIDE DEF first
<1>4. \E n \in first : \A m \in first : n <= m
  BY <1>2, LeastMember
<1> QED
  BY <1>2, <1>3, <1>4

(* The checks of publish() leave only the snapshot. *)
LEMMA VerifiedSnapshot ==
  ASSUME NEW d \in [Files -> Contents \cup {Absent}], NEW r \in BOOLEAN, NEW t \in Tools,
         Verified(d, r, t)
  PROVE  d = Snapshot(t)
<1>1. \A n \in Files : n \in Expected => d[n] = Content(n, t)
  BY DEF Verified, Expected, Content
<1>2. \A n \in Files : n \notin Expected => d[n] = Absent
  BY DEF Verified
<1> QED
  BY <1>1, <1>2 DEF Snapshot

LEMMA ContentTypes ==
  ASSUME NEW t \in Tools
  PROVE  /\ Snapshot(t) \in [Files -> Contents \cup {Absent}]
         /\ \A n \in Files : Content(n, t) \in Contents /\ Content(n, t) # Absent
         /\ \A n \in Expected : Snapshot(t)[n] = Content(n, t)
         /\ Changed \in Contents
<1>1. \A n \in Files : Content(n, t) \in Contents /\ Content(n, t) # Absent
  BY ContentAssumption, ContentsAssumption DEF Content
<1> QED
  BY <1>1, ContentAssumption, ToolsAssumption DEF Snapshot

-----------------------------------------------------------------------------
(* Releases only grow. *)

Grows ==
  \A t \in Tools, i \in ReleaseIds :
    /\ rels[t][i].st # "none" => rels'[t][i].st # "none"
    /\ rels[t][i].st = "public" => rels'[t][i].st = "public"
    /\ \A n \in Files : rels[t][i].assets[n] # Absent
                          => rels'[t][i].assets[n] = rels[t][i].assets[n]

NoForeign ==
  \A t \in Tools, i \in ReleaseIds, n \in Foreign : rels'[t][i].assets[n] = rels[t][i].assets[n]

LEMMA StaysOne ==
  ASSUME Grows, NEW t \in Tools, AtMostOne(t)'
  PROVE  AtMostOne(t)
BY DEF Grows, AtMostOne, Existing

LEMMA LearntFrame ==
  ASSUME Types, Grows, NEW q \in Publishers, PublisherInv(q), NoForeign \/ ~Active(q),
         pc'[q] = pc[q], run'[q] = run[q]
  PROVE  Learnt(q)'
<1>0. PICK t \in Tools : t = run[q].tool /\ run[q].missing \subseteq Expected
  BY DEF Types, RunType
<1>a. t = run'[q].tool
  BY <1>0
<1> SUFFICES ASSUME AtMostOne(t)', NEW i \in Existing(rels'[t]),
                    pc[q] \in {"compare", "upload", "edit"}
             PROVE  /\ Stored(rels'[t][i]) \subseteq Expected
                    /\ Expected \ run[q].missing \subseteq Stored(rels'[t][i])
                    /\ pc[q] \in {"upload", "edit"} =>
                         \A n \in Expected \ run[q].missing : rels'[t][i].assets[n] = Content(n, t)
  BY <1>a DEF Learnt
<1>1. AtMostOne(t)
  BY <1>0, StaysOne
<1>2. i \in Existing(rels[t])
  <2>1. PICK j \in Existing(rels[t]) : TRUE
    BY <1>0 DEF PublisherInv, Here, TagOf
  <2>2. j \in Existing(rels'[t])
    BY <1>0, <2>1 DEF Grows, Existing
  <2> QED
    BY <2>1, <2>2 DEF AtMostOne
<1>3. i \in ReleaseIds
  BY DEF Existing
<1>4. /\ Stored(rels[t][i]) \subseteq Expected
      /\ Expected \ run[q].missing \subseteq Stored(rels[t][i])
      /\ pc[q] \in {"upload", "edit"} =>
           \A n \in Expected \ run[q].missing : rels[t][i].assets[n] = Content(n, t)
  BY <1>0, <1>1, <1>2 DEF PublisherInv, Learnt
<1>5. Active(q)
  BY DEF Active, Working
<1>6. \A n \in Files : n \notin Expected => rels'[t][i].assets[n] = rels[t][i].assets[n]
  BY <1>0, <1>3, <1>5 DEF NoForeign, Foreign
<1>7. \A n \in Files : rels[t][i].assets[n] # Absent => rels'[t][i].assets[n] = rels[t][i].assets[n]
  BY <1>0, <1>3 DEF Grows
<1>8. Stored(rels'[t][i]) \subseteq Expected
  BY <1>4, <1>6 DEF Stored
<1>9. Expected \ run[q].missing \subseteq Stored(rels'[t][i])
  BY <1>4, <1>7 DEF Stored
<1>10. \A n \in Expected \ run[q].missing : rels'[t][i].assets[n] = rels[t][i].assets[n]
  BY <1>4, <1>7 DEF Stored
<1> QED
  BY <1>4, <1>8, <1>9, <1>10

(* What a run knows stays true while others work. *)
LEMMA PublisherFrame ==
  ASSUME Types, Grows, NEW q \in Publishers, PublisherInv(q), NoForeign \/ ~Active(q),
         pc'[q] = pc[q], run'[q] = run[q]
  PROVE  PublisherInv(q)'
<1>1. Learnt(q)'
  BY LearntFrame
<1>2. run[q].tool \in Tools /\ run[q].id \in ReleaseIds
  BY DEF Types, RunType
<1>3. Here(q)' = rels'[run[q].tool] /\ Here(q) = rels[run[q].tool]
  BY DEF Here, TagOf
<1>4. /\ Existing(Here(q)) # {} => Existing(Here(q)') # {}
      /\ run[q].id \in Existing(Here(q)) => run[q].id \in Existing(Here(q)')
      /\ Here(q)[run[q].id].st = "public" => Here(q)'[run[q].id].st = "public"
  BY <1>2, <1>3 DEF Grows, Existing
<1>5. Active(q)' = Active(q)
  BY DEF Active
<1>6. AtMostOne(run[q].tool)' => AtMostOne(run[q].tool)
  <2>1. PICK t \in Tools : t = run[q].tool /\ t = run'[q].tool
    BY <1>2
  <2>2. AtMostOne(t)' => AtMostOne(t)
    BY StaysOne
  <2> QED
    BY <2>1, <2>2 DEF AtMostOne
<1> QED
  BY <1>1, <1>4, <1>5, <1>6 DEF PublisherInv, Existing

LEMMA GrowsSame == ASSUME UNCHANGED rels PROVE Grows /\ NoForeign
BY DEF Grows, NoForeign

(* A step of p: the others keep their place and their run. *)
Only(p) == \A q \in Publishers : q # p => pc'[q] = pc[q] /\ run'[q] = run[q]

LEMMA RunMoves ==
  ASSUME Types, NEW p \in Publishers,
         NEW l \in Working \cup {"idle", "prepared", "done"}, NEW r \in RunType,
         pc' = [pc EXCEPT ![p] = l], run' = [run EXCEPT ![p] = r]
  PROVE  /\ pc' \in [Publishers -> Working \cup {"idle", "prepared", "done"}]
         /\ run' \in [Publishers -> RunType]
         /\ pc'[p] = l /\ run'[p] = r
         /\ Only(p)
BY DEF Types, Only

LEMMA SameRun ==
  ASSUME Types, NEW p \in Publishers, UNCHANGED run
  PROVE  run' = [run EXCEPT ![p] = run[p]] /\ run[p] \in RunType
BY DEF Types

LEMMA FreshType ==
  ASSUME NEW t \in Tools, NEW d \in [Files -> Contents \cup {Absent}]
  PROVE  Fresh(t, d) \in RunType
<1>1. AnyId \in ReleaseIds
  BY ToolsAssumption DEF AnyId
<1>2. FALSE \in BOOLEAN
  BY Zenon
<1> QED
  BY <1>1, <1>2 DEF Fresh, RunType

LEMMA NoRunType == NoRun \in RunType
<1>1. (CHOOSE t \in Tools : TRUE) \in Tools
  BY ToolsAssumption
<1>2. NoAssets \in [Files -> Contents \cup {Absent}]
  BY DEF NoAssets
<1> QED
  BY <1>1, <1>2, FreshType DEF NoRun

(* A run that is over claims nothing. *)
LEMMA FailInv ==
  ASSUME Types, NEW p \in Publishers, Fail(p)
  PROVE  /\ pc' \in [Publishers -> Working \cup {"idle", "prepared", "done"}]
         /\ run' \in [Publishers -> RunType]
         /\ pc'[p] = "idle" /\ Only(p)
         /\ PublisherInv(p)'
<1>1. pc' = [pc EXCEPT ![p] = "idle"] /\ run' = [run EXCEPT ![p] = NoRun]
  BY DEF Fail, Goto
<1>2. pc'[p] = "idle"
  BY <1>1, NoRunType, RunMoves
<1>3. PublisherInv(p)'
  BY <1>2 DEF PublisherInv, Learnt, Active, Working
<1> QED
  BY <1>1, <1>3, NoRunType, RunMoves

LEMMA Assemble ==
  ASSUME IndInv, Types', Grows, NoForeign, NEW p \in Publishers, Only(p), PublisherInv(p)',
         \A t \in Tools, i \in ReleaseIds : ReleaseInv(t, i)'
  PROVE  IndInv'
<1>1. ASSUME NEW q \in Publishers PROVE PublisherInv(q)'
  <2>1. CASE q = p
    BY <2>1
  <2>2. CASE q # p
    BY <2>2, PublisherFrame DEF IndInv, Only
  <2> QED
    BY <2>1, <2>2
<1> QED
  BY <1>1 DEF IndInv

(* Steps that leave every release alone. *)
LEMMA Quiet ==
  ASSUME IndInv, NEW p \in Publishers, UNCHANGED <<rels, lookup>>, Only(p), PublisherInv(p)',
         pc' \in [Publishers -> Working \cup {"idle", "prepared", "done"}],
         run' \in [Publishers -> RunType], faults' \in 0 .. MaxFaults
  PROVE  IndInv'
<1>1. Types'
  BY DEF IndInv, Types
<1>2. \A t \in Tools, i \in ReleaseIds : ReleaseInv(t, i)'
  BY DEF IndInv, ReleaseInv, Genuine, AtMostOne, Existing
<1> QED
  BY <1>1, <1>2, GrowsSame, Assemble

(* Steps that give one release a new value. *)
LEMMA OneRelease ==
  ASSUME IndInv, Grows, NEW t \in Tools, NEW i \in ReleaseIds, NEW x \in Release,
         rels' = [rels EXCEPT ![t][i] = x],
         x.st # "none",
         \A n \in Files : x.assets[n] \in
           IF n \in Expected THEN {Absent, Torn, Content(n, t)} ELSE {Absent, Changed},
         AtMostOne(t) /\ x.st = "public" => x.assets = Snapshot(t)
  PROVE  \A u \in Tools, j \in ReleaseIds : ReleaseInv(u, j)'
<1> SUFFICES ASSUME NEW u \in Tools, NEW j \in ReleaseIds PROVE ReleaseInv(u, j)'
  OBVIOUS
<1>0. Types /\ ReleaseInv(u, j)
  BY DEF IndInv
<1>1. AtMostOne(u)' => AtMostOne(u)
  BY StaysOne
<1>2. CASE u = t /\ j = i
  <2>1. rels'[u][j] = x
    BY <1>0, <1>2, SetRelease
  <2> QED
    BY <1>1, <1>2, <2>1 DEF ReleaseInv, Genuine
<1>3. CASE u # t \/ j # i
  <2>1. rels'[u][j] = rels[u][j]
    BY <1>0, <1>3, SetRelease
  <2> QED
    BY <1>0, <1>1, <2>1 DEF ReleaseInv, Genuine
<1> QED
  BY <1>2, <1>3

LEMMA FaultTypes == ASSUME Types, Fault PROVE faults' \in 0 .. MaxFaults
BY MaxFaultsAssumption DEF Types, Fault

-----------------------------------------------------------------------------
(* One step per action. *)

LEMMA InitInv == Init => IndInv
<1> SUFFICES ASSUME Init PROVE IndInv
  OBVIOUS
<1>1. Types
  <2>1. NoAssets \in [Files -> Contents \cup {Absent, Torn}]
    BY DEF NoAssets
  <2>2. rels \in [Tools -> [ReleaseIds -> Release]]
    BY <2>1 DEF Init, Release
  <2> QED
    BY <2>2, NoRunType, MaxFaultsAssumption DEF Init, Types
<1>2. ASSUME NEW t \in Tools, NEW i \in ReleaseIds PROVE ReleaseInv(t, i)
  BY DEF Init, ReleaseInv, Genuine, NoAssets
<1>3. ASSUME NEW p \in Publishers PROVE PublisherInv(p)
  <2>1. pc[p] = "idle"
    BY DEF Init
  <2> QED
    BY <2>1 DEF PublisherInv, Learnt, Active, Working
<1> QED
  BY <1>1, <1>2, <1>3 DEF IndInv

(* The places of a run that claim nothing about a release. *)
LEMMA Unbound ==
  ASSUME NEW p, pc'[p] \in {"idle", "prepared", "done"}
  PROVE  PublisherInv(p)'
BY DEF PublisherInv, Learnt, Active, Working

LEMMA FailStep ==
  ASSUME IndInv, NEW p \in Publishers, Fail(p), UNCHANGED <<rels, lookup>>,
         faults' \in 0 .. MaxFaults
  PROVE  IndInv'
<1>1. Types
  BY DEF IndInv
<1> QED
  BY <1>1, FailInv, Quiet

LEMMA PrepareStep ==
  ASSUME IndInv, NEW p \in Publishers, PrepareSome(p) PROVE IndInv'
<1>0. Types
  BY DEF IndInv
<1>1. PICK t \in Tools, found \in [Packages -> 0 .. 2] : Prepare(p, t, found)
  BY DEF PrepareSome
<1>2. Fresh(t, Snapshot(t)) \in RunType
  BY ContentTypes, FreshType
<1>3. /\ pc' = [pc EXCEPT ![p] = "prepared"] /\ run' = [run EXCEPT ![p] = Fresh(t, Snapshot(t))]
      /\ UNCHANGED <<rels, lookup, faults>>
  BY <1>1 DEF Prepare, Goto
<1>4. /\ pc' \in [Publishers -> Working \cup {"idle", "prepared", "done"}]
      /\ run' \in [Publishers -> RunType] /\ pc'[p] = "prepared" /\ Only(p)
  BY <1>0, <1>2, <1>3, RunMoves
<1>5. PublisherInv(p)' /\ faults' \in 0 .. MaxFaults
  BY <1>0, <1>3, <1>4, Unbound DEF Types
<1> QED
  BY <1>3, <1>4, <1>5, Quiet

LEMMA DamageStep ==
  ASSUME IndInv, NEW p \in Publishers, Damage(p) PROVE IndInv'
<1>0. Types /\ Fault /\ pc[p] = "prepared" /\ UNCHANGED <<rels, lookup, pc>>
  BY DEF IndInv, Damage
<1>1. PICK n \in Files, c \in {Changed, Absent}, z \in BOOLEAN :
        run' = [run EXCEPT ![p].dir[n] = c, ![p].resealed = z]
  BY DEF Damage
<1> DEFINE r == [run[p] EXCEPT !.dir[n] = c, !.resealed = z]
<1>2. run' = [run EXCEPT ![p] = r]
  BY <1>0, <1>1 DEF Types
<1>3. c \in Contents \cup {Absent}
  BY ContentAssumption
<1>4. r \in RunType
  BY <1>0, <1>3 DEF Types, RunType
<1>5. pc' = [pc EXCEPT ![p] = "prepared"]
  BY <1>0 DEF Types
<1> HIDE DEF r
<1>6. /\ pc' \in [Publishers -> Working \cup {"idle", "prepared", "done"}]
      /\ run' \in [Publishers -> RunType] /\ pc'[p] = "prepared" /\ Only(p)
  BY <1>0, <1>2, <1>4, <1>5, RunMoves
<1>7. PublisherInv(p)' /\ faults' \in 0 .. MaxFaults
  BY <1>0, <1>6, Unbound, FaultTypes
<1> QED
  BY <1>0, <1>6, <1>7, Quiet

(* The directory that goes on is the snapshot. *)
LEMMA StartStep ==
  ASSUME IndInv, NEW p \in Publishers, Start(p) PROVE IndInv'
<1>0. Types /\ UNCHANGED <<rels, lookup, faults>> /\ faults' \in 0 .. MaxFaults
  BY DEF IndInv, Start, Types
<1>1. CASE Verified(run[p].dir, run[p].resealed, run[p].tool)
  <2>1. pc' = [pc EXCEPT ![p] = "publish"] /\ UNCHANGED run
    BY <1>1 DEF Start, Goto
  <2>2. run[p] \in RunType /\ run' = [run EXCEPT ![p] = run[p]]
    BY <1>0, <2>1, SameRun
  <2>3. run[p].dir = Snapshot(run[p].tool)
    BY <1>1, <2>2, VerifiedSnapshot DEF RunType
  <2>4. "publish" \in Working
    BY DEF Working
  <2>5. /\ pc' \in [Publishers -> Working \cup {"idle", "prepared", "done"}]
        /\ run' \in [Publishers -> RunType] /\ pc'[p] = "publish" /\ run'[p] = run[p] /\ Only(p)
    BY <1>0, <2>1, <2>2, <2>4, RunMoves
  <2>6. PublisherInv(p)'
    BY <2>3, <2>5 DEF PublisherInv, Learnt
  <2> QED
    BY <1>0, <2>5, <2>6, Quiet
<1>2. CASE ~Verified(run[p].dir, run[p].resealed, run[p].tool)
  BY <1>0, <1>2, FailStep DEF Start
<1> QED
  BY <1>1, <1>2

LEMMA StopStep ==
  ASSUME IndInv, NEW p \in Publishers, Stop(p) PROVE IndInv'
<1>1. Types /\ Fault /\ Fail(p) /\ UNCHANGED <<rels, lookup>>
  BY DEF IndInv, Stop
<1>2. faults' \in 0 .. MaxFaults
  BY <1>1, FaultTypes
<1> QED
  BY <1>1, <1>2, FailStep

(* `release' is read: a release without the draft flag is public. *)
LEMMA ReadStep ==
  ASSUME IndInv, NEW p \in Publishers, Active(p), NEW i \in Existing(Here(p)), Read(p, i),
         Goto(p, "assets"), UNCHANGED <<rels, lookup, faults>>
  PROVE  IndInv'
<1> DEFINE d == Here(p)[i].st = "draft"
           r == [run[p] EXCEPT !.id = i, !.draft = d]
<1>0. Types /\ faults' \in 0 .. MaxFaults /\ PublisherInv(p)
  BY DEF IndInv, Types
<1>1. run' = [run EXCEPT ![p] = r]
  BY <1>0 DEF Read, Types
<1>2. d \in BOOLEAN
  BY Zenon
<1>3. i \in ReleaseIds
  BY DEF Existing
<1>4. Here(p)[i].st \in {"none", "draft", "public"} /\ Here(p)[i].st # "none"
  BY <1>0, <1>3 DEF Types, Here, TagOf, Release, Existing, RunType
<1>5. ~d => Here(p)[i].st = "public"
  BY <1>4
<1> HIDE DEF d
<1>6. /\ r \in RunType
      /\ r.tool = run[p].tool /\ r.dir = run[p].dir /\ r.id = i /\ r.draft = d
  BY <1>0, <1>2, <1>3 DEF Types, RunType
<1> HIDE DEF r
<1>7. pc' = [pc EXCEPT ![p] = "assets"] /\ "assets" \in Working
  BY DEF Goto, Working
<1>8. /\ pc' \in [Publishers -> Working \cup {"idle", "prepared", "done"}]
      /\ run' \in [Publishers -> RunType] /\ pc'[p] = "assets" /\ run'[p] = r /\ Only(p)
  BY <1>0, <1>1, <1>6, <1>7, RunMoves
<1>9. Here(p)' = Here(p)
  BY <1>6, <1>8 DEF Here, TagOf
<1>10. PublisherInv(p)'
  <2>1. run'[p].dir = Snapshot(run'[p].tool)
    BY <1>0, <1>6, <1>8 DEF PublisherInv
  <2>2. Existing(Here(p)') # {} /\ run'[p].id \in Existing(Here(p)')
    BY <1>6, <1>8, <1>9
  <2>3. ~run'[p].draft => Here(p)'[run'[p].id].st = "public"
    BY <1>5, <1>6, <1>8, <1>9
  <2> QED
    BY <1>8, <2>1, <2>2, <2>3 DEF PublisherInv, Learnt, Existing
<1> QED
  BY <1>0, <1>8, <1>10, Quiet

LEMMA ListReleasesStep ==
  ASSUME IndInv, NEW p \in Publishers, ListReleases(p) PROVE IndInv'
<1>0. /\ Types /\ PublisherInv(p) /\ UNCHANGED <<rels, lookup, faults>>
      /\ faults' \in 0 .. MaxFaults /\ Active(p)
  BY DEF IndInv, ListReleases, Types, Active, Working
<1>1. CASE Existing(Here(p)) = {}
  <2>1. pc' = [pc EXCEPT ![p] = "create"] /\ UNCHANGED run /\ "create" \in Working
    BY <1>1 DEF ListReleases, Goto, Working
  <2>2. run[p] \in RunType /\ run' = [run EXCEPT ![p] = run[p]]
    BY <1>0, <2>1, SameRun
  <2>3. /\ pc' \in [Publishers -> Working \cup {"idle", "prepared", "done"}]
        /\ run' \in [Publishers -> RunType] /\ pc'[p] = "create" /\ run'[p] = run[p] /\ Only(p)
    BY <1>0, <2>1, <2>2, RunMoves
  <2>4. PublisherInv(p)'
    BY <1>0, <2>3 DEF PublisherInv, Learnt
  <2> QED
    BY <1>0, <2>3, <2>4, Quiet
<1>2. CASE Existing(Here(p)) # {}
  <2>1. run[p].tool \in Tools
    BY <1>0 DEF Types, RunType
  <2>2. FirstListed(Here(p), lookup) \in Existing(Here(p))
    BY <1>0, <1>2, <2>1, LookupIn DEF Here, TagOf
  <2>3. Goto(p, "assets") /\ Read(p, FirstListed(Here(p), lookup))
    BY <1>2 DEF ListReleases
  <2> QED
    BY <1>0, <2>2, <2>3, ReadStep
<1> QED
  BY <1>1, <1>2

LEMMA ViewStep ==
  ASSUME IndInv, NEW p \in Publishers, View(p) PROVE IndInv'
<1>1. /\ Types /\ PublisherInv(p) /\ UNCHANGED <<rels, lookup, faults>> /\ Active(p)
      /\ Read(p, ByTag(Here(p), lookup)) /\ Goto(p, "assets") /\ pc[p] = "view"
  BY DEF IndInv, View, Active, Working
<1>2. run[p].tool \in Tools /\ Existing(Here(p)) # {}
  BY <1>1 DEF Types, RunType, PublisherInv
<1>3. ByTag(Here(p), lookup) \in Existing(Here(p))
  BY <1>1, <1>2, LookupIn DEF Here, TagOf
<1> QED
  BY <1>1, <1>3, ReadStep

(* The assets that are there are not missing. *)
LEMMA ListAssetsStep ==
  ASSUME IndInv, NEW p \in Publishers, ListAssets(p) PROVE IndInv'
<1>0. /\ Types /\ PublisherInv(p) /\ UNCHANGED <<rels, lookup, faults>>
      /\ faults' \in 0 .. MaxFaults /\ Active(p) /\ pc[p] = "assets"
  BY DEF IndInv, ListAssets, Types, Active, Working
<1> DEFINE rel == Here(p)[run[p].id]
           mis == Expected \ Stored(rel)
           r   == [run[p] EXCEPT !.missing = mis]
<1>1. CASE Stored(rel) \subseteq Expected
  <2>1. /\ pc' = [pc EXCEPT ![p] = "compare"] /\ "compare" \in Working
        /\ run' = [run EXCEPT ![p].missing = mis]
    BY <1>1 DEF ListAssets, Goto, Working
  <2>2. run' = [run EXCEPT ![p] = r]
    BY <1>0, <2>1 DEF Types
  <2>3. /\ r \in RunType /\ r.missing = mis
        /\ r.tool = run[p].tool /\ r.dir = run[p].dir /\ r.id = run[p].id /\ r.draft = run[p].draft
    <3> HIDE DEF rel
    <3> QED BY <1>0 DEF Types, RunType
  <2> HIDE DEF r
  <2>4. /\ pc' \in [Publishers -> Working \cup {"idle", "prepared", "done"}]
        /\ run' \in [Publishers -> RunType] /\ pc'[p] = "compare" /\ run'[p] = r /\ Only(p)
    BY <1>0, <2>1, <2>2, <2>3, RunMoves
  <2>5. Here(p)' = Here(p) /\ Here(p) = rels[run[p].tool] /\ Existing(Here(p))' = Existing(Here(p))
    BY <1>0, <2>3, <2>4 DEF Here, TagOf, Existing
  <2>6. Learnt(p)'
    <3>1. PICK t \in Tools : t = run[p].tool /\ t = run'[p].tool
      BY <1>0, <2>3, <2>4 DEF Types, RunType
    <3> SUFFICES ASSUME AtMostOne(t)', NEW i \in Existing(rels[t])
                   PROVE  /\ Stored(rels[t][i]) \subseteq Expected
                          /\ Expected \ run'[p].missing \subseteq Stored(rels[t][i])
      BY <1>0, <2>4, <3>1 DEF Learnt
    <3>3. AtMostOne(t)
      BY <1>0, <3>1, GrowsSame, StaysOne
    <3>4. i = run[p].id
      BY <1>0, <2>5, <3>1, <3>3 DEF PublisherInv, AtMostOne
    <3>5. rels[t][i] = rel
      BY <2>5, <3>1, <3>4
    <3> QED
      BY <1>1, <2>3, <2>4, <3>5
  <2>7. ~run[p].draft /\ AtMostOne(run[p].tool)' => mis = {}
    <3> SUFFICES ASSUME ~run[p].draft, AtMostOne(run[p].tool)' PROVE mis = {}
      OBVIOUS
    <3>1. PICK t \in Tools : t = run[p].tool /\ t = run'[p].tool
      BY <1>0, <2>3, <2>4 DEF Types, RunType
    <3>2. AtMostOne(t)
      BY <1>0, <3>1 DEF AtMostOne
    <3>3. rel.st = "public" /\ run[p].id \in ReleaseIds /\ rel = rels[t][run[p].id]
      BY <1>0, <2>5, <3>1 DEF PublisherInv, Types, RunType
    <3>4. rel.assets = Snapshot(t)
      BY <3>2, <3>3 DEF IndInv, ReleaseInv
    <3> QED
      BY <3>4, ContentTypes, ToolsAssumption DEF Stored
  <2>8. PublisherInv(p)'
    BY <1>0, <2>3, <2>4, <2>5, <2>6, <2>7 DEF PublisherInv
  <2> QED
    BY <1>0, <2>4, <2>8, Quiet
<1>2. CASE ~(Stored(rel) \subseteq Expected)
  BY <1>0, <1>2, FailStep DEF ListAssets
<1> QED
  BY <1>1, <1>2

(* What was compared is what the release holds. *)
LEMMA CompareStep ==
  ASSUME IndInv, NEW p \in Publishers, Compare(p) PROVE IndInv'
<1>0. /\ Types /\ PublisherInv(p) /\ UNCHANGED <<rels, lookup, faults>>
      /\ faults' \in 0 .. MaxFaults /\ Active(p) /\ pc[p] = "compare"
  BY DEF IndInv, Compare, Types, Active, Working
<1>1. CASE Same(p) /\ AfterCompare(p) # "idle"
  <2>1. PICK l : l = AfterCompare(p)
    OBVIOUS
  <2>2. /\ l \in {"upload", "edit", "done"}
        /\ l = "upload" => run[p].missing # {}
        /\ l = "edit" => run[p].missing = {}
    BY <1>1, <2>1 DEF AfterCompare
  <2>3. pc' = [pc EXCEPT ![p] = l] /\ UNCHANGED run
    BY <1>1, <2>1 DEF Compare, Goto
  <2>4. run[p] \in RunType /\ run' = [run EXCEPT ![p] = run[p]]
    BY <1>0, <2>3, SameRun
  <2>5. l \in Working \cup {"idle", "prepared", "done"}
    BY <2>2 DEF Working
  <2>6. /\ pc' \in [Publishers -> Working \cup {"idle", "prepared", "done"}]
        /\ run' \in [Publishers -> RunType] /\ pc'[p] = l /\ run'[p] = run[p] /\ Only(p)
    BY <1>0, <2>3, <2>4, <2>5, RunMoves
  <2>7. Here(p)' = Here(p) /\ Here(p) = rels[run[p].tool]
    BY <1>0, <2>6 DEF Here, TagOf
  <2>8. Learnt(p)'
    <3>1. PICK t \in Tools : t = run[p].tool /\ t = run'[p].tool
      BY <1>0, <2>6 DEF Types, RunType
    <3> SUFFICES ASSUME AtMostOne(t)', NEW i \in Existing(rels[t])
                   PROVE  /\ Stored(rels[t][i]) \subseteq Expected
                          /\ Expected \ run[p].missing \subseteq Stored(rels[t][i])
                          /\ \A n \in Expected \ run[p].missing : rels[t][i].assets[n] = Content(n, t)
      BY <1>0, <2>6, <3>1 DEF Learnt
    <3>3. AtMostOne(t)
      BY <1>0, <3>1, GrowsSame, StaysOne
    <3>4. i = ByTag(Here(p), lookup)
      BY <1>0, <2>7, <3>1, <3>3, LookupIn DEF AtMostOne
    <3>5. /\ Stored(rels[t][i]) \subseteq Expected
          /\ Expected \ run[p].missing \subseteq Stored(rels[t][i])
      BY <1>0, <3>1, <3>3 DEF PublisherInv, Learnt
    <3>6. run[p].dir = Snapshot(t)
      BY <1>0, <3>1 DEF PublisherInv
    <3>7. \A n \in Expected \ run[p].missing : rels[t][i].assets[n] = run[p].dir[n]
      BY <1>1, <2>7, <3>1, <3>4 DEF Same
    <3> QED
      BY <3>5, <3>6, <3>7, ContentTypes
  <2>9. PublisherInv(p)'
    <3>1. run'[p].dir = Snapshot(run'[p].tool) /\ Existing(Here(p)') # {}
      BY <1>0, <2>6, <2>7 DEF PublisherInv
    <3> QED
      BY <2>2, <2>6, <2>8, <3>1 DEF PublisherInv, Existing
  <2> QED
    BY <1>0, <2>6, <2>9, Quiet
<1>2. CASE ~(Same(p) /\ AfterCompare(p) # "idle")
  BY <1>0, <1>2, FailStep DEF Compare
<1> QED
  BY <1>1, <1>2

LEMMA CreateDraftStep ==
  ASSUME IndInv, NEW p \in Publishers, CreateDraft(p)
  PROVE  IndInv' /\ Grows /\ NoForeign
<1>0. Types /\ PublisherInv(p) /\ pc[p] = "create" /\ UNCHANGED lookup /\ Active(p)
  BY DEF IndInv, CreateDraft, Active, Working
<1> DEFINE x == [st |-> "draft", assets |-> NoAssets]
<1>1. PICK i \in ReleaseIds :
        /\ Here(p)[i].st = "none"
        /\ rels' = [rels EXCEPT ![TagOf(run[p].tool)][i] = x]
  BY DEF CreateDraft
<1>2. PICK t \in Tools : t = run[p].tool
  BY <1>0 DEF Types, RunType
<1>3. x \in Release /\ x.st = "draft" /\ x.assets = NoAssets
  BY DEF Release, NoAssets
<1>4. rels[t][i].st = "none" /\ rels' = [rels EXCEPT ![t][i] = x]
  BY <1>1, <1>2 DEF Here, TagOf
<1>5. rels[t][i].assets = NoAssets
  BY <1>2, <1>4 DEF IndInv, ReleaseInv
<1> HIDE DEF x
<1>6. /\ rels' \in [Tools -> [ReleaseIds -> Release]] /\ rels'[t][i] = x
      /\ \A u \in Tools, j \in ReleaseIds : u # t \/ j # i => rels'[u][j] = rels[u][j]
  BY <1>0, <1>2, <1>3, <1>4 DEF Types
<1>7. Grows /\ NoForeign
  BY <1>3, <1>4, <1>5, <1>6 DEF Grows, NoForeign
<1>8. \A u \in Tools, j \in ReleaseIds : ReleaseInv(u, j)'
  <2>1. \A n \in Files : x.assets[n] \in
          IF n \in Expected THEN {Absent, Torn, Content(n, t)} ELSE {Absent, Changed}
    BY <1>3 DEF NoAssets
  <2> QED
    BY <1>3, <1>4, <1>7, <2>1, OneRelease
<1>9. CASE Fail(p) /\ Fault
  <2>1. Types' /\ Only(p) /\ PublisherInv(p)'
    BY <1>0, <1>6, <1>9, FailInv, FaultTypes DEF Types
  <2> QED
    BY <1>7, <1>8, <2>1, Assemble
<1>10. CASE Goto(p, "view") /\ UNCHANGED <<run, faults>>
  <2>1. pc' = [pc EXCEPT ![p] = "view"] /\ "view" \in Working
    BY <1>10 DEF Goto, Working
  <2>2. run[p] \in RunType /\ run' = [run EXCEPT ![p] = run[p]]
    BY <1>0, <1>10, SameRun
  <2>3. /\ pc' \in [Publishers -> Working \cup {"idle", "prepared", "done"}]
        /\ run' \in [Publishers -> RunType] /\ pc'[p] = "view" /\ run'[p] = run[p] /\ Only(p)
    BY <1>0, <2>1, <2>2, RunMoves
  <2>4. i \in Existing(Here(p)')
    BY <1>2, <1>3, <1>6, <2>3 DEF Here, TagOf, Existing
  <2>5. PublisherInv(p)'
    BY <1>0, <2>3, <2>4 DEF PublisherInv, Learnt, Existing
  <2>6. Types'
    BY <1>0, <1>6, <1>10, <2>3 DEF Types
  <2> QED
    BY <1>7, <1>8, <2>3, <2>5, <2>6, Assemble
<1> QED
  BY <1>7, <1>9, <1>10 DEF CreateDraft

(* An upload: a file that was not there, to a release that is not public   *)
(* unless several carry the tag.                                           *)
Uploaded(t, b, n, c) ==
  /\ rels'[t][b].st = rels[t][b].st
  /\ rels'[t][b].assets[n] = c
  /\ \A m \in Files : m # n => rels'[t][b].assets[m] = rels[t][b].assets[m]

LEMMA PutStep ==
  ASSUME IndInv, NEW p \in Publishers, pc[p] = "upload", ~Taken(p),
         NEW t \in Tools, t = run[p].tool, NEW n, n = NextFile(p),
         NEW b, b = ByTag(rels[t], lookup),
         NEW c \in {Absent, Torn, Content(n, t)}, Put(p, n, c)
  PROVE  /\ n \in run[p].missing /\ n \in Expected /\ b \in Existing(rels[t])
         /\ Grows /\ NoForeign
         /\ rels' \in [Tools -> [ReleaseIds -> Release]]
         /\ \A u \in Tools, j \in ReleaseIds : ReleaseInv(u, j)'
         /\ Uploaded(t, b, n, c)
<1>0. Types /\ PublisherInv(p) /\ Here(p) = rels[t]
  BY DEF IndInv, Here, TagOf
<1>1. run[p].missing \subseteq Expected /\ run[p].missing # {}
  BY <1>0 DEF Types, RunType, PublisherInv
<1>2. n \in run[p].missing /\ n \in Expected /\ n \in Files
  BY <1>0, <1>1, NextFileMissing, ToolsAssumption
<1>3. b \in Existing(rels[t]) /\ b \in ReleaseIds
  BY <1>0, LookupIn DEF PublisherInv, Existing
<1> DEFINE old == rels[t][b]
           a   == [m \in Files |-> IF m = n THEN c ELSE old.assets[m]]
           x   == [old EXCEPT !.assets = a]
<1>4. old \in Release /\ ReleaseInv(t, b) /\ old.st # "none"
  BY <1>0, <1>3 DEF Types, IndInv, Existing
<1>5. c \in Contents \cup {Absent, Torn}
  BY <1>2, ContentTypes
<1>6. a \in [Files -> Contents \cup {Absent, Torn}]
  BY <1>4, <1>5 DEF Release
<1>7. Add(old, [m \in {n} |-> c]) = x
  <2>1. a = [m \in Files |-> IF m \in DOMAIN [k \in {n} |-> c] THEN [k \in {n} |-> c][m] ELSE old.assets[m]]
    OBVIOUS
  <2> QED
    BY <2>1 DEF Add
<1>8. rels' = [rels EXCEPT ![t][b] = x]
  <2>1. rels' = [rels EXCEPT ![t][b] = Add(@, [m \in {n} |-> c])]
    BY <1>0 DEF Put, TagOf
  <2>2. rels' = [rels EXCEPT ![t][b] = Add(old, [m \in {n} |-> c])]
    BY <2>1
  <2> QED
    BY <1>7, <2>2
<1>9. x \in Release /\ x.st = old.st /\ x.assets = a
  BY <1>4, <1>6 DEF Release
<1> HIDE DEF x
<1>10. /\ rels' \in [Tools -> [ReleaseIds -> Release]] /\ rels'[t][b] = x
       /\ \A u \in Tools, j \in ReleaseIds : u # t \/ j # b => rels'[u][j] = rels[u][j]
  BY <1>0, <1>3, <1>8, <1>9 DEF Types
<1>11. old.assets[n] = Absent
  BY <1>0, <1>2 DEF Taken, Stored
<1>12. Uploaded(t, b, n, c)
  BY <1>2, <1>9, <1>10 DEF Uploaded
<1>13. Grows
  BY <1>9, <1>10, <1>11, <1>12 DEF Grows, Uploaded
<1>14. NoForeign
  BY <1>2, <1>10, <1>12 DEF NoForeign, Uploaded, Foreign
<1>15. \A m \in Files : x.assets[m] \in
         IF m \in Expected THEN {Absent, Torn, Content(m, t)} ELSE {Absent, Changed}
  BY <1>2, <1>4, <1>9 DEF ReleaseInv, Genuine
<1>16. ~(AtMostOne(t) /\ x.st = "public")
  <2> SUFFICES ASSUME AtMostOne(t), x.st = "public" PROVE FALSE
    OBVIOUS
  <2>1. old.assets = Snapshot(t)
    BY <1>4, <1>9 DEF ReleaseInv
  <2> QED
    BY <1>2, <1>11, <2>1, ContentTypes
<1>17. \A u \in Tools, j \in ReleaseIds : ReleaseInv(u, j)'
  BY <1>3, <1>4, <1>8, <1>9, <1>13, <1>15, <1>16, OneRelease
<1> QED
  BY <1>2, <1>3, <1>10, <1>12, <1>13, <1>14, <1>17

LEMMA UploadStep ==
  ASSUME IndInv, NEW p \in Publishers, Upload(p) PROVE IndInv' /\ Grows /\ NoForeign
<1>0. /\ Types /\ PublisherInv(p) /\ pc[p] = "upload" /\ UNCHANGED <<lookup, faults>>
      /\ Active(p) /\ faults' \in 0 .. MaxFaults
  BY DEF IndInv, Upload, Active, Working, Types
<1>1. CASE Taken(p)
  BY <1>0, <1>1, FailStep, GrowsSame DEF Upload
<1>2. CASE ~Taken(p)
  <2>0. PICK t \in Tools : t = run[p].tool
    BY <1>0 DEF Types, RunType
  <2>1. PICK n, b : /\ t = run[p].tool /\ n = NextFile(p) /\ b = ByTag(rels[t], lookup)
    BY <2>0
  <2>2. /\ Put(p, n, run[p].dir[n])
        /\ run' = [run EXCEPT ![p].missing = @ \ {n}]
        /\ IF run[p].missing = {n} THEN Goto(p, "edit") ELSE UNCHANGED pc
    BY <1>2, <2>1 DEF Upload
  <2>3. n \in Expected
    BY <1>0, <2>1, NextFileMissing DEF PublisherInv, Types, RunType
  <2>4. run[p].dir[n] = Content(n, t)
    BY <1>0, <2>1, <2>3, ContentTypes DEF PublisherInv
  <2>5. /\ n \in run[p].missing /\ b \in Existing(rels[t])
        /\ Grows /\ NoForeign
        /\ rels' \in [Tools -> [ReleaseIds -> Release]]
        /\ \A u \in Tools, j \in ReleaseIds : ReleaseInv(u, j)'
        /\ Uploaded(t, b, n, Content(n, t))
    BY <1>0, <1>2, <2>1, <2>2, <2>4, PutStep
  <2> DEFINE mis == run[p].missing \ {n}
             r   == [run[p] EXCEPT !.missing = mis]
             l   == IF run[p].missing = {n} THEN "edit" ELSE "upload"
  <2>6. pc' = [pc EXCEPT ![p] = l] /\ l \in Working /\ (l = "edit" <=> mis = {})
    BY <1>0, <2>2, <2>5 DEF Goto, Types, Working
  <2>7. run' = [run EXCEPT ![p] = r]
    BY <1>0, <2>2 DEF Types
  <2>8. r \in RunType /\ r.missing = mis /\ r.tool = t /\ r.dir = run[p].dir
    BY <1>0, <2>1 DEF Types, RunType
  <2>9. l \in {"edit", "upload"}
    OBVIOUS
  <2> HIDE DEF r, l
  <2>10. /\ pc' \in [Publishers -> Working \cup {"idle", "prepared", "done"}]
         /\ run' \in [Publishers -> RunType] /\ pc'[p] = l /\ run'[p] = r /\ Only(p)
    BY <1>0, <2>6, <2>7, <2>8, RunMoves
  <2>11. b \in ReleaseIds /\ b \in Existing(rels'[t])
    BY <2>5 DEF Existing, Grows
  <2>12. Learnt(p)'
    <3> SUFFICES ASSUME AtMostOne(t)', NEW i \in Existing(rels'[t])
                 PROVE  /\ Stored(rels'[t][i]) \subseteq Expected
                        /\ Expected \ mis \subseteq Stored(rels'[t][i])
                        /\ \A m \in Expected \ mis : rels'[t][i].assets[m] = Content(m, t)
      BY <2>8, <2>10 DEF Learnt
    <3>1. AtMostOne(t)
      BY <2>5, StaysOne
    <3>2. i = b
      BY <2>11 DEF AtMostOne
    <3>3. /\ Stored(rels[t][b]) \subseteq Expected
          /\ Expected \ run[p].missing \subseteq Stored(rels[t][b])
          /\ \A m \in Expected \ run[p].missing : rels[t][b].assets[m] = Content(m, t)
      BY <1>0, <2>1, <2>5, <3>1 DEF PublisherInv, Learnt
    <3>4. \A m \in Expected : m \in Files /\ Content(m, t) # Absent
      BY ToolsAssumption, ContentTypes
    <3>5. Stored(rels'[t][b]) \subseteq Expected
      BY <2>3, <2>5, <3>3 DEF Stored, Uploaded
    <3>6. \A m \in Expected \ mis : rels'[t][b].assets[m] = Content(m, t)
      BY <2>5, <3>3, <3>4 DEF Uploaded
    <3>7. Expected \ mis \subseteq Stored(rels'[t][b])
      BY <3>4, <3>6 DEF Stored
    <3> QED
      BY <3>2, <3>5, <3>6, <3>7
  <2>13. Here(p)' = rels'[t]
    BY <2>8, <2>10 DEF Here, TagOf
  <2>14. PublisherInv(p)'
    <3>1. run'[p].dir = Snapshot(run'[p].tool) /\ Existing(Here(p)') # {}
      BY <1>0, <2>1, <2>8, <2>10, <2>11, <2>13 DEF PublisherInv
    <3>2. /\ pc'[p] = "upload" => run'[p].missing # {}
          /\ pc'[p] = "edit" => run'[p].missing = {}
      BY <2>6, <2>8, <2>10
    <3> QED
      BY <2>9, <2>10, <2>12, <3>1, <3>2 DEF PublisherInv, Existing
  <2>15. Types'
    BY <1>0, <2>5, <2>10 DEF Types
  <2> QED
    BY <2>5, <2>10, <2>14, <2>15, Assemble
<1> QED
  BY <1>1, <1>2

LEMMA UploadBrokenStep ==
  ASSUME IndInv, NEW p \in Publishers, UploadBroken(p) PROVE IndInv' /\ Grows /\ NoForeign
<1>0. /\ Types /\ PublisherInv(p) /\ pc[p] = "upload" /\ UNCHANGED lookup
      /\ Active(p) /\ ~Taken(p) /\ Fault /\ Fail(p)
  BY DEF IndInv, UploadBroken, Active, Working
<1>a. PICK t \in Tools : t = run[p].tool
  BY <1>0 DEF Types, RunType
<1>1. PICK n, b : /\ t = run[p].tool /\ n = NextFile(p) /\ b = ByTag(rels[t], lookup)
  BY <1>a
<1>2. PICK c \in {run[p].dir[n], Torn, Absent} : Put(p, n, c)
  BY <1>1 DEF UploadBroken
<1>3. n \in Expected
  BY <1>0, <1>1, NextFileMissing DEF PublisherInv, Types, RunType
<1>4. run[p].dir[n] = Content(n, t)
  BY <1>0, <1>1, <1>3, ContentTypes DEF PublisherInv
<1>5. c \in {Absent, Torn, Content(n, t)}
  BY <1>2, <1>4
<1>6. /\ Grows /\ NoForeign
      /\ rels' \in [Tools -> [ReleaseIds -> Release]]
      /\ \A u \in Tools, j \in ReleaseIds : ReleaseInv(u, j)'
  BY <1>0, <1>1, <1>2, <1>5, PutStep
<1>7. Types' /\ Only(p) /\ PublisherInv(p)'
  BY <1>0, <1>6, FailInv, FaultTypes DEF Types
<1> QED
  BY <1>6, <1>7, Assemble

(* gh release edit publishes a release that holds the whole snapshot, or   *)
(* one of several with the tag.                                            *)
LEMMA EditStep ==
  ASSUME IndInv, NEW p \in Publishers, Edit(p) PROVE IndInv' /\ Grows /\ NoForeign
<1>0. Types /\ PublisherInv(p) /\ pc[p] = "edit" /\ UNCHANGED lookup /\ Active(p)
  BY DEF IndInv, Edit, Active, Working
<1>a. PICK t \in Tools : t = run[p].tool
  BY <1>0 DEF Types, RunType
<1>1. PICK b : t = run[p].tool /\ b = ByTag(rels[t], lookup)
  BY <1>a
<1>2. Here(p) = rels[t]
  BY <1>1 DEF Here, TagOf
<1>3. b \in Existing(rels[t]) /\ b \in ReleaseIds
  BY <1>0, <1>1, <1>2, LookupIn DEF PublisherInv, Existing
<1> DEFINE old == rels[t][b]
           x   == [old EXCEPT !.st = "public"]
<1>4. old \in Release /\ ReleaseInv(t, b)
  BY <1>0, <1>3 DEF Types, IndInv
<1>5. rels' = [rels EXCEPT ![t][b] = x]
  BY <1>0, <1>1, <1>2 DEF Edit, TagOf, Types
<1>6. x \in Release /\ x.st = "public" /\ x.assets = old.assets
  BY <1>4 DEF Release
<1>7. AtMostOne(t) => x.assets = Snapshot(t)
  <2> SUFFICES ASSUME AtMostOne(t) PROVE old.assets = Snapshot(t)
    BY <1>6
  <2>1. run[p].missing = {}
    BY <1>0 DEF PublisherInv
  <2>2. /\ Stored(old) \subseteq Expected
        /\ \A n \in Expected : old.assets[n] = Content(n, t)
    BY <1>0, <1>1, <1>3, <2>1 DEF PublisherInv, Learnt
  <2>3. \A n \in Files : old.assets[n] = IF n \in Expected THEN Content(n, t) ELSE Absent
    BY <2>2 DEF Stored
  <2>4. old.assets = [n \in Files |-> old.assets[n]]
    BY <1>4 DEF Release
  <2> QED
    BY <2>3, <2>4 DEF Snapshot
<1> HIDE DEF x
<1>8. /\ rels' \in [Tools -> [ReleaseIds -> Release]] /\ rels'[t][b] = x
      /\ \A u \in Tools, j \in ReleaseIds : u # t \/ j # b => rels'[u][j] = rels[u][j]
  BY <1>0, <1>3, <1>5, <1>6 DEF Types
<1>9. Grows /\ NoForeign
  BY <1>6, <1>8 DEF Grows, NoForeign
<1>10. \A u \in Tools, j \in ReleaseIds : ReleaseInv(u, j)'
  <2>1. \A m \in Files : x.assets[m] \in
          IF m \in Expected THEN {Absent, Torn, Content(m, t)} ELSE {Absent, Changed}
    BY <1>4, <1>6 DEF ReleaseInv, Genuine
  <2> QED
    BY <1>3, <1>5, <1>6, <1>7, <1>9, <2>1, OneRelease
<1>11. CASE Fail(p) /\ Fault
  <2>1. Types' /\ Only(p) /\ PublisherInv(p)'
    BY <1>0, <1>8, <1>11, FailInv, FaultTypes DEF Types
  <2> QED
    BY <1>9, <1>10, <2>1, Assemble
<1>12. CASE Goto(p, "done") /\ UNCHANGED <<run, faults>>
  <2>1. pc' = [pc EXCEPT ![p] = "done"]
    BY <1>12 DEF Goto
  <2>2. run[p] \in RunType /\ run' = [run EXCEPT ![p] = run[p]]
    BY <1>0, <1>12, SameRun
  <2>3. /\ pc' \in [Publishers -> Working \cup {"idle", "prepared", "done"}]
        /\ run' \in [Publishers -> RunType] /\ pc'[p] = "done" /\ Only(p)
    BY <1>0, <2>1, <2>2, RunMoves
  <2>4. PublisherInv(p)' /\ Types'
    BY <1>0, <1>8, <1>12, <2>3, Unbound DEF Types
  <2> QED
    BY <1>9, <1>10, <2>3, <2>4, Assemble
<1> QED
  BY <1>11, <1>12 DEF Edit

(* A foreign name never reaches a public release. *)
Kept ==
  \A t \in Tools, i \in ReleaseIds, n \in Foreign :
    rels[t][i].st = "public" => rels'[t][i].assets[n] = rels[t][i].assets[n]

LEMMA AttachStep ==
  ASSUME IndInv, NEW t \in Tools, NEW i \in ReleaseIds, NEW n \in Foreign, AttachByHand(t, i, n)
  PROVE  IndInv' /\ Grows /\ Kept
<1>0. /\ Types /\ Fault /\ UNCHANGED <<lookup, pc, run>>
      /\ \A p \in Publishers : ~Active(p)
      /\ rels[t][i].st = "draft" /\ rels[t][i].assets[n] = Absent
      /\ n \in Files /\ n \notin Expected
  BY DEF IndInv, AttachByHand, Foreign
<1> DEFINE old == rels[t][i]
           a   == [old.assets EXCEPT ![n] = Changed]
           x   == [old EXCEPT !.assets = a]
<1>1. old \in Release /\ ReleaseInv(t, i)
  BY <1>0 DEF Types, IndInv
<1>2. a \in [Files -> Contents \cup {Absent, Torn}]
  BY <1>0, <1>1, ContentAssumption DEF Release
<1>3. rels' = [rels EXCEPT ![t][i] = x]
  BY <1>0 DEF AttachByHand, Types, Release
<1>4. /\ x \in Release /\ x.st = "draft"
      /\ x.assets[n] = Changed /\ \A m \in Files : m # n => x.assets[m] = old.assets[m]
  BY <1>0, <1>1, <1>2 DEF Release
<1> HIDE DEF x
<1>5. /\ rels' \in [Tools -> [ReleaseIds -> Release]] /\ rels'[t][i] = x
      /\ \A u \in Tools, j \in ReleaseIds : u # t \/ j # i => rels'[u][j] = rels[u][j]
  BY <1>0, <1>3, <1>4 DEF Types
<1>6. Grows
  BY <1>0, <1>4, <1>5 DEF Grows
<1>7. Kept
  BY <1>0, <1>5 DEF Kept
<1>8. \A u \in Tools, j \in ReleaseIds : ReleaseInv(u, j)'
  <2>1. \A m \in Files : x.assets[m] \in
          IF m \in Expected THEN {Absent, Torn, Content(m, t)} ELSE {Absent, Changed}
    BY <1>0, <1>1, <1>4 DEF ReleaseInv, Genuine
  <2> QED
    BY <1>3, <1>4, <1>6, <2>1, OneRelease
<1>9. Types'
  BY <1>0, <1>5, FaultTypes DEF Types
<1>10. ASSUME NEW q \in Publishers PROVE PublisherInv(q)'
  BY <1>0, <1>6, PublisherFrame DEF IndInv
<1> QED
  BY <1>6, <1>7, <1>8, <1>9, <1>10 DEF IndInv

LEMMA KeptForeign == ASSUME NoForeign PROVE Kept
BY DEF NoForeign, Kept

LEMMA IndStep ==
  ASSUME IndInv, [Next]_vars PROVE IndInv' /\ Grows /\ Kept
<1>1. ASSUME NEW p \in Publishers, PrepareSome(p) PROVE IndInv' /\ Grows /\ Kept
  <2>1. UNCHANGED rels
    BY <1>1 DEF PrepareSome, Prepare
  <2> QED
    BY <1>1, <2>1, PrepareStep, GrowsSame, KeptForeign
<1>2. ASSUME NEW p \in Publishers, Step(p) PROVE IndInv' /\ Grows /\ Kept
  <2>1. CASE Start(p)
    BY <2>1, StartStep, GrowsSame, KeptForeign DEF Start
  <2>2. CASE ListReleases(p)
    BY <2>2, ListReleasesStep, GrowsSame, KeptForeign DEF ListReleases
  <2>3. CASE CreateDraft(p)
    BY <2>3, CreateDraftStep, KeptForeign
  <2>4. CASE View(p)
    BY <2>4, ViewStep, GrowsSame, KeptForeign DEF View
  <2>5. CASE ListAssets(p)
    BY <2>5, ListAssetsStep, GrowsSame, KeptForeign DEF ListAssets
  <2>6. CASE Compare(p)
    BY <2>6, CompareStep, GrowsSame, KeptForeign DEF Compare
  <2>7. CASE Upload(p)
    BY <2>7, UploadStep, KeptForeign
  <2>8. CASE Edit(p)
    BY <2>8, EditStep, KeptForeign
  <2> QED
    BY <1>2, <2>1, <2>2, <2>3, <2>4, <2>5, <2>6, <2>7, <2>8 DEF Step
<1>3. ASSUME NEW p \in Publishers, Damage(p) PROVE IndInv' /\ Grows /\ Kept
  BY <1>3, DamageStep, GrowsSame, KeptForeign DEF Damage
<1>4. ASSUME NEW p \in Publishers, UploadBroken(p) PROVE IndInv' /\ Grows /\ Kept
  BY <1>4, UploadBrokenStep, KeptForeign
<1>5. ASSUME NEW p \in Publishers, Stop(p) PROVE IndInv' /\ Grows /\ Kept
  BY <1>5, StopStep, GrowsSame, KeptForeign DEF Stop
<1>6. ASSUME NEW t \in Tools, NEW i \in ReleaseIds, NEW n \in Foreign, AttachByHand(t, i, n)
      PROVE  IndInv' /\ Grows /\ Kept
  BY <1>6, AttachStep
<1>7. CASE UNCHANGED vars
  <2>1. UNCHANGED rels /\ UNCHANGED lookup /\ UNCHANGED pc /\ UNCHANGED run /\ UNCHANGED faults
    BY <1>7 DEF vars
  <2>2. Types'
    BY <2>1 DEF IndInv, Types
  <2>3. \A t \in Tools, i \in ReleaseIds : ReleaseInv(t, i)'
    BY <2>1 DEF IndInv, ReleaseInv, Genuine, AtMostOne, Existing
  <2>4. Grows /\ NoForeign
    BY <2>1, GrowsSame
  <2>5. ASSUME NEW q \in Publishers PROVE PublisherInv(q)'
    BY <2>1, <2>4, PublisherFrame DEF IndInv
  <2> QED
    BY <2>2, <2>3, <2>4, <2>5, KeptForeign DEF IndInv
<1> QED
  BY <1>1, <1>2, <1>3, <1>4, <1>5, <1>6, <1>7 DEF Next

-----------------------------------------------------------------------------
(* The theorems. *)

LEMMA Inductive == Spec => []IndInv
<1>1. IndInv /\ [Next]_vars => IndInv'
  BY IndStep
<1> QED
  BY InitInv, <1>1, PTL DEF Spec

(* Two releases with one tag count. *)
LEMMA Counted ==
  ASSUME NEW t \in Tools, ~AtMostOne(t)
  PROVE  Cardinality(Existing(rels[t])) > 1
<1> DEFINE E == Existing(rels[t])
<1>1. IsFiniteSet(E)
  <2>1. E \subseteq ReleaseIds
    BY DEF Existing
  <2> QED
    BY <2>1, ToolsAssumption, FS_Subset
<1>2. PICK i \in E, j \in E : i # j
  BY DEF AtMostOne
<1> HIDE DEF E
<1>3. IsFiniteSet({i}) /\ Cardinality({i}) = 1
  BY FS_Singleton
<1>4. Cardinality({i} \cup {j}) = 2 /\ IsFiniteSet({i} \cup {j})
  BY <1>2, <1>3, FS_AddElement
<1>5. {i} \cup {j} \subseteq E
  BY <1>2
<1>6. Cardinality({i} \cup {j}) <= Cardinality(E)
  BY <1>1, <1>5, FS_Subset
<1>7. Cardinality(E) \in Nat
  BY <1>1, FS_CardinalityType
<1> QED
  BY <1>4, <1>6, <1>7 DEF E

LEMMA SingleOne == ASSUME NEW t \in Tools, Single(t) PROVE AtMostOne(t)
BY Counted DEF Single

(* Every variable keeps its type: a run never holds a directory, a release *)
(* or a list of missing files that publish() could not have computed.      *)
THEOREM TypeCorrect == Spec => []TypeOK
<1>1. IndInv => TypeOK
  BY DEF IndInv, Types, TypeOK, RunType
<1> QED
  BY Inductive, <1>1, PTL

(* "Draft assets stay invisible until the entire snapshot is present", for *)
(* any number of overlapping runs, retries, broken uploads and altered     *)
(* directories, while one release carries the tag.                         *)
THEOREM SnapshotsWhole == Spec => []PublicIsSnapshot
<1>1. IndInv => PublicIsSnapshot
  BY SingleOne DEF IndInv, ReleaseInv, PublicIsSnapshot
<1> QED
  BY Inductive, <1>1, PTL

(* No step replaces or removes an asset, and a public snapshot is frozen   *)
(* even for a run that read the draft flag before it went public.          *)
THEOREM AssetsStay == Spec => NeverReplaced
<1> DEFINE A == \A t \in Tools, i \in ReleaseIds :
                  /\ \A n \in Files : rels[t][i].assets[n] # Absent
                                         => rels'[t][i].assets[n] = rels[t][i].assets[n]
                  /\ Single(t) /\ rels[t][i].st = "public" => rels'[t][i] = rels[t][i]
<1>1. IndInv /\ [Next]_vars => A
  <2> SUFFICES ASSUME IndInv, [Next]_vars, NEW t \in Tools, NEW i \in ReleaseIds
               PROVE  /\ \A n \in Files : rels[t][i].assets[n] # Absent
                                             => rels'[t][i].assets[n] = rels[t][i].assets[n]
                      /\ Single(t) /\ rels[t][i].st = "public" => rels'[t][i] = rels[t][i]
    OBVIOUS
  <2>1. IndInv' /\ Grows /\ Kept
    BY IndStep
  <2>2. ASSUME Single(t), rels[t][i].st = "public" PROVE rels'[t][i] = rels[t][i]
    <3>1. rels[t][i].assets = Snapshot(t)
      BY <2>2, SingleOne DEF IndInv, ReleaseInv
    <3>2. \A n \in Expected : rels[t][i].assets[n] # Absent
      BY <3>1, ContentTypes, ToolsAssumption
    <3>3. \A n \in Files : rels'[t][i].assets[n] = rels[t][i].assets[n]
      BY <2>1, <2>2, <3>2 DEF Grows, Kept, Foreign
    <3>4. rels'[t][i].st = rels[t][i].st
      BY <2>1, <2>2 DEF Grows
    <3>5. rels[t][i] \in Release /\ rels'[t][i] \in Release
      BY <2>1 DEF IndInv, Types
    <3> QED
      BY <3>3, <3>4, <3>5 DEF Release
  <2> QED
    BY <2>1, <2>2 DEF Grows
<1>2. IndInv /\ [Next]_vars => [A]_vars
  BY <1>1
<1>3. NeverReplaced <=> [][A]_vars
  BY PTL DEF NeverReplaced
<1> HIDE DEF A
<1> QED
  BY Inductive, <1>2, <1>3, PTL DEF Spec

(* Only the two checks refuse a run that no fault ended. *)
LEMMA Refused ==
  ASSUME IndInv, NEW p \in Publishers, NEW q \in Publishers,
         PrepareSome(q) \/ Step(q) \/ Damage(q) \/ UploadBroken(q) \/ Stop(q),
         pc[p] \in {"assets", "compare"}, pc'[p] = "idle", faults' = faults
  PROVE  p = q /\ (ListAssets(p) \/ Compare(p))
<1>0. Types
  BY DEF IndInv
<1>1. faults \in Nat
  BY <1>0, MaxFaultsAssumption DEF Types
<1>2. ~Fault
  BY <1>1 DEF Fault
<1>3. p = q
  BY <1>0, <1>2 DEF Types, PrepareSome, Prepare, Step, Start, ListReleases, CreateDraft, View,
    ListAssets, Compare, Upload, Edit, Damage, UploadBroken, Stop, Fail, Goto
<1> QED
  BY <1>0, <1>2, <1>3 DEF Types, PrepareSome, Prepare, Step, Start, ListReleases, CreateDraft,
    View, Upload, Edit, Damage, UploadBroken, Stop

LEMMA RefusedByAlien ==
  ASSUME IndInv, NEW p \in Publishers, ListAssets(p) \/ Compare(p), pc'[p] = "idle",
         AtMostOne(run[p].tool)
  PROVE  \E i \in Existing(Here(p)) : Alien(Here(p)[i])
<1>0. Types /\ PublisherInv(p) /\ run[p].tool \in Tools /\ Here(p) = rels[run[p].tool]
  BY DEF IndInv, Types, RunType, Here, TagOf
<1> DEFINE t == run[p].tool
           i == run[p].id
<1>1. i \in Existing(Here(p)) /\ i \in ReleaseIds
  BY <1>0 DEF PublisherInv, ListAssets, Compare, Existing
<1>2. ReleaseInv(t, i)
  BY <1>0, <1>1 DEF IndInv
<1>3. CASE ListAssets(p)
  <2>1. ~(Stored(Here(p)[i]) \subseteq Expected)
    BY <1>0, <1>3 DEF ListAssets, Goto, Types
  <2>2. PICK n \in Files : n \notin Expected /\ rels[t][i].assets[n] # Absent
    BY <1>0, <2>1 DEF Stored
  <2>3. rels[t][i].assets[n] = Changed
    BY <1>2, <2>2 DEF ReleaseInv, Genuine
  <2> QED
    BY <1>0, <1>1, <2>3 DEF Alien
<1>4. CASE Compare(p)
  <2>0. pc[p] = "compare"
    BY <1>4 DEF Compare
  <2>1. AfterCompare(p) # "idle"
    <3>1. ~run[p].draft => run[p].missing = {}
      BY <1>0, <2>0 DEF PublisherInv
    <3> QED
      BY <3>1 DEF AfterCompare
  <2>2. ~Same(p)
    BY <1>0, <1>4, <2>1 DEF Compare, Goto, Types
  <2>3. ByTag(Here(p), lookup) = i
    BY <1>0, <1>1, LookupIn DEF AtMostOne
  <2>4. PICK n \in Expected \ run[p].missing : rels[t][i].assets[n] # run[p].dir[n]
    BY <1>0, <2>2, <2>3 DEF Same
  <2>5. run[p].dir[n] = Content(n, t) /\ n \in Files
    BY <1>0, <2>0, ContentTypes, ToolsAssumption DEF PublisherInv, Active, Working
  <2>6. n \in Stored(rels[t][i])
    BY <1>0, <1>1, <2>0 DEF PublisherInv, Learnt
  <2>7. rels[t][i].assets[n] = Torn
    BY <1>2, <2>4, <2>5, <2>6 DEF ReleaseInv, Genuine, Stored
  <2> QED
    BY <1>0, <1>1, <2>5, <2>7 DEF Alien
<1> QED
  BY <1>3, <1>4

(* "retries never collide with a prior immutable snapshot": what refuses a *)
(* run is an asset that no run uploaded whole, or a second release with    *)
(* its tag.                                                                *)
THEOREM RetriesGoOn == Spec => RetriesNeverCollide
<1> DEFINE A == \A p \in Publishers :
                  pc[p] \in {"assets", "compare"} /\ pc'[p] = "idle" /\ faults' = faults
                    => \/ Cardinality(Existing(Here(p))) > 1
                       \/ \E i \in Existing(Here(p)) : Alien(Here(p)[i])
<1>1. IndInv /\ Next => A
  <2> SUFFICES ASSUME IndInv, Next, NEW p \in Publishers,
                      pc[p] \in {"assets", "compare"}, pc'[p] = "idle", faults' = faults
               PROVE  \/ Cardinality(Existing(Here(p))) > 1
                      \/ \E i \in Existing(Here(p)) : Alien(Here(p)[i])
    OBVIOUS
  <2>1. run[p].tool \in Tools /\ Here(p) = rels[run[p].tool]
    BY DEF IndInv, Types, RunType, Here, TagOf
  <2>2. \E q \in Publishers : \/ PrepareSome(q) \/ Step(q) \/ Damage(q)
                              \/ UploadBroken(q) \/ Stop(q)
    BY DEF Next, AttachByHand
  <2>3. ListAssets(p) \/ Compare(p)
    BY <2>2, Refused
  <2> QED
    BY <2>1, <2>3, RefusedByAlien, Counted
<1>2. IndInv /\ [Next]_vars => [A]_vars
  BY <1>1
<1>3. RetriesNeverCollide <=> [][A]_vars
  BY PTL DEF RetriesNeverCollide
<1> HIDE DEF A
<1> QED
  BY Inductive, <1>2, <1>3, PTL DEF Spec
=============================================================================
