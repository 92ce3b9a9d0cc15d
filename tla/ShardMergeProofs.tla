-------------------------- MODULE ShardMergeProofs --------------------------
(***************************************************************************)
(* Proofs about ShardMerge for every number of shards, packages, recipes   *)
(* and faults.                                                             *)
(***************************************************************************)
EXTENDS ShardMerge, FiniteSetTheorems, TLAPS

-----------------------------------------------------------------------------
(* The strided slices of select-userspace-shard.py are a partition.        *)

(* The position of a recipe in the sorted list is a number. *)
LEMMA PositionNat ==
  ASSUME NEW S \in SUBSET Nat, IsFiniteSet(S), NEW r \in S
  PROVE  Position(S, r) \in Nat
<1>1. IsFiniteSet({x \in S : x < r})
  BY FS_Subset
<1> QED
  BY <1>1, FS_CardinalityType DEF Position

(* Runners that found the same recipes are given each of them exactly once:*)
(* the slices recipes[index::count] cover the list and do not overlap.     *)
THEOREM SlicesPartition ==
  ASSUME NEW S \in SUBSET Nat, IsFiniteSet(S)
  PROVE  /\ UNION {Assigned(S, i) : i \in Shards} = S
         /\ \A i, j \in Shards : i # j => Assigned(S, i) \cap Assigned(S, j) = {}
<1>1. ASSUME NEW r \in S
      PROVE  Position(S, r) % Count \in Shards
  BY PositionNat, CountAssumption DEF Shards
<1>2. UNION {Assigned(S, i) : i \in Shards} = S
  <2>1. \A i \in Shards : Assigned(S, i) \subseteq S
    BY DEF Assigned
  <2>2. ASSUME NEW r \in S
        PROVE  r \in Assigned(S, Position(S, r) % Count)
    BY DEF Assigned
  <2> QED
    BY <1>1, <2>1, <2>2
<1>3. \A i, j \in Shards : i # j => Assigned(S, i) \cap Assigned(S, j) = {}
  BY DEF Assigned
<1> QED
  BY <1>2, <1>3

(* merge() never refuses the coverage of runners that agree: manifests     *)
(* written for the same configuration have no overlap, no gap and the      *)
(* digest of their union.                                                  *)
THEOREM AgreementSuffices ==
  ASSUME NEW E \in SUBSET Enabled,
         \A i \in Shards : manifest[i] = ManifestOf(E, i)
  PROVE  ~Disagree /\ ~Overlap /\ ~Gap /\ ~DigestDiffers
<1> DEFINE S == {RecipeOf[p] : p \in Selectable(E)}
<1>1. \A i \in Shards : manifest[i].all = S /\ manifest[i].recipes = Assigned(S, i)
  <2> SUFFICES ASSUME NEW i \in Shards
               PROVE  manifest[i].all = S /\ manifest[i].recipes = Assigned(S, i)
    OBVIOUS
  <2>1. ManifestOf(E, i) = [all |-> S, recipes |-> Assigned(S, i),
                            packages |-> {p \in Selectable(E) : RecipeOf[p] \in Assigned(S, i)}]
    BY Zenon DEF ManifestOf
  <2> HIDE DEF S
  <2>2. manifest[i] = [all |-> S, recipes |-> Assigned(S, i),
                       packages |-> {p \in Selectable(E) : RecipeOf[p] \in Assigned(S, i)}]
    BY <2>1
  <2> QED
    BY <2>2
<1>2. Selectable(E) \subseteq Packages /\ IsFiniteSet(Selectable(E))
  <2>1. Selectable(E) \in SUBSET Packages
    BY PackagesAssumption DEF Selectable
  <2> QED
    BY <2>1, PackagesAssumption, FS_Subset
<1>3. S \in SUBSET Nat
  BY <1>2, PackagesAssumption
<1>4. IsFiniteSet(S)
  <2> DEFINE f == [p \in Selectable(E) |-> RecipeOf[p]]
  <2>1. f \in Surjection(Selectable(E), S)
    BY DEF Surjection
  <2> QED
    BY <1>2, <2>1, FS_Surjection
<1>5. 0 \in Shards
  BY CountAssumption DEF Shards
<1> HIDE DEF S
<1>6. Union = S
  BY <1>1, <1>3, <1>4, SlicesPartition DEF Union
<1> QED
  BY <1>1, <1>3, <1>4, <1>5, <1>6, SlicesPartition DEF Disagree, Overlap, Gap, DigestDiffers

-----------------------------------------------------------------------------
(* A job step is a step of a job that has not ended: once the aggregate    *)
(* job has started, what the jobs left behind stays as it is.              *)
LEMMA JobStepFacts ==
  ASSUME NEW i \in Shards, JobStep(i)
  PROVE  pc[i] \notin Ended /\ UNCHANGED feedVars
BY DEF JobStep, SelectAll, SelectPartial, Select, ToolsFail, Compile, CompileBadly,
       CopyOut, CopyPartly, IndexFails, LoseRunner, Ended

(* The aggregate job reads the jobs' artifacts and never changes them. *)
LEMMA AggregateFacts ==
  ASSUME Aggregate
  PROVE  UNCHANGED jobVars
BY DEF Aggregate, Merge, NoRepair, Repair, Finish

(* After the start of the aggregate job no job is running. *)
Quiet == stage # "wait" => JobsOver

CoverageInv == Quiet /\ Coverage

LEMMA CoverageInductive ==
  ASSUME CoverageInv, [Next]_vars
  PROVE  CoverageInv'
<1> USE DEF CoverageInv
<1>1. CASE \E i \in Shards : JobStep(i)
  <2> PICK i \in Shards : JobStep(i)
    BY <1>1
  <2>1. stage = "wait" /\ UNCHANGED feedVars
    BY JobStepFacts DEF Quiet, JobsOver
  <2> QED
    BY <2>1 DEF Quiet, Coverage, Accepted, feedVars
<1>2. CASE Merge
  <2>1. UNCHANGED <<pc, manifest, out, report>> /\ JobsOver /\ stage' \in {"failed", "merged"}
    BY <1>2 DEF Merge, jobVars
  <2>2. CASE stage' = "failed"
    BY <2>1, <2>2 DEF Quiet, Coverage, Accepted, JobsOver
  <2>3. CASE stage' = "merged"
    <3>1. ~Problem
      BY <1>2, <2>3 DEF Merge
    <3>2. WithManifest = Shards /\ ~Disagree /\ ~Overlap /\ ~DigestDiffers
      BY <3>1 DEF Problem, Missing
    <3>3. \A i \in Shards : pc[i] # "lost" /\ (out[i] # {} \/ report[i])
      BY <3>1, <3>2 DEF Problem, WithManifest, Silent
    <3>4. PICK k \in Shards : Union = manifest[k].all
      BY <3>2 DEF DigestDiffers
    <3>5. UNION {manifest[i].all : i \in Shards} = Union
      BY <3>2, <3>4 DEF Disagree
    <3>6. \A r \in UNION {manifest[i].all : i \in Shards} :
            \E i \in Shards : /\ pc[i] # "lost" /\ r \in manifest[i].recipes
                              /\ out[i] # {} \/ report[i]
                              /\ \A j \in Shards \ {i} : r \notin manifest[j].recipes
      BY <3>2, <3>3, <3>5 DEF Union, Overlap
    <3> QED
      BY <2>1, <3>6 DEF Quiet, Coverage, JobsOver
  <2> QED
    BY <2>1, <2>2, <2>3
<1>3. ASSUME stage \in {"merged", "repaired"}, Aggregate
      PROVE  CoverageInv'
  BY <1>3, AggregateFacts DEF jobVars, Quiet, Coverage, Accepted, JobsOver
<1>4. CASE UNCHANGED vars
  BY <1>4 DEF vars, Quiet, Coverage, Accepted, JobsOver
<1>5. Aggregate => Merge \/ stage \in {"merged", "repaired"}
  BY DEF Aggregate, NoRepair, Repair, Finish
<1> QED
  BY <1>1, <1>2, <1>3, <1>4, <1>5 DEF Next

(* In a merged build every recipe that some runner found enabled was       *)
(* assigned to exactly one job, which delivered packages or a failure      *)
(* report, for any number of shards and any faults.                        *)
THEOREM EveryRecipeAssigned == Spec => []Coverage
<1>1. Init => CoverageInv
  BY DEF Init, CoverageInv, Quiet, Coverage, Accepted
<1>2. CoverageInv /\ [Next]_vars => CoverageInv'
  BY CoverageInductive
<1>3. CoverageInv => Coverage
  BY DEF CoverageInv
<1> QED
  BY <1>1, <1>2, <1>3, PTL DEF Spec

-----------------------------------------------------------------------------
(* What the feed holds.  The invariant adds to TypeOK where an IPK comes   *)
(* from, and that index and files agree at every stage.                    *)
Running == {"start", "tools", "copy"}
Origin == \A i \in Shards :
            /\ \A x \in built[i] : x.by = i /\ x.sec = SectionOf[x.pkg]
            /\ pc[i] \in Running => out[i] = {}

OneEach == index = files /\ \A x, y \in files : x.pkg = y.pkg => x = y

FeedInv == TypeOK /\ Quiet /\ Origin /\ OneEach /\ OwnerCopyWins

(* The IPKs of a job are IPKs of that job, in the section of the package. *)
LEMMA CopyType ==
  ASSUME NEW i \in Shards, NEW p \in Packages, NEW v \in {1, 2}, NEW ok \in BOOLEAN
  PROVE  Copy(p, i, v, ok) \in Ipk /\ Copy(p, i, v, ok).by = i
         /\ Copy(p, i, v, ok).sec = SectionOf[Copy(p, i, v, ok).pkg]
BY PackagesAssumption, CountAssumption DEF Copy, Ipk, Shards

LEMMA BuiltType ==
  ASSUME NEW i \in Shards, NEW M \in SUBSET Packages
  PROVE  /\ Built(i, M) \subseteq Ipk
         /\ \A x \in Built(i, M) : x.by = i /\ x.sec = SectionOf[x.pkg]
<1> SUFFICES ASSUME NEW x \in Built(i, M)
             PROVE  x \in Ipk /\ x.by = i /\ x.sec = SectionOf[x.pkg]
  OBVIOUS
<1>1. PICK p \in M : x = Copy(p, i, 1, TRUE)
  BY DEF Built
<1>2. p \in Packages /\ 1 \in {1, 2} /\ TRUE \in BOOLEAN
  OBVIOUS
<1> QED
  BY <1>1, <1>2, CopyType

(* A job compiles packages only. *)
LEMMA MadeType ==
  ASSUME TypeOK, NEW i \in Shards
  PROVE  Made(i) \in SUBSET Packages
BY PackagesAssumption DEF Made, TypeOK

(* Two IPKs with the same fields are the same. *)
LEMMA SameIpk ==
  ASSUME NEW x \in Ipk, NEW y \in Ipk, x.pkg = y.pkg, x.by = y.by, x.ver = y.ver,
         x.sec = y.sec, x.ok = y.ok
  PROVE  x = y
BY DEF Ipk

-----------------------------------------------------------------------------
(* The copies merge() takes: at most one of a name, and the owner's.       *)
LEMMA MergeChoice ==
  ASSUME FeedInv, ~Problem, ~Shared, ~Conflict
  PROVE  LET F == {x \in Candidates : Chosen(x)} IN
         /\ F \subseteq {x \in Ipk : x.ok /\ x.pkg \notin Kernel}
         /\ \A x, y \in F : x.pkg = y.pkg => x = y
         /\ \A x \in F : \A i \in Shards : \A y \in out[i] :
              y.ok /\ y.pkg = x.pkg /\ x.pkg \in manifest[i].packages => x = y
<1> DEFINE F == {x \in Candidates : Chosen(x)}
<1>1. WithManifest = Shards
  BY DEF Problem, Missing
<1>2. \A i \in Shards : \A x \in out[i] :
        x \in Ipk /\ x.by = i /\ x.sec = SectionOf[x.pkg]
  BY DEF FeedInv, TypeOK, Origin
<1>3. \A x \in Candidates :
        x \in Ipk /\ x.by \in Shards /\ x \in out[x.by] /\ x.sec = SectionOf[x.pkg]
        /\ x.ok = TRUE /\ x.pkg \notin Kernel
  <2> SUFFICES ASSUME NEW x \in Candidates
               PROVE  x \in Ipk /\ x.by \in Shards /\ x \in out[x.by]
                      /\ x.sec = SectionOf[x.pkg] /\ x.ok = TRUE /\ x.pkg \notin Kernel
    OBVIOUS
  <2>1. PICK i \in Shards : x \in out[i]
    BY <1>1 DEF Candidates, Present
  <2>2. x.ok /\ x.pkg \notin Kernel
    BY DEF Candidates
  <2>3. x.ok \in BOOLEAN
    BY <1>2, <2>1 DEF Ipk
  <2> QED
    BY <1>2, <2>1, <2>2, <2>3
<1>4. ASSUME NEW x \in Candidates, NEW y \in Candidates, x.pkg = y.pkg, x.by = y.by
      PROVE  x = y
  <2>1. x.sec = y.sec
    BY <1>3, <1>4
  <2>2. x.ver = y.ver
    BY <1>4, <2>1 DEF Conflict
  <2> QED
    BY <1>3, <1>4, <2>1, <2>2, SameIpk
<1>5. ASSUME NEW x \in Candidates, NEW y \in Candidates, x.pkg = y.pkg, Owned(x), Owned(y)
      PROVE  x = y
  <2>1. x.by = y.by
    BY <1>1, <1>3, <1>5 DEF Owned, Shared
  <2> QED
    BY <1>4, <1>5, <2>1
<1>6. ASSUME NEW x \in Candidates, NEW y \in Candidates, x.pkg = y.pkg
      PROVE  y \in Rivals(x)
  BY <1>3, <1>6 DEF Rivals
<1>7. F \subseteq {x \in Ipk : x.ok /\ x.pkg \notin Kernel}
  BY <1>3
<1>8. ASSUME NEW x \in F, NEW y \in F, x.pkg = y.pkg
      PROVE  x = y
  <2>1. CASE Owned(x) /\ Owned(y)
    BY <1>5, <1>8, <2>1
  <2>2. CASE ~Owned(x)
    <3>1. ~Owned(y) /\ x.by <= y.by
      BY <1>6, <1>8, <2>2 DEF Chosen
    <3>2. y.by <= x.by
      BY <1>6, <1>8, <3>1 DEF Chosen
    <3>3. x.by = y.by
      BY <1>3, <3>1, <3>2 DEF Shards
    <3> QED
      BY <1>4, <1>8, <3>3
  <2>3. CASE ~Owned(y)
    <3>1. ~Owned(x) /\ y.by <= x.by
      BY <1>6, <1>8, <2>3 DEF Chosen
    <3>2. x.by <= y.by
      BY <1>6, <1>8, <3>1 DEF Chosen
    <3>3. x.by = y.by
      BY <1>3, <3>1, <3>2 DEF Shards
    <3> QED
      BY <1>4, <1>8, <3>3
  <2> QED
    BY <2>1, <2>2, <2>3
<1>9. ASSUME NEW x \in F, NEW i \in Shards, NEW y \in out[i],
             y.ok, y.pkg = x.pkg, x.pkg \in manifest[i].packages
      PROVE  x = y
  <2>1. y \in Candidates
    BY <1>1, <1>3, <1>9 DEF Candidates, Present
  <2>2. Owned(y)
    BY <1>2, <1>9 DEF Owned
  <2>3. Owned(x)
    BY <1>6, <1>9, <2>1, <2>2 DEF Chosen
  <2> QED
    BY <1>5, <1>9, <2>1, <2>2, <2>3
<1> QED
  BY <1>7, <1>8, <1>9

-----------------------------------------------------------------------------
(* A repair that passed the checks replaces every copy of its names. *)
LEMMA RepairShape ==
  ASSUME FeedInv, NEW R \in RepairOutputs, ~Refused(R)
  PROVE  LET W == Winners(R)
             F == (files \ (Unlinked(W) \cup Overwritten(W))) \cup W
         IN  /\ F = (index \ ReplacedBy(W)) \cup W
             /\ F \subseteq {x \in Ipk : x.ok /\ x.pkg \notin Kernel}
             /\ \A x, y \in F : x.pkg = y.pkg => x = y
             /\ \A x \in F : x \in files \/ FromRepair(x)
<1> DEFINE W == Winners(R)
           F == (files \ (Unlinked(W) \cup Overwritten(W))) \cup W
<1>1. W \subseteq R /\ R \subseteq Ipk /\ \A r \in R : FromRepair(r)
  BY RepairsAssumption DEF Winners
<1>2. \A r \in R : r.ok /\ r.pkg \notin Kernel
  BY DEF Refused
<1>3. ASSUME NEW r \in W, NEW q \in W, r.pkg = q.pkg
      PROVE  r = q
  <2>1. r \in R /\ q \in R /\ r.by <= q.by /\ q.by <= r.by
    BY <1>3 DEF Winners
  <2>2. r.by = q.by
    BY <1>1, <2>1 DEF Ipk
  <2> QED
    BY <1>3, <2>1, <2>2, RepairsAssumption
<1>4. index = files
  BY DEF FeedInv, OneEach
<1>5. Unlinked(W) \cup Overwritten(W) = ReplacedBy(W)
  <2>1. Unlinked(W) \subseteq ReplacedBy(W)
    BY DEF Unlinked
  <2>2. Overwritten(W) \subseteq ReplacedBy(W)
    BY <1>4 DEF Overwritten, ReplacedBy, Path
  <2>3. ASSUME NEW x \in ReplacedBy(W), x \notin Unlinked(W)
        PROVE  x \in Overwritten(W)
    BY <1>4, <2>3 DEF Unlinked, Overwritten, ReplacedBy
  <2> QED
    BY <2>1, <2>2, <2>3
<1>6. F = (index \ ReplacedBy(W)) \cup W
  BY <1>4, <1>5
<1>7. F \subseteq {x \in Ipk : x.ok /\ x.pkg \notin Kernel}
  BY <1>1, <1>2 DEF FeedInv, TypeOK
<1>8. ASSUME NEW x \in F, NEW y \in F, x.pkg = y.pkg
      PROVE  x = y
  <2>1. CASE x \in W /\ y \in W
    BY <1>3, <1>8, <2>1
  <2>2. \A z \in F \ W : z \in files /\ \A r \in W : r.pkg # z.pkg
    BY <1>4, <1>6 DEF ReplacedBy
  <2>3. CASE x \notin W /\ y \notin W
    BY <1>8, <2>2, <2>3 DEF FeedInv, OneEach
  <2> QED
    BY <1>8, <2>1, <2>2, <2>3
<1>9. \A x \in F : x \in files \/ FromRepair(x)
  BY <1>1
<1> QED
  BY <1>6, <1>7, <1>8, <1>9

(* A manifest names recipes and packages of the build. *)
LEMMA ManifestType ==
  ASSUME NEW E \in SUBSET Enabled, NEW i \in Shards
  PROVE  ManifestOf(E, i) \in [all : SUBSET Nat, recipes : SUBSET Nat,
                               packages : SUBSET Packages]
<1>1. Selectable(E) \subseteq Packages
  BY PackagesAssumption DEF Selectable
<1>2. {RecipeOf[p] : p \in Selectable(E)} \subseteq Nat
  BY <1>1, PackagesAssumption
<1>3. Assigned({RecipeOf[p] : p \in Selectable(E)}, i) \subseteq Nat
  BY <1>2 DEF Assigned
<1> QED
  BY <1>1, <1>2, <1>3 DEF ManifestOf

(* A job step keeps the types of what the jobs left behind, and whose IPKs *)
(* they are.                                                               *)
LEMMA JobStepInv ==
  ASSUME FeedInv, NEW i \in Shards, JobStep(i)
  PROVE  FeedInv'
<1>1. stage = "wait" /\ UNCHANGED feedVars
  BY JobStepFacts DEF FeedInv, Quiet, JobsOver
<1>2. TypeOK /\ Origin
  BY DEF FeedInv
<1> DEFINE P == {"start", "tools", "copy"} \cup Ended
           Man == [all : SUBSET Nat, recipes : SUBSET Nat, packages : SUBSET Packages]
           Typed == /\ pc' \in [Shards -> P] /\ manifest' \in [Shards -> Man]
                    /\ report' \in [Shards -> BOOLEAN] /\ faults' \in 0 .. MaxFaults
                    /\ built' \in [Shards -> SUBSET Ipk]
                    /\ out' \in [Shards -> SUBSET Ipk]
                    /\ \A k \in Shards : out'[k] \subseteq built'[k]
                    /\ Origin'
<1>3. Typed
  <2>0. Fault => faults' \in 0 .. MaxFaults
    BY <1>2, FaultsAssumption DEF Fault, TypeOK
  <2>1. ASSUME NEW E \in SUBSET Enabled, Select(i, E), faults' \in 0 .. MaxFaults
        PROVE  Typed
    <3>1. manifest' \in [Shards -> Man]
      <4>1. ManifestOf(E, i) \in Man
        BY ManifestType
      <4>2. manifest' = manifest \/ manifest' = [manifest EXCEPT ![i] = ManifestOf(E, i)]
        BY <2>1 DEF Select
      <4> QED
        BY <1>2, <4>1, <4>2 DEF TypeOK
    <3>2. pc[i] \in Running /\ pc' \in [Shards -> P]
      BY <1>2, <2>1 DEF Select, TypeOK, Ended, Running
    <3>3. UNCHANGED <<report, built, out>>
      BY <2>1 DEF Select
    <3>4. \A k \in Shards : pc'[k] \in Running => pc[k] \in Running
      BY <1>2, <2>1, <3>2 DEF Select, TypeOK
    <3> QED
      BY <1>2, <2>1, <3>1, <3>2, <3>3, <3>4 DEF TypeOK, Origin
  <2>2. CASE SelectAll(i)
    BY <1>2, <2>1, <2>2 DEF SelectAll, TypeOK
  <2>3. CASE SelectPartial(i)
    BY <2>0, <2>1, <2>3 DEF SelectPartial
  <2>4. CASE ToolsFail(i)
    BY <1>2, <2>0, <2>4 DEF ToolsFail, TypeOK, Origin, Running, Ended
  <2>5. ASSUME NEW S \in SUBSET Ipk, built' = [built EXCEPT ![i] = S], pc[i] = "tools",
               \A x \in S : x.by = i /\ x.sec = SectionOf[x.pkg], UNCHANGED <<manifest, out>>,
               pc' = [pc EXCEPT ![i] = "copy"], report' \in [Shards -> BOOLEAN],
               faults' \in 0 .. MaxFaults, out[i] = {}
        PROVE  Typed
    BY <1>2, <2>5 DEF TypeOK, Origin, Running
  <2>6. CASE Compile(i)
    BY <1>2, <2>5, <2>6, MadeType, BuiltType DEF Compile, TypeOK, Origin, Running
  <2>7. CASE CompileBadly(i)
    <3>1. PICK p \in Made(i) : \E S \in {Built(i, Made(i) \ {p}),
                    Built(i, Made(i) \ {p}) \cup {Copy(p, i, 2, TRUE)},
                    Built(i, Made(i) \ {p}) \cup {Copy(p, i, 1, FALSE)}} :
            built' = [built EXCEPT ![i] = S]
      BY <2>7 DEF CompileBadly
    <3>2. PICK S \in {Built(i, Made(i) \ {p}),
                    Built(i, Made(i) \ {p}) \cup {Copy(p, i, 2, TRUE)},
                    Built(i, Made(i) \ {p}) \cup {Copy(p, i, 1, FALSE)}} :
            built' = [built EXCEPT ![i] = S]
      BY <3>1
    <3>3. S \in SUBSET Ipk /\ \A x \in S : x.by = i /\ x.sec = SectionOf[x.pkg]
      <4>1. Made(i) \ {p} \in SUBSET Packages /\ p \in Packages
        BY <1>2, MadeType
      <4>2. /\ Built(i, Made(i) \ {p}) \subseteq Ipk
            /\ \A x \in Built(i, Made(i) \ {p}) : x.by = i /\ x.sec = SectionOf[x.pkg]
        BY <4>1, BuiltType
      <4>3. \A v \in {1, 2}, ok \in BOOLEAN :
              LET c == Copy(p, i, v, ok) IN c \in Ipk /\ c.by = i /\ c.sec = SectionOf[c.pkg]
        BY <4>1, CopyType
      <4> QED
        BY <4>2, <4>3
    <3>4. report' \in [Shards -> BOOLEAN]
      BY <1>2, <2>7 DEF CompileBadly, TypeOK
    <3> QED
      BY <1>2, <2>0, <2>5, <2>7, <3>2, <3>3, <3>4 DEF CompileBadly, Origin, Running
  <2>8. CASE CopyOut(i)
    BY <1>2, <2>8 DEF CopyOut, TypeOK, Origin, Running, Ended
  <2>9. CASE CopyPartly(i)
    BY <1>2, <2>0, <2>9 DEF CopyPartly, TypeOK, Origin, Running, Ended
  <2>10. CASE LoseRunner(i)
    BY <1>2, <2>0, <2>10 DEF LoseRunner, TypeOK, Origin, Running, Ended
  <2>11. CASE IndexFails(i)
    BY <1>2, <2>0, <2>11 DEF IndexFails, TypeOK, Origin, Running, Ended
  <2> QED
    BY <2>2, <2>3, <2>4, <2>6, <2>7, <2>8, <2>9, <2>10, <2>11 DEF JobStep
<1> QED
  BY <1>1, <1>2, <1>3 DEF FeedInv, TypeOK, Quiet, OneEach, OwnerCopyWins, Accepted, feedVars

-----------------------------------------------------------------------------
LEMMA FeedInductive ==
  ASSUME FeedInv, [Next]_vars
  PROVE  FeedInv'
<1> DEFINE Good == {x \in Ipk : x.ok /\ x.pkg \notin Kernel}
<1>1. CASE \E i \in Shards : JobStep(i)
  BY <1>1, JobStepInv
<1>2. ASSUME Aggregate
      PROVE  /\ UNCHANGED jobVars
             /\ (/\ stage' \in {"merged", "repaired", "uploaded", "failed"}
                 /\ JobsOver
                 /\ faults' \in 0 .. MaxFaults
                 /\ malformed' \subseteq {x \in Ipk : ~x.ok}
                 /\ files' \subseteq Good
                 /\ OneEach'
                 /\ stage # "wait" /\ stage' # "failed" => Accepted
                 /\ (stage # "wait" => \A x \in files' : x \in files \/ FromRepair(x))
                 /\ (stage = "wait" => OwnerCopyWins'))
                => FeedInv'
  <2>1. UNCHANGED jobVars
    BY <1>2, AggregateFacts
  <2> QED
    BY <2>1 DEF FeedInv, TypeOK, Quiet, JobsOver, Origin, OneEach, OwnerCopyWins, Accepted,
                jobVars, FromRepair
<1>3. TypeOK /\ Quiet /\ OneEach
  BY DEF FeedInv
<1>4. CASE Merge
  <2>1. JobsOver /\ stage = "wait" /\ UNCHANGED <<jobVars, faults>> /\ Aggregate
    BY <1>4 DEF Merge, Aggregate
  <2>2. CASE stage' = "failed"
    <3>1. UNCHANGED <<files, index, malformed>>
      BY <1>4, <2>2 DEF Merge
    <3> QED
      BY <1>2, <1>3, <2>1, <2>2, <3>1 DEF TypeOK, OneEach, OwnerCopyWins, Accepted
  <2>3. CASE stage' # "failed"
    <3>1. /\ ~Problem /\ ~Shared /\ ~Conflict /\ stage' = "merged"
          /\ files' = {x \in Candidates : Chosen(x)} /\ index' = files'
          /\ malformed' = {x \in Present : ~x.ok}
      BY <1>4, <2>3 DEF Merge
    <3>2. /\ files' \subseteq Good
          /\ \A x, y \in files' : x.pkg = y.pkg => x = y
          /\ \A x \in files' : \A i \in Shards : \A y \in out[i] :
               y.ok /\ y.pkg = x.pkg /\ x.pkg \in manifest[i].packages => x = y
      BY <3>1, MergeChoice
    <3>3. malformed' \subseteq {x \in Ipk : ~x.ok}
      BY <1>3, <3>1 DEF Present, WithManifest, TypeOK
    <3>4. OneEach' /\ OwnerCopyWins'
      BY <2>1, <3>1, <3>2 DEF OneEach, OwnerCopyWins, jobVars
    <3> QED
      BY <1>2, <1>3, <2>1, <3>1, <3>2, <3>3, <3>4 DEF TypeOK
  <2> QED
    BY <2>2, <2>3
<1>5. CASE NoRepair
  BY <1>2, <1>3, <1>5 DEF NoRepair, Aggregate, TypeOK, Quiet, OneEach, Accepted
<1>6. ASSUME NEW R \in RepairOutputs, NEW usable \in BOOLEAN, Repair(R, usable)
      PROVE  FeedInv'
  <2>1. /\ stage = "merged" /\ JobsOver /\ Aggregate /\ Accepted
        /\ UNCHANGED <<malformed, faults>>
    BY <1>3, <1>6 DEF Repair, Aggregate, Quiet, Accepted
  <2>2. CASE ~usable \/ Refused(R)
    <3>1. stage' = "failed" /\ UNCHANGED <<files, index>>
      BY <1>6, <2>2 DEF Repair
    <3> QED
      BY <1>2, <1>3, <2>1, <3>1 DEF TypeOK, OneEach
  <2>3. CASE usable /\ ~Refused(R)
    <3>1. /\ stage' = "repaired"
          /\ files' = (files \ (Unlinked(Winners(R)) \cup Overwritten(Winners(R)))) \cup Winners(R)
          /\ index' = (index \ ReplacedBy(Winners(R))) \cup Winners(R)
      BY <1>6, <2>3 DEF Repair
    <3>2. /\ index' = files' /\ files' \subseteq Good
          /\ \A x, y \in files' : x.pkg = y.pkg => x = y
          /\ \A x \in files' : x \in files \/ FromRepair(x)
      BY <2>3, <3>1, RepairShape
    <3> QED
      BY <1>2, <1>3, <2>1, <3>1, <3>2 DEF TypeOK, OneEach
  <2> QED
    BY <2>2, <2>3
<1>7. CASE Finish
  <2>1. /\ stage = "repaired" /\ JobsOver /\ Aggregate /\ Accepted
        /\ stage' \in {"uploaded", "failed"}
        /\ UNCHANGED <<malformed, faults>>
    BY <1>3, <1>7 DEF Finish, Aggregate, Quiet, Accepted
  <2>2. index' = files' /\ files' \subseteq files
    BY <1>3, <1>7 DEF Finish, OneEach
  <2> QED
    BY <1>2, <1>3, <2>1, <2>2 DEF TypeOK, OneEach
<1>8. CASE UNCHANGED vars
  BY <1>8 DEF vars, FeedInv, TypeOK, Quiet, JobsOver, Origin, OneEach, OwnerCopyWins, Accepted
<1> QED
  BY <1>1, <1>4, <1>5, <1>6, <1>7, <1>8 DEF Next, Aggregate

LEMMA FeedInitially == Init => FeedInv
BY FaultsAssumption DEF Init, FeedInv, TypeOK, Quiet, Origin, OneEach, OwnerCopyWins, Accepted,
     NoManifest, Ended, JobsOver

LEMMA FeedInvariant == Spec => []FeedInv
<1>1. FeedInv /\ [Next]_vars => FeedInv'
  BY FeedInductive
<1> QED
  BY <1>1, FeedInitially, PTL DEF Spec

(* The variables of a build keep their types. *)
THEOREM TypeCorrect == Spec => []TypeOK
<1>1. FeedInv => TypeOK
  BY DEF FeedInv
<1> QED
  BY <1>1, FeedInvariant, PTL

(* Whichever jobs made a copy of a package, the feed has the copy of the   *)
(* job it was assigned to, when that one is valid.                         *)
THEOREM OwnersCopy == Spec => []OwnerCopyWins
<1>1. FeedInv => OwnerCopyWins
  BY DEF FeedInv
<1> QED
  BY <1>1, FeedInvariant, PTL

(* An uploaded feed lists exactly the files it holds, each name once, after *)
(* any targeted repair.                                                     *)
THEOREM FeedCoherent == Spec => []IndexIsFiles
<1>1. FeedInv => IndexIsFiles
  BY DEF FeedInv, OneEach, IndexIsFiles
<1> QED
  BY <1>1, FeedInvariant, PTL

-----------------------------------------------------------------------------
(* What becomes of the packages a shard was given.  A job that built       *)
(* anything built them all or has a report; from the merge on, each is in  *)
(* the feed or among the malformed.                                        *)
Complete(i) == \A p \in manifest[i].packages : report[i] \/ \E x \in built[i] : x.pkg = p

JobsReport == \A i \in Shards :
  /\ manifest[i].packages \cap Kernel = {}
  /\ pc[i] \in {"start", "tools"} => built[i] = {}
  /\ built[i] # {} => Complete(i)

FeedReports == Accepted => \A i \in Shards : out[i] \in {{}, built[i]} => Accounted(i)

AccountInv == FeedInv /\ JobsReport /\ FeedReports

LEMMA NoKernelSelected ==
  ASSUME NEW E, NEW i
  PROVE  ManifestOf(E, i).packages \cap Kernel = {}
BY DEF ManifestOf, Selectable

(* compile_with_report() builds what it does not report. *)
LEMMA CompileReports ==
  ASSUME TypeOK, NEW i \in Shards, Compile(i) \/ CompileBadly(i)
  PROVE  Complete(i)'
<1> SUFFICES ASSUME NEW p \in manifest[i].packages
             PROVE  report'[i] \/ \E x \in built'[i] : x.pkg = p
  BY DEF Complete, Compile, CompileBadly
<1>1. p \in Made(i)
  BY DEF Made
<1>2. \A v, ok : Copy(p, i, v, ok).pkg = p
  BY DEF Copy
<1>3. \A M : p \in M => Copy(p, i, 1, TRUE) \in Built(i, M)
  BY DEF Built
<1>4. CASE Compile(i)
  <2>1. built'[i] = Built(i, Made(i))
    BY <1>4 DEF Compile, TypeOK
  <2> QED
    BY <1>1, <1>2, <1>3, <2>1
<1>5. CASE CompileBadly(i)
  <2>1. PICK q \in Made(i) :
          \/ built'[i] = Built(i, Made(i) \ {q}) /\ report'[i] = TRUE
          \/ \E c \in {Copy(q, i, 2, TRUE), Copy(q, i, 1, FALSE)} :
               built'[i] = Built(i, Made(i) \ {q}) \cup {c}
    BY <1>5 DEF CompileBadly, TypeOK
  <2>2. CASE q = p
    BY <1>2, <2>1, <2>2
  <2>3. CASE q # p
    BY <1>1, <1>2, <1>3, <2>1, <2>3
  <2> QED
    BY <2>2, <2>3
<1> QED
  BY <1>4, <1>5

LEMMA JobStepReports ==
  ASSUME FeedInv, JobsReport, NEW i \in Shards, JobStep(i)
  PROVE  JobsReport'
<1>1. TypeOK
  BY DEF FeedInv
<1>2. \A k \in Shards \ {i} : /\ manifest'[k] = manifest[k] /\ pc'[k] = pc[k]
                              /\ built'[k] = built[k] /\ report'[k] = report[k]
  BY <1>1 DEF JobStep, SelectAll, SelectPartial, Select, ToolsFail, Compile, CompileBadly,
       CopyOut, CopyPartly, IndexFails, LoseRunner, TypeOK
<1>3. \A k \in Shards \ {i} : /\ manifest'[k].packages \cap Kernel = {}
                              /\ pc'[k] \in {"start", "tools"} => built'[k] = {}
                              /\ built'[k] # {} => Complete(k)'
  BY <1>2 DEF JobsReport, Complete
<1>4. ASSUME NEW E, Select(i, E)
      PROVE  built'[i] = {} /\ manifest'[i].packages \cap Kernel = {}
  <2>1. built'[i] = {} /\ (manifest' = manifest \/ manifest'[i] = ManifestOf(E, i))
    BY <1>1, <1>4 DEF Select, JobsReport, TypeOK
  <2> QED
    BY <2>1, NoKernelSelected DEF JobsReport
<1>5. CASE SelectAll(i) \/ SelectPartial(i)
  BY <1>3, <1>4, <1>5 DEF SelectAll, SelectPartial, JobsReport
<1>6. CASE ToolsFail(i)
  <2>1. built'[i] = {} /\ manifest'[i] = manifest[i]
    BY <1>6 DEF ToolsFail, JobsReport
  <2> QED
    BY <1>3, <2>1 DEF JobsReport
<1>7. CASE Compile(i) \/ CompileBadly(i)
  <2>1. pc'[i] = "copy" /\ manifest' = manifest
    BY <1>1, <1>7 DEF Compile, CompileBadly, TypeOK
  <2> QED
    BY <1>1, <1>3, <1>7, <2>1, CompileReports DEF JobsReport
<1>8. CASE CopyOut(i) \/ CopyPartly(i) \/ IndexFails(i) \/ LoseRunner(i)
  <2>1. UNCHANGED <<manifest, built, report>> /\ pc'[i] \notin {"start", "tools"}
    BY <1>1, <1>8 DEF CopyOut, CopyPartly, IndexFails, LoseRunner, TypeOK
  <2> QED
    BY <1>3, <2>1 DEF JobsReport, Complete
<1> QED
  BY <1>5, <1>6, <1>7, <1>8 DEF JobStep

(* merge() takes or lists every IPK of a shard's own packages. *)
LEMMA MergeReports ==
  ASSUME AccountInv, ~Problem, NEW i \in Shards, out[i] \in {{}, built[i]},
         NEW p \in manifest[i].packages, ~report[i]
  PROVE  \E x \in {y \in Candidates : Chosen(y)} \cup {y \in Present : ~y.ok} : x.pkg = p
<1>1. i \in WithManifest
  BY DEF Problem, Missing
<1>2. out[i] # {}
  BY <1>1 DEF Problem, Silent
<1>3. PICK x \in built[i] : x.pkg = p
  BY <1>2 DEF AccountInv, JobsReport, Complete
<1>4. x \in Present /\ x.by = i /\ p \notin Kernel
  BY <1>1, <1>2, <1>3 DEF Present, AccountInv, FeedInv, Origin, JobsReport
<1>5. x.ok => x \in Candidates /\ Chosen(x)
  BY <1>3, <1>4 DEF Candidates, Chosen, Owned
<1> QED
  BY <1>3, <1>4, <1>5

(* A repair keeps the names in the feed. *)
LEMMA RepairKeepsNames ==
  ASSUME NEW R, NEW x \in files,
         files' = (files \ (Unlinked(Winners(R)) \cup Overwritten(Winners(R)))) \cup Winners(R)
  PROVE  \E y \in files' : y.pkg = x.pkg
<1> DEFINE W == Winners(R)
<1>1. CASE x \in Unlinked(W) \cup Overwritten(W)
  <2>1. PICK r \in W : r.pkg = x.pkg
    BY <1>1 DEF Unlinked, ReplacedBy, Overwritten, Path
  <2> QED
    BY <2>1
<1>2. CASE x \notin Unlinked(W) \cup Overwritten(W)
  BY <1>2
<1> QED
  BY <1>1, <1>2

LEMMA AccountInductive ==
  ASSUME AccountInv, [Next]_vars
  PROVE  AccountInv'
<1>1. FeedInv' /\ FeedInv /\ TypeOK /\ Quiet
  BY FeedInductive DEF AccountInv, FeedInv
<1>2. CASE \E i \in Shards : JobStep(i)
  <2>1. PICK i \in Shards : JobStep(i)
    BY <1>2
  <2>2. JobsReport'
    BY <1>1, <2>1, JobStepReports DEF AccountInv
  <2>3. stage' = "wait"
    BY <1>1, <2>1, JobStepFacts DEF Quiet, JobsOver, feedVars
  <2> QED
    BY <1>1, <2>2, <2>3 DEF AccountInv, FeedReports, Accepted
<1>3. ASSUME UNCHANGED jobVars PROVE JobsReport'
  BY <1>3 DEF AccountInv, JobsReport, Complete, jobVars
<1>4. ASSUME UNCHANGED jobVars, Accepted, malformed' = malformed,
             \A x \in files : \E y \in files' : y.pkg = x.pkg
      PROVE  FeedReports'
  BY <1>4 DEF AccountInv, FeedReports, Accounted, jobVars
<1>5. CASE Merge
  <2>1. UNCHANGED jobVars
    BY <1>5 DEF Merge
  <2>2. CASE stage' = "failed"
    BY <1>1, <1>3, <2>1, <2>2 DEF AccountInv, FeedReports, Accepted
  <2>3. CASE stage' # "failed"
    <3>1. /\ ~Problem /\ files' = {x \in Candidates : Chosen(x)}
          /\ malformed' = {x \in Present : ~x.ok}
      BY <1>5, <2>3 DEF Merge
    <3>2. FeedReports'
      BY <2>1, <3>1, MergeReports DEF FeedReports, Accounted, jobVars
    <3> QED
      BY <1>1, <1>3, <2>1, <3>2 DEF AccountInv
  <2> QED
    BY <2>2, <2>3
<1>6. CASE NoRepair
  BY <1>1, <1>3, <1>4, <1>6 DEF NoRepair, Accepted, AccountInv
<1>7. ASSUME NEW R \in RepairOutputs, NEW usable \in BOOLEAN, Repair(R, usable)
      PROVE  AccountInv'
  <2>1. UNCHANGED jobVars /\ Accepted /\ malformed' = malformed
    BY <1>7 DEF Repair, Accepted
  <2>2. \/ files' = files
        \/ files' = (files \ (Unlinked(Winners(R)) \cup Overwritten(Winners(R)))) \cup Winners(R)
    BY <1>7 DEF Repair
  <2>3. \A x \in files : \E y \in files' : y.pkg = x.pkg
    BY <2>2, RepairKeepsNames
  <2> QED
    BY <1>1, <1>3, <1>4, <2>1, <2>3 DEF AccountInv
<1>8. CASE Finish
  <2>1. UNCHANGED jobVars /\ Accepted /\ malformed' = malformed
    BY <1>8 DEF Finish, Accepted
  <2>2. files' = files
    BY <1>1, <1>8 DEF Finish, TypeOK, IsKernel
  <2> QED
    BY <1>1, <1>3, <1>4, <2>1, <2>2 DEF AccountInv
<1>9. CASE UNCHANGED vars
  BY <1>1, <1>9 DEF vars, AccountInv, JobsReport, Complete, FeedReports, Accepted, Accounted
<1> QED
  BY <1>2, <1>5, <1>6, <1>7, <1>8, <1>9 DEF Next, Aggregate

(* Every package that a job with a whole or an empty artifact was given is *)
(* in the uploaded feed or in a report, whatever else failed in the build. *)
THEOREM NothingUnreported == Spec => []WholeJobsAccounted
<1>1. Init => AccountInv
  BY FeedInitially DEF Init, AccountInv, JobsReport, FeedReports, Accepted, NoManifest
<1>2. AccountInv /\ [Next]_vars => AccountInv'
  BY AccountInductive
<1>3. AccountInv => WholeJobsAccounted
  BY DEF AccountInv, FeedReports, WholeJobsAccounted, Accepted
<1> QED
  BY <1>1, <1>2, <1>3, PTL DEF Spec
=============================================================================
