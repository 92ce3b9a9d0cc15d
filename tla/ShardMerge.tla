----------------------------- MODULE ShardMerge -----------------------------
(***************************************************************************)
(* One full userspace build: build-packages.yml runs a job per shard,      *)
(* select-userspace-shard.py gives each a part of the recipes,             *)
(* build-packages.sh compiles it, and the aggregate job turns what the     *)
(* jobs left behind into one feed: merge-userspace-shards.py, then         *)
(* merge-userspace-repairs.py, sanitize-opkg-feed.sh and verify-feed.sh.   *)
(*                                                                         *)
(* A job compiles the dependencies of its recipes too, so one package may  *)
(* come out of several jobs, as different files.  Recipes are numbers in   *)
(* the order of their names; a digest is the set it was computed from.     *)
(***************************************************************************)
EXTENDS Naturals, FiniteSets

CONSTANTS Count,       \* PACKAGE_SHARD_COUNT
          Packages, RecipeOf,
          Enabled,     \* packages that build/userspace.config enables
          Kernel,      \* packages named kernel or kmod-*
          KernelTree,  \* recipes under kernel/
          Gcc,         \* packages named gcc
          Needs,       \* packages compiled along with a package
          Sections, SectionOf,
          RepairOutputs, \* sets of IPKs that targeted runs may hold
          MaxFaults    \* bound: things that go wrong in one build

Shards == 0 .. Count - 1

(* An IPK: what it is, who built it, and whether control() accepts it.     *)
(* Targeted repair runs come after the shards, in the order of their names.*)
Ipk == [pkg : Packages, by : Nat, ver : {1, 2}, sec : Sections, ok : BOOLEAN]
FromRepair(x) == x.by >= Count

ASSUME CountAssumption == Count \in Nat \ {0}
ASSUME PackagesAssumption ==
  /\ IsFiniteSet(Packages)
  /\ RecipeOf \in [Packages -> Nat] /\ Enabled \subseteq Packages
  /\ Kernel \subseteq Packages /\ Gcc \subseteq Packages /\ KernelTree \subseteq Nat
  /\ Needs \in [Packages -> SUBSET Packages]
  /\ SectionOf \in [Packages -> Sections]
(* A run holds one IPK of a name: it compiled one version of its recipe.   *)
ASSUME RepairsAssumption ==
  \A R \in RepairOutputs :
    /\ R \subseteq Ipk
    /\ \A r \in R : FromRepair(r)
    /\ \A r, q \in R : r.pkg = q.pkg /\ r.by = q.by => r = q
ASSUME FaultsAssumption == MaxFaults \in Nat

VARIABLES pc,        \* pc[i]: the job of shard i
          manifest,  \* manifest[i]: shard-manifest.json, or NoManifest
          report,    \* report[i]: does failed-packages.md exist?
          built,     \* built[i]: IPKs in the build tree
          out,       \* out[i]: IPKs in dist/, the artifact of the job
          stage,     \* the aggregate job
          files,     \* IPKs in its dist/
          index,     \* what its Packages files list
          malformed, \* what shard-report.md lists as skipped
          faults

vars == <<pc, manifest, report, built, out, stage, files, index, malformed, faults>>
jobVars == <<pc, manifest, report, built, out>>
feedVars == <<stage, files, index, malformed>>

NoManifest == [all |-> {}, recipes |-> {}, packages |-> {}]
Ended == {"done", "stopped", "lost"}

Fault == faults > 0 /\ faults' = faults - 1

Init ==
  /\ pc = [i \in Shards |-> "start"]
  /\ manifest = [i \in Shards |-> NoManifest]
  /\ report = [i \in Shards |-> FALSE]
  /\ built = [i \in Shards |-> {}] /\ out = [i \in Shards |-> {}]
  /\ stage = "wait"
  /\ files = {} /\ index = {} /\ malformed = {}
  /\ faults = MaxFaults

-----------------------------------------------------------------------------
(* select(): the enabled userspace packages, their recipes in order, and   *)
(* every Count-th of them, from the index of the shard on.                 *)
Selectable(enabled) == {p \in enabled : p \notin Kernel /\ RecipeOf[p] \notin KernelTree}

Position(S, r) == Cardinality({x \in S : x < r})
Assigned(S, i) == {r \in S : Position(S, r) % Count = i}

ManifestOf(enabled, i) ==
  LET chosen == Selectable(enabled)
      S      == {RecipeOf[p] : p \in chosen}
  IN  [all |-> S, recipes |-> Assigned(S, i),
       packages |-> {p \in chosen : RecipeOf[p] \in Assigned(S, i)}]

Select(i, enabled) ==
  /\ pc[i] = "start"
  /\ IF Cardinality(ManifestOf(enabled, i).all) < Count
       THEN pc' = [pc EXCEPT ![i] = "stopped"] /\ UNCHANGED manifest
       ELSE /\ pc' = [pc EXCEPT ![i] = "tools"]
            /\ manifest' = [manifest EXCEPT ![i] = ManifestOf(enabled, i)]
  /\ UNCHANGED <<report, built, out>> /\ UNCHANGED feedVars

SelectAll(i) == Select(i, Enabled) /\ UNCHANGED faults
(* One runner scans the recipe tree and loses a recipe. *)
SelectPartial(i) == Fault /\ \E p \in Enabled : Select(i, Enabled \ {p})

(* install_host_tools() fails, with a report, or a step after it without.  *)
ToolsFail(i) ==
  /\ pc[i] = "tools"
  /\ Fault
  /\ pc' = [pc EXCEPT ![i] = "stopped"]
  /\ \E r \in BOOLEAN : report' = [report EXCEPT ![i] = r]
  /\ UNCHANGED <<manifest, built, out>> /\ UNCHANGED feedVars

(* compile_with_report() *)
Made(i) == manifest[i].packages \cup UNION {Needs[p] : p \in manifest[i].packages}
Copy(p, i, v, ok) == [pkg |-> p, by |-> i, ver |-> v, sec |-> SectionOf[p], ok |-> ok]
Built(i, M) == {Copy(p, i, 1, TRUE) : p \in M}

Compile(i) ==
  /\ pc[i] = "tools"
  /\ built' = [built EXCEPT ![i] = Built(i, Made(i))]
  /\ pc' = [pc EXCEPT ![i] = "copy"]
  /\ UNCHANGED <<manifest, report, out, faults>> /\ UNCHANGED feedVars

(* A package fails in both passes, is built from another version of its    *)
(* recipe, or comes out with a file name that its control file belies.     *)
CompileBadly(i) ==
  /\ pc[i] = "tools"
  /\ Fault
  /\ \E p \in Made(i) :
       \/ /\ built' = [built EXCEPT ![i] = Built(i, Made(i) \ {p})]
          /\ report' = [report EXCEPT ![i] = TRUE]
       \/ /\ \E c \in {Copy(p, i, 2, TRUE), Copy(p, i, 1, FALSE)} :
               built' = [built EXCEPT ![i] = Built(i, Made(i) \ {p}) \cup {c}]
          /\ UNCHANGED report
  /\ pc' = [pc EXCEPT ![i] = "copy"]
  /\ UNCHANGED <<manifest, out>> /\ UNCHANGED feedVars

CopyOut(i) ==
  /\ pc[i] = "copy"
  /\ out' = [out EXCEPT ![i] = built[i]]
  /\ pc' = [pc EXCEPT ![i] = "done"]
  /\ UNCHANGED <<manifest, report, built, faults>> /\ UNCHANGED feedVars

(* The disk is full or the job timed out; the artifact is uploaded anyway. *)
CopyPartly(i) ==
  /\ pc[i] = "copy"
  /\ Fault
  /\ \E S \in SUBSET built[i] : S # built[i] /\ out' = [out EXCEPT ![i] = S]
  /\ pc' = [pc EXCEPT ![i] = "stopped"]
  /\ UNCHANGED <<manifest, report, built>> /\ UNCHANGED feedVars

(* make package/index fails, or no packages directory was created. *)
IndexFails(i) ==
  /\ pc[i] = "copy"
  /\ Fault
  /\ pc' = [pc EXCEPT ![i] = "stopped"]
  /\ UNCHANGED <<manifest, report, built, out>> /\ UNCHANGED feedVars

LoseRunner(i) ==
  /\ pc[i] \notin Ended
  /\ Fault
  /\ pc' = [pc EXCEPT ![i] = "lost"]
  /\ UNCHANGED <<manifest, report, built, out>> /\ UNCHANGED feedVars

-----------------------------------------------------------------------------
(* merge(): first the problems that refuse the build. *)
WithManifest == {i \in Shards : pc[i] # "lost" /\ manifest[i] # NoManifest}

MissingNever == FALSE                   \* mutant: absent shards not counted
Missing == WithManifest # Shards

SilentNever(i) == FALSE                 \* mutant: an empty artifact is accepted
Silent(i) == out[i] = {} /\ ~report[i]

Union == UNION {manifest[i].recipes : i \in Shards}
Disagree == \E i, j \in Shards : manifest[i].all # manifest[j].all
Overlap == \E i, j \in Shards : i # j /\ manifest[i].recipes \cap manifest[j].recipes # {}
Gap == \E i \in Shards : Cardinality(Union) # Cardinality(manifest[i].all)
DigestDiffers == \A i \in Shards : Union # manifest[i].all

Problem ==
  \/ \E i \in Shards : pc[i] # "lost" /\ manifest[i] = NoManifest
  \/ \E i \in WithManifest : Silent(i)
  \/ Missing
  \/ WithManifest = Shards /\ (Disagree \/ Overlap \/ Gap \/ DigestDiffers)

(* Then one copy of every package, from its owner when the owner has one.  *)
Present == UNION {out[i] : i \in WithManifest}
CandidatesAll == {x \in Present : x.ok}          \* mutant: kernel packages too
Candidates == {x \in Present : x.ok /\ x.pkg \notin Kernel}

Shared == \E i, j \in WithManifest : i # j /\ manifest[i].packages \cap manifest[j].packages # {}
Conflict == \E x, y \in Candidates : x.pkg = y.pkg /\ x.sec = y.sec /\ x.ver # y.ver

Rivals(x) == {y \in Candidates : y.pkg = x.pkg /\ y.sec = x.sec}
Owned(x) == x.pkg \in manifest[x.by].packages
ChosenFirst(x) == \A y \in Rivals(x) : x.by <= y.by       \* mutant: owner ignored
Chosen(x) == \/ Owned(x)
             \/ \A y \in Rivals(x) : ~Owned(y) /\ x.by <= y.by

JobsOver == \A i \in Shards : pc[i] \in Ended

Merge ==
  /\ stage = "wait"
  /\ JobsOver
  /\ IF Problem \/ Shared \/ Candidates = {} \/ Conflict
       THEN stage' = "failed" /\ UNCHANGED <<files, index, malformed>>
       ELSE /\ stage' = "merged"
            /\ files' = {x \in Candidates : Chosen(x)}
            /\ index' = files'
            /\ malformed' = {x \in Present : ~x.ok}
  /\ UNCHANGED jobVars /\ UNCHANGED faults

-----------------------------------------------------------------------------
(* fetch-userspace-repairs.py and merge-userspace-repairs.py: R are the    *)
(* IPKs of targeted runs; usable says that these succeeded, failed no      *)
(* package, were no shards and come from an ancestor revision.  Everything *)
(* is checked before a file is touched.  The last run wins a name.         *)
Path(x) == <<x.sec, x.pkg, x.ver>>
Winners(R) == {r \in R : \A q \in R : q.pkg = r.pkg => q.by <= r.by}
ReplacedBy(R) == {x \in index : \E r \in R : r.pkg = x.pkg}

Refused(R) ==
  \/ R = {}
  \/ \E r \in R : ~r.ok \/ r.pkg \in Kernel
  \/ \E r, q \in R : r.pkg = q.pkg /\ r.ver # q.ver
  \/ \E r \in R, x \in index : r.pkg = x.pkg /\ r.ver # x.ver

Overwritten(R) == {x \in files : \E r \in R : Path(x) = Path(r)}
UnlinkedNone(R) == {}                          \* mutant: a moved package stays
Unlinked(R) == {x \in ReplacedBy(R) : \A r \in R : Path(x) # Path(r)}

Repair(R, usable) ==
  LET W == Winners(R) IN
  /\ stage = "merged"
  /\ IF ~usable \/ Refused(R)
       THEN stage' = "failed" /\ UNCHANGED <<files, index>>
       ELSE /\ stage' = "repaired"
            /\ files' = (files \ (Unlinked(W) \cup Overwritten(W))) \cup W
            /\ index' = (index \ ReplacedBy(W)) \cup W
  /\ UNCHANGED <<malformed, faults>> /\ UNCHANGED jobVars

NoRepair ==
  /\ stage = "merged"
  /\ stage' = "repaired"
  /\ UNCHANGED <<files, index, malformed, faults>> /\ UNCHANGED jobVars

(* The rest of the job: no native GCC, no kernel package in file or index, *)
(* and every indexed file present; then the artifact is uploaded, unless   *)
(* the payload check or the Asterisk feed that is added refuses the feed.  *)
IsKernel(x) == x.pkg \in Kernel

Verified(F, I) == F # {} /\ I \subseteq F /\ \A x \in F \cup I : ~IsKernel(x)

Finish ==
  LET F == {x \in files : ~IsKernel(x)}
      I == {x \in index : ~IsKernel(x)}
  IN
  /\ stage = "repaired"
  /\ IF \E x \in files : x.pkg \in Gcc
       THEN stage' = "failed" /\ UNCHANGED <<files, index>>
       ELSE /\ files' = F /\ index' = I
            /\ \E clean \in BOOLEAN :
                 stage' = IF Verified(F, I) /\ clean THEN "uploaded" ELSE "failed"
  /\ UNCHANGED <<malformed, faults>> /\ UNCHANGED jobVars

-----------------------------------------------------------------------------
JobStep(i) == \/ SelectAll(i) \/ SelectPartial(i) \/ ToolsFail(i)
              \/ Compile(i) \/ CompileBadly(i)
              \/ CopyOut(i) \/ CopyPartly(i) \/ IndexFails(i) \/ LoseRunner(i)

Aggregate == \/ Merge
             \/ NoRepair
             \/ \E R \in RepairOutputs, usable \in BOOLEAN : Repair(R, usable)
             \/ Finish

Next == \/ \E i \in Shards : JobStep(i)
        \/ Aggregate

Spec == Init /\ [][Next]_vars

-----------------------------------------------------------------------------
TypeOK ==
  /\ pc \in [Shards -> {"start", "tools", "copy"} \cup Ended]
  /\ manifest \in [Shards -> [all : SUBSET Nat, recipes : SUBSET Nat,
                             packages : SUBSET Packages]]
  /\ built \in [Shards -> SUBSET Ipk] /\ out \in [Shards -> SUBSET Ipk]
  /\ \A i \in Shards : out[i] \subseteq built[i]
  /\ report \in [Shards -> BOOLEAN]
  /\ stage \in {"wait", "merged", "repaired", "uploaded", "failed"}
  /\ files \subseteq {x \in Ipk : x.ok /\ x.pkg \notin Kernel}
  /\ index \subseteq {x \in Ipk : x.ok /\ x.pkg \notin Kernel}
  /\ malformed \subseteq {x \in Ipk : ~x.ok}
  /\ faults \in 0 .. MaxFaults

Accepted == stage \in {"merged", "repaired", "uploaded"}

(* A build is merged only when every recipe that some runner found enabled *)
(* was assigned to exactly one job, and this job delivered an artifact     *)
(* with packages or with a failure report, whichever jobs were lost,       *)
(* stopped or scanned another tree.  (Whether a recipe was compiled is the *)
(* matter of WholeJobsAccounted.)                                          *)
Coverage ==
  Accepted =>
    \A r \in UNION {manifest[i].all : i \in Shards} :
      \E i \in Shards : /\ pc[i] # "lost" /\ r \in manifest[i].recipes
                        /\ out[i] # {} \/ report[i]
                        /\ \A j \in Shards \ {i} : r \notin manifest[j].recipes

(* Of the copies that several jobs made of a package, the feed has the one *)
(* of the job it was assigned to, when that job has a valid one.           *)
OwnerCopyWins ==
  Accepted =>
    \A x \in files : ~FromRepair(x) =>
      \A i \in Shards : \A y \in out[i] :
        y.ok /\ y.pkg = x.pkg /\ x.pkg \in manifest[i].packages => x = y

(* The uploaded feed lists exactly its files, each name once: a repair     *)
(* that moves a package to another section leaves nothing behind.          *)
IndexIsFiles ==
  stage = "uploaded" => /\ index = files
                        /\ \A x, y \in files : x.pkg = y.pkg => x = y

(* What shard i was given is in the uploaded feed, or some report speaks of *)
(* it: the failures of the job, or the malformed IPKs of the merge.        *)
Accounted(i) ==
  \A p \in manifest[i].packages :
    report[i] \/ \E x \in files \cup malformed : x.pkg = p

(* Nothing that merge() was given goes unreported if the job's artifact is *)
(* all it built or empty: no other way to lose a package is silent.        *)
WholeJobsAccounted ==
  stage = "uploaded" =>
    \A i \in Shards : out[i] \in {{}, built[i]} => Accounted(i)

(* docs/homeware-integration.md: "The aggregate report records shard       *)
(* failures separately from the verified packages available in the         *)
(* assembled feed."                                                        *)
NothingLostSilently == stage = "uploaded" => \A i \in Shards : Accounted(i)
=============================================================================
