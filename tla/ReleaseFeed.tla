----------------------------- MODULE ReleaseFeed -----------------------------
(***************************************************************************)
(* The optional release feed: scripts/prepare-release-feed.py makes a      *)
(* snapshot of some packages of a verified build, and                      *)
(* scripts/publish-release-feed.py publishes it as a release of its own.   *)
(*                                                                         *)
(* prepare() also runs in publish-release-feed.yml, which is dispatched by *)
(* hand, one run at a time, and keeps the directory as an artifact.        *)
(* publish() is called by no workflow: people run it, without a lock,      *)
(* gh() retries nothing, any error ends it.  Retries and concurrent runs   *)
(* are kept apart by the tag, a digest of source.json, which pins the      *)
(* bytes of every package and of the indexes.  Snapshots of one build that *)
(* differ in the Python or zlib that compressed the index differ in it.    *)
(*                                                                         *)
(* SHA256SUMS lists the other files; what matters of it is whether it was  *)
(* made again after one of them changed.                                   *)
(***************************************************************************)
EXTENDS GitHubReleases, FiniteSets

CONSTANTS Publishers,
          Packages,               \* the .ipk files: uploaded first
          Index, Source,          \* Packages with Packages.gz, source.json
          Tools,                  \* Python/zlib versions a machine may have
          MaxFaults               \* bound: faults of one behaviour

Expected == Packages \cup {Index, Source}
Foreign  == Files \ Expected

Payload  == "payload"     \* a package as the build made it
Changed  == "changed"     \* a file somebody altered

ASSUME ToolsAssumption ==
  /\ Tools # {} /\ Expected \subseteq Files
  /\ ReleaseIds # {} /\ IsFiniteSet(ReleaseIds)
ASSUME ContentAssumption == Contents = Tools \cup {Payload, Changed}
ASSUME NamesAssumption ==
  /\ Index # Source
  /\ \A n \in {Index, Source} : n \notin Packages
ASSUME MaxFaultsAssumption == MaxFaults \in Nat

VARIABLES rels,     \* rels[t]: the releases that carry the tag of tool t's snapshot
          lookup,   \* how the service resolves a tag; constant
          pc,
          run,      \* the run of a publisher: tool, the machine; dir, the prepared
                    \* directory; resealed, a new SHA256SUMS; id and draft of
                    \* `release', read once; missing
          faults

vars == <<rels, lookup, pc, run, faults>>

Working == {"publish", "create", "view", "assets", "compare", "upload", "edit"}
Active(p) == pc[p] \in Working

(* prepare(): what a machine with tool t writes. *)
Content(n, t) == IF n \in Packages THEN Payload ELSE t
Snapshot(t) == [n \in Files |-> IF n \in Expected THEN Content(n, t) ELSE Absent]

TagOfPayloads(t) == CHOOSE u \in Tools : TRUE    \* mutant: indexes not in source.json
TagOf(t) == t

Here(p) == rels[TagOf(run[p].tool)]

AnyId == CHOOSE i \in ReleaseIds : TRUE
Fresh(t, d) == [tool |-> t, dir |-> d, resealed |-> FALSE, id |-> AnyId, draft |-> FALSE, missing |-> {}]
NoRun == Fresh(CHOOSE t \in Tools : TRUE, NoAssets)

TypeOK ==
  /\ rels \in [Tools -> [ReleaseIds -> Release]]
  /\ lookup \in [list : Lookups, tag : Lookups]
  /\ pc \in [Publishers -> Working \cup {"idle", "prepared", "done"}]
  /\ \A p \in Publishers :
       /\ run[p].tool \in Tools /\ run[p].id \in ReleaseIds /\ run[p].draft \in BOOLEAN
       /\ run[p].dir \in [Files -> Contents \cup {Absent}]
       /\ run[p].missing \subseteq Expected
  /\ faults \in 0 .. MaxFaults

Init ==
  /\ rels = [t \in Tools |-> [i \in ReleaseIds |-> [st |-> "none", assets |-> NoAssets]]]
  /\ lookup \in [list : Lookups, tag : Lookups]
  /\ pc = [p \in Publishers |-> "idle"]
  /\ run = [p \in Publishers |-> NoRun]
  /\ faults = MaxFaults

Goto(p, l) == pc' = [pc EXCEPT ![p] = l]
Fault == faults > 0 /\ faults' = faults - 1

(* An exception: the run is over, and nothing it did is undone. *)
Fail(p) == Goto(p, "idle") /\ run' = [run EXCEPT ![p] = NoRun]

-----------------------------------------------------------------------------
(* prepare(): one acceptable candidate per requested package, or nothing   *)
(* is written.                                                             *)
Prepare(p, t, found) ==
  /\ pc[p] \in {"idle", "done"}
  /\ \A n \in Packages : found[n] = 1
  /\ Goto(p, "prepared")
  /\ run' = [run EXCEPT ![p] = Fresh(t, Snapshot(t))]
  /\ UNCHANGED <<rels, lookup, faults>>

(* The directory waits for the publication: a file is altered, deleted or  *)
(* added, and SHA256SUMS perhaps made again.                               *)
Damage(p) ==
  LET t == run[p].tool IN
  /\ pc[p] = "prepared" /\ run[p].dir = Snapshot(t)
  /\ Fault
  /\ \E n \in Files, c \in {Changed, Absent}, resealed \in BOOLEAN :
       /\ c # Snapshot(t)[n]
       /\ run' = [run EXCEPT ![p].dir[n] = c, ![p].resealed = resealed]
  /\ UNCHANGED <<rels, lookup, pc>>

(* The checks of publish() before it talks to the service. *)
(* mutant: indexes and packages are compared with SHA256SUMS only *)
VerifiedBySums(d, resealed, t) == (resealed \/ d = Snapshot(t)) /\ d[Source] = t
Verified(d, resealed, t) ==
  /\ resealed \/ d = Snapshot(t)                        \* SHA256SUMS
  /\ d[Source] = t                                      \* its digest is the tag
  /\ d[Index] = t                                       \* indexes
  /\ \A n \in Packages : d[n] = Payload                 \* packages
  /\ {n \in Files : d[n] # Absent} = Expected

Start(p) ==
  /\ pc[p] = "prepared"
  /\ IF Verified(run[p].dir, run[p].resealed, run[p].tool)
       THEN Goto(p, "publish") /\ UNCHANGED run
       ELSE Fail(p)
  /\ UNCHANGED <<rels, lookup, faults>>

-----------------------------------------------------------------------------
Read(p, i) ==
  run' = [run EXCEPT ![p].id = i, ![p].draft = Here(p)[i].st = "draft"]

(* The listing decides whether the release exists. *)
ListReleases(p) ==
  /\ pc[p] = "publish"
  /\ IF Existing(Here(p)) = {}
       THEN Goto(p, "create") /\ UNCHANGED run
       ELSE Goto(p, "assets") /\ Read(p, FirstListed(Here(p), lookup))
  /\ UNCHANGED <<rels, lookup, faults>>

(* gh release create; the answer may get lost, which ends the run. *)
CreateDraft(p) ==
  /\ pc[p] = "create"
  /\ \E i \in ReleaseIds :
       /\ Here(p)[i].st = "none"      \* bound: an id is left
       /\ rels' = [rels EXCEPT ![TagOf(run[p].tool)][i] = [st |-> "draft", assets |-> NoAssets]]
  /\ \/ Goto(p, "view") /\ UNCHANGED <<run, faults>>
     \/ Fail(p) /\ Fault
  /\ UNCHANGED lookup

(* gh release view <tag>, then the release by its id. *)
View(p) ==
  /\ pc[p] = "view"
  /\ Read(p, ByTag(Here(p), lookup))
  /\ Goto(p, "assets")
  /\ UNCHANGED <<rels, lookup, faults>>

(* The assets of that id; a name of no file of the directory is refused. *)
ListAssets(p) ==
  LET rel == Here(p)[run[p].id] IN
  /\ pc[p] = "assets"
  /\ IF Stored(rel) \subseteq Expected
       THEN Goto(p, "compare") /\ run' = [run EXCEPT ![p].missing = Expected \ Stored(rel)]
       ELSE Fail(p)
  /\ UNCHANGED <<rels, lookup, faults>>

(* Every listed asset is downloaded, by the tag, and compared. *)
Same(p) ==
  \A n \in Expected \ run[p].missing :
    Here(p)[ByTag(Here(p), lookup)].assets[n] = run[p].dir[n]

AfterCompareNoResume(p) ==                     \* mutant: a draft with assets is refused
  IF run[p].missing = Expected /\ run[p].draft THEN "upload"
  ELSE IF run[p].missing = {} THEN IF run[p].draft THEN "edit" ELSE "done"
  ELSE "idle"
AfterCompare(p) ==
  IF run[p].missing # {} THEN IF run[p].draft THEN "upload" ELSE "idle"
  ELSE IF run[p].draft THEN "edit" ELSE "done"

Compare(p) ==
  /\ pc[p] = "compare"
  /\ IF Same(p) /\ AfterCompare(p) # "idle"
       THEN Goto(p, AfterCompare(p)) /\ UNCHANGED run
       ELSE Fail(p)
  /\ UNCHANGED <<rels, lookup, faults>>

(* sorted(missing, key=(not .ipk, name)): packages first, one at a time. *)
NextFile(p) ==
  LET ipks  == run[p].missing \cap Packages
      first == IF ipks # {} THEN ipks ELSE run[p].missing
  IN  CHOOSE n \in first : \A m \in first : n <= m

Put(p, n, c) ==
  rels' = [rels EXCEPT ![TagOf(run[p].tool)][ByTag(Here(p), lookup)] =
             Add(@, [m \in {n} |-> c])]

TakenNever(p) == FALSE                         \* mutant: gh release upload --clobber
Taken(p) == NextFile(p) \in Stored(Here(p)[ByTag(Here(p), lookup)])

Upload(p) ==
  /\ pc[p] = "upload"
  /\ IF Taken(p)
       THEN Fail(p) /\ UNCHANGED rels
       ELSE /\ Put(p, NextFile(p), run[p].dir[NextFile(p)])
            /\ run' = [run EXCEPT ![p].missing = @ \ {NextFile(p)}]
            /\ IF run[p].missing = {NextFile(p)} THEN Goto(p, "edit") ELSE UNCHANGED pc
  /\ UNCHANGED <<lookup, faults>>

(* The command fails: the file arrived whole, broken off or not at all. *)
UploadBroken(p) ==
  /\ pc[p] = "upload" /\ ~Taken(p)
  /\ Fault
  /\ \E c \in {run[p].dir[NextFile(p)], Torn, Absent} : Put(p, NextFile(p), c)
  /\ Fail(p)
  /\ UNCHANGED lookup

(* gh release edit <tag> --draft=false, under the flag read at the start. *)
Edit(p) ==
  /\ pc[p] = "edit"
  /\ rels' = [rels EXCEPT ![TagOf(run[p].tool)][ByTag(Here(p), lookup)].st = "public"]
  /\ \/ Goto(p, "done") /\ UNCHANGED <<run, faults>>
     \/ Fail(p) /\ Fault
  /\ UNCHANGED lookup

-----------------------------------------------------------------------------
(* Any gh() fails, or the machine stops. *)
Stop(p) ==
  /\ Active(p)
  /\ Fault
  /\ Fail(p)
  /\ UNCHANGED <<rels, lookup>>

(* A person attaches a file to a draft while nobody publishes. *)
AttachByHand(t, i, n) ==
  /\ \A p \in Publishers : ~Active(p)
  /\ rels[t][i].st = "draft" /\ rels[t][i].assets[n] = Absent
  /\ Fault
  /\ rels' = [rels EXCEPT ![t][i].assets[n] = Changed]
  /\ UNCHANGED <<lookup, pc, run>>

Step(p) == \/ Start(p) \/ ListReleases(p) \/ CreateDraft(p) \/ View(p) \/ ListAssets(p)
           \/ Compare(p) \/ Upload(p) \/ Edit(p)

PrepareSome(p) == \E t \in Tools, found \in [Packages -> 0 .. 2] : Prepare(p, t, found)

Next == \/ \E p \in Publishers : \/ PrepareSome(p) \/ Step(p)
                                 \/ Damage(p) \/ UploadBroken(p) \/ Stop(p)
        \/ \E t \in Tools, i \in ReleaseIds, n \in Foreign : AttachByHand(t, i, n)

Spec == Init /\ [][Next]_vars

(* A run that is started goes on, and whoever saw one fail starts another. *)
LiveSpec ==
  /\ Spec
  /\ \A p \in Publishers : WF_vars(Step(p)) /\ WF_vars(PrepareSome(p))

-----------------------------------------------------------------------------
Single(t) == Cardinality(Existing(rels[t])) = 1

(* "Draft assets stay invisible until the entire snapshot is present": a   *)
(* release anybody can see is exactly the snapshot its tag is the digest   *)
(* of, although runs overlap, files were altered in the prepared directory *)
(* and runs broke off anywhere - as long as one release carries the tag.   *)
PublicIsSnapshot ==
  \A t \in Tools, i \in ReleaseIds :
    Single(t) /\ rels[t][i].st = "public" => rels[t][i].assets = Snapshot(t)

(* "never replace existing release assets": no asset is ever replaced or   *)
(* removed, and a public snapshot is frozen, although a concurrent run may *)
(* hold a draft flag read before it went public.                           *)
NeverReplaced ==
  [][\A t \in Tools, i \in ReleaseIds :
       /\ \A n \in Files : rels[t][i].assets[n] # Absent => rels'[t][i].assets[n] = rels[t][i].assets[n]
       /\ Single(t) /\ rels[t][i].st = "public" => rels'[t][i] = rels[t][i]]_vars

(* "retries never collide with a prior immutable snapshot": a run is       *)
(* refused only because of an asset that no run uploaded whole, whatever   *)
(* Python made the earlier snapshots.                                      *)
Alien(rel) == \E n \in Files : rel.assets[n] \in {Torn, Changed}
RetriesNeverCollide ==
  [][\A p \in Publishers :
       pc[p] \in {"assets", "compare"} /\ pc'[p] = "idle" /\ faults' = faults
         => \/ Cardinality(Existing(Here(p))) > 1
            \/ \E i \in Existing(Here(p)) : Alien(Here(p)[i])]_vars

(* Whatever point runs break off at, and although runs at the same time    *)
(* make each other fail, a snapshot goes public in the end: each failure   *)
(* leaves a draft that a later run goes on with.                           *)
Orderly ==
  \A t \in Tools :
    Cardinality(Existing(rels[t])) <= 1 /\ \A i \in ReleaseIds : ~Alien(rels[t][i])
EventuallyPublic == []Orderly => <>(\E t \in Tools : Public(rels[t]) # {})
=============================================================================
