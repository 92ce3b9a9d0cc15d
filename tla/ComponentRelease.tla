-------------------------- MODULE ComponentRelease --------------------------
(***************************************************************************)
(* scripts/publish-components.py: publishing one component (the FreeSWITCH *)
(* sound packages) as a GitHub Release whose tag is the digest of its      *)
(* package index (publication_layout.prepare).                             *)
(*                                                                         *)
(* A publisher is one workflow run executing publish().  Calls of gh are   *)
(* atomic; between two calls anything the service or another run does may  *)
(* happen.  What gh reads stays in the run's local variables: `state', read *)
(* once, and the listing of assets, read in each turn of the loop.         *)
(***************************************************************************)
EXTENDS GitHubReleases, FiniteSets

CONSTANTS Publishers,
          Packages,       \* the .ipk files: bytes pinned by the tag
          Derived,        \* Packages.gz, source.json, ...: bytes depend on tool
          Tools,          \* Python/zlib versions a runner may have
          BatchSize,      \* files per `gh release upload' (20)
          MaxAttempts,    \* attempts of gh() (8)
          MaxFaults       \* bound: faults of one behaviour

Expected == Packages \cup Derived
Foreign  == Files \ Expected      \* names only a person would attach

ASSUME NonEmptyAssumption == ReleaseIds # {} /\ Tools # {}
ASSUME NamesAssumption == Expected \subseteq Files /\ Expected # {}
ASSUME DisjointAssumption == Packages \cap Derived = {}
ASSUME ContentAssumption == Contents = Tools \cup {"payload"}
ASSUME BoundsAssumption == BatchSize \in Nat \ {0} /\ MaxAttempts \in Nat \ {0}
                           /\ MaxFaults \in Nat

VARIABLES rels,      \* the releases carrying the tag
          lookup,    \* how the service resolves the tag; constant
          pc,        \* where publish() is
          attempt,   \* failed attempts of the current gh() call
          state,     \* the local variable `state': id and (stale) draft flag
          missing,   \* the local variable `missing'
          tool,      \* Python/zlib of the run's machine
          faults     \* faults still to come

vars == <<rels, lookup, pc, attempt, state, missing, tool, faults>>
runVars == <<attempt, state, missing, tool>>

Working == {"release", "create", "assets", "upload", "edit"}
Ended   == {"idle", "done", "failed"}
GhCalls == {"release", "create", "assets", "edit"}

Active(p) == pc[p] \in Working

(* The bytes prepare() writes for asset n on a machine with tool t. *)
Content(n, t) == IF n \in Packages THEN "payload" ELSE t

Snapshot(t) ==
  [n \in Files |-> IF n \in Expected THEN Content(n, t) ELSE Absent]

(* sorted(missing)[:20] *)
Batch(names) ==
  {n \in names : Cardinality({m \in names : m < n}) < BatchSize}

TypeOK ==
  /\ rels \in [ReleaseIds -> Release]
  /\ lookup \in [list : Lookups, tag : Lookups]
  /\ pc \in [Publishers -> Working \cup Ended]
  /\ attempt \in [Publishers -> 0 .. MaxAttempts - 1]
  /\ state \in [Publishers -> [id : ReleaseIds, draft : BOOLEAN]]
  /\ missing \in [Publishers -> SUBSET Expected]
  /\ tool \in [Publishers -> Tools]
  /\ faults \in 0 .. MaxFaults

Init ==
  /\ rels = [i \in ReleaseIds |-> [st |-> "none", assets |-> NoAssets]]
  /\ lookup \in [list : Lookups, tag : Lookups]
  /\ pc = [p \in Publishers |-> "idle"]
  /\ attempt = [p \in Publishers |-> 0]
  /\ state = [p \in Publishers |-> [id |-> CHOOSE i \in ReleaseIds : TRUE,
                                    draft |-> FALSE]]
  /\ missing = [p \in Publishers |-> {}]
  /\ tool = [p \in Publishers |-> CHOOSE t \in Tools : TRUE]
  /\ faults = MaxFaults

Goto(p, l) == pc' = [pc EXCEPT ![p] = l]

Fault == faults > 0 /\ faults' = faults - 1

-----------------------------------------------------------------------------
(* A workflow run reaches the step; the concurrency group `github-pages'   *)
(* lets one run at a time.  publish() first compares the prepared          *)
(* directory with the manifest and stops when they differ.                 *)
GroupFreeUngated == TRUE      \* mutant: no concurrency group
GroupFree == \A q \in Publishers : ~Active(q)

Start(p) ==
  /\ GroupFree
  /\ \E t \in Tools : tool' = [tool EXCEPT ![p] = t]
  /\ attempt' = [attempt EXCEPT ![p] = 0]
  /\ missing' = [missing EXCEPT ![p] = {}]
  /\ \/ Goto(p, "release") /\ UNCHANGED faults
     \/ Goto(p, "failed") /\ Fault
  /\ UNCHANGED <<rels, lookup, state>>

(* release(): a successful listing decides whether the release exists. *)
ListReleases(p) ==
  /\ pc[p] = "release"
  /\ attempt' = [attempt EXCEPT ![p] = 0]
  /\ IF Existing(rels) = {}
       THEN Goto(p, "create") /\ UNCHANGED state
       ELSE LET i == FirstListed(rels, lookup) IN
            /\ state' = [state EXCEPT ![p] = [id |-> i,
                                              draft |-> rels[i].st = "draft"]]
            /\ Goto(p, "assets")
  /\ UNCHANGED <<rels, lookup, missing, tool, faults>>

NewDraft(i) ==
  /\ rels[i].st = "none"
  /\ rels' = [rels EXCEPT ![i] = [st |-> "draft", assets |-> NoAssets]]

CreateDraft(p) ==
  /\ pc[p] = "create"
  /\ \E i \in ReleaseIds :
       /\ NewDraft(i)
       /\ state' = [state EXCEPT ![p] = [id |-> i, draft |-> TRUE]]
  /\ attempt' = [attempt EXCEPT ![p] = 0]
  /\ Goto(p, "assets")
  /\ UNCHANGED <<lookup, missing, tool, faults>>

(* mutant: `while True' in place of range(8) *)
BackoffUnbounded(p) ==
  attempt' = [attempt EXCEPT ![p] = @ + 1] /\ UNCHANGED pc

(* gh() sleeps and tries again after 429, 502 and 503, eight times. *)
Backoff(p) ==
  IF attempt[p] + 1 < MaxAttempts
    THEN attempt' = [attempt EXCEPT ![p] = @ + 1] /\ UNCHANGED pc
    ELSE Goto(p, "failed") /\ UNCHANGED attempt

(* The call did not reach the service. *)
GhBusy(p) ==
  /\ pc[p] \in GhCalls
  /\ Fault
  /\ Backoff(p)
  /\ UNCHANGED <<rels, lookup, state, missing, tool>>

(* The POST was applied, its answer was a 502: gh() will POST again. *)
GhLostCreate(p) ==
  /\ pc[p] = "create"
  /\ Fault
  /\ \E i, j \in ReleaseIds :
       i # j /\ rels[j].st = "none" /\ NewDraft(i)   \* bound: an id is left
  /\ Backoff(p)
  /\ UNCHANGED <<lookup, state, missing, tool>>

(* Any other error of gh() is raised: RuntimeError ends the run. *)
GhError(p) ==
  /\ pc[p] \in GhCalls
  /\ Fault
  /\ Goto(p, "failed")
  /\ UNCHANGED <<rels, lookup, runVars>>
-----------------------------------------------------------------------------
(* One turn of the loop: list the assets of the release `state' names and  *)
(* compare all of them with the manifest before anything is uploaded.      *)
Unexpected(rel) == Stored(rel) \ Expected # {}

Differing(rel, t) ==
  \E n \in Stored(rel) \cap Expected : rel.assets[n] # Content(n, t)

(* mutant: a verified draft is reported as published *)
VerdictNoEdit(rel, t, draft) ==
  IF Unexpected(rel) \/ Differing(rel, t) THEN "failed"
  ELSE IF Expected \subseteq Stored(rel) THEN "done"
  ELSE IF draft THEN "upload" ELSE "failed"

(* mutant: a draft an earlier run began is refused *)
VerdictNoResume(rel, t, draft) ==
  IF Stored(rel) \notin {{}, Expected} THEN "failed"
  ELSE IF Expected \subseteq Stored(rel) THEN IF draft THEN "edit" ELSE "done"
  ELSE IF draft THEN "upload" ELSE "failed"

Verdict(rel, t, draft) ==
  IF Unexpected(rel) \/ Differing(rel, t) THEN "failed"
  ELSE IF Expected \subseteq Stored(rel) THEN IF draft THEN "edit" ELSE "done"
  ELSE IF draft THEN "upload" ELSE "failed"

ListAssets(p) ==
  LET rel  == rels[state[p].id]
      lack == Expected \ Stored(rel)
  IN
  /\ pc[p] = "assets"
  /\ attempt' = [attempt EXCEPT ![p] = 0]
  /\ missing' = [missing EXCEPT ![p] = lack]
  /\ Goto(p, Verdict(rel, tool[p], state[p].draft))
  /\ UNCHANGED <<rels, lookup, state, tool, faults>>

(* `gh release upload' resolves the tag.  If one of the names is taken it  *)
(* uploads nothing and says "already exists": the loop sleeps and goes on. *)
UploadRefused(p) ==
  /\ pc[p] = "upload"
  /\ Batch(missing[p]) \cap Stored(rels[ByTag(rels, lookup)]) # {}
  /\ Goto(p, "assets")
  /\ UNCHANGED <<rels, lookup, runVars, faults>>

(* mutant: gh release upload --clobber *)
UploadableClobber(p) == pc[p] = "upload"

Uploadable(p) ==
  /\ pc[p] = "upload"
  /\ Batch(missing[p]) \cap Stored(rels[ByTag(rels, lookup)]) = {}

PutAssets(p, whole, torn) ==
  rels' = [rels EXCEPT ![ByTag(rels, lookup)] =
             Add(@, [n \in whole \cup torn |->
                       IF n \in whole THEN Content(n, tool[p]) ELSE Torn])]

UploadBatch(p) ==
  /\ Uploadable(p)
  /\ PutAssets(p, Batch(missing[p]), {})
  /\ Goto(p, "assets")
  /\ UNCHANGED <<lookup, runVars, faults>>

(* The command failed midway: some files arrived, some perhaps broken off. *)
(* A rate limit, 429, 502 or 503 goes on with the loop, any other error    *)
(* ends the run; what arrived is kept either way.                          *)
UploadBroken(p) ==
  /\ Uploadable(p)
  /\ Fault
  /\ \E whole \in SUBSET Batch(missing[p]) :
       \E torn \in SUBSET (Batch(missing[p]) \ whole) :
         PutAssets(p, whole, torn)
  /\ \/ Goto(p, "assets")
     \/ Goto(p, "failed")
  /\ UNCHANGED <<lookup, runVars>>

(* `gh release edit <tag> --draft=false' resolves the tag once more. *)
Publicise ==
  rels' = [rels EXCEPT ![ByTag(rels, lookup)].st = "public"]

Edit(p) ==
  /\ pc[p] = "edit"
  /\ Publicise
  /\ attempt' = [attempt EXCEPT ![p] = 0]
  /\ Goto(p, "done")
  /\ UNCHANGED <<lookup, state, missing, tool, faults>>

GhLostEdit(p) ==
  /\ pc[p] = "edit"
  /\ Fault
  /\ Publicise
  /\ Backoff(p)
  /\ UNCHANGED <<lookup, state, missing, tool>>

-----------------------------------------------------------------------------
(* The run is cancelled or its machine is lost, at any point. *)
Crash(p) ==
  /\ Active(p)
  /\ Fault
  /\ Goto(p, "idle")
  /\ UNCHANGED <<rels, lookup, runVars>>

(* Between two runs a person attaches a file of another name to a draft. *)
AttachByHand(i, n) ==
  /\ GroupFree
  /\ rels[i].st = "draft" /\ rels[i].assets[n] = Absent
  /\ Fault
  /\ \E c \in Contents : rels' = [rels EXCEPT ![i].assets[n] = c]
  /\ UNCHANGED <<lookup, pc, runVars>>

Step(p) == \/ ListReleases(p) \/ CreateDraft(p) \/ ListAssets(p)
           \/ UploadRefused(p) \/ UploadBatch(p) \/ Edit(p)

Disturbance(p) == \/ GhBusy(p) \/ GhLostCreate(p) \/ GhError(p)
                  \/ UploadBroken(p) \/ GhLostEdit(p) \/ Crash(p)

Next == \/ \E p \in Publishers : Start(p) \/ Step(p) \/ Disturbance(p)
        \/ \E i \in ReleaseIds, n \in Foreign : AttachByHand(i, n)

Spec == Init /\ [][Next]_vars

(* A step that can be taken is taken: a job keeps running.  Start is fair  *)
(* as long as pushes and builds keep triggering the workflow.              *)
LiveSpec ==
  /\ Spec
  /\ \A p \in Publishers : WF_vars(Step(p))
  /\ WF_vars(\E p \in Publishers : Start(p))

-----------------------------------------------------------------------------
Complete == {Snapshot(t) : t \in Tools}

(* A release everybody can see holds the whole snapshot of one run: no file *)
(* missing, broken off, added by hand or from another run's tools.  It needs *)
(* the digests, the late `draft=false' AND the concurrency group: the files *)
(* are verified through an id, the draft is exposed through the tag.        *)
PublicIsComplete ==
  \A i \in ReleaseIds : rels[i].st = "public" => rels[i].assets \in Complete

(* When publish() returns, the URL the catalog is about to name serves a   *)
(* complete public release.  The Pages deployment relies on exactly this.  *)
ReturnedPublic ==
  \A p \in Publishers :
    pc[p] = "done" =>
      /\ Public(rels) # {}
      /\ rels[ByTag(rels, lookup)].assets \in Complete

(* The publisher implements the promise of ImmutableRelease: it never      *)
(* clobbers, never takes back, never touches what is public.               *)
Promise == INSTANCE ImmutableRelease WITH NoAsset <- Absent
PromiseKept == Promise!Spec

(* What the loop can finish: one draft, with no file that was broken off,  *)
(* attached by hand, or made by another Python.  With two drafts that the  *)
(* listing and the tag resolve differently the loop never ends, and with   *)
(* any of the others each run is refused.                                  *)
Orderly ==
  /\ Cardinality(Existing(rels)) <= 1
  /\ \A i \in ReleaseIds, n \in Files : rels[i].assets[n] # Torn
  /\ \A i \in ReleaseIds : Stored(rels[i]) \subseteq Expected
  /\ \A p, q \in Publishers : tool[p] = tool[q]

(* "resumes drafts": whatever the point at which runs are cut off, later   *)
(* runs finish the draft the earlier ones left behind.  The upload loop    *)
(* has no bound, so this rests on each of its turns making progress.       *)
EventuallyPublic == []Orderly => <>(Public(rels) # {})

(* "Idempotently publish": a run refuses a release only for an asset that  *)
(* no run of the publisher has uploaded whole.                             *)
RefusesForeignOnly ==
  [][\A p \in Publishers :
       pc[p] = "assets" /\ pc'[p] = "failed" /\ faults' = faults =>
         LET rel == rels[state[p].id] IN
         \/ Unexpected(rel)
         \/ \E n \in Files : rel.assets[n] = Torn]_vars

-----------------------------------------------------------------------------
(* The invariant behind PublicIsComplete and ReturnedPublic.  Only one run *)
(* works at a time; a run creates a release only while no release has any  *)
(* asset, so that assets of the snapshot are only ever in the release the  *)
(* tag resolves to: what was verified through the id is what the tag       *)
(* exposes.                                                                *)
Serial == \A p, q \in Publishers : Active(p) /\ Active(q) => p = q

Uncreated ==
  \A i \in ReleaseIds : rels[i].st = "none" => rels[i].assets = NoAssets

Creating ==
  \A p \in Publishers : pc[p] = "create" =>
    \A i \in ReleaseIds : rels[i].st # "public" /\ rels[i].assets = NoAssets

OneTarget ==
  \A i \in ReleaseIds :
    Stored(rels[i]) \cap Expected # {} => i = ByTag(rels, lookup)

Known ==
  \A p \in Publishers : pc[p] \in {"assets", "upload", "edit"} =>
    /\ rels[state[p].id].st # "none"
    /\ ~state[p].draft => Public(rels) # {}

Verified ==
  \A p \in Publishers :
    pc[p] = "edit" => rels[state[p].id].assets = Snapshot(tool[p])

Returned == \A p \in Publishers : pc[p] = "done" => Public(rels) # {}

IndInv ==
  /\ TypeOK /\ Serial /\ Uncreated /\ Creating /\ OneTarget /\ Known
  /\ Verified /\ Returned /\ PublicIsComplete
=============================================================================
