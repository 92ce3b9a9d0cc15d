----------------------------- MODULE Publication -----------------------------
(***************************************************************************)
(* The only publisher of the Pages site: .github/workflows/                *)
(* publish-opkg-feed.yml with the scripts it runs, fed by the userspace    *)
(* builds of build-packages.yml.                                           *)
(*                                                                         *)
(* Several events start the workflow; its concurrency group lets one run   *)
(* work and one wait, and a newer waiting run replaces the older one.  A   *)
(* run rebuilds the whole site from what is live (or from one build), so   *)
(* everything it read at its start must still be right when it deploys.    *)
(* The release step is ComponentRelease, reduced to what it proves: on     *)
(* success the tag is public and complete, on failure at most a draft.     *)
(***************************************************************************)
EXTENDS Naturals, FiniteSets

CONSTANTS Slots,         \* places where a run can be in progress
          NCommits,      \* bound: commits pushed to main
          NBuilds,       \* bound: userspace builds of main
          Kinds,         \* kinds of builds started
          Pins,          \* Pins[c]: version the archive of commit c promotes
          BuildApp,      \* BuildApp[b]: version inside build b; 0: none;
                         \* BuildApp[0] is that of the committed bootstrap
          SoundsTag,     \* SoundsTag[b]: release tag of the sounds of build b
          Tags,
          MaxProposals,  \* bound: pull requests and runs on other branches
          MaxDispatches, \* bound: manual runs on main
          MaxFaults      \* bound: failing jobs and steps

ASSUME BoundsAssumption ==
  /\ NCommits \in Nat /\ NBuilds \in Nat /\ MaxFaults \in Nat
  /\ MaxProposals \in Nat /\ MaxDispatches \in Nat
ASSUME KindsAssumption == Kinds \subseteq {"full", "reuse", "targeted"}
ASSUME ContentsAssumption ==
  /\ Pins \in [0 .. NCommits -> Nat]
  /\ BuildApp \in [0 .. NBuilds -> Nat]
  /\ SoundsTag \in [0 .. NBuilds -> Tags]

VARIABLES main,       \* newest commit of main
          builds,     \* the runs of build-packages.yml
          runs,       \* publications in progress
          pending,    \* the publication waiting for the group
          site,       \* what Pages serves, as its publication.json.gz says
          releases,   \* component releases by tag
          budget      \* proposals, dispatches and faults still to come

vars == <<main, builds, runs, pending, site, releases, budget>>

Builds  == 1 .. NBuilds
Commits == 0 .. NCommits
None    == 0                     \* SOURCE_RUN == ''

Build == [kind     : {"full", "reuse", "targeted"},
          status   : {"none", "running", "success", "failure"},
          artifact : {"none", "live", "expired"}]

(* A publication as GitHub starts it: onMain is github.ref, source is      *)
(* SOURCE_RUN, wanted is the `if' of the verify job.                       *)
Request == [onMain : BOOLEAN, source : 0 .. NBuilds, commit : Commits,
            wanted : BOOLEAN]

(* The directory `baseline' of a run: which build, which app version. *)
Feed == [userspace : 0 .. NBuilds, app : Nat]

Steps == {"verify", "select", "download", "prepare", "release", "deploy"}

Idle == [step |-> "idle", req |-> [onMain |-> FALSE, source |-> None,
                                   commit |-> 0, wanted |-> FALSE],
         feed |-> [userspace |-> 0, app |-> 0]]

NoRequest == Idle.req

TypeOK ==
  /\ main \in Commits
  /\ builds \in [Builds -> Build]
  /\ runs \in [Slots -> [step : Steps \cup {"idle"}, req : Request, feed : Feed]]
  /\ pending \in [waiting : BOOLEAN, req : Request]
  /\ site \in [live : BOOLEAN, feed : Feed, tag : Tags, commit : Commits]
  /\ releases \in [Tags -> {"none", "draft", "public"}]
  /\ budget \in [proposals  : 0 .. MaxProposals,
                 dispatches : 0 .. MaxDispatches, faults : 0 .. MaxFaults]

InitialBudget ==
  [proposals |-> MaxProposals, dispatches |-> MaxDispatches, faults |-> MaxFaults]

Init ==
  /\ main = 0
  /\ builds = [b \in Builds |-> [kind |-> "full",
                                 status |-> "none", artifact |-> "none"]]
  /\ runs = [s \in Slots |-> Idle]
  /\ pending = [waiting |-> FALSE, req |-> NoRequest]
  /\ site = [live |-> FALSE, commit |-> 0, tag |-> SoundsTag[0],
             feed |-> [userspace |-> 0, app |-> BuildApp[0]]]
  /\ releases = [t \in Tags |-> "none"]
  /\ budget = InitialBudget

Spend(what) == budget[what] > 0 /\ budget' = [budget EXCEPT ![what] = @ - 1]

-----------------------------------------------------------------------------
(* concurrency: group github-pages, cancel-in-progress false.  The newest  *)
(* request waits in place of an older waiting one, which is cancelled.     *)
ArriveKeepOldest(req) ==     \* mutant: a request waits, a newer one is dropped
  pending' = IF pending.waiting THEN pending
                                ELSE [waiting |-> TRUE, req |-> req]

Arrive(req) == pending' = [waiting |-> TRUE, req |-> req]

GroupFreeUngated == \E s \in Slots : runs[s].step = "idle"   \* mutant: no group
GroupFree == \A s \in Slots : runs[s].step = "idle"

(* on: push to main.  A commit here is one that touches the paths of the   *)
(* trigger (scripts, tests, build inputs, artifacts); others start no run. *)
Push ==
  /\ main < NCommits
  /\ main' = main + 1
  /\ Arrive([onMain |-> TRUE, source |-> None, commit |-> main + 1,
             wanted |-> TRUE])
  /\ UNCHANGED <<builds, runs, site, releases, budget>>

(* on: pull_request, or workflow_dispatch on another branch.  The group is *)
(* the same; nothing of such a run is published.                           *)
Propose ==
  /\ Spend("proposals")
  /\ Arrive([onMain |-> FALSE, source |-> None, commit |-> main,
             wanted |-> TRUE])
  /\ UNCHANGED <<main, builds, runs, site, releases>>

(* on: workflow_dispatch on main; reuse_userspace_run_id may name any run. *)
Dispatch(b) ==
  /\ Spend("dispatches")
  /\ Arrive([onMain |-> TRUE, source |-> b, commit |-> main, wanted |-> TRUE])
  /\ UNCHANGED <<main, builds, runs, site, releases>>

-----------------------------------------------------------------------------
(* build-packages.yml on main: one build at a time in each of its groups.  *)
StartBuild(b, kind) ==
  /\ builds[b].status = "none"
  /\ \A c \in Builds : c < b => builds[c].status # "none"
  /\ \A c \in Builds : ~(builds[c].status = "running" /\ builds[c].kind = kind)
  /\ builds' = [builds EXCEPT ![b] = [kind |-> kind,
                                      status |-> "running", artifact |-> "none"]]
  /\ UNCHANGED <<main, runs, pending, site, releases, budget>>

(* The build ends.  The aggregate job runs even when shards failed, so a   *)
(* failed build may own a complete feed; a targeted build never does.  The *)
(* completion, whatever the conclusion, fires workflow_run on the head of  *)
(* main.  The input publish_pages is read by no job and so has no state.   *)
FinishBuild(b, success, aggregated) ==
  /\ builds[b].status = "running"
  /\ builds[b].kind = "targeted" => ~aggregated
  /\ builds[b].kind # "targeted" /\ success => aggregated
  /\ IF success THEN UNCHANGED budget ELSE Spend("faults")
  /\ builds' = [builds EXCEPT ![b].status = IF success THEN "success" ELSE "failure",
                              ![b].artifact = IF aggregated THEN "live" ELSE "none"]
  /\ Arrive([onMain |-> TRUE, source |-> b, commit |-> main, wanted |-> success])
  /\ UNCHANGED <<main, runs, site, releases>>

(* retention-days: 30 *)
Expire(b) ==
  /\ builds[b].artifact = "live"
  /\ Spend("faults")
  /\ builds' = [builds EXCEPT ![b].artifact = "expired"]
  /\ UNCHANGED <<main, runs, pending, site, releases>>

-----------------------------------------------------------------------------
Advance(s, step) == runs' = [runs EXCEPT ![s].step = step]
EndRun(s) == runs' = [runs EXCEPT ![s] = Idle]

(* The waiting request becomes a run when the group is free; a build that  *)
(* did not succeed has its verify job skipped, and with it the deploy job. *)
Begin(s) ==
  /\ pending.waiting
  /\ runs[s].step = "idle"
  /\ GroupFree
  /\ pending' = [waiting |-> FALSE, req |-> NoRequest]
  /\ runs' = [runs EXCEPT ![s] =
                IF pending.req.wanted
                  THEN [Idle EXCEPT !.step = "verify", !.req = pending.req]
                  ELSE Idle]
  /\ UNCHANGED <<main, builds, site, releases, budget>>

(* fetch-publication-inputs.py: the live catalog, or the bootstrap when    *)
(* there is none, with every package it records fetched again.             *)
Restorable == site.live => releases[site.tag] = "public"

Restored == site.feed

Restore(s) ==
  /\ runs[s].step = "verify"
  /\ IF Restorable
       THEN runs' = [runs EXCEPT ![s].feed = Restored,
                                 ![s].step = IF runs[s].req.source = None
                                               THEN "prepare" ELSE "select"]
       ELSE EndRun(s)
  /\ UNCHANGED <<main, builds, pending, site, releases, budget>>

(* select-userspace-feed-run.py --run-id: a successful run of main with    *)
(* exactly one complete artifact that has not expired.                     *)
EligibleAnyConclusion(b) == builds[b].artifact = "live"   \* mutant
Eligible(b) == builds[b].status = "success" /\ builds[b].artifact = "live"

SelectRun(s) ==
  /\ runs[s].step = "select"
  /\ IF Eligible(runs[s].req.source) THEN Advance(s, "download") ELSE EndRun(s)
  /\ UNCHANGED <<main, builds, pending, site, releases, budget>>

(* The artifact may have expired since; `rm -rf baseline' comes after the  *)
(* download, so a failure leaves everything as it is.                      *)
Adopt(s) ==
  LET b == runs[s].req.source IN
  /\ runs[s].step = "download"
  /\ IF builds[b].artifact = "live"
       THEN runs' = [runs EXCEPT ![s].step = "prepare",
                       ![s].feed = [userspace |-> b, app |-> BuildApp[b]]]
       ELSE EndRun(s)
  /\ UNCHANGED <<main, builds, pending, site, releases, budget>>

(* promoted_applications(): the pin replaces the feed's version unless     *)
(* that one is newer.                                                      *)
Promoted(have, pin) == IF have > pin THEN have ELSE pin

(* Overlay, prepare, render and verify; only main goes on to publish. *)
Prepare(s) ==
  /\ runs[s].step = "prepare"
  /\ IF runs[s].req.onMain
       THEN runs' = [runs EXCEPT ![s].step = "release",
                       ![s].feed.app = Promoted(@, Pins[runs[s].req.commit])]
       ELSE EndRun(s)
  /\ UNCHANGED <<main, builds, pending, site, releases, budget>>

(* publish-components.py, before Pages. *)
PublishNothing(t) == UNCHANGED releases                          \* mutant
PublishTag(t) == releases' = [releases EXCEPT ![t] = "public"]

PublishComponents(s) ==
  /\ runs[s].step = "release"
  /\ PublishTag(SoundsTag[runs[s].feed.userspace])
  /\ Advance(s, "deploy")
  /\ UNCHANGED <<main, builds, pending, site, budget>>

Deploy(s) ==
  /\ runs[s].step = "deploy"
  /\ site' = [live |-> TRUE, feed |-> runs[s].feed, commit |-> runs[s].req.commit,
              tag |-> SoundsTag[runs[s].feed.userspace]]
  /\ EndRun(s)
  /\ UNCHANGED <<main, builds, pending, releases, budget>>

(* Any step fails or the run is cancelled: the site stays as it is.  In    *)
(* the release step a draft may be left behind.                            *)
Fail(s) ==
  /\ runs[s].step # "idle"
  /\ Spend("faults")
  /\ EndRun(s)
  /\ LET t == SoundsTag[runs[s].feed.userspace] IN
     \/ UNCHANGED releases
     \/ /\ runs[s].step = "release" /\ releases[t] = "none"
        /\ releases' = [releases EXCEPT ![t] = "draft"]
  /\ UNCHANGED <<main, builds, pending, site>>

-----------------------------------------------------------------------------
Event == \/ Push \/ Propose
         \/ \E b \in 0 .. NBuilds : Dispatch(b)
         \/ \E b \in Builds : \/ Expire(b)
                              \/ \E k \in Kinds : StartBuild(b, k)

BuildEnds == \E b \in Builds, success, aggregated \in BOOLEAN :
               FinishBuild(b, success, aggregated)

RunStep(s) == \/ Begin(s) \/ Restore(s) \/ SelectRun(s) \/ Adopt(s)
              \/ Prepare(s) \/ PublishComponents(s) \/ Deploy(s)

Next == \/ Event \/ BuildEnds
        \/ \E s \in Slots : RunStep(s) \/ Fail(s)

Spec == Init /\ [][Next]_vars

(* Jobs keep running and a waiting run starts when the group is free; no   *)
(* event is promised.  A build that runs ends.                             *)
LiveSpec == Spec /\ WF_vars(\E s \in Slots : RunStep(s)) /\ WF_vars(BuildEnds)

-----------------------------------------------------------------------------
(* A package index on the live site points only at a public, complete      *)
(* release, at every moment and after every failure, so that every record  *)
(* of the live catalog can be fetched again by the next run.               *)
SiteReferencesPublic == site.live => releases[site.tag] = "public"

(* The userspace of the live site is the bootstrap or a complete build     *)
(* that succeeded: never a partial feed, never one of a failed build.      *)
SiteFromCompleteBuild ==
  site.feed.userspace # 0 =>
    LET b == builds[site.feed.userspace] IN
    b.kind # "targeted" /\ b.status = "success"

(* A publication that selects no build changes no userspace and lowers no  *)
(* promoted application: what it restored is still live when it deploys.   *)
OverlayKeepsUserspace ==
  [][\A s \in Slots :
       runs[s].req.source = None /\ site' # site /\ runs[s].step = "deploy"
         /\ runs'[s].step = "idle"
         => /\ site'.feed.userspace = site.feed.userspace
            /\ site'.feed.app >= site.feed.app]_vars

(* No fault, no pull request, no manual run, and no targeted build, whose  *)
(* finished run replaces a waiting push and then has nothing to publish.   *)
Undisturbed ==
  /\ \A k \in DOMAIN budget : budget[k] = InitialBudget[k]
  /\ \A b \in Builds : builds[b].kind # "targeted"

(* When nothing fails and only main triggers publications, the newest      *)
(* commit of main goes live although waiting runs are replaced.            *)
CommitEventuallyLive == []Undisturbed => ((main > 0) ~> (site.commit = main))

(* README: "A manual full build also publishes the result to GitHub Pages  *)
(* by default", unless a later build takes its place.                      *)
FullBuildPublished ==
  \A b \in Builds :
    (builds[b].status = "success" /\ builds[b].kind = "full")
      ~> site.feed.userspace >= b
=============================================================================
