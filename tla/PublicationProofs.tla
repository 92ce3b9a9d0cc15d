-------------------------- MODULE PublicationProofs --------------------------
(***************************************************************************)
(* Proofs about Publication for every number of slots, commits, builds,    *)
(* tags and faults.                                                        *)
(***************************************************************************)
EXTENDS Publication, TLAPS

-----------------------------------------------------------------------------
(* The parts of the inductive invariant. *)

Complete(b) == builds[b].kind # "targeted" /\ builds[b].status = "success"

(* The concurrency group: no two publications are in progress. *)
OneRun == \A s, t \in Slots :
            runs[s].step # "idle" /\ runs[t].step # "idle" => s = t

(* A successful build that owns or owned a feed is not a targeted one. *)
ArtifactComplete ==
  \A b \in Builds : builds[b].status = "success" /\ builds[b].artifact # "none"
                      => builds[b].kind # "targeted"

(* The catalog names the release of the sounds of the feed it was made of. *)
SiteTag == site.tag = SoundsTag[site.feed.userspace]

(* A run that goes for a build names one; past the selection it is complete. *)
RunSelects(s) ==
  /\ runs[s].step \in {"select", "download"} => runs[s].req.source # None
  /\ runs[s].step = "download" => Complete(runs[s].req.source)

(* The directory baseline holds the bootstrap or a complete build. *)
RunFeedComplete(s) ==
  runs[s].feed.userspace # 0 => Complete(runs[s].feed.userspace)

(* What a run without a build restored is still what is live. *)
RunRestored(s) ==
  runs[s].step \in {"prepare", "release", "deploy"} /\ runs[s].req.source = None
    => /\ runs[s].feed.userspace = site.feed.userspace
       /\ runs[s].feed.app >= site.feed.app

(* The release comes before Pages. *)
RunReleased(s) ==
  runs[s].step = "deploy" => releases[SoundsTag[runs[s].feed.userspace]] = "public"

IndInv ==
  /\ TypeOK
  /\ OneRun
  /\ ArtifactComplete
  /\ SiteTag
  /\ SiteReferencesPublic
  /\ SiteFromCompleteBuild
  /\ \A s \in Slots : RunSelects(s) /\ RunFeedComplete(s) /\ RunRestored(s) /\ RunReleased(s)

-----------------------------------------------------------------------------
(* Every action of the model keeps the types; the actions that only one    *)
(* part of the invariant sees are then taken one by one.                   *)

LEMMA IdleType == Idle \in [step : Steps \cup {"idle"}, req : Request, feed : Feed]
BY BoundsAssumption DEF Idle, Steps, Request, Feed, None, Commits

LEMMA InitInv == Init => IndInv
<1> SUFFICES ASSUME Init PROVE IndInv
  OBVIOUS
<1> USE BoundsAssumption, ContentsAssumption
<1>1. TypeOK
  BY IdleType DEF Init, TypeOK, Build, Commits, Builds, Feed, NoRequest, Idle, Request,
     None, InitialBudget
<1>2. \A s \in Slots : runs[s] = Idle
  BY DEF Init
<1>3. OneRun /\ \A s \in Slots : RunSelects(s) /\ RunFeedComplete(s) /\ RunRestored(s)
                               /\ RunReleased(s)
  BY <1>2 DEF OneRun, RunSelects, RunFeedComplete, RunRestored, RunReleased, Idle
<1>4. ArtifactComplete /\ SiteTag /\ SiteReferencesPublic /\ SiteFromCompleteBuild
  BY DEF Init, ArtifactComplete, SiteTag, SiteReferencesPublic, SiteFromCompleteBuild
<1> QED
  BY <1>1, <1>3, <1>4 DEF IndInv

(* A fault, a pull request or a dispatch is taken from the budget. *)
LEMMA SpendType ==
  ASSUME TypeOK, NEW what \in {"proposals", "dispatches", "faults"}, Spend(what)
  PROVE  budget' \in [proposals  : 0 .. MaxProposals,
                      dispatches : 0 .. MaxDispatches, faults : 0 .. MaxFaults]
BY BoundsAssumption DEF TypeOK, Spend

(* A step that leaves runs, builds, site and releases alone: the arrival   *)
(* of a push, a pull request or a dispatch.                                *)
LEMMA QuietStep ==
  ASSUME IndInv, TypeOK', UNCHANGED <<runs, builds, site, releases>>
  PROVE  IndInv'
BY DEF IndInv, OneRun, ArtifactComplete, SiteTag, SiteReferencesPublic,
   SiteFromCompleteBuild, RunSelects, RunFeedComplete, RunRestored, RunReleased, Complete

(* A build that succeeded keeps its kind and its conclusion. *)
LEMMA BuildStep ==
  ASSUME IndInv, TypeOK', ArtifactComplete', UNCHANGED <<runs, site, releases>>,
         \A b \in Builds : builds[b].status = "success" =>
           builds'[b].status = "success" /\ builds'[b].kind = builds[b].kind
  PROVE  IndInv'
<1>1. \A b \in Builds : Complete(b) => Complete(b)'
  BY DEF Complete
<1>2. \A s \in Slots : /\ runs[s].req.source # None => runs[s].req.source \in Builds
                       /\ runs[s].feed.userspace # 0 => runs[s].feed.userspace \in Builds
  BY BoundsAssumption DEF IndInv, TypeOK, Request, Feed, Builds, None
<1>3. \A s \in Slots : RunSelects(s)' /\ RunFeedComplete(s)'
  BY <1>1, <1>2 DEF IndInv, RunSelects, RunFeedComplete
<1>4. SiteFromCompleteBuild'
  <2>1. site.feed.userspace # 0 => site.feed.userspace \in Builds
    BY BoundsAssumption DEF IndInv, TypeOK, Feed, Builds
  <2> QED
    BY <1>1, <2>1 DEF IndInv, SiteFromCompleteBuild, Complete
<1> QED
  BY <1>3, <1>4 DEF IndInv, OneRun, SiteTag, SiteReferencesPublic, RunRestored, RunReleased

(* A run that ends without touching the site leaves nothing behind, and no *)
(* release loses its public state.                                         *)
LEMMA EndStep ==
  ASSUME IndInv, TypeOK', NEW s \in Slots, EndRun(s), UNCHANGED <<builds, site>>,
         \A t \in Tags : releases[t] = "public" => releases'[t] = "public"
  PROVE  IndInv'
<1>1. \A t \in Slots : runs'[t] = IF t = s THEN Idle ELSE runs[t]
  BY DEF EndRun, IndInv, TypeOK
<1>2. \A t \in Slots : SoundsTag[runs[t].feed.userspace] \in Tags
  BY ContentsAssumption DEF IndInv, TypeOK, Feed
<1>3. Idle.step = "idle" /\ Idle.feed.userspace = 0
  BY DEF Idle
<1>4. OneRun'
  BY <1>1, <1>3 DEF IndInv, OneRun
<1>5. ASSUME NEW t \in Slots
      PROVE  RunSelects(t)' /\ RunFeedComplete(t)' /\ RunRestored(t)' /\ RunReleased(t)'
  <2>1. CASE t = s
    BY <1>1, <1>3, <2>1 DEF RunSelects, RunFeedComplete, RunRestored, RunReleased
  <2>2. CASE t # s
    BY <1>1, <1>2, <2>2
       DEF IndInv, RunSelects, RunFeedComplete, RunRestored, RunReleased, Complete
  <2> QED
    BY <2>1, <2>2
<1>6. SiteReferencesPublic'
  BY DEF IndInv, TypeOK, SiteReferencesPublic
<1> QED
  BY <1>4, <1>5, <1>6
     DEF IndInv, ArtifactComplete, SiteTag, SiteFromCompleteBuild

(* A run that moves on while the site stays: only its own parts change.    *)
LEMMA OwnStep ==
  ASSUME IndInv, TypeOK', NEW s \in Slots, UNCHANGED <<builds, site>>,
         runs[s].step # "idle" \/ GroupFree,
         \A t \in Slots \ {s} : runs'[t] = runs[t],
         \A t \in Tags : releases[t] = "public" => releases'[t] = "public",
         RunSelects(s)', RunFeedComplete(s)', RunRestored(s)', RunReleased(s)'
  PROVE  IndInv'
<1>1. \A t \in Slots \ {s} : runs[t].step = "idle"
  BY DEF IndInv, OneRun, GroupFree
<1>2. OneRun'
  BY <1>1 DEF OneRun
<1>3. ASSUME NEW t \in Slots \ {s}
      PROVE  RunSelects(t)' /\ RunFeedComplete(t)' /\ RunRestored(t)' /\ RunReleased(t)'
  BY <1>1 DEF IndInv, RunSelects, RunFeedComplete, RunRestored, RunReleased, Complete
<1>4. SiteReferencesPublic'
  BY DEF IndInv, TypeOK, SiteReferencesPublic
<1> QED
  BY <1>2, <1>3, <1>4
     DEF IndInv, ArtifactComplete, SiteTag, SiteFromCompleteBuild

-----------------------------------------------------------------------------
(* Type correctness. *)

RunType == [step : Steps \cup {"idle"}, req : Request, feed : Feed]

LEMMA ArriveType ==
  ASSUME NEW q \in Request, Arrive(q)
  PROVE  pending' \in [waiting : BOOLEAN, req : Request]
BY DEF Arrive

LEMMA RunsType ==
  ASSUME TypeOK, NEW s \in Slots, NEW r \in RunType, runs' = [runs EXCEPT ![s] = r]
  PROVE  runs' \in [Slots -> RunType]
BY DEF TypeOK, RunType

LEMMA TypeStep == TypeOK /\ [Next]_vars => TypeOK'
<1> SUFFICES ASSUME TypeOK, [Next]_vars PROVE TypeOK'
  OBVIOUS
<1> USE BoundsAssumption, ContentsAssumption
<1>0. Idle \in RunType /\ \A t \in Slots : runs[t] \in RunType
  BY IdleType DEF TypeOK, RunType
<1>1. CASE Push
  <2>1. [onMain |-> TRUE, source |-> None, commit |-> main + 1, wanted |-> TRUE] \in Request
    BY <1>1 DEF Push, TypeOK, Request, None, Commits
  <2> QED
    BY <1>1, <2>1, ArriveType DEF Push, TypeOK, Commits
<1>2. CASE Propose
  <2>1. [onMain |-> FALSE, source |-> None, commit |-> main, wanted |-> TRUE] \in Request
    BY DEF TypeOK, Request, None
  <2> QED
    BY <1>2, <2>1, ArriveType, SpendType DEF Propose, TypeOK
<1>3. ASSUME NEW b \in 0 .. NBuilds, Dispatch(b) PROVE TypeOK'
  <2>1. [onMain |-> TRUE, source |-> b, commit |-> main, wanted |-> TRUE] \in Request
    BY DEF TypeOK, Request
  <2> QED
    BY <1>3, <2>1, ArriveType, SpendType DEF Dispatch, TypeOK
<1>4. ASSUME NEW b \in Builds, Expire(b) PROVE TypeOK'
  <2> DEFINE x == [builds[b] EXCEPT !.artifact = "expired"]
  <2>0. x \in Build /\ builds' = [builds EXCEPT ![b] = x]
    BY <1>4 DEF Expire, TypeOK, Build
  <2>1. builds' \in [Builds -> Build]
    BY <2>0 DEF TypeOK
  <2> QED
    BY <1>4, <2>1, SpendType DEF Expire, TypeOK
<1>5. ASSUME NEW b \in Builds, NEW k \in Kinds, StartBuild(b, k) PROVE TypeOK'
  <2>1. builds' \in [Builds -> Build]
    BY <1>5, KindsAssumption DEF StartBuild, TypeOK, Build
  <2> QED
    BY <1>5, <2>1 DEF StartBuild, TypeOK
<1>6. ASSUME NEW b \in Builds, NEW success \in BOOLEAN, NEW aggregated \in BOOLEAN,
             FinishBuild(b, success, aggregated)
      PROVE  TypeOK'
  <2> DEFINE x == [builds[b] EXCEPT !.status = IF success THEN "success" ELSE "failure",
                                    !.artifact = IF aggregated THEN "live" ELSE "none"]
  <2>0. x \in Build /\ builds' = [builds EXCEPT ![b] = x]
    BY <1>6 DEF FinishBuild, TypeOK, Build
  <2>1. builds' \in [Builds -> Build]
    BY <2>0 DEF TypeOK
  <2>2. [onMain |-> TRUE, source |-> b, commit |-> main, wanted |-> success] \in Request
    BY DEF TypeOK, Request, Builds
  <2>3. budget' \in [proposals  : 0 .. MaxProposals,
                     dispatches : 0 .. MaxDispatches, faults : 0 .. MaxFaults]
    BY <1>6, SpendType DEF FinishBuild, TypeOK
  <2> QED
    BY <1>6, <2>1, <2>2, <2>3, ArriveType DEF FinishBuild, TypeOK
<1>7. ASSUME NEW s \in Slots, Begin(s) PROVE TypeOK'
  <2>1. NoRequest \in Request
    BY DEF NoRequest, Idle, Request, None, Commits
  <2>2. [Idle EXCEPT !.step = "verify", !.req = pending.req] \in RunType
    BY <1>0 DEF TypeOK, RunType, Steps
  <2>3. runs' \in [Slots -> RunType]
    BY <1>0, <1>7, <2>2, RunsType DEF Begin
  <2> QED
    BY <1>7, <2>1, <2>3 DEF Begin, TypeOK, RunType
<1>8. ASSUME NEW s \in Slots, Restore(s) PROVE TypeOK'
  <2> DEFINE x == [runs[s] EXCEPT !.feed = site.feed,
                      !.step = IF runs[s].req.source = None THEN "prepare" ELSE "select"]
  <2>0. x \in RunType
    BY <1>0 DEF TypeOK, RunType, Steps
  <2>1. runs' \in [Slots -> RunType]
    <3>1. runs' = [runs EXCEPT ![s] = x] \/ runs' = [runs EXCEPT ![s] = Idle]
      BY <1>8 DEF Restore, EndRun, Restored, TypeOK
    <3> QED
      BY <1>0, <2>0, <3>1, RunsType
  <2> QED
    BY <1>8, <2>1 DEF Restore, TypeOK, RunType
<1>9. ASSUME NEW s \in Slots, SelectRun(s) PROVE TypeOK'
  <2> DEFINE x == [runs[s] EXCEPT !.step = "download"]
  <2>0. x \in RunType
    BY <1>0 DEF RunType, Steps
  <2>1. runs' \in [Slots -> RunType]
    <3>1. runs' = [runs EXCEPT ![s] = x] \/ runs' = [runs EXCEPT ![s] = Idle]
      BY <1>9 DEF SelectRun, EndRun, Advance, TypeOK
    <3> QED
      BY <1>0, <2>0, <3>1, RunsType
  <2> QED
    BY <1>9, <2>1 DEF SelectRun, TypeOK, RunType
<1>10. ASSUME NEW s \in Slots, Adopt(s) PROVE TypeOK'
  <2>1. [userspace |-> runs[s].req.source, app |-> BuildApp[runs[s].req.source]] \in Feed
    BY DEF TypeOK, Request, Feed
  <2> DEFINE x == [runs[s] EXCEPT !.step = "prepare",
                      !.feed = [userspace |-> runs[s].req.source,
                                app |-> BuildApp[runs[s].req.source]]]
  <2>0. x \in RunType
    BY <1>0, <2>1 DEF RunType, Steps
  <2>2. runs' \in [Slots -> RunType]
    <3>1. runs' = [runs EXCEPT ![s] = x] \/ runs' = [runs EXCEPT ![s] = Idle]
      BY <1>10 DEF Adopt, EndRun, TypeOK
    <3> QED
      BY <1>0, <2>0, <3>1, RunsType
  <2> QED
    BY <1>10, <2>2 DEF Adopt, TypeOK, RunType
<1>11. ASSUME NEW s \in Slots, Prepare(s) PROVE TypeOK'
  <2>1. Promoted(runs[s].feed.app, Pins[runs[s].req.commit]) \in Nat
    BY DEF TypeOK, Request, Feed, Promoted, Commits
  <2> DEFINE x == [runs[s] EXCEPT !.step = "release",
                      !.feed.app = Promoted(runs[s].feed.app, Pins[runs[s].req.commit])]
  <2>0. x \in RunType
    BY <1>0, <2>1 DEF RunType, Steps, Feed
  <2>2. runs' \in [Slots -> RunType]
    <3>1. runs' = [runs EXCEPT ![s] = x] \/ runs' = [runs EXCEPT ![s] = Idle]
      BY <1>11 DEF Prepare, EndRun, TypeOK
    <3> QED
      BY <1>0, <2>0, <3>1, RunsType
  <2> QED
    BY <1>11, <2>2 DEF Prepare, TypeOK, RunType
<1>12. ASSUME NEW s \in Slots, PublishComponents(s) PROVE TypeOK'
  <2> DEFINE x == [runs[s] EXCEPT !.step = "deploy"]
  <2>0. x \in RunType
    BY <1>0 DEF RunType, Steps
  <2>1. runs' \in [Slots -> RunType]
    BY <1>12, <2>0, RunsType DEF PublishComponents, Advance
  <2> QED
    BY <1>12, <2>1 DEF PublishComponents, PublishTag, TypeOK, RunType
<1>13. ASSUME NEW s \in Slots, Deploy(s) PROVE TypeOK'
  <2>1. runs' \in [Slots -> RunType]
    BY <1>0, <1>13, RunsType DEF Deploy, EndRun
  <2>2. site' \in [live : BOOLEAN, feed : Feed, tag : Tags, commit : Commits]
    BY <1>13 DEF Deploy, TypeOK, Feed, Request
  <2> QED
    BY <1>13, <2>1, <2>2 DEF Deploy, TypeOK, RunType
<1>14. ASSUME NEW s \in Slots, Fail(s) PROVE TypeOK'
  <2>1. runs' \in [Slots -> RunType]
    BY <1>0, <1>14, RunsType DEF Fail, EndRun
  <2>2. releases' \in [Tags -> {"none", "draft", "public"}]
    BY <1>14 DEF Fail, TypeOK
  <2> QED
    BY <1>14, <2>1, <2>2, SpendType DEF Fail, TypeOK, RunType
<1>15. CASE UNCHANGED vars
  BY <1>15 DEF vars, TypeOK
<1> QED
  BY <1>1, <1>2, <1>3, <1>4, <1>5, <1>6, <1>7, <1>8, <1>9, <1>10, <1>11, <1>12, <1>13,
     <1>14, <1>15 DEF Next, Event, BuildEnds, RunStep

(* Commits, builds, runs, site and releases stay what the code can hold.   *)
THEOREM TypeCorrect == Spec => []TypeOK
<1>1. Init => TypeOK
  BY InitInv DEF IndInv
<1> QED
  BY <1>1, TypeStep, PTL DEF Spec

-----------------------------------------------------------------------------
(* The inductive step. *)

LEMMA IndStep == IndInv /\ [Next]_vars => IndInv'
<1> SUFFICES ASSUME IndInv, [Next]_vars PROVE IndInv'
  OBVIOUS
<1> USE BoundsAssumption, ContentsAssumption
<1>0. TypeOK /\ TypeOK'
  BY TypeStep DEF IndInv
<1>1. CASE Push
  BY <1>0, <1>1, QuietStep DEF Push
<1>2. CASE Propose
  BY <1>0, <1>2, QuietStep DEF Propose
<1>3. ASSUME NEW b \in 0 .. NBuilds, Dispatch(b) PROVE IndInv'
  BY <1>0, <1>3, QuietStep DEF Dispatch
<1>4. ASSUME NEW b \in Builds, Expire(b) PROVE IndInv'
  <2>1. \A c \in Builds : /\ builds'[c].status = builds[c].status
                          /\ builds'[c].kind = builds[c].kind
                          /\ builds'[c].artifact # "none" => builds[c].artifact # "none"
    BY <1>0, <1>4 DEF Expire, TypeOK, Build
  <2>2. ArtifactComplete'
    BY <2>1 DEF IndInv, ArtifactComplete
  <2> QED
    BY <1>0, <1>4, <2>1, <2>2, BuildStep DEF Expire
<1>5. ASSUME NEW b \in Builds, NEW k \in Kinds, StartBuild(b, k) PROVE IndInv'
  <2>1. \A c \in Builds : builds'[c] = IF c = b THEN [kind |-> k, status |-> "running",
                                                       artifact |-> "none"]
                                      ELSE builds[c]
    BY <1>0, <1>5 DEF StartBuild, TypeOK
  <2>2. ArtifactComplete'
    BY <2>1 DEF IndInv, ArtifactComplete
  <2>3. builds[b].status = "none"
    BY <1>5 DEF StartBuild
  <2> QED
    BY <1>0, <1>5, <2>1, <2>2, <2>3, BuildStep DEF StartBuild
<1>6. ASSUME NEW b \in Builds, NEW success \in BOOLEAN, NEW aggregated \in BOOLEAN,
             FinishBuild(b, success, aggregated)
      PROVE  IndInv'
  <2>1. \A c \in Builds : builds'[c] =
          IF c = b THEN [builds[b] EXCEPT !.status = IF success THEN "success" ELSE "failure",
                                          !.artifact = IF aggregated THEN "live" ELSE "none"]
                   ELSE builds[c]
    BY <1>0, <1>6 DEF FinishBuild, TypeOK
  <2>2. /\ builds'[b].kind = builds[b].kind
        /\ builds'[b].artifact # "none" => aggregated
    <3>1. builds[b] \in [kind : {"full", "reuse", "targeted"},
                         status : {"none", "running", "success", "failure"},
                         artifact : {"none", "live", "expired"}]
      BY <1>0 DEF TypeOK, Build
    <3>2. builds'[b] = [builds[b] EXCEPT
                          !.status = IF success THEN "success" ELSE "failure",
                          !.artifact = IF aggregated THEN "live" ELSE "none"]
      BY <2>1
    <3> QED
      BY <3>1, <3>2
  <2>3. builds[b].kind = "targeted" => ~aggregated
    BY <1>6 DEF FinishBuild
  <2>4. ArtifactComplete'
    BY <2>1, <2>2, <2>3 DEF IndInv, ArtifactComplete
  <2>5. builds[b].status = "running"
    BY <1>6 DEF FinishBuild
  <2> QED
    BY <1>0, <1>6, <2>1, <2>4, <2>5, BuildStep DEF FinishBuild
<1>7. ASSUME NEW s \in Slots, Begin(s) PROVE IndInv'
  <2>1. /\ runs'[s].step \in {"verify", "idle"}
        /\ runs'[s].feed.userspace = 0
    BY <1>0, <1>7 DEF Begin, TypeOK, Idle
  <2>2. RunSelects(s)' /\ RunFeedComplete(s)' /\ RunRestored(s)' /\ RunReleased(s)'
    BY <2>1 DEF RunSelects, RunFeedComplete, RunRestored, RunReleased
  <2>3. \A t \in Slots \ {s} : runs'[t] = runs[t]
    BY <1>0, <1>7 DEF Begin, TypeOK
  <2> QED
    BY <1>0, <1>7, <2>2, <2>3, OwnStep DEF Begin
<1>8. ASSUME NEW s \in Slots, Restore(s) PROVE IndInv'
  <2>1. CASE ~Restorable
    BY <1>0, <1>8, <2>1, EndStep DEF Restore
  <2>2. CASE Restorable
    <3>1. /\ \A t \in Slots \ {s} : runs'[t] = runs[t]
          /\ runs'[s].req = runs[s].req
          /\ runs'[s].feed = site.feed
          /\ runs'[s].step = IF runs[s].req.source = None THEN "prepare" ELSE "select"
      BY <1>0, <1>8, <2>2 DEF Restore, Restored, TypeOK
    <3>2. RunSelects(s)'
      BY <3>1 DEF RunSelects
    <3>3. RunFeedComplete(s)'
      BY <1>8, <3>1 DEF RunFeedComplete, Complete, IndInv, SiteFromCompleteBuild, Restore
    <3>4. RunRestored(s)'
      BY <1>0, <1>8, <3>1 DEF RunRestored, Restore, TypeOK, Feed
    <3>5. RunReleased(s)'
      BY <3>1 DEF RunReleased
    <3> QED
      BY <1>0, <1>8, <3>1, <3>2, <3>3, <3>4, <3>5, OwnStep DEF Restore
  <2> QED
    BY <2>1, <2>2
<1>9. ASSUME NEW s \in Slots, SelectRun(s) PROVE IndInv'
  <2>1. CASE ~Eligible(runs[s].req.source)
    BY <1>0, <1>9, <2>1, EndStep DEF SelectRun
  <2>2. CASE Eligible(runs[s].req.source)
    <3>1. /\ \A t \in Slots \ {s} : runs'[t] = runs[t]
          /\ runs'[s].req = runs[s].req /\ runs'[s].feed = runs[s].feed
          /\ runs'[s].step = "download"
      BY <1>0, <1>9, <2>2 DEF SelectRun, Advance, TypeOK
    <3>2. runs[s].req.source \in Builds /\ runs[s].req.source # None
      BY <1>0, <1>9 DEF SelectRun, IndInv, RunSelects, TypeOK, Request, None, Builds
    <3>3. Complete(runs[s].req.source)
      BY <2>2, <3>2 DEF Eligible, IndInv, ArtifactComplete, Complete
    <3>4. RunSelects(s)' /\ RunRestored(s)' /\ RunReleased(s)' /\ RunFeedComplete(s)'
      BY <1>9, <3>1, <3>2, <3>3
         DEF RunSelects, RunRestored, RunReleased, RunFeedComplete, IndInv, Complete, SelectRun
    <3> QED
      BY <1>0, <1>9, <3>1, <3>4, OwnStep DEF SelectRun
  <2> QED
    BY <2>1, <2>2
<1>10. ASSUME NEW s \in Slots, Adopt(s) PROVE IndInv'
  <2> DEFINE b == runs[s].req.source
  <2>1. CASE builds[b].artifact # "live"
    BY <1>0, <1>10, <2>1, EndStep DEF Adopt
  <2>2. CASE builds[b].artifact = "live"
    <3>1. /\ \A t \in Slots \ {s} : runs'[t] = runs[t]
          /\ runs'[s].req = runs[s].req /\ runs'[s].feed.userspace = b
          /\ runs'[s].step = "prepare"
      BY <1>0, <1>10, <2>2 DEF Adopt, TypeOK
    <3>2. Complete(b) /\ b # None
      BY <1>10 DEF Adopt, IndInv, RunSelects
    <3>3. RunSelects(s)' /\ RunRestored(s)' /\ RunReleased(s)' /\ RunFeedComplete(s)'
      BY <1>10, <3>1, <3>2
         DEF RunSelects, RunRestored, RunReleased, RunFeedComplete, Complete, Adopt
    <3> QED
      BY <1>0, <1>10, <3>1, <3>3, OwnStep DEF Adopt
  <2> QED
    BY <2>1, <2>2
<1>11. ASSUME NEW s \in Slots, Prepare(s) PROVE IndInv'
  <2>1. CASE ~runs[s].req.onMain
    BY <1>0, <1>11, <2>1, EndStep DEF Prepare
  <2>2. CASE runs[s].req.onMain
    <3>1. /\ \A t \in Slots \ {s} : runs'[t] = runs[t]
          /\ runs'[s].req = runs[s].req
          /\ runs'[s].feed.userspace = runs[s].feed.userspace
          /\ runs'[s].feed.app = Promoted(runs[s].feed.app, Pins[runs[s].req.commit])
          /\ runs'[s].step = "release"
      <4> DEFINE x == [runs[s] EXCEPT !.step = "release",
                          !.feed.app = Promoted(runs[s].feed.app, Pins[runs[s].req.commit])]
      <4>1. runs[s] \in RunType /\ runs[s].feed \in [userspace : 0 .. NBuilds, app : Nat]
        BY <1>0 DEF TypeOK, RunType, Feed
      <4>2. runs' = [runs EXCEPT ![s] = x]
        BY <1>0, <1>11, <2>2 DEF Prepare, TypeOK
      <4>3. (\A t \in Slots \ {s} : runs'[t] = runs[t]) /\ runs'[s] = x
        BY <1>0, <4>2 DEF TypeOK
      <4> QED
        BY <4>1, <4>3 DEF RunType
    <3>2. Promoted(runs[s].feed.app, Pins[runs[s].req.commit]) \in Nat
      BY <1>0 DEF Promoted, TypeOK, Feed, Request, Commits
    <3>3. Promoted(runs[s].feed.app, Pins[runs[s].req.commit]) >= runs[s].feed.app
      <4>1. runs[s].feed.app \in Nat /\ Pins[runs[s].req.commit] \in Nat
        BY <1>0 DEF TypeOK, Feed, Request, Commits
      <4> QED
        BY <4>1 DEF Promoted
    <3>4. RunRestored(s)'
      <4>1. runs[s].feed.app \in Nat /\ site.feed.app \in Nat
        BY <1>0 DEF TypeOK, Feed
      <4> QED
        BY <1>11, <3>1, <3>2, <3>3, <4>1 DEF RunRestored, IndInv, Prepare
    <3>5. RunSelects(s)' /\ RunReleased(s)' /\ RunFeedComplete(s)'
      BY <1>11, <3>1 DEF RunSelects, RunReleased, RunFeedComplete, Complete, Prepare, IndInv
    <3> QED
      BY <1>0, <1>11, <3>1, <3>4, <3>5, OwnStep DEF Prepare
  <2> QED
    BY <2>1, <2>2
<1>12. ASSUME NEW s \in Slots, PublishComponents(s) PROVE IndInv'
  <2>1. /\ \A t \in Slots \ {s} : runs'[t] = runs[t]
        /\ runs'[s].req = runs[s].req /\ runs'[s].feed = runs[s].feed
        /\ runs'[s].step = "deploy"
    BY <1>0, <1>12 DEF PublishComponents, Advance, TypeOK
  <2>2. SoundsTag[runs[s].feed.userspace] \in Tags
    BY <1>0 DEF TypeOK, Feed
  <2>3. /\ releases'[SoundsTag[runs[s].feed.userspace]] = "public"
        /\ \A t \in Tags : releases[t] = "public" => releases'[t] = "public"
    BY <1>0, <1>12, <2>2 DEF PublishComponents, PublishTag, TypeOK
  <2>4. RunSelects(s)' /\ RunRestored(s)' /\ RunReleased(s)' /\ RunFeedComplete(s)'
    BY <1>12, <2>1, <2>3
       DEF RunSelects, RunRestored, RunReleased, RunFeedComplete, Complete, PublishComponents, IndInv
  <2> QED
    BY <1>0, <1>12, <2>1, <2>3, <2>4, OwnStep DEF PublishComponents
<1>13. ASSUME NEW s \in Slots, Deploy(s) PROVE IndInv'
  <2>1. /\ \A t \in Slots \ {s} : runs'[t] = runs[t] /\ runs[t].step = "idle"
        /\ runs'[s] = Idle
    BY <1>0, <1>13 DEF Deploy, EndRun, TypeOK, IndInv, OneRun
  <2>0. Idle.step = "idle" /\ Idle.feed.userspace = 0
    BY DEF Idle
  <2>2. \A t \in Slots : runs'[t].step = "idle"
    BY <2>0, <2>1
  <2>3. \A t \in Slots : RunFeedComplete(t)'
    BY <1>13, <2>0, <2>1 DEF RunFeedComplete, Complete, Deploy, IndInv
  <2>4. OneRun' /\ \A t \in Slots : RunSelects(t)' /\ RunRestored(t)' /\ RunReleased(t)'
    BY <2>2 DEF OneRun, RunSelects, RunRestored, RunReleased
  <2>5. SiteTag' /\ SiteReferencesPublic'
    BY <1>13 DEF Deploy, SiteTag, SiteReferencesPublic, IndInv, RunReleased
  <2>6. SiteFromCompleteBuild'
    BY <1>13 DEF Deploy, SiteFromCompleteBuild, IndInv, RunFeedComplete, Complete
  <2>7. ArtifactComplete'
    BY <1>13 DEF Deploy, ArtifactComplete, IndInv
  <2> QED
    BY <1>0, <2>3, <2>4, <2>5, <2>6, <2>7 DEF IndInv
<1>14. ASSUME NEW s \in Slots, Fail(s) PROVE IndInv'
  <2>1. \A t \in Tags : releases[t] = "public" => releases'[t] = "public"
    BY <1>0, <1>14 DEF Fail, TypeOK
  <2> QED
    BY <1>0, <1>14, <2>1, EndStep DEF Fail
<1>15. CASE UNCHANGED vars
  BY <1>0, <1>15, QuietStep DEF vars
<1> QED
  BY <1>1, <1>2, <1>3, <1>4, <1>5, <1>6, <1>7, <1>8, <1>9, <1>10, <1>11, <1>12, <1>13,
     <1>14, <1>15 DEF Next, Event, BuildEnds, RunStep

LEMMA Inductive == Spec => []IndInv
BY InitInv, IndStep, PTL DEF Spec

(* The index that is live never points at a release that is missing or     *)
(* still a draft, whichever runs failed and whatever waited.               *)
THEOREM ReferencesPublic == Spec => []SiteReferencesPublic
<1>1. IndInv => SiteReferencesPublic
  BY DEF IndInv
<1> QED
  BY <1>1, Inductive, PTL

(* The live userspace is never that of a failed or of a targeted build,    *)
(* although a build may end, expire or start between any two steps.        *)
THEOREM CompleteBuildsOnly == Spec => []SiteFromCompleteBuild
<1>1. IndInv => SiteFromCompleteBuild
  BY DEF IndInv
<1> QED
  BY <1>1, Inductive, PTL

(* A run that selects no build deploys the userspace that is live and no   *)
(* older application, because the group kept every other run from it.      *)
THEOREM OverlayKeeps == Spec => OverlayKeepsUserspace
<1> DEFINE P(s) == runs[s].req.source = None /\ site' # site /\ runs[s].step = "deploy"
                     /\ runs'[s].step = "idle"
                     => /\ site'.feed.userspace = site.feed.userspace
                        /\ site'.feed.app >= site.feed.app
<1>1. IndInv /\ [Next]_vars => [\A s \in Slots : P(s)]_vars
  <2> SUFFICES ASSUME IndInv, Next, NEW s \in Slots, runs[s].req.source = None,
                      site' # site, runs[s].step = "deploy"
               PROVE  /\ site'.feed.userspace = site.feed.userspace
                      /\ site'.feed.app >= site.feed.app
    OBVIOUS
  <2>1. \E t \in Slots : Deploy(t)
    BY DEF Next, Event, BuildEnds, RunStep, Push, Propose, Dispatch, Expire, StartBuild,
       FinishBuild, Begin, Restore, SelectRun, Adopt, Prepare, PublishComponents, Fail
  <2>2. PICK t \in Slots : Deploy(t)
    BY <2>1
  <2>3. t = s
    BY <2>2 DEF Deploy, IndInv, OneRun
  <2>4. site'.feed = runs[s].feed
    BY <2>2, <2>3 DEF Deploy
  <2> QED
    BY <2>4 DEF IndInv, RunRestored
<1> QED
  BY <1>1, Inductive, PTL DEF Spec, OverlayKeepsUserspace
=============================================================================
