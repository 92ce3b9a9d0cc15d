------------------------------ MODULE SiteFeed ------------------------------
(***************************************************************************)
(* The packages of the site, from the Asterisk feed and the shared build   *)
(* to the published catalog, and back: every publication starts by         *)
(* fetching what the last one published.  Publication.tla has the queue of *)
(* runs and the releases; here one run at a time works on the records.     *)
(*                                                                         *)
(* A file is its digest; "partial" is a file caught while it is written.   *)
(* A record says which file a package is, `sha', as the index or the       *)
(* catalog has it.  The kernel rows are in KernelEvidence.tla.             *)
(***************************************************************************)
EXTENDS Naturals, Sequences, FiniteSets, TLC

CONSTANTS Packages, Versions, Digests,
          Bootstrap,       \* records of build/publication/bootstrap.json.gz
          SharedFeeds,     \* feeds the shard merge can hand over
          AsteriskBuilds,  \* [entries, raw]: an Asterisk build and the other
                           \* package names in its tree
          PinSets,         \* states of build/application-archive/manifest.json
          Snapshot,        \* the records of artifacts/openvpn-2.6.23
          LegacyVersion,   \* 2.4.5-4.2, the other version overlay replaces
          OpenVpn,         \* the packages of the snapshot it may replace
          Removed,         \* openvpn-nossl
          Place,           \* Place[p]: order of p's records in their section
          Required,        \* package names of the Asterisk feed
          AsteriskVersion, \* their versions, from the recipes
          Depends,         \* Depends[p]: set of groups, a group a set of terms
          Provides,        \* Provides[p]: set of [name, ver]; ver <<>>: none
          Rank,            \* Rank[v]: place of v in the order of releases
          Workers,         \* max_workers of the pool
          Attempts,        \* tries for each URL
          MaxFaults        \* bound: failing downloads, rotten cache entries

(* Of the seven sections, those that are treated differently; "luci" also  *)
(* stands for routing, telephony and target/packages: pins match there,    *)
(* and overlay() does not look at them.                                    *)
Sections == {"base", "luci", "packages", "asterisk-20"}

(* origin: where origin_url, or the URL of a pin, points: to a section of  *)
(* the live site or to an asset of a release.                              *)
Origins == Sections \cup {"release"}
Record == [pkg : Packages, ver : Versions, sha : Digests \cup {"partial"},
           section : Sections \cup {"archive"}, origin : Origins]

AsteriskEntries == UNION {a.entries : a \in AsteriskBuilds}
Inputs == Bootstrap \cup Snapshot \cup (UNION SharedFeeds) \cup (UNION PinSets) \cup AsteriskEntries

ASSUME InputsAssumption ==
  /\ Inputs \subseteq Record
  /\ Rank \in [Versions -> Nat] /\ Versions \subseteq Seq(Nat)
  /\ Place \in [Packages -> Nat]
  /\ Workers \in Nat \ {0} /\ Attempts \in Nat \ {0} /\ MaxFaults \in Nat

(* A name has one recipe, so a feed has one package of a name outside the  *)
(* Asterisk section; every input's file is its own.                        *)
ASSUME OneOfAName ==
  /\ \A f \in SharedFeeds \cup PinSets \cup {Snapshot} :
       \A r, s \in f : r.pkg = s.pkg => r = s
  /\ \A r, s \in Bootstrap :
       r.pkg = s.pkg /\ "asterisk-20" \notin {r.section, s.section} => r = s

ASSUME SectionsAssumption ==
  /\ \A r \in Bootstrap : r.section \in Sections
  /\ \A r \in UNION SharedFeeds : r.section \in Sections \ {"asterisk-20"}
  /\ \A r \in Snapshot : r.section \in {"base", "packages"}
  /\ \A r \in Bootstrap \cup (UNION SharedFeeds), s \in Snapshot :
       r.section = "luci" => r.pkg # s.pkg
  /\ \A r \in AsteriskEntries : r.section = "asterisk-20"
  /\ \A r \in UNION PinSets : r.section = "archive"

(* The Asterisk feed the site started with resolves, and no recipe of it   *)
(* depends on openvpn-nossl.                                               *)
ASSUME AsteriskAssumption ==
  \A r \in Bootstrap \cup AsteriskEntries : r.section = "asterisk-20" =>
    \A g \in Depends[r.pkg] :
      /\ \A t \in g : t.name # Removed
      /\ r \in Bootstrap => \E t \in g : \E q \in Bootstrap : t.name = q.pkg

(* The snapshot is newer than what it replaces; a term with an operator    *)
(* has a version.                                                          *)
ASSUME VersionsAssumption ==
  /\ \A s \in Snapshot : s.pkg \in OpenVpn => LegacyVersion \in Versions /\ Rank[LegacyVersion] <= Rank[s.ver]
  /\ \A p \in Packages : \A g \in Depends[p] : \A t \in g :
       t.op # "" => t.op \in {"=", ">=", "<=", ">>"} /\ t.ver \in Versions \ {<<>>}

ASSUME DigestsAssumption == "none" \notin Digests
ASSUME FiniteAssumption == IsFiniteSet(Record)

VARIABLES asterisk,  \* the assembled Asterisk feed, {} before
          built,     \* the complete userspace artifact, {} before
          live,      \* the userspace records of the published catalog
          pins,      \* the manifest of main
          saved,     \* the persistent cache: digest -> file, or "none"
          cache,     \* the run's copy of it
          run,       \* [step, source]
          jobs,      \* the fetches of the run
          baseline,  \* the run's feed: set of [rec, file]
          faults

vars == <<asterisk, built, live, pins, saved, cache, run, jobs,
          baseline, faults>>

Idle == [step |-> "idle", source |-> "site"]
Steps == {"idle", "fetch", "adopt", "overlay", "prepare", "deploy"}
Job == [at : {"queued", "download", "write", "writing", "copy", "done"},
        url : Nat, tries : 0 .. Attempts - 1, file : Digests \cup {"none", "partial"}]
Files == [Digests \cup {"partial"} -> Digests \cup {"none", "partial"}]

TypeOK ==
  /\ asterisk \subseteq Record /\ built \subseteq Record /\ live \subseteq Record
  /\ pins \in PinSets
  /\ saved \in Files /\ cache \in Files
  /\ run \in [step : Steps, source : {"site", "build"}]
  /\ DOMAIN jobs \subseteq Record /\ \A r \in DOMAIN jobs : jobs[r] \in Job
  /\ baseline \subseteq [rec : Record, file : Digests \cup {"partial"}]
  /\ faults \in 0 .. MaxFaults

Init ==
  /\ asterisk = {} /\ built = {} /\ baseline = {}
  /\ live = Bootstrap
  /\ pins \in PinSets
  /\ saved = [d \in Digests \cup {"partial"} |-> "none"] /\ cache = saved
  /\ run = Idle /\ jobs = <<>>
  /\ faults = MaxFaults

Fault == faults > 0 /\ faults' = faults - 1

-----------------------------------------------------------------------------
(* assemble-asterisk-feed.py *)
Names(rows) == {r.pkg : r \in rows}

(* candidates(): every required package, at the version of its recipe.     *)
Candidates(rows) ==
  /\ \A r \in rows : r.pkg \in Required /\ r.ver = AsteriskVersion[r.pkg]
  /\ Cardinality(Names(rows)) = Cardinality(rows)
  /\ Required \subseteq Names(rows)

DependencyCheckOff(rows, available) == TRUE              \* mutant: not checked

(* dependency_check(): one choice of every group is there, whatever its    *)
(* version.                                                                *)
DependencyCheck(rows, available) ==
  \A r \in rows : \A g \in Depends[r.pkg] : \E t \in g : t.name \in available

(* main(): the raw tree may hold what its index omits (allow_unindexed).   *)
AssembleAsterisk(a) ==
  /\ Candidates(a.entries)
  /\ DependencyCheck(a.entries, Names(a.entries) \cup a.raw)
  /\ asterisk' = a.entries
  /\ UNCHANGED <<built, live, pins, saved, cache, run, jobs,
                 baseline, faults>>

(* The aggregate job: the shared feed, the Asterisk feed beside it, and    *)
(* verify() against the published indexes alone.                           *)
Aggregate(f) ==
  /\ asterisk # {}
  /\ Candidates(asterisk)
  /\ DependencyCheck(asterisk, Names(f \cup asterisk))
  /\ built' = f \cup asterisk
  /\ UNCHANGED <<asterisk, live, pins, saved, cache, run, jobs,
                 baseline, faults>>

-----------------------------------------------------------------------------
(* fetch-publication-inputs.py *)
Commit(p) ==        \* main's manifest changes between two publications
  /\ run.step = "idle"
  /\ pins' = p
  /\ UNCHANGED <<asterisk, built, live, saved, cache, run, jobs,
                 baseline, faults>>

(* A publication starts: the cache of the last successful one, the live    *)
(* catalog, then every record of it and every pin to fetch.                *)
Start(source) ==
  /\ run.step = "idle"
  /\ source = "build" => built # {}
  /\ run' = [step |-> "fetch", source |-> source]
  /\ cache' = saved
  /\ jobs' = [r \in live \cup pins |->
                [at |-> "queued", url |-> 1, tries |-> 0, file |-> "none"]]
  /\ UNCHANGED <<asterisk, built, live, pins, saved, baseline, faults>>

(* The run's machine and its files are gone; the cache is saved only by a  *)
(* job that succeeds.                                                      *)
EndRun == run' = Idle /\ jobs' = <<>> /\ baseline' = {} /\ cache' = saved

(* The pool starts the fetches in the order of the catalog; the pins come  *)
(* after it, one by one.                                                   *)
SectionTurn(r) == CASE r.section = "base"        -> 0
                    [] r.section = "luci"        -> 1
                    [] r.section = "packages"    -> 2
                    [] r.section = "asterisk-20" -> 3
                    [] r.section = "archive"     -> 4
Earlier(q, r) == \/ SectionTurn(q) < SectionTurn(r)
                 \/ SectionTurn(q) = SectionTurn(r) /\ Place[q.pkg] < Place[r.pkg]
InFlight == {r \in DOMAIN jobs : jobs[r].at \notin {"queued", "done"}}

MayStart(r) ==
  /\ \A q \in DOMAIN jobs : Earlier(q, r) => jobs[q].at # "queued"
  /\ Cardinality(InFlight) < IF r.section = "archive" THEN 1 ELSE Workers

To(r, at) == jobs' = [jobs EXCEPT ![r].at = at]
FetchOnly == UNCHANGED <<asterisk, built, live, pins, saved, run,
                         baseline>>

CachedIfPresent(d) == cache[d] # "none"              \* mutant: not hashed again
Cached(d) == cache[d] = d

(* retrieve(): a cached file counts only if it still hashes to its name.   *)
Lookup(r) ==
  /\ jobs[r].at = "queued" /\ MayStart(r)
  /\ To(r, IF Cached(r.sha) THEN "copy" ELSE "download")
  /\ FetchOnly /\ UNCHANGED <<cache, faults>>

(* download_url, then origin_url where it differs; a pin has its own URL.  *)
Urls(r) == IF r.section = "archive" THEN <<r.origin>>
           ELSE IF r.origin = r.section THEN <<r.section>>
           ELSE <<r.section, r.origin>>

(* A URL of the site serves what the catalog has there now, and so the     *)
(* file of r only while a record of it is in that section.                 *)
Serves(url, r) ==
  \/ url = "release"
  \/ \E q \in live : /\ q.section = url
                     /\ q.pkg = r.pkg /\ q.ver = r.ver /\ q.sha = r.sha
Served(r) == Serves(Urls(r)[jobs[r].url], r)

DownloadOk(r) ==
  /\ jobs[r].at = "download" /\ Served(r)
  /\ To(r, "write")
  /\ FetchOnly /\ UNCHANGED <<cache, faults>>

(* An error or a file of another digest is tried again; 403 and 404 go on  *)
(* to the next URL; after the last one the publication fails.              *)
NextTry(r, gone) ==
  IF gone \/ jobs[r].tries + 1 = Attempts
    THEN [jobs[r] EXCEPT !.url = @ + 1, !.tries = 0]
    ELSE [jobs[r] EXCEPT !.tries = @ + 1]

TryFails(r, gone) ==
  /\ jobs[r].at = "download"
  /\ IF NextTry(r, gone).url > Len(Urls(r))
       THEN EndRun
       ELSE /\ jobs' = [jobs EXCEPT ![r] = NextTry(r, gone)]
            /\ UNCHANGED <<run, baseline, cache>>
  /\ UNCHANGED <<asterisk, built, live, pins, saved>>

(* The network fails; or the site no longer has the file, or another of    *)
(* its name.                                                               *)
DownloadFails(r, gone) == TryFails(r, gone) /\ Served(r) /\ Fault
NotThere(r, gone) == TryFails(r, gone) /\ ~Served(r) /\ UNCHANGED faults

(* target.write_bytes(): the file is truncated, then filled. *)
Truncate(r) ==
  /\ jobs[r].at = "write"
  /\ cache' = [cache EXCEPT ![r.sha] = "partial"]
  /\ To(r, "writing")
  /\ FetchOnly /\ UNCHANGED faults

Fill(r) ==
  /\ jobs[r].at = "writing"
  /\ cache' = [cache EXCEPT ![r.sha] = r.sha]
  /\ To(r, "copy")
  /\ FetchOnly /\ UNCHANGED faults

(* shutil.copyfile(): what is in the cache now. *)
Copy(r) ==
  /\ jobs[r].at = "copy"
  /\ jobs' = [jobs EXCEPT ![r].at = "done", ![r].file = cache[r.sha]]
  /\ FetchOnly /\ UNCHANGED <<cache, faults>>

(* The indexes of the sections, from the catalog.  They have no URLs: from *)
(* here on a package's origin is its place on the site.                    *)
Staged ==
  /\ run.step = "fetch"
  /\ \A r \in DOMAIN jobs : jobs[r].at = "done"
  /\ baseline' = {[rec |-> [r EXCEPT !.origin = r.section], file |-> jobs[r].file] :
                    r \in {q \in DOMAIN jobs : q.section # "archive"}}
  /\ run' = [run EXCEPT !.step = IF run.source = "build" THEN "adopt" ELSE "overlay"]
  /\ UNCHANGED <<asterisk, built, live, pins, saved, cache, jobs, faults>>

(* rm -rf baseline; mv fresh baseline *)
Adopt ==
  /\ run.step = "adopt"
  /\ baseline' = {[rec |-> r, file |-> r.sha] : r \in built}
  /\ run' = [run EXCEPT !.step = "overlay"]
  /\ UNCHANGED <<asterisk, built, live, pins, saved, cache, jobs, faults>>

-----------------------------------------------------------------------------
(* overlay-openvpn-feed.py.  A package it does not expect stops it before  *)
(* any file is changed.                                                    *)
AllowedLegacy(s) == {LegacyVersion}     \* mutant: not its own version as well
Allowed(s) == {s.ver} \cup (IF s.pkg \in OpenVpn THEN {LegacyVersion} ELSE {})

Overlaid == {e \in baseline : e.rec.section \in {"base", "packages"}}

Expected(e) == \A s \in Snapshot :
  s.pkg = e.rec.pkg => e.rec.section = s.section /\ e.rec.ver \in Allowed(s)

Dropped(e) == e.rec.pkg \in Names(Snapshot) \cup {Removed}

(* write_index() hashes the files again: the digests that the index had    *)
(* are not compared with them.                                             *)
Reindexed(e) == [e EXCEPT !.rec.sha = e.file]

Overlay ==
  /\ run.step = "overlay"
  /\ IF \A e \in Overlaid : Expected(e)
       THEN /\ baseline' = (baseline \ Overlaid)
                           \cup {Reindexed(e) : e \in {f \in Overlaid : ~Dropped(f)}}
                           \cup {[rec |-> s, file |-> s.sha] : s \in Snapshot}
            /\ run' = [run EXCEPT !.step = "prepare"]
            /\ UNCHANGED <<cache, jobs>>
       ELSE EndRun
  /\ UNCHANGED <<asterisk, built, live, pins, saved, faults>>

-----------------------------------------------------------------------------
(* publication_layout.prepare() *)

NewerFirst(v, w) == v[1] > w[1]          \* mutant: the first component only

(* tokens(v) > tokens(w) *)
Newer(v, w) ==
  \E i \in 1 .. Len(v) :
    /\ i <= Len(w) + 1
    /\ \A j \in 1 .. i - 1 : v[j] = w[j]
    /\ i <= Len(w) => v[i] > w[i]

Matches(rows, pin) ==
  {r \in rows : r.section # "asterisk-20" /\ r.pkg = pin.pkg}

(* matches[0]: the sections are read in order, base first. *)
FirstMatch(rows, pin) ==
  LET ms == Matches(rows, pin) IN
  CHOOSE m \in ms : \A n \in ms : SectionTurn(m) <= SectionTurn(n)

KeptFeed(rows, pin) ==
  Matches(rows, pin) # {} /\ Newer(FirstMatch(rows, pin).ver, pin.ver)

PromotedAppended(rows) ==                \* mutant: the old one stays
  rows \cup {[p EXCEPT !.section = "packages"] :
               p \in {q \in pins : ~KeptFeed(rows, q)}}

(* promoted_applications(): each pin the feed has nothing newer than takes *)
(* the place and the section of what it replaces.                          *)
PromotedApplications(rows) ==
  LET used == {p \in pins : ~KeptFeed(rows, p)}
      section(p) == IF Matches(rows, p) = {} THEN "packages"
                                            ELSE FirstMatch(rows, p).section
  IN  (rows \ UNION {Matches(rows, p) : p \in used})
        \cup {[p EXCEPT !.section = section(p)] : p \in used}

VerifiedRecord(e) == e.file = e.rec.sha  \* record()
Recs(entries) == {e.rec : e \in entries}

(* Every file against its index, every pin that is used against its digest. *)
Verified ==
  /\ \A e \in baseline : VerifiedRecord(e)
  /\ \A p \in pins : KeptFeed(Recs(baseline), p) \/ jobs[p].file = p.sha

(* check-userspace-payloads.py reads each IPK of the prepared site as far  *)
(* as the end of its data.tar.gz; `tail': a torn file has that much of it. *)
PayloadsRead(rows, tail) == tail \/ \A r \in rows : r.sha # "partial"

Prepare(tail) ==
  /\ run.step = "prepare"
  /\ LET rows == PromotedApplications(Recs(baseline)) IN
     IF Verified /\ PayloadsRead(rows, tail)
       THEN /\ baseline' = {[rec |-> r, file |-> r.sha] : r \in rows}
            /\ run' = [run EXCEPT !.step = "deploy"]
            /\ UNCHANGED <<cache, jobs>>
       ELSE EndRun
  /\ UNCHANGED <<asterisk, built, live, pins, saved, faults>>

Deploy ==
  /\ run.step = "deploy"
  /\ live' = Recs(baseline)
  /\ saved' = cache /\ cache' = cache
  /\ run' = Idle /\ jobs' = <<>> /\ baseline' = {}
  /\ UNCHANGED <<asterisk, built, pins, faults>>

(* The stored cache loses a file's contents. *)
Rot(d) ==
  /\ run.step = "idle" /\ saved[d] = d
  /\ Fault
  /\ saved' = [saved EXCEPT ![d] = "partial"] /\ cache' = saved'
  /\ UNCHANGED <<asterisk, built, live, pins, run, jobs, baseline>>

(* GitHub drops a cache that is old or over the quota. *)
Evict ==
  /\ run.step = "idle"
  /\ saved' = [d \in Digests \cup {"partial"} |-> "none"] /\ cache' = saved'
  /\ UNCHANGED <<asterisk, built, live, pins, run, jobs, baseline, faults>>

-----------------------------------------------------------------------------
FetchStep == \E r \in DOMAIN jobs :
  \/ Lookup(r) \/ DownloadOk(r) \/ Truncate(r) \/ Fill(r) \/ Copy(r)
  \/ \E gone \in BOOLEAN : NotThere(r, gone)
RunStep == \/ FetchStep \/ Staged \/ Adopt \/ Overlay
           \/ \E tail \in BOOLEAN : Prepare(tail)
           \/ Deploy

Next == \/ RunStep
        \/ \E a \in AsteriskBuilds : AssembleAsterisk(a)
        \/ \E f \in SharedFeeds : Aggregate(f)
        \/ \E p \in PinSets : Commit(p)
        \/ \E s \in {"site", "build"} : Start(s)
        \/ \E r \in DOMAIN jobs, gone \in BOOLEAN : DownloadFails(r, gone)
        \/ \E d \in Digests : Rot(d)
        \/ Evict

Spec == Init /\ [][Next]_vars

(* A started run goes on until it ends. *)
LiveSpec == Spec /\ WF_vars(RunStep)

-----------------------------------------------------------------------------
(* report-feed-dependencies.py: audit() of the published indexes.          *)
Audited == {r \in live : r.section # "asterisk-20"}
Offers(r) == Provides[r.pkg] \cup {[name |-> r.pkg, ver |-> r.ver]}
Offered(name) == \E r \in Audited : \E o \in Offers(r) : o.name = name

(* mutant: the provider's own version counts for what it provides *)
ExactVersionOfProvider(t) ==
  /\ t.op \in {"=", ">=", "<="}
  /\ \E r \in Audited : r.ver = t.ver /\ \E o \in Offers(r) : o.name = t.name
ExactVersionAvailable(t) ==
  /\ t.op \in {"=", ">=", "<="}
  /\ \E r \in Audited : \E o \in Offers(r) : o.name = t.name /\ o.ver = t.ver

Status(g) ==
  IF \E t \in g : t.op = "" /\ Offered(t.name)      THEN "name-available"
  ELSE IF \E t \in g : ExactVersionAvailable(t)     THEN "exact-version-available"
  ELSE IF \E t \in g : Offered(t.name)              THEN "version-check-required"
  ELSE "unresolved"

-----------------------------------------------------------------------------
(* The contents some build, archive or snapshot gave a package.            *)
Genuine(r) ==
  \E q \in Inputs : q.pkg = r.pkg /\ q.ver = r.ver /\ q.sha = r.sha

(* A package of the site that shares its file with another record, or is  *)
(* not what a build made already.                                          *)
Doubtful(p) ==
  \E q \in live : q.pkg = p /\ (~Genuine(q) \/ \E x \in live \ {q} : x.sha = q.sha)

(* fetch-publication-inputs.py, "Reconstruct verified userspace inputs":   *)
(* a publication puts no file on the site that differs from what a build   *)
(* made, whatever is in the cache and however the downloads interleave.    *)
(* The exception is a package whose file two records share, in a section   *)
(* that overlay() indexes again: one worker copies the file while another  *)
(* writes it.                                                              *)
FilesGenuine ==
  [][\A r \in live' : Genuine(r) \/ (r.section \in {"base", "packages"} /\ Doubtful(r.pkg))]_vars

(* "the pinned versions are minimum promoted versions": whatever build it  *)
(* publishes, the site has each pinned application in its version or a     *)
(* newer one.  And a publication that selects no build drops no package    *)
(* but openvpn-nossl and lowers no version, in the order of the releases,  *)
(* although the manifest may go back and the OpenVPN packages are always   *)
(* replaced.                                                               *)
AtLeast(r, rows) ==
  \E q \in rows : /\ q.pkg = r.pkg /\ Rank[q.ver] >= Rank[r.ver]
                  /\ q.section = "asterisk-20" <=> r.section = "asterisk-20"
VersionsNeverFall ==
  [][run.step = "deploy" /\ run'.step = "idle" =>
       /\ \A p \in pins : AtLeast(p, live')
       /\ run.source = "site" =>
            \A r \in live : r.pkg # Removed => AtLeast(r, live')]_vars

(* opkg finds one package of a name in the site's shared sections after    *)
(* every mix of build, overlay and pins.                                   *)
OneCopy ==
  \A r, q \in live :
    r.pkg = q.pkg /\ "asterisk-20" \notin {r.section, q.section} => r = q

(* "The final merged feed must still resolve every dependency from its     *)
(* published indexes": and so must the site, after the overlay and the     *)
(* pins changed what the Asterisk feed was verified against.               *)
AsteriskResolves ==
  \A r \in live : r.section = "asterisk-20" =>
    \A g \in Depends[r.pkg] : \E t \in g : t.name \in Names(live)

(* opkg's reading of a term. *)
Satisfied(t) == \E r \in Audited : \E o \in Offers(r) :
  /\ o.name = t.name
  /\ t.op # "" => /\ o.ver # <<>>
                  /\ CASE t.op = "="  -> o.ver = t.ver
                       [] t.op = ">=" -> Rank[o.ver] >= Rank[t.ver]
                       [] t.op = "<=" -> Rank[o.ver] <= Rank[t.ver]
                       [] t.op = ">>" -> Rank[o.ver] > Rank[t.ver]

(* The audit leaves out of its issues only dependencies that opkg can      *)
(* satisfy from the site, and calls unresolved only those it cannot.       *)
AuditSound ==
  \A r \in Audited : \A g \in Depends[r.pkg] :
    /\ Status(g) \in {"name-available", "exact-version-available"}
         => \E t \in g : Satisfied(t)
    /\ Status(g) = "unresolved" => \A t \in g : ~Satisfied(t)

(* No fault, no shared file, and no pin of a snapshot package newer than   *)
(* the snapshot: overlay() would refuse it in the next publication.        *)
Calm ==
  /\ faults = MaxFaults
  /\ \A r, q \in live : r.sha = q.sha => r = q
  /\ \A p \in pins, s \in Snapshot : p.pkg = s.pkg => ~Newer(p.ver, s.ver)

(* Each pin is in the cache or still at its URL.  A pin whose URL is a     *)
(* file of the site is gone from there when a newer build is kept or the   *)
(* package moves to another section, and from the cache when that is       *)
(* evicted.                                                                *)
PinsAtHand == \A p \in pins : Serves(p.origin, p) \/ saved[p.sha] = p.sha

(* The site can always be published again: a publication that selects no   *)
(* build never stops at a package that an earlier publication put there;   *)
(* it reaches its deployment, whatever manifest main has, if the pins can  *)
(* be had.                                                                 *)
NeverWedged ==
  []Calm => ((run.step = "fetch" /\ run.source = "site" /\ PinsAtHand) ~> run.step = "deploy")
=============================================================================
