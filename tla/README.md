# GUI_ipk: formal models of the package pipeline

GUI_ipk builds OPKG packages for routers (userspace packages, kernel modules,
two laboratory drivers for the crypto engine) and publishes them as a GitHub
Pages site with component releases beside it. This directory holds TLA+ models
of the parts whose correctness depends on ordering, failure and concurrency,
TLC configurations that check them on small instances, and TLAPS proofs for
every instance. `PROJECT.json` is the machine-readable side: the lines each
definition translates, the runs, the mutants that show each property can fail,
the hazards, the findings and the theorems.

    tlc -workers 2 -config MCShardMerge.cfg MCShardMerge
    tlapm ShardMergeProofs.tla

Paths below are relative to the repository.

## 1. Inventory

### The parts and how they interact

    build-packages.yml                 publish-opkg-feed.yml (group github-pages)
      16 shard jobs                      push, pull request, manual, build ended
        select-userspace-shard.py          |
        build-packages.sh                  v
        artifacts ----+                  fetch-publication-inputs.py  <-- live site
                      v                  select-userspace-feed-run.py <-- artifact
      aggregate job                      overlay-openvpn-feed.py
        merge-userspace-shards.py        prepare-publication.py, publication_layout.py
        merge-userspace-repairs.py         kernel_inputs() <-- packages, pins, test
        assemble-asterisk-feed.py            results and firmware listings in git
        sanitize, verify --> artifact      kernel_opkg_providers.apply()
                                         publish-components.py --> GitHub release
    by hand:                             deploy                --> GitHub Pages
      kernel builds, packaging, tests on devices --> git
      prepare-release-feed.py, publish-release-feed.py --> optional releases

    on the router: OPKG, the preinst guards, migrate-kernel-package.sh,
                   service scripts, the kernel modules (SPU drivers)

| Part | State it keeps | Operations | What is hard |
|---|---|---|---|
| `scripts/publish-components.py` | releases and their assets at GitHub; `state`, `missing` in the run | list, create draft, compare, upload a batch, expose | a lost answer and a retry, torn uploads, a run cut off, two drafts of a tag |
| `publish-opkg-feed.yml`, `fetch-publication-inputs.py`, `select-userspace-feed-run.py`, `publication_layout.py` | the live site and catalog, the waiting run, artifacts | restore or adopt, promote pins, publish, deploy | replaced runs, read-then-replace, expiry, failures between steps |
| `build-packages.yml`, `select-userspace-shard.py`, `merge-userspace-shards.py`, `merge-userspace-repairs.py` | manifests, artifacts, the merged feed and its index | select, compile, copy, merge, repair, verify | lost and partial jobs, several copies of a package, repairs that move packages |
| `kernel_opkg_providers.py` | the plan of a profile, the emitted packages | select, drop, name, emit | a fixed point over cyclic dependencies, exact versions computed in three places |
| `experiments/spu-cbc/spu_cbc_lab.c` | `busy`, `keyed`, three keys, one job | submit, chunk, complete, set key | threads and callbacks, in-place buffers, failures half-way |
| `prepare-release-feed.py`, `publish-release-feed.py` | an optional release | prepare, publish | as the component publisher, without its retries and without a group |
| `fetch-publication-inputs.py`, `overlay-openvpn-feed.py`, `publication_layout.py`, `assemble-asterisk-feed.py` | the cache of downloads, the baseline and its index, the live catalog | fetch, overlay, promote, catalog, audit | a pool of workers over one cache, checks that a later step invalidates, a site that is its own input |
| `kernel_inputs()` and the packaging, pinning and testing scripts behind it | packages, manifests, pins, test results, firmware listings in the repository | package, pin, probe, extract, publish | six pipelines of files edited one at a time, in any order |
| `migrate-kernel-package.sh`, `guard()` | OPKG status, `/lib/modules`, loaded modules | check, overwrite, install aliases | stopping in between |
| `experiments/spu-sha256/` | one hash job | hardware prefix, software tail | borrowed buffers, completion |
| `dynamic_dns_updater.sh`, service scripts | pid files, processes | start, stop, retry | signals, races on the pid file |
| build scripts, reports, pages | files | sequential | decided by binary contents and formatting |

What makes each part correct, in one sentence:

- component publisher: a public release is complete and never changes, and
  whatever the point at which runs stop, a later run finishes the draft;
- publication: the live site names only public releases, has the userspace of a
  complete successful build, respects the pins of its commit, and the newest
  commit gets there;
- userspace build: every enabled recipe was assigned to one job that delivered
  packages or a failure report, the feed has one copy of a package, the right
  one, the index lists the files, and nothing is missing without being reported;
- kernel providers: what is advertised can be installed and is complete, and
  everything that can be advertised is;
- optional release feed: what is public under a tag is the snapshot whose digest
  the tag is, whoever publishes at the same time, and retries do not collide;
- the packages of the site: every file is one a build made, there is one copy of
  a package, pins are minimum versions, what was verified before the overlay
  still resolves after it, and as long as the pins can be had the site does not
  make its next publication impossible;
- kernel evidence: a published kernel package carries the label of its own
  payload, depends on the kernel the profile names, and finds its symbols in the
  firmware; what rebooted a device stays out; scripts restore agreement, but
  where it is written by hand;
- migration: a finished one is complete, an interrupted one leaves OPKG
  consistent and can be finished, and no active module is replaced;
- CBC driver: a success is CBC of the input, a failure leaves the IV, one owner
  at a time.

`PROJECT.json` lists every part with its status, and the hazards with the line
at which each one bites and the property that would catch it.

### Plan

Done, in the order of importance: `ComponentRelease` (with `GitHubReleases` and
the abstract `ImmutableRelease`), `Publication`, `SpuCbc`, `ShardMerge`,
`KernelProviders`; then `ReleaseFeed`, `KernelEvidence`, `SiteFeed` and
`KernelMigration`; then a proof module for each, with `KernelMigration` proved
together with the plan it extends. How they compose:

- `KernelMigration` extends `KernelProviders`: a router migrates to the packages
  that the plan of its profile emitted;
- `Publication` and `SiteFeed` are the two sides of one workflow: the queue of
  runs, builds and releases, with the records abstracted to one version; and the
  records, with the queue abstracted to one run at a time, which is what
  `Publication` shows of the group;
- the release step of `Publication` is what `ComponentRelease` proves, its
  complete builds and the `SharedFeeds` of `SiteFeed` are what `ShardMerge`
  uploads (one copy of a name, index equal to files);
- `ReleaseFeed` and `ComponentRelease` share the external `GitHubReleases`.

Every safety invariant and action property that a run checks is also a theorem
(section 4). What is left is in section 6: first the parts of the kernel feed
assembly that `KernelEvidence` abstracts, then `SpuSha256`, if the driver leaves
its laboratory state.

## 2. The modules

### GitHubReleases, ImmutableRelease, ComponentRelease

`GitHubReleases` is external: what the publishers rely on, read off the `gh`
commands they run. All releases of a model carry one tag. A draft does not
reserve its tag, so several may carry it; which one a listing shows first, and
which one `gh release upload|edit <tag>` picks, is a fixed but unknown function
(`lookup`).

`ComponentRelease` has one process per workflow run. `pc` is the call of
`publish()` the run is about to make: `release` (line 44), `create` (46),
`assets` (52), `upload` (65), `edit` (79). `state` and `missing` are the local
variables of these names, stale as in the code. Each call is an action;
`GhBusy`, `GhLostCreate`, `GhLostEdit` and `GhError` are the ways `gh()` fails
(not applied and retried, applied with the answer lost, raised), `UploadBroken`
an upload that ended midway, `Crash` a cancelled run, `AttachByHand` a
maintainer's file. An asset is `payload` for a package, whose bytes the tag
pins, or the tool that wrote it for `Packages.gz`, `source.json`, `SHA256SUMS`.

`ImmutableRelease` is the abstract specification: drafts only grow, only a
complete draft is exposed, nothing public changes. The refinement mapping is
the identity on `rels`; everything local to the runs is hidden.

### Publication

State: the newest commit, the builds with status and artifact, the runs in
progress, the waiting run, the site (its build, application version, release tag
and commit) and the component releases. Actions: the triggers of
publish-opkg-feed.yml (`Push`, `Propose`, `Dispatch`, `FinishBuild`), the
concurrency group (`Arrive`, `Begin`; a commit is one that touches the `paths`
of the triggers, lines 4 and 7, others start nothing), and one action per step of the two jobs
(`Restore`, `SelectRun`, `Adopt`, `Prepare`, `PublishComponents`, `Deploy`,
`Fail`). Two slots exist so that a missing group would show; the group keeps one
of them idle. Versions of the one pinned application are numbers.

### ShardMerge

State: per shard job its manifest, whether it has a failure report, the packages
in its build tree and in its artifact; for the aggregate job the files of the
feed, the index and the malformed packages. An IPK records package, job,
version, section and whether `control()` accepts it. Recipes are numbers in the
order of their names, a digest of a set is the set, so `Disagree`, `Overlap`,
`Gap` and `DigestDiffers` are the checks of lines 79-89 in full. A job compiles
its packages and what they need, so one package comes out of several jobs.

Faults of a job: it scans a tree with a recipe missing (`SelectPartial`), stops
before compiling (`ToolsFail`), loses or spoils a package (`CompileBadly`),
stops after compiling (`IndexFails`) or while copying (`CopyPartly`), or leaves
no artifact (`LoseRunner`). `Repair` is merge-userspace-repairs.py with
everything it checks before it touches a file; `usable` stands for the checks of
fetch-userspace-repairs.py and of the payloads. `Finish` is the rest of the
aggregate job; payload checks and the Asterisk feed may refuse a feed for
reasons outside the model (`clean`).

### KernelProviders

One profile of `apply()`. The input is chosen initially from a set of records:
the modules and dependencies of each group, the firmware's packages, the module
packages with their staging flag, what the kernel has built in, and the modules
each module needs. `Select` is lines 199-229, `Drop` one turn of the loop
230-238 (any order, which covers the order of the dictionary), then the packages
are emitted as records with an identity, a version, what they provide and the
exact versions they depend on. Version strings are one of four constants: the
upgraded revision of a module package, the policy, the policy plus one, the
firmware's. The list of modules of a firmware package is that of its group;
a firmware package without modules is not represented.

### KernelMigration

Extends the plan by a router: opkg's status file (`installed`), the owner of each
module file, the files below `/lib/modules`, the loaded modules, and the script.
`Boot` chooses a router once the plan is done: any generic packages of the old
feed, any of their modules loaded, this kernel or another. `Migrate` is the
script up to its first opkg command; `Unpack` runs the preinst (`guard()`) of one
package and writes its file, `OpkgEnds` writes the status, `OpkgFails` is a
preinst or a file clash that ends the script under `set -e`; `InstallAlias` is
one turn of the loop over `X-Canonical-Provider-Packages`; `Finish` is the
checksum at the end. `Crash` is a power failure: files stay, the status is the
old one. opkg is external: dependencies first, cycles entered anywhere,
`--force-overwrite` for the whole command. Loading a module while the script runs
is excluded by the maintenance window that its comments ask for.

### ReleaseFeed

Publishers are people: each prepares a directory on a machine with some Python
and publishes it later, or two of them at once. publish-release-feed.yml only
prepares (in a group of its own, and keeps the directory as an artifact);
`publish-release-feed.py` is called by no workflow and runs without a lock. `rels` has the releases under the
tag of each snapshot. `pc` follows `publish()`: the local checks (`Start`), the
listing, create, view, the assets, the comparison, one upload after the other,
the edit. `Verified` has every check of lines 17-54. `Damage` alters, deletes or
adds a file between the two scripts, with a new SHA256SUMS or not; any call may
fail before or after it took effect; a person may attach a file. Two drafts of
one tag are possible when both publishers find none: the properties say what
holds as long as one release carries the tag (`Single`, `Orderly`).

### KernelEvidence

One of six pipelines is followed from the compiled module to what
`kernel_inputs()` accepts: vbntk (validation registry), core (pins of
package-vbnto-4.1.38.py), profile38 (candidates and the network packages
reproduced from them), firmware (candidates audited against firmware images),
cryptodev and cryptodev38. The last one is the `export_input` branch of
`cryptodev_packages.py:24-29`, the only one the two 4.1.38 profiles use: the list
of exports has no pinned checksum and no kernel is compared. The ABI that
`assemble-kernel-feed.py:88-108` demands of the core set is the literal `CoreAbi`,
not the profile's. profile38 has two reports: the runtime report for the modules
in `Network`, which must be of the profile's kernel, and `early`, the VBNT-O
`validation/results.json` that `assemble-kernel-candidates.py:117-119` merges
whatever kernel it is of. A digest is the value it is the digest of; a module exists in a few
builds that differ in symbols needed and given. State: the last compiled modules,
the packages, manifest, pins, network packages, the report of the device test,
the firmware images and the listings extracted from them. Each script is an
action with the checks it makes; `Accepts` collects the checks of the
publication and `Published` the index entries it writes. `Edit` has what people
and accidents do: a rebuild, another kernel or firmware in the profile, a damaged
listing, a test with other outcomes, a directory with the withheld module.

### SiteFeed

The records of the site in one cycle: the Asterisk feed and the aggregate job
make a build; a publication fetches every record of the live catalog and every
pin through a pool of workers and a cache (`Lookup`, `DownloadOk`,
`DownloadFails`, `NotThere`, `Truncate`, `Fill`, `Copy`), stages the baseline or
adopts a build, overlays OpenVPN, promotes the pins, verifies, checks the payloads
and deploys; the next publication starts from that. A file is its digest, or
`partial` while it is written. `origin` says where the second URL of a record, or
the only URL of a pin, points: to a release, or to a section of the live site, as
the URLs in `build/application-archive/manifest.json` do. A URL of the site serves
a file only while the catalog has it in that section (`Serves`). `Evict` empties
the saved cache. `Prepare(tail)` ends with check-userspace-payloads.py, which reads
an IPK to the end of its `data.tar.gz`: a torn file is refused unless the tear lies
behind that (`tail`). Versions are sequences of numbers, compared as `tokens()`
compares them; `Rank` is the order the releases really have, against which the
comparison is checked. `Status` is the dependency audit. Section `luci` stands for
the four sections that pins match and `overlay()` does not look at.

### SpuCbc

Threads calling one transform, a thread changing its key, and the callback.
Blocks are terms over `Enc`, `Dec` and `Xor`, so buffers are equal only if they
were computed the same way; `CbcEncrypt` and `CbcDecrypt` are the reference. `pc`
follows `cbc_submit`: the checks (`Call`), `busy` (`Acquire`), `kzalloc`
(`Alloc`), `submit_chunk` (`Submit`: answered at once or later,
`HardwareDone`), `consume_chunk` (`Consume`), the end (`Free`, `Complete`).
`cbc_setkey` is five actions, one per key and one each for `keyed` and `busy`.
Both hardware modes are initial states. The ESP frame and its HMAC are left out.

## 3. Runs

| Run | Checks | Shows |
|---|---|---|
| component_release | TypeOK, PublicIsComplete, ReturnedPublic, PromiseKept, EventuallyPublic | two runs, one after the other, three faults anywhere, two drafts of the tag, two tools: only complete releases are public, ImmutableRelease is implemented, and with one draft and one tool the unbounded loop ends and a later run finishes the draft |
| component_release_tools | RefusesForeignOnly (violated) | finding 1 |
| publication | SiteReferencesPublic, SiteFromCompleteBuild, OverlayKeepsUserspace, CommitEventuallyLive | two commits, two builds, a pull request, a manual run, a failure, expiry; replacing a waiting run loses no commit if nothing fails and only main triggers publications |
| publication_replaced | FullBuildPublished (violated) | finding 2 |
| spu_cbc | CbcResult, FailureKeepsIv, ExclusiveUse | two threads, two keys, requests of 0 to 3 blocks in chunks of 2, one failure |
| spu_cbc_key_race | KeyedJobsOnly (violated) | finding 3 |
| shard_merge | TypeOK, Coverage, OwnerCopyWins, IndexIsFiles, WholeJobsAccounted | three shards, two faults of any kind, nine kinds of repair; every recipe is assigned to one job that delivered packages or a report, every missing package is reported or of a half-copied job |
| shard_merge_partial | NothingLostSilently (violated) | finding 4 |
| kernel_providers | TypeOK, LargestPlan, Resolvable, CapabilityComplete, MigrationComplete, StatusConsistent, ActiveKept, MigrationRepaired | every dependency graph of three groups but one edge, over two modules; on 64 of the profiles, routers that migrate through two power failures |
| release_feed | PublicIsSnapshot, NeverReplaced, RetriesNeverCollide, EventuallyPublic | two people, two Pythons, overlapping runs, one fault or alteration |
| kernel_evidence | LabelsExact, QuarantineHolds, ImportsResolve, AbiExact, SiteCatchesUp | any order of three edits in each of the six pipelines, scripts run at any time; ImportsResolve and SiteCatchesUp with the premises of section 5 |
| site_feed | OneCopy, AsteriskResolves, AuditSound, FilesGenuine, VersionsNeverFall, NeverWedged | any sequence of publications from three builds and three manifests, two workers, one fault, an evicted cache; NeverWedged with the premises of section 5 |

### Bounds, and why they are enough

- ComponentRelease: three expected files and batches of two give a full and a
  short batch; one foreign name; two ids give the duplicate draft; two attempts
  of `gh()` give a retry and an exhausted retry; three faults allow a lost
  create, a broken upload and a crash in one behaviour. The proofs remove all of
  these bounds.
- Publication: with two commits and two builds a run can be running, waiting and
  replaced while another build ends. Build 1 has no application, build 2 a newer
  one than the pins and other sounds.
- ShardMerge: three shards and four recipes give uneven slices; two faults hit
  two jobs or one job and its report. `lib` is built by two shards that do not
  own it. `WholeJobsAccounted` speaks of jobs whose artifact is all they built
  or empty; finding 4 is what happens to the others.
- KernelProviders: cycles of length two and three, groups of one and two
  modules, builtin, staged and ambiguous modules. The proofs remove the bound.
- KernelMigration: the 64 profiles (`MCRouterInputs`) have both modules packaged,
  groups of one and of two modules, a group the firmware may have, and
  dependencies with and without a cycle; generic packages of two groups, one of
  which may own both modules. Two power failures hit a migration and its repair;
  one module may be loaded again between attempts.
- ReleaseFeed: one package, the index and source.json are the three kinds of file
  that the checks tell apart, plus one foreign name. With two people and two
  Pythons runs meet on one tag or pass each other on two; one fault is enough for
  a broken-off upload, a lost answer or an altered directory.
- KernelEvidence: two modules, of which one rebuild needs a symbol of the other
  module or of a newer firmware, a build with another vermagic, two firmware
  inputs, three images, two kernels. Three edits separate module, package and
  evidence from each other in every order; the scripts in between are unbounded.
- SiteFeed: five packages in all four kinds of section. The builds are an old one
  with openvpn-nossl, one with a newer application in another section and a
  jansson that is also Asterisk's (one digest, two records), and one without the
  library Asterisk needs, which verify() refuses. The manifests pin two files of
  the site (one in luci), a file of a release, and an OpenVPN newer than the
  snapshot, which the overlay refuses the next time. One fault fails a download
  or rots the cache; a file that is not at its URL fails without one, with both
  attempts. The number of publications and evictions is not bounded. Without
  `PinsAtHand`, without the premise on OpenVPN pins, and without `Doubtful`, the
  run finds violations: the excluded cases do happen.
- SpuCbc: two threads meet on `busy`; a third adds no kind of conflict, because
  a job has one owner. Three blocks in chunks of two give a chunk boundary and a
  shorter last chunk. In `spu_cbc` changes of key succeed; finding 3 is what
  happens otherwise.

Deadlock is checked for ComponentRelease, ReleaseFeed, SiteFeed and SpuCbc, whose
processes can always start again. Publication and ShardMerge end, KernelEvidence
rests once edits are used up and the site is current, and the planner of
KernelProviders ends where no router follows, so there it is not.

### Fairness

- ComponentRelease: weak fairness of a run's steps (a job keeps running) and of
  starting a run, as long as pushes and builds keep triggering the workflow.
  Faults are never forced and are finite: a service that fails for ever defeats
  any publisher. EventuallyPublic speaks of behaviours without lost creates and
  torn uploads, after which the code refuses or needs a person, and with one tool
  (`Orderly`; finding 1).
- Publication: a waiting run starts when the group is free, its steps are taken,
  and builds end, because jobs have timeouts. No event is assumed to happen.
- ReleaseFeed: a started run goes on, and whoever saw one fail starts another.
- KernelEvidence: a maintainer whose publication is refused runs each script
  again, tests again and publishes; edits are never forced.
- SiteFeed: a started run goes on until it ends. Downloads are never forced to
  fail, except where the site does not have the file; NeverWedged is about
  publications without faults whose pins are at hand.
- KernelMigration: the planner and the script run to their ends; the
  administrator unloads what is loaded and runs the script again. Power failures
  and loads are never forced.

## 4. Proofs

All proofs are for every value of the constants that satisfies the named
assumptions of the modules; they use no bound of section 3. TLC evaluates the
assumptions on the instances of section 3, and the parts of every inductive
invariant were model-checked there before they were proved. Three theorems have
a hypothesis beyond the assumptions (`RankOrder`, `NoBuiltinFiles` and
`~KeyFaults`, below).

**ComponentReleaseProofs** — `TypeCorrect`, `PublicReleasesComplete`,
`ReturnMeansPublic`, `Refinement` (`Spec => PromiseKept`), from the inductive
invariant `IndInv`. `PublicIsComplete` is not inductive because files are
verified through the id of a release and exposed through its tag. `OneTarget`
closes that gap: a release that holds an expected file is the one the tag
resolves to. It is kept because a run creates a release only while none has any
file (`Creating`), and because one run works at a time (`Serial`, from the
concurrency group). `Verified` says that at the edit the release named by
`state` is the whole snapshot, `Known` that the stale draft flag errs on the
safe side.

**ShardMergeProofs** — `SlicesPartition`: `recipes[index::count]` over all
indexes is a partition. `AgreementSuffices`: when every runner found the same
recipes none of the manifest checks refuses. `EveryRecipeAssigned`
(`Spec => []Coverage`), with the invariant that no job runs once the aggregate
job has started (`Quiet`). `TypeCorrect`, `OwnersCopy` and `FeedCoherent`, from
`FeedInv`: packages record the job and section they came from (`Origin`), files
and index are equal and have a name once (`OneEach`). The two lemmas that carry
it are `MergeChoice` (one copy is chosen per package, the owner's if there is
one: two owners are excluded by `Shared`, two sections by `Origin`) and
`RepairShape` (unlinking and overwriting remove exactly what leaves the index).
`NothingUnreported` (`Spec => []WholeJobsAccounted`) follows a package from the
manifest to the feed: a job that built anything built all it was given or has a
report (`JobsReport`), merge() takes or lists every IPK of a shard's own packages
(`MergeReports`), and repairs keep the names (`RepairKeepsNames`).

**PublicationProofs** — `ReferencesPublic`, `CompleteBuildsOnly` and
`OverlayKeeps`, the last an action property, from one `IndInv`. What is live says
nothing about the run that is about to replace it, so the invariant carries what
each step of a run has established: the build it selected is complete
(`RunSelects`, `RunFeedComplete`), its release was made before Pages
(`RunReleased`), and a run without a build still holds what is live
(`RunRestored`). The last one is kept only because of the concurrency group
(`OneRun`): another run would deploy in between. `ArtifactComplete` is why a
successful build with an artifact cannot be a targeted one.

**KernelProvidersProofs** — `TypeCorrect`; `PlanIsLargest`
(`Spec => []LargestPlan`), with the loop invariant that no group of a closed set
has been dropped; `DependenciesResolve` (`Spec => []Resolvable`), from what is
emitted before each phase (`EmitInv`) and the fact that the plan is closed.
`ProvidersBringAll` (`Spec => []CapabilityComplete`) is about a transitive
closure. `BroughtClosed` shows that as many rounds as there are packages reach
it: every round that is not the last adds a package, so a chain that had not
ended would have more members than the feed. It needs `FiniteAssumption` (finite
groups and modules), which makes the feed finite (`EmittedFinite`).

For the router, `MigrationsStayComplete`, `StatusStaysConsistent` and
`ActiveFilesKept` come from `RInv`. The status file alone is not inductive: between
the two opkg commands the new files are on disk and the status is the old one.
`Transaction` says that what opkg has queued and unpacked is self-contained with
what is installed (`NeededComplete`, from the closure above), `FilesOwned` that a
module package on record owns its new file and that a generic package owns only
its own files and never coexists with its alias, and `Progress` which packages a
migration already has at each step of the script. `Recorded` then shows that
writing the status keeps all of this, after a success and after a failure.
`ActiveFilesKept` has the hypothesis `NoBuiltinFiles`: a generic package on the
router has no file of a module that this kernel has compiled in. Without it the
upgrade to the alias deletes such a file, because no module package takes it over
and an alias' guard looks at no module. The instances of the run satisfy it.

**SpuCbcProofs** — `ResultIsCbc`, `FailedKeepsIv` and `OneOwner`, and
`KeyedUnlessKeyFaults`: what finding 3 violates holds when no change of key fails
half way. `LockInv` says who owns the transform (`Ownership`), how far a change of
key has come (`KeyProgress`) and that the three keys agree otherwise
(`KeysAgree`). `CallerInv` is the loop invariant of a request: the blocks before
the offset are those of CBC over the whole input, the source after it is
untouched also in place, and the chaining value is the last ciphertext block
(`Progress`); the chunk in the hardware is the part of the whole that belongs
there (`InFlight`). `EncryptCut` is the fact behind it: CBC of a chunk with the
right chaining value is a part of CBC of the message, for every size of a chunk.

**ReleaseFeedProofs** — `SnapshotsWhole`, `AssetsStay` and `RetriesGoOn`, the last
two action properties, for any number of overlapping publishers and every way the
service resolves a tag. A run acts on what it listed earlier. `Learnt` says which
part of that is still true when it acts: releases only grow (`Grows`), so a file
that was compared stays right; only the list of missing files can be out of date,
on the safe side. All of it is conditional on one release per tag (`AtMostOne`),
which is what the properties assume too.

**KernelEvidenceProofs** — `LabelsAreTrue`, `QuarantineKept`, `SymbolsResolve` and
`AbiCurrent`. `kernel_inputs()` checks most of what it publishes at that moment;
the invariant holds what it cannot see: a row that says passed is about a test
that happened (`RowsHappened`), a sealed listing is the firmware's own
(`ListingsTrue`), a network package was let through (`NetworkTested`), and the
label inside a cryptodev package was true when it was written
(`CryptodevLabels`).

**SiteFeedProofs** — `TypeCorrect`, `OnePackageOfAName`, `AsteriskStaysResolved`,
`AuditIsSound`, and the action properties `NoForeignFiles` and `PinsAreMinimum`.
`Good` is what a set of records has to be at every place of the cycle (one of a
name outside Asterisk, Asterisk resolved, and the sections that `overlay()` leaves
alone as a build made them, with none of the snapshot's names); one lemma per
script shows that it keeps `Good` (`AggregateGood`, `OverlayGood`,
`PromotedGood`). `NoForeignFiles` needs the pool: pins start after all records,
one by one (`PinsLast`), so a job whose record shares its file with no other
(`Alone`) copies a whole file (`Fetched`), and what is torn belongs to a package
whose file two records share (`GenuineOk`). `PinsAreMinimum` adds `VersionsOk` and has the hypothesis `RankOrder`:
`tokens()` orders the versions in use as the releases are ordered. The versions of
the instance satisfy it; no proof covers version strings in general. The assumptions of the module say what the inputs are: one package of
a name per feed, sections as the workflows name them, an initial Asterisk feed
that resolves, and a snapshot not older than what it replaces.

Only model-checked: liveness (EventuallyPublic of both publishers,
CommitEventuallyLive, SiteCatchesUp, NeverWedged, MigrationRepaired), which the
prover does not handle. Facts about recursive functions (the closure, the
chaining) are proved from the existence of a least counterexample in the natural
numbers (`LeastMember`, `SetInduction`), because induction over a predicate cannot
be instantiated by the provers at hand. The type invariants of Publication,
SpuCbc, ReleaseFeed, KernelEvidence and SiteFeed document the variables and are
listed in no run; they are theorems (`TypeCorrect`).

## 5. Findings

1. `publication_layout.py:197`: the tag is the digest of the index, the assets
   include files whose bytes depend on the Python/zlib of the runner. A later run
   with another version refuses its own release, and nothing is deployed any
   more. `prepare-release-feed.py:69-71` avoids exactly this.
2. `publish-opkg-feed.yml:22`: a waiting publication of a finished build is
   replaced by a push or even a pull request, which restores the old userspace.
3. `spu_cbc_lab.c:202`: `keyed` is read before `busy` is taken; a change of key
   that fails in between leaves the request on two different keys.
4. `merge-userspace-shards.py:72`: any IPK makes a shard complete; a job that
   stopped while copying is merged and its lost packages are reported nowhere.
   The run fails, but a run with `reuse_run_id` merges the same artifacts and
   succeeds.

### Limits the properties state as premises

These have no run of their own: the properties hold, with the premise they name.

- Two records of the catalog with one digest share a file of the cache
  (`fetch-publication-inputs.py:36`): one worker may copy it while another writes
  it again. `overlay()` hashes the files again when it writes the index, so in
  `base` and `packages` the damaged copy would be indexed. The payload check of
  `publish-opkg-feed.yml:70-72` then stops the publication, unless the tear lies
  behind `data.tar.gz`, in the control archive, which it does not read
  (`Doubtful` in FilesGenuine). The bootstrap catalog has no such records.
- The pins of the manifest are files of the live site
  (`docs/publication-layout.md:74`, "versioned Pages URLs"). When a newer build is
  kept, or the package changes its section, the publication itself removes that
  file; from then on the pin is only in the cache, and once GitHub evicts that,
  `retrieve()` stops every publication (`fetch-publication-inputs.py:42`) until
  somebody edits the manifest (`PinsAtHand` in NeverWedged).
- A pin of a snapshot package that is newer than the snapshot is published once
  and refused by `overlay()` ever after (`Calm` in NeverWedged). The manifest has
  none.
- A build whose OpenVPN is newer than the snapshot cannot be published:
  `overlay()` refuses it (`overlay-openvpn-feed.py:70`). NeverWedged is about
  publications that select no build.
- `migrate-kernel-package.sh:55` says that `--force-overwrite` applies "only to
  this single audited file"; opkg applies it to every package of the command of
  line 69, so the file of a module that comes along may be taken from a generic
  package as well. ActiveKept holds because each package runs its own guard.
- An alias package carries no module and its guard looks at none. If a generic
  package had a file of a module that the kernel has compiled in, its upgrade to
  the alias would delete that file without asking whether the module is active
  (`NoBuiltinFiles` in ActiveFilesKept; the routers of the run have no such file).
- Core 4.1.38 packages take their runtime label by file name
  (`assemble-kernel-feed.py:118`), so LabelsExact needs the pin to be the tested
  build. The evidence for vbntk and cryptodev is not bound to a kernel ABI, and
  `publication_records()` of cryptodev does not compare Depends with the profile.
- Nothing pins the list of exports of the two 4.1.38 cryptodev profiles
  (`cryptodev_packages.py:24-29`): a damaged or stale one is accepted and may hide
  a missing symbol (`ExportsTrue` in ImportsResolve and SiteCatchesUp).
- ABI, firmware and number of rows of the core set are literals
  (`assemble-kernel-feed.py:88-108`, `publication_layout.py:147`): after an edit of
  that profile no script restores agreement, the scripts have to be edited too
  (`Sound` in SiteCatchesUp).
- `assemble-kernel-candidates.py:117-119` merges an early report without comparing
  its kernel; a payload it blocks stays out until the report changes (`Sound`),
  and LabelsExact promises the kernel only for modules of the runtime report.
- Two publishers of one optional snapshot that both find no release make two
  drafts of a tag; after that the release by id and the release by tag may
  differ (`Single`, `Orderly`).
- A finished targeted build replaces the waiting run of a push and then has
  nothing to publish (`Undisturbed` in CommitEventuallyLive).

## 6. Not modelled

- Recipes, translations, kernel configurations and prebuilt packages are data.
- Build scripts other than the shard branch of `build-packages.sh`, and the other
  build workflows, drive external tools one step after the other.
- Reports and pages are formatting, except the dependency audit (SiteFeed).
- `consolidate-application-feed.py` is called by no workflow; what it made is the
  constant `PinSets`.
- What decides the kernel checks inside a binary: ELF parsing, symbol tables,
  vermagic strings, payload inspections. The models have their outcome.
- `experiments/spu-sha256`: the driver takes no lock and keeps nothing between
  requests; its README calls it unstable and laboratory-only.
- Dynamic DNS and service scripts come from upstream; the overlays change their
  recipes.
- Within the modelled parts: wording of logs and reports, digests of pinned
  inputs (assumed to be checked before the modelled step), pauses for rate
  limits, the layout of the site, the diagnostics beside the candidates, the
  packaging of USB RNDIS, and the ESP framing of the CBC driver.

One input has no model because nothing reads it: `publish_pages` is declared at
`build-packages.yml:34-38`, the README says that clearing it keeps a build as
artifacts only, and every successful complete build of main is published.
