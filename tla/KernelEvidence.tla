--------------------------- MODULE KernelEvidence ---------------------------
(***************************************************************************)
(* What kernel_inputs() of scripts/publication_layout.py accepts from the  *)
(* repository, and how the repository gets there: a maintainer compiles,   *)
(* packages, tests, pins and edits profiles in any order, each step with   *)
(* its own script, and nothing but the checks of the publication says      *)
(* whether the files still belong together.                                *)
(*                                                                         *)
(* There are six pipelines; a behaviour follows one of them:               *)
(*   vbntk      installable 4.1.52 modules with a validation registry      *)
(*   core       installable 4.1.38 modules pinned in package-vbnto         *)
(*   profile38  the 4.1.38 candidates, and the network packages that are   *)
(*              reproduced from some of them and their test results        *)
(*   firmware   4.1.52 candidates checked against original firmware        *)
(*   cryptodev  one module per profile, checked against original firmware  *)
(*   cryptodev38  the two 4.1.38 ones, checked against a list of exports   *)
(* A digest is the value it is the digest of.  Each module exists in a few *)
(* builds, which differ in the symbols they need and give.                 *)
(***************************************************************************)
EXTENDS Naturals, FiniteSets

CONSTANTS Modules,
          Withheld,            \* xt_nat
          Network,             \* the candidates that the runtime report covers
          Builds,              \* 1 is the build the repository starts with
          Needs, Gives,        \* [Modules \X Builds -> symbols]
          ForeignBuilds,       \* builds with another vermagic
          Images,              \* what a firmware may be: builtin and modular symbols, kernel
          StockInputs,         \* extracted firmware images of the profile
          Kernels,             \* kernel packages (ABIs); 1 is the initial one
          MaxEdits             \* bound: edits and mishaps of one behaviour

CryptodevKinds == {"cryptodev", "cryptodev38"}
Kinds == {"vbntk", "core", "profile38", "firmware"} \cup CryptodevKinds
Expected == Modules \ {Withheld}
CoreAbi == 1                   \* the ABI and firmware in assemble-kernel-feed.py
None == [build |-> 0, kernel |-> 0, label |-> "none"]
Ipk(b, k, l) == [build |-> b, kernel |-> k, label |-> l]
Labels == {"none", "not_tested", "passed", "skip_busy", "blocked"}
FirstImage == CHOOSE i \in Images : TRUE

ASSUME KernelEvidenceAssumption ==
  /\ Withheld \in Modules /\ Network \subseteq Expected
  /\ 1 \in Builds /\ 1 \in Kernels /\ 0 \notin Builds
  /\ StockInputs # {} /\ Images # {}
  /\ MaxEdits \in Nat

VARIABLES kind,
          kernel,     \* kernel_package of the profile
          ko,         \* the module compiled last
          ipk,        \* the packages in artifacts/, or in the bundle
          manifest,   \* modules.json, manifest.json: digests, firmware checks, patch
          pin,        \* bundle_sha256 and SHA256 list; MODULES of package-vbnto
          net,        \* artifacts/*-4.1.38-network
          report,     \* validation results: kernel, restoration audit, rows
          early,      \* rows of validation/results.json of VBNT-O
          image,      \* the firmware images as they are
          stock,      \* stock-symbols.json.gz; sealed: as source.json pins it
                      \* (nothing pins the list of exports of cryptodev38)
          patch,      \* the cryptodev patch
          claimed,    \* runtime_validated of the cryptodev profile
          tested,     \* history: what really happened on a device
          site, edits

files    == <<ipk, manifest, pin, net>>
firmware == <<image, stock>>
device   == <<report, early, tested>>
crypto   == <<patch, claimed>>
vars == <<kind, kernel, ko, files, firmware, device, crypto, site, edits>>

Row(b, s) == [build |-> b, status |-> s]
Fresh(S, l) == [m \in Modules |-> IF m \in S THEN Ipk(1, 1, l) ELSE None]
Passed(S, b) == [m \in Modules |-> IF m \in S THEN Row(b, "passed") ELSE Row(b, "blocked")]
NoRows == [m \in Modules |-> Row(0, "not_tested")]

Init ==
  /\ kind \in Kinds
  /\ kernel = 1 /\ patch = 1 /\ claimed = (kind = "cryptodev38")
  /\ ko = [m \in Modules |-> 1]
  /\ ipk = Fresh(Expected, IF claimed THEN "passed" ELSE "not_tested")
  /\ image = [i \in StockInputs |-> FirstImage]
  /\ stock = [i \in StockInputs |-> [file |-> FirstImage, sealed |-> kind # "cryptodev38"]]
  /\ manifest = [mods |-> ko, checks |-> image, patch |-> 1]
  /\ pin = [ipks |-> ipk, mods |-> ko]
  /\ net = Fresh(Network, "passed")
  /\ report = [kernel |-> 1, clean |-> TRUE, rows |-> Passed(Expected, 1)]
  /\ early \in {NoRows} \cup IF kind = "profile38" THEN {Passed(Expected, 1)} ELSE {}
  /\ tested = {<<m, 1, 1>> : m \in Expected}
  /\ site = {}
  /\ edits = MaxEdits

Packed == {m \in Modules : ipk[m] # None}
Payloads == {<<m, ipk[m].build>> : m \in Packed}

-----------------------------------------------------------------------------
(* kernel_firmware.unresolved(): strong imports nobody provides; the       *)
(* modules of one set may provide for each other.                          *)
Unresolved(P, s) ==
  (UNION {Needs[p] : p \in P}) \ (s.file.builtin \cup s.file.modular \cup UNION {Gives[p] : p \in P})

GenuineAnyFile(s) == s.file.kernel = kernel       \* mutant: checksum not compared
Genuine(s) == s.sealed /\ s.file.kernel = kernel

(* firmware_kernel_candidates.audit() *)
Audit(P) ==
  /\ {p[1] : p \in P} = Expected
  /\ \A p \in P : p[2] \notin ForeignBuilds
  /\ \A i \in StockInputs :
       /\ Genuine(stock[i])
       /\ \A p \in P : Gives[p] \cap stock[i].file.builtin = {}
       /\ Unresolved(P, stock[i]) = {}

(* audit_vbntk_ipks(): one input, whose kernel is not compared. *)
OneInput == CHOOSE i \in StockInputs : TRUE
AuditVbntk(P) ==
  P # {} /\ stock[OneInput].sealed /\ Unresolved(P, stock[OneInput]) = {}

(* cryptodev_packages.audit().  An export_input is taken as it is: its     *)
(* checksum is written down and compared with nothing, nor is a kernel.    *)
AuditCryptodev(p) ==
  /\ p[2] \notin ForeignBuilds
  /\ IF kind = "cryptodev38"
       THEN Unresolved({p}, stock[OneInput]) = {}
       ELSE \A i \in StockInputs : Genuine(stock[i]) /\ Unresolved({p}, stock[i]) = {}
  /\ claimed => report.rows[p[1]] = Row(p[2], "passed")

-----------------------------------------------------------------------------
(* What each part of kernel_inputs() accepts.                              *)

(* write_feed('4.1.52'): a record for the package, not blocked, with this  *)
(* payload; the metadata of the profile.                                   *)
RegisteredByName(m) == report.rows[m].status # "blocked"      \* mutant: digest not compared
Registered(m) == report.rows[m].status # "blocked" /\ report.rows[m].build = ipk[m].build

AcceptsVbntk ==
  /\ AuditVbntk(Payloads)
  /\ \A m \in Packed : Registered(m) /\ ipk[m].kernel = kernel

(* verify-vbnto-4.1.38-ipks.py: by pin and by the ABI of the profile; then *)
(* write_feed(), which has ABI and firmware once more, as literals.  The   *)
(* row of the report is looked up by its file name.                        *)
AcceptsCore == \A m \in Packed :
  ipk[m].build = pin.mods[m] /\ ipk[m].kernel = kernel /\ ipk[m].kernel = CoreAbi

(* assemble-kernel-candidates.py: the pinned bundle; profile/ABI guard,    *)
(* staging, manifest; a report of this ABI that blocks none of them.       *)
CandidateAnyAbi(m) == m # Withheld /\ manifest.mods[m] = ipk[m].build        \* mutant
Candidate(m) == m # Withheld /\ manifest.mods[m] = ipk[m].build /\ ipk[m].kernel = kernel

(* fetch-kernel-candidates.download(): the archive is the pinned one. *)
BundlePinned == pin = [ipks |-> ipk, mods |-> manifest.mods]

(* validated.get((name, sha)): the rows of results.json, whatever kernel   *)
(* they are of, overridden by those of the runtime report.                 *)
RecordedRuntimeOnly(m) ==                                  \* mutant: results.json not merged
  IF m \in Network /\ report.rows[m].build = ipk[m].build THEN report.rows[m].status ELSE "not_tested"
Recorded(m) ==
  IF m \in Network /\ report.rows[m].build = ipk[m].build THEN report.rows[m].status
  ELSE IF early[m].build = ipk[m].build THEN early[m].status
  ELSE "not_tested"

AcceptsCandidates ==
  /\ BundlePinned
  /\ report.kernel = kernel
  /\ \A m \in Packed : Candidate(m) /\ Recorded(m) # "blocked"

(* network_kmods_4138.expected(): every row passed or was skipped busy, on *)
(* this ABI, with a clean restoration, for the payload of the candidate.   *)
NetworkReady ==
  /\ report.kernel = kernel /\ report.clean
  /\ \A m \in Network :
       /\ report.rows[m].status \in {"passed", "skip_busy"}
       /\ ipk[m].build = report.rows[m].build
       /\ ipk[m].build \notin ForeignBuilds
NetworkOf(m) ==
  IF m \in Network THEN Ipk(ipk[m].build, kernel, report.rows[m].status) ELSE None

(* materialize(verify=True): byte for byte what expected() makes now. *)
AcceptsNetwork == NetworkReady /\ \A m \in Modules : net[m] = NetworkOf(m)

(* firmware_kernel_candidates.restore() *)
AcceptsFirmware ==
  /\ BundlePinned
  /\ \A m \in Packed : ipk[m].kernel = kernel /\ ipk[m].build = manifest.mods[m]
  /\ Audit(Payloads)
  /\ \A i \in StockInputs : manifest.checks[i] = stock[i].file

(* cryptodev_packages.publication_records() *)
AcceptsCryptodev ==
  /\ \A p \in Payloads : AuditCryptodev(p) /\ p[2] = manifest.mods[p[1]]
  /\ manifest.patch = patch

Accepts ==
  /\ Packed = Expected               \* the number of rows, and of their names
  /\ kind = "vbntk" => AcceptsVbntk
  /\ kind = "core" => AcceptsCore
  /\ kind = "profile38" => AcceptsCandidates /\ AcceptsNetwork
  /\ kind = "firmware" => AcceptsFirmware
  /\ kind \in CryptodevKinds => AcceptsCryptodev

Package(m, p, boot, l) ==
  [mod |-> m, build |-> p.build, kernel |-> p.kernel, boot |-> boot, status |-> l]

(* The index entries; boot says whether the module is below /lib/modules.  *)
Published ==
  CASE kind \in {"vbntk", "core"} -> {Package(m, ipk[m], TRUE, report.rows[m].status) : m \in Packed}
    [] kind = "profile38" -> {Package(m, ipk[m], FALSE, Recorded(m)) : m \in Packed}
                               \cup {Package(m, net[m], TRUE, net[m].label) : m \in Network}
    [] kind = "firmware" -> {Package(m, ipk[m], FALSE, "not_tested") : m \in Packed}
    [] kind \in CryptodevKinds -> {Package(m, ipk[m], FALSE, ipk[m].label) : m \in Packed}

Publish ==
  /\ Accepts
  /\ site # Published
  /\ site' = Published
  /\ UNCHANGED <<kind, kernel, ko, files, firmware, device, crypto, edits>>

-----------------------------------------------------------------------------
(* The scripts a maintainer runs.                                          *)
others == <<kind, kernel, ko, firmware, device, crypto, site>>

Made(l) == [m \in Modules |-> IF m \in Expected THEN Ipk(ko[m], kernel, l) ELSE None]

(* build-vbntj-kmods.sh and verify-runtime-payloads.py: every rebuilt      *)
(* module is the recorded one.                                             *)
PackageVbntk(S) ==
  /\ kind = "vbntk"
  /\ \A m \in S : report.rows[m].build = ko[m]
  /\ ipk' = [m \in Modules |-> IF m \in S THEN Ipk(ko[m], kernel, "not_tested") ELSE None]
  /\ UNCHANGED <<manifest, pin, net>>

(* update-vbntk-package-metadata.py, one file: new metadata for the        *)
(* recorded payload.  It stops at a file that is not.                      *)
UpdateMetadata(m) ==
  /\ kind = "vbntk" /\ m \in Packed
  /\ ipk[m].build = report.rows[m].build
  /\ ipk' = [ipk EXCEPT ![m].kernel = kernel]
  /\ UNCHANGED <<manifest, pin, net>>

(* package-vbnto-4.1.38.py, one module. *)
PackageCore(m) ==
  /\ kind = "core" /\ m \in Expected
  /\ ko[m] = pin.mods[m]
  /\ ipk' = [ipk EXCEPT ![m] = Ipk(ko[m], kernel, "not_tested")]
  /\ UNCHANGED <<manifest, pin, net>>

(* package-expanded-kmods.py *)
PackageCandidatesStale ==                                  \* mutant: modules.json of an earlier build
  kind = "profile38" /\ ipk' = Made("not_tested") /\ UNCHANGED <<manifest, pin, net>>
PackageCandidates ==
  /\ kind = "profile38"
  /\ ipk' = Made("not_tested")
  /\ manifest' = [manifest EXCEPT !.mods = ko]
  /\ UNCHANGED <<pin, net>>

(* network_kmods_4138.materialize() into an empty directory. *)
Materialize ==
  /\ kind = "profile38"
  /\ NetworkReady
  /\ net' = [m \in Modules |-> NetworkOf(m)]
  /\ UNCHANGED <<ipk, manifest, pin>>

(* firmware_kernel_candidates.package() *)
PackageFirmware ==
  /\ kind = "firmware"
  /\ Audit({<<m, ko[m]>> : m \in Expected})
  /\ ipk' = Made("not_tested")
  /\ manifest' = [manifest EXCEPT !.mods = ko, !.checks = [i \in StockInputs |-> stock[i].file]]
  /\ UNCHANGED <<pin, net>>

(* cryptodev_packages.package(), for all profiles. *)
PackageCryptodev ==
  /\ kind \in CryptodevKinds
  /\ \A m \in Expected : AuditCryptodev(<<m, ko[m]>>)
  /\ ipk' = Made(IF claimed THEN "passed" ELSE "not_tested")
  /\ manifest' = [manifest EXCEPT !.mods = ko, !.patch = patch]
  /\ UNCHANGED <<pin, net>>

(* The digests written into the profile by hand. *)
Pin ==
  /\ kind \in {"core", "profile38", "firmware"}
  /\ pin' = [ipks |-> ipk, mods |-> IF kind = "core" THEN ko ELSE manifest.mods]
  /\ UNCHANGED <<ipk, manifest, net>>

Rest == UNCHANGED <<others, edits>>
Scripts ==
  /\ \/ PackageVbntk(Expected)
     \/ \E m \in Expected : UpdateMetadata(m) \/ PackageCore(m)
     \/ PackageCandidates \/ Materialize \/ PackageFirmware \/ PackageCryptodev \/ Pin
  /\ Rest

(* A test on a device that runs the kernel of the profile.  A module in    *)
(* use is skipped, one that reboots the device is blocked; the withheld    *)
(* one is not tried again.  A candidate is tested as it was packaged.      *)
Testable(m) == IF kind = "profile38" THEN ipk[m].build ELSE ko[m]
Covered == IF kind = "profile38" THEN Network ELSE Expected
Probe(outcome, clean) ==
  /\ kind # "firmware"                     \* no device
  /\ report' = [kernel |-> kernel, clean |-> clean,
                rows |-> [m \in Modules |-> IF m \in Covered THEN Row(Testable(m), outcome[m])
                                            ELSE report.rows[m]]]
  /\ tested' = tested \cup {<<m, Testable(m), kernel>> : m \in {x \in Covered : outcome[x] = "passed"}}
  /\ UNCHANGED <<early, kind, kernel, ko, files, firmware, crypto, site>>

(* The results of VBNT-O, over all its candidates. *)
ProbeEarly(outcome) ==
  /\ kind = "profile38" /\ early # NoRows
  /\ early' = [m \in Modules |-> IF m \in Expected THEN Row(ipk[m].build, outcome[m]) ELSE early[m]]
  /\ tested' = tested \cup {<<m, ipk[m].build, kernel>> : m \in {x \in Expected : outcome[x] = "passed"}}
  /\ UNCHANGED <<report, kind, kernel, ko, files, firmware, crypto, site>>

(* Results of other files, or none that a publication could use: test again. *)
Reprobe ==
  /\ \/ ~report.clean \/ report.kernel # kernel
     \/ \E m \in Covered : report.rows[m].build # Testable(m) \/ report.rows[m].status # "passed"
  /\ Probe([m \in Expected |-> "passed"], TRUE)
  /\ UNCHANGED edits

(* extract-kernel-firmware.py writes the listing of an image again; no     *)
(* script writes the list of exports.                                      *)
Extract ==
  /\ kind # "cryptodev38"
  /\ stock' = [i \in StockInputs |-> [file |-> image[i], sealed |-> TRUE]]
  /\ UNCHANGED <<kind, kernel, ko, files, image, device, crypto, site, edits>>

-----------------------------------------------------------------------------
(* Edits and mishaps. *)
Compile(m, b) ==
  /\ ko' = [ko EXCEPT ![m] = b]
  /\ UNCHANGED <<kind, kernel, files, firmware, device, crypto, site>>

EditProfile(k) ==
  /\ kernel' = k
  /\ UNCHANGED <<kind, ko, files, firmware, device, crypto, site>>

(* The profile names another firmware, extracted and pinned; or the device *)
(* gets another one, and the list of exports stays.                        *)
ChangeFirmware(i, f) ==
  /\ image' = [image EXCEPT ![i] = f]
  /\ stock' = IF kind = "cryptodev38" THEN stock
              ELSE [stock EXCEPT ![i] = [file |-> f, sealed |-> TRUE]]
  /\ UNCHANGED <<kind, kernel, ko, files, device, crypto, site>>

(* A damaged listing; a list of exports written anew, rightly or wrongly. *)
DamageListing(i, f) ==
  /\ f # image[i] \/ kind = "cryptodev38"
  /\ stock' = [stock EXCEPT ![i] = [file |-> f, sealed |-> FALSE]]
  /\ UNCHANGED <<kind, kernel, ko, files, image, device, crypto, site>>

EditCryptodev(c, p) ==
  /\ kind \in CryptodevKinds
  /\ claimed' = c /\ patch' = p
  /\ UNCHANGED <<kind, kernel, ko, files, firmware, device, site>>

Edit ==
  /\ edits > 0 /\ edits' = edits - 1
  /\ \/ \E m \in Modules, b \in Builds : Compile(m, b)
     \/ \E k \in Kernels : EditProfile(k)
     \/ \E i \in StockInputs, f \in Images : ChangeFirmware(i, f) \/ DamageListing(i, f)
     \/ \E c \in BOOLEAN, p \in {1, 2} : EditCryptodev(c, p)
     \/ PackageVbntk(Modules) /\ UNCHANGED others      \* the withheld module packaged too
     \/ \E outcome \in [Expected -> {"passed", "skip_busy", "blocked"}], clean \in BOOLEAN :
          Probe(outcome, clean)
     \/ \E outcome \in [Expected -> {"passed", "blocked"}] : ProbeEarly(outcome)

Next == Scripts \/ Reprobe \/ Extract \/ Publish \/ Edit

Spec == Init /\ [][Next]_vars

(* A maintainer whose publication was refused runs the scripts again. *)
LiveSpec ==
  /\ Spec
  /\ WF_vars(Extract) /\ WF_vars(Reprobe) /\ WF_vars(Publish)
  /\ WF_vars(PackageVbntk(Expected) /\ Rest) /\ WF_vars(PackageCandidates /\ Rest)
  /\ WF_vars(Materialize /\ Rest) /\ WF_vars(PackageFirmware /\ Rest)
  /\ WF_vars(PackageCryptodev /\ Rest) /\ WF_vars(Pin /\ Rest)
  /\ \A m \in Expected : WF_vars(PackageCore(m) /\ Rest)

-----------------------------------------------------------------------------
TypeOK ==
  /\ kind \in Kinds /\ kernel \in Kernels /\ ko \in [Modules -> Builds]
  /\ \A m \in Modules :
       /\ {ipk[m].build, net[m].build} \subseteq Builds \cup {0}
       /\ {ipk[m].kernel, net[m].kernel} \subseteq Kernels \cup {0}
       /\ {ipk[m].label, net[m].label, report.rows[m].status, early[m].status} \subseteq Labels
       /\ net[m] # None => m \in Network /\ net[m].label \in {"passed", "skip_busy"}
  /\ edits \in 0 .. MaxEdits

(* X-Runtime-Test-Status and X-Runtime-Validated: a package that is        *)
(* published as tested holds a payload that did pass on a device, however  *)
(* files were rebuilt, repackaged and retested in between; and on the very *)
(* kernel it depends on if the runtime report of a 4.1.38 profile covers   *)
(* it (the older results.json is merged whatever kernel it is of).  Core   *)
(* packages take their row by file name: for them the pin has to be the    *)
(* tested build.                                                           *)
LabelsExact ==
  Accepts => \A x \in Published :
    /\ x.status = "passed"
    /\ kind = "core" => pin.mods[x.mod] = report.rows[x.mod].build
    => \E k \in Kernels : /\ <<x.mod, x.build, k>> \in tested
                          /\ kind = "profile38" /\ x.mod \in Network => k = x.kernel

(* "Quarantined": neither the withheld module nor a payload that rebooted  *)
(* a device is published, whether it was packaged before or after the test *)
(* and whichever of the two reports of a 4.1.38 profile knows of it.       *)
QuarantineHolds ==
  Accepts => \A x \in Published :
    /\ x.mod # Withheld
    /\ kind = "vbntk" \/ (kind = "profile38" /\ x.mod \in Network)
         => report.rows[x.mod] # Row(x.build, "blocked")
    /\ kind = "profile38" /\ x.mod \notin Network => early[x.mod] # Row(x.build, "blocked")

(* Every published module finds its symbols in each firmware image the     *)
(* profile names, as the images are and not as a stale or damaged listing  *)
(* has them, or in a module published with it.  Only a listing that is     *)
(* pinned can be trusted so far: the 4.1.38 cryptodev profiles are checked *)
(* against a list of exports that nothing pins, and for them the list has  *)
(* to be that of the firmware.                                             *)
Inputs == IF kind \in {"vbntk", "cryptodev38"} THEN {OneInput} ELSE StockInputs
ExportsTrue == kind = "cryptodev38" => stock[OneInput].file = image[OneInput]
ImportsResolve ==
  Accepts /\ ExportsTrue /\ kind \in {"vbntk", "firmware"} \cup CryptodevKinds =>
    \A x \in Published, i \in Inputs :
      Needs[<<x.mod, x.build>>] \subseteq
        image[i].builtin \cup image[i].modular
          \cup UNION {Gives[<<y.mod, y.build>>] : y \in IF kind \in CryptodevKinds THEN {x} ELSE Published}

(* A package depends on the kernel the profile names now, although the     *)
(* profile may have been edited after packaging or testing; and what goes  *)
(* below /lib/modules of a 4.1.38 profile is the payload of a candidate    *)
(* of the same publication.                                                *)
AbiExact ==
  Accepts => \A x \in Published :
    /\ kind \notin CryptodevKinds => x.kernel = kernel
    /\ kind = "profile38" /\ x.boot => \E y \in Published : ~y.boot /\ y.mod = x.mod /\ y.build = x.build

(* No order of edits wedges the publication: running the scripts again     *)
(* brings the compiled modules to the site, if they can be loaded at all,  *)
(* were not quarantined, and where no script helps the hand-written files  *)
(* agree: the ABI of a core profile with the literals of write_feed(), the *)
(* list of exports with the firmware.                                      *)
Sound ==
  /\ \A m \in Expected : ko[m] \notin ForeignBuilds
  /\ \A i \in Inputs : \A m \in Expected :
       /\ Needs[<<m, ko[m]>>] \subseteq image[i].builtin \cup image[i].modular
       /\ Gives[<<m, ko[m]>>] \cap image[i].builtin = {}
       /\ kind \in {"firmware", "cryptodev"} => image[i].kernel = kernel
  /\ kind = "core" => kernel = CoreAbi
  /\ kind = "profile38" => \A m \in Expected \ Network : early[m] # Row(ko[m], "blocked")
  /\ ExportsTrue
SiteCatchesUp ==
  <>[]Sound => []<>({<<x.mod, x.build, x.kernel>> : x \in site} = {<<m, ko[m], kernel>> : m \in Expected})
=============================================================================
