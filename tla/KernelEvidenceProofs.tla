------------------------ MODULE KernelEvidenceProofs ------------------------
(***************************************************************************)
(* Proofs about KernelEvidence for every set of modules, builds, kernels   *)
(* and firmware images, and any number of edits.                           *)
(***************************************************************************)
EXTENDS KernelEvidence, TLAPS

IpkType == [build : Builds \cup {0}, kernel : Kernels \cup {0}, label : Labels]
RowType == [build : Builds \cup {0}, status : Labels]

Types ==
  /\ kind \in Kinds /\ kernel \in Kernels /\ ko \in [Modules -> Builds]
  /\ ipk \in [Modules -> IpkType]
  /\ net \in [Modules -> IpkType]
  /\ report \in [kernel : Kernels, clean : BOOLEAN, rows : [Modules -> RowType]]
  /\ early \in [Modules -> RowType]
  /\ image \in [StockInputs -> Images]
  /\ stock \in [StockInputs -> [file : Images, sealed : BOOLEAN]]
  /\ edits \in 0 .. MaxEdits

(* A network package is made from a result that let it through. *)
NetworkTested ==
  \A m \in Modules : net[m] # None => m \in Network /\ net[m].label \in {"passed", "skip_busy"}

(* A row that says passed is about a test that happened, on its kernel. *)
RowsHappened ==
  \A m \in Covered : report.rows[m].status = "passed"
                        => <<m, report.rows[m].build, report.kernel>> \in tested

(* So is one of the older results, on some kernel. *)
EarlyHappened ==
  \A m \in Expected : early[m].status = "passed"
                        => \E k \in Kernels : <<m, early[m].build, k>> \in tested

(* A listing that is as source.json pins it is the firmware's own; nothing *)
(* pins a list of exports.                                                 *)
ListingsTrue ==
  \A i \in StockInputs : stock[i].sealed => kind # "cryptodev38" /\ stock[i].file = image[i]

(* The label is in the cryptodev package: no later edit takes it back, so  *)
(* it has to be true when it is written.                                   *)
CryptodevLabels ==
  kind \in CryptodevKinds =>
    \A m \in Expected : ipk[m].label = "passed"
                          => \E k \in Kernels : <<m, ipk[m].build, k>> \in tested

IndInv == Types /\ NetworkTested /\ RowsHappened /\ EarlyHappened /\ ListingsTrue /\ CryptodevLabels
-----------------------------------------------------------------------------
LEMMA IpkTypes ==
  /\ None \in IpkType
  /\ \A b \in Builds, k \in Kernels, l \in Labels :
       /\ Ipk(b, k, l) \in IpkType
       /\ Ipk(b, k, l).build = b /\ Ipk(b, k, l).kernel = k /\ Ipk(b, k, l).label = l
BY DEF None, Ipk, IpkType, Labels

LEMMA InitInv == Init => IndInv
<1> SUFFICES ASSUME Init PROVE IndInv
  OBVIOUS
<1> USE KernelEvidenceAssumption
<1>1. 1 \in Builds /\ 1 \in Kernels /\ FirstImage \in Images
  BY DEF FirstImage
<1>2. {"passed", "blocked", "not_tested"} \subseteq Labels
  BY DEF Labels
<1>3. /\ \A S, m : m \in Modules \cap S => Passed(S, 1)[m].build = 1
      /\ Passed(Expected, 1) \in [Modules -> RowType] /\ NoRows \in [Modules -> RowType]
      /\ \A m \in Modules : NoRows[m].status = "not_tested"
  BY <1>1, <1>2 DEF Passed, NoRows, Row, RowType
<1>4. TRUE \in BOOLEAN /\ (kind # "cryptodev38") \in BOOLEAN
  BY Zenon
<1>5. PICK l \in {"passed", "not_tested"} : ipk = Fresh(Expected, l)
  BY DEF Init
<1>6. ipk \in [Modules -> IpkType] /\ net \in [Modules -> IpkType]
  BY <1>1, <1>2, <1>5, IpkTypes DEF Init, Fresh
<1>7. /\ report \in [kernel : Kernels, clean : BOOLEAN, rows : [Modules -> RowType]]
      /\ early \in [Modules -> RowType]
  BY <1>1, <1>3, <1>4 DEF Init
<1>8. stock \in [StockInputs -> [file : Images, sealed : BOOLEAN]]
  BY <1>1, <1>4 DEF Init
<1>9. Types
  BY <1>1, <1>6, <1>7, <1>8 DEF Init, Types
<1>10. NetworkTested
  BY <1>1, <1>2, IpkTypes DEF Init, Fresh, NetworkTested, Expected
<1>11. \A m \in Expected : <<m, 1, 1>> \in tested /\ m \in Modules
  BY DEF Init, Expected
<1>12. RowsHappened
  BY <1>3, <1>11, KernelEvidenceAssumption DEF Init, RowsHappened, Covered
<1>13. EarlyHappened
  BY <1>1, <1>3, <1>11 DEF Init, EarlyHappened
<1>14. ListingsTrue
  BY DEF Init, ListingsTrue
<1>15. CryptodevLabels
  <2>1. \A m \in Expected : ipk[m].build = 1
    BY <1>5, <1>11 DEF Fresh, Ipk
  <2> QED
    BY <1>1, <1>11, <2>1 DEF CryptodevLabels
<1> QED
  BY <1>9, <1>10, <1>12, <1>13, <1>14, <1>15 DEF IndInv
-----------------------------------------------------------------------------
(* Packages change, the history does not. *)

LEMMA Repackaged ==
  ASSUME IndInv, UNCHANGED <<kind, kernel, ko, firmware, device>>,
         ipk' \in [Modules -> IpkType], UNCHANGED net, edits' \in 0 .. MaxEdits,
         CryptodevLabels'
  PROVE  IndInv'
<1>1. /\ UNCHANGED kind /\ UNCHANGED kernel /\ UNCHANGED ko /\ UNCHANGED image /\ UNCHANGED stock
      /\ UNCHANGED report /\ UNCHANGED early /\ UNCHANGED tested
  BY DEF firmware, device
<1> QED
  BY <1>1 DEF IndInv, Types, NetworkTested, RowsHappened, Covered, EarlyHappened, ListingsTrue

LEMMA MadeType ==
  ASSUME Types, NEW l \in Labels
  PROVE  /\ Made(l) \in [Modules -> IpkType]
         /\ \A m \in Expected : Made(l)[m].build = ko[m] /\ Made(l)[m].label = l
BY IpkTypes DEF Made, Types, Expected

LEMMA PackageVbntkStep ==
  ASSUME IndInv, NEW S \in SUBSET Modules, PackageVbntk(S),
         UNCHANGED <<kind, kernel, ko, firmware, device>>, edits' \in 0 .. MaxEdits
  PROVE  IndInv'
<1>0. Types
  BY DEF IndInv
<1>1. "not_tested" \in Labels
  BY DEF Labels
<1>2. ipk' \in [Modules -> IpkType]
  BY <1>0, <1>1, IpkTypes DEF PackageVbntk, Types
<1>3. CryptodevLabels'
  BY DEF PackageVbntk, CryptodevLabels, CryptodevKinds
<1> QED
  BY <1>2, <1>3, Repackaged DEF PackageVbntk

LEMMA ScriptsStep == ASSUME IndInv, Scripts PROVE IndInv'
<1>0. Types /\ UNCHANGED <<kind, kernel, ko, firmware, device>> /\ edits' \in 0 .. MaxEdits
  BY DEF IndInv, Scripts, Rest, others, Types
<1>1. CASE PackageVbntk(Expected)
  BY <1>0, <1>1, PackageVbntkStep DEF Expected
<1>2. ASSUME NEW m \in Expected, UpdateMetadata(m) PROVE IndInv'
  <2>1. PICK x : x = [ipk[m] EXCEPT !.kernel = kernel]
    OBVIOUS
  <2>2. ipk' = [ipk EXCEPT ![m] = x]
    BY <1>0, <1>2, <2>1 DEF UpdateMetadata, Types
  <2>3. m \in Modules /\ ipk[m] \in IpkType
    BY <1>0 DEF Types, Expected
  <2>4. x \in IpkType
    BY <1>0, <2>1, <2>3 DEF Types, IpkType
  <2>5. ipk' \in [Modules -> IpkType]
    BY <1>0, <2>2, <2>3, <2>4 DEF Types
  <2>6. CryptodevLabels'
    BY <1>0, <1>2 DEF UpdateMetadata, CryptodevLabels, CryptodevKinds
  <2> QED
    BY <1>0, <1>2, <2>5, <2>6, Repackaged DEF UpdateMetadata
<1>3. ASSUME NEW m \in Expected, PackageCore(m) PROVE IndInv'
  <2>1. m \in Modules /\ ko[m] \in Builds /\ kernel \in Kernels /\ "not_tested" \in Labels
    BY <1>0 DEF Types, Expected, Labels
  <2>2. ipk' \in [Modules -> IpkType]
    BY <1>0, <1>3, <2>1, IpkTypes DEF PackageCore, Types
  <2>3. CryptodevLabels'
    BY <1>0, <1>3 DEF PackageCore, CryptodevLabels, CryptodevKinds
  <2> QED
    BY <1>0, <1>3, <2>2, <2>3, Repackaged DEF PackageCore
<1>4. CASE PackageCandidates
  <2>1. "not_tested" \in Labels
    BY DEF Labels
  <2>2. ipk' \in [Modules -> IpkType]
    BY <1>0, <1>4, <2>1, MadeType DEF PackageCandidates
  <2>3. CryptodevLabels'
    BY <1>0, <1>4 DEF PackageCandidates, CryptodevLabels, CryptodevKinds
  <2> QED
    BY <1>0, <1>4, <2>2, <2>3, Repackaged DEF PackageCandidates
<1>5. CASE Materialize
  <2>1. /\ NetworkReady /\ net' = [m \in Modules |-> NetworkOf(m)] /\ UNCHANGED ipk
        /\ kind = "profile38"
    BY <1>5 DEF Materialize
  <2>2. ASSUME NEW m \in Modules
        PROVE  /\ NetworkOf(m) \in IpkType
               /\ NetworkOf(m) # None => m \in Network /\ NetworkOf(m).label \in {"passed", "skip_busy"}
    <3>1. CASE m \in Network
      <4>1. ipk[m] \in IpkType /\ kernel \in Kernels /\ report.rows[m].status \in {"passed", "skip_busy"}
        BY <1>0, <2>1, <3>1 DEF Types, NetworkReady
      <4>2. NetworkOf(m) = Ipk(ipk[m].build, kernel, report.rows[m].status)
        BY <3>1 DEF NetworkOf
      <4> QED
        BY <3>1, <4>1, <4>2 DEF Ipk, IpkType, Labels
    <3>2. CASE m \notin Network
      BY <3>2, IpkTypes DEF NetworkOf
    <3> QED
      BY <3>1, <3>2
  <2>3. net' \in [Modules -> IpkType] /\ NetworkTested'
    BY <2>1, <2>2 DEF NetworkTested
  <2>4. /\ UNCHANGED kind /\ UNCHANGED kernel /\ UNCHANGED ko /\ UNCHANGED image /\ UNCHANGED stock
        /\ UNCHANGED report /\ UNCHANGED early /\ UNCHANGED tested
    BY <1>0 DEF firmware, device
  <2> QED
    BY <1>0, <2>1, <2>3, <2>4 DEF IndInv, Types, RowsHappened, Covered, EarlyHappened, ListingsTrue, CryptodevLabels
<1>6. CASE PackageFirmware
  <2>1. "not_tested" \in Labels
    BY DEF Labels
  <2>2. ipk' \in [Modules -> IpkType]
    BY <1>0, <1>6, <2>1, MadeType DEF PackageFirmware
  <2>3. CryptodevLabels'
    BY <1>0, <1>6 DEF PackageFirmware, CryptodevLabels, CryptodevKinds
  <2> QED
    BY <1>0, <1>6, <2>2, <2>3, Repackaged DEF PackageFirmware
<1>7. CASE PackageCryptodev
  <2>1. PICK l \in Labels : l = (IF claimed THEN "passed" ELSE "not_tested")
    BY DEF Labels
  <2>2. ipk' = Made(l) /\ (l = "passed" => claimed)
    BY <1>7, <2>1 DEF PackageCryptodev
  <2>3. ipk' \in [Modules -> IpkType] /\ \A m \in Expected : ipk'[m].build = ko[m] /\ ipk'[m].label = l
    BY <1>0, <2>2, MadeType
  <2>4. CryptodevLabels'
    <3> SUFFICES ASSUME NEW m \in Expected, l = "passed"
                 PROVE  \E k \in Kernels : <<m, ko[m], k>> \in tested
      BY <1>0, <2>3 DEF CryptodevLabels, device
    <3>1. report.rows[m] = Row(ko[m], "passed")
      BY <1>7, <2>2 DEF PackageCryptodev, AuditCryptodev
    <3>2. <<m, ko[m], report.kernel>> \in tested
      BY <1>7, <3>1 DEF IndInv, RowsHappened, Covered, Row, PackageCryptodev, CryptodevKinds
    <3> QED
      BY <1>0, <3>2 DEF Types
  <2> QED
    BY <1>0, <1>7, <2>3, <2>4, Repackaged DEF PackageCryptodev
<1>8. CASE Pin
  <2>1. UNCHANGED ipk /\ UNCHANGED net /\ UNCHANGED kind /\ UNCHANGED tested
    BY <1>0, <1>8 DEF Pin, device
  <2>2. ipk' \in [Modules -> IpkType] /\ CryptodevLabels'
    BY <1>0, <2>1 DEF Types, IndInv, CryptodevLabels
  <2> QED
    BY <1>0, <2>1, <2>2, Repackaged
<1> QED
  BY <1>1, <1>2, <1>3, <1>4, <1>5, <1>6, <1>7, <1>8 DEF Scripts
-----------------------------------------------------------------------------
(* Tests, listings and edits. *)

LEMMA ProbeStep ==
  ASSUME IndInv, NEW outcome \in [Expected -> {"passed", "skip_busy", "blocked"}],
         NEW clean \in BOOLEAN, Probe(outcome, clean), edits' \in 0 .. MaxEdits
  PROVE  IndInv'
<1> DEFINE rows == [m \in Modules |-> IF m \in Covered THEN Row(Testable(m), outcome[m])
                                      ELSE report.rows[m]]
<1>0. /\ Types /\ UNCHANGED kind /\ UNCHANGED kernel /\ UNCHANGED ko /\ UNCHANGED ipk
      /\ UNCHANGED net /\ UNCHANGED image /\ UNCHANGED stock
      /\ UNCHANGED early
      /\ report' = [kernel |-> kernel, clean |-> clean, rows |-> rows]
      /\ tested \subseteq tested'
      /\ \A m \in Covered : outcome[m] = "passed" => <<m, Testable(m), kernel>> \in tested'
  BY DEF IndInv, Probe, files, firmware
<1>1. /\ Covered \subseteq Expected /\ Covered' = Covered
      /\ \A m \in Expected : Testable(m) \in Builds \cup {0} /\ outcome[m] \in Labels
  BY <1>0, KernelEvidenceAssumption DEF Covered, Testable, Types, IpkType, Labels, Expected
<1>2. rows \in [Modules -> RowType]
  <2>1. \A m \in Modules : report.rows[m] \in RowType
    BY <1>0 DEF Types
  <2>2. \A m \in Covered : Row(Testable(m), outcome[m]) \in RowType
    BY <1>1 DEF Row, RowType
  <2> QED
    BY <2>1, <2>2
<1>3. \A m \in Covered : rows[m].build = Testable(m) /\ rows[m].status = outcome[m]
  BY <1>1 DEF Expected, Row
<1> HIDE DEF rows
<1>4. report' \in [kernel : Kernels, clean : BOOLEAN, rows : [Modules -> RowType]]
  BY <1>0, <1>2 DEF Types
<1>5. RowsHappened' /\ EarlyHappened'
  BY <1>0, <1>1, <1>3 DEF IndInv, RowsHappened, EarlyHappened
<1>6. CryptodevLabels'
  BY <1>0 DEF IndInv, CryptodevLabels
<1> QED
  BY <1>0, <1>4, <1>5, <1>6 DEF IndInv, Types, NetworkTested, ListingsTrue

LEMMA ProbeEarlyStep ==
  ASSUME IndInv, NEW outcome \in [Expected -> {"passed", "blocked"}],
         ProbeEarly(outcome), edits' \in 0 .. MaxEdits
  PROVE  IndInv'
<1>0. /\ Types /\ UNCHANGED kind /\ UNCHANGED kernel /\ UNCHANGED ko /\ UNCHANGED ipk
      /\ UNCHANGED net /\ UNCHANGED image /\ UNCHANGED stock /\ UNCHANGED report
      /\ early' = [m \in Modules |-> IF m \in Expected THEN Row(ipk[m].build, outcome[m]) ELSE early[m]]
      /\ tested \subseteq tested'
      /\ \A m \in Expected : outcome[m] = "passed" => <<m, ipk[m].build, kernel>> \in tested'
  BY DEF IndInv, ProbeEarly, files, firmware
<1>1. \A m \in Expected : m \in Modules /\ ipk[m].build \in Builds \cup {0} /\ outcome[m] \in Labels
  BY <1>0 DEF Types, IpkType, Labels, Expected
<1>2. /\ \A m \in Modules : early[m] \in RowType
      /\ \A m \in Expected : Row(ipk[m].build, outcome[m]) \in RowType
  BY <1>0, <1>1 DEF Types, Row, RowType
<1>3. early' \in [Modules -> RowType]
  BY <1>0, <1>2
<1>4. \A m \in Expected : early'[m].build = ipk[m].build /\ early'[m].status = outcome[m]
  BY <1>0, <1>1 DEF Row
<1>5. EarlyHappened'
  BY <1>0, <1>4 DEF EarlyHappened, Types
<1>6. RowsHappened' /\ CryptodevLabels'
  BY <1>0 DEF IndInv, RowsHappened, Covered, CryptodevLabels
<1> QED
  BY <1>0, <1>3, <1>5, <1>6 DEF IndInv, Types, NetworkTested, ListingsTrue

LEMMA FirmwareStep ==
  ASSUME IndInv, UNCHANGED <<kind, kernel, ko, files, device>>,
         image' \in [StockInputs -> Images],
         stock' \in [StockInputs -> [file : Images, sealed : BOOLEAN]],
         ListingsTrue', edits' \in 0 .. MaxEdits
  PROVE  IndInv'
<1>1. /\ UNCHANGED kind /\ UNCHANGED kernel /\ UNCHANGED ko /\ UNCHANGED ipk /\ UNCHANGED net
      /\ UNCHANGED report /\ UNCHANGED early /\ UNCHANGED tested
  BY DEF files, device
<1> QED
  BY <1>1 DEF IndInv, Types, NetworkTested, RowsHappened, Covered, EarlyHappened, CryptodevLabels

LEMMA EditStep == ASSUME IndInv, Edit PROVE IndInv'
<1>0. Types /\ edits' \in 0 .. MaxEdits
  BY KernelEvidenceAssumption DEF IndInv, Edit, Types
<1>1. ASSUME NEW m \in Modules, NEW b \in Builds, Compile(m, b) PROVE IndInv'
  <2>1. /\ UNCHANGED kind /\ UNCHANGED kernel /\ UNCHANGED ipk /\ UNCHANGED net
        /\ UNCHANGED image /\ UNCHANGED stock /\ UNCHANGED report /\ UNCHANGED early /\ UNCHANGED tested
        /\ ko' \in [Modules -> Builds]
    BY <1>0, <1>1 DEF Compile, files, firmware, device, Types
  <2> QED
    BY <1>0, <2>1 DEF IndInv, Types, NetworkTested, RowsHappened, Covered, EarlyHappened, ListingsTrue, CryptodevLabels
<1>2. ASSUME NEW k \in Kernels, EditProfile(k) PROVE IndInv'
  <2>1. /\ UNCHANGED kind /\ UNCHANGED ko /\ UNCHANGED ipk /\ UNCHANGED net
        /\ UNCHANGED image /\ UNCHANGED stock /\ UNCHANGED report /\ UNCHANGED early /\ UNCHANGED tested
        /\ kernel' \in Kernels
    BY <1>2 DEF EditProfile, files, firmware, device
  <2> QED
    BY <1>0, <2>1 DEF IndInv, Types, NetworkTested, RowsHappened, Covered, EarlyHappened, ListingsTrue, CryptodevLabels
<1>3. ASSUME NEW i \in StockInputs, NEW f \in Images, ChangeFirmware(i, f) PROVE IndInv'
  <2>1. UNCHANGED <<kind, kernel, ko, files, device>>
    BY <1>3 DEF ChangeFirmware
  <2>2. TRUE \in BOOLEAN
    BY Zenon
  <2>3. /\ image' \in [StockInputs -> Images]
        /\ stock' \in [StockInputs -> [file : Images, sealed : BOOLEAN]]
    BY <1>0, <1>3, <2>2 DEF ChangeFirmware, Types
  <2>4. ListingsTrue'
    <3>1. CASE kind = "cryptodev38"
      BY <1>0, <1>3, <3>1 DEF ChangeFirmware, IndInv, ListingsTrue
    <3>2. CASE kind # "cryptodev38"
      BY <1>0, <1>3, <3>2 DEF ChangeFirmware, Types, IndInv, ListingsTrue
    <3> QED
      BY <3>1, <3>2
  <2> QED
    BY <1>0, <2>1, <2>3, <2>4, FirmwareStep
<1>4. ASSUME NEW i \in StockInputs, NEW f \in Images, DamageListing(i, f) PROVE IndInv'
  <2>1. UNCHANGED <<kind, kernel, ko, files, device>> /\ UNCHANGED image
    BY <1>4 DEF DamageListing
  <2>2. FALSE \in BOOLEAN
    BY Zenon
  <2>3. /\ image' \in [StockInputs -> Images]
        /\ stock' \in [StockInputs -> [file : Images, sealed : BOOLEAN]]
    BY <1>0, <1>4, <2>1, <2>2 DEF DamageListing, Types
  <2>4. ListingsTrue'
    BY <1>0, <1>4, <2>1 DEF DamageListing, Types, IndInv, ListingsTrue
  <2> QED
    BY <1>0, <2>1, <2>3, <2>4, FirmwareStep
<1>5. ASSUME NEW c \in BOOLEAN, NEW p \in {1, 2}, EditCryptodev(c, p) PROVE IndInv'
  <2>1. /\ UNCHANGED kind /\ UNCHANGED kernel /\ UNCHANGED ko /\ UNCHANGED ipk /\ UNCHANGED net
        /\ UNCHANGED image /\ UNCHANGED stock /\ UNCHANGED report /\ UNCHANGED early /\ UNCHANGED tested
    BY <1>5 DEF EditCryptodev, files, firmware, device
  <2> QED
    BY <1>0, <2>1 DEF IndInv, Types, NetworkTested, RowsHappened, Covered, EarlyHappened, ListingsTrue, CryptodevLabels
<1>6. CASE PackageVbntk(Modules) /\ UNCHANGED others
  BY <1>0, <1>6, PackageVbntkStep DEF others
<1>7. ASSUME NEW outcome \in [Expected -> {"passed", "skip_busy", "blocked"}], NEW clean \in BOOLEAN,
             Probe(outcome, clean)
      PROVE  IndInv'
  BY <1>0, <1>7, ProbeStep
<1>8. ASSUME NEW outcome \in [Expected -> {"passed", "blocked"}], ProbeEarly(outcome) PROVE IndInv'
  BY <1>0, <1>8, ProbeEarlyStep
<1> QED
  BY <1>1, <1>2, <1>3, <1>4, <1>5, <1>6, <1>7, <1>8 DEF Edit

LEMMA IndStep == ASSUME IndInv, [Next]_vars PROVE IndInv'
<1>0. Types
  BY DEF IndInv
<1>1. CASE Scripts
  BY <1>1, ScriptsStep
<1>2. CASE Reprobe
  <2>1. [m \in Expected |-> "passed"] \in [Expected -> {"passed", "skip_busy", "blocked"}]
    OBVIOUS
  <2>2. Probe([m \in Expected |-> "passed"], TRUE) /\ edits' \in 0 .. MaxEdits
    BY <1>0, <1>2 DEF Reprobe, Types
  <2>3. TRUE \in BOOLEAN
    BY Zenon
  <2> QED
    BY <2>1, <2>2, <2>3, ProbeStep
<1>3. CASE Extract
  <2>1. UNCHANGED <<kind, kernel, ko, files, device>> /\ UNCHANGED image /\ edits' \in 0 .. MaxEdits
    BY <1>0, <1>3 DEF Extract, Types
  <2>2. TRUE \in BOOLEAN
    BY Zenon
  <2>3. /\ image' \in [StockInputs -> Images]
        /\ stock' \in [StockInputs -> [file : Images, sealed : BOOLEAN]]
    BY <1>0, <1>3, <2>1, <2>2 DEF Extract, Types
  <2>4. ListingsTrue'
    BY <1>3, <2>1 DEF Extract, ListingsTrue
  <2> QED
    BY <2>1, <2>3, <2>4, FirmwareStep
<1>4. CASE Publish \/ UNCHANGED vars
  <2>1. /\ UNCHANGED kind /\ UNCHANGED kernel /\ UNCHANGED ko /\ UNCHANGED ipk /\ UNCHANGED net
        /\ UNCHANGED image /\ UNCHANGED stock /\ UNCHANGED report /\ UNCHANGED early /\ UNCHANGED tested
        /\ UNCHANGED edits
    BY <1>4 DEF Publish, vars, files, firmware, device
  <2> QED
    BY <2>1 DEF IndInv, Types, NetworkTested, RowsHappened, Covered, EarlyHappened, ListingsTrue, CryptodevLabels
<1>5. CASE Edit
  BY <1>5, EditStep
<1> QED
  BY <1>1, <1>2, <1>3, <1>4, <1>5 DEF Next

LEMMA Inductive == Spec => []IndInv
<1>1. IndInv /\ [Next]_vars => IndInv'
  BY IndStep
<1> QED
  BY InitInv, <1>1, PTL DEF Spec
-----------------------------------------------------------------------------
(* What kernel_inputs() accepts. *)

(* The ways an entry gets into the index. *)
Installed(x)  == kind \in {"vbntk", "core"}
                   /\ \E m \in Expected : x = Package(m, ipk[m], TRUE, report.rows[m].status)
Candidates(x) == kind = "profile38" /\ \E m \in Expected : x = Package(m, ipk[m], FALSE, Recorded(m))
Networked(x)  == kind = "profile38" /\ \E m \in Network : x = Package(m, net[m], TRUE, net[m].label)
Firmware(x)   == kind = "firmware" /\ \E m \in Expected : x = Package(m, ipk[m], FALSE, "not_tested")
Cryptodev(x)  == kind \in CryptodevKinds /\ \E m \in Expected : x = Package(m, ipk[m], FALSE, ipk[m].label)

LEMMA PublishedWays ==
  ASSUME Types, Accepts, NEW x \in Published
  PROVE  Installed(x) \/ Candidates(x) \/ Networked(x) \/ Firmware(x) \/ Cryptodev(x)
<1>1. Packed = Expected
  BY DEF Accepts
<1>2. CASE kind \in {"vbntk", "core"}
  BY <1>1, <1>2 DEF Published, Installed, CryptodevKinds
<1>3. CASE kind = "profile38"
  BY <1>1, <1>3 DEF Published, Candidates, Networked, CryptodevKinds
<1>4. CASE kind = "firmware"
  BY <1>1, <1>4 DEF Published, Firmware, CryptodevKinds
<1>5. CASE kind \in CryptodevKinds
  BY <1>1, <1>5 DEF Published, Cryptodev, CryptodevKinds
<1> QED
  BY <1>2, <1>3, <1>4, <1>5 DEF Types, Kinds

LEMMA LabelTrue ==
  ASSUME IndInv, Accepts, NEW x \in Published, x.status = "passed",
         kind = "core" => pin.mods[x.mod] = report.rows[x.mod].build
  PROVE  \E k \in Kernels : /\ <<x.mod, x.build, k>> \in tested
                            /\ kind = "profile38" /\ x.mod \in Network => k = x.kernel
<1>0. /\ Types /\ RowsHappened /\ EarlyHappened /\ report.kernel \in Kernels /\ Packed = Expected
      /\ Network \subseteq Expected
  BY KernelEvidenceAssumption DEF IndInv, Types, Accepts
<1>1. CASE Installed(x)
  <2>1. PICK m \in Expected : x = Package(m, ipk[m], TRUE, report.rows[m].status)
    BY <1>1 DEF Installed
  <2>2. x.mod = m /\ x.build = ipk[m].build /\ report.rows[m].status = "passed"
    BY <2>1 DEF Package
  <2>3. report.rows[m].build = ipk[m].build
    BY <1>0, <1>1, <2>2 DEF Installed, Accepts, AcceptsVbntk, AcceptsCore, Registered
  <2> QED
    BY <1>0, <1>1, <2>2, <2>3 DEF RowsHappened, Covered, Installed
<1>2. CASE Candidates(x)
  <2>1. PICK m \in Expected : x = Package(m, ipk[m], FALSE, Recorded(m))
    BY <1>2 DEF Candidates
  <2>2. x.mod = m /\ x.build = ipk[m].build /\ x.kernel = ipk[m].kernel /\ Recorded(m) = "passed"
    BY <2>1 DEF Package
  <2>3. CASE m \in Network
    <3>1. report.kernel = x.kernel /\ NetworkReady
      BY <1>0, <1>2, <2>2 DEF Candidates, Accepts, AcceptsCandidates, AcceptsNetwork, Candidate
    <3>2. report.rows[m].build = ipk[m].build
      BY <2>3, <3>1 DEF NetworkReady
    <3>3. report.rows[m].status = "passed" /\ m \in Covered
      BY <1>2, <2>2, <2>3, <3>2 DEF Recorded, Candidates, Covered
    <3> QED
      BY <1>0, <2>2, <3>1, <3>2, <3>3 DEF RowsHappened
  <2>4. CASE m \notin Network
    <3>1. early[m].build = ipk[m].build /\ early[m].status = "passed"
      BY <2>2, <2>4 DEF Recorded
    <3> QED
      BY <1>0, <2>2, <2>4, <3>1 DEF EarlyHappened
  <2> QED
    BY <2>3, <2>4
<1>3. CASE Networked(x)
  <2>1. PICK m \in Network : x = Package(m, net[m], TRUE, net[m].label)
    BY <1>3 DEF Networked
  <2>2. x.mod = m /\ x.build = net[m].build /\ x.kernel = net[m].kernel /\ net[m].label = "passed"
    BY <2>1 DEF Package
  <2>3. NetworkReady /\ net[m] = Ipk(ipk[m].build, kernel, report.rows[m].status)
    BY <1>3, KernelEvidenceAssumption DEF Networked, Accepts, AcceptsNetwork, NetworkOf, Expected
  <2>4. /\ net[m].build = ipk[m].build /\ net[m].kernel = kernel
        /\ net[m].label = report.rows[m].status
    BY <2>3 DEF Ipk
  <2>5. report.kernel = kernel /\ ipk[m].build = report.rows[m].build
    BY <2>3 DEF NetworkReady
  <2> QED
    BY <1>0, <1>3, <2>2, <2>4, <2>5 DEF RowsHappened, Covered, Networked
<1>4. CASE Firmware(x)
  BY <1>4 DEF Firmware, Package
<1>5. CASE Cryptodev(x)
  <2>1. PICK m \in Expected : x = Package(m, ipk[m], FALSE, ipk[m].label)
    BY <1>5 DEF Cryptodev
  <2>2. x.mod = m /\ x.build = ipk[m].build /\ ipk[m].label = "passed"
    BY <2>1 DEF Package
  <2> QED
    BY <1>5, <2>2 DEF IndInv, CryptodevLabels, Cryptodev, CryptodevKinds
<1> QED
  BY <1>0, <1>1, <1>2, <1>3, <1>4, <1>5, PublishedWays

LEMMA Quarantined ==
  ASSUME Types, Accepts, NEW x \in Published
  PROVE  /\ x.mod # Withheld
         /\ kind = "vbntk" \/ (kind = "profile38" /\ x.mod \in Network)
              => report.rows[x.mod] # Row(x.build, "blocked")
         /\ kind = "profile38" /\ x.mod \notin Network => early[x.mod] # Row(x.build, "blocked")
<1>0. /\ Packed = Expected /\ Network \subseteq Expected
      /\ \A b : Row(b, "blocked").status = "blocked" /\ Row(b, "blocked").build = b
  BY KernelEvidenceAssumption DEF Accepts, Row
<1>1. CASE Installed(x)
  <2>1. PICK m \in Expected : x.mod = m
    BY <1>1 DEF Installed, Package
  <2>2. kind \in {"vbntk", "core"} /\ m # Withheld
    BY <1>1 DEF Installed, Expected
  <2>3. kind = "vbntk" => report.rows[m].status # "blocked"
    BY <1>0 DEF Accepts, AcceptsVbntk, Registered
  <2> QED
    BY <1>0, <2>1, <2>2, <2>3
<1>2. CASE Candidates(x)
  <2>1. PICK m \in Expected : x.mod = m /\ x.build = ipk[m].build
    BY <1>2 DEF Candidates, Package
  <2>2. kind = "profile38" /\ m # Withheld /\ Recorded(m) # "blocked"
    BY <1>0, <1>2 DEF Expected, Candidates, Accepts, AcceptsCandidates
  <2>3. m \in Network => report.rows[m] # Row(ipk[m].build, "blocked")
    BY <1>0, <2>2 DEF Recorded
  <2>4. m \notin Network => early[m] # Row(ipk[m].build, "blocked")
    BY <1>0, <2>2 DEF Recorded
  <2> QED
    BY <2>1, <2>2, <2>3, <2>4
<1>3. CASE Networked(x)
  <2>1. PICK m \in Network : x.mod = m
    BY <1>3 DEF Networked, Package
  <2>2. report.rows[m].status # "blocked"
    BY <1>3 DEF Networked, Accepts, AcceptsNetwork, NetworkReady
  <2> QED
    BY <1>0, <1>3, <2>1, <2>2 DEF Expected, Networked
<1>4. CASE Firmware(x)
  <2>1. PICK m \in Expected : x.mod = m
    BY <1>4 DEF Firmware, Package
  <2> QED
    BY <1>4, <2>1 DEF Expected, Firmware
<1>5. CASE Cryptodev(x)
  <2>1. PICK m \in Expected : x.mod = m
    BY <1>5 DEF Cryptodev, Package
  <2> QED
    BY <1>5, <2>1 DEF Expected, Cryptodev, CryptodevKinds
<1> QED
  BY <1>1, <1>2, <1>3, <1>4, <1>5, PublishedWays

LEMMA AbiNow ==
  ASSUME Types, Accepts, NEW x \in Published
  PROVE  /\ kind \notin CryptodevKinds => x.kernel = kernel
         /\ kind = "profile38" /\ x.boot
              => \E y \in Published : ~y.boot /\ y.mod = x.mod /\ y.build = x.build
<1>0. Packed = Expected /\ Network \subseteq Expected
  BY KernelEvidenceAssumption DEF Accepts
<1>1. CASE Installed(x)
  <2>1. PICK m \in Expected : x.kernel = ipk[m].kernel
    BY <1>1 DEF Installed, Package
  <2> QED
    BY <1>0, <1>1, <2>1 DEF Installed, Accepts, AcceptsVbntk, AcceptsCore
<1>2. CASE Candidates(x)
  <2>1. PICK m \in Expected : x = Package(m, ipk[m], FALSE, Recorded(m))
    BY <1>2 DEF Candidates
  <2>2. x.kernel = ipk[m].kernel /\ ~x.boot
    BY <2>1 DEF Package
  <2> QED
    BY <1>0, <1>2, <2>2 DEF Candidates, Accepts, AcceptsCandidates, Candidate
<1>3. CASE Networked(x)
  <2>1. PICK m \in Network : x = Package(m, net[m], TRUE, net[m].label)
    BY <1>3 DEF Networked
  <2>2. x.mod = m /\ x.build = net[m].build /\ x.kernel = net[m].kernel
    BY <2>1 DEF Package
  <2>3. net[m] = Ipk(ipk[m].build, kernel, report.rows[m].status)
    BY <1>3, KernelEvidenceAssumption DEF Networked, Accepts, AcceptsNetwork, NetworkOf, Expected
  <2>4. net[m].build = ipk[m].build /\ net[m].kernel = kernel
    BY <2>3 DEF Ipk
  <2>5. PICK y : y = Package(m, ipk[m], FALSE, Recorded(m))
    OBVIOUS
  <2>6. y \in Published
    BY <1>0, <1>3, <2>5 DEF Published, Networked, CryptodevKinds
  <2>7. ~y.boot /\ y.mod = m /\ y.build = ipk[m].build
    BY <2>5 DEF Package
  <2> QED
    BY <2>2, <2>4, <2>6, <2>7
<1>4. CASE Firmware(x)
  <2>1. PICK m \in Expected : x.kernel = ipk[m].kernel
    BY <1>4 DEF Firmware, Package
  <2> QED
    BY <1>0, <1>4, <2>1 DEF Firmware, Accepts, AcceptsFirmware
<1>5. CASE Cryptodev(x)
  BY <1>5 DEF Cryptodev, CryptodevKinds
<1> QED
  BY <1>1, <1>2, <1>3, <1>4, <1>5, PublishedWays

(* The packages that are audited are the ones that are published. *)
LEMMA PayloadsPublished ==
  ASSUME Accepts, kind \in {"vbntk", "firmware"} \cup CryptodevKinds
  PROVE  /\ \A x \in Published : <<x.mod, x.build>> \in Payloads
         /\ \A p \in Payloads : \E y \in Published : <<y.mod, y.build>> = p
<1>0. Packed = Expected
  BY DEF Accepts
<1> DEFINE E(m) == IF kind = "vbntk" THEN Package(m, ipk[m], TRUE, report.rows[m].status)
                   ELSE IF kind = "firmware" THEN Package(m, ipk[m], FALSE, "not_tested")
                   ELSE Package(m, ipk[m], FALSE, ipk[m].label)
<1>1. Published = {E(m) : m \in Packed}
  BY DEF Published, CryptodevKinds
<1>2. \A m : E(m).mod = m /\ E(m).build = ipk[m].build
  BY DEF Package
<1> HIDE DEF E
<1>3. Payloads = {<<m, ipk[m].build>> : m \in Packed}
  BY DEF Payloads
<1> QED
  BY <1>1, <1>2, <1>3

LEMMA SymbolsFound ==
  ASSUME IndInv, Accepts, ExportsTrue, kind \in {"vbntk", "firmware"} \cup CryptodevKinds,
         NEW x \in Published, NEW i \in Inputs
  PROVE  Needs[<<x.mod, x.build>>] \subseteq
           image[i].builtin \cup image[i].modular
             \cup UNION {Gives[<<y.mod, y.build>>] : y \in IF kind \in CryptodevKinds THEN {x} ELSE Published}
<1>0. i \in StockInputs
  BY KernelEvidenceAssumption DEF Inputs, OneInput
<1>1. <<x.mod, x.build>> \in Payloads
  BY PayloadsPublished
<1> DEFINE P == IF kind \in CryptodevKinds THEN {<<x.mod, x.build>>} ELSE Payloads
<1>2. Unresolved(P, stock[i]) = {} /\ (stock[i].sealed \/ kind = "cryptodev38")
  <2>1. CASE kind = "vbntk"
    BY <2>1 DEF Accepts, AcceptsVbntk, AuditVbntk, Inputs, CryptodevKinds
  <2>2. CASE kind = "firmware"
    BY <1>0, <2>2 DEF Accepts, AcceptsFirmware, Audit, Genuine, CryptodevKinds
  <2>3. CASE kind = "cryptodev"
    BY <1>0, <1>1, <2>3 DEF Accepts, AcceptsCryptodev, AuditCryptodev, Genuine, CryptodevKinds
  <2>4. CASE kind = "cryptodev38"
    BY <1>1, <2>4 DEF Accepts, AcceptsCryptodev, AuditCryptodev, Inputs, CryptodevKinds
  <2> QED
    BY <2>1, <2>2, <2>3, <2>4 DEF CryptodevKinds
<1>3. stock[i].file = image[i]
  BY <1>0, <1>2 DEF IndInv, ListingsTrue, ExportsTrue, Inputs
<1>4. <<x.mod, x.build>> \in P
  BY <1>1
<1>5. \A p \in P : \E y \in IF kind \in CryptodevKinds THEN {x} ELSE Published : <<y.mod, y.build>> = p
  BY PayloadsPublished
<1> HIDE DEF P
<1>6. Needs[<<x.mod, x.build>>] \subseteq
        image[i].builtin \cup image[i].modular \cup UNION {Gives[p] : p \in P}
  BY <1>2, <1>3, <1>4 DEF Unresolved
<1>7. UNION {Gives[p] : p \in P} \subseteq
        UNION {Gives[<<y.mod, y.build>>] : y \in IF kind \in CryptodevKinds THEN {x} ELSE Published}
  BY <1>5
<1> QED
  BY <1>6, <1>7
-----------------------------------------------------------------------------
(* The theorems. *)

(* Every variable keeps its type, and a network package never carries the  *)
(* label of a test that blocked it.                                        *)
THEOREM TypeCorrect == Spec => []TypeOK
<1>1. IndInv => TypeOK
  BY DEF IndInv, Types, NetworkTested, TypeOK, IpkType, RowType
<1> QED
  BY Inductive, <1>1, PTL

(* X-Runtime-Test-Status: what is published as tested did pass, whatever   *)
(* was rebuilt, repackaged, edited and retested in between.                *)
THEOREM LabelsAreTrue == Spec => []LabelsExact
<1>1. IndInv => LabelsExact
  BY LabelTrue DEF LabelsExact
<1> QED
  BY Inductive, <1>1, PTL

(* Neither xt_nat nor a payload whose record says blocked is published.    *)
THEOREM QuarantineKept == Spec => []QuarantineHolds
<1>1. IndInv => QuarantineHolds
  BY Quarantined DEF QuarantineHolds, IndInv
<1> QED
  BY Inductive, <1>1, PTL

(* Every symbol a published module needs is in the firmware as it is, or   *)
(* in a module published with it: for pinned listings without condition,   *)
(* for the unpinned list of exports of the 4.1.38 cryptodev profiles if it *)
(* is the firmware's.                                                      *)
THEOREM SymbolsResolve == Spec => []ImportsResolve
<1>1. IndInv => ImportsResolve
  BY SymbolsFound DEF ImportsResolve
<1> QED
  BY Inductive, <1>1, PTL

(* A package depends on the kernel the profile names now, and a network    *)
(* package is the payload of a candidate beside it.                        *)
THEOREM AbiCurrent == Spec => []AbiExact
<1>1. IndInv => AbiExact
  BY AbiNow DEF AbiExact, IndInv
<1> QED
  BY Inductive, <1>1, PTL
=============================================================================
