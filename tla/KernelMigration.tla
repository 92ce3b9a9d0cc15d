--------------------------- MODULE KernelMigration ---------------------------
(***************************************************************************)
(* scripts/migrate-kernel-package.sh on a router, with the packages that   *)
(* KernelProviders.tla planned for its profile.  Old generic packages, not *)
(* bound to the kernel, own module files; the script makes an exact-ABI    *)
(* module package their owner and then installs the aliases.               *)
(*                                                                         *)
(* opkg is modelled from how the scripts use it: it installs a package     *)
(* with what it depends on, runs each preinst (guard() in                  *)
(* kernel_opkg_providers.py), refuses to take a file of another package    *)
(* unless --force-overwrite, and writes its status file when it ends.      *)
(* Power can fail at any point; the files stay, the status is the old one. *)
(***************************************************************************)
EXTENDS KernelProviders

CONSTANTS RouterInputs,  \* bound: the profiles for which a router is followed
          Legacies,      \* sets of groups installed from the old generic feed
          MaxCrashes, MaxLoads

ASSUME RoutersAssumption ==
  /\ RouterInputs \subseteq Inputs /\ Legacies \subseteq SUBSET Groups
  /\ MaxCrashes \in Nat /\ MaxLoads \in Nat

VARIABLES installed,  \* opkg's status file: package ids
          owner,      \* owner[m]: the package the file of module m belongs to
          disk,       \* disk[m]: "none", "old" (firmware, generic) or "new"
          active,     \* modules in /sys/module
          mig,        \* the script: step, target, aliases left, opkg's queue
          migrated,   \* targets of successful migrations
          budget

rvars == <<installed, owner, disk, active, mig, migrated, budget>>
allVars == <<vars, rvars>>

Legacy(g) == <<"legacy", g>>
Nobody == <<"nobody", "">>
Kernel == <<"kernel", "exact">>     \* the kernel package of the profile's ABI

AtRest == [step |-> "idle", target |-> "", left |-> {}, queue |-> {},
           unpacked |-> {}]

RInit ==
  /\ Init
  /\ installed = {} /\ active = {} /\ migrated = {}
  /\ owner = [m \in Modules |-> Nobody] /\ disk = [m \in Modules |-> "none"]
  /\ mig = [AtRest EXCEPT !.step = "off"]
  /\ budget = [crashes |-> MaxCrashes, loads |-> MaxLoads]

Spend(what) == budget[what] > 0 /\ budget' = [budget EXCEPT ![what] = @ - 1]

(* A router: the firmware's packages, some generic ones, any of their      *)
(* modules loaded, and the kernel of this profile or another.              *)
Boot(legacy, loaded, exact) ==
  LET held == {Stock(g) : g \in in.stock} \cup {Legacy(g) : g \in legacy}
                \cup (IF exact THEN {Kernel} ELSE {})
      in_(m) == {Stock(g) : g \in StockOwners(m)}
                  \cup {Legacy(g) : g \in {h \in legacy : m \in in.mods[h]}}
  IN
  /\ pc = "done" /\ mig.step = "off" /\ in \in RouterInputs
  /\ legacy \cap in.stock = {}
  /\ \A m \in loaded : in_(m) # {}
  /\ installed' = held
  /\ owner' = [m \in Modules |-> IF in_(m) = {} THEN Nobody
                                  ELSE CHOOSE i \in in_(m) : TRUE]
  /\ disk' = [m \in Modules |-> IF in_(m) = {} THEN "none" ELSE "old"]
  /\ active' = loaded
  /\ mig' = AtRest
  /\ UNCHANGED <<vars, migrated, budget>>

-----------------------------------------------------------------------------
Package(i) == CHOOSE e \in emitted : e.id = i
DependsOf(i) == IF i \in {e.id : e \in emitted} THEN {d.id : d \in Package(i).depends}
                                                ELSE {}

NeededAlone(i) == {i}                    \* mutant: --nodeps

(* opkg install i: what it has to unpack. *)
Needed(i) == {i} \cup (Brought(Package(i), Cardinality(emitted)) \ installed)
ModuleOfPkg(i) == {m \in Modules : i = ModulePkg(m)}

(* migrate-kernel-package.sh up to line 69.  Without --apply, or when a    *)
(* check fails, it ends and has changed nothing.                           *)
Migrate(m) ==
  /\ mig.step = "idle" /\ m \notin migrated
  /\ m \in available                     \* normalised, below /lib/modules
  /\ Kernel \in installed /\ m \notin active
  /\ mig' = [step |-> "install", target |-> m, left |-> {},
             queue |-> Needed(ModulePkg(m)), unpacked |-> {}]
  /\ UNCHANGED <<vars, installed, owner, disk, active, migrated, budget>>

GuardKernelOnly(i) == Kernel \in installed     \* mutant: modules not looked at

(* guard(): this kernel and the firmware packages it relies on are there,  *)
(* and no module it replaces is active in a package not bound to the ABI.  *)
Guard(i) ==
  /\ Kernel \in installed
  /\ \A g \in in.stock : Stock(g) \in DependsOf(i) => Stock(g) \in installed
  /\ \A m \in ModuleOfPkg(i) : \A g \in Groups :
       m \in in.mods[g] /\ Legacy(g) \in installed => m \notin active

MayOverwriteNever == FALSE               \* mutant: --force-overwrite forgotten
MayOverwrite == mig.step = "install"     \* the first opkg command only

Clash(i) == \E m \in ModuleOfPkg(i) : owner[m] \notin {Nobody, i} /\ ~MayOverwrite

(* One package: preinst, then its file.  The target comes last; cycles may *)
(* be entered anywhere.                                                    *)
Ready(i) == /\ mig.step \in {"install", "alias"} /\ i \in mig.queue
            /\ mig.step = "install" => i # ModulePkg(mig.target) \/ mig.queue = {i}

Unpack(i) ==
  /\ Ready(i) /\ Guard(i) /\ ~Clash(i)
  /\ disk' = [m \in Modules |-> IF m \in ModuleOfPkg(i) THEN "new" ELSE disk[m]]
  /\ mig' = [mig EXCEPT !.queue = @ \ {i}, !.unpacked = @ \cup {i}]
  /\ UNCHANGED <<vars, installed, owner, active, migrated, budget>>

(* What opkg records.  An alias takes the name of a generic package, whose *)
(* files go with it unless they have another owner by now.                 *)
ReplacedBy(I) == {Legacy(g) : g \in {h \in Groups : Alias(h) \in I}}
NewOwner(I) == [m \in Modules |-> IF ModulePkg(m) \in I THEN ModulePkg(m)
                                  ELSE IF owner[m] \in ReplacedBy(I) THEN Nobody
                                  ELSE owner[m]]
Record(I) ==
  /\ installed' = (installed \cup I) \ ReplacedBy(I)
  /\ owner' = NewOwner(I)
  /\ disk' = [m \in Modules |->
                IF NewOwner(I)[m] = Nobody /\ owner[m] # Nobody THEN "none" ELSE disk[m]]

(* X-Canonical-Provider-Packages *)
CanonicalNone(m) == {}                   \* mutant: the field is left empty
Canonical(m) == {g \in Offered(m) : g \notin in.stock}

OpkgEnds ==
  /\ mig.step \in {"install", "alias"} /\ mig.queue = {}
  /\ Record(mig.unpacked)
  /\ mig' = [mig EXCEPT !.step = "aliases", !.unpacked = {},
               !.left = IF mig.step = "install" THEN Canonical(mig.target) ELSE @]
  /\ UNCHANGED <<vars, active, migrated, budget>>

(* opkg or a preinst fails: `set -e' ends the script, and what opkg has    *)
(* finished is recorded.                                                   *)
OpkgFails ==
  /\ \E i \in mig.queue : Ready(i) /\ (~Guard(i) \/ Clash(i))
  /\ IF \A i \in mig.unpacked : DependsOf(i) \subseteq installed \cup mig.unpacked
       THEN Record(mig.unpacked) ELSE UNCHANGED <<installed, owner, disk>>
  /\ mig' = AtRest
  /\ UNCHANGED <<vars, active, migrated, budget>>

InstallAlias(g) ==
  /\ mig.step = "aliases" /\ g \in mig.left
  /\ mig' = [mig EXCEPT !.step = "alias", !.left = @ \ {g}, !.queue = Needed(Alias(g))]
  /\ UNCHANGED <<vars, installed, owner, disk, active, migrated, budget>>

(* The checksum of the installed file. *)
Finish ==
  /\ mig.step = "aliases" /\ mig.left = {}
  /\ migrated' = IF disk[mig.target] = "new" THEN migrated \cup {mig.target}
                                             ELSE migrated
  /\ mig' = AtRest
  /\ UNCHANGED <<vars, installed, owner, disk, active, budget>>

(* Power fails and the router starts again, with any of its modules loaded.*)
Crash(loaded) ==
  /\ mig.step \notin {"off", "idle"}
  /\ Spend("crashes")
  /\ \A m \in loaded : disk[m] # "none"
  /\ active' = loaded
  /\ mig' = AtRest
  /\ UNCHANGED <<vars, installed, owner, disk, migrated>>

(* The maintenance window: nothing is loaded while the script runs. *)
Load(m) ==
  /\ mig.step = "idle" /\ disk[m] # "none" /\ m \notin active
  /\ Spend("loads")
  /\ active' = active \cup {m}
  /\ UNCHANGED <<vars, installed, owner, disk, mig, migrated>>

Unload(m) ==
  /\ m \in active
  /\ active' = active \ {m}
  /\ UNCHANGED <<vars, installed, owner, disk, mig, migrated, budget>>

-----------------------------------------------------------------------------
Plan == Next /\ UNCHANGED rvars

ScriptStep == \/ \E i \in mig.queue : Unpack(i)
              \/ OpkgEnds \/ OpkgFails \/ Finish
              \/ \E g \in mig.left : InstallAlias(g)
Attempt == \E m \in Modules : Migrate(m)

RNext == \/ Plan \/ ScriptStep \/ Attempt
         \/ \E l \in Legacies, a \in SUBSET Modules, k \in BOOLEAN : Boot(l, a, k)
         \/ \E a \in SUBSET Modules : Crash(a)
         \/ \E m \in Modules : Load(m) \/ Unload(m)

RSpec == RInit /\ [][RNext]_allVars

(* The planner and the script run to their ends; the administrator unloads *)
(* what is loaded and runs the script again after a failure.               *)
RLiveSpec == /\ RSpec /\ WF_allVars(Plan) /\ WF_allVars(ScriptStep)
             /\ WF_allVars(Attempt)
             /\ \A m \in Modules : WF_allVars(Unload(m))

-----------------------------------------------------------------------------
(* "Verified module file and OPKG ownership updated": a migrated module    *)
(* has its new file, under its exact-ABI package, and every canonical name *)
(* it offers is an alias of this kernel and no longer the generic package. *)
MigrationComplete ==
  \A m \in migrated :
    /\ disk[m] = "new" /\ owner[m] = ModulePkg(m) /\ ModulePkg(m) \in installed
    /\ \A g \in Offered(m) \ in.stock :
         Alias(g) \in installed /\ Legacy(g) \notin installed

(* Whatever fails or loses power between the two opkg commands, the status *)
(* file never has a package without what it depends on, and the upgrade of *)
(* a generic package to its alias deletes no file of a module package.     *)
StatusConsistent ==
  \A i \in installed :
    DependsOf(i) \subseteq installed /\ \A m \in ModuleOfPkg(i) : disk[m] = "new"

(* "Legacy ... has active module ...; quiesce and validate it": the file   *)
(* of an active module of a generic package is never replaced, neither the *)
(* target's nor that of a module that opkg brings along.                   *)
ActiveKept ==
  [][\A m \in active, g \in Groups :
       owner[m] = Legacy(g) /\ mig.step # "off" => disk'[m] = disk[m]]_allVars

(* A migration that was begun is completed by running the script again,    *)
(* wherever power failed: no state on the way is one it cannot leave.      *)
MigrationRepaired ==
  \A m \in Modules : (mig.target = m) ~> (m \in migrated)
=============================================================================
