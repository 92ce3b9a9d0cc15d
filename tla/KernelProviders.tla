--------------------------- MODULE KernelProviders ---------------------------
(***************************************************************************)
(* scripts/kernel_opkg_providers.py, apply(): which capabilities (generic  *)
(* kmod-* names) the packages of one kernel profile can offer, and the     *)
(* packages emitted for them.  Every profile is planned on its own.        *)
(*                                                                         *)
(* A capability is a group of modules with dependencies on other groups.   *)
(* It is offered by a module package directly, by an alias package with    *)
(* its name, or, when the firmware already has a package of that name, by  *)
(* a -compat package.  All dependencies are on exact versions.             *)
(***************************************************************************)
EXTENDS Naturals, FiniteSets

CONSTANTS Groups, Modules,
          Inputs      \* what apply() may be given for a profile

InputType ==
  [mods    : [Groups -> SUBSET Modules],
   depends : [Groups -> SUBSET Groups],
   unfit   : SUBSET Groups,     \* extra files or dependencies that are no kmods
   stock   : SUBSET Groups,     \* packages in the firmware
   rows    : SUBSET (Modules \X {1, 2} \X BOOLEAN),  \* module, IPK, installable
   builtin : SUBSET Modules,    \* compiled into the kernel
   needs   : [Modules -> SUBSET Modules]]            \* modinfo depends

ASSUME InputsAssumption == Inputs \subseteq InputType
ASSUME FiniteAssumption == IsFiniteSet(Groups) /\ IsFiniteSet(Modules)

VARIABLES in, pc, selected, skipped, emitted
vars == <<in, pc, selected, skipped, emitted>>

Init ==
  /\ in \in Inputs
  /\ pc = "inventory"
  /\ selected = {} /\ skipped = {} /\ emitted = {}

-----------------------------------------------------------------------------
(* The inventory: IPKs with one module below lib/modules, not staged.      *)
Installable == {r \in in.rows : r[3]}
available == {r[1] : r \in Installable}
Ambiguous == \E r, q \in Installable : r # q /\ r[1] = q[1]

Inventory ==
  /\ pc = "inventory"
  /\ pc' = IF Ambiguous THEN "failed" ELSE "select"
  /\ UNCHANGED <<in, selected, skipped, emitted>>

(* Groups whose modules are all there, in a package or in the kernel.      *)
Selectable(g) ==
  /\ in.mods[g] # {} /\ g \notin in.unfit
  /\ in.mods[g] \subseteq available \cup in.builtin

Select ==
  /\ pc = "select"
  /\ selected' = {g \in Groups : Selectable(g)}
  /\ skipped' = Groups \ selected'
  /\ pc' = "drop"
  /\ UNCHANGED <<in, emitted>>

(* while changed: a group is dropped when a group it depends on is neither *)
(* selected nor in the firmware, in the order the dictionary has them.     *)
UnavailableNoStock(g) == in.depends[g] \ selected          \* mutant: firmware forgotten
Unavailable(g) == in.depends[g] \ (selected \cup in.stock)

RemainingAll(g) == selected                                \* mutant: del forgotten
Remaining(g) == selected \ {g}

Drop(g) ==
  /\ pc = "drop"
  /\ g \in selected
  /\ Unavailable(g) # {}
  /\ selected' = Remaining(g)
  /\ skipped' = skipped \cup {g}
  /\ UNCHANGED <<in, pc, emitted>>

Settled == \A g \in selected : Unavailable(g) = {}

Settle ==
  /\ pc = "drop"
  /\ Settled
  /\ pc' = "modules"
  /\ UNCHANGED <<in, selected, skipped, emitted>>

-----------------------------------------------------------------------------
(* Packages: a module's own, an alias, a -compat, the firmware's, and the  *)
(* IPKs that are only staged.                                              *)
ModulePkg(m) == <<"module", m>>
Alias(g) == <<"alias", g>>
Compat(g) == <<"compat", g>>
Stock(g) == <<"stock", g>>
Staged(r) == <<"staged", r[1], r[2], r[3]>>

(* direct: the whole capability is one module, and that has a package. *)
DirectFirst(g) == in.mods[g] \cap available # {}           \* mutant: groups of several
Direct(g) == Cardinality(in.mods[g]) = 1 /\ in.mods[g] \subseteq available
ModuleOf(g) == CHOOSE m \in in.mods[g] \cap available : TRUE

NameOf(g) ==
  IF Direct(g) THEN ModulePkg(ModuleOf(g))
  ELSE IF g \in in.stock THEN Compat(g) ELSE Alias(g)

(* versions.get(name, ...): the upgraded revision of a module package;     *)
(* otherwise the policy for a -compat and the policy plus one for an alias.*)
Upgraded == "upgraded"
Policy == "policy"
PolicyPlus == "policy+1"
Firmware == "firmware"
VersionAtAlias(g) == IF Direct(g) THEN Upgraded ELSE PolicyPlus     \* mutant
VersionAt(g) ==
  IF Direct(g) THEN Upgraded ELSE IF g \in in.stock THEN Policy ELSE PolicyPlus

Dep(i, v) == [id |-> i, ver |-> v]
On(g) == IF g \in selected THEN Dep(NameOf(g), VersionAt(g)) ELSE Dep(Stock(g), Firmware)

(* What a module needs at run time and is not in the kernel: its package,  *)
(* or the first firmware package that has it.                              *)
StockOwners(m) == {g \in in.stock : m \in in.mods[g]}
FirstOwner(m) == CHOOSE g \in StockOwners(m) : TRUE
Loaded(m) == in.needs[m] \ in.builtin
Runtime(m) ==
  {IF n \in available THEN Dep(ModulePkg(n), Upgraded)
   ELSE Dep(Stock(FirstOwner(n)), Firmware) : n \in Loaded(m)}

Offered(m) == {g \in selected : Direct(g) /\ ModuleOf(g) = m}

ModuleIpk(m) ==
  [id |-> ModulePkg(m), ver |-> Upgraded, provides |-> Offered(m),
   depends |-> Runtime(m) \cup
     {d \in {On(h) : h \in UNION {in.depends[g] : g \in Offered(m)}} : d.id # ModulePkg(m)}]

Missing == \E m \in available : \E n \in Loaded(m) : n \notin available /\ StockOwners(n) = {}

EmitModules ==
  /\ pc = "modules"
  /\ IF Missing THEN pc' = "failed" /\ UNCHANGED emitted
     ELSE pc' = "metas" /\ emitted' = {ModuleIpk(m) : m \in available}
  /\ UNCHANGED <<in, selected, skipped>>

(* Capability packages.  A direct provider of a firmware name needs none.  *)
MetaIpk(g) ==
  [id |-> IF g \in in.stock THEN NameOf(g) ELSE Alias(g),
   ver |-> IF g \in in.stock THEN Policy ELSE PolicyPlus,
   provides |-> {g},
   depends |-> {Dep(ModulePkg(m), Upgraded) : m \in in.mods[g] \cap available}
               \cup {On(h) : h \in in.depends[g]}]

EmitMetas ==
  /\ pc = "metas"
  /\ emitted' = emitted \cup {MetaIpk(g) : g \in {x \in selected : ~(Direct(x) /\ x \in in.stock)}}
  /\ pc' = "rest"
  /\ UNCHANGED <<in, selected, skipped>>

(* The remaining, staged IPKs are normalised and offer nothing. *)
EmitRest ==
  /\ pc = "rest"
  /\ emitted' = emitted \cup
       {[id |-> Staged(r), ver |-> Upgraded, provides |-> {}, depends |-> {}] :
          r \in in.rows \ Installable}
  /\ pc' = "done"
  /\ UNCHANGED <<in, selected, skipped>>

-----------------------------------------------------------------------------
Next == \/ Inventory
        \/ Select
        \/ \E g \in Groups : Drop(g)
        \/ Settle
        \/ EmitModules
        \/ EmitMetas
        \/ EmitRest

Spec == Init /\ [][Next]_vars

-----------------------------------------------------------------------------
Planned == pc \in {"modules", "metas", "rest", "done"}

TypeOK ==
  /\ in \in InputType
  /\ pc \in {"inventory", "select", "drop", "failed"} \/ Planned
  /\ selected \subseteq Groups /\ skipped \subseteq Groups
  /\ pc = "drop" \/ Planned => selected \cup skipped = Groups
  /\ selected \cap skipped = {}

(* A set of capabilities that a profile could offer: complete in itself,   *)
(* given the firmware.                                                     *)
Closed(X) == \A g \in X : Selectable(g) /\ in.depends[g] \subseteq X \cup in.stock

(* The plan is the largest set of capabilities that can be offered         *)
(* together, whatever the order in which groups were dropped: cycles of    *)
(* groups stay when they are complete and go as a whole when they are not. *)
LargestPlan ==
  Planned => Closed(selected) /\ \A X \in SUBSET Groups : Closed(X) => X \subseteq selected

(* No published package has a dependency OPKG cannot satisfy: each names a *)
(* package emitted with exactly that version, or one of the firmware.      *)
Resolvable ==
  pc = "done" =>
    \A e \in emitted : \A d \in e.depends :
      \/ \E f \in emitted : f.id = d.id /\ f.ver = d.ver
      \/ \E g \in in.stock : d = Dep(Stock(g), Firmware)

(* What installing e brings along, in n steps. *)
With(I) == I \cup UNION {{d.id : d \in f.depends} : f \in {x \in emitted : x.id \in I}}
Brought(e, n) ==
  LET b[k \in 0 .. n] == IF k = 0 THEN {e.id} ELSE UNION {With(I) : I \in {b[k - 1]}}
  IN  b[n]

ModulesIn(I) == {m \in Modules : ModulePkg(m) \in I}
                  \cup UNION {in.mods[g] : g \in {x \in in.stock : Stock(x) \in I}}

(* Whoever installs the provider of a capability gets every module of the  *)
(* group and every module those need, or has them in the kernel; staged    *)
(* modules never count.                                                    *)
CapabilityComplete ==
  pc = "done" =>
    \A e \in emitted : \A g \in e.provides :
      LET I == Brought(e, Cardinality(emitted)) IN
      /\ in.mods[g] \subseteq ModulesIn(I) \cup in.builtin
      /\ \A m \in in.mods[g] \cap available : Loaded(m) \subseteq ModulesIn(I)
=============================================================================
