----------------------- MODULE KernelProvidersProofs -----------------------
(***************************************************************************)
(* Theorems about the planning of kernel capabilities and about a router   *)
(* that migrates to the planned packages, for every finite set of groups   *)
(* and modules, every input of apply(), any generic packages and any       *)
(* number of power failures.                                               *)
(***************************************************************************)
EXTENDS KernelMigration, FiniteSetTheorems, NaturalsInduction, WellFoundedInduction, TLAPS

(* What the loop over `changed' keeps: selected has only groups whose      *)
(* modules are there, and has lost no group of a set that is closed.       *)
Candidate(S) == \A g \in S : Selectable(g)
NothingLost == \A X \in SUBSET Groups : Closed(X) => X \subseteq selected

PlanInv ==
  /\ TypeOK
  /\ pc = "drop" \/ Planned => Candidate(selected) /\ NothingLost
  /\ Planned => Settled

(* What has been emitted before each phase. *)
ModuleIpks == {ModuleIpk(m) : m \in available}
MetaIpks == {MetaIpk(g) : g \in {x \in selected : ~(Direct(x) /\ x \in in.stock)}}

IsStaged(e) == (\E r \in in.rows : e.id = Staged(r)) /\ e.provides = {} /\ e.depends = {}

Finite == IsFiniteSet(emitted)

EmitInv ==
  /\ pc \in {"metas", "rest", "done"} => ~Missing
  /\ pc = "metas" => emitted = ModuleIpks
  /\ pc = "rest" => emitted = ModuleIpks \cup MetaIpks
  /\ pc = "done" =>
       /\ ModuleIpks \cup MetaIpks \subseteq emitted
       /\ \A e \in emitted : e \in ModuleIpks \cup MetaIpks \/ IsStaged(e)

-----------------------------------------------------------------------------
LEMMA PlanInitially == Init => PlanInv
BY InputsAssumption DEF Init, PlanInv, TypeOK, Planned

LEMMA PlanInductive ==
  ASSUME PlanInv, [Next]_vars
  PROVE  PlanInv'
<1> USE DEF PlanInv
<1>1. CASE Inventory
  BY <1>1 DEF Inventory, TypeOK, Planned
<1>2. CASE Select
  <2>1. /\ in' = in /\ pc = "select" /\ pc' = "drop"
        /\ selected' = {g \in Groups : Selectable(g)} /\ skipped' = Groups \ selected'
    BY <1>2 DEF Select
  <2>2. TypeOK'
    BY <2>1 DEF TypeOK, Planned
  <2>3. \A g : Selectable(g)' = Selectable(g)
    BY <2>1 DEF Selectable, available, Installable
  <2>4. Candidate(selected)'
    BY <2>1, <2>3 DEF Candidate
  <2>5. NothingLost'
    BY <2>1, <2>3 DEF NothingLost, Closed
  <2> QED
    BY <2>1, <2>2, <2>4, <2>5 DEF Planned
<1>3. ASSUME NEW g \in Groups, Drop(g)
      PROVE  PlanInv'
  <2>1. /\ in' = in /\ pc = "drop" /\ pc' = "drop"
        /\ g \in selected /\ selected' = selected \ {g} /\ skipped' = skipped \cup {g}
        /\ in.depends[g] \ (selected \cup in.stock) # {}
    BY <1>3 DEF Drop, Remaining, Unavailable
  <2>2. TypeOK'
    BY <2>1 DEF TypeOK, Planned
  <2>3. \A h : Selectable(h)' = Selectable(h)
    BY <2>1 DEF Selectable, available, Installable
  <2>4. Candidate(selected)'
    BY <2>1, <2>3 DEF Candidate
  <2>5. \A X \in SUBSET Groups : Closed(X) => g \notin X
    BY <2>1 DEF NothingLost, Closed
  <2>6. \A X : Closed(X)' = Closed(X)
    BY <2>1, <2>3 DEF Closed
  <2>7. NothingLost'
    BY <2>1, <2>5, <2>6 DEF NothingLost
  <2> QED
    BY <2>1, <2>2, <2>4, <2>7 DEF Planned
<1>4. ASSUME UNCHANGED <<in, selected, skipped>>, pc = "drop" \/ Planned, Settled, Planned'
      PROVE  PlanInv'
  <2>1. TypeOK'
    BY <1>4 DEF TypeOK, Planned
  <2>2. \A h : Selectable(h)' = Selectable(h) /\ Unavailable(h)' = Unavailable(h)
    BY <1>4 DEF Selectable, available, Installable, Unavailable
  <2>3. \A X : Closed(X)' = Closed(X)
    BY <1>4, <2>2 DEF Closed
  <2> QED
    BY <1>4, <2>1, <2>2, <2>3 DEF Candidate, NothingLost, Settled, Planned
<1>5. CASE Settle
  BY <1>4, <1>5 DEF Settle, Planned
<1>6. CASE EmitModules
  <2>1. CASE pc' = "failed"
    BY <1>6, <2>1 DEF EmitModules, TypeOK, Planned
  <2>2. CASE pc' # "failed"
    BY <1>4, <1>6, <2>2 DEF EmitModules, Planned
  <2> QED
    BY <2>1, <2>2
<1>7. CASE EmitMetas
  BY <1>4, <1>7 DEF EmitMetas, Planned
<1>8. CASE EmitRest
  BY <1>4, <1>8 DEF EmitRest, Planned
<1>9. CASE UNCHANGED vars
  BY <1>9 DEF vars, TypeOK, Planned, Candidate, NothingLost, Closed, Settled, Selectable,
              available, Installable, Unavailable
<1> QED
  BY <1>1, <1>2, <1>3, <1>5, <1>6, <1>7, <1>8, <1>9 DEF Next

LEMMA PlanInvariant == Spec => []PlanInv
<1>1. PlanInv /\ [Next]_vars => PlanInv'
  BY PlanInductive
<1> QED
  BY <1>1, PlanInitially, PTL DEF Spec

(* The variables keep their types, and a group is either selected or       *)
(* reported as not provided.                                               *)
THEOREM TypeCorrect == Spec => []TypeOK
<1>1. PlanInv => TypeOK
  BY DEF PlanInv
<1> QED
  BY <1>1, PlanInvariant, PTL

(* The loop ends with the largest set of capabilities that is complete,    *)
(* for every graph of dependencies, cyclic ones included, and every order. *)
THEOREM PlanIsLargest == Spec => []LargestPlan
<1>1. PlanInv => LargestPlan
  BY DEF PlanInv, LargestPlan, Planned, Closed, Candidate, NothingLost, Settled, Unavailable, TypeOK, InputType
<1> QED
  BY <1>1, PlanInvariant, PTL

-----------------------------------------------------------------------------
LEMMA EmitInitially == Init => EmitInv
BY DEF Init, EmitInv

(* Once the plan is made, what is emitted for it does not change. *)
LEMMA SamePlan ==
  ASSUME UNCHANGED <<in, selected>>
  PROVE  /\ Missing' = Missing /\ ModuleIpks' = ModuleIpks /\ MetaIpks' = MetaIpks
         /\ UNCHANGED <<available, Installable>>
         /\ \A e : IsStaged(e)' = IsStaged(e)
BY DEF IsStaged, Missing, ModuleIpks, MetaIpks, available, Installable, Loaded, StockOwners, FirstOwner, ModuleIpk,
       MetaIpk, Runtime, Offered, On, Dep, NameOf, VersionAt, Direct, ModuleOf, ModulePkg,
       Alias, Compat, Stock

LEMMA EmitInductive ==
  ASSUME EmitInv, [Next]_vars
  PROVE  EmitInv'
<1> USE DEF EmitInv
<1>1. ASSUME pc' \in {"failed", "select", "drop", "modules"}
      PROVE  EmitInv'
  BY <1>1
<1>2. CASE Inventory \/ Select \/ Settle \/ \E g \in Groups : Drop(g)
  BY <1>1, <1>2 DEF Inventory, Select, Settle, Drop
<1>3. CASE EmitModules
  <2>1. CASE Missing
    BY <1>1, <1>3, <2>1 DEF EmitModules
  <2>2. CASE ~Missing
    <3>1. UNCHANGED <<in, selected>> /\ pc' = "metas" /\ emitted' = ModuleIpks
      BY <1>3, <2>2 DEF EmitModules, ModuleIpks
    <3> QED
      BY <2>2, <3>1, SamePlan
  <2> QED
    BY <2>1, <2>2
<1>4. CASE EmitMetas
  <2>1. /\ UNCHANGED <<in, selected>> /\ pc = "metas" /\ pc' = "rest"
        /\ emitted' = emitted \cup MetaIpks
    BY <1>4 DEF EmitMetas, MetaIpks
  <2> QED
    BY <2>1, SamePlan
<1>5. CASE EmitRest
  <2> DEFINE rest == {[id |-> Staged(r), ver |-> Upgraded, provides |-> {}, depends |-> {}] :
                        r \in in.rows \ Installable}
  <2>1. /\ UNCHANGED <<in, selected>> /\ pc = "rest" /\ pc' = "done"
        /\ emitted' = emitted \cup rest
    BY <1>5 DEF EmitRest
  <2>2. \A e \in rest : IsStaged(e)
    BY DEF IsStaged
  <2> HIDE DEF rest
  <2> QED
    BY <2>1, <2>2, SamePlan
<1>6. CASE UNCHANGED vars
  BY <1>6, SamePlan DEF vars
<1> QED
  BY <1>2, <1>3, <1>4, <1>5, <1>6 DEF Next

LEMMA EmitInvariant == Spec => []EmitInv
<1>1. EmitInv /\ [Next]_vars => EmitInv'
  BY EmitInductive
<1> QED
  BY <1>1, EmitInitially, PTL DEF Spec

(* The dependency on a group of a closed plan names what is emitted for it. *)
LEMMA GroupEmitted ==
  ASSUME NEW h, h \in selected \cup in.stock
  PROVE  \/ \E f \in ModuleIpks \cup MetaIpks : f.id = On(h).id /\ f.ver = On(h).ver
         \/ \E g \in in.stock : On(h) = Dep(Stock(g), Firmware)
<1>1. CASE h \notin selected
  BY <1>1 DEF On
<1>2. CASE h \in selected /\ Direct(h)
  <2>1. ModuleOf(h) \in available
    <3>1. in.mods[h] # {}
      BY <1>2, FS_EmptySet DEF Direct
    <3>2. \E m : m \in in.mods[h] \cap available
      BY <1>2, <3>1 DEF Direct
    <3> QED
      BY <3>2 DEF ModuleOf
  <2>2. ModuleIpk(ModuleOf(h)) \in ModuleIpks
    BY <2>1 DEF ModuleIpks
  <2>3. /\ On(h).id = ModuleIpk(ModuleOf(h)).id
        /\ On(h).ver = ModuleIpk(ModuleOf(h)).ver
    BY <1>2 DEF On, Dep, NameOf, VersionAt, ModuleIpk
  <2> QED
    BY <2>2, <2>3
<1>3. CASE h \in selected /\ ~Direct(h)
  <2>1. MetaIpk(h) \in MetaIpks
    BY <1>3 DEF MetaIpks
  <2>2. On(h).id = MetaIpk(h).id /\ On(h).ver = MetaIpk(h).ver
    BY <1>3 DEF On, Dep, NameOf, VersionAt, MetaIpk
  <2> QED
    BY <2>1, <2>2
<1> QED
  BY <1>1, <1>2, <1>3

LEMMA EmittedResolve == PlanInv /\ EmitInv => Resolvable
<1> SUFFICES ASSUME PlanInv, EmitInv, pc = "done",
                    NEW e \in emitted, NEW d \in e.depends
             PROVE  \/ \E f \in emitted : f.id = d.id /\ f.ver = d.ver
                    \/ \E g \in in.stock : d = Dep(Stock(g), Firmware)
  BY DEF Resolvable
<1>1. /\ ModuleIpks \cup MetaIpks \subseteq emitted /\ ~Missing
      /\ e \in ModuleIpks \cup MetaIpks
  BY DEF EmitInv, IsStaged
<1>2. \A g \in selected : in.depends[g] \subseteq selected \cup in.stock
  BY DEF PlanInv, Planned, Settled, Unavailable
<1>3. ASSUME NEW h \in UNION {in.depends[g] : g \in selected}, d = On(h)
      PROVE  \/ \E f \in emitted : f.id = d.id /\ f.ver = d.ver
             \/ \E g \in in.stock : d = Dep(Stock(g), Firmware)
  BY <1>1, <1>2, <1>3, GroupEmitted
<1>4. ASSUME NEW m \in available, d = Dep(ModulePkg(m), Upgraded)
      PROVE  \E f \in emitted : f.id = d.id /\ f.ver = d.ver
  <2>1. ModuleIpk(m) \in emitted
    BY <1>1 DEF ModuleIpks
  <2> QED
    BY <1>4, <2>1 DEF ModuleIpk, Dep
<1>5. CASE e \in ModuleIpks
  <2>1. PICK m \in available : e = ModuleIpk(m)
    BY <1>5 DEF ModuleIpks
  <2>2. d \in Runtime(m) \/ \E h \in UNION {in.depends[g] : g \in Offered(m)} : d = On(h)
    BY <2>1 DEF ModuleIpk
  <2>3. CASE d \in Runtime(m)
    <3>1. PICK n \in Loaded(m) :
            d = IF n \in available THEN Dep(ModulePkg(n), Upgraded)
                ELSE Dep(Stock(FirstOwner(n)), Firmware)
      BY <2>3 DEF Runtime
    <3>2. n \notin available => StockOwners(n) # {}
      BY <1>1 DEF Missing
    <3>3. n \notin available => FirstOwner(n) \in in.stock
      BY <3>2 DEF StockOwners, FirstOwner
    <3> QED
      BY <1>4, <3>1, <3>3
  <2>4. Offered(m) \subseteq selected
    BY DEF Offered
  <2> QED
    BY <1>3, <2>2, <2>3, <2>4
<1>6. CASE e \in MetaIpks
  <2>1. PICK g \in selected : e = MetaIpk(g)
    BY <1>6 DEF MetaIpks
  <2>2. \/ \E m \in available : d = Dep(ModulePkg(m), Upgraded)
        \/ \E h \in in.depends[g] : d = On(h)
    BY <2>1 DEF MetaIpk
  <2> QED
    BY <1>3, <1>4, <2>2
<1> QED
  BY <1>1, <1>5, <1>6

(* Whatever the profile, every dependency of an emitted package names an   *)
(* emitted package and its version, or a package of the firmware.          *)
THEOREM DependenciesResolve == Spec => []Resolvable
BY EmitInvariant, EmittedResolve, PlanInvariant, PTL

-----------------------------------------------------------------------------
(* Finite inputs give finitely many packages. *)
LEMMA ImageFinite ==
  ASSUME NEW S, IsFiniteSet(S), NEW f, f = [x \in S |-> f[x]]
  PROVE  IsFiniteSet({f[x] : x \in S})
<1> DEFINE T == {f[x] : x \in S}
<1>1. f \in Surjection(S, T)
  BY DEF Surjection
<1> QED
  BY <1>1, FS_Surjection

LEMMA RowsFinite == IsFiniteSet(Modules \X {1, 2} \X BOOLEAN)
<1> DEFINE P == (Modules \X {1, 2}) \X BOOLEAN
           T == Modules \X {1, 2} \X BOOLEAN
<1>1. IsFiniteSet({1, 2}) /\ IsFiniteSet({TRUE, FALSE})
  <2>1. IsFiniteSet({1}) /\ IsFiniteSet({TRUE})
    BY FS_Singleton
  <2>2. IsFiniteSet({1} \cup {2}) /\ IsFiniteSet({TRUE} \cup {FALSE})
    BY <2>1, FS_AddElement, Zenon
  <2>3. {1, 2} = {1} \cup {2} /\ {TRUE, FALSE} = {TRUE} \cup {FALSE}
    OBVIOUS
  <2> QED
    BY <2>2, <2>3, Zenon
<1>2. IsFiniteSet(Modules \X {1, 2})
  BY <1>1, FiniteAssumption, FS_Product
<1>3. BOOLEAN = {TRUE, FALSE}
  OBVIOUS
<1>4. IsFiniteSet(P)
  BY <1>1, <1>2, <1>3, FS_Product
<1>5. PICK f : f = [p \in P |-> <<p[1][1], p[1][2], p[2]>>]
  OBVIOUS
<1>6. IsFiniteSet({f[p] : p \in P})
  <2>1. f = [p \in P |-> f[p]]
    BY <1>5
  <2> QED
    BY <1>4, <2>1, ImageFinite
<1>7. T \subseteq {f[p] : p \in P}
  <2> SUFFICES ASSUME NEW t \in T PROVE t \in {f[p] : p \in P}
    OBVIOUS
  <2>1. t[1] \in Modules /\ t[2] \in {1, 2} /\ t[3] \in BOOLEAN /\ t = <<t[1], t[2], t[3]>>
    OBVIOUS
  <2>2. PICK p : p = <<<<t[1], t[2]>>, t[3]>>
    OBVIOUS
  <2>3. p \in P /\ p[1][1] = t[1] /\ p[1][2] = t[2] /\ p[2] = t[3]
    BY <2>1, <2>2
  <2>4. f[p] = t
    BY <1>5, <2>1, <2>3
  <2> QED
    BY <2>3, <2>4
<1> QED
  BY <1>6, <1>7, FS_Subset

LEMMA EmittedFinite ==
  ASSUME PlanInv, IsFiniteSet(emitted), [Next]_vars
  PROVE  IsFiniteSet(emitted')
<1>0. in \in InputType /\ selected \subseteq Groups
  BY DEF PlanInv, TypeOK
<1>1. IsFiniteSet(in.rows)
  BY <1>0, RowsFinite, FS_Subset DEF InputType
<1>2. IsFiniteSet(available)
  <2>1. available \subseteq Modules
    BY <1>0 DEF available, Installable, InputType
  <2> QED
    BY <2>1, FiniteAssumption, FS_Subset
<1>3. CASE EmitModules
  <2>1. PICK f : f = [m \in available |-> ModuleIpk(m)]
    OBVIOUS
  <2>2. IsFiniteSet({f[m] : m \in available})
    BY <1>2, <2>1, ImageFinite
  <2>3. emitted' \in {emitted, {f[m] : m \in available}}
    BY <1>3, <2>1 DEF EmitModules
  <2> QED
    BY <2>2, <2>3
<1>4. CASE EmitMetas
  <2> DEFINE X == {x \in selected : ~(Direct(x) /\ x \in in.stock)}
  <2>0. IsFiniteSet(X)
    BY <1>0, FiniteAssumption, FS_Subset
  <2>1. PICK f : f = [g \in X |-> MetaIpk(g)]
    OBVIOUS
  <2>2. IsFiniteSet({f[g] : g \in X})
    BY <2>0, <2>1, ImageFinite
  <2>3. emitted' = emitted \cup {f[g] : g \in X}
    BY <1>4, <2>1 DEF EmitMetas
  <2> QED
    BY <2>2, <2>3, FS_Union
<1>5. CASE EmitRest
  <2> DEFINE X == in.rows \ Installable
             E(r) == [id |-> Staged(r), ver |-> Upgraded, provides |-> {}, depends |-> {}]
  <2>0. IsFiniteSet(X)
    BY <1>1, FS_Subset
  <2>1. PICK f : f = [r \in X |-> E(r)]
    OBVIOUS
  <2>2. IsFiniteSet({f[r] : r \in X})
    <3>1. f = [r \in X |-> f[r]]
      BY <2>1
    <3> QED
      BY <2>0, <3>1, ImageFinite
  <2>3. emitted' = emitted \cup {f[r] : r \in X}
    BY <1>5, <2>1 DEF EmitRest
  <2> QED
    BY <2>2, <2>3, FS_Union
<1>6. CASE Inventory \/ Select \/ Settle \/ (\E g \in Groups : Drop(g)) \/ UNCHANGED vars
  BY <1>6 DEF Inventory, Select, Settle, Drop, vars
<1> QED
  BY <1>3, <1>4, <1>5, <1>6 DEF Next

-----------------------------------------------------------------------------
(* Induction over the steps in which opkg collects dependencies. *)
LEMMA SetInduction ==
  ASSUME NEW S, 0 \in S, \A n \in Nat : n \in S => n + 1 \in S
  PROVE  Nat \subseteq S
<1> DEFINE T == Nat \ S
           R == OpToRel(<, Nat)
<1> SUFFICES ASSUME T # {} PROVE FALSE
  OBVIOUS
<1>1. IsWellFoundedOn(R, Nat) /\ T \subseteq Nat
  BY NatLessThanWellFounded
<1>2. \A x, y \in Nat : x < y => <<x, y>> \in R
  BY DEF OpToRel
<1> HIDE DEF R
<1>3. PICK x \in T : \A y \in T : ~(<<y, x>> \in R)
  BY <1>1, WFMin
<1>4. x \in Nat /\ x # 0 /\ x - 1 \in Nat /\ x - 1 < x
  OBVIOUS
<1>5. x - 1 \in S
  BY <1>2, <1>3, <1>4
<1>6. (x - 1) + 1 \in S
  BY <1>4, <1>5
<1> QED
  BY <1>4, <1>6

(* The sets Brought() goes through. *)
IsChain(f, i, n) == f = [k \in 0 .. n |-> IF k = 0 THEN {i} ELSE With(f[k - 1])]

LEMMA ChainExists ==
  ASSUME NEW i, NEW n \in Nat PROVE \E f : IsChain(f, i, n)
<1> DEFINE S == {k \in Nat : \E f : IsChain(f, i, k)}
<1>1. 0 \in S
  <2>1. PICK f : f = [k \in 0 .. 0 |-> {i}]
    OBVIOUS
  <2>2. IsChain(f, i, 0)
    BY <2>1 DEF IsChain
  <2> QED
    BY <2>2
<1>2. ASSUME NEW k \in Nat, k \in S PROVE k + 1 \in S
  <2>1. PICK f : IsChain(f, i, k)
    BY <1>2
  <2>2. PICK h : h = [j \in 0 .. (k + 1) |-> IF j = k + 1 THEN With(f[k]) ELSE f[j]]
    OBVIOUS
  <2>3. \A j \in 0 .. k : h[j] = f[j]
    BY <2>2
  <2>4. \A j \in 0 .. (k + 1) : h[j] = IF j = 0 THEN {i} ELSE With(h[j - 1])
    <3> SUFFICES ASSUME NEW j \in 0 .. (k + 1) PROVE h[j] = IF j = 0 THEN {i} ELSE With(h[j - 1])
      OBVIOUS
    <3>1. CASE j = k + 1
      <4>1. h[j] = With(f[k]) /\ h[j - 1] = f[k] /\ j # 0
        BY <2>2, <2>3, <3>1
      <4> QED
        BY <4>1
    <3>2. CASE j # k + 1
      <4>1. j \in 0 .. k /\ h[j] = f[j]
        BY <2>3, <3>2
      <4>2. f[j] = IF j = 0 THEN {i} ELSE With(f[j - 1])
        BY <2>1, <4>1 DEF IsChain
      <4>3. j # 0 => h[j - 1] = f[j - 1]
        BY <2>3, <4>1
      <4> QED
        BY <4>1, <4>2, <4>3
    <3> QED
      BY <3>1, <3>2
  <2>5. IsChain(h, i, k + 1)
    BY <2>2, <2>4 DEF IsChain
  <2> QED
    BY <2>5
<1> HIDE DEF S
<1>3. Nat \subseteq S
  BY <1>1, <1>2, SetInduction
<1> QED
  BY <1>3 DEF S

LEMMA ChainValues ==
  ASSUME NEW f, NEW i, NEW n \in Nat, IsChain(f, i, n)
  PROVE  f[0] = {i} /\ \A k \in 0 .. n : k # 0 => f[k] = With(f[k - 1])
<1>1. \A k \in 0 .. n : f[k] = IF k = 0 THEN {i} ELSE With(f[k - 1])
  BY DEF IsChain
<1>2. 0 \in 0 .. n
  OBVIOUS
<1> QED
  BY <1>1, <1>2

LEMMA BroughtIs ==
  ASSUME NEW e, NEW n \in Nat
  PROVE  \E f : IsChain(f, e.id, n) /\ Brought(e, n) = f[n]
<1> DEFINE b == CHOOSE f : f = [k \in 0 .. n |-> IF k = 0 THEN {e.id} ELSE UNION {With(I) : I \in {f[k - 1]}}]
<1>1. \A x : UNION {With(I) : I \in {x}} = With(x)
  OBVIOUS
<1>2. PICK f : IsChain(f, e.id, n)
  BY ChainExists
<1>3. f = [k \in 0 .. n |-> IF k = 0 THEN {e.id} ELSE UNION {With(I) : I \in {f[k - 1]}}]
  BY <1>1, <1>2 DEF IsChain
<1>4. b = [k \in 0 .. n |-> IF k = 0 THEN {e.id} ELSE UNION {With(I) : I \in {b[k - 1]}}]
  BY <1>3
<1>5. Brought(e, n) = b[n]
  BY DEF Brought
<1> HIDE DEF b
<1>6. IsChain(b, e.id, n)
  BY <1>1, <1>4 DEF IsChain
<1> QED
  BY <1>5, <1>6

(* A set of packages that has with each what it depends on. *)
SelfContained(I) == \A f \in emitted : f.id \in I => \A d \in f.depends : d.id \in I
Members(I) == {f \in emitted : f.id \in I}

LEMMA WithMembers ==
  ASSUME NEW I
  PROVE  /\ I \subseteq With(I)
         /\ \A f \in Members(I) : \A d \in f.depends : d.id \in With(I)
         /\ SelfContained(I) => With(I) = I
         /\ Members(With(I)) = Members(I) => SelfContained(With(I))
<1>1. I \subseteq With(I) /\ \A f \in Members(I) : \A d \in f.depends : d.id \in With(I)
  BY DEF With, Members
<1>2. SelfContained(I) => With(I) = I
  BY DEF With, SelfContained
<1>3. Members(With(I)) = Members(I) => SelfContained(With(I))
  BY <1>1 DEF SelfContained, Members
<1> QED
  BY <1>1, <1>2, <1>3

(* As many steps as there are packages are enough: each step before the    *)
(* set is self-contained adds a package.                                   *)
LEMMA BroughtClosed ==
  ASSUME IsFiniteSet(emitted), NEW e \in emitted, NEW I, I = Brought(e, Cardinality(emitted))
  PROVE  e.id \in I /\ SelfContained(I)
<1> DEFINE n == Cardinality(emitted)
<1>0. n \in Nat
  BY FS_CardinalityType
<1> HIDE DEF n
<1>1. PICK b : IsChain(b, e.id, n) /\ Brought(e, n) = b[n]
  BY <1>0, BroughtIs
<1>2. b[0] = {e.id} /\ \A k \in 0 .. n : k # 0 => b[k] = With(b[k - 1])
  BY <1>0, <1>1, ChainValues
<1>3. \A J : IsFiniteSet(Members(J)) /\ Cardinality(Members(J)) \in Nat /\ Cardinality(Members(J)) <= n
  <2> SUFFICES ASSUME NEW J
               PROVE  /\ IsFiniteSet(Members(J)) /\ Cardinality(Members(J)) \in Nat
                      /\ Cardinality(Members(J)) <= n
    OBVIOUS
  <2>1. Members(J) \subseteq emitted
    BY DEF Members
  <2> QED
    BY <2>1, FS_Subset, FS_CardinalityType DEF n
<1> DEFINE Good(k) == e.id \in b[k] /\ (SelfContained(b[k]) \/ Cardinality(Members(b[k])) > k)
           S == {k \in Nat : k <= n => Good(k)}
<1>4. 0 \in S
  <2>1. e \in Members(b[0])
    BY <1>2 DEF Members
  <2>2. Cardinality(Members(b[0])) # 0
    BY <1>3, <2>1, FS_EmptySet
  <2>3. Cardinality(Members(b[0])) > 0
    BY <1>3, <2>2
  <2> QED
    BY <1>2, <2>3
<1>5. ASSUME NEW k \in Nat, k \in S PROVE k + 1 \in S
  <2> SUFFICES ASSUME k + 1 <= n PROVE Good(k + 1)
    OBVIOUS
  <2>1. Good(k) /\ b[k + 1] = With(b[k])
    <3>1. k <= n /\ k + 1 \in 0 .. n /\ k + 1 # 0 /\ (k + 1) - 1 = k
      BY <1>0
    <3> QED
      BY <1>2, <1>5, <3>1
  <2>2. e.id \in b[k + 1]
    BY <2>1, WithMembers
  <2>3. CASE SelfContained(b[k])
    BY <2>1, <2>2, <2>3, WithMembers
  <2>4. CASE ~SelfContained(b[k])
    <3>1. Cardinality(Members(b[k])) > k
      BY <2>1, <2>4
    <3>2. CASE Members(b[k + 1]) = Members(b[k])
      BY <2>1, <2>2, <3>2, WithMembers
    <3>3. CASE Members(b[k + 1]) # Members(b[k])
      <4>1. Members(b[k]) \subseteq Members(b[k + 1])
        BY <2>1, WithMembers DEF Members
      <4>2. Cardinality(Members(b[k])) < Cardinality(Members(b[k + 1]))
        BY <1>3, <3>3, <4>1, FS_Subset
      <4>3. Cardinality(Members(b[k + 1])) > k + 1
        BY <1>3, <3>1, <4>2
      <4> QED
        BY <2>2, <4>3
    <3> QED
      BY <3>2, <3>3
  <2> QED
    BY <2>3, <2>4
<1>6. n \in S
  <2> HIDE DEF S
  <2>1. Nat \subseteq S
    BY <1>4, <1>5, SetInduction
  <2> QED
    BY <1>0, <2>1
<1>7. Good(n)
  BY <1>0, <1>6
<1>8. ~(Cardinality(Members(b[n])) > n)
  BY <1>0, <1>3
<1> QED
  BY <1>1, <1>7, <1>8 DEF n

LEMMA BroughtLeast ==
  ASSUME IsFiniteSet(emitted), NEW e, NEW X, e.id \in X, SelfContained(X)
  PROVE  Brought(e, Cardinality(emitted)) \subseteq X
<1> DEFINE n == Cardinality(emitted)
<1>0. n \in Nat
  BY FS_CardinalityType
<1> HIDE DEF n
<1>1. PICK b : IsChain(b, e.id, n) /\ Brought(e, n) = b[n]
  BY <1>0, BroughtIs
<1>2. b[0] = {e.id} /\ \A k \in 0 .. n : k # 0 => b[k] = With(b[k - 1])
  BY <1>0, <1>1, ChainValues
<1> DEFINE S == {k \in Nat : k <= n => b[k] \subseteq X}
<1>3. 0 \in S
  BY <1>2
<1>4. ASSUME NEW k \in Nat, k \in S PROVE k + 1 \in S
  <2> SUFFICES ASSUME k + 1 <= n PROVE b[k + 1] \subseteq X
    OBVIOUS
  <2>1. k <= n /\ k + 1 \in 0 .. n /\ k + 1 # 0 /\ (k + 1) - 1 = k
    BY <1>0
  <2>2. b[k] \subseteq X /\ b[k + 1] = With(b[k])
    BY <1>2, <1>4, <2>1
  <2> QED
    BY <2>2 DEF With, SelfContained
<1>5. n \in S
  <2> HIDE DEF S
  <2>1. Nat \subseteq S
    BY <1>3, <1>4, SetInduction
  <2> QED
    BY <1>0, <2>1
<1>6. b[n] \subseteq X
  BY <1>0, <1>5
<1> QED
  BY <1>1, <1>6 DEF n

(* What a packaged module needs comes with it. *)
LEMMA LoadedBrought ==
  ASSUME PlanInv, EmitInv, pc = "done", NEW I, SelfContained(I),
         NEW m \in available, ModulePkg(m) \in I
  PROVE  m \in ModulesIn(I) /\ Loaded(m) \subseteq ModulesIn(I)
<1>0. in \in InputType /\ ~Missing /\ ModuleIpk(m) \in emitted
  BY DEF PlanInv, TypeOK, EmitInv, ModuleIpks
<1>1. available \subseteq Modules
  BY <1>0 DEF available, Installable, InputType
<1>2. \A d \in Runtime(m) : d.id \in I
  BY <1>0 DEF SelfContained, ModuleIpk
<1>3. ASSUME NEW n \in Loaded(m) PROVE n \in ModulesIn(I)
  <2>1. CASE n \in available
    <3>1. Dep(ModulePkg(n), Upgraded) \in Runtime(m)
      BY <2>1 DEF Runtime
    <3>2. ModulePkg(n) \in I
      BY <1>2, <3>1 DEF Dep
    <3> QED
      BY <1>1, <2>1, <3>2 DEF ModulesIn
  <2>2. CASE n \notin available
    <3>1. PICK g : g = FirstOwner(n)
      OBVIOUS
    <3>2. g \in in.stock /\ n \in in.mods[g]
      <4>1. StockOwners(n) # {}
        BY <1>0, <2>2 DEF Missing
      <4> QED
        BY <3>1, <4>1 DEF StockOwners, FirstOwner
    <3>3. Dep(Stock(g), Firmware) \in Runtime(m)
      BY <2>2, <3>1 DEF Runtime
    <3>4. Stock(g) \in I
      BY <1>2, <3>3 DEF Dep
    <3> QED
      BY <3>2, <3>4 DEF ModulesIn
  <2> QED
    BY <2>1, <2>2
<1>4. m \in ModulesIn(I)
  BY <1>1 DEF ModulesIn
<1> QED
  BY <1>3, <1>4

LEMMA ProvidersComplete ==
  PlanInv /\ EmitInv /\ IsFiniteSet(emitted) => CapabilityComplete
<1> SUFFICES ASSUME PlanInv, EmitInv, IsFiniteSet(emitted), pc = "done",
                    NEW e \in emitted, NEW g \in e.provides,
                    NEW I, I = Brought(e, Cardinality(emitted))
             PROVE  /\ in.mods[g] \subseteq ModulesIn(I) \cup in.builtin
                    /\ \A m \in in.mods[g] \cap available : Loaded(m) \subseteq ModulesIn(I)
  BY DEF CapabilityComplete
<1>1. e.id \in I /\ SelfContained(I)
  BY BroughtClosed
<1>2. e \in ModuleIpks \cup MetaIpks /\ Candidate(selected) /\ in \in InputType /\ selected \subseteq Groups
  BY DEF EmitInv, IsStaged, PlanInv, Planned, TypeOK
<1>3. g \in selected /\ \A m \in in.mods[g] \cap available : ModulePkg(m) \in I
  <2>1. CASE e \in ModuleIpks
    <3>1. PICK m \in available : e = ModuleIpk(m)
      BY <2>1 DEF ModuleIpks
    <3>2. g \in selected /\ Direct(g) /\ ModuleOf(g) = m /\ e.id = ModulePkg(m)
      BY <3>1 DEF ModuleIpk, Offered
    <3>3. IsFiniteSet(in.mods[g]) /\ in.mods[g] # {}
      <4>1. in.mods[g] \subseteq Modules
        BY <1>2, <3>2 DEF InputType
      <4>2. IsFiniteSet(in.mods[g])
        BY <4>1, FiniteAssumption, FS_Subset
      <4> QED
        BY <3>2, <4>2, FS_EmptySet DEF Direct
    <3>4. PICK x : in.mods[g] = {x}
      BY <3>2, <3>3, FS_Singleton DEF Direct
    <3>5. ModuleOf(g) = x
      BY <3>2, <3>4 DEF ModuleOf, Direct
    <3> QED
      BY <1>1, <3>2, <3>4, <3>5
  <2>2. CASE e \in MetaIpks
    <3>1. PICK h \in selected : e = MetaIpk(h)
      BY <2>2 DEF MetaIpks
    <3>2. h = g
      BY <3>1 DEF MetaIpk
    <3>3. ASSUME NEW m \in in.mods[g] \cap available PROVE ModulePkg(m) \in I
      <4>1. Dep(ModulePkg(m), Upgraded) \in e.depends
        BY <3>1, <3>2 DEF MetaIpk
      <4>2. Dep(ModulePkg(m), Upgraded).id \in I
        BY <1>1, <4>1 DEF SelfContained
      <4> QED
        BY <4>2 DEF Dep
    <3> QED
      BY <3>1, <3>2, <3>3
  <2> QED
    BY <1>2, <2>1, <2>2
<1>4. in.mods[g] \subseteq available \cup in.builtin
  BY <1>2, <1>3 DEF Candidate, Selectable
<1>5. \A m \in in.mods[g] \cap available : m \in ModulesIn(I) /\ Loaded(m) \subseteq ModulesIn(I)
  BY <1>1, <1>3, LoadedBrought
<1> QED
  BY <1>4, <1>5

(* Whoever installs the provider of a capability gets all its modules and  *)
(* all that these need, however deep the dependencies are and whether or   *)
(* not they are cyclic.                                                    *)
THEOREM ProvidersBringAll == Spec => []CapabilityComplete
<1>1. Init => Finite
  BY FS_EmptySet DEF Init, Finite
<1>2. PlanInv /\ Finite /\ [Next]_vars => Finite'
  BY EmittedFinite DEF Finite
<1>3. Spec => []Finite
  BY <1>1, <1>2, PlanInvariant, PTL DEF Spec
<1>4. PlanInv /\ EmitInv /\ Finite => CapabilityComplete
  BY ProvidersComplete DEF Finite
<1> QED
  BY <1>3, <1>4, PlanInvariant, EmitInvariant, PTL

-----------------------------------------------------------------------------
(* The router.  What opkg can get: the packages of the profile's feed and  *)
(* of the firmware.                                                        *)
NewIds == {e.id : e \in emitted} \cup {Stock(g) : g \in in.stock}
Running == mig.step \in {"install", "alias"}

RouterTypes ==
  /\ mig \in [step : {"off", "idle", "install", "aliases", "alias"}, target : Modules \cup {""},
             left : SUBSET Groups, queue : SUBSET NewIds, unpacked : SUBSET NewIds]
  /\ mig.step # "off" => pc = "done"
  /\ mig.step = "off" => installed = {} /\ migrated = {}
  /\ ~Running => mig.queue = {} /\ mig.unpacked = {}
  /\ migrated \subseteq Modules

(* A module package on record owns its new file; a generic package owns    *)
(* only files of its own and is gone when the alias has its name.          *)
FilesOwned ==
  /\ \A m \in Modules : ModulePkg(m) \in installed => owner[m] = ModulePkg(m) /\ disk[m] = "new"
  /\ \A m \in Modules : ModulePkg(m) \in mig.unpacked => disk[m] = "new"
  /\ mig.step # "off" => \A m \in Modules, g \in Groups :
       owner[m] = Legacy(g) => Legacy(g) \in installed /\ m \in in.mods[g]
  /\ \A g \in Groups : Alias(g) \in installed => Legacy(g) \notin installed

(* With what opkg is working on, the packages are self-contained. *)
Transaction ==
  /\ \A i \in installed : DependsOf(i) \subseteq installed
  /\ \A i \in mig.queue \cup mig.unpacked :
       DependsOf(i) \subseteq installed \cup mig.queue \cup mig.unpacked

(* The script has the target on its way or installed, and every alias it   *)
(* no longer has to ask for.                                               *)
Progress ==
  /\ mig.step \notin {"off", "idle"} => mig.target \in available
  /\ \A m \in Modules :
       /\ mig.step = "install" /\ mig.target = m => ModulePkg(m) \in mig.queue \cup mig.unpacked
       /\ mig.step \in {"aliases", "alias"} /\ mig.target = m =>
            /\ ModulePkg(m) \in installed /\ mig.left \subseteq Canonical(m)
            /\ \A g \in Canonical(m) :
                 g \in mig.left \/ Alias(g) \in installed \cup mig.queue \cup mig.unpacked
       /\ m \in migrated =>
            ModulePkg(m) \in installed /\ \A g \in Canonical(m) : Alias(g) \in installed

PlanDone == PlanInv /\ EmitInv /\ Finite
RInv == PlanDone /\ RouterTypes /\ FilesOwned /\ Transaction /\ Progress

-----------------------------------------------------------------------------
(* Names of different kinds are different. *)
LEMMA Kinds ==
  ASSUME NEW a, NEW b, NEW r
  PROVE  /\ Legacy(a) # ModulePkg(b) /\ Legacy(a) # Alias(b) /\ Legacy(a) # Compat(b)
         /\ Legacy(a) # Stock(b) /\ Legacy(a) # Staged(r) /\ Legacy(a) # Nobody
         /\ ModulePkg(a) # Alias(b) /\ ModulePkg(a) # Compat(b) /\ ModulePkg(a) # Stock(b)
         /\ ModulePkg(a) # Staged(r) /\ ModulePkg(a) # Nobody /\ ModulePkg(a) # Kernel
         /\ Alias(a) # Compat(b) /\ Alias(a) # Stock(b) /\ Alias(a) # Staged(r) /\ Alias(a) # Kernel
         /\ Kernel # Compat(b) /\ Kernel # Stock(b) /\ Kernel # Staged(r) /\ Kernel # Legacy(b)
         /\ Compat(a) # Stock(b) /\ Stock(a) # Staged(r)
         /\ Legacy(a) = Legacy(b) => a = b
         /\ Alias(a) = Alias(b) => a = b
         /\ ModulePkg(a) = ModulePkg(b) => a = b
BY DEF Legacy, ModulePkg, Alias, Compat, Stock, Staged, Nobody, Kernel

(* The packages of the feed by their names. *)
LEMMA EmittedKinds ==
  ASSUME EmitInv, pc = "done", NEW e \in emitted
  PROVE  \/ \E m \in available : e = ModuleIpk(m) /\ e.id = ModulePkg(m)
         \/ \E g \in selected : e = MetaIpk(g) /\ e.id = (IF g \in in.stock THEN Compat(g) ELSE Alias(g))
         \/ \E r : e.id = Staged(r)
<1>1. CASE e \in ModuleIpks
  BY <1>1 DEF ModuleIpks, ModuleIpk
<1>2. CASE e \in MetaIpks
  <2>1. PICK g \in selected : e = MetaIpk(g) /\ ~(Direct(g) /\ g \in in.stock)
    BY <1>2 DEF MetaIpks
  <2>2. e.id = IF g \in in.stock THEN Compat(g) ELSE Alias(g)
    BY <2>1 DEF MetaIpk, NameOf
  <2> QED
    BY <2>1, <2>2
<1> QED
  BY <1>1, <1>2 DEF EmitInv, IsStaged

LEMMA NotInFeed ==
  ASSUME EmitInv, pc = "done"
  PROVE  /\ \A g : Legacy(g) \notin NewIds
         /\ \A g : Stock(g) \notin {e.id : e \in emitted} /\ Legacy(g) \notin {e.id : e \in emitted}
         /\ Kernel \notin {e.id : e \in emitted}
<1>1. ASSUME NEW e \in emitted
      PROVE  (\A g : e.id # Stock(g) /\ e.id # Legacy(g)) /\ e.id # Kernel
  BY EmittedKinds, Kinds
<1> QED
  BY <1>1, Kinds DEF NewIds

LEMMA AliasPackage ==
  ASSUME PlanInv, EmitInv, pc = "done", NEW h \in Groups, NEW e \in emitted, e.id = Alias(h)
  PROVE  h \in selected /\ e = MetaIpk(h)
BY EmittedKinds, Kinds

(* The packages the script asks for are there. *)
LEMMA Asked ==
  ASSUME PlanInv, EmitInv, pc = "done"
  PROVE  /\ \A m \in available : m \in Modules /\ ModuleIpk(m) \in emitted /\ ModuleIpk(m).id = ModulePkg(m)
         /\ \A m : \A g \in Canonical(m) :
              g \in Groups /\ MetaIpk(g) \in emitted /\ MetaIpk(g).id = Alias(g)
<1>0. in \in InputType /\ selected \subseteq Groups /\ ModuleIpks \cup MetaIpks \subseteq emitted
  BY DEF PlanInv, TypeOK, EmitInv
<1>1. available \subseteq Modules
  BY <1>0 DEF available, Installable, InputType
<1>2. \A m \in available : ModuleIpk(m) \in emitted /\ ModuleIpk(m).id = ModulePkg(m)
  BY <1>0 DEF ModuleIpks, ModuleIpk
<1>3. ASSUME NEW m, NEW g \in Canonical(m)
      PROVE  g \in Groups /\ MetaIpk(g) \in emitted /\ MetaIpk(g).id = Alias(g)
  <2>1. g \in selected /\ g \notin in.stock
    BY DEF Canonical, Offered
  <2>2. MetaIpk(g) \in MetaIpks
    BY <2>1 DEF MetaIpks
  <2> QED
    BY <1>0, <2>1, <2>2 DEF MetaIpk
<1> QED
  BY <1>1, <1>2, <1>3

LEMMA Dependencies ==
  ASSUME PlanDone, pc = "done"
  PROVE  /\ \A i : DependsOf(i) \subseteq NewIds
         /\ \A i : i \notin {e.id : e \in emitted} => DependsOf(i) = {}
         /\ \A e \in emitted : Package(e.id) \in emitted /\ Package(e.id).id = e.id
         /\ SelfContained(NewIds)
<1>1. Resolvable
  BY EmittedResolve DEF PlanDone
<1>2. \A e \in emitted : \A d \in e.depends : d.id \in NewIds
  BY <1>1 DEF Resolvable, NewIds, Dep
<1>3. \A e \in emitted : Package(e.id) \in emitted /\ Package(e.id).id = e.id
  BY DEF Package
<1>4. \A i : DependsOf(i) \subseteq NewIds
  BY <1>2, <1>3 DEF DependsOf
<1> QED
  BY <1>2, <1>3, <1>4 DEF DependsOf, SelfContained

(* opkg's queue is complete, given what is installed. *)
LEMMA NeededComplete ==
  ASSUME PlanDone, pc = "done", NEW e \in emitted, NEW N, N = Needed(e.id)
  PROVE  /\ e.id \in N /\ N \subseteq NewIds
         /\ \A j \in N : DependsOf(j) \subseteq installed \cup N
<1> DEFINE p == Package(e.id)
           I == Brought(p, Cardinality(emitted))
<1>1. p \in emitted /\ p.id = e.id /\ IsFiniteSet(emitted) /\ SelfContained(NewIds) /\ e.id \in NewIds
  BY Dependencies DEF PlanDone, Finite, NewIds
<1>2. p.id \in I /\ SelfContained(I)
  BY <1>1, BroughtClosed
<1>3. I \subseteq NewIds
  BY <1>1, BroughtLeast
<1>4. N = {e.id} \cup (I \ installed)
  BY DEF Needed
<1> HIDE DEF I, p
<1>5. ASSUME NEW j \in I PROVE DependsOf(j) \subseteq I
  <2>1. CASE j \in {f.id : f \in emitted}
    <3>1. Package(j) \in emitted /\ Package(j).id = j
      BY <2>1, Dependencies
    <3> QED
      BY <1>2, <2>1, <3>1 DEF SelfContained, DependsOf
  <2>2. CASE j \notin {f.id : f \in emitted}
    BY <2>2, Dependencies
  <2> QED
    BY <2>1, <2>2
<1>6. ASSUME NEW j \in N PROVE DependsOf(j) \subseteq installed \cup N
  BY <1>1, <1>2, <1>4, <1>5
<1> QED
  BY <1>1, <1>3, <1>4, <1>6

(* The planner has ended; its packages stay. *)
LEMMA Frozen ==
  ASSUME PlanDone, UNCHANGED vars
  PROVE  /\ PlanDone' /\ NewIds' = NewIds /\ available' = available /\ pc' = pc
         /\ in' = in /\ emitted' = emitted
         /\ \A i : DependsOf(i)' = DependsOf(i)
         /\ \A m : Canonical(m)' = Canonical(m)
<1>1. in' = in /\ pc' = pc /\ selected' = selected /\ skipped' = skipped /\ emitted' = emitted
  BY DEF vars
<1>2. PlanInv' /\ EmitInv'
  <2>1. PlanInv' /\ EmitInv'
    BY PlanInductive, EmitInductive DEF PlanDone
  <2> QED
    BY <2>1
<1>3. Finite' /\ NewIds' = NewIds /\ available' = available
  BY <1>1 DEF PlanDone, Finite, NewIds, available, Installable, Stock
<1>4. \A i : DependsOf(i)' = DependsOf(i)
  BY <1>1 DEF DependsOf, Package
<1>5. \A m : Canonical(m)' = Canonical(m)
  BY <1>1, <1>3 DEF Canonical, Offered, Direct, ModuleOf
<1> QED
  BY <1>1, <1>2, <1>3, <1>4, <1>5 DEF PlanDone

(* opkg records packages that are self-contained with what is installed. *)
LEMMA Recorded ==
  ASSUME RInv, pc = "done", mig.step # "off", Record(mig.unpacked),
         \A i \in mig.unpacked : DependsOf(i) \subseteq installed \cup mig.unpacked
  PROVE  /\ mig.unpacked \subseteq installed'
         /\ \A i \in installed : i \in installed' \/ \E g \in Groups : i = Legacy(g)
         /\ \A i \in installed' : DependsOf(i) \subseteq installed'
         /\ \A m \in Modules : ModulePkg(m) \in installed' => owner'[m] = ModulePkg(m) /\ disk'[m] = "new"
         /\ \A m \in Modules, g \in Groups :
              owner'[m] = Legacy(g) => Legacy(g) \in installed' /\ m \in in.mods[g]
         /\ \A g \in Groups : Alias(g) \in installed' => Legacy(g) \notin installed'
<1> DEFINE I == mig.unpacked
<1>0. PlanDone /\ EmitInv /\ I \subseteq NewIds
  BY DEF RInv, PlanDone, RouterTypes
<1>1. /\ installed' = (installed \cup I) \ ReplacedBy(I)
      /\ owner' = NewOwner(I)
      /\ disk' = [m \in Modules |-> IF NewOwner(I)[m] = Nobody /\ owner[m] # Nobody THEN "none" ELSE disk[m]]
  BY DEF Record
<1>2. ReplacedBy(I) = {Legacy(g) : g \in {h \in Groups : Alias(h) \in I}}
  BY DEF ReplacedBy
<1>3. \A m \in Modules :
        /\ ModulePkg(m) \in I => owner'[m] = ModulePkg(m)
        /\ ModulePkg(m) \notin I => owner'[m] = IF owner[m] \in ReplacedBy(I) THEN Nobody ELSE owner[m]
        /\ disk'[m] = IF owner'[m] = Nobody /\ owner[m] # Nobody THEN "none" ELSE disk[m]
  BY <1>1 DEF NewOwner
<1> HIDE DEF I
<1>4. \A i \in NewIds : i \notin ReplacedBy(I)
  BY <1>0, <1>2, NotInFeed
<1>5. I \subseteq installed' /\ \A i \in installed : i \in installed' \/ \E g \in Groups : i = Legacy(g)
  BY <1>0, <1>1, <1>2, <1>4
<1>6. ASSUME NEW i \in installed' PROVE DependsOf(i) \subseteq installed'
  <2>1. DependsOf(i) \subseteq installed \cup I
    BY <1>1 DEF RInv, Transaction, I
  <2>2. DependsOf(i) \subseteq NewIds
    BY <1>0, Dependencies
  <2> QED
    BY <1>1, <1>4, <2>1, <2>2
<1>7. ASSUME NEW m \in Modules, ModulePkg(m) \in installed'
      PROVE  owner'[m] = ModulePkg(m) /\ disk'[m] = "new"
  <2>1. CASE ModulePkg(m) \in I
    <3>1. disk[m] = "new"
      BY <2>1 DEF RInv, FilesOwned, I
    <3> QED
      BY <1>3, <2>1, <3>1, Kinds
  <2>2. CASE ModulePkg(m) \notin I
    <3>1. owner[m] = ModulePkg(m) /\ disk[m] = "new"
      BY <1>1, <1>7, <2>2 DEF RInv, FilesOwned
    <3>2. owner[m] \notin ReplacedBy(I)
      BY <1>2, <3>1, Kinds
    <3> QED
      BY <1>3, <2>2, <3>1, <3>2, Kinds
  <2> QED
    BY <2>1, <2>2
<1>8. ASSUME NEW m \in Modules, NEW g \in Groups, owner'[m] = Legacy(g)
      PROVE  Legacy(g) \in installed' /\ m \in in.mods[g]
  <2>1. owner[m] = Legacy(g) /\ owner[m] \notin ReplacedBy(I)
    BY <1>3, <1>8, Kinds
  <2>2. Legacy(g) \in installed /\ m \in in.mods[g]
    BY <2>1 DEF RInv, FilesOwned
  <2> QED
    BY <1>1, <2>1, <2>2
<1>9. ASSUME NEW g \in Groups, Alias(g) \in installed' PROVE Legacy(g) \notin installed'
  <2>1. CASE Alias(g) \in I
    BY <1>1, <1>2, <2>1
  <2>2. CASE Alias(g) \notin I
    <3>1. Legacy(g) \notin installed
      BY <1>1, <1>9, <2>2 DEF RInv, FilesOwned
    <3>2. Legacy(g) \notin I
      BY <1>0, NotInFeed
    <3> QED
      BY <1>1, <3>1, <3>2
  <2> QED
    BY <2>1, <2>2
<1> QED
  BY <1>5, <1>6, <1>7, <1>8, <1>9 DEF I

-----------------------------------------------------------------------------
(* The steps of the router. *)

LEMMA RInitInv == RInit => RInv
<1> SUFFICES ASSUME RInit PROVE RInv
  OBVIOUS
<1>1. PlanDone
  BY PlanInitially, EmitInitially, FS_EmptySet DEF RInit, PlanDone, Finite, Init
<1>2. mig = [step |-> "off", target |-> "", left |-> {}, queue |-> {}, unpacked |-> {}]
  BY DEF RInit, AtRest
<1>3. installed = {} /\ migrated = {}
  BY DEF RInit
<1> QED
  BY <1>1, <1>2, <1>3 DEF RInv, RouterTypes, FilesOwned, Transaction, Progress, Running

LEMMA PlanStep == ASSUME RInv, Plan PROVE RInv'
<1>1. PlanInv' /\ EmitInv' /\ Finite'
  BY PlanInductive, EmitInductive, EmittedFinite DEF Plan, RInv, PlanDone, Finite
<1>2. pc # "done"
  BY DEF Plan, Next, Inventory, Select, Drop, Settle, EmitModules, EmitMetas, EmitRest
<1>3. mig.step = "off" /\ UNCHANGED <<installed, owner, disk, active, mig, migrated, budget>>
  BY <1>2 DEF RInv, RouterTypes, Plan, rvars
<1>4. installed = {} /\ migrated = {} /\ mig.queue = {} /\ mig.unpacked = {}
  BY <1>3 DEF RInv, RouterTypes, Running
<1>5. RouterTypes'
  BY <1>3, <1>4 DEF RInv, RouterTypes, Running
<1>6. FilesOwned' /\ Transaction' /\ Progress'
  BY <1>3, <1>4 DEF FilesOwned, Transaction, Progress
<1> QED
  BY <1>1, <1>5, <1>6 DEF RInv, PlanDone

LEMMA BootStep ==
  ASSUME RInv, NEW legacy \in Legacies, NEW loaded \in SUBSET Modules, NEW exact \in BOOLEAN,
         Boot(legacy, loaded, exact)
  PROVE  RInv'
<1> DEFINE held == {Stock(g) : g \in in.stock} \cup {Legacy(g) : g \in legacy}
                     \cup (IF exact THEN {Kernel} ELSE {})
           in_(m) == {Stock(g) : g \in StockOwners(m)}
                       \cup {Legacy(g) : g \in {h \in legacy : m \in in.mods[h]}}
<1>1. /\ pc = "done" /\ installed' = held /\ mig' = AtRest /\ UNCHANGED vars /\ migrated' = migrated
      /\ owner' = [m \in Modules |-> IF in_(m) = {} THEN Nobody ELSE CHOOSE i \in in_(m) : TRUE]
      /\ mig.step = "off"
  BY DEF Boot
<1>2. PlanDone' /\ PlanDone /\ EmitInv /\ pc' = "done" /\ \A i : DependsOf(i)' = DependsOf(i)
  BY <1>1, Frozen DEF RInv, PlanDone
<1>3. migrated' = {}
  BY <1>1 DEF RInv, RouterTypes
<1>4. mig' = [step |-> "idle", target |-> "", left |-> {}, queue |-> {}, unpacked |-> {}]
  BY <1>1 DEF AtRest
<1>11. /\ \A i \in held : (\E g : i = Stock(g)) \/ (\E g : i = Legacy(g)) \/ i = Kernel
       /\ \A g \in legacy : Legacy(g) \in held
  OBVIOUS
<1> HIDE DEF held, in_
<1>12. /\ installed' = held /\ mig'.queue = {} /\ mig'.unpacked = {} /\ mig'.step = "idle"
       /\ in' = in
  <2>1. installed' = held /\ in' = in
    BY <1>1 DEF vars
  <2>2. mig'.queue = {} /\ mig'.unpacked = {} /\ mig'.step = "idle"
    BY <1>4
  <2> QED
    BY <2>1, <2>2
<1>5. \A i \in held : /\ i \notin {e.id : e \in emitted}
                      /\ \A x : i # ModulePkg(x) /\ i # Alias(x)
  <2> SUFFICES ASSUME NEW i \in held
               PROVE  i \notin {e.id : e \in emitted} /\ \A x : i # ModulePkg(x) /\ i # Alias(x)
    OBVIOUS
  <2>1. CASE \E g : i = Stock(g)
    BY <1>1, <1>2, <2>1, NotInFeed, Kinds
  <2>2. CASE \E g : i = Legacy(g)
    BY <1>1, <1>2, <2>2, NotInFeed, Kinds
  <2>3. CASE i = Kernel
    BY <1>1, <1>2, <2>3, NotInFeed, Kinds
  <2> QED
    BY <1>11, <2>1, <2>2, <2>3
<1>6. Transaction'
  <2>1. \A i \in held : DependsOf(i) = {}
    BY <1>1, <1>2, <1>5, Dependencies
  <2> QED
    BY <1>2, <1>12, <2>1 DEF Transaction
<1>7. ASSUME NEW m \in Modules, NEW g \in Groups, owner'[m] = Legacy(g)
      PROVE  Legacy(g) \in installed' /\ m \in in.mods[g]
  <2>1. owner'[m] \in in_(m)
    BY <1>1, <1>7, Kinds
  <2>2. PICK h \in legacy : m \in in.mods[h] /\ owner'[m] = Legacy(h)
    BY <1>7, <2>1, Kinds DEF in_
  <2>3. h = g
    BY <1>7, <2>2, Kinds
  <2> QED
    BY <1>1, <1>11, <2>2, <2>3
<1>8. FilesOwned'
  BY <1>12, <1>5, <1>7 DEF FilesOwned
<1>9. RouterTypes'
  BY <1>2, <1>3, <1>4 DEF RouterTypes, Running
<1>10. Progress'
  BY <1>3, <1>4 DEF Progress
<1> QED
  BY <1>2, <1>6, <1>8, <1>9, <1>10 DEF RInv

LEMMA MigrateStep ==
  ASSUME RInv, NEW m \in Modules, Migrate(m) PROVE RInv'
<1>1. /\ mig.step = "idle" /\ m \in available
      /\ UNCHANGED <<vars, installed, owner, disk, active, migrated, budget>>
  BY DEF Migrate
<1>2. pc = "done" /\ PlanDone /\ PlanInv /\ EmitInv
  BY <1>1 DEF RInv, RouterTypes, PlanDone
<1>3. PICK N : N = Needed(ModulePkg(m))
  OBVIOUS
<1>4. mig' = [step |-> "install", target |-> m, left |-> {}, queue |-> N, unpacked |-> {}]
  BY <1>3 DEF Migrate
<1>5. /\ ModulePkg(m) \in N /\ N \subseteq NewIds
      /\ \A j \in N : DependsOf(j) \subseteq installed \cup N
  <2>1. ModuleIpk(m) \in emitted /\ ModuleIpk(m).id = ModulePkg(m)
    BY <1>1, <1>2, Asked
  <2>2. N = Needed(ModuleIpk(m).id)
    BY <1>3, <2>1
  <2>3. /\ ModuleIpk(m).id \in N /\ N \subseteq NewIds
        /\ \A j \in N : DependsOf(j) \subseteq installed \cup N
    BY <1>2, <2>1, <2>2, NeededComplete
  <2> QED
    BY <2>1, <2>3
<1>6. /\ PlanDone' /\ NewIds' = NewIds /\ available' = available /\ pc' = pc /\ in' = in
      /\ (\A i : DependsOf(i)' = DependsOf(i)) /\ \A x : Canonical(x)' = Canonical(x)
  BY <1>1, <1>2, Frozen
<1>7. RouterTypes'
  BY <1>1, <1>2, <1>4, <1>5, <1>6 DEF RInv, RouterTypes, Running
<1>8. FilesOwned'
  BY <1>1, <1>4, <1>6 DEF RInv, FilesOwned
<1>9. Transaction'
  BY <1>1, <1>4, <1>5, <1>6 DEF RInv, Transaction
<1>10. Progress'
  BY <1>1, <1>4, <1>5, <1>6 DEF RInv, Progress
<1> QED
  BY <1>6, <1>7, <1>8, <1>9, <1>10 DEF RInv

LEMMA UnpackStep ==
  ASSUME RInv, NEW i \in mig.queue, Unpack(i) PROVE RInv'
<1>1. /\ Running /\ UNCHANGED <<vars, installed, owner, active, migrated, budget>>
      /\ disk' = [m \in Modules |-> IF m \in ModuleOfPkg(i) THEN "new" ELSE disk[m]]
      /\ mig' = [mig EXCEPT !.queue = mig.queue \ {i}, !.unpacked = mig.unpacked \cup {i}]
  BY DEF Unpack, Ready, Running
<1>2. pc = "done" /\ PlanDone
  BY <1>1 DEF RInv, RouterTypes, Running
<1>3. /\ mig'.step = mig.step /\ mig'.target = mig.target /\ mig'.left = mig.left
      /\ mig'.queue = mig.queue \ {i} /\ mig'.unpacked = mig.unpacked \cup {i}
      /\ mig' \in [step : {"off", "idle", "install", "aliases", "alias"}, target : Modules \cup {""},
                  left : SUBSET Groups, queue : SUBSET NewIds, unpacked : SUBSET NewIds]
  BY <1>1 DEF RInv, RouterTypes
<1>4. mig'.queue \cup mig'.unpacked = mig.queue \cup mig.unpacked
  BY <1>3
<1>5. /\ PlanDone' /\ NewIds' = NewIds /\ available' = available /\ pc' = pc /\ in' = in
      /\ (\A j : DependsOf(j)' = DependsOf(j)) /\ \A x : Canonical(x)' = Canonical(x)
  BY <1>1, <1>2, Frozen
<1>6. RouterTypes'
  BY <1>1, <1>2, <1>3, <1>5 DEF RInv, RouterTypes, Running
<1>7. FilesOwned'
  <2>1. \A m \in Modules : disk[m] = "new" \/ i = ModulePkg(m) => disk'[m] = "new"
    BY <1>1 DEF ModuleOfPkg
  <2> QED
    BY <1>1, <1>3, <1>5, <2>1 DEF RInv, FilesOwned
<1>8. Transaction'
  BY <1>1, <1>4, <1>5 DEF RInv, Transaction
<1>9. Progress'
  BY <1>1, <1>3, <1>4, <1>5 DEF RInv, Progress
<1> QED
  BY <1>5, <1>6, <1>7, <1>8, <1>9 DEF RInv

(* Nothing that is installed but a generic package goes. *)
LEMMA StillInstalled ==
  ASSUME \A i \in installed : i \in installed' \/ \E g \in Groups : i = Legacy(g)
  PROVE  \A x : /\ ModulePkg(x) \in installed => ModulePkg(x) \in installed'
                /\ Alias(x) \in installed => Alias(x) \in installed'
BY Kinds

LEMMA OpkgEndsStep == ASSUME RInv, OpkgEnds PROVE RInv'
<1>1. /\ Running /\ mig.queue = {} /\ Record(mig.unpacked) /\ UNCHANGED <<vars, active, migrated, budget>>
      /\ mig' = [mig EXCEPT !.step = "aliases", !.unpacked = {},
                    !.left = IF mig.step = "install" THEN Canonical(mig.target) ELSE mig.left]
  BY DEF OpkgEnds, Running
<1>2. pc = "done" /\ PlanDone /\ PlanInv /\ EmitInv /\ mig.step # "off" /\ mig.step # "idle"
  BY <1>1 DEF RInv, RouterTypes, Running, PlanDone
<1>3. PICK t \in Modules : mig.target = t /\ t \in available
  <2>1. mig.target \in available
    BY <1>2 DEF RInv, Progress
  <2> QED
    BY <1>2, <2>1, Asked
<1>4. Canonical(t) \subseteq Groups
  BY <1>2, Asked
<1>5. /\ mig'.step = "aliases" /\ mig'.target = t /\ mig'.unpacked = {} /\ mig'.queue = {}
      /\ mig'.left = (IF mig.step = "install" THEN Canonical(t) ELSE mig.left)
      /\ mig' \in [step : {"off", "idle", "install", "aliases", "alias"}, target : Modules \cup {""},
                  left : SUBSET Groups, queue : SUBSET NewIds, unpacked : SUBSET NewIds]
  BY <1>1, <1>3, <1>4 DEF RInv, RouterTypes
<1>6. \A i \in mig.unpacked : DependsOf(i) \subseteq installed \cup mig.unpacked
  BY <1>1 DEF RInv, Transaction
<1>7. /\ mig.unpacked \subseteq installed'
      /\ \A i \in installed : i \in installed' \/ \E g \in Groups : i = Legacy(g)
      /\ \A i \in installed' : DependsOf(i) \subseteq installed'
      /\ \A m \in Modules : ModulePkg(m) \in installed' => owner'[m] = ModulePkg(m) /\ disk'[m] = "new"
      /\ \A m \in Modules, g \in Groups :
           owner'[m] = Legacy(g) => Legacy(g) \in installed' /\ m \in in.mods[g]
      /\ \A g \in Groups : Alias(g) \in installed' => Legacy(g) \notin installed'
  BY <1>1, <1>2, <1>6, Recorded
<1>8. \A x : /\ ModulePkg(x) \in installed => ModulePkg(x) \in installed'
             /\ Alias(x) \in installed => Alias(x) \in installed'
  BY <1>7, StillInstalled
<1>9. /\ PlanDone' /\ NewIds' = NewIds /\ available' = available /\ pc' = pc /\ in' = in
      /\ (\A j : DependsOf(j)' = DependsOf(j)) /\ \A x : Canonical(x)' = Canonical(x)
  BY <1>1, <1>2, Frozen
<1>10. RouterTypes'
  BY <1>1, <1>2, <1>5, <1>9 DEF RInv, RouterTypes, Running
<1>11. FilesOwned'
  BY <1>5, <1>7, <1>9 DEF FilesOwned
<1>12. Transaction'
  BY <1>5, <1>7, <1>9 DEF Transaction
<1>13. ModulePkg(t) \in installed' /\ mig'.left \subseteq Canonical(t)
       /\ \A g \in Canonical(t) : g \in mig'.left \/ Alias(g) \in installed'
  <2>1. CASE mig.step = "install"
    <3>1. ModulePkg(t) \in mig.unpacked
      BY <1>1, <1>3, <2>1 DEF RInv, Progress
    <3> QED
      BY <1>5, <1>7, <2>1, <3>1
  <2>2. CASE mig.step = "alias"
    <3>1. /\ ModulePkg(t) \in installed /\ mig.left \subseteq Canonical(t)
          /\ \A g \in Canonical(t) : g \in mig.left \/ Alias(g) \in installed \cup mig.unpacked
      BY <1>1, <1>3, <2>2 DEF RInv, Progress
    <3> QED
      BY <1>5, <1>7, <1>8, <2>2, <3>1
  <2> QED
    BY <1>1, <2>1, <2>2 DEF Running
<1>14. ASSUME NEW m \in migrated
       PROVE  ModulePkg(m) \in installed' /\ \A g \in Canonical(m) : Alias(g) \in installed'
  BY <1>8, <1>14 DEF RInv, Progress, RouterTypes
<1>15. Progress'
  BY <1>1, <1>3, <1>5, <1>9, <1>13, <1>14 DEF Progress
<1> QED
  BY <1>9, <1>10, <1>11, <1>12, <1>15 DEF RInv

(* The script ends, wherever it is. *)
LEMMA AtRestStep ==
  ASSUME RInv, mig.step # "off", mig' = AtRest, UNCHANGED vars, migrated' = migrated,
         \/ UNCHANGED <<installed, owner, disk>>
         \/ /\ Record(mig.unpacked)
            /\ \A i \in mig.unpacked : DependsOf(i) \subseteq installed \cup mig.unpacked
  PROVE  RInv'
<1>1. /\ mig'.step = "idle" /\ mig'.queue = {} /\ mig'.unpacked = {}
      /\ mig' \in [step : {"off", "idle", "install", "aliases", "alias"}, target : Modules \cup {""},
                  left : SUBSET Groups, queue : SUBSET NewIds, unpacked : SUBSET NewIds]
  BY DEF AtRest
<1>2. pc = "done" /\ PlanDone
  BY DEF RInv, RouterTypes
<1>3. /\ \A i \in installed : i \in installed' \/ \E g \in Groups : i = Legacy(g)
      /\ \A i \in installed' : DependsOf(i) \subseteq installed'
      /\ \A m \in Modules : ModulePkg(m) \in installed' => owner'[m] = ModulePkg(m) /\ disk'[m] = "new"
      /\ \A m \in Modules, g \in Groups :
           owner'[m] = Legacy(g) => Legacy(g) \in installed' /\ m \in in.mods[g]
      /\ \A g \in Groups : Alias(g) \in installed' => Legacy(g) \notin installed'
  <2>1. CASE UNCHANGED <<installed, owner, disk>>
    BY <2>1 DEF RInv, FilesOwned, Transaction
  <2>2. CASE /\ Record(mig.unpacked)
             /\ \A i \in mig.unpacked : DependsOf(i) \subseteq installed \cup mig.unpacked
    BY <1>2, <2>2, Recorded
  <2> QED
    BY <2>1, <2>2
<1>4. /\ PlanDone' /\ NewIds' = NewIds /\ available' = available /\ pc' = pc /\ in' = in
      /\ (\A j : DependsOf(j)' = DependsOf(j)) /\ \A x : Canonical(x)' = Canonical(x)
  BY <1>2, Frozen
<1>5. \A x : /\ ModulePkg(x) \in installed => ModulePkg(x) \in installed'
             /\ Alias(x) \in installed => Alias(x) \in installed'
  BY <1>3, StillInstalled
<1>6. RouterTypes'
  BY <1>1, <1>2, <1>4 DEF RInv, RouterTypes, Running
<1>7. FilesOwned'
  BY <1>1, <1>3, <1>4 DEF FilesOwned
<1>8. Transaction'
  BY <1>1, <1>3, <1>4 DEF Transaction
<1>9. Progress'
  BY <1>1, <1>4, <1>5 DEF RInv, Progress
<1> QED
  BY <1>4, <1>6, <1>7, <1>8, <1>9 DEF RInv

LEMMA OpkgFailsStep == ASSUME RInv, OpkgFails PROVE RInv'
<1>1. mig.step # "off"
  BY DEF OpkgFails, Ready
<1> QED
  BY <1>1, AtRestStep DEF OpkgFails

LEMMA CrashStep ==
  ASSUME RInv, NEW loaded \in SUBSET Modules, Crash(loaded) PROVE RInv'
BY AtRestStep DEF Crash

LEMMA InstallAliasStep ==
  ASSUME RInv, NEW g \in mig.left, InstallAlias(g) PROVE RInv'
<1>1. /\ mig.step = "aliases" /\ UNCHANGED <<vars, installed, owner, disk, active, migrated, budget>>
  BY DEF InstallAlias
<1>2. pc = "done" /\ PlanDone /\ PlanInv /\ EmitInv /\ mig.queue = {} /\ mig.unpacked = {}
  BY <1>1 DEF RInv, RouterTypes, Running, PlanDone
<1>3. PICK t \in Modules : mig.target = t /\ t \in available
  <2>1. mig.target \in available
    BY <1>1 DEF RInv, Progress
  <2> QED
    BY <1>2, <2>1, Asked
<1>4. /\ ModulePkg(t) \in installed /\ mig.left \subseteq Canonical(t)
      /\ \A h \in Canonical(t) : h \in mig.left \/ Alias(h) \in installed
  BY <1>1, <1>2, <1>3 DEF RInv, Progress
<1>5. PICK N : N = Needed(Alias(g))
  OBVIOUS
<1>6. /\ Alias(g) \in N /\ N \subseteq NewIds
      /\ \A j \in N : DependsOf(j) \subseteq installed \cup N
  <2>1. MetaIpk(g) \in emitted /\ MetaIpk(g).id = Alias(g)
    BY <1>2, <1>4, Asked
  <2>2. N = Needed(MetaIpk(g).id)
    BY <1>5, <2>1
  <2>3. /\ MetaIpk(g).id \in N /\ N \subseteq NewIds
        /\ \A j \in N : DependsOf(j) \subseteq installed \cup N
    BY <1>2, <2>1, <2>2, NeededComplete
  <2> QED
    BY <2>1, <2>3
<1>7. /\ mig'.step = "alias" /\ mig'.target = t /\ mig'.left = mig.left \ {g}
      /\ mig'.queue = N /\ mig'.unpacked = {}
      /\ mig' \in [step : {"off", "idle", "install", "aliases", "alias"}, target : Modules \cup {""},
                  left : SUBSET Groups, queue : SUBSET NewIds, unpacked : SUBSET NewIds]
  <2>1. mig' = [mig EXCEPT !.step = "alias", !.left = mig.left \ {g}, !.queue = N]
    BY <1>5 DEF InstallAlias
  <2> QED
    BY <1>2, <1>3, <1>6, <2>1 DEF RInv, RouterTypes
<1>8. /\ PlanDone' /\ NewIds' = NewIds /\ available' = available /\ pc' = pc /\ in' = in
      /\ (\A j : DependsOf(j)' = DependsOf(j)) /\ \A x : Canonical(x)' = Canonical(x)
  BY <1>1, <1>2, Frozen
<1>9. RouterTypes'
  BY <1>1, <1>2, <1>7, <1>8 DEF RInv, RouterTypes, Running
<1>10. FilesOwned'
  BY <1>1, <1>7, <1>8 DEF RInv, FilesOwned
<1>11. Transaction'
  BY <1>1, <1>6, <1>7, <1>8 DEF RInv, Transaction
<1>12. Progress'
  BY <1>1, <1>3, <1>4, <1>6, <1>7, <1>8 DEF RInv, Progress
<1> QED
  BY <1>8, <1>9, <1>10, <1>11, <1>12 DEF RInv

LEMMA FinishStep == ASSUME RInv, Finish PROVE RInv'
<1>1. /\ mig.step = "aliases" /\ mig.left = {} /\ mig' = AtRest
      /\ UNCHANGED <<vars, installed, owner, disk, active, budget>>
      /\ migrated' \subseteq migrated \cup {mig.target}
  BY DEF Finish
<1>2. pc = "done" /\ PlanDone /\ PlanInv /\ EmitInv /\ mig.queue = {} /\ mig.unpacked = {}
  BY <1>1 DEF RInv, RouterTypes, Running, PlanDone
<1>3. PICK t \in Modules : mig.target = t /\ t \in available
  <2>1. mig.target \in available
    BY <1>1 DEF RInv, Progress
  <2> QED
    BY <1>2, <2>1, Asked
<1>4. ModulePkg(t) \in installed /\ \A g \in Canonical(t) : Alias(g) \in installed
  BY <1>1, <1>2, <1>3 DEF RInv, Progress
<1>5. /\ mig'.step = "idle" /\ mig'.queue = {} /\ mig'.unpacked = {}
      /\ mig' \in [step : {"off", "idle", "install", "aliases", "alias"}, target : Modules \cup {""},
                  left : SUBSET Groups, queue : SUBSET NewIds, unpacked : SUBSET NewIds]
  BY <1>1 DEF AtRest
<1>6. /\ PlanDone' /\ NewIds' = NewIds /\ available' = available /\ pc' = pc /\ in' = in
      /\ (\A j : DependsOf(j)' = DependsOf(j)) /\ \A x : Canonical(x)' = Canonical(x)
  BY <1>1, <1>2, Frozen
<1>7. RouterTypes'
  BY <1>1, <1>2, <1>3, <1>5, <1>6 DEF RInv, RouterTypes, Running
<1>8. FilesOwned' /\ Transaction'
  BY <1>1, <1>5, <1>6 DEF RInv, FilesOwned, Transaction
<1>9. Progress'
  BY <1>1, <1>3, <1>4, <1>5, <1>6 DEF RInv, Progress
<1> QED
  BY <1>6, <1>7, <1>8, <1>9 DEF RInv

LEMMA LoadStep ==
  ASSUME RInv, UNCHANGED <<vars, installed, owner, disk, mig, migrated>> PROVE RInv'
<1>1. /\ PlanDone' /\ NewIds' = NewIds /\ available' = available /\ pc' = pc /\ in' = in
      /\ (\A j : DependsOf(j)' = DependsOf(j)) /\ \A x : Canonical(x)' = Canonical(x)
  BY Frozen DEF RInv
<1>2. RouterTypes' /\ FilesOwned'
  BY <1>1 DEF RInv, RouterTypes, Running, FilesOwned
<1>3. Transaction' /\ Progress'
  BY <1>1 DEF RInv, Transaction, Progress
<1> QED
  BY <1>1, <1>2, <1>3 DEF RInv

LEMMA RStep == RInv /\ [RNext]_allVars => RInv'
<1> SUFFICES ASSUME RInv, [RNext]_allVars PROVE RInv'
  OBVIOUS
<1>1. CASE Plan
  BY <1>1, PlanStep
<1>2. CASE ScriptStep
  BY <1>2, UnpackStep, OpkgEndsStep, OpkgFailsStep, FinishStep, InstallAliasStep DEF ScriptStep
<1>3. CASE Attempt
  BY <1>3, MigrateStep DEF Attempt
<1>4. CASE \E l \in Legacies, a \in SUBSET Modules, k \in BOOLEAN : Boot(l, a, k)
  BY <1>4, BootStep
<1>5. CASE \E a \in SUBSET Modules : Crash(a)
  BY <1>5, CrashStep
<1>6. CASE (\E m \in Modules : Load(m) \/ Unload(m)) \/ UNCHANGED allVars
  BY <1>6, LoadStep DEF Load, Unload, allVars, rvars
<1> QED
  BY <1>1, <1>2, <1>3, <1>4, <1>5, <1>6 DEF RNext

LEMMA RInductive == RSpec => []RInv
BY RInitInv, RStep, PTL DEF RSpec

-----------------------------------------------------------------------------
(* A module that migrate-kernel-package.sh reported as migrated keeps its  *)
(* new file, its exact-ABI package and the aliases of its names, whatever  *)
(* later migrations, failures and power cuts do.                           *)
THEOREM MigrationsStayComplete == RSpec => []MigrationComplete
<1> SUFFICES ASSUME RInv PROVE MigrationComplete
  BY RInductive, PTL
<1> SUFFICES ASSUME NEW m \in migrated
             PROVE  /\ disk[m] = "new" /\ owner[m] = ModulePkg(m) /\ ModulePkg(m) \in installed
                    /\ \A g \in Offered(m) \ in.stock :
                         Alias(g) \in installed /\ Legacy(g) \notin installed
  BY DEF MigrationComplete
<1>1. m \in Modules /\ mig.step # "off" /\ pc = "done"
  BY DEF RInv, RouterTypes
<1>2. ModulePkg(m) \in installed /\ \A g \in Canonical(m) : Alias(g) \in installed
  BY <1>1 DEF RInv, Progress
<1>3. disk[m] = "new" /\ owner[m] = ModulePkg(m)
  BY <1>1, <1>2 DEF RInv, FilesOwned
<1>4. ASSUME NEW g \in Offered(m) \ in.stock
      PROVE  Alias(g) \in installed /\ Legacy(g) \notin installed
  <2>1. g \in Canonical(m)
    BY DEF Canonical
  <2>2. g \in Groups
    BY <1>1, <2>1, Asked DEF RInv, PlanDone
  <2> QED
    BY <1>2, <2>1, <2>2 DEF RInv, FilesOwned
<1> QED
  BY <1>2, <1>3, <1>4

(* After a failed preinst, a refused file or a power cut between the two   *)
(* opkg commands, every package in the status file still has what it       *)
(* depends on and its own file.                                            *)
THEOREM StatusStaysConsistent == RSpec => []StatusConsistent
<1>1. RInv => StatusConsistent
  BY DEF RInv, Transaction, FilesOwned, StatusConsistent, ModuleOfPkg
<1> QED
  BY <1>1, RInductive, PTL

(* The generic packages on the router have no file of a module that the    *)
(* profile's kernel has compiled in.                                       *)
NoBuiltinFiles ==
  \A i \in RouterInputs, l \in Legacies : \A g \in l : i.mods[g] \cap i.builtin = {}

LegacyFiles ==
  mig.step # "off" => \A g \in Groups : Legacy(g) \in installed => in.mods[g] \cap in.builtin = {}

LEMMA LegacyFilesStep ==
  ASSUME NoBuiltinFiles, RInv, LegacyFiles, [RNext]_allVars
  PROVE  LegacyFiles'
<1>1. CASE Plan \/ UNCHANGED allVars
  <2>1. mig' = mig /\ installed' = installed
    BY <1>1 DEF Plan, rvars, allVars
  <2>2. mig.step # "off" => in' = in
    BY <1>1 DEF RInv, RouterTypes, Plan, allVars, vars, Next, Inventory, Select, Drop, Settle,
                EmitModules, EmitMetas, EmitRest
  <2> QED
    BY <2>1, <2>2 DEF LegacyFiles
<1>2. ASSUME NEW l \in Legacies, NEW a \in SUBSET Modules, NEW k \in BOOLEAN, Boot(l, a, k)
      PROVE  LegacyFiles'
  <2>1. /\ in \in RouterInputs /\ in' = in
        /\ installed' = {Stock(g) : g \in in.stock} \cup {Legacy(g) : g \in l}
                          \cup (IF k THEN {Kernel} ELSE {})
    BY <1>2 DEF Boot, vars
  <2>2. \A g \in Groups : Legacy(g) \in installed' => g \in l
    BY <2>1, Kinds
  <2> QED
    BY <2>1, <2>2 DEF LegacyFiles, NoBuiltinFiles
<1>3. CASE mig.step # "off" /\ in' = in /\ installed' \subseteq installed \cup NewIds
  <2>1. \A g : Legacy(g) \notin NewIds
    BY <1>3, NotInFeed DEF RInv, RouterTypes, PlanDone
  <2> QED
    BY <1>3, <2>1 DEF LegacyFiles
<1>4. CASE Attempt \/ ScriptStep \/ (\E a \in SUBSET Modules : Crash(a))
           \/ (\E m \in Modules : Load(m))
  <2>1. mig.step # "off" /\ in' = in
    BY <1>4 DEF Attempt, Migrate, ScriptStep, Unpack, Ready, OpkgEnds, OpkgFails, Finish,
                InstallAlias, Crash, Load, vars
  <2>2. installed' \subseteq installed \cup mig.unpacked
    BY <1>4 DEF Attempt, Migrate, ScriptStep, Unpack, OpkgEnds, OpkgFails, Finish,
                InstallAlias, Crash, Load, Record
  <2>3. mig.unpacked \subseteq NewIds
    BY DEF RInv, RouterTypes
  <2> QED
    BY <1>3, <2>1, <2>2, <2>3
<1>5. CASE \E m \in Modules : Unload(m)
  BY <1>5 DEF Unload, vars, LegacyFiles
<1> QED
  BY <1>1, <1>2, <1>4, <1>5 DEF RNext

(* An upgrade to an alias takes no file of a generic package away: the     *)
(* alias depends on the module packages of every file the generic one had. *)
LEMMA RecordKeepsFile ==
  ASSUME RInv, LegacyFiles, mig.step # "off", Record(mig.unpacked),
         \A i \in mig.unpacked : DependsOf(i) \subseteq installed \cup mig.unpacked,
         NEW m \in Modules, NEW g \in Groups, owner[m] = Legacy(g)
  PROVE  disk'[m] = disk[m]
<1>1. pc = "done" /\ PlanDone /\ PlanInv /\ EmitInv /\ mig.unpacked \subseteq NewIds
  BY DEF RInv, RouterTypes, PlanDone
<1>2. Legacy(g) \in installed /\ m \in in.mods[g] /\ m \notin in.builtin
  BY DEF RInv, FilesOwned, LegacyFiles
<1>3. ModulePkg(m) \notin installed
  BY Kinds DEF RInv, FilesOwned
<1>4. ASSUME Alias(g) \in mig.unpacked PROVE ModulePkg(m) \in mig.unpacked
  <2>1. PICK e \in emitted : e.id = Alias(g)
    BY <1>1, <1>4, Kinds DEF NewIds
  <2>2. PICK p : p = Package(Alias(g)) /\ p \in emitted /\ p.id = Alias(g)
    BY <1>1, <2>1, Dependencies
  <2>3. g \in selected /\ p = MetaIpk(g)
    BY <1>1, <2>2, AliasPackage
  <2>4. m \in available
    <3>1. Selectable(g)
      BY <1>1, <2>3 DEF PlanInv, Planned, Candidate
    <3> QED
      BY <1>2, <3>1 DEF Selectable
  <2>5. Dep(ModulePkg(m), Upgraded) \in p.depends
    BY <1>2, <2>3, <2>4 DEF MetaIpk
  <2>6. DependsOf(Alias(g)) = {d.id : d \in p.depends}
    BY <2>1, <2>2 DEF DependsOf
  <2>7. ModulePkg(m) \in DependsOf(Alias(g))
    BY <2>5, <2>6 DEF Dep
  <2> QED
    BY <1>3, <1>4, <2>7
<1>5. NewOwner(mig.unpacked)[m] # Nobody
  <2>1. CASE ModulePkg(m) \in mig.unpacked
    BY <2>1, Kinds DEF NewOwner
  <2>2. CASE ModulePkg(m) \notin mig.unpacked
    <3>1. owner[m] \notin ReplacedBy(mig.unpacked)
      BY <1>4, <2>2, Kinds DEF ReplacedBy
    <3> QED
      BY <2>2, <3>1, Kinds DEF NewOwner
  <2> QED
    BY <2>1, <2>2
<1> QED
  BY <1>5 DEF Record

(* While a module of a generic package is in use, no step of the script    *)
(* replaces or deletes its file: guard() stops the module package, and an  *)
(* alias comes only after it.                                              *)
THEOREM ActiveFilesKept ==
  ASSUME NoBuiltinFiles PROVE RSpec => ActiveKept
<1>1. RInit => LegacyFiles
  BY DEF RInit, AtRest, LegacyFiles
<1>2. RInv /\ LegacyFiles /\ [RNext]_allVars => LegacyFiles'
  BY LegacyFilesStep
<1>3. ASSUME RInv, LegacyFiles, RNext, NEW m \in active, NEW g \in Groups,
             owner[m] = Legacy(g), mig.step # "off", m \in Modules
      PROVE  disk'[m] = disk[m]
  <2>1. Legacy(g) \in installed /\ m \in in.mods[g]
    BY <1>3 DEF RInv, FilesOwned
  <2>2. ASSUME NEW i \in mig.queue, Unpack(i) PROVE disk'[m] = disk[m]
    <3>1. m \notin ModuleOfPkg(i)
      BY <1>3, <2>1, <2>2 DEF Unpack, Guard
    <3> QED
      BY <1>3, <2>2, <3>1 DEF Unpack
  <2>3. CASE OpkgEnds
    <3>1. \A i \in mig.unpacked : DependsOf(i) \subseteq installed \cup mig.unpacked
      BY <1>3, <2>3 DEF OpkgEnds, RInv, Transaction
    <3> QED
      BY <1>3, <2>3, <3>1, RecordKeepsFile DEF OpkgEnds
  <2>4. CASE OpkgFails
    BY <1>3, <2>4, RecordKeepsFile DEF OpkgFails
  <2>5. CASE ScriptStep
    BY <2>2, <2>3, <2>4, <2>5 DEF ScriptStep, Finish, InstallAlias
  <2>6. CASE Plan \/ Attempt \/ (\E a \in SUBSET Modules : Crash(a))
             \/ (\E x \in Modules : Load(x) \/ Unload(x))
    BY <2>6 DEF Plan, rvars, Attempt, Migrate, Crash, Load, Unload
  <2>7. CASE \E l \in Legacies, a \in SUBSET Modules, k \in BOOLEAN : Boot(l, a, k)
    BY <1>3, <2>7 DEF Boot
  <2> QED
    BY <1>3, <2>5, <2>6, <2>7 DEF RNext
<1>4. RInit => active \subseteq Modules
  BY DEF RInit
<1>5. active \subseteq Modules /\ [RNext]_allVars => (active \subseteq Modules)'
  BY DEF RNext, allVars, rvars, Plan, ScriptStep, Unpack, OpkgEnds, OpkgFails, Finish,
         InstallAlias, Attempt, Migrate, Boot, Crash, Load, Unload
<1>6. RInv /\ LegacyFiles /\ active \subseteq Modules /\ [RNext]_allVars
        => [\A m \in active, g \in Groups :
              owner[m] = Legacy(g) /\ mig.step # "off" => disk'[m] = disk[m]]_allVars
  BY <1>3
<1> QED
  BY <1>1, <1>2, <1>4, <1>5, <1>6, RInductive, PTL DEF RSpec, ActiveKept
=============================================================================
