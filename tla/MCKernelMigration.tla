------------------------- MODULE MCKernelMigration -------------------------
(* Instance for TLC: three groups over two modules, with *)
(* every dependency between them, cycles included, every firmware, every    *)
(* choice of builtin, packaged, staged and ambiguous modules.               *)
EXTENDS KernelMigration

G == {"a", "b", "c"}
M == {"m", "n"}

Mods == {f \in [G -> SUBSET M] : "m" \in f["a"] /\ f["b"] \in {{"n"}, {}} /\ "n" \in f["c"]}
Depends == {f \in [G -> SUBSET G] : (\A g \in G : g \notin f[g]) /\ "b" \notin f["c"]}
Rows == { {<<"m", 1, TRUE>>}, {<<"m", 1, TRUE>>, <<"n", 1, TRUE>>},
          {<<"n", 1, TRUE>>, <<"m", 1, FALSE>>},
          {<<"m", 1, TRUE>>, <<"m", 2, TRUE>>} }

MCInputs ==
  [mods : Mods, depends : Depends, unfit : {{}, {"b"}}, stock : SUBSET G, rows : Rows,
   builtin : {{}, {"n"}}, needs : [M -> SUBSET M] \cap {f \in [M -> SUBSET M] : f["n"] = {} /\ "m" \notin f["m"]}]

(* The routers: both modules packaged and in groups of one and of two, m    *)
(* needing n or not, a firmware that may have b, groups in a cycle or not.  *)
MCRouterInputs ==
  {i \in MCInputs : /\ i.rows = {<<"m", 1, TRUE>>, <<"n", 1, TRUE>>}
                    /\ i.unfit = {} /\ i.builtin = {} /\ i.stock \in {{}, {"b"}}
                    /\ i.mods["a"] = {"m"}
                    /\ i.depends["b"] = {} /\ "c" \in i.depends["a"]}
MCLegacies == SUBSET {"a", "c"}
=============================================================================
