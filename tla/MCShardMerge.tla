---------------------------- MODULE MCShardMerge ----------------------------
(* Instance of ShardMerge for TLC: three shards, four enabled recipes, one  *)
(* with two packages, one built along with others, a kmod, gcc not enabled. *)
EXTENDS ShardMerge

MCPackages == {"lib", "app", "app-doc", "tool", "util", "gcc", "kmod-x"}
MCRecipeOf == [p \in MCPackages |->
                 CASE p = "lib" -> 2 [] p = "tool" -> 3 [] p = "util" -> 4 [] p = "kmod-x" -> 5
                   [] p = "gcc" -> 6 [] OTHER -> 1]
MCNeeds == [p \in MCPackages |->
              CASE p = "app" -> {"lib", "kmod-x"} [] p = "tool" -> {"lib"} [] OTHER -> {}]
MCSectionOf == [p \in MCPackages |-> IF p = "lib" THEN "base" ELSE "packages"]

MCEnabled == MCPackages \ {"gcc"}

(* A repair in place, one of a package that failed, one that moves a       *)
(* package, two runs with one name, another version, and unfit packages.   *)
R(p, by, v, s, ok) == [pkg |-> p, by |-> by, ver |-> v, sec |-> s, ok |-> ok]
MCRepairs ==
  { {},
    {R("app", 3, 1, "packages", TRUE)},
    {R("lib", 3, 1, "packages", TRUE), R("app", 3, 1, "packages", TRUE)},
    {R("lib", 3, 1, "packages", TRUE), R("lib", 4, 1, "base", TRUE)},
    {R("lib", 3, 1, "base", TRUE), R("lib", 4, 2, "base", TRUE)},
    {R("tool", 3, 2, "packages", TRUE)},
    {R("tool", 3, 1, "packages", FALSE)},
    {R("kmod-x", 3, 1, "packages", TRUE)},
    {R("gcc", 3, 1, "packages", TRUE)} }
=============================================================================
