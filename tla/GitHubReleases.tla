--------------------------- MODULE GitHubReleases ---------------------------
(***************************************************************************)
(* The part of the GitHub Releases service that the two publishers of this *)
(* repository (scripts/publish-components.py, publish-release-feed.py) rely *)
(* on.  It is external: the rules below are read off the calls they make.  *)
(*                                                                         *)
(* All releases of a model carry ONE tag: tags are content addressed and   *)
(* two tags never meet.  A tag is not reserved by a draft, so several      *)
(* drafts may carry it; which of them a listing shows first and which one  *)
(* the `gh release <verb> <tag>` commands pick is the service's choice,    *)
(* fixed in `lookup' for a whole behaviour but otherwise unknown.          *)
(***************************************************************************)
EXTENDS Naturals

CONSTANTS ReleaseIds,   \* numeric ids of the releases carrying the tag
          Files,        \* asset names; numbered, so that sorted() is <
          Contents,     \* what a whole asset can hold (a digest stands for it)
          Lookups       \* orders in which the service may resolve a tag

Absent == "absent"      \* no asset of that name
Torn   == "starter"     \* an upload the service broke off: an empty asset

NonEmptySubsets == (SUBSET ReleaseIds) \ {{}}

ASSUME FilesAssumption == Files \subseteq Nat
ASSUME ContentsAssumption == Absent \notin Contents /\ Torn \notin Contents
ASSUME LookupsAssumption ==
  \A f \in Lookups :
    /\ f \in [NonEmptySubsets -> ReleaseIds]
    /\ \A S \in NonEmptySubsets : f[S] \in S

Release == [st     : {"none", "draft", "public"},
            assets : [Files -> Contents \cup {Absent, Torn}]]

NoAssets == [n \in Files |-> Absent]

Stored(rel) == {n \in Files : rel.assets[n] # Absent}

Existing(rels) == {i \in ReleaseIds : rels[i].st # "none"}

Public(rels) == {i \in ReleaseIds : rels[i].st = "public"}

(* `next((r for page in pages for r in page if r['tag_name'] == tag), None)' *)
FirstListed(rels, lookup) == lookup.list[Existing(rels)]

(* `gh release upload|edit|download <tag>' reads releases/tags/<tag>, which *)
(* knows published releases only, and looks among the drafts when it fails. *)
ByTag(rels, lookup) ==
  IF Public(rels) # {} THEN lookup.tag[Public(rels)]
                       ELSE lookup.tag[Existing(rels)]

(* An upload without --clobber adds assets and replaces none. *)
Add(rel, new) ==
  [rel EXCEPT !.assets = [n \in Files |->
                            IF n \in DOMAIN new THEN new[n] ELSE rel.assets[n]]]
=============================================================================
