----------------------------- MODULE MCSiteFeed -----------------------------
(* A version is a sequence of numbers: 1.9 < 1.10 < 2.  Digests name a     *)
(* package, a version and the build.                                       *)
EXTENDS SiteFeed

R(p, v, s, d) == [pkg |-> p, ver |-> v, section |-> s, sha |-> d, origin |-> s]
Pin(p, v, d, url) == [R(p, v, "archive", d) EXCEPT !.origin = url]
T(n, o, v) == [name |-> n, op |-> o, ver |-> v]

MCPackages == {"ovpn", "nossl", "app", "jansson", "lib"}
MCVersions == {<<1, 9>>, <<1, 10>>, <<2>>}
MCRank == (<<1, 9>> :> 1) @@ (<<1, 10>> :> 2) @@ (<<2>> :> 3)
MCDigests == {"ovpn1", "ovpn2", "nossl", "app9", "app10", "app10b", "app2",
              "jansson9", "jansson10", "lib"}
Ovpn == R("ovpn", <<1, 10>>, "base", "ovpn2")
Lib == R("lib", <<1, 9>>, "luci", "lib")
MCSnapshot == {Ovpn}
MCBootstrap == {Ovpn, R("app", <<1, 9>>, "packages", "app9"), Lib,
                R("jansson", <<1, 10>>, "asterisk-20", "jansson10")}
(* An old build with openvpn-nossl; one with a newer application and a     *)
(* jansson that is also Asterisk's; one without lib, refused.               *)
MCSharedFeeds ==
  {{R("ovpn", <<1, 9>>, "base", "ovpn1"), R("nossl", <<1, 9>>, "base", "nossl"), Lib},
   {Ovpn, R("app", <<1, 10>>, "base", "app10b"), Lib,
    R("jansson", <<1, 10>>, "packages", "jansson10")},
   {R("app", <<2>>, "packages", "app2")}}
MCAsteriskBuilds ==
  {[entries |-> {R("jansson", v, "asterisk-20", d)}, raw |-> raw] :
     <<v, d>> \in {<<<<1, 10>>, "jansson10">>, <<<<1, 9>>, "jansson9">>},
     raw \in {{}, {"lib"}}}
(* Two pins that are files of the site, one of them in luci; one of a      *)
(* release; an OpenVPN newer than the snapshot.                            *)
MCPinSets == {{Pin("app", <<1, 9>>, "app9", "packages"), Pin("lib", <<1, 9>>, "lib", "luci")},
              {Pin("app", <<1, 10>>, "app10", "release")},
              {Pin("ovpn", <<2>>, "ovpn1", "release")}}
MCLegacy == <<1, 9>>
MCAsteriskVersion == "jansson" :> <<1, 10>>
MCProvides == [p \in MCPackages |->
  CASE p = "ovpn" -> {[name |-> "tunnel", ver |-> <<1, 9>>]}
    [] p = "nossl" -> {[name |-> "tunnel", ver |-> <<>>]}
    [] OTHER -> {}]
MCDepends == [p \in MCPackages |->
  CASE p = "jansson" -> {{T("lib", "", <<>>)}}
    [] p = "app" -> {{T("lib", ">=", <<1, 9>>)},
                     {T("tunnel", "=", <<1, 10>>), T("vendor", "", <<>>)}}
    [] p = "lib" -> {{T("app", "<=", <<1, 10>>), T("nossl", "", <<>>)}}
    [] OTHER -> {}]
MCPlace == "ovpn" :> 0 @@ "nossl" :> 1 @@ "app" :> 2 @@ "lib" :> 3 @@ "jansson" :> 4
=============================================================================
