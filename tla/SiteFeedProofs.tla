--------------------------- MODULE SiteFeedProofs ---------------------------
(***************************************************************************)
(* Proofs about SiteFeed for every feed, manifest, number of workers and   *)
(* faults.                                                                 *)
(***************************************************************************)
EXTENDS SiteFeed, FiniteSetTheorems, TLAPS

-----------------------------------------------------------------------------
(* What a set of records has to be, wherever it is in the pipeline. *)

Asterisk(r) == r.section = "asterisk-20"

OneEach(rows) ==
  \A r, q \in rows : r.pkg = q.pkg /\ ~Asterisk(r) /\ ~Asterisk(q) => r = q

Resolves(rows) ==
  \A r \in rows : Asterisk(r) => \A g \in Depends[r.pkg] : \E t \in g : t.name \in Names(rows)

(* A package of a section that overlay() leaves alone is as a build made   *)
(* it and none of the snapshot's, if it is a shared one; an Asterisk       *)
(* package needs no openvpn-nossl.                                         *)
Untouched == {"luci", "asterisk-20"}
Proper(r) ==
  /\ r.section \in Untouched => Genuine(r)
  /\ r.section = "luci" => r.pkg \notin Names(Snapshot)
  /\ Asterisk(r) => \A g \in Depends[r.pkg] : \A t \in g : t.name # Removed

Good(rows) ==
  /\ rows \subseteq Record
  /\ \A r \in rows : r.section \in Sections /\ Proper(r)
  /\ OneEach(rows) /\ Resolves(rows)

-----------------------------------------------------------------------------
(* The parts of the inductive invariant. *)

Entry == [rec : Record, file : Digests \cup {"partial"}]

Types ==
  /\ pins \in PinSets
  /\ saved \in Files /\ cache \in Files
  /\ run \in [step : Steps, source : {"site", "build"}]
  /\ IF run.step = "idle" THEN DOMAIN jobs = {} ELSE jobs \in [live \cup pins -> Job]
  /\ baseline \subseteq Entry
  /\ faults \in 0 .. MaxFaults

Feeds ==
  /\ asterisk \subseteq Record /\ \A r \in asterisk : Asterisk(r) /\ Genuine(r) /\ Proper(r)
  /\ Good(built) /\ \A r \in built : Genuine(r)
  /\ Good(live)

(* The run's feed: as good as its records, one file for each. *)
OneEntry == \A e, d \in baseline :
              e.rec.pkg = d.rec.pkg /\ ~Asterisk(e.rec) /\ ~Asterisk(d.rec) => e = d
FeedOk == Good(Recs(baseline)) /\ OneEntry

(* The pool: pins start when every record has started, one by one. *)
PinsLast ==
  /\ \A r, q \in DOMAIN jobs : r.section = "archive" /\ jobs[r].at # "queued" /\ q.section # "archive"
                                 => jobs[q].at # "queued"
  /\ \A r, q \in InFlight : r.section = "archive" => r = q

(* A file is copied from the cache when it is there; whole, unless two     *)
(* records share it.                                                       *)
Alone(r) == \A q \in live : q.sha = r.sha => q = r
Fetched(r) ==
  /\ jobs[r].at = "copy" => cache[r.sha] # "none" /\ (Alone(r) => cache[r.sha] = r.sha)
  /\ jobs[r].at = "done" => jobs[r].file # "none" /\ (Alone(r) => jobs[r].file = r.sha)

JobsOk ==
  /\ PinsLast
  /\ \A r \in DOMAIN jobs : Fetched(r)
  /\ run.step \notin {"idle", "fetch"} => \A r \in DOMAIN jobs : jobs[r].at = "done"

(* The feed is genuine where what was fetched is. *)
GenuineOk ==
  \A e \in baseline : ~Doubtful(e.rec.pkg) =>
    Genuine(e.rec) /\ (run.step = "overlay" => e.file = e.rec.sha)

IndInv == Types /\ Feeds /\ FeedOk /\ JobsOk /\ GenuineOk

(* The versions of a run without a build. *)
Covers(rows, old) == \A r \in old : r.pkg # Removed => AtLeast(r, rows)
VersionsOk ==
  /\ run.step = "adopt" => run.source = "build"
  /\ run.source = "site" /\ run.step \in {"overlay", "prepare", "deploy"} => Covers(Recs(baseline), live)
  /\ run.step = "deploy" => \A p \in pins : AtLeast(p, Recs(baseline))
-----------------------------------------------------------------------------
(* Records. *)

LEMMA RecordChange ==
  ASSUME NEW r \in Record
  PROVE  /\ \A o \in Origins :
              LET x == [r EXCEPT !.origin = o] IN
              x \in Record /\ x.pkg = r.pkg /\ x.ver = r.ver /\ x.sha = r.sha /\ x.section = r.section
         /\ \A c \in Sections :
              LET x == [r EXCEPT !.section = c] IN
              x \in Record /\ x.pkg = r.pkg /\ x.ver = r.ver /\ x.sha = r.sha /\ x.section = c
         /\ \A d \in Digests \cup {"partial"} :
              LET x == [r EXCEPT !.sha = d] IN
              x \in Record /\ x.pkg = r.pkg /\ x.ver = r.ver /\ x.sha = d /\ x.section = r.section
BY DEF Record

LEMMA InputsTyped ==
  /\ Bootstrap \subseteq Inputs /\ Snapshot \subseteq Inputs /\ AsteriskEntries \subseteq Inputs
  /\ \A f \in SharedFeeds \cup PinSets : f \subseteq Inputs
  /\ Inputs \subseteq Record
  /\ \A r \in Inputs : Genuine(r)
BY InputsAssumption DEF Inputs, Genuine

LEMMA BootstrapGood == Good(Bootstrap)
<1>1. Bootstrap \subseteq Record /\ \A r \in Bootstrap : Genuine(r)
  BY InputsTyped
<1>2. \A r \in Bootstrap : r.section \in Sections /\ Proper(r)
  BY <1>1, SectionsAssumption, AsteriskAssumption DEF Proper, Asterisk, Names
<1>3. OneEach(Bootstrap)
  BY OneOfAName DEF OneEach, Asterisk
<1>4. Resolves(Bootstrap)
  BY AsteriskAssumption DEF Resolves, Names, Asterisk
<1> QED
  BY <1>1, <1>2, <1>3, <1>4 DEF Good

LEMMA NothingGood == Good({})
BY DEF Good, OneEach, Resolves

(* The aggregate job. *)
LEMMA AggregateGood ==
  ASSUME Feeds, NEW f \in SharedFeeds, DependencyCheck(asterisk, Names(f \cup asterisk))
  PROVE  Good(f \cup asterisk) /\ \A r \in f \cup asterisk : Genuine(r)
<1>1. f \subseteq Record /\ \A r \in f : Genuine(r)
  BY InputsTyped
<1>2. \A r \in f : r.section \in Sections /\ ~Asterisk(r)
  BY SectionsAssumption DEF Asterisk
<1>3. \A r \in f \cup asterisk : r.section \in Sections /\ Proper(r)
  <2>1. \A r \in f : r.section = "luci" => r.pkg \notin Names(Snapshot)
    BY SectionsAssumption DEF Names
  <2> QED
    BY <1>1, <1>2, <2>1 DEF Feeds, Proper, Asterisk, Sections
<1>4. OneEach(f \cup asterisk)
  BY <1>2, OneOfAName DEF OneEach, Feeds
<1>5. Resolves(f \cup asterisk)
  BY <1>2 DEF Resolves, DependencyCheck
<1> QED
  BY <1>1, <1>3, <1>4, <1>5 DEF Good, Feeds

(* What is fetched is the catalog; the pins are beside it. *)
LEMMA FetchedRecords ==
  ASSUME Types, Feeds
  PROVE  /\ pins \subseteq Record /\ \A p \in pins : p.section = "archive" /\ Genuine(p)
         /\ live \subseteq Record /\ \A r \in live : r.section \in Sections /\ r.section # "archive"
         /\ live = {q \in live \cup pins : q.section # "archive"}
<1>1. pins \subseteq Record /\ \A p \in pins : p.section = "archive" /\ Genuine(p)
  BY InputsTyped, SectionsAssumption DEF Types
<1>2. live \subseteq Record /\ \A r \in live : r.section \in Sections /\ r.section # "archive"
  BY DEF Feeds, Good, Sections
<1> QED
  BY <1>1, <1>2

(* Changing the origin or the file of records changes nothing else. *)
Like(x, r) == x.pkg = r.pkg /\ x.ver = r.ver /\ x.section = r.section

LEMMA StagedGood ==
  ASSUME NEW rows, Good(rows), NEW new,
         \A x \in new : x \in Record /\ \E r \in rows : Like(x, r) /\ x.sha = r.sha,
         \A r \in rows : \E x \in new : Like(x, r),
         OneEach(new)
  PROVE  Good(new)
<1>1. ASSUME NEW x \in new PROVE x.section \in Sections /\ Proper(x)
  <2>1. PICK r \in rows : Like(x, r) /\ x.sha = r.sha
    OBVIOUS
  <2>2. r.section \in Sections /\ Proper(r)
    BY DEF Good
  <2>3. Genuine(r) => Genuine(x)
    BY <2>1 DEF Genuine, Like
  <2> QED
    BY <2>1, <2>2, <2>3 DEF Like, Proper, Asterisk
<1>2. Names(rows) \subseteq Names(new)
  BY DEF Names, Like
<1>3. Resolves(new)
  BY <1>2 DEF Resolves, Good, Like, Asterisk
<1> QED
  BY <1>1, <1>3 DEF Good

(* overlay(): what stays as it is, what is indexed again, what is new. *)
NotOverlaid == baseline \ Overlaid
Rewritten   == {Reindexed(e) : e \in {f \in Overlaid : ~Dropped(f)}}
FromSnapshot == {[rec |-> s, file |-> s.sha] : s \in Snapshot}
AfterOverlay == NotOverlaid \cup Rewritten \cup FromSnapshot

LEMMA RewrittenEntry ==
  ASSUME baseline \subseteq Entry, NEW e \in baseline
  PROVE  /\ Reindexed(e) \in Entry /\ Like(Reindexed(e).rec, e.rec)
         /\ Reindexed(e).rec.sha = e.file /\ Reindexed(e).file = e.file
<1>1. e \in Entry /\ e.rec \in Record /\ e.file \in Digests \cup {"partial"}
  BY DEF Entry
<1>2. PICK x : x = [e.rec EXCEPT !.sha = e.file]
  OBVIOUS
<1>3. x \in Record /\ Like(x, e.rec) /\ x.sha = e.file
  BY <1>1, <1>2 DEF Record, Like
<1>4. Reindexed(e) = [e EXCEPT !.rec = x]
  BY <1>1, <1>2 DEF Reindexed, Entry
<1>5. Reindexed(e) \in Entry /\ Reindexed(e).rec = x /\ Reindexed(e).file = e.file
  BY <1>1, <1>3, <1>4 DEF Entry
<1> QED
  BY <1>3, <1>5

LEMMA SnapshotEntry ==
  ASSUME NEW e \in FromSnapshot
  PROVE  /\ e \in Entry /\ e.rec \in Snapshot /\ e.file = e.rec.sha
         /\ e.rec.section \in {"base", "packages"} /\ ~Asterisk(e.rec) /\ Genuine(e.rec)
<1>1. PICK s \in Snapshot : e = [rec |-> s, file |-> s.sha]
  BY DEF FromSnapshot
<1>2. s \in Record /\ Genuine(s) /\ s.section \in {"base", "packages"}
  BY InputsTyped, SectionsAssumption
<1>3. s.sha \in Digests \cup {"partial"}
  BY <1>2 DEF Record
<1> QED
  BY <1>1, <1>2, <1>3 DEF Entry, Asterisk

LEMMA AfterOverlayCases ==
  ASSUME baseline \subseteq Entry, Good(Recs(baseline)), NEW e \in AfterOverlay
  PROVE  \/ e \in baseline /\ e.rec.section \in Untouched
         \/ \E d \in baseline : /\ e = Reindexed(d) /\ Like(e.rec, d.rec) /\ ~Dropped(d)
                               /\ e.rec.sha = d.file /\ d.rec.section \notin Untouched
         \/ e \in FromSnapshot
<1>1. CASE e \in NotOverlaid
  <2>1. e \in baseline /\ e.rec \in Recs(baseline) /\ e.rec.section \notin {"base", "packages"}
    BY <1>1 DEF NotOverlaid, Overlaid, Recs
  <2> QED
    BY <2>1 DEF Good, Sections, Untouched
<1>2. CASE e \in Rewritten
  <2>1. PICK d \in Overlaid : e = Reindexed(d) /\ ~Dropped(d)
    BY <1>2 DEF Rewritten
  <2>2. d \in baseline /\ d.rec.section \notin Untouched
    BY DEF Overlaid, Untouched
  <2> QED
    BY <2>1, <2>2, RewrittenEntry
<1> QED
  BY <1>1, <1>2 DEF AfterOverlay

LEMMA OverlayGood ==
  ASSUME baseline \subseteq Entry, FeedOk
  PROVE  /\ AfterOverlay \subseteq Entry
         /\ Good(Recs(AfterOverlay))
         /\ \A e, d \in AfterOverlay :
              e.rec.pkg = d.rec.pkg /\ ~Asterisk(e.rec) /\ ~Asterisk(d.rec) => e = d
<1>0. Good(Recs(baseline))
  BY DEF FeedOk
<1>1. AfterOverlay \subseteq Entry
  BY <1>0, AfterOverlayCases, RewrittenEntry, SnapshotEntry
<1>2. ASSUME NEW e \in AfterOverlay, NEW d \in AfterOverlay, e.rec.pkg = d.rec.pkg,
             ~Asterisk(e.rec), ~Asterisk(d.rec)
      PROVE  e = d
  <2>1. CASE e \in FromSnapshot /\ d \in FromSnapshot
    <3>1. e.rec = d.rec
      BY <1>2, <2>1, SnapshotEntry, OneOfAName
    <3> QED
      BY <2>1, <3>1 DEF FromSnapshot
  <2>2. ASSUME NEW x \in AfterOverlay, NEW y \in AfterOverlay, x.rec.pkg = y.rec.pkg,
               x \notin FromSnapshot, y \in FromSnapshot, ~Asterisk(x.rec)
        PROVE  FALSE
    <3>1. x.rec.pkg \in Names(Snapshot)
      BY <2>2, SnapshotEntry DEF Names
    <3>2. CASE x \in baseline /\ x.rec.section \in Untouched
      <4>1. x.rec \in Recs(baseline) /\ x.rec.section = "luci"
        BY <2>2, <3>2 DEF Recs, Untouched, Asterisk
      <4> QED
        BY <1>0, <3>1, <4>1 DEF Good, Proper
    <3>3. CASE \E z \in baseline : Like(x.rec, z.rec) /\ ~Dropped(z)
      BY <3>1, <3>3 DEF Dropped, Like
    <3> QED
      BY <1>0, <2>2, <3>2, <3>3, AfterOverlayCases
  <2>3. CASE e \notin FromSnapshot /\ d \notin FromSnapshot
    <3>1. PICK z \in baseline :
            \/ e = z /\ z.rec.section \in Untouched
            \/ e = Reindexed(z) /\ Like(e.rec, z.rec) /\ z.rec.section \notin Untouched
      BY <1>0, <1>2, <2>3, AfterOverlayCases
    <3>2. PICK y \in baseline :
            \/ d = y /\ y.rec.section \in Untouched
            \/ d = Reindexed(y) /\ Like(d.rec, y.rec) /\ y.rec.section \notin Untouched
      BY <1>0, <1>2, <2>3, AfterOverlayCases
    <3>3. z.rec.pkg = y.rec.pkg /\ ~Asterisk(z.rec) /\ ~Asterisk(y.rec)
      BY <1>2, <3>1, <3>2 DEF Like, Asterisk
    <3>4. z = y
      BY <3>3 DEF FeedOk, OneEntry
    <3> QED
      BY <3>1, <3>2, <3>4
  <2> QED
    BY <1>2, <2>1, <2>2, <2>3
<1>3. ASSUME NEW r \in Recs(AfterOverlay)
      PROVE  /\ r \in Record /\ r.section \in Sections /\ Proper(r)
             /\ Asterisk(r) => r \in Recs(baseline)
  <2>1. PICK e \in AfterOverlay : r = e.rec
    BY DEF Recs
  <2>2. r \in Record
    BY <1>1, <2>1 DEF Entry
  <2>3. CASE e \in baseline
    <3>1. r \in Recs(baseline)
      BY <2>1, <2>3 DEF Recs
    <3> QED
      BY <1>0, <2>2, <3>1 DEF Good
  <2>4. CASE \E d \in baseline : Like(e.rec, d.rec) /\ d.rec.section \notin Untouched
    <3>1. PICK d \in baseline : Like(r, d.rec) /\ d.rec.section \notin Untouched
      BY <2>1, <2>4
    <3>2. d.rec \in Recs(baseline)
      BY DEF Recs
    <3> QED
      BY <1>0, <2>2, <3>1, <3>2 DEF Good, Like, Asterisk, Proper, Untouched
  <2>5. CASE e \in FromSnapshot
    BY <2>1, <2>2, <2>5, SnapshotEntry DEF Proper, Sections, Untouched
  <2> QED
    BY <1>0, <2>3, <2>4, <2>5, AfterOverlayCases
<1>4. OneEach(Recs(AfterOverlay))
  BY <1>2 DEF OneEach, Recs
<1>5. ASSUME NEW n \in Names(Recs(baseline)), n # Removed PROVE n \in Names(Recs(AfterOverlay))
  <2>1. PICK e \in baseline : n = e.rec.pkg
    BY <1>5 DEF Names, Recs
  <2>2. CASE e \in NotOverlaid
    BY <2>1, <2>2 DEF Names, Recs, AfterOverlay
  <2>3. CASE e \in Overlaid /\ ~Dropped(e)
    <3>1. Reindexed(e) \in AfterOverlay /\ Like(Reindexed(e).rec, e.rec)
      BY <2>3, RewrittenEntry DEF AfterOverlay, Rewritten
    <3> QED
      BY <2>1, <3>1 DEF Names, Recs, Like
  <2>4. CASE Dropped(e)
    <3>1. PICK s \in Snapshot : s.pkg = n
      BY <1>5, <2>1, <2>4 DEF Dropped, Names
    <3>2. PICK y : y = [rec |-> s, file |-> s.sha]
      OBVIOUS
    <3>3. y \in AfterOverlay /\ y.rec = s
      BY <3>2 DEF AfterOverlay, FromSnapshot
    <3> QED
      BY <3>1, <3>3 DEF Names, Recs
  <2> QED
    BY <2>1, <2>2, <2>3, <2>4 DEF NotOverlaid
<1>6. Resolves(Recs(AfterOverlay))
  <2> SUFFICES ASSUME NEW r \in Recs(AfterOverlay), Asterisk(r), NEW g \in Depends[r.pkg]
               PROVE  \E t \in g : t.name \in Names(Recs(AfterOverlay))
    BY DEF Resolves
  <2>1. r \in Recs(baseline) /\ Proper(r)
    BY <1>3
  <2>2. PICK t \in g : t.name \in Names(Recs(baseline))
    BY <1>0, <2>1 DEF Good, Resolves
  <2>3. t.name # Removed
    BY <2>1 DEF Proper
  <2> QED
    BY <1>5, <2>2, <2>3
<1>7. Good(Recs(AfterOverlay))
  BY <1>3, <1>4, <1>6 DEF Good
<1> QED
  BY <1>1, <1>2, <1>7

(* promoted_applications() *)
LEMMA FirstMatchIn ==
  ASSUME NEW rows, \A r \in rows : r.section \in Sections, NEW p, Matches(rows, p) # {}
  PROVE  FirstMatch(rows, p) \in Matches(rows, p)
<1> DEFINE ms == Matches(rows, p)
<1>1. \A m \in ms : SectionTurn(m) \in 0 .. 2
  BY DEF Matches, Sections, SectionTurn
<1>2. \E m \in ms : \A n \in ms : SectionTurn(m) <= SectionTurn(n)
  <2>1. CASE \E m \in ms : SectionTurn(m) = 0
    BY <1>1, <2>1
  <2>2. CASE (~\E m \in ms : SectionTurn(m) = 0) /\ \E m \in ms : SectionTurn(m) = 1
    BY <1>1, <2>2
  <2>3. CASE ~\E m \in ms : SectionTurn(m) \in {0, 1}
    BY <1>1, <2>3
  <2> QED
    BY <2>1, <2>2, <2>3
<1> QED
  BY <1>2 DEF FirstMatch

SectionFor(rows, p) ==
  IF Matches(rows, p) = {} THEN "packages" ELSE FirstMatch(rows, p).section
UsedPins(rows) == {p \in pins : ~KeptFeed(rows, p)}
Placed(rows, p) == [p EXCEPT !.section = SectionFor(rows, p)]

LEMMA PromotedIs ==
  ASSUME NEW rows
  PROVE  PromotedApplications(rows) =
           (rows \ UNION {Matches(rows, p) : p \in UsedPins(rows)})
             \cup {Placed(rows, p) : p \in UsedPins(rows)}
BY DEF PromotedApplications, UsedPins, Placed, SectionFor

LEMMA PlacedPin ==
  ASSUME NEW rows, Good(rows), NEW p \in pins, pins \in PinSets
  PROVE  /\ Placed(rows, p) \in Record /\ Placed(rows, p).section \in Sections
         /\ ~Asterisk(Placed(rows, p)) /\ Genuine(Placed(rows, p)) /\ Proper(Placed(rows, p))
         /\ Placed(rows, p).pkg = p.pkg /\ Placed(rows, p).ver = p.ver
<1>1. p \in Record /\ Genuine(p)
  BY InputsTyped
<1>2. /\ SectionFor(rows, p) \in Sections /\ SectionFor(rows, p) # "asterisk-20"
      /\ SectionFor(rows, p) = "luci" => p.pkg \notin Names(Snapshot)
  <2>1. CASE Matches(rows, p) = {}
    BY <2>1 DEF SectionFor, Sections
  <2>2. CASE Matches(rows, p) # {}
    <3>1. FirstMatch(rows, p) \in Matches(rows, p)
      BY <2>2, FirstMatchIn DEF Good
    <3> QED
      BY <2>2, <3>1 DEF SectionFor, Matches, Good, Proper
  <2> QED
    BY <2>1, <2>2
<1>3. PICK x : x = [p EXCEPT !.section = SectionFor(rows, p)]
  OBVIOUS
<1>4. /\ x \in Record /\ x.pkg = p.pkg /\ x.ver = p.ver /\ x.sha = p.sha
      /\ x.section = SectionFor(rows, p)
  BY <1>1, <1>2, <1>3, RecordChange
<1>5. Placed(rows, p) = x
  BY <1>3 DEF Placed
<1> QED
  BY <1>1, <1>2, <1>4, <1>5 DEF Genuine, Asterisk, Proper

LEMMA PromotedGood ==
  ASSUME NEW rows, Good(rows), pins \in PinSets, NEW new, new = PromotedApplications(rows)
  PROVE  /\ Good(new)
         /\ \A r \in new : r \in rows \/ Genuine(r)
<1> DEFINE gone == UNION {Matches(rows, p) : p \in UsedPins(rows)}
<1>0. new = (rows \ gone) \cup {Placed(rows, p) : p \in UsedPins(rows)}
  BY PromotedIs
<1>1. \A r \in rows \ gone : \A p \in UsedPins(rows) : ~Asterisk(r) => r.pkg # p.pkg
  BY DEF Matches, Asterisk
<1>2. \A r \in gone : r \in rows /\ ~Asterisk(r) /\ \E p \in UsedPins(rows) : p.pkg = r.pkg
  BY DEF Matches, Asterisk
<1> HIDE DEF gone
<1>3. ASSUME NEW r \in new
      PROVE  \/ r \in rows /\ r \notin gone
             \/ \E p \in UsedPins(rows) : p \in pins /\ r = Placed(rows, p)
  BY <1>0 DEF UsedPins
<1>4. \A p \in UsedPins(rows) :
        /\ Placed(rows, p) \in new
        /\ Placed(rows, p) \in Record /\ Placed(rows, p).section \in Sections
        /\ ~Asterisk(Placed(rows, p)) /\ Genuine(Placed(rows, p)) /\ Proper(Placed(rows, p))
        /\ Placed(rows, p).pkg = p.pkg
  BY <1>0, PlacedPin DEF UsedPins
<1>5. \A r \in new : r \in Record /\ r.section \in Sections /\ Proper(r)
  BY <1>3, <1>4 DEF Good
<1>6. OneEach(new)
  <2> SUFFICES ASSUME NEW r \in new, NEW q \in new, r.pkg = q.pkg, ~Asterisk(r), ~Asterisk(q)
               PROVE  r = q
    BY DEF OneEach
  <2>1. CASE r \in rows \ gone /\ q \in rows \ gone
    BY <2>1 DEF Good, OneEach
  <2>2. CASE r \in rows \ gone /\ q \notin rows \ gone
    BY <1>1, <1>3, <1>4, <2>2
  <2>3. CASE r \notin rows \ gone /\ q \in rows \ gone
    BY <1>1, <1>3, <1>4, <2>3
  <2>4. CASE r \notin rows \ gone /\ q \notin rows \ gone
    <3>1. PICK x \in UsedPins(rows) : r = Placed(rows, x) /\ x \in pins
      BY <1>3, <2>4
    <3>2. PICK y \in UsedPins(rows) : q = Placed(rows, y) /\ y \in pins
      BY <1>3, <2>4
    <3>3. x = y
      BY <1>4, <3>1, <3>2, OneOfAName
    <3> QED
      BY <3>1, <3>2, <3>3
  <2> QED
    BY <2>1, <2>2, <2>3, <2>4
<1>7. Names(rows) \subseteq Names(new)
  <2> SUFFICES ASSUME NEW r \in rows PROVE \E q \in new : q.pkg = r.pkg
    BY DEF Names
  <2>1. CASE r \in gone
    BY <1>2, <1>4, <2>1
  <2>2. CASE r \notin gone
    BY <1>0, <2>2
  <2> QED
    BY <2>1, <2>2
<1>8. Resolves(new)
  BY <1>3, <1>4, <1>7 DEF Resolves, Good
<1> QED
  BY <1>3, <1>4, <1>5, <1>6, <1>8 DEF Good

-----------------------------------------------------------------------------
(* The jobs. *)

LEMMA InFlightFinite ==
  ASSUME Types, Feeds PROVE IsFiniteSet(InFlight)
<1>1. DOMAIN jobs \subseteq Record
  BY FetchedRecords DEF Types
<1>2. InFlight \subseteq Record
  BY <1>1 DEF InFlight
<1> QED
  BY <1>2, FiniteAssumption, FS_Subset

LEMMA PinAlone ==
  ASSUME Types, Feeds, NEW r \in DOMAIN jobs, r.section = "archive", MayStart(r)
  PROVE  InFlight = {}
<1>1. IsFiniteSet(InFlight)
  BY InFlightFinite
<1>2. Cardinality(InFlight) < 1 /\ Cardinality(InFlight) \in Nat
  BY <1>1, FS_CardinalityType DEF MayStart
<1>3. Cardinality(InFlight) = 0
  BY <1>2
<1> QED
  BY <1>1, <1>3, FS_EmptySet

LEMMA TurnOrder ==
  ASSUME Types, Feeds, NEW r \in DOMAIN jobs, NEW q \in DOMAIN jobs,
         r.section = "archive", q.section # "archive"
  PROVE  Earlier(q, r)
<1>1. q.section \in {"base", "luci", "packages", "asterisk-20"}
  BY FetchedRecords DEF Types, Sections
<1>2. SectionTurn(r) = 4 /\ SectionTurn(q) \in 0 .. 3
  BY <1>1 DEF SectionTurn
<1> QED
  BY <1>2 DEF Earlier

LEMMA Fetching ==
  ASSUME IndInv, NEW r \in DOMAIN jobs, jobs[r].at # "done"
  PROVE  /\ run.step = "fetch" /\ jobs \in [live \cup pins -> Job]
         /\ r \in Record /\ r.sha \in Digests \cup {"partial"}
<1>1. run.step # "idle"
  BY DEF IndInv, Types
<1>2. run.step = "fetch" /\ jobs \in [live \cup pins -> Job]
  BY <1>1 DEF IndInv, Types, JobsOk
<1>3. r \in Record
  BY <1>2, FetchedRecords DEF IndInv
<1> QED
  BY <1>2, <1>3 DEF Record

(* A job goes on, or starts when it may. *)
Goes(r) == r \in InFlight \/ (jobs[r].at = "queued" /\ MayStart(r))

LEMMA JobMoves ==
  ASSUME IndInv, NEW r \in DOMAIN jobs, Goes(r), NEW y \in Job, y.at # "queued",
         jobs' = [jobs EXCEPT ![r] = y]
  PROVE  /\ jobs' \in [live \cup pins -> Job] /\ DOMAIN jobs' = DOMAIN jobs
         /\ jobs'[r] = y /\ \A q \in DOMAIN jobs : q # r => jobs'[q] = jobs[q]
         /\ InFlight' \subseteq InFlight \cup {r}
         /\ PinsLast'
<1>1. jobs[r].at # "done" /\ Types /\ Feeds /\ PinsLast
  BY DEF Goes, InFlight, IndInv, JobsOk
<1>2. jobs \in [live \cup pins -> Job]
  BY <1>1, Fetching
<1>3. /\ jobs' \in [live \cup pins -> Job] /\ DOMAIN jobs' = DOMAIN jobs
      /\ jobs'[r] = y /\ \A q \in DOMAIN jobs : q # r => jobs'[q] = jobs[q]
  BY <1>2
<1>4. InFlight' \subseteq InFlight \cup {r}
  BY <1>3 DEF InFlight
<1>5. ASSUME NEW a \in DOMAIN jobs, NEW b \in DOMAIN jobs, a.section = "archive",
             jobs'[a].at # "queued", b.section # "archive"
      PROVE  jobs'[b].at # "queued"
  <2>1. CASE b = r
    BY <1>3, <2>1
  <2>2. CASE b # r /\ jobs[a].at # "queued"
    BY <1>1, <1>3, <1>5, <2>2 DEF PinsLast
  <2>3. CASE b # r /\ jobs[a].at = "queued"
    <3>1. a = r /\ MayStart(r)
      BY <1>3, <1>5, <2>3 DEF Goes, InFlight
    <3>2. Earlier(b, r)
      BY <1>1, <1>5, <3>1, TurnOrder
    <3> QED
      BY <1>3, <2>3, <3>1, <3>2 DEF MayStart
  <2> QED
    BY <2>1, <2>2, <2>3
<1>6. ASSUME NEW a \in InFlight', NEW b \in InFlight', a.section = "archive" PROVE a = b
  <2>1. CASE r \in InFlight
    BY <1>1, <1>4, <1>6, <2>1 DEF PinsLast
  <2>2. CASE r \notin InFlight /\ r.section = "archive"
    BY <1>1, <1>4, <2>2, PinAlone DEF Goes
  <2>3. CASE r \notin InFlight /\ r.section # "archive"
    <3>1. a \in InFlight /\ a \in DOMAIN jobs /\ jobs[a].at # "queued"
      BY <1>4, <1>6, <2>3 DEF InFlight
    <3>2. jobs[r].at # "queued"
      BY <1>1, <1>6, <2>3, <3>1 DEF PinsLast
    <3> QED
      BY <2>3, <3>2 DEF Goes
  <2> QED
    BY <2>1, <2>2, <2>3
<1>7. PinsLast'
  BY <1>3, <1>5, <1>6 DEF PinsLast
<1> QED
  BY <1>3, <1>4, <1>7

(* A job that works beside another has a file of its own, if its record has. *)
LEMMA OthersFile ==
  ASSUME IndInv, NEW r \in InFlight, NEW q \in InFlight, q # r, Alone(q)
  PROVE  q.sha # r.sha
<1>1. r \in DOMAIN jobs /\ q \in DOMAIN jobs /\ jobs[r].at # "done"
  BY DEF InFlight
<1>2. DOMAIN jobs = live \cup pins
  BY <1>1, Fetching
<1>3. r.section # "archive" /\ q.section # "archive"
  BY DEF IndInv, JobsOk, PinsLast
<1>4. r \in live /\ q \in live
  BY <1>1, <1>2, <1>3, FetchedRecords DEF IndInv
<1> QED
  BY <1>4 DEF Alone

LEMMA FetchFrame ==
  ASSUME IndInv, NEW r \in DOMAIN jobs, Goes(r), NEW y \in Job, y.at # "queued",
         jobs' = [jobs EXCEPT ![r] = y],
         UNCHANGED asterisk, UNCHANGED built, UNCHANGED live, UNCHANGED pins, UNCHANGED saved,
         UNCHANGED run, UNCHANGED baseline, faults' \in 0 .. MaxFaults,
         cache' \in Files,
         \/ UNCHANGED cache
         \/ r \in InFlight /\ \E c : c # "none" /\ cache' = [cache EXCEPT ![r.sha] = c],
         y.at = "copy" => cache'[r.sha] # "none" /\ (Alone(r) => cache'[r.sha] = r.sha),
         y.at = "done" => y.file # "none" /\ (Alone(r) => y.file = r.sha)
  PROVE  IndInv'
<1>0. jobs[r].at # "done"
  BY DEF Goes, InFlight
<1>1. run.step = "fetch" /\ jobs \in [live \cup pins -> Job] /\ r.sha \in Digests \cup {"partial"}
  BY <1>0, Fetching
<1>2. /\ jobs' \in [live \cup pins -> Job] /\ DOMAIN jobs' = DOMAIN jobs
      /\ jobs'[r] = y /\ \A q \in DOMAIN jobs : q # r => jobs'[q] = jobs[q]
      /\ PinsLast'
  BY JobMoves
<1>3. Types'
  BY <1>1, <1>2 DEF IndInv, Types
<1>4. /\ Feeds' /\ FeedOk' /\ GenuineOk'
      /\ \A q \in DOMAIN jobs : Alone(q)' = Alone(q)
  BY DEF IndInv, Feeds, FeedOk, OneEntry, GenuineOk, Doubtful, Alone
<1>5. ASSUME NEW q \in DOMAIN jobs PROVE Fetched(q)'
  <2>1. CASE q = r
    BY <1>2, <1>4, <2>1 DEF Fetched
  <2>2. CASE q # r
    <3>1. jobs'[q] = jobs[q] /\ Fetched(q)
      BY <1>2, <2>2 DEF IndInv, JobsOk
    <3>2. CASE UNCHANGED cache \/ jobs[q].at # "copy"
      BY <1>4, <3>1, <3>2 DEF Fetched
    <3>3. CASE jobs[q].at = "copy" /\ r \in InFlight /\ \E c : c # "none" /\ cache' = [cache EXCEPT ![r.sha] = c]
      <4>1. q \in InFlight
        BY <3>3 DEF InFlight
      <4>2. PICK c : c # "none" /\ cache' = [cache EXCEPT ![r.sha] = c]
        BY <3>3
      <4>3. cache \in Files
        BY DEF IndInv, Types
      <4>4. q.sha \in Digests \cup {"partial"}
        BY <3>3, Fetching
      <4>5. cache'[q.sha] # "none"
        BY <3>1, <3>3, <4>2, <4>3, <4>4 DEF Fetched, Files
      <4>6. Alone(q) => cache'[q.sha] = q.sha
        <5> SUFFICES ASSUME Alone(q) PROVE cache'[q.sha] = q.sha
          OBVIOUS
        <5>1. q.sha # r.sha
          BY <2>2, <3>3, <4>1, OthersFile
        <5> QED
          BY <3>1, <3>3, <4>2, <4>3, <4>4, <5>1 DEF Fetched, Files
      <4> QED
        BY <1>4, <3>1, <3>3, <4>5, <4>6 DEF Fetched
    <3> QED
      BY <3>2, <3>3
  <2> QED
    BY <2>1, <2>2
<1>6. JobsOk'
  BY <1>1, <1>2, <1>5 DEF JobsOk
<1> QED
  BY <1>3, <1>4, <1>6 DEF IndInv

(* The end of a run leaves the site as it was. *)
LEMMA EndRunInv ==
  ASSUME IndInv, EndRun, UNCHANGED asterisk, UNCHANGED built, UNCHANGED live, UNCHANGED pins,
         UNCHANGED saved, faults' \in 0 .. MaxFaults
  PROVE  IndInv'
<1>1. /\ run' = [step |-> "idle", source |-> "site"] /\ DOMAIN jobs' = {} /\ baseline' = {}
      /\ cache' = saved
  BY DEF EndRun, Idle
<1>2. Types'
  BY <1>1 DEF IndInv, Types, Steps
<1>3. Feeds'
  BY DEF IndInv, Feeds
<1>4. FeedOk' /\ GenuineOk'
  <2>1. Recs(baseline') = {}
    BY <1>1 DEF Recs
  <2>2. Good(Recs(baseline'))
    BY <2>1, NothingGood
  <2> QED
    BY <1>1, <2>2 DEF FeedOk, OneEntry, GenuineOk
<1>5. JobsOk'
  BY <1>1 DEF JobsOk, PinsLast, InFlight
<1> QED
  BY <1>2, <1>3, <1>4, <1>5 DEF IndInv

LEMMA FaultTypes == ASSUME Types, Fault PROVE faults' \in 0 .. MaxFaults
BY InputsAssumption DEF Types, Fault

LEMMA AtMove ==
  ASSUME IndInv, NEW r \in DOMAIN jobs, jobs[r].at # "done",
         NEW l \in {"queued", "download", "write", "writing", "copy", "done"}, To(r, l)
  PROVE  LET y == [jobs[r] EXCEPT !.at = l] IN
         y \in Job /\ y.at = l /\ jobs' = [jobs EXCEPT ![r] = y]
<1>1. jobs \in [live \cup pins -> Job] /\ r \in live \cup pins
  BY Fetching
<1>2. jobs[r] \in Job
  BY <1>1
<1>3. PICK y : y = [jobs[r] EXCEPT !.at = l]
  OBVIOUS
<1>4. y \in Job /\ y.at = l
  BY <1>2, <1>3 DEF Job
<1>5. jobs' = [jobs EXCEPT ![r] = y]
  BY <1>1, <1>3 DEF To
<1> QED
  BY <1>3, <1>4, <1>5

LEMMA LookupStep ==
  ASSUME IndInv, NEW r \in DOMAIN jobs, Lookup(r) PROVE IndInv'
<1>0. jobs[r].at = "queued" /\ MayStart(r) /\ Goes(r) /\ cache \in Files
  BY DEF Lookup, Goes, IndInv, Types
<1>1. PICK l : l = IF Cached(r.sha) THEN "copy" ELSE "download"
  OBVIOUS
<1>2. l \in {"copy", "download"} /\ (l = "copy" => cache[r.sha] = r.sha) /\ To(r, l)
  BY <1>1 DEF Lookup, Cached
<1>3. PICK y : y = [jobs[r] EXCEPT !.at = l]
  OBVIOUS
<1>4. y \in Job /\ y.at = l /\ jobs' = [jobs EXCEPT ![r] = y]
  <2>1. jobs[r].at # "done" /\ l \in {"queued", "download", "write", "writing", "copy", "done"}
    BY <1>0, <1>2
  <2> QED
    BY <1>2, <1>3, <2>1, AtMove
<1>5. r.sha # "none"
  <2>1. r \in Record
    BY <1>0, Fetching
  <2> QED
    BY <2>1, DigestsAssumption DEF Record
<1>6. /\ UNCHANGED asterisk /\ UNCHANGED built /\ UNCHANGED live /\ UNCHANGED pins
      /\ UNCHANGED saved /\ UNCHANGED run /\ UNCHANGED baseline /\ UNCHANGED cache
      /\ faults' \in 0 .. MaxFaults
  BY DEF Lookup, FetchOnly, IndInv, Types
<1> QED
  BY <1>0, <1>2, <1>4, <1>5, <1>6, FetchFrame

LEMMA DownloadOkStep ==
  ASSUME IndInv, NEW r \in DOMAIN jobs, DownloadOk(r) PROVE IndInv'
<1>0. jobs[r].at = "download" /\ r \in InFlight /\ Goes(r) /\ cache \in Files
  BY DEF DownloadOk, Goes, InFlight, IndInv, Types
<1>1. PICK y : y = [jobs[r] EXCEPT !.at = "write"]
  OBVIOUS
<1>2. y \in Job /\ y.at = "write" /\ jobs' = [jobs EXCEPT ![r] = y]
  BY <1>0, <1>1, AtMove DEF DownloadOk
<1>3. /\ UNCHANGED asterisk /\ UNCHANGED built /\ UNCHANGED live /\ UNCHANGED pins
      /\ UNCHANGED saved /\ UNCHANGED run /\ UNCHANGED baseline /\ UNCHANGED cache
      /\ faults' \in 0 .. MaxFaults
  BY DEF DownloadOk, FetchOnly, IndInv, Types
<1> QED
  BY <1>0, <1>2, <1>3, FetchFrame

LEMMA TruncateStep ==
  ASSUME IndInv, NEW r \in DOMAIN jobs, Truncate(r) PROVE IndInv'
<1>0. jobs[r].at = "write" /\ r \in InFlight /\ Goes(r) /\ cache \in Files
  BY DEF Truncate, Goes, InFlight, IndInv, Types
<1>1. PICK y : y = [jobs[r] EXCEPT !.at = "writing"]
  OBVIOUS
<1>2. y \in Job /\ y.at = "writing" /\ jobs' = [jobs EXCEPT ![r] = y]
  BY <1>0, <1>1, AtMove DEF Truncate
<1>3. cache' = [cache EXCEPT ![r.sha] = "partial"]
  BY DEF Truncate
<1>4. cache' \in Files
  BY <1>0, <1>3 DEF Files
<1>5. /\ UNCHANGED asterisk /\ UNCHANGED built /\ UNCHANGED live /\ UNCHANGED pins
      /\ UNCHANGED saved /\ UNCHANGED run /\ UNCHANGED baseline
      /\ faults' \in 0 .. MaxFaults
  BY DEF Truncate, FetchOnly, IndInv, Types
<1>6. \E c : c # "none" /\ cache' = [cache EXCEPT ![r.sha] = c]
  BY <1>3
<1> QED
  BY <1>0, <1>2, <1>4, <1>5, <1>6, FetchFrame

LEMMA FillStep ==
  ASSUME IndInv, NEW r \in DOMAIN jobs, Fill(r) PROVE IndInv'
<1>0. jobs[r].at = "writing" /\ r \in InFlight /\ Goes(r) /\ cache \in Files
  BY DEF Fill, Goes, InFlight, IndInv, Types
<1>1. PICK y : y = [jobs[r] EXCEPT !.at = "copy"]
  OBVIOUS
<1>2. y \in Job /\ y.at = "copy" /\ jobs' = [jobs EXCEPT ![r] = y]
  BY <1>0, <1>1, AtMove DEF Fill
<1>3. cache' = [cache EXCEPT ![r.sha] = r.sha]
  BY DEF Fill
<1>4. r.sha \in Digests \cup {"partial"} /\ r.sha # "none"
  BY <1>0, Fetching, DigestsAssumption
<1>5. cache' \in Files /\ cache'[r.sha] = r.sha
  BY <1>0, <1>3, <1>4 DEF Files
<1>6. /\ UNCHANGED asterisk /\ UNCHANGED built /\ UNCHANGED live /\ UNCHANGED pins
      /\ UNCHANGED saved /\ UNCHANGED run /\ UNCHANGED baseline
      /\ faults' \in 0 .. MaxFaults
  BY DEF Fill, FetchOnly, IndInv, Types
<1>7. \E c : c # "none" /\ cache' = [cache EXCEPT ![r.sha] = c]
  BY <1>3, <1>4
<1> QED
  BY <1>0, <1>2, <1>4, <1>5, <1>6, <1>7, FetchFrame

LEMMA CopyStep ==
  ASSUME IndInv, NEW r \in DOMAIN jobs, Copy(r) PROVE IndInv'
<1>0. jobs[r].at = "copy" /\ r \in InFlight /\ Goes(r) /\ cache \in Files /\ Fetched(r)
  BY DEF Copy, Goes, InFlight, IndInv, Types, JobsOk
<1>1. jobs \in [live \cup pins -> Job] /\ r.sha \in Digests \cup {"partial"}
  BY <1>0, Fetching
<1>2. PICK y : y = [jobs[r] EXCEPT !.at = "done", !.file = cache[r.sha]]
  OBVIOUS
<1>3. jobs' = [jobs EXCEPT ![r] = y]
  BY <1>1, <1>2 DEF Copy
<1>4. y \in Job /\ y.at = "done" /\ y.file = cache[r.sha]
  BY <1>0, <1>1, <1>2 DEF Job, Files
<1>5. /\ UNCHANGED asterisk /\ UNCHANGED built /\ UNCHANGED live /\ UNCHANGED pins
      /\ UNCHANGED saved /\ UNCHANGED run /\ UNCHANGED baseline /\ UNCHANGED cache
      /\ faults' \in 0 .. MaxFaults
  BY DEF Copy, FetchOnly, IndInv, Types
<1>6. y.file # "none" /\ (Alone(r) => y.file = r.sha)
  BY <1>0, <1>4 DEF Fetched
<1> QED
  BY <1>0, <1>3, <1>4, <1>5, <1>6, FetchFrame

LEMMA TryFailsStep ==
  ASSUME IndInv, NEW r \in DOMAIN jobs, NEW gone \in BOOLEAN, TryFails(r, gone),
         faults' \in 0 .. MaxFaults
  PROVE  IndInv'
<1>0. /\ jobs[r].at = "download" /\ r \in InFlight /\ Goes(r) /\ cache \in Files
      /\ UNCHANGED asterisk /\ UNCHANGED built /\ UNCHANGED live /\ UNCHANGED pins
      /\ UNCHANGED saved
  BY DEF TryFails, Goes, InFlight, IndInv, Types
<1>1. CASE NextTry(r, gone).url > Len(Urls(r))
  BY <1>0, <1>1, EndRunInv DEF TryFails
<1>2. CASE ~(NextTry(r, gone).url > Len(Urls(r)))
  <2>1. PICK y : y = NextTry(r, gone)
    OBVIOUS
  <2>2. /\ jobs' = [jobs EXCEPT ![r] = y]
        /\ UNCHANGED run /\ UNCHANGED baseline /\ UNCHANGED cache
    BY <1>2, <2>1 DEF TryFails
  <2>3. jobs[r] \in Job
    BY <1>0, Fetching
  <2>4. y \in Job /\ y.at = "download"
    <3>1. jobs[r].url + 1 \in Nat /\ 0 \in 0 .. Attempts - 1
      BY <2>3, InputsAssumption DEF Job
    <3>2. CASE gone \/ jobs[r].tries + 1 = Attempts
      <4>1. y = [jobs[r] EXCEPT !.url = jobs[r].url + 1, !.tries = 0]
        BY <2>1, <3>2 DEF NextTry
      <4> QED
        BY <1>0, <2>3, <3>1, <4>1 DEF Job
    <3>3. CASE ~(gone \/ jobs[r].tries + 1 = Attempts)
      <4>1. y = [jobs[r] EXCEPT !.tries = jobs[r].tries + 1]
        BY <2>1, <3>3 DEF NextTry
      <4>2. jobs[r].tries + 1 \in 0 .. Attempts - 1
        BY <2>3, <3>3, InputsAssumption DEF Job
      <4> QED
        BY <1>0, <2>3, <4>1, <4>2 DEF Job
    <3> QED
      BY <3>2, <3>3
  <2> QED
    BY <1>0, <2>2, <2>4, FetchFrame
<1> QED
  BY <1>1, <1>2

LEMMA DownloadFailsStep ==
  ASSUME IndInv, NEW r \in DOMAIN jobs, NEW gone \in BOOLEAN, DownloadFails(r, gone) PROVE IndInv'
BY FaultTypes, TryFailsStep DEF DownloadFails, IndInv

LEMMA NotThereStep ==
  ASSUME IndInv, NEW r \in DOMAIN jobs, NEW gone \in BOOLEAN, NotThere(r, gone) PROVE IndInv'
<1>1. TryFails(r, gone) /\ faults' \in 0 .. MaxFaults
  BY DEF NotThere, IndInv, Types
<1> QED
  BY <1>1, TryFailsStep

-----------------------------------------------------------------------------
(* The other steps. *)

LEMMA InitInv == Init => IndInv
<1> SUFFICES ASSUME Init PROVE IndInv
  OBVIOUS
<1>1. /\ asterisk = {} /\ built = {} /\ baseline = {} /\ live = Bootstrap
      /\ run = [step |-> "idle", source |-> "site"] /\ DOMAIN jobs = {}
  BY DEF Init, Idle
<1>2. saved \in Files /\ cache \in Files
  BY DEF Init, Files
<1>3. Types
  BY <1>1, <1>2, InputsAssumption DEF Init, Types, Steps
<1>4. Feeds
  BY <1>1, BootstrapGood, NothingGood DEF Feeds
<1>5. FeedOk /\ GenuineOk
  <2>1. Recs(baseline) = {}
    BY <1>1 DEF Recs
  <2> QED
    BY <1>1, <2>1, NothingGood DEF FeedOk, OneEntry, GenuineOk
<1>6. JobsOk
  BY <1>1 DEF JobsOk, PinsLast, InFlight
<1> QED
  BY <1>3, <1>4, <1>5, <1>6 DEF IndInv

(* The builds work beside the publication. *)
LEMMA BuildFrame ==
  ASSUME IndInv, Feeds', UNCHANGED <<live, pins, saved, cache, run, jobs, baseline, faults>>
  PROVE  IndInv'
<1>1. Types' /\ FeedOk' /\ GenuineOk'
  BY DEF IndInv, Types, FeedOk, OneEntry, GenuineOk, Doubtful
<1>2. JobsOk'
  BY DEF IndInv, JobsOk, PinsLast, InFlight, Fetched, Alone
<1> QED
  BY <1>1, <1>2 DEF IndInv

LEMMA AssembleAsteriskStep ==
  ASSUME IndInv, NEW a \in AsteriskBuilds, AssembleAsterisk(a) PROVE IndInv'
<1>1. asterisk' = a.entries /\ a.entries \subseteq AsteriskEntries
  BY DEF AssembleAsterisk, AsteriskEntries
<1>2. \A r \in asterisk' : r \in Record /\ Asterisk(r) /\ Genuine(r)
  BY <1>1, InputsTyped, SectionsAssumption DEF Asterisk
<1>3. \A r \in asterisk' : Proper(r)
  BY <1>1, <1>2, AsteriskAssumption DEF Proper, Asterisk
<1>4. Feeds'
  BY <1>2, <1>3 DEF IndInv, Feeds, AssembleAsterisk
<1> QED
  BY <1>4, BuildFrame DEF AssembleAsterisk

LEMMA AggregateStep ==
  ASSUME IndInv, NEW f \in SharedFeeds, Aggregate(f) PROVE IndInv'
<1>1. Good(f \cup asterisk) /\ \A r \in f \cup asterisk : Genuine(r)
  BY AggregateGood DEF IndInv, Aggregate
<1>2. Feeds'
  BY <1>1 DEF IndInv, Feeds, Aggregate
<1> QED
  BY <1>2, BuildFrame DEF Aggregate

LEMMA CommitStep ==
  ASSUME IndInv, NEW p \in PinSets, Commit(p) PROVE IndInv'
<1>1. Types'
  BY DEF IndInv, Types, Commit
<1>2. Feeds' /\ FeedOk' /\ GenuineOk'
  BY DEF IndInv, Feeds, FeedOk, OneEntry, GenuineOk, Doubtful, Commit
<1>3. JobsOk'
  BY DEF IndInv, JobsOk, PinsLast, InFlight, Fetched, Alone, Commit
<1> QED
  BY <1>1, <1>2, <1>3 DEF IndInv

LEMMA StartStep ==
  ASSUME IndInv, NEW source \in {"site", "build"}, Start(source) PROVE IndInv'
<1>1. run' = [step |-> "fetch", source |-> source] /\ cache' = saved
  BY DEF Start
<1>2. PICK y : y = [at |-> "queued", url |-> 1, tries |-> 0, file |-> "none"]
  OBVIOUS
<1>3. y \in Job /\ y.at = "queued"
  BY <1>2, InputsAssumption DEF Job
<1>4. jobs' = [r \in live \cup pins |-> y]
  BY <1>2 DEF Start
<1>5. UNCHANGED <<asterisk, built, live, pins, saved, baseline, faults>>
  BY DEF Start
<1>6. Types'
  BY <1>1, <1>3, <1>4, <1>5 DEF IndInv, Types, Steps
<1>7. Feeds' /\ FeedOk'
  BY <1>5 DEF IndInv, Feeds, FeedOk, OneEntry
<1>8. GenuineOk'
  BY <1>1, <1>5 DEF IndInv, GenuineOk, Doubtful
<1>9. JobsOk'
  BY <1>1, <1>3, <1>4 DEF JobsOk, PinsLast, InFlight, Fetched
<1> QED
  BY <1>6, <1>7, <1>8, <1>9 DEF IndInv

(* A step of the run after the fetches: the jobs stay as they are. *)
LEMMA RunFrame ==
  ASSUME IndInv, UNCHANGED <<asterisk, built, live, pins, saved, cache, jobs, faults>>,
         run.step # "idle", \A r \in DOMAIN jobs : jobs[r].at = "done",
         NEW s \in Steps \ {"idle"}, run' = [run EXCEPT !.step = s],
         baseline' \subseteq Entry, Good(Recs(baseline')),
         \A e, d \in baseline' :
            e.rec.pkg = d.rec.pkg /\ ~Asterisk(e.rec) /\ ~Asterisk(d.rec) => e = d,
         \A e \in baseline' : ~Doubtful(e.rec.pkg) =>
            Genuine(e.rec) /\ (s = "overlay" => e.file = e.rec.sha)
  PROVE  IndInv'
<1>1. run' \in [step : Steps, source : {"site", "build"}] /\ run'.step = s
  BY DEF IndInv, Types
<1>2. Types'
  BY <1>1 DEF IndInv, Types
<1>3. Feeds' /\ FeedOk'
  BY DEF IndInv, Feeds, FeedOk, OneEntry
<1>4. GenuineOk'
  BY <1>1 DEF GenuineOk, Doubtful
<1>5. JobsOk'
  BY DEF IndInv, JobsOk, PinsLast, InFlight, Fetched, Alone
<1> QED
  BY <1>2, <1>3, <1>4, <1>5 DEF IndInv

(* Entries whose files are what the records say. *)
Whole(rows) == {[rec |-> r, file |-> r.sha] : r \in rows}

LEMMA WholeEntries ==
  ASSUME NEW rows, Good(rows)
  PROVE  /\ Whole(rows) \subseteq Entry /\ Recs(Whole(rows)) = rows
         /\ \A e \in Whole(rows) : e.rec \in rows /\ e.file = e.rec.sha
         /\ \A e, d \in Whole(rows) :
              e.rec.pkg = d.rec.pkg /\ ~Asterisk(e.rec) /\ ~Asterisk(d.rec) => e = d
<1>1. \A r \in rows : r.sha \in Digests \cup {"partial"} /\ r \in Record
  BY DEF Good, Record
<1>2. \A e \in Whole(rows) : e \in Entry /\ e.rec \in rows /\ e.file = e.rec.sha
  BY <1>1 DEF Whole, Entry
<1>3. Recs(Whole(rows)) = rows
  <2>1. ASSUME NEW r \in rows PROVE \E e \in Whole(rows) : e.rec = r
    <3>1. PICK e : e = [rec |-> r, file |-> r.sha]
      OBVIOUS
    <3>2. e \in Whole(rows) /\ e.rec = r
      BY <3>1 DEF Whole
    <3> QED
      BY <3>2
  <2> QED
    BY <1>2, <2>1 DEF Recs
<1>4. ASSUME NEW e \in Whole(rows), NEW d \in Whole(rows), e.rec.pkg = d.rec.pkg,
             ~Asterisk(e.rec), ~Asterisk(d.rec)
      PROVE  e = d
  <2>1. e.rec = d.rec
    BY <1>2, <1>4 DEF Good, OneEach
  <2> QED
    BY <2>1 DEF Whole
<1> QED
  BY <1>2, <1>3, <1>4

LEMMA StagedStep ==
  ASSUME IndInv, Staged PROVE IndInv'
<1>0. Types /\ Feeds /\ JobsOk /\ Good(live)
  BY DEF IndInv, Feeds
<1>1. run.step = "fetch" /\ \A r \in DOMAIN jobs : jobs[r].at = "done"
  BY DEF Staged
<1>2. jobs \in [live \cup pins -> Job] /\ DOMAIN jobs = live \cup pins
  BY <1>0, <1>1 DEF Types
<1>3. {q \in DOMAIN jobs : q.section # "archive"} = live
  BY <1>0, <1>2, FetchedRecords
<1> DEFINE E(r) == [rec |-> [r EXCEPT !.origin = r.section], file |-> jobs[r].file]
<1>4. baseline' = {E(r) : r \in live}
  BY <1>3 DEF Staged
<1>5. ASSUME NEW r \in live
      PROVE  /\ E(r) \in Entry /\ E(r).rec \in Record /\ Like(E(r).rec, r) /\ E(r).rec.sha = r.sha
             /\ Alone(r) => E(r).file = r.sha
  <2>1. jobs[r] \in Job /\ jobs[r].at = "done" /\ Fetched(r)
    BY <1>0, <1>1, <1>2 DEF JobsOk
  <2>2. jobs[r].file \in Digests \cup {"partial"} /\ (Alone(r) => jobs[r].file = r.sha)
    BY <2>1 DEF Fetched, Job
  <2>3. PICK x : x = [r EXCEPT !.origin = r.section]
    OBVIOUS
  <2>4. x \in Record /\ Like(x, r) /\ x.sha = r.sha
    <3>1. r \in Record /\ r.section \in Origins
      BY <1>0, FetchedRecords DEF Origins
    <3> QED
      BY <2>3, <3>1, RecordChange DEF Like
  <2> QED
    BY <2>2, <2>3, <2>4 DEF Entry
<1> HIDE DEF E
<1>6. baseline' \subseteq Entry
  BY <1>4, <1>5
<1>7. ASSUME NEW e \in baseline', NEW d \in baseline', e.rec.pkg = d.rec.pkg,
             ~Asterisk(e.rec), ~Asterisk(d.rec)
      PROVE  e = d
  <2>1. PICK r \in live : e = E(r)
    BY <1>4
  <2>2. PICK q \in live : d = E(q)
    BY <1>4
  <2>3. r = q
    BY <1>0, <1>5, <1>7, <2>1, <2>2 DEF Good, OneEach, Like, Asterisk
  <2> QED
    BY <2>1, <2>2, <2>3
<1>8. Good(Recs(baseline'))
  <2>1. OneEach(Recs(baseline'))
    BY <1>7 DEF OneEach, Recs
  <2>2. \A x \in Recs(baseline') : x \in Record /\ \E r \in live : Like(x, r) /\ x.sha = r.sha
    BY <1>4, <1>5 DEF Recs
  <2>3. \A r \in live : \E x \in Recs(baseline') : Like(x, r)
    BY <1>4, <1>5 DEF Recs
  <2> QED
    BY <1>0, <2>1, <2>2, <2>3, StagedGood
<1>9. ASSUME NEW e \in baseline', ~Doubtful(e.rec.pkg)
      PROVE  Genuine(e.rec) /\ e.file = e.rec.sha
  <2>1. PICK r \in live : e = E(r)
    BY <1>4
  <2>2. Genuine(r) /\ Alone(r)
    BY <1>5, <1>9, <2>1 DEF Doubtful, Alone, Like
  <2> QED
    BY <1>5, <1>9, <2>1, <2>2 DEF Genuine, Like
<1>10. PICK s \in Steps \ {"idle"} : run' = [run EXCEPT !.step = s]
  BY DEF Staged, Steps
<1> QED
  BY <1>1, <1>6, <1>7, <1>8, <1>9, <1>10, RunFrame DEF Staged

LEMMA AdoptStep ==
  ASSUME IndInv, Adopt PROVE IndInv'
<1>0. Good(built) /\ \A r \in built : Genuine(r)
  BY DEF IndInv, Feeds
<1>1. baseline' = Whole(built) /\ run' = [run EXCEPT !.step = "overlay"] /\ run.step = "adopt"
  BY DEF Adopt, Whole
<1>2. \A r \in DOMAIN jobs : jobs[r].at = "done"
  BY <1>1 DEF IndInv, JobsOk
<1>3. /\ baseline' \subseteq Entry /\ Good(Recs(baseline'))
      /\ \A e, d \in baseline' :
           e.rec.pkg = d.rec.pkg /\ ~Asterisk(e.rec) /\ ~Asterisk(d.rec) => e = d
      /\ \A e \in baseline' : Genuine(e.rec) /\ e.file = e.rec.sha
  BY <1>0, <1>1, WholeEntries
<1>4. "overlay" \in Steps \ {"idle"}
  BY DEF Steps
<1> QED
  BY <1>1, <1>2, <1>3, <1>4, RunFrame DEF Adopt

LEMMA OverlayStep ==
  ASSUME IndInv, Overlay PROVE IndInv'
<1>0. /\ run.step = "overlay" /\ UNCHANGED <<asterisk, built, live, pins, saved, faults>>
      /\ faults' \in 0 .. MaxFaults /\ baseline \subseteq Entry /\ FeedOk
  BY DEF Overlay, IndInv, Types
<1>1. CASE ~\A e \in Overlaid : Expected(e)
  BY <1>0, <1>1, EndRunInv DEF Overlay
<1>2. CASE \A e \in Overlaid : Expected(e)
  <2>1. baseline' = AfterOverlay /\ run' = [run EXCEPT !.step = "prepare"] /\ UNCHANGED <<cache, jobs>>
    BY <1>2 DEF Overlay, AfterOverlay, NotOverlaid, Rewritten, FromSnapshot
  <2>2. \A r \in DOMAIN jobs : jobs[r].at = "done"
    BY <1>0 DEF IndInv, JobsOk
  <2>3. ASSUME NEW e \in AfterOverlay, ~Doubtful(e.rec.pkg)
        PROVE  Genuine(e.rec)
    <3>1. \A d \in baseline : d.rec.pkg = e.rec.pkg => Genuine(d.rec) /\ d.file = d.rec.sha
      BY <1>0, <2>3 DEF IndInv, GenuineOk
    <3>2. CASE e \in baseline
      BY <3>1, <3>2
    <3>3. CASE \E d \in baseline : Like(e.rec, d.rec) /\ e.rec.sha = d.file
      BY <3>1, <3>3 DEF Genuine, Like
    <3>4. CASE e \in FromSnapshot
      BY <3>4, SnapshotEntry
    <3> QED
      BY <1>0, <3>2, <3>3, <3>4, AfterOverlayCases DEF FeedOk
  <2>4. "prepare" \in Steps \ {"idle"} /\ "prepare" # "overlay"
    BY DEF Steps
  <2>5. /\ baseline' \subseteq Entry /\ Good(Recs(baseline'))
        /\ \A e, d \in baseline' :
             e.rec.pkg = d.rec.pkg /\ ~Asterisk(e.rec) /\ ~Asterisk(d.rec) => e = d
    BY <1>0, <2>1, OverlayGood
  <2> QED
    BY <1>0, <2>1, <2>2, <2>3, <2>4, <2>5, RunFrame
<1> QED
  BY <1>1, <1>2

LEMMA PrepareStep ==
  ASSUME IndInv, NEW tail \in BOOLEAN, Prepare(tail) PROVE IndInv'
<1>0. /\ run.step = "prepare" /\ UNCHANGED <<asterisk, built, live, pins, saved, faults>>
      /\ faults' \in 0 .. MaxFaults /\ Good(Recs(baseline)) /\ pins \in PinSets
  BY DEF Prepare, IndInv, Types, FeedOk
<1>1. CASE EndRun
  BY <1>0, <1>1, EndRunInv
<1>2. CASE ~EndRun
  <2>1. PICK new : new = PromotedApplications(Recs(baseline))
    OBVIOUS
  <2>2. baseline' = Whole(new) /\ run' = [run EXCEPT !.step = "deploy"] /\ UNCHANGED <<cache, jobs>>
    BY <1>2, <2>1 DEF Prepare, Whole
  <2>3. \A r \in DOMAIN jobs : jobs[r].at = "done"
    BY <1>0 DEF IndInv, JobsOk
  <2>4. Good(new) /\ \A r \in new : r \in Recs(baseline) \/ Genuine(r)
    BY <1>0, <2>1, PromotedGood
  <2>5. /\ baseline' \subseteq Entry /\ Good(Recs(baseline'))
        /\ \A e, d \in baseline' :
             e.rec.pkg = d.rec.pkg /\ ~Asterisk(e.rec) /\ ~Asterisk(d.rec) => e = d
        /\ \A e \in baseline' : e.rec \in new
    BY <2>2, <2>4, WholeEntries
  <2>6. ASSUME NEW e \in baseline', ~Doubtful(e.rec.pkg)
        PROVE  Genuine(e.rec)
    <3>1. \A r \in Recs(baseline) : r = e.rec => Genuine(r)
      BY <2>6 DEF IndInv, GenuineOk, Recs
    <3> QED
      BY <2>4, <2>5, <3>1
  <2>7. "deploy" \in Steps \ {"idle"} /\ "deploy" # "overlay"
    BY DEF Steps
  <2> QED
    BY <1>0, <2>2, <2>3, <2>5, <2>6, <2>7, RunFrame
<1> QED
  BY <1>1, <1>2

LEMMA DeployStep ==
  ASSUME IndInv, Deploy PROVE IndInv'
<1>1. /\ run' = [step |-> "idle", source |-> "site"] /\ DOMAIN jobs' = {} /\ baseline' = {}
      /\ cache' = cache /\ saved' = cache /\ live' = Recs(baseline)
      /\ UNCHANGED <<asterisk, built, pins, faults>>
  BY DEF Deploy, Idle
<1>2. Types'
  BY <1>1 DEF IndInv, Types, Steps
<1>3. Feeds'
  BY <1>1 DEF IndInv, Feeds, FeedOk
<1>4. FeedOk' /\ GenuineOk'
  <2>1. Recs(baseline') = {}
    BY <1>1 DEF Recs
  <2>2. Good(Recs(baseline'))
    BY <2>1, NothingGood
  <2> QED
    BY <1>1, <2>2 DEF FeedOk, OneEntry, GenuineOk
<1>5. JobsOk'
  BY <1>1 DEF JobsOk, PinsLast, InFlight
<1> QED
  BY <1>2, <1>3, <1>4, <1>5 DEF IndInv

LEMMA RotStep ==
  ASSUME IndInv, NEW d \in Digests, Rot(d) PROVE IndInv'
<1>1. /\ saved' = [saved EXCEPT ![d] = "partial"] /\ cache' = saved'
      /\ run.step = "idle" /\ UNCHANGED <<asterisk, built, live, pins, run, jobs, baseline>>
  BY DEF Rot
<1>2. saved' \in Files /\ faults' \in 0 .. MaxFaults
  BY <1>1, FaultTypes DEF Rot, IndInv, Types, Files
<1>3. Types'
  BY <1>1, <1>2 DEF IndInv, Types
<1>4. Feeds' /\ FeedOk' /\ GenuineOk'
  BY <1>1 DEF IndInv, Feeds, FeedOk, OneEntry, GenuineOk, Doubtful
<1>5. DOMAIN jobs' = {}
  BY <1>1 DEF IndInv, Types
<1>6. JobsOk'
  BY <1>1, <1>5 DEF JobsOk, PinsLast, InFlight
<1> QED
  BY <1>3, <1>4, <1>6 DEF IndInv

LEMMA EvictStep ==
  ASSUME IndInv, Evict PROVE IndInv'
<1>1. /\ cache' = saved' /\ run.step = "idle"
      /\ UNCHANGED <<asterisk, built, live, pins, run, jobs, baseline, faults>>
  BY DEF Evict
<1>2. saved' \in Files
  BY DEF Evict, Files
<1>3. Types'
  BY <1>1, <1>2 DEF IndInv, Types
<1>4. Feeds' /\ FeedOk' /\ GenuineOk'
  BY <1>1 DEF IndInv, Feeds, FeedOk, OneEntry, GenuineOk, Doubtful
<1>5. DOMAIN jobs' = {}
  BY <1>1 DEF IndInv, Types
<1>6. JobsOk'
  BY <1>1, <1>5 DEF JobsOk, PinsLast, InFlight
<1> QED
  BY <1>3, <1>4, <1>6 DEF IndInv

LEMMA FetchStepInv ==
  ASSUME IndInv, FetchStep PROVE IndInv'
BY LookupStep, DownloadOkStep, TruncateStep, FillStep, CopyStep, NotThereStep DEF FetchStep

LEMMA IndStep == IndInv /\ [Next]_vars => IndInv'
<1> SUFFICES ASSUME IndInv, [Next]_vars PROVE IndInv'
  OBVIOUS
<1>1. CASE RunStep
  BY <1>1, FetchStepInv, StagedStep, AdoptStep, OverlayStep, PrepareStep, DeployStep DEF RunStep
<1>2. CASE \E a \in AsteriskBuilds : AssembleAsterisk(a)
  BY <1>2, AssembleAsteriskStep
<1>3. CASE \E f \in SharedFeeds : Aggregate(f)
  BY <1>3, AggregateStep
<1>4. CASE \E p \in PinSets : Commit(p)
  BY <1>4, CommitStep
<1>5. CASE \E s \in {"site", "build"} : Start(s)
  BY <1>5, StartStep
<1>6. CASE \E r \in DOMAIN jobs, gone \in BOOLEAN : DownloadFails(r, gone)
  BY <1>6, DownloadFailsStep
<1>7. CASE (\E d \in Digests : Rot(d)) \/ Evict
  BY <1>7, RotStep, EvictStep
<1>8. CASE UNCHANGED vars
  <2>1. Feeds'
    BY <1>8 DEF vars, IndInv, Feeds
  <2> QED
    BY <1>8, <2>1, BuildFrame DEF vars
<1> QED
  BY <1>1, <1>2, <1>3, <1>4, <1>5, <1>6, <1>7, <1>8 DEF Next

LEMMA Inductive == Spec => []IndInv
BY InitInv, IndStep, PTL DEF Spec

-----------------------------------------------------------------------------
(* Every set of records, the files of the cache and of the fetches and the *)
(* states of the run have their types.                                     *)
THEOREM TypeCorrect == Spec => []TypeOK
<1>1. ASSUME IndInv PROVE TypeOK
  <2>1. Types /\ Feeds
    BY <1>1 DEF IndInv
  <2>2. DOMAIN jobs \subseteq Record /\ \A r \in DOMAIN jobs : jobs[r] \in Job
    BY <2>1, FetchedRecords DEF Types
  <2> QED
    BY <2>1, <2>2 DEF TypeOK, Types, Feeds, Good, Entry
<1> QED
  BY <1>1, Inductive, PTL

(* Whatever builds, overlays and manifests a sequence of publications      *)
(* mixes, the shared sections of the site have one package of a name.      *)
THEOREM OnePackageOfAName == Spec => []OneCopy
<1>1. IndInv => OneCopy
  BY DEF IndInv, Feeds, Good, OneEach, OneCopy, Asterisk
<1> QED
  BY <1>1, Inductive, PTL

(* The dependencies that assemble-asterisk-feed.py verified stay resolved  *)
(* on the site: neither overlay() nor promoted_applications() takes a name *)
(* away that the Asterisk feed needs.                                      *)
THEOREM AsteriskStaysResolved == Spec => []AsteriskResolves
<1>1. IndInv => AsteriskResolves
  BY DEF IndInv, Feeds, Good, Resolves, AsteriskResolves, Asterisk
<1> QED
  BY <1>1, Inductive, PTL

(* What a term is to opkg, for the two answers of the audit. *)
LEMMA OfferedSatisfies ==
  ASSUME NEW t, t.op = "", Offered(t.name) PROVE Satisfied(t)
BY DEF Offered, Satisfied

LEMMA ExactSatisfies ==
  ASSUME NEW t, ExactVersionAvailable(t), t.ver \in Versions \ {<<>>} PROVE Satisfied(t)
<1>1. Rank[t.ver] \in Nat /\ t.op \in {"=", ">=", "<="}
  BY InputsAssumption DEF ExactVersionAvailable
<1>2. PICK r \in Audited : \E o \in Offers(r) : o.name = t.name /\ o.ver = t.ver
  BY DEF ExactVersionAvailable
<1>3. PICK o \in Offers(r) : o.name = t.name /\ o.ver = t.ver
  BY <1>2
<1>4. PICK n \in Nat : n = Rank[o.ver] /\ n = Rank[t.ver] /\ n >= n /\ n <= n
  BY <1>1, <1>3
<1>5. o.ver # <<>>
  BY <1>3
<1>6. CASE t.op = "="
  BY <1>3, <1>5, <1>6 DEF Satisfied
<1>7. CASE t.op = ">="
  BY <1>3, <1>4, <1>5, <1>7 DEF Satisfied
<1>8. CASE t.op = "<="
  BY <1>3, <1>4, <1>5, <1>8 DEF Satisfied
<1> QED
  BY <1>1, <1>6, <1>7, <1>8

LEMMA SatisfiedIsOffered ==
  ASSUME NEW t, Satisfied(t) PROVE Offered(t.name)
BY DEF Offered, Satisfied

(* report-feed-dependencies.py: a dependency the audit does not report is  *)
(* one that opkg can satisfy from the site, and one it calls unresolved is *)
(* not.                                                                    *)
THEOREM AuditIsSound == Spec => []AuditSound
<1>1. ASSUME IndInv PROVE AuditSound
  <2> SUFFICES ASSUME NEW r \in Audited, NEW g \in Depends[r.pkg]
               PROVE  /\ Status(g) \in {"name-available", "exact-version-available"}
                           => \E t \in g : Satisfied(t)
                      /\ Status(g) = "unresolved" => \A t \in g : ~Satisfied(t)
    BY DEF AuditSound
  <2>1. r.pkg \in Packages
    BY <1>1 DEF IndInv, Feeds, Good, Audited, Record
  <2>2. \A t \in g : ExactVersionAvailable(t) => Satisfied(t)
    <3> SUFFICES ASSUME NEW t \in g, ExactVersionAvailable(t) PROVE Satisfied(t)
      OBVIOUS
    <3>1. t.op # ""
      BY DEF ExactVersionAvailable
    <3>2. t.ver \in Versions \ {<<>>}
      BY <2>1, <3>1, VersionsAssumption
    <3> QED
      BY <3>2, ExactSatisfies
  <2>3. CASE \E t \in g : t.op = "" /\ Offered(t.name)
    <3>1. Status(g) = "name-available" /\ \E t \in g : Satisfied(t)
      BY <2>3, OfferedSatisfies DEF Status
    <3> QED
      BY <3>1
  <2>4. CASE \E t \in g : ExactVersionAvailable(t)
    <3>1. \E t \in g : Satisfied(t)
      BY <2>2, <2>4
    <3>2. Status(g) # "unresolved"
      BY <2>4 DEF Status
    <3> QED
      BY <3>1, <3>2
  <2>5. CASE /\ ~\E t \in g : t.op = "" /\ Offered(t.name)
             /\ ~\E t \in g : ExactVersionAvailable(t)
    <3>1. Status(g) \notin {"name-available", "exact-version-available"}
      BY <2>5 DEF Status
    <3>2. Status(g) = "unresolved" => ~\E t \in g : Offered(t.name)
      BY <2>5 DEF Status
    <3> QED
      BY <3>1, <3>2, SatisfiedIsOffered
  <2> QED
    BY <2>3, <2>4, <2>5
<1> QED
  BY <1>1, Inductive, PTL

(* Only Deploy changes the site. *)
LEMMA FailedTry ==
  ASSUME IndInv, NEW r \in DOMAIN jobs, NEW gone \in BOOLEAN, TryFails(r, gone)
  PROVE  live' = live /\ run.step = "fetch" /\ run'.step \in {"idle", "fetch"}
<1>1. run.step = "fetch"
  BY Fetching DEF TryFails
<1> QED
  BY <1>1 DEF TryFails, EndRun, Idle

LEMMA OnlyDeploy ==
  ASSUME IndInv, [Next]_vars
  PROVE  /\ live' = live \/ Deploy
         /\ run.step = "deploy" /\ run'.step = "idle" => Deploy
<1>1. CASE RunStep
  <2>1. CASE FetchStep
    <3>1. PICK r \in DOMAIN jobs :
            \/ FetchOnly
            \/ \E gone \in BOOLEAN : TryFails(r, gone)
      BY <2>1 DEF FetchStep, Lookup, DownloadOk, Truncate, Fill, Copy, NotThere
    <3> QED
      BY <3>1, FailedTry DEF FetchOnly
  <2> QED
    BY <1>1, <2>1 DEF RunStep, Staged, Adopt, Overlay, Prepare
<1>2. CASE \E r \in DOMAIN jobs, gone \in BOOLEAN : DownloadFails(r, gone)
  BY <1>2, FailedTry DEF DownloadFails
<1>3. CASE \/ \E a \in AsteriskBuilds : AssembleAsterisk(a)
           \/ \E f \in SharedFeeds : Aggregate(f)
           \/ \E p \in PinSets : Commit(p)
           \/ \E s \in {"site", "build"} : Start(s)
           \/ \E d \in Digests : Rot(d)
           \/ Evict
           \/ UNCHANGED vars
  BY <1>3 DEF AssembleAsterisk, Aggregate, Commit, Start, Rot, Evict, vars
<1> QED
  BY <1>1, <1>2, <1>3 DEF Next

(* A publication puts no file on the site that no build made, however the  *)
(* downloads of the pool interleave and whatever the cache holds, but for  *)
(* a package whose file two records of the catalog share, in a section     *)
(* that overlay() indexes again.                                           *)
THEOREM NoForeignFiles == Spec => FilesGenuine
<1>1. ASSUME IndInv, IndInv', [Next]_vars
      PROVE  \A r \in live' : Genuine(r) \/ (r.section \in {"base", "packages"} /\ Doubtful(r.pkg))
  <2> SUFFICES ASSUME NEW r \in live', ~Genuine(r)
               PROVE  r.section \in {"base", "packages"} /\ Doubtful(r.pkg)
    OBVIOUS
  <2>1. r.section \in {"base", "packages"}
    BY <1>1 DEF IndInv, Feeds, Good, Proper, Sections, Untouched
  <2>2. CASE live' = live
    BY <2>1, <2>2 DEF Doubtful
  <2>3. CASE Deploy
    <3>1. \A e \in baseline : Genuine(e.rec) \/ Doubtful(e.rec.pkg)
      BY <1>1 DEF IndInv, GenuineOk
    <3>2. live' = {e.rec : e \in baseline}
      BY <2>3 DEF Deploy, Recs
    <3> QED
      BY <2>1, <3>1, <3>2
  <2> QED
    BY <1>1, <2>2, <2>3, OnlyDeploy
<1> QED
  BY <1>1, Inductive, PTL DEF Spec, FilesGenuine

-----------------------------------------------------------------------------
(* Versions.  tokens() orders them as the releases are ordered. *)
RankOrder == \A v, w \in Versions : Newer(v, w) <=> Rank[v] > Rank[w]

LEMMA AtLeastTransitive ==
  ASSUME NEW old, NEW rows, NEW new, old \in Record, rows \subseteq Record, new \subseteq Record,
         AtLeast(old, rows), \A q \in rows : q.pkg = old.pkg => AtLeast(q, new)
  PROVE  AtLeast(old, new)
<1>1. PICK q \in rows : /\ q.pkg = old.pkg /\ Rank[q.ver] >= Rank[old.ver]
                        /\ q.section = "asterisk-20" <=> old.section = "asterisk-20"
  BY DEF AtLeast
<1>2. PICK n \in new : /\ n.pkg = q.pkg /\ Rank[n.ver] >= Rank[q.ver]
                       /\ n.section = "asterisk-20" <=> q.section = "asterisk-20"
  BY <1>1 DEF AtLeast
<1>3. Rank[n.ver] \in Nat /\ Rank[q.ver] \in Nat /\ Rank[old.ver] \in Nat
  BY InputsAssumption DEF Record
<1>4. Rank[n.ver] >= Rank[old.ver]
  BY <1>1, <1>2, <1>3
<1> QED
  BY <1>1, <1>2, <1>4 DEF AtLeast

LEMMA AtLeastLike ==
  ASSUME NEW r \in Record, NEW rows, NEW x \in rows, Like(x, r)
  PROVE  AtLeast(r, rows)
<1>1. Rank[r.ver] \in Nat
  BY InputsAssumption DEF Record
<1>2. Rank[x.ver] >= Rank[r.ver]
  BY <1>1 DEF Like
<1> QED
  BY <1>2 DEF AtLeast, Like

(* overlay() replaces a package by one of its version or a newer one. *)
LEMMA OverlayRaises ==
  ASSUME baseline \subseteq Entry, FeedOk, \A e \in Overlaid : Expected(e),
         NEW q \in Recs(baseline), q.pkg # Removed
  PROVE  AtLeast(q, Recs(AfterOverlay))
<1>1. PICK e \in baseline : q = e.rec
  BY DEF Recs
<1>2. q \in Record
  BY <1>1 DEF Entry
<1>3. CASE e \in NotOverlaid
  <2>1. q \in Recs(AfterOverlay) /\ Like(q, q)
    BY <1>1, <1>3 DEF Recs, AfterOverlay, Like
  <2> QED
    BY <1>2, <2>1, AtLeastLike
<1>4. CASE e \in Overlaid /\ ~Dropped(e)
  <2>1. Reindexed(e) \in AfterOverlay /\ Like(Reindexed(e).rec, q)
    BY <1>1, <1>4, RewrittenEntry DEF AfterOverlay, Rewritten
  <2>2. Reindexed(e).rec \in Recs(AfterOverlay)
    BY <2>1 DEF Recs
  <2> QED
    BY <1>2, <2>1, <2>2, AtLeastLike
<1>5. CASE e \in Overlaid /\ Dropped(e)
  <2>1. PICK s \in Snapshot : s.pkg = q.pkg
    BY <1>1, <1>5 DEF Dropped, Names
  <2>2. q.section = s.section /\ q.ver \in Allowed(s)
    BY <1>1, <1>5, <2>1 DEF Expected
  <2>3. s \in Record /\ Rank[s.ver] \in Nat /\ Rank[q.ver] \in Nat
    BY <1>2, InputsTyped, InputsAssumption DEF Record
  <2>4. Rank[s.ver] >= Rank[q.ver]
    <3>1. CASE q.ver = s.ver
      BY <2>3, <3>1
    <3>2. CASE q.ver # s.ver
      <4>1. q.ver = LegacyVersion /\ s.pkg \in OpenVpn
        BY <2>2, <3>2 DEF Allowed
      <4>2. Rank[LegacyVersion] <= Rank[s.ver]
        BY <4>1, VersionsAssumption
      <4> QED
        BY <2>3, <4>1, <4>2
    <3> QED
      BY <3>1, <3>2
  <2>5. s \in Recs(AfterOverlay)
    <3>1. PICK y : y = [rec |-> s, file |-> s.sha]
      OBVIOUS
    <3>2. y \in AfterOverlay /\ y.rec = s
      BY <3>1 DEF AfterOverlay, FromSnapshot
    <3> QED
      BY <3>2 DEF Recs
  <2> QED
    BY <2>1, <2>2, <2>4, <2>5 DEF AtLeast
<1> QED
  BY <1>1, <1>3, <1>4, <1>5 DEF NotOverlaid

(* promoted_applications() too: a pin takes the place of what is not newer. *)
LEMMA PromotedRaises ==
  ASSUME RankOrder, NEW rows, Good(rows), pins \in PinSets, NEW new, new = PromotedApplications(rows)
  PROVE  /\ \A q \in rows : AtLeast(q, new)
         /\ \A p \in pins : AtLeast(p, new)
<1> DEFINE gone == UNION {Matches(rows, p) : p \in UsedPins(rows)}
<1>0. new = (rows \ gone) \cup {Placed(rows, p) : p \in UsedPins(rows)}
  BY PromotedIs
<1>1. \A r \in gone : \E p \in UsedPins(rows) : r \in Matches(rows, p)
  OBVIOUS
<1> HIDE DEF gone
<1>2. rows \subseteq Record /\ pins \subseteq Record /\ \A r \in Record : r.ver \in Versions /\ Rank[r.ver] \in Nat
  BY InputsTyped, InputsAssumption DEF Good, Record
<1>3. \A p \in UsedPins(rows) :
        /\ p \in pins /\ ~KeptFeed(rows, p) /\ Placed(rows, p) \in new
        /\ ~Asterisk(Placed(rows, p)) /\ Placed(rows, p).pkg = p.pkg /\ Placed(rows, p).ver = p.ver
  BY <1>0, PlacedPin DEF UsedPins
<1>4. \A p \in pins : p.section = "archive" /\ ~Asterisk(p)
  BY SectionsAssumption DEF Asterisk
<1>5. ASSUME NEW q \in rows PROVE AtLeast(q, new)
  <2>1. CASE q \notin gone
    <3>1. q \in new /\ Like(q, q)
      BY <1>0, <2>1 DEF Like
    <3> QED
      BY <1>2, <3>1, AtLeastLike
  <2>2. CASE q \in gone
    <3>1. PICK p \in UsedPins(rows) : q \in Matches(rows, p)
      BY <1>1, <2>2
    <3>2. FirstMatch(rows, p) \in Matches(rows, p)
      BY <3>1, FirstMatchIn DEF Good
    <3>3. q = FirstMatch(rows, p) /\ q.pkg = p.pkg /\ ~Asterisk(q)
      BY <3>1, <3>2 DEF Matches, Good, OneEach, Asterisk
    <3>4. ~Newer(q.ver, p.ver)
      BY <1>3, <3>1, <3>3 DEF KeptFeed
    <3>5. Rank[p.ver] >= Rank[q.ver]
      BY <1>2, <1>3, <3>4 DEF RankOrder
    <3> QED
      BY <1>3, <3>3, <3>5 DEF AtLeast, Asterisk
  <2> QED
    BY <2>1, <2>2
<1>6. ASSUME NEW p \in pins PROVE AtLeast(p, new)
  <2>1. CASE p \in UsedPins(rows)
    <3>1. Rank[Placed(rows, p).ver] >= Rank[p.ver]
      BY <1>2, <1>3, <2>1
    <3> QED
      BY <1>3, <1>4, <2>1, <3>1 DEF AtLeast, Asterisk
  <2>2. CASE p \notin UsedPins(rows)
    <3>1. KeptFeed(rows, p)
      BY <2>2 DEF UsedPins
    <3>2. PICK m : m = FirstMatch(rows, p)
      OBVIOUS
    <3>3. m \in Matches(rows, p) /\ Newer(m.ver, p.ver)
      BY <3>1, <3>2, FirstMatchIn DEF KeptFeed, Good
    <3>4. m \in rows /\ m.pkg = p.pkg /\ ~Asterisk(m)
      BY <3>3 DEF Matches, Asterisk
    <3>5. m \notin gone
      <4> SUFFICES ASSUME m \in gone PROVE FALSE
        OBVIOUS
      <4>1. PICK x \in UsedPins(rows) : m \in Matches(rows, x)
        BY <1>1
      <4>2. x = p
        BY <1>3, <3>4, <4>1, OneOfAName DEF Matches
      <4> QED
        BY <2>2, <4>2
    <3>6. m \in new
      BY <1>0, <3>4, <3>5
    <3>7. Rank[m.ver] >= Rank[p.ver]
      BY <1>2, <3>3, <3>4 DEF RankOrder
    <3> QED
      BY <1>4, <3>4, <3>6, <3>7 DEF AtLeast, Asterisk
  <2> QED
    BY <2>1, <2>2
<1> QED
  BY <1>5, <1>6

LEMMA CoversTransitive ==
  ASSUME NEW old, NEW rows, NEW new, old \subseteq Record, rows \subseteq Record, new \subseteq Record,
         Covers(rows, old), \A q \in rows : q.pkg # Removed => AtLeast(q, new)
  PROVE  Covers(new, old)
<1> SUFFICES ASSUME NEW r \in old, r.pkg # Removed PROVE AtLeast(r, new)
  BY DEF Covers
<1>1. AtLeast(r, rows) /\ \A q \in rows : q.pkg = r.pkg => AtLeast(q, new)
  BY DEF Covers
<1> QED
  BY <1>1, AtLeastTransitive

(* The four steps that change the run's feed. *)
LEMMA StagedVersions ==
  ASSUME IndInv, Staged, VersionsOk PROVE VersionsOk'
<1>1. run' = [run EXCEPT !.step = IF run.source = "build" THEN "adopt" ELSE "overlay"] /\ live' = live
  BY DEF Staged
<1>2. run \in [step : Steps, source : {"site", "build"}] /\ run.step = "fetch"
  BY DEF IndInv, Types, Staged
<1>3. /\ run'.source = run.source
      /\ run'.step = IF run.source = "build" THEN "adopt" ELSE "overlay"
  BY <1>1, <1>2
<1>4. Covers(Recs(baseline'), live)
  <2> SUFFICES ASSUME NEW r \in live PROVE AtLeast(r, Recs(baseline'))
    BY DEF Covers
  <2>1. r \in DOMAIN jobs /\ r.section # "archive" /\ r \in Record
    BY <1>2, FetchedRecords DEF IndInv, Types
  <2>2. PICK x : x = [r EXCEPT !.origin = r.section]
    OBVIOUS
  <2>3. Like(x, r)
    BY <2>1, <2>2 DEF Record, Like
  <2>4. PICK e : e = [rec |-> x, file |-> jobs[r].file]
    OBVIOUS
  <2>5. e \in baseline' /\ e.rec = x
    BY <2>1, <2>2, <2>4 DEF Staged
  <2>6. x \in Recs(baseline')
    BY <2>5 DEF Recs
  <2> QED
    BY <2>1, <2>3, <2>6, AtLeastLike
<1> QED
  BY <1>1, <1>3, <1>4 DEF VersionsOk

LEMMA AdoptVersions ==
  ASSUME IndInv, Adopt, VersionsOk PROVE VersionsOk'
<1>1. run.source = "build" /\ run' = [run EXCEPT !.step = "overlay"]
  BY DEF Adopt, VersionsOk
<1>2. run'.source = "build" /\ run'.step = "overlay"
  BY <1>1 DEF IndInv, Types
<1> QED
  BY <1>2 DEF VersionsOk

LEMMA IdleVersions ==
  ASSUME run'.step \in {"idle", "fetch"} PROVE VersionsOk'
BY DEF VersionsOk

LEMMA OverlayVersions ==
  ASSUME IndInv, Overlay, VersionsOk PROVE VersionsOk'
<1>1. CASE ~\A e \in Overlaid : Expected(e)
  <2>1. run'.step = "idle"
    BY <1>1 DEF Overlay, EndRun, Idle
  <2> QED
    BY <2>1, IdleVersions
<1>2. CASE \A e \in Overlaid : Expected(e)
  <2>1. /\ baseline' = AfterOverlay /\ run' = [run EXCEPT !.step = "prepare"] /\ live' = live
        /\ run.step = "overlay" /\ baseline \subseteq Entry /\ FeedOk
    BY <1>2 DEF Overlay, AfterOverlay, NotOverlaid, Rewritten, FromSnapshot, IndInv, Types
  <2>2. run'.source = run.source /\ run'.step = "prepare"
    BY <2>1 DEF IndInv, Types
  <2>3. ASSUME run.source = "site" PROVE Covers(Recs(AfterOverlay), live)
    <3>1. Covers(Recs(baseline), live)
      BY <2>1, <2>3 DEF VersionsOk
    <3>2. live \subseteq Record /\ Recs(baseline) \subseteq Record
      BY <2>1 DEF IndInv, Feeds, FeedOk, Good
    <3>3. Recs(AfterOverlay) \subseteq Record
      BY <2>1, OverlayGood DEF Good
    <3>4. \A q \in Recs(baseline) : q.pkg # Removed => AtLeast(q, Recs(AfterOverlay))
      BY <1>2, <2>1, OverlayRaises
    <3> QED
      BY <3>1, <3>2, <3>3, <3>4, CoversTransitive
  <2> QED
    BY <2>1, <2>2, <2>3 DEF VersionsOk
<1> QED
  BY <1>1, <1>2

LEMMA PrepareVersions ==
  ASSUME RankOrder, IndInv, NEW tail \in BOOLEAN, Prepare(tail), VersionsOk PROVE VersionsOk'
<1>1. CASE EndRun
  <2>1. run'.step = "idle"
    BY <1>1 DEF EndRun, Idle
  <2> QED
    BY <2>1, IdleVersions
<1>2. CASE ~EndRun
  <2>1. PICK new : new = PromotedApplications(Recs(baseline))
    OBVIOUS
  <2>2. /\ baseline' = Whole(new) /\ run' = [run EXCEPT !.step = "deploy"] /\ live' = live
        /\ pins' = pins /\ run.step = "prepare"
    BY <1>2, <2>1 DEF Prepare, Whole
  <2>3. run'.source = run.source /\ run'.step = "deploy"
    BY <2>2 DEF IndInv, Types
  <2>4. Good(Recs(baseline)) /\ Good(live) /\ pins \in PinSets
    BY DEF IndInv, Feeds, FeedOk, Types
  <2>5. Good(new) /\ Recs(baseline') = new
    BY <2>1, <2>2, <2>4, PromotedGood, WholeEntries
  <2>6. /\ \A q \in Recs(baseline) : AtLeast(q, new)
        /\ \A p \in pins : AtLeast(p, new)
    BY <2>1, <2>4, PromotedRaises
  <2>7. ASSUME run.source = "site" PROVE Covers(new, live)
    <3>1. Covers(Recs(baseline), live)
      BY <2>2, <2>7 DEF VersionsOk
    <3>2. live \subseteq Record /\ Recs(baseline) \subseteq Record /\ new \subseteq Record
      BY <2>4, <2>5 DEF Good
    <3> QED
      BY <2>6, <3>1, <3>2, CoversTransitive
  <2> QED
    BY <2>2, <2>3, <2>5, <2>6, <2>7 DEF VersionsOk
<1> QED
  BY <1>1, <1>2

LEMMA VersionsStep ==
  ASSUME RankOrder, IndInv, VersionsOk, [Next]_vars PROVE VersionsOk'
<1>1. CASE FetchStep
  <2>1. PICK r \in DOMAIN jobs :
          \/ FetchOnly
          \/ \E gone \in BOOLEAN : TryFails(r, gone)
    BY <1>1 DEF FetchStep, Lookup, DownloadOk, Truncate, Fill, Copy, NotThere
  <2>2. CASE FetchOnly
    BY <2>2 DEF FetchOnly, VersionsOk
  <2> QED
    BY <2>1, <2>2, FailedTry, IdleVersions
<1>2. CASE Deploy
  BY <1>2, IdleVersions DEF Deploy, Idle
<1>3. CASE \E r \in DOMAIN jobs, gone \in BOOLEAN : DownloadFails(r, gone)
  BY <1>3, FailedTry, IdleVersions DEF DownloadFails
<1>4. CASE \E p \in PinSets : Commit(p)
  BY <1>4, IdleVersions DEF Commit
<1>5. CASE \E s \in {"site", "build"} : Start(s)
  BY <1>5, IdleVersions DEF Start
<1>6. CASE \/ \E a \in AsteriskBuilds : AssembleAsterisk(a)
           \/ \E f \in SharedFeeds : Aggregate(f)
           \/ \E d \in Digests : Rot(d)
           \/ Evict
           \/ UNCHANGED vars
  BY <1>6 DEF AssembleAsterisk, Aggregate, Rot, Evict, vars, VersionsOk
<1> QED
  BY <1>1, <1>2, <1>3, <1>4, <1>5, <1>6, StagedVersions, AdoptVersions, OverlayVersions,
     PrepareVersions DEF Next, RunStep

(* When tokens() orders the versions as they were released, a publication  *)
(* leaves each pinned application in its version or a newer one, and one   *)
(* that selects no build lowers no version and drops no package but        *)
(* openvpn-nossl.                                                          *)
THEOREM PinsAreMinimum ==
  ASSUME RankOrder PROVE Spec => VersionsNeverFall
<1>1. Init => VersionsOk
  BY DEF Init, Idle, VersionsOk
<1>2. IndInv /\ VersionsOk /\ [Next]_vars => VersionsOk'
  BY VersionsStep
<1>3. ASSUME IndInv, VersionsOk, [Next]_vars
      PROVE  run.step = "deploy" /\ run'.step = "idle" =>
               /\ \A p \in pins : AtLeast(p, live')
               /\ run.source = "site" => \A r \in live : r.pkg # Removed => AtLeast(r, live')
  <2> SUFFICES ASSUME run.step = "deploy", run'.step = "idle"
               PROVE  /\ \A p \in pins : AtLeast(p, live')
                      /\ run.source = "site" => \A r \in live : r.pkg # Removed => AtLeast(r, live')
    OBVIOUS
  <2>1. Deploy
    BY <1>3, OnlyDeploy
  <2>2. live' = Recs(baseline)
    BY <2>1 DEF Deploy
  <2> QED
    BY <1>3, <2>2 DEF VersionsOk, Covers
<1> QED
  BY <1>1, <1>2, <1>3, Inductive, PTL DEF Spec, VersionsNeverFall
=============================================================================
