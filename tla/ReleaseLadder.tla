--------------------------- MODULE ReleaseLadder ---------------------------
(***************************************************************************)
(* verify-monotonic: the releases a deployed site may be followed by.  Four *)
(* manifest schemas, and the five transitions 1-2, 2-3, 3-3, 3-4 and 4-4,   *)
(* each checked by code of its own that sees two neighbours and never the   *)
(* history.  A package's archive, record hash and source location are one   *)
(* value, its evidence.                                                     *)
(***************************************************************************)
EXTENDS Naturals, FiniteSets

CONSTANTS
    Curated,        \* [schema-2 core names -> local category], the others are
                    \* "general"
    Category3,      \* canonical_category_dependencies, its categories
    Rule3,          \* and [Category3 -> SUBSET Category3]
    Fold,           \* [names -> what Cargo takes them for]
    Precedence,     \* [versions -> the version without build metadata]
    Candidate,      \* the sites that are proposed
    NoSite

\* a release says its schema, and of each package whether it is yanked
ASSUME LadderAssumption ==
    \A s \in Candidate :
        s.schema \in 1..4 /\ \A p \in s.packages : p.yanked \in BOOLEAN

VARIABLES
    released,       \* the site deployed last
    known           \* what was ever released, as it first was

ladder == <<released, known>>

CategoryId(r, l) == [registry |-> r, local |-> l]

\* download templates: two shared ones, and two of each registry
MirrorDownload == <<"mirror", "any">>
PublishDownload == <<"publish", "any">>
Router(r) == <<"router", r>>
Native(r) == <<"native", r>>

Source == {"mirror", "publish"}

----------------------------------------------------------------------------
(* Shape of a release: what each schema's loader and validation demand. *)

Identity(p) == <<p.name, p.version>>
Key(p) == <<p.registry, p.name, p.version>>

\* package_map: one package a key
PackageKeys(ps) == \A p, q \in ps : Key(p) = Key(q) => p = q

\* name_map: one anchor a name, below its own registry
NameMap(ns) ==
    /\ \A n \in ns : n.registry = n.category.registry
    /\ \A n, o \in ns : n.name = o.name => n = o

\* name_map_v4: per registry, and none that Cargo takes for another
NameMapV4(ns) ==
    /\ \A n \in ns : n.registry = n.category.registry
    /\ \A n, o \in ns :
           n.registry = o.registry /\ Fold[n.name] = Fold[o.name] => n = o

\* schemas 1 and 2 have one rule for a whole registry
Whole(r) == CategoryId(r, "all")

Topology2 ==
    [core |-> [download |-> MirrorDownload,
               rules |-> [c \in {Whole("core")} |-> {c}]],
     matrix |-> [download |-> MirrorDownload,
                 rules |-> [c \in {Whole("matrix")} |-> {c, Whole("core")}]],
     pkgre |-> [download |-> PublishDownload,
                rules |-> [c \in {Whole("pkgre")} |->
                               {c, Whole("core"), Whole("matrix")}]]]

Mirrors(ps, r) == \E p \in ps : p.registry = r /\ p.source = "mirror"
Publishes(ps, r) == \E p \in ps : p.registry = r /\ p.source = "publish"

\* a template for one class of source, unless the router sorts them
DownloadV3(release, r) ==
    LET d == release.registries[r].download
        ns == release.names
    IN  \/ d = Router(r)
        \/ /\ ~(Mirrors(ns, r) /\ Publishes(ns, r))
           /\ d = IF Publishes(ns, r) \/ (r = "pkgre" /\ ~Mirrors(ns, r))
                  THEN PublishDownload ELSE MirrorDownload

DownloadV4(release, r) ==
    LET d == release.registries[r].download
        ps == release.packages
    IN  /\ d \in {MirrorDownload, PublishDownload, Router(r), Native(r)}
        /\ \/ d \in {Router(r), Native(r)}
           \/ ~Mirrors(ps, r) /\ ~Publishes(ps, r)
           \/ /\ ~(Mirrors(ps, r) /\ Publishes(ps, r))
              /\ d = IF Publishes(ps, r) THEN PublishDownload ELSE MirrorDownload

ValidV3(release) ==
    /\ release.cname = "rust.pkg.re"
    /\ DOMAIN release.registries = {"pkgre", "universe"}
    /\ \A r \in DOMAIN release.registries :
           /\ release.registries[r].rules =
                  [c \in {d \in Category3 : d.registry = r} |-> Rule3[c]]
           /\ DownloadV3(release, r)
    /\ NameMap(release.names)
    /\ \A n \in release.names : n.category \in Category3
    /\ PackageKeys(release.packages)
    /\ \A p \in release.packages : \E n \in release.names :
           /\ n.name = p.name /\ n.registry = p.registry
           /\ n.category = p.category /\ n.source = p.source

\* every category of a schema-4 release reserves a name, every package has
\* its anchor, and Git packages came from the one Cargo
ValidV4(release) ==
    LET rs == release.registries
        categories == UNION {DOMAIN rs[r].rules : r \in DOMAIN rs}
    IN  /\ release.cname = "rust.pkg.re"
        /\ "main" \in DOMAIN rs
        /\ \A r \in DOMAIN rs :
               /\ \A c \in DOMAIN rs[r].rules :
                      c.registry = r /\ rs[r].rules[c] \subseteq categories
               /\ DownloadV4(release, r)
        /\ NameMapV4(release.names)
        /\ categories = {n.category : n \in release.names}
        /\ PackageKeys(release.packages)
        /\ \A p \in release.packages :
               /\ \E n \in release.names :
                      /\ n.name = p.name /\ n.registry = p.registry
                      /\ n.category = p.category
               /\ p.source = "publish" => p.pinned
        /\ \A p, q \in release.packages :
               (/\ p.registry = q.registry /\ p.name = q.name
                /\ Precedence[p.version] = Precedence[q.version]) => p = q

----------------------------------------------------------------------------
(* The rows and routes of the site that is proposed. *)

RowMatches(p, s) ==
    s.rows = 1 /\ s.yanked = p.yanked /\ s.row = p.row

\* an active package has its route, in its class or as a retained mirror
Routed(p, s) ==
    \/ s.delivery = "redirect" /\ p.source = "mirror"
    \/ s.delivery = "retained" /\ (p.source = "publish" \/ s.body)

VerifyRows(release) ==
    \A p \in release.packages :
        /\ RowMatches(p, release.site[Key(p)])
        /\ p.yanked \/ Routed(p, release.site[Key(p)])

----------------------------------------------------------------------------
(* The five transitions; their conjuncts stand in the order that is cheap to  *)
(* evaluate, and each of them must hold.                                     *)

CategoryForV2Home(r, name) ==
    CASE r = "matrix" -> CategoryId("universe", "matrix")
      [] r = "pkgre" -> CategoryId("pkgre", "tooling")
      [] r = "core" -> CategoryId("universe", IF name \in DOMAIN Curated
                                              THEN Curated[name] ELSE "general")

MigrateV3Category(c) ==
    CategoryId("main", IF c = CategoryId("pkgre", "tooling")
                       THEN "pkgre" ELSE c.local)

Follows(p, q) ==
    Identity(p) = Identity(q) /\ p.evidence = q.evidence /\ p.source = q.source

\* same_immutable_package of two releases of one schema, and no reactivation
Immutable(p, q) ==
    /\ Follows(p, q)
    /\ p.registry = q.registry /\ p.category = q.category
    /\ p.row = q.row /\ p.pinned = q.pinned

NotReactivated(p, q) == p.yanked => q.yanked

Keeps(previous, next) ==
    \A p \in previous.packages : \E q \in next.packages :
        Immutable(p, q) /\ NotReactivated(p, q)

MayMoveDownload(r, before, after) ==
    \/ before = after
    \/ before \in {MirrorDownload, PublishDownload} /\ after = Router(r)

\* schema 1 has one template for all registries, schema 2 one for each
V1ToV2(previous, next) ==
    /\ previous.cname = next.cname
    /\ DOMAIN previous.registries = DOMAIN next.registries
    /\ \A r \in DOMAIN next.registries :
           /\ r \in DOMAIN Topology2
           /\ previous.registries[r].rules = next.registries[r].rules
           /\ previous.registries[r].download = PublishDownload
           /\ next.registries[r].download = Topology2[r].download
    /\ PackageKeys(previous.packages) /\ PackageKeys(next.packages)
    /\ Keeps(previous, next)

\* mutant: the yank state of what is migrated is the next release's affair
MigratesV2Forgetful(p, q) ==
    Follows(p, q) /\ (q.source = "publish" => q.pinned)

\* same_v2_v3_package: rows are routed anew, so their hashes may differ
MigratesV2(p, q) ==
    /\ Follows(p, q)
    /\ q.source = "publish" => q.pinned
    /\ NotReactivated(p, q)

V2ToV3(previous, next) ==
    /\ previous.cname = next.cname
    /\ previous.registries = Topology2
    /\ ValidV3(next)
    /\ PackageKeys(previous.packages)
    /\ \A p \in previous.packages :
           LET c == CategoryForV2Home(p.registry, p.name) IN
           /\ p.registry = "pkgre" => p.name = "pkgre-indexer"
           /\ \E n \in next.names :
                  n.name = p.name /\ n.category = c /\ n.source = p.source
           /\ \E q \in next.packages :
                  /\ q.registry = c.registry /\ q.category = c
                  /\ MigratesV2(p, q)
    /\ VerifyRows(next)

V3ToV3(previous, next) ==
    /\ previous.names \subseteq next.names
    /\ Keeps(previous, next)
    /\ ValidV3(previous) /\ ValidV3(next)
    /\ \A r \in DOMAIN next.registries :
           MayMoveDownload(r, previous.registries[r].download,
                           next.registries[r].download)
    /\ VerifyRows(next)

V3ToV4(previous, next) ==
    /\ Cardinality(previous.names) = Cardinality(next.names)
    /\ Cardinality(previous.packages) = Cardinality(next.packages)
    /\ ValidV3(previous) /\ ValidV4(next)
    /\ next.registries =
           [main |-> [download |-> Router("main"),
                      rules |-> [c \in {MigrateV3Category(d) : d \in Category3} |->
                          UNION {{MigrateV3Category(e) : e \in Rule3[d]} :
                                     d \in {d \in Category3 : MigrateV3Category(d) = c}}]]]
    /\ \A n \in previous.names : \E m \in next.names :
           m.name = n.name /\ m.category = MigrateV3Category(n.category)
    /\ \A p \in previous.packages : \E q \in next.packages :
           /\ Follows(p, q) /\ p.yanked = q.yanked /\ p.pinned = q.pinned
           /\ q.registry = "main" /\ q.category = MigrateV3Category(p.category)
    /\ VerifyRows(next)

\* registries, categories and names may be added
V4ToV4(previous, next) ==
    /\ previous.names \subseteq next.names
    /\ Keeps(previous, next)
    /\ ValidV4(previous) /\ ValidV4(next)
    /\ \A r \in DOMAIN previous.registries :
           /\ r \in DOMAIN next.registries
           /\ MayMoveDownload(r, previous.registries[r].download,
                              next.registries[r].download)
           /\ \A c \in DOMAIN previous.registries[r].rules :
                  /\ c \in DOMAIN next.registries[r].rules
                  /\ previous.registries[r].rules[c] = next.registries[r].rules[c]
    /\ VerifyRows(next)

VerifyMonotonic(previous, next) ==
    CASE previous.schema = 1 /\ next.schema = 2 -> V1ToV2(previous, next)
      [] previous.schema = 2 /\ next.schema = 3 -> V2ToV3(previous, next)
      [] previous.schema = 3 /\ next.schema = 3 -> V3ToV3(previous, next)
      [] previous.schema = 3 /\ next.schema = 4 -> V3ToV4(previous, next)
      [] previous.schema = 4 /\ next.schema = 4 -> V4ToV4(previous, next)
      [] OTHER -> FALSE

----------------------------------------------------------------------------

\* a first release has no predecessor, and is what its renderer validated
Rendered(release) ==
    CASE release.schema = 3 -> ValidV3(release) /\ VerifyRows(release)
      [] release.schema = 4 -> ValidV4(release) /\ VerifyRows(release)
      [] OTHER -> release.registries = (IF release.schema = 2 THEN Topology2
                     ELSE [r \in DOMAIN Topology2 |->
                              [Topology2[r] EXCEPT !.download = PublishDownload]])
                  /\ PackageKeys(release.packages)

\* where a package is, and where one of category c is from schema 3 on
Home(p) == [registry |-> p.registry, category |-> p.category]
In(c) == [registry |-> c.registry, category |-> c]

\* where a package that was first released as o belongs at a schema
HomeAt(o, schema) ==
    LET second == IF o.schema <= 2 THEN CategoryForV2Home(o.registry, o.name)
                  ELSE o.category
    IN  IF o.schema = schema \/ schema <= 2 THEN Home(o)
        ELSE IF schema = 3 THEN In(second) ELSE In(MigrateV3Category(second))

\* p is what a release of this schema has of o
Continues(o, p, schema) == Identity(p) = Identity(o) /\ Home(p) = HomeAt(o, schema)

\* the history: each package as it was first released, and once removed
Remembered(old, release) ==
    {[o EXCEPT !.yanked = @ \/ \E q \in release.packages :
                                  Continues(o, q, release.schema) /\ q.yanked] : o \in old}
    \cup {[name |-> p.name, version |-> p.version, evidence |-> p.evidence, source |-> p.source,
           schema |-> release.schema, registry |-> p.registry,
           category |-> p.category, yanked |-> p.yanked] :
              p \in {q \in release.packages :
                        \A o \in old : ~Continues(o, q, release.schema)}}

LadderInit ==
    /\ released \in {s \in Candidate : Rendered(s)}
    /\ known = Remembered({}, released)

ReleaseSite ==
    \E next \in Candidate :
        /\ next # released
        /\ VerifyMonotonic(released, next)
        /\ released' = next
        /\ known' = Remembered(known, next)

----------------------------------------------------------------------------

\* Whatever way a site went up the four schemas, each step checked against its
\* neighbour alone, a package it ever served is still there, with the archive,
\* record and source it first had, in the home the two migrations give its first
\* one, yanked for good once it was removed, and its row says so.
ReleasedForGood ==
    released # NoSite =>
        \A o \in known : \E q \in released.packages :
            /\ Follows(o, q)
            /\ Home(q) = HomeAt(o, released.schema)
            /\ o.yanked => q.yanked
            /\ released.schema >= 3 => released.site[Key(q)].yanked = q.yanked

=============================================================================
