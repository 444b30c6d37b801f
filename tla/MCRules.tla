------------------------------- MODULE MCRules -------------------------------
(***************************************************************************)
(* The inputs of the pure decisions, over small sets: one configured          *)
(* binding, one foreign one, two well-formed commits and a name that is not   *)
(* a commit; candidate sites each a well-formed release with at most one      *)
(* thing wrong; timestamps at the turns of the calendar; and selections.      *)
(***************************************************************************)
EXTENDS Rules

MCIdentity == "identity"
MCFullRef == "refs/heads/main"
MCWellFormed == {"c0", "c1", MCIdentity, MCFullRef, "other"}
MCNoCommit == "none"
Names == {"c0", "c1", "not a commit"}

Records ==
    [commit : Names, fullRef : {MCFullRef, "other", "not a ref"},
     identity : {MCIdentity, "other", "not an identity"}]

MCStartupInputs ==
    [state : RecordState, record : Records, bootstrap : Names,
     bootstrapObject : ObjectState, localObject : ObjectState]

Candidates ==
    [observed : BOOLEAN, commit : Names, fullRef : {MCFullRef, "other"},
     identity : {MCIdentity, "other"}, object : ObjectState,
     ancestry : Ancestry, semantic : SemanticValidity,
     persistence : Persistence, suppressed : BOOLEAN]

MCReloadInputs ==
    [record : {AcceptedRef("c0"), [AcceptedRef("c0") EXCEPT !.fullRef = "other"]},
     candidate : Candidates]

----------------------------------------------------------------------------
(* Sites: two names, in the states a name can be in, and one flaw. *)

Terminal == CategoryId("universe", "terminal")
Tooling == CategoryId("pkgre", "tooling")
MCCurated == [atty |-> "terminal"]
MCCategory3 == {Terminal, Tooling}
MCRule3 == [c \in MCCategory3 |-> {c, Terminal}]
MCFold == [n \in {"atty", "Atty", "pkgre-indexer"} |-> IF n = "Atty" THEN "atty" ELSE n]
MCPrecedence == [v \in {"1", "1+b"} |-> "1"]

SourceOf == [n \in {"atty", "pkgre-indexer"} |-> IF n = "atty" THEN "mirror" ELSE "publish"]
FirstHome == [n \in {"atty", "pkgre-indexer"} |-> IF n = "atty" THEN "core" ELSE "pkgre"]
NoCategory == CategoryId("none", "none")

CategoryAt(n, schema) ==
    CASE schema <= 2 -> NoCategory
      [] schema = 3 -> CategoryForV2Home(FirstHome[n], n)
      [] schema = 4 -> MigrateV3Category(CategoryForV2Home(FirstHome[n], n))

RegistryAt(n, schema) == IF schema <= 2 THEN FirstHome[n] ELSE CategoryAt(n, schema).registry

State == {"absent", "reserved", "active", "removed"}
Entry == {e \in [DOMAIN SourceOf -> State] : e["pkgre-indexer"] # "reserved"}

PackageAt(n, schema, state) ==
    [registry |-> RegistryAt(n, schema), category |-> CategoryAt(n, schema),
     name |-> n, version |-> "1", evidence |-> "e1", row |-> "w1",
     pinned |-> TRUE, source |-> SourceOf[n], yanked |-> state = "removed"]

Registries(schema) ==
    CASE schema = 1 -> {[r \in DOMAIN Topology2 |->
                            [Topology2[r] EXCEPT !.download = PublishDownload]]}
      [] schema = 2 -> {Topology2}
      [] schema = 3 ->
           {[r \in {"pkgre", "universe"} |->
                [download |-> d[r], rules |-> [c \in {x \in MCCategory3 : x.registry = r} |-> MCRule3[c]]]] :
                d \in {[pkgre |-> PublishDownload, universe |-> MirrorDownload],
                       [pkgre |-> Router("pkgre"), universe |-> Router("universe")]}}
      [] schema = 4 ->
           {[main |-> [download |-> d,
                       rules |-> [c \in {MigrateV3Category(x) : x \in MCCategory3} |->
                                     {c, MigrateV3Category(Terminal)}]]] :
                d \in {MirrorDownload, Router("main"), Native("main")}}

SiteOf(packages) ==
    [i \in {Key(p) : p \in packages} |->
        LET p == CHOOSE q \in packages : Key(q) = i IN
        [delivery |-> IF p.source = "mirror" THEN "redirect" ELSE "retained",
         body |-> p.source = "publish", rows |-> 1, yanked |-> p.yanked, row |-> p.row]]

Sound(schema, e, rs) ==
    LET ps == {PackageAt(n, schema, e[n]) : n \in {m \in DOMAIN e : e[m] \in {"active", "removed"}}}
        ns == IF schema <= 2 THEN {}
              ELSE {[name |-> n, registry |-> RegistryAt(n, schema), category |-> CategoryAt(n, schema),
                     source |-> IF schema = 3 THEN SourceOf[n] ELSE "none"] :
                        n \in {m \in DOMAIN e : e[m] # "absent"}}
    IN  [schema |-> schema, cname |-> "rust.pkg.re", registries |-> rs,
         names |-> ns, packages |-> ps, site |-> SiteOf(ps)]

\* one package is another one, with its row or without
Altered(s, p, q) ==
    LET ps == (s.packages \ {p}) \cup {q} IN
    [s EXCEPT !.packages = ps, !.site = SiteOf(ps)]

OtherCategory(c) ==
    CASE c = Terminal -> Tooling [] c = Tooling -> Terminal
      [] c = NoCategory -> NoCategory
      [] OTHER -> CHOOSE d \in {MigrateV3Category(x) : x \in MCCategory3} : d # c

OtherSource(c) == IF c = "mirror" THEN "publish" ELSE "mirror"

Moved(x) == [x EXCEPT !.category = OtherCategory(x.category),
                      !.registry = IF x.category = NoCategory THEN "matrix"
                                   ELSE OtherCategory(x.category).registry]

PackageFlaws(s) ==
    UNION {{Altered(s, p, [p EXCEPT !.evidence = "e2"]),
            Altered(s, p, [p EXCEPT !.row = "w2"]),
            Altered(s, p, [p EXCEPT !.pinned = FALSE]),
            Altered(s, p, Moved(p)),
            [Altered(s, p, Moved(p)) EXCEPT
                !.names = {IF n.name = p.name THEN Moved(n) ELSE n : n \in @}],
            Altered(s, [p EXCEPT !.version = "none"], [p EXCEPT !.version = "1+b"])}
           : p \in s.packages}

SourceFlaws(s) ==
    {Altered(s, p, [p EXCEPT !.source = OtherSource(@)]) : p \in s.packages}

SiteFlaws(s) ==
    UNION {{[s EXCEPT !.site[i].rows = 0], [s EXCEPT !.site[i].rows = 2],
            [s EXCEPT !.site[i].row = "w2"], [s EXCEPT !.site[i].yanked = ~@],
            [s EXCEPT !.site[i].delivery = "none"],
            [s EXCEPT !.site[i].delivery = "redirect"],
            [s EXCEPT !.site[i].delivery = "retained"],
            [s EXCEPT !.site[i].delivery = "retained", !.site[i].body = TRUE]}
           : i \in DOMAIN s.site}

OtherFlaws(s) ==
    {[s EXCEPT !.cname = "other"]}
    \cup {[s EXCEPT !.registries = [r \in DOMAIN s.registries \ {x} |-> @[r]]] :
              x \in DOMAIN s.registries}
    \cup (IF s.schema # 4 THEN {} ELSE
          {[s EXCEPT !.registries["main"].rules[c] = {}] : c \in DOMAIN s.registries["main"].rules}
          \cup {[s EXCEPT !.names = @ \cup {[name |-> "Atty", registry |-> "main", source |-> "none",
                                             category |-> MigrateV3Category(Terminal)]}]})

\* a package of the same name and version in another registry
Elsewhere == CategoryId("other", "all")

Second(s, states) ==
    LET ps == {[registry |-> "other", category |-> Elsewhere, name |-> "atty", version |-> "1",
                evidence |-> "e2", row |-> "w2", pinned |-> TRUE, source |-> "mirror",
                yanked |-> e = "removed"] : e \in states}
        both == s.packages \cup ps
    IN  [s EXCEPT
            !.registries = [r \in {"main", "other"} |->
                IF r = "main" THEN @["main"]
                ELSE [download |-> Router("other"), rules |-> [c \in {Elsewhere} |-> {c}]]],
            !.names = @ \cup {[name |-> "atty", registry |-> "other", source |-> "none",
                               category |-> Elsewhere]},
            !.packages = both, !.site = SiteOf(both)]

MCCandidate ==
    LET sound == UNION {{Sound(schema, e, rs) : e \in Entry, rs \in Registries(schema)} : schema \in 1..4}
        routed == {s \in sound : \A r \in DOMAIN s.registries :
                       s.schema >= 3 => s.registries[r].download = Router(r)}
    IN  sound \cup {Second(s, e) : s \in {r \in routed : r.schema = 4},
                                   e \in {{}, {"active"}, {"removed"}}}
              \cup UNION {SourceFlaws(s) : s \in sound}
              \cup UNION {PackageFlaws(s) \cup SiteFlaws(s) \cup OtherFlaws(s) : s \in routed}

----------------------------------------------------------------------------
(* Timestamps: the years around which leap years and centuries turn, every   *)
(* month and one more, days past the end of each, the edges of the clock.    *)

MCMoments ==
    [civil : [year : {1969, 1970, 1972, 1999, 2000, 2024, 2100, 9999, 10000},
              month : 0..13, day : 0..32, hour : {0, 23}, minute : {0}, second : {59, 60}],
     offset : {0, -3600, 46800}]

----------------------------------------------------------------------------
(* Selections: what archives, crates.io and a public repository may look     *)
(* like, each group of them with the others at their plainest.  Sizes are in *)
(* tar blocks; one content is one block.                                     *)

MCArchiveLimits == [compressed |-> 9, unpacked |-> 14, file |-> 1, entries |-> 6, ratio |-> 4]
MCVcsClaim == [v \in {"at root", "at sub", "at other"} |->
                  [commit |-> IF v = "at other" THEN "c2" ELSE "c1",
                   path |-> IF v = "at sub" THEN <<"sub">> ELSE <<>>]]
MCDeclared == [m \in {"m1", "m2"} |-> IF m = "m2" THEN {<<"build", "make.rs">>} ELSE {}]
MCSurfacing == {"build.rs", "native.c"}
MCWithNul == {"nul"}
MCOriginal == [n \in {"Cargo.toml", "MyCargo.toml"} |->
                  IF n = "Cargo.toml" THEN "Cargo.toml.orig" ELSE "MyCargo.toml.orig"]
MCPackageIdentity == [n \in {"foo-bar", "foo_bar", "baz", "qux"} |->
                         IF n = "foo_bar" THEN "foo-bar" ELSE n]
MCHomes ==
    {[registry |-> "main", name |-> "foo-bar", permitted |-> TRUE],
     [registry |-> "other", name |-> "foo_bar", permitted |-> FALSE],
     [registry |-> "other", name |-> "baz", permitted |-> FALSE]}

File(path, content) ==
    [path |-> path, type |-> "file", content |-> content, mode |-> 420,
     size |-> 1, sound |-> TRUE]
Directory(path) == [File(path, "none") EXCEPT !.type = "directory", !.size = 0]
\* 0o644, and 0o755, 0o654, 0o664 and 0o4644
Runnable(f) == [f EXCEPT !.mode = 493]
RunnableByGroup(f) == [f EXCEPT !.mode = 428]
WritableByGroup(f) == [f EXCEPT !.mode = 436]
Special(f) == [f EXCEPT !.mode = 2468]

Manifest == File(<<"Cargo.toml">>, "m1")
OriginalManifest == File(<<"Cargo.toml.orig">>, "m2")
Claim(c) == File(<<".cargo_vcs_info.json">>, c)
Lib(s) == File(<<"src", "lib.rs">>, s)
Script(s) == File(<<"build.rs">>, s)

Archive(entries) ==
    [checksum |-> "k1", size |-> 4, trailing |-> 0, ending |-> "zeros",
     entries |-> entries]

ManifestParts == {<<Manifest>>, <<Manifest, OriginalManifest>>, <<>>,
                  <<[Manifest EXCEPT !.content = "broken"]>>,
                  <<File(<<"sub", "MyCargo.toml">>, "m1")>>}
ClaimParts == {<<>>, <<Claim("at root")>>, <<Claim("at sub")>>, <<Claim("at other")>>,
               <<Claim("broken")>>}
FileParts == {<<Lib("s1")>>, <<Lib("s2")>>, <<Lib("s1"), Lib("s2")>>, <<>>,
              <<Runnable(Lib("s1"))>>, <<WritableByGroup(Lib("s1"))>>, <<Lib("nul")>>}
OtherParts == {<<>>, <<Script("s1")>>, <<Runnable(Script("s1"))>>,
               <<File(<<"sub", "native.c">>, "s2")>>,
               <<[Lib("s1") EXCEPT !.type = "link", !.path = <<"ln">>]>>,
               <<Directory(<<"src">>)>>, <<Directory(<<>>)>>,
               <<[Directory(<<"src">>) EXCEPT !.size = 1]>>,
               <<File(<<>>, "s1")>>, <<[Script("s1") EXCEPT !.sound = FALSE]>>,
               <<[Script("s1") EXCEPT !.size = 2]>>, <<Special(Script("s1"))>>}

Archives ==
    {Archive(m \o c \o f \o o) :
        m \in ManifestParts, c \in ClaimParts, f \in FileParts, o \in OtherParts}

PlainArchive == Archive(<<Manifest, Claim("at root"), Lib("s1")>>)

OddArchives ==
    {[PlainArchive EXCEPT !.size = 0], [PlainArchive EXCEPT !.size = 10],
     [PlainArchive EXCEPT !.size = 1], [PlainArchive EXCEPT !.trailing = 7],
     [PlainArchive EXCEPT !.size = 2, !.trailing = 1],
     [PlainArchive EXCEPT !.checksum = "k2"]}
    \cup {[PlainArchive EXCEPT !.ending = ending, !.trailing = 1] :
              ending \in {"cut", "one block", "entry after one", "data after both"}}

Repository(host, path) == [host |-> host, path |-> path, suffixed |-> FALSE, odd |-> FALSE]
Project == Repository("github", <<"o", "r">>)

Object(path, mode, content) == [path |-> path, mode |-> mode, content |-> content]
PlainTree == {Object(<<"src", "lib.rs">>, "100644", "s1"), Object(<<"Cargo.toml">>, "100644", "m1")}

Trees ==
    {PlainTree, {}, PlainTree \cup {Object(<<"build.rs">>, "100755", "s1")},
     {Object(<<"src", "lib.rs">>, "100755", "s1"), Object(<<"Cargo.toml">>, "100644", "m2")},
     {Object(<<"src", "lib.rs">>, "120000", "s1"), Object(<<"Cargo.toml">>, "100644", "m1")},
     {Object(<<"sub">> \o o.path, o.mode, o.content) : o \in PlainTree},
     {Object(<<"src", "lib.rs">>, "100644", "s1"), Object(<<"Cargo.toml">>, "100644", "m2"),
      Object(<<"sub", "MyCargo.toml">>, "100644", "m1")}}

Public(tree, commit) == {[repository |-> Project, commit |-> commit, objects |-> tree]}

Row(version, repository, trusted) ==
    [version |-> version, checksum |-> IF version = "2" THEN "k1" ELSE "k0",
     numbered |-> TRUE, sound |-> TRUE,
     publisher |-> [id |-> "alice"], repository |-> repository, trusted |-> trusted]

Trusted(commit) ==
    [provider |-> "github", path |-> <<"o", "r">>, suffixed |-> FALSE, odd |-> FALSE,
     commit |-> commit]

TrustedContexts ==
    {Nothing, Trusted("c1"), Trusted("c2"), [Trusted("c1") EXCEPT !.suffixed = TRUE],
     [Trusted("c1") EXCEPT !.odd = TRUE], [Trusted("c1") EXCEPT !.provider = "other"],
     [Trusted("c1") EXCEPT !.path = <<"r">>], [Trusted("c1") EXCEPT !.path = <<"o", "other">>]}
Repositories ==
    {Nothing, Project, [Project EXCEPT !.suffixed = TRUE], [Project EXCEPT !.odd = TRUE],
     [Project EXCEPT !.host = "other"], [Project EXCEPT !.path = <<"o", "r", "tree", "sub">>]}

Answer(rows) == [versions |-> rows]

PlainRow == Row("2", Project, Nothing)
BaseRow == Row("1", Project, Nothing)

Responses ==
    {Nothing} \cup {Answer(rows) : rows \in
    {<<>>, <<PlainRow>>, <<BaseRow, PlainRow>>, <<BaseRow, PlainRow, PlainRow>>,
     <<BaseRow, [PlainRow EXCEPT !.publisher = [id |-> "bob"]]>>,
     <<BaseRow, [PlainRow EXCEPT !.publisher = Nothing]>>,
     <<[BaseRow EXCEPT !.repository = Nothing], PlainRow>>,
     <<BaseRow, [PlainRow EXCEPT !.sound = FALSE]>>,
     <<BaseRow, PlainRow, [Row("3", Nothing, Nothing) EXCEPT !.numbered = FALSE]>>,
     <<BaseRow, PlainRow, [Row("3", Nothing, Nothing) EXCEPT !.sound = FALSE]>>,
     <<BaseRow, [PlainRow EXCEPT !.checksum = "k2"]>>}}

Release(version, archive, dependencies) ==
    [version |-> version, checksum |-> IF version = "2" THEN "k1" ELSE "k0",
     archive |-> archive, dependencies |-> dependencies]

Edge(package, requirement) == [package |-> package, requirement |-> requirement]

Dependencies ==
    {<<>>, <<Edge("foo-bar", "1")>>, <<Edge("foo_bar", "1")>>,
     <<Edge("foo-bar", "1"), Edge("foo-bar", "2")>>,
     <<Edge("foo-bar", "1"), Edge("foo-bar", "1")>>, <<Edge("baz", "1")>>, <<Edge("qux", "1")>>}

PlainSelection ==
    [activity |-> "active", explicit |-> FALSE, dormant |-> FALSE, registry |-> "main",
     base |-> Release("1", [PlainArchive EXCEPT !.checksum = "k0"], <<>>),
     candidate |-> Release("2", PlainArchive, <<>>),
     response |-> Answer(<<BaseRow, PlainRow>>), public |-> Public(PlainTree, "c1")]

FirstRelease == [PlainSelection EXCEPT !.activity = "new", !.explicit = TRUE, !.base = Nothing,
                                       !.response = Answer(<<PlainRow>>)]

\* any archive, against two public trees
ArchiveSelections ==
    {[FirstRelease EXCEPT !.candidate.archive = a, !.public = Public(t, "c1")] :
        a \in Archives \cup OddArchives, t \in {PlainTree, {Object(<<"src", "lib.rs">>, "100644", "s1"),
                                                          Object(<<"Cargo.toml">>, "100644", "m2")}}}

\* any account of where the source is, against any tree
SourceSelections ==
    {[FirstRelease EXCEPT
        !.candidate.archive = Archive(<<Manifest>> \o m \o c \o <<Lib("s1")>>),
        !.response = Answer(<<Row("2", r, t)>>), !.public = p] :
        m \in {<<>>, <<OriginalManifest>>}, c \in ClaimParts, r \in Repositories,
        t \in TrustedContexts,
        p \in {Public(tree, "c1") : tree \in Trees} \cup {Public(PlainTree, "c2")}}

BuildArchives ==
    {Archive(<<m, Claim("at root")>> \o o) :
        m \in {Manifest, [Manifest EXCEPT !.content = "m2"]},
        o \in {<<Lib("s1")>>, <<Lib("s2")>>, <<Lib("s1"), Script("s1")>>, <<Lib("s1"), Script("s2")>>,
               <<Lib("s1"), Runnable(Script("s1"))>>, <<Lib("s1"), WritableByGroup(Script("s1"))>>,
               <<RunnableByGroup(Lib("s1"))>>, <<Lib("nul")>>}}

PlainResponses == {Nothing, Answer(<<BaseRow, PlainRow>>)}

\* any change from the base
ChangeSelections ==
    {[PlainSelection EXCEPT
        !.base.archive = [b EXCEPT !.checksum = "k0"], !.candidate.archive = a,
        !.response = r, !.activity = kind[1], !.explicit = kind[2], !.dormant = kind[3]] :
        a \in BuildArchives, b \in BuildArchives, r \in PlainResponses,
        kind \in {<<"active", FALSE, FALSE>>, <<"active", FALSE, TRUE>>, <<"active", TRUE, FALSE>>,
                  <<"inactive", TRUE, FALSE>>}}
    \cup
    {[PlainSelection EXCEPT !.response = r, !.registry = home, !.dormant = d] :
        r \in Responses, home \in {"main", "other", "third"}, d \in BOOLEAN}
    \cup
    {[PlainSelection EXCEPT
        !.base.dependencies = b, !.candidate.dependencies = a, !.response = r, !.registry = home] :
        a \in Dependencies, b \in Dependencies, r \in PlainResponses, home \in {"main", "other", "third"}}

MCSelections == ArchiveSelections \cup SourceSelections \cup ChangeSelections

=============================================================================
