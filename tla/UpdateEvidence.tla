--------------------------- MODULE UpdateEvidence ---------------------------
(***************************************************************************)
(* What an update plan says of one selected release: its archive read       *)
(* without unpacking it, the change from the base, crates.io's word on who   *)
(* published it, the public source compared with it, the reasons all this    *)
(* gives and the decision they make; and, written a second time in plan.rs,  *)
(* the checks every plan read from disk has to pass.                         *)
(*                                                                         *)
(* Contents are names: what a file's bytes are to a parser is given by the   *)
(* constants.  A path is the sequence of its components.                     *)
(***************************************************************************)
EXTENDS Naturals, FiniteSets, SequencesExt

CONSTANTS
    ArchiveLimits,  \* [compressed, unpacked, file, entries, ratio], in tar blocks
    VcsClaim,       \* [contents that parse as .cargo_vcs_info.json -> [commit, path]]
    Declared,       \* [contents that parse as a manifest -> what it runs in a build]
    Surfacing,      \* file names that are build.rs, native source or prebuilt
    WithNul,        \* contents that hold a NUL byte
    Original,       \* [names ending in Cargo.toml -> the same with .orig]
    PackageIdentity,\* [package names -> what Cargo takes them for]
    Homes           \* of packages: [registry, name, permitted]

ASSUME EvidenceAssumption ==
    /\ \A c \in DOMAIN VcsClaim : DOMAIN VcsClaim[c] = {"commit", "path"}
    /\ \A m \in DOMAIN Declared : \A d \in Declared[m] : d[1] \in {"build", "links", "proc-macro"}
    /\ \A n \in DOMAIN Original : Original[n] \in STRING

\* None
Nothing == [none |-> TRUE]

----------------------------------------------------------------------------
(* archive.rs *)

VcsInfo == <<".cargo_vcs_info.json">>
Manifests == {<<"Cargo.toml">>, <<"Cargo.toml.orig">>}

Entries(archive) == {archive.entries[i] : i \in DOMAIN archive.entries}
Regular(archive) == {e \in Entries(archive) : e.type = "file"}

\* with two zero blocks at the end, and what comes after them
UnpackedBlocks(archive) ==
    FoldLeft(LAMBDA sum, e : sum + 1 + e.size, 2 + archive.trailing, archive.entries)

\* header checksum and numbers, path below the root, zero padding
HeaderValid(e) == e.sound

\* mode & 0o7000 and mode & 0o111
SpecialBits(mode) == (mode \div 512) % 8 # 0
ExecutableMode(mode) ==
    \/ (mode \div 64) % 2 = 1
    \/ (mode \div 8) % 2 = 1
    \/ mode % 2 = 1

ReadEntry(e) ==
    /\ HeaderValid(e) /\ ~SpecialBits(e.mode)
    /\ \/ e.type = "file" /\ e.path # <<>> /\ e.size <= ArchiveLimits.file
       \/ e.type = "directory" /\ e.size = 0

ParseContents(e) ==
    /\ e.path = VcsInfo => e.content \in DOMAIN VcsClaim
    /\ e.path \in Manifests => e.content \in DOMAIN Declared

NoPathTwice(archive) ==
    \A i, j \in DOMAIN archive.entries :
        archive.entries[i].path = archive.entries[j].path => i = j

\* the stream has both zero blocks, and no entry after the first of them
EndsInZeroBlocks(archive) == archive.ending \notin {"cut", "one block", "entry after one"}

RequireZeroTrailingData(archive) == archive.ending # "data after both"

InspectWithLimits(archive) ==
    /\ archive.size \in 1 .. ArchiveLimits.compressed
    /\ Len(archive.entries) <= ArchiveLimits.entries
    /\ \A e \in Entries(archive) : ReadEntry(e)
    /\ NoPathTwice(archive)
    /\ EndsInZeroBlocks(archive) /\ RequireZeroTrailingData(archive)
    /\ UnpackedBlocks(archive) <= ArchiveLimits.unpacked
    /\ UnpackedBlocks(archive) <= archive.size * ArchiveLimits.ratio
    /\ Regular(archive) # {}
    /\ \A e \in Regular(archive) : ParseContents(e)

ArchiveFile(e) == [path |-> e.path, content |-> e.content, mode |-> e.mode]

\* a file's is told by its mode, too
Surface(path, what, mode, content) ==
    [path |-> path, what |-> what, mode |-> mode, content |-> content]

CargoConfig == {<<".cargo", "config">>, <<".cargo", "config.toml">>}

\* prebuilt by its name is Surfacing
IsBinary(f) == f.content \in WithNul

\* mutant: neither a file's mode nor its bytes are looked at
MarkFileSurfaceNamed(f) ==
    IF Last(f.path) \in Surfacing \/ f.path \in CargoConfig
    THEN {Surface(f.path, "file", f.mode, f.content)} ELSE {}

MarkFileSurface(f) ==
    IF \/ Last(f.path) \in Surfacing \/ f.path \in CargoConfig
       \/ IsBinary(f) \/ ExecutableMode(f.mode)
    THEN {Surface(f.path, "file", f.mode, f.content)} ELSE {}

\* package.build, package.links and lib.proc-macro
MarkManifestSurface(f) ==
    IF f.path \in Manifests
    THEN {Surface(f.path, d[1], 0, d[2]) : d \in Declared[f.content]} ELSE {}

ArchiveAnalysis(archive) ==
    LET files == {ArchiveFile(e) : e \in Regular(archive)}
        claims == {VcsClaim[f.content] : f \in {g \in files : g.path = VcsInfo}}
    IN  [files |-> files,
         surface |-> UNION {MarkFileSurface(f) \cup MarkManifestSurface(f) : f \in files},
         vcs |-> IF claims = {} THEN Nothing ELSE CHOOSE c \in claims : TRUE]

\* plan.rs, compare_archive_analyses
ArchiveDelta(base, candidate) ==
    LET before == {f.path : f \in base.files}
        after == {f.path : f \in candidate.files}
    IN  [added |-> after \ before, removed |-> before \ after,
         changed |-> {f.path : f \in candidate.files \ base.files} \cap before,
         surfaceChanged |-> base.surface # candidate.surface]

----------------------------------------------------------------------------
(* api.rs *)

Providers == {"github", "gitlab"}

\* at least two components, and anything but a blank in them
ProviderRepository(t) ==
    [host |-> t.provider, path |-> t.path, suffixed |-> t.suffixed, odd |-> t.odd]

ParseTrustedPublishing(t) ==
    IF t = Nothing THEN Nothing
    ELSE [repository |-> ProviderRepository(t), commit |-> t.commit]

\* parse_exact_version: one row of this version, and it is that archive's;
\* numbered: its version parses, which is asked of every row; sound: it names
\* this crate and every consumed field has its type
ExactVersion(response, release) ==
    LET rows == response.versions IN
    {v \in {rows[i] : i \in DOMAIN rows} :
        /\ \A i \in DOMAIN rows : rows[i].numbered
        /\ Cardinality({i \in DOMAIN rows : rows[i].version = release.version}) = 1
        /\ v.version = release.version
        /\ v.sound
        /\ v.checksum = release.checksum
        /\ v.trusted # Nothing => v.trusted.provider \in Providers /\ Len(v.trusted.path) >= 2}

ApiVersion(response, release) ==
    LET v == CHOOSE w \in ExactVersion(response, release) : TRUE
    IN  [publisher |-> v.publisher, repository |-> v.repository,
         trusted |-> ParseTrustedPublishing(v.trusted)]

\* fetch_api_evidence: whatever goes wrong, there is none
FetchApiEvidence(response, base, candidate) ==
    IF \/ response = Nothing
       \/ ExactVersion(response, candidate) = {}
       \/ base # Nothing /\ ExactVersion(response, base) = {}
    THEN Nothing
    ELSE [candidate |-> ApiVersion(response, candidate),
          base |-> IF base = Nothing THEN Nothing ELSE ApiVersion(response, base)]

----------------------------------------------------------------------------
(* source.rs *)

\* lower-case hosts, two components or more of plain characters, and without
\* the one suffix; the letters keep their case
NormalizePublicRepository(r) ==
    IF r.odd \/ r.host \notin Providers \/ Len(r.path) < 2 THEN Nothing
    ELSE [r EXCEPT !.suffixed = FALSE]

Paths(files) == {f.path : f \in files}

Sibling(path, name) == Front(path) \o <<name>>

\* mutant: Cargo rewrites every manifest, so none is compared
IsAnyManifest(path, files) == Last(path) \in DOMAIN Original

IsGeneratedManifest(path, files) ==
    /\ Last(path) \in DOMAIN Original
    /\ Sibling(path, Original[Last(path)]) \in Paths(files)

SourcePathForArchiveFile(path) ==
    LET restored == {n \in DOMAIN Original : Original[n] = Last(path)}
    IN  IF restored = {} THEN path ELSE Sibling(path, CHOOSE n \in restored : TRUE)

JoinVcsPath(root, path) == root \o path

Compared(files) ==
    {f \in files : /\ f.path \notin {VcsInfo, <<".cargo-ok">>}
                   /\ ~IsGeneratedManifest(f.path, files)}

\* PublicGitTree::fetch: the commit alone, from a repository that has it
Fetchable(public, anchor) ==
    \E p \in public : p.repository = anchor.repository /\ p.commit = anchor.commit

PublicGitTree(public, anchor) ==
    CHOOSE p \in public : p.repository = anchor.repository /\ p.commit = anchor.commit

\* what ls-tree says of a path: nothing, or one object
Blob(tree, path) == {o \in tree.objects : o.path = path}

\* links, directories and submodules have no bytes to compare
BlobFails(tree, path) == \E o \in Blob(tree, path) : o.mode \notin {"100644", "100755"}

Matches(f, tree, root) ==
    LET path == JoinVcsPath(root, SourcePathForArchiveFile(f.path)) IN
    \E o \in Blob(tree, path) :
        o.content = f.content /\ ExecutableMode(f.mode) = (o.mode = "100755")

Unavailable == [level |-> "unavailable", repository |-> Nothing, commit |-> Nothing, path |-> <<>>]
Mismatch == [Unavailable EXCEPT !.level = "mismatch"]

ClaimedPath(archive) == IF archive.vcs = Nothing THEN <<>> ELSE archive.vcs.path

\* api.repository may be unsupported, and is another one then
AnchorsDisagree(archive, api) ==
    \/ /\ api.repository # Nothing
       /\ NormalizePublicRepository(api.repository)
             # NormalizePublicRepository(api.trusted.repository)
    \/ archive.vcs # Nothing /\ archive.vcs.commit # api.trusted.commit

AnchorMissing(archive, api) ==
    \/ api = Nothing
    \/ api.trusted # Nothing /\ NormalizePublicRepository(api.trusted.repository) = Nothing
    \/ api.trusted = Nothing
          /\ \/ archive.vcs = Nothing \/ api.repository = Nothing
             \/ NormalizePublicRepository(api.repository) = Nothing

Anchor(archive, api) ==
    [level |-> IF api.trusted # Nothing THEN "attested" ELSE "asserted",
     repository |-> NormalizePublicRepository(
                        IF api.trusted # Nothing THEN api.trusted.repository ELSE api.repository),
     commit |-> IF api.trusted # Nothing THEN api.trusted.commit ELSE archive.vcs.commit,
     path |-> ClaimedPath(archive)]

\* a comparison that fails is no evidence; collect_source_evidence sees to that
CompareArchiveToTree(archive, anchor, public) ==
    LET tree == PublicGitTree(public, anchor)
        fails(f) == BlobFails(tree, JoinVcsPath(anchor.path, SourcePathForArchiveFile(f.path)))
    IN  IF ~Fetchable(public, anchor) \/ \E f \in Compared(archive.files) : fails(f)
        THEN Unavailable
        ELSE IF \A f \in Compared(archive.files) : Matches(f, tree, anchor.path)
        THEN anchor ELSE Mismatch

VerifySourceCorrespondence(archive, api, public) ==
    IF AnchorMissing(archive, api) THEN Unavailable
    ELSE IF api.trusted # Nothing /\ AnchorsDisagree(archive, api) THEN Mismatch
    ELSE CompareArchiveToTree(archive, Anchor(archive, api), public)

----------------------------------------------------------------------------
(* workflow.rs.  A selection has the candidate's and the base's release, the *)
(* sparse row of each (checksum, dependencies) and the archive fetched.      *)

SourcePromotion ==
    {"new-package", "inactive-revival", "dormant-wakeup", "new-dependency",
     "build-surface-changed", "publisher-discontinuity", "repository-discontinuity"}
Blocking == {"unknown-dependency-home", "forbidden-category-dependency", "source-mismatch"}

\* fetch_and_inspect_archive
Inspected(release) ==
    release.archive.checksum = release.checksum /\ InspectWithLimits(release.archive)

DependencySet(release) == {release.dependencies[i] : i \in DOMAIN release.dependencies}
RepeatsEdge(release) == Cardinality(DependencySet(release)) # Len(release.dependencies)

DependencyDelta(base, candidate) ==
    LET identities(S) == {PackageIdentity[d.package] : d \in S} IN
    [added |-> candidate \ base, removed |-> base \ candidate,
     newPackages |-> identities(candidate \ base) \ identities(base)]

\* HomesFile::resolve_dependency: the home here, or the only one elsewhere
ResolveDependency(registry, package) ==
    LET named == {h \in Homes : PackageIdentity[h.name] = PackageIdentity[package]}
        here == {h \in named : h.registry = registry}
    IN  IF here # {} THEN here ELSE IF Cardinality(named) = 1 THEN named ELSE {}

DependencyPolicy(registry, dependencies) ==
    LET homes(d) == ResolveDependency(registry, d.package) IN
    {r \in {"unknown-dependency-home", "forbidden-category-dependency"} :
        \E d \in dependencies :
            \/ r = "unknown-dependency-home" /\ homes(d) = {}
            \/ r = "forbidden-category-dependency" /\ \E h \in homes(d) : ~h.permitted}

Discontinuous(base, candidate) == base = Nothing \/ candidate = Nothing \/ base # candidate

\* mutant: an API that does not answer has nothing to say
ClassifyApiDiscontinuityIfKnown(hasBase, api) ==
    {r \in {"publisher-discontinuity", "repository-discontinuity"} :
        /\ hasBase /\ api # Nothing
        /\ \/ r = "publisher-discontinuity"
                 /\ Discontinuous(api.base.publisher, api.candidate.publisher)
           \/ r = "repository-discontinuity"
                 /\ Discontinuous(api.base.repository, api.candidate.repository)}

ClassifyApiDiscontinuity(hasBase, api) ==
    {r \in {"publisher-discontinuity", "repository-discontinuity"} :
        /\ hasBase
        /\ \/ api = Nothing
           \/ r = "publisher-discontinuity"
                 /\ Discontinuous(api.base.publisher, api.candidate.publisher)
           \/ r = "repository-discontinuity"
                 /\ Discontinuous(api.base.repository, api.candidate.repository)}

Activities(activity) ==
    {r \in {"new-package", "inactive-revival"} :
        \/ r = "new-package" /\ activity = "new"
        \/ r = "inactive-revival" /\ activity = "inactive"}

If(holds, reason) == IF holds THEN {reason} ELSE {}

DecisionForReasons(reasons) ==
    IF reasons \cap Blocking # {} THEN "blocked"
    ELSE IF reasons \cap (SourcePromotion \cup {"source-unavailable"}) # {}
    THEN "review-required" ELSE "automatic"

\* the release, archive or dependencies that stop the whole plan
Plannable(s) ==
    /\ Inspected(s.candidate) /\ ~RepeatsEdge(s.candidate)
    /\ s.base # Nothing => Inspected(s.base) /\ ~RepeatsEdge(s.base)

\* classify_candidate_reasons and the reasons the API and the selection add
Classified(s, archive, delta, dependencies, api) ==
    Activities(s.activity)
    \cup If(s.dormant, "dormant-wakeup")
    \cup If(dependencies.newPackages # {}, "new-dependency")
    \cup If(IF delta = Nothing THEN archive.surface # {} ELSE delta.surfaceChanged,
            "build-surface-changed")
    \cup DependencyPolicy(s.registry, DependencySet(s.candidate))
    \cup ClassifyApiDiscontinuity(s.base # Nothing, api)
    \cup If(s.explicit, "explicit-candidate")

\* collect_source_evidence: the public source is looked at when a reason asks
SourceEvidence(reasons, archive, api, public) ==
    IF reasons \cap SourcePromotion = {} THEN Unavailable
    ELSE VerifySourceCorrespondence(
             archive, IF api = Nothing THEN Nothing ELSE api.candidate, public)

SourceReasons(reasons, source) ==
    If(reasons \cap SourcePromotion # {} /\ source.level = "unavailable", "source-unavailable")
    \cup If(source.level = "mismatch", "source-mismatch")

\* ArchiveSummary, as far as the decision can be told from it
Summary(analysis) == [surface |-> analysis.surface, vcs |-> analysis.vcs]

BuildCandidate(s) ==
    LET archive == ArchiveAnalysis(s.candidate.archive)
        base == IF s.base = Nothing THEN Nothing ELSE ArchiveAnalysis(s.base.archive)
        delta == IF s.base = Nothing THEN Nothing ELSE ArchiveDelta(base, archive)
        dependencies == DependencyDelta(IF s.base = Nothing THEN {} ELSE DependencySet(s.base),
                                        DependencySet(s.candidate))
        api == FetchApiEvidence(s.response, s.base, s.candidate)
        classified == Classified(s, archive, delta, dependencies, api)
        source == SourceEvidence(classified, archive, api, s.public)
        reasons == classified \cup SourceReasons(classified, source)
    IN  [activity |-> s.activity, implicit |-> ~s.explicit, dormant |-> s.dormant,
         hasBase |-> s.base # Nothing,
         baseArchive |-> IF base = Nothing THEN Nothing ELSE Summary(base),
         archive |-> Summary(archive), delta |-> delta, dependencies |-> dependencies,
         api |-> api, source |-> source, reasons |-> reasons,
         decision |-> DecisionForReasons(reasons)]

----------------------------------------------------------------------------
(* plan.rs: what a plan that is written or read has to say of a candidate.   *)
(* Its version, times and lane are UpdateWorkflow's.                         *)

PromotedBy ==
    {"new-package", "inactive-revival", "dormant-wakeup", "new-dependency",
     "build-surface-changed", "publisher-discontinuity", "repository-discontinuity"}

ValidateCandidateLane(c) ==
    /\ c.implicit => c.activity = "active"
    /\ c.implicit <=> "explicit-candidate" \notin c.reasons

ValidateCandidateArchives(c) ==
    /\ c.hasBase <=> c.baseArchive # Nothing
    /\ c.hasBase <=> c.delta # Nothing
    /\ c.hasBase =>
          /\ c.delta.surfaceChanged <=> c.baseArchive.surface # c.archive.surface
          /\ c.delta.added \cap c.delta.removed = {}
          /\ (c.delta.added \cup c.delta.removed) \cap c.delta.changed = {}

ValidateDependencyDelta(d) ==
    d.newPackages \subseteq {PackageIdentity[e.package] : e \in d.added}

ValidateApiEvidence(c) ==
    c.api # Nothing => (c.api.base # Nothing <=> c.hasBase)

ValidateSourceEvidence(c) ==
    LET claim == c.archive.vcs
        claimed == IF claim = Nothing THEN <<>> ELSE claim.path
    IN  /\ c.source.level = "asserted" =>
              claim # Nothing /\ claim.commit = c.source.commit /\ claimed = c.source.path
        /\ c.source.level = "attested" =>
              /\ claim # Nothing => claim.commit = c.source.commit
              /\ c.source.path = claimed
              /\ c.api # Nothing /\ c.api.candidate.trusted # Nothing
              /\ c.api.candidate.trusted.repository = c.source.repository
              /\ c.api.candidate.trusted.commit = c.source.commit

ValidateReasonConsistency(c) ==
    LET says(r) == r \in c.reasons
        surface == IF c.hasBase THEN c.delta.surfaceChanged ELSE c.archive.surface # {}
        differs(field) ==
            c.hasBase /\ (c.api = Nothing
                          \/ c.api.base[field] = Nothing \/ c.api.candidate[field] = Nothing
                          \/ c.api.base[field] # c.api.candidate[field])
    IN  /\ says("new-package") <=> c.activity = "new"
        /\ says("inactive-revival") <=> c.activity = "inactive"
        /\ says("dormant-wakeup") <=> c.dormant
        /\ says("new-dependency") <=> c.dependencies.newPackages # {}
        /\ says("build-surface-changed") <=> surface
        /\ says("publisher-discontinuity") <=> differs("publisher")
        /\ says("repository-discontinuity") <=> differs("repository")
        /\ says("source-unavailable") <=>
              c.reasons \cap PromotedBy # {} /\ c.source.level = "unavailable"
        /\ says("source-mismatch") <=> c.source.level = "mismatch"

ValidateDecision(c) ==
    LET blocked == c.reasons \cap {"unknown-dependency-home",
                                   "forbidden-category-dependency", "source-mismatch"} # {}
        review == c.reasons \cap (PromotedBy \cup {"source-unavailable"}) # {}
    IN  c.decision = IF blocked THEN "blocked"
                     ELSE IF review THEN "review-required" ELSE "automatic"

ValidateCandidate(c) ==
    /\ c.activity = "new" <=> ~c.hasBase
    /\ ValidateCandidateLane(c)
    /\ ValidateCandidateArchives(c)
    /\ ValidateDependencyDelta(c.dependencies)
    /\ ValidateApiEvidence(c)
    /\ ValidateSourceEvidence(c)
    /\ ValidateReasonConsistency(c)
    /\ ValidateDecision(c)

----------------------------------------------------------------------------
(* What the evidence is worth. *)

\* crates.io's word that would be normalised away: a trusted repository that
\* ends in ".git", kept with it in the API evidence and without it in the
\* source evidence
Renamed(c) ==
    c.source.level = "attested" /\ c.api.candidate.trusted.repository.suffixed

\* A plan that was computed can be written and read again: what workflow.rs
\* concludes is what plan.rs concludes from the evidence it is written with,
\* except for a trusted repository that is named with ".git".
PlanReads(s) ==
    Plannable(s) =>
        LET c == BuildCandidate(s) IN ValidateCandidate(c) <=> ~Renamed(c)

\* Of a package whose source is called asserted or attested, every entry of
\* the archive that a build could read is a file of that public commit, with
\* its bytes and its executable bit, below the path the archive names; only
\* Cargo's two records and a manifest that lies next to its original are not
\* compared.  The commit is trusted publishing's where there is one.
SourceIs(s) ==
    Plannable(s) =>
        LET c == BuildCandidate(s)
            entries == {e \in Entries(s.candidate.archive) : e.type # "directory"}
            rewritten(e) ==
                \E n \in DOMAIN Original, o \in entries :
                    /\ Last(e.path) = n
                    /\ o.path = [e.path EXCEPT ![Len(e.path)] = Original[n]]
            published(e) ==
                \E p \in s.public, o \in UNION {q.objects : q \in s.public} :
                    /\ p.repository = c.source.repository /\ p.commit = c.source.commit
                    /\ o \in p.objects
                    /\ o.content = e.content
                    /\ o.mode = IF ExecutableMode(e.mode) THEN "100755" ELSE "100644"
                    /\ \/ o.path = c.source.path \o e.path
                       \/ \E n \in DOMAIN Original :
                              /\ Original[n] = Last(e.path)
                              /\ o.path = c.source.path \o Sibling(e.path, n)
        IN  c.source.level \in {"asserted", "attested"} =>
                \A e \in entries :
                    \/ e.path \in {VcsInfo, <<".cargo-ok">>}
                    \/ rewritten(e)
                    \/ published(e)

\* A decision of "automatic" asks for no more than the ordinary review, and has
\* nothing to hide from it: a base of the same publisher and repository, whose
\* archive has the same scripts, native sources, binary and executable files,
\* byte for byte and with the same modes, that depended on all the packages, all of them homed where this one may use them.
QuietlyAutomatic(s) ==
    Plannable(s) /\ BuildCandidate(s).decision = "automatic" =>
        LET surfacing(archive) ==
                {ArchiveFile(e) : e \in {f \in Entries(archive) :
                    /\ f.type = "file"
                    /\ \/ ExecutableMode(f.mode) \/ f.content \in WithNul
                       \/ Last(f.path) \in Surfacing \/ f.path \in CargoConfig}}
            packages(release) == {PackageIdentity[d.package] : d \in DependencySet(release)}
        IN  /\ s.activity = "active" /\ ~s.dormant /\ s.base # Nothing
            /\ surfacing(s.base.archive) = surfacing(s.candidate.archive)
            /\ packages(s.candidate) \subseteq packages(s.base)
            /\ \A p \in packages(s.candidate) : \E h \in Homes :
                  PackageIdentity[h.name] = p /\ h.permitted
            /\ \E i, j \in DOMAIN s.response.versions :
                  LET v == s.response.versions[i]
                      w == s.response.versions[j]
                  IN  /\ v.version = s.candidate.version /\ w.version = s.base.version
                      /\ v.publisher = w.publisher /\ v.publisher # Nothing
                      /\ v.repository = w.repository /\ v.repository # Nothing

=============================================================================
