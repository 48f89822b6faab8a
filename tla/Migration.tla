----------------------------- MODULE Migration -----------------------------
(***************************************************************************)
(* The migration engine of src/unnamed/part_001: Function.Migrate, its    *)
(* registry of version-gated migrators, Function.Migrated, and the load /  *)
(* save cycle of the descriptor file around it.                            *)
(*                                                                         *)
(* A semver is a triple <<major, minor, patch>>; go-semver's semver.New    *)
(* panics on a string that is not one, which BadVersion stands for.        *)
(* The descriptor keeps the fields the migrators read or write: whether    *)
(* name and runtime are set, the creation stamp, and the custom pack       *)
(* builder image in each of the three places the schemas have kept it:    *)
(*   builder       top-level `builder`        (before 0.23.0)              *)
(*   topImages     top-level `builderImages`  (0.23.0 up to 1.0.0)        *)
(*   buildImages   `build.builderImages`      (1.0.0 on)                   *)
(* and the volumes, kept top-level (`volumes`) before 1.0.0 and under      *)
(* `run.volumes` from 1.0.0 on.                                            *)
(***************************************************************************)
EXTENDS Naturals, SequencesExt

CONSTANTS
    EmptyVersion,   \* the empty version string of unversioned files
    BadVersion,     \* a version string semver.New cannot parse
    FileVersions,   \* semvers files in the model are written with
    VolumeSet,      \* volume mounts (model values; Volume.String tells them apart)
    MaxVolumes      \* bound on the length of a volume list

VARIABLES
    raw,      \* the func.yaml on disk
    mem,      \* the Function the last load returned
    result,   \* what the last load returned: "none", "ok", "error", "panic"
    saved     \* history: mem has been written back to raw

vars == <<raw, mem, result, saved>>

DefaultVersion == <<0, 0, 0>>

\* Mutant: LessThan with receiver and argument swapped.
LessThanSwapped(a, b) ==
    \/ b[1] < a[1]
    \/ b[1] = a[1] /\ b[2] < a[2]
    \/ b[1] = a[1] /\ b[2] = a[2] /\ b[3] < a[3]

\* semver.Version.LessThan on major.minor.patch.
LessThan(a, b) ==
    \/ a[1] < b[1]
    \/ a[1] = b[1] /\ a[2] < b[2]
    \/ a[1] = b[1] /\ a[2] = b[2] /\ a[3] < b[3]

\* The migrations registry, in ascending order.
migrations == << [version |-> <<0, 19, 0>>, migrate |-> "migrateToCreationStamp"],
                 [version |-> <<0, 23, 0>>, migrate |-> "migrateToBuilderImages"],
                 [version |-> <<1, 0, 0>>,  migrate |-> "migrateTo100Structure"] >>

LastVersion == migrations[Len(migrations)].version

Images == {"none", "custom"}

VolumeLists == SeqOf(VolumeSet, MaxVolumes)

Versions == FileVersions \cup {DefaultVersion} \cup
            {migrations[i].version : i \in 1..Len(migrations)}

Functions == [version : Versions \cup {EmptyVersion, BadVersion},
              named : BOOLEAN, created : BOOLEAN, images : Images,
              volumes : VolumeLists]

\* Files older func versions wrote: each era keeps the builder image where
\* its schema does; creation stamps exist from 0.19.0 on. A hand-edited file
\* may carry a version semver cannot parse.
Era(v) == CASE v \in {EmptyVersion, BadVersion} -> 0
            [] LessThan(v, <<0, 19, 0>>)        -> 0
            [] LessThan(v, <<0, 23, 0>>)        -> 1
            [] LessThan(v, <<1, 0, 0>>)         -> 2
            [] OTHER                            -> 3

RawFiles ==
    { r \in [version : FileVersions \cup {EmptyVersion, BadVersion},
             named : BOOLEAN, created : BOOLEAN,
             builder : {"none", "default", "custom"},
             topImages : Images, buildImages : Images,
             topVolumes : VolumeLists, runVolumes : VolumeLists] :
        /\ r.created = (Era(r.version) > 0 /\ r.named)
        /\ Era(r.version) > 1 => r.builder = "none"
        /\ Era(r.version) # 2 => r.topImages = "none"
        /\ Era(r.version) # 3 => r.buildImages = "none"
        /\ Era(r.version) = 3 => r.topVolumes = <<>>
        /\ Era(r.version) # 3 => r.runVolumes = <<>> }

\* NewFunction: yaml.Unmarshal into the current schema, whose only home for
\* builder images is build.builderImages and for volumes run.volumes;
\* other keys are ignored.
Parse(r) == [version |-> r.version, named |-> r.named,
             created |-> r.created, images |-> r.buildImages,
             volumes |-> r.runVolumes]

\* Function.Write: the current schema.
Serialize(f) == [version |-> f.version, named |-> f.named,
                 created |-> f.created, builder |-> "none",
                 topImages |-> "none", buildImages |-> f.images,
                 topVolumes |-> <<>>, runVolumes |-> f.volumes]

\* Mutant: Migrated compared with the first registered migration.
MigratedFirst(f) == f.version # EmptyVersion /\ ~LessThan(f.version, migrations[1].version)

\* Function.Migrated: never for an empty version, else not below the last
\* registered migration (semver.New panics on BadVersion).
Migrated(f) == f.version # EmptyVersion /\ ~LessThan(f.version, LastVersion)

\* migrateToCreationStamp: an old named Function gets a creation stamp.
migrateToCreationStamp(f, m) ==
    [fn  |-> [f EXCEPT !.created = @ \/ f.named, !.version = m.version],
     err |-> FALSE]

\* migrateToBuilderImages: re-reads func.yaml under the previous schema and
\* carries a custom `builder` forward as builderImages["pack"].
migrateToBuilderImages(f, m, r, readFails) ==
    IF readFails THEN [fn |-> f, err |-> TRUE]
    ELSE [fn  |-> [f EXCEPT !.images = IF r.builder = "custom" THEN "custom" ELSE @,
                            !.version = m.version],
          err |-> FALSE]

\* Mutant: the 1.0.0 migration copies f0.Builder where f0.BuilderImages is meant.
migrateTo100Builder(f, m, r, readFails) ==
    IF readFails THEN [fn |-> f, err |-> TRUE]
    ELSE [fn  |-> [f EXCEPT !.images = r.builder, !.volumes = r.topVolumes,
                            !.version = m.version],
          err |-> FALSE]

\* Mutant: the 1.0.0 migration forgets to flag f1.Version.
migrateTo100NoVersion(f, m, r, readFails) ==
    IF readFails THEN [fn |-> f, err |-> TRUE]
    ELSE [fn |-> [f EXCEPT !.images = r.topImages, !.volumes = r.topVolumes],
          err |-> FALSE]

\* Mutant: the 1.0.0 migration leaves out f1.Run.Volumes = f0.Volumes.
migrateTo100NoVolumes(f, m, r, readFails) ==
    IF readFails THEN [fn |-> f, err |-> TRUE]
    ELSE [fn  |-> [f EXCEPT !.images = r.topImages, !.version = m.version],
          err |-> FALSE]

\* migrateTo100Structure: re-reads func.yaml under the 0.x schema and moves
\* its top-level sections into build/run, builderImages and volumes included.
migrateTo100Structure(f, m, r, readFails) ==
    IF readFails THEN [fn |-> f, err |-> TRUE]
    ELSE [fn  |-> [f EXCEPT !.images = r.topImages, !.volumes = r.topVolumes,
                            !.version = m.version],
          err |-> FALSE]

\* Apply the i-th migration; the read of func.yaml fails when i = failAt.
Apply(i, f, r, failAt) ==
    LET m == migrations[i] IN
    CASE m.migrate = "migrateToCreationStamp" -> migrateToCreationStamp(f, m)
      [] m.migrate = "migrateToBuilderImages" ->
            migrateToBuilderImages(f, m, r, i = failAt)
      [] m.migrate = "migrateTo100Structure"  ->
            migrateTo100Structure(f, m, r, i = failAt)

\* The loop of Function.Migrate from migration i on: skip a migration the
\* current version is not below, fail fast on the first error.
RECURSIVE MigrateFrom(_, _, _, _)
MigrateFrom(i, f, r, failAt) ==
    IF i > Len(migrations) THEN [fn |-> f, err |-> FALSE]
    ELSE IF ~LessThan(f.version, migrations[i].version)
         THEN MigrateFrom(i + 1, f, r, failAt)
         ELSE LET s == Apply(i, f, r, failAt) IN
              IF s.err THEN s ELSE MigrateFrom(i + 1, s.fn, r, failAt)

\* Function.Migrate.
Migrate(f, r, failAt) ==
    IF Migrated(f) THEN [fn |-> f, err |-> FALSE]
    ELSE MigrateFrom(1, IF f.version = EmptyVersion
                        THEN [f EXCEPT !.version = DefaultVersion] ELSE f,
                     r, failAt)

-----------------------------------------------------------------------------

Init ==
    /\ raw \in RawFiles
    /\ mem = Parse(raw)
    /\ result = "none"
    /\ saved = FALSE

\* NewFunction(root): parse func.yaml and migrate it. semver.New panics on a
\* version it cannot parse (in Migrated, the first thing Migrate does).
\* A re-read of func.yaml by the failAt-th migrator fails (0: none does).
Load ==
    /\ \E failAt \in 0..Len(migrations) :
          LET f == Parse(raw)
              s == Migrate(f, raw, failAt)
          IN IF f.version = BadVersion
             THEN /\ result' = "panic"
                  /\ mem' = f
             ELSE /\ mem' = s.fn
                  /\ result' = IF s.err THEN "error" ELSE "ok"
    /\ saved' = FALSE
    /\ UNCHANGED raw

\* f.Write() by a command that loaded the Function without error (a result
\* returned alongside an error is discarded by NewFunction's callers).
Save ==
    /\ result = "ok"
    /\ raw' = Serialize(mem)
    /\ saved' = TRUE
    /\ UNCHANGED <<mem, result>>

Next == Load \/ Save

Spec == Init /\ [][Next]_vars

-----------------------------------------------------------------------------

\* Reference order on semvers, independent of LessThan: components of the
\* model's versions are below 100.
Rank(v) == v[1] * 10000 + v[2] * 100 + v[3]

\* Where the file's own schema keeps a custom pack builder image.
Declared(r) == CASE Era(r.version) <= 1 -> IF r.builder = "custom" THEN "custom" ELSE "none"
                 [] Era(r.version) = 2  -> r.topImages
                 [] OTHER               -> r.buildImages

TypeOK ==
    /\ raw \in RawFiles \cup {Serialize(f) : f \in Functions}
    /\ mem \in Functions
    /\ result \in {"none", "ok", "error", "panic"}
    /\ saved \in BOOLEAN

\* Function.Migrate through NewFunction: a Function loaded without error is
\* at (or beyond) the last migration's version, and an old Function that
\* has a name and a runtime carries a creation stamp (else it would load as
\* "not initialized").
MigratedOnLoad ==
    result = "ok" =>
        /\ mem.version \in Versions
        /\ Rank(mem.version) >= Rank(LastVersion)
        /\ mem.named => mem.created

\* The version recorded in func.yaml never goes down when a loaded
\* Function is written back, whatever version wrote it.
VersionNeverDecreases ==
    [][raw.version \in Versions =>
         /\ raw'.version \in Versions
         /\ Rank(raw'.version) >= Rank(raw.version)]_raw

\* Migrating is stable at its fixpoint: reloading a saved Function runs no
\* migrator again (so a failing re-read cannot matter) and returns it as
\* it was saved.
LoadIdempotent ==
    result = "ok" /\ saved =>
        \A k \in 0..Len(migrations) :
            Migrate(Parse(raw), raw, k) = [fn |-> mem, err |-> FALSE]

\* migrateToBuilderImages' promise: a custom builder image the file declares,
\* in whichever schema its version has, is the Function's pack builder
\* image once loaded.
CustomBuilderKept == result = "ok" => mem.images = Declared(raw)

\* Loading a func.yaml returns an error rather than crashing the process.
NoPanic == result # "panic"
=============================================================================
