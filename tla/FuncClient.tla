----------------------------- MODULE FuncClient -----------------------------
(***************************************************************************)
(* The lifecycle Client of src/unnamed/part_000 acting on ONE Function     *)
(* root on disk: Create, Build (with the build stamp of the staleness      *)
(* engine), Push, the Built query, and the user who edits files and the    *)
(* clock that timestamps every write.                                      *)
(*                                                                         *)
(* The root's walked entries (everything but .func and .git) are kept as   *)
(* a function from path to modification time, which is exactly what        *)
(* fingerprint() hashes; the build stamp .func/built keeps a copy of it.   *)
(* Build is split at its suspension point: the Builder reads the sources   *)
(* when the build starts and may block arbitrarily long before the         *)
(* descriptor and the stamp are written.                                   *)
(***************************************************************************)
EXTENDS Naturals, FiniteSets

CONSTANTS
    SrcFiles,        \* source files the templates write (model values)
    Editable,        \* files the user edits: SrcFiles, possibly .gitignore
    ImageRef,        \* the image tag DerivedImage gives the Function
    NoImage,         \* the empty Runtime.Image
    Digests,         \* digests a Pusher may return
    NoDigest,        \* the empty digest (returned by noopPusher)
    NoStamp,         \* .func/built does not exist
    BadStamp,        \* .func/built truncated by a failed write
    MaxClock,        \* bound on the filesystem clock
    MaxEdits,        \* bound on edits of one file
    FineClock,       \* TRUE: every write gets a strictly newer mtime
    EditDuringBuild  \* TRUE: the user may edit while a Build is running

FuncYaml  == "func.yaml"
GitIgnore == ".gitignore"
Paths     == SrcFiles \cup {FuncYaml, GitIgnore}

ASSUME Editable \subseteq SrcFiles \cup {GitIgnore}

VARIABLES
    files,      \* [walked path -> mtime]: the root's entries outside .func
    content,    \* [Editable -> version of the file's bytes] (history)
    desc,       \* the Function persisted in func.yaml
    stamp,      \* content of .func/built
    clock,      \* the filesystem clock
    op,         \* "idle" or "build": a Build is between its two steps
    snap,       \* the source versions the running Builder read
    imageFrom,  \* source versions the image under ImageRef was built from
    freshBuild  \* history: the last Build succeeded and nothing was edited since

vars == <<files, content, desc, stamp, clock, op, snap, imageFrom, freshBuild>>

\* NewFunction of a root with no func.yaml: the zero Function.
ZeroDesc == [initialized |-> FALSE, image |-> NoImage, digest |-> NoDigest]

\* NewFunction(root): the descriptor as loaded from func.yaml.
Loaded == IF FuncYaml \in DOMAIN files THEN desc ELSE ZeroDesc

\* The time a write performed now stamps on a file.
Now == IF FineClock THEN clock + 1 ELSE clock
CanWrite == clock < MaxClock \/ ~FineClock

\* The walked entries after the paths ps are (re)written at time Now.
Write(ps) == [p \in DOMAIN files \cup ps |-> IF p \in ps THEN Now ELSE files[p]]

\* The byte versions after the paths ps are written from templates.
Reset(ps) == [p \in DOMAIN content |-> IF p \in ps THEN 0 ELSE content[p]]

\* Mutant: a fingerprint that folds in the paths but not their ModTime.
FingerprintPathsOnly == [p \in DOMAIN files |-> 0]

\* fingerprint(f): the (path, mtime) pairs of the walk, .func and .git
\* skipped. sha256 of their concatenation is taken to be injective.
Fingerprint == files

\* hasInitializedFunction(root).
HasInitializedFunction == Loaded.initialized

\* assertEmptyRoot(root): no contentious file (func.yaml, .gitignore, see
\* the TODO of ensureRuntimeDir) and no visible file.
AssertEmptyRoot == DOMAIN files = {}

\* Mutant: Create without assertEmptyRoot.
MayCreateUninitialized == ~HasInitializedFunction

\* Create refuses an initialized or non-empty root.
MayCreate == ~HasInitializedFunction /\ AssertEmptyRoot

\* Mutant: Built without the fingerprint comparison.
BuiltStampExists == Loaded.image # NoImage /\ stamp # NoStamp

\* Client.Built(root): an image is recorded, the stamp exists and equals a
\* fresh fingerprint. An I/O error on the way makes it answer false, so
\* this is the condition under which it CAN answer true.
Built ==
    /\ Loaded.image # NoImage
    /\ stamp # NoStamp
    /\ stamp = Fingerprint

-----------------------------------------------------------------------------

Init ==
    /\ files = [p \in {} |-> 0]
    /\ content = [p \in Editable |-> 0]
    /\ desc = ZeroDesc
    /\ stamp = NoStamp
    /\ clock = 0
    /\ op = "idle"
    /\ snap = content
    /\ imageFrom = NoImage
    /\ freshBuild = FALSE

\* Client.Create(cfg). After the guards, ensureRuntimeDir writes .gitignore,
\* Templates.Write writes the sources (all, or some of them when it fails),
\* and f.Write persists the initialized descriptor (or fails).
Create ==
    /\ op = "idle"
    /\ MayCreate
    /\ CanWrite
    /\ \E written \in SUBSET SrcFiles, persisted \in BOOLEAN :
          /\ persisted => written = SrcFiles
          /\ LET ps == {GitIgnore} \cup written
                       \cup (IF persisted THEN {FuncYaml} ELSE {})
             IN /\ files' = Write(ps)
                /\ content' = Reset(ps)
          /\ desc' = IF persisted
                     THEN [initialized |-> TRUE, image |-> NoImage,
                           digest |-> NoDigest]
                     ELSE desc
    /\ clock' = Now
    /\ UNCHANGED <<stamp, op, snap, imageFrom, freshBuild>>

\* Client.Build(ctx, path), first step: load, DerivedImage, and the Builder
\* reads the sources. (A DerivedImage error returns with nothing changed.)
BuildStart ==
    /\ op = "idle"
    /\ op' = "build"
    /\ snap' = content
    /\ UNCHANGED <<files, content, desc, stamp, clock, imageFrom, freshBuild>>

\* The Builder returns an error: Build returns it, nothing is written.
BuildFail ==
    /\ op = "build"
    /\ op' = "idle"
    /\ freshBuild' = FALSE
    /\ UNCHANGED <<files, content, desc, stamp, clock, snap, imageFrom>>

\* The Builder succeeds: the image under ImageRef now holds what it read.
\* f.Write then fails, or it persists the image and updateBuildStamp runs:
\* ensureRuntimeDir rewrites .gitignore, the walk is fingerprinted and the
\* stamp written. Any of these writes may fail, leaving the old stamp or a
\* truncated one.
BuildSucceed ==
    /\ op = "build"
    /\ CanWrite
    /\ op' = "idle"
    /\ imageFrom' = snap
    /\ \/ /\ UNCHANGED <<files, content, desc, stamp>>            \* f.Write
          /\ freshBuild' = FALSE
       \/ \E ignoreWritten \in BOOLEAN, stamped \in BOOLEAN :
             LET ps == {FuncYaml} \cup (IF ignoreWritten THEN {GitIgnore} ELSE {})
             IN /\ stamped => ignoreWritten
                /\ files' = Write(ps)
                /\ content' = Reset(ps)
                /\ desc' = [Loaded EXCEPT !.image = ImageRef]
                /\ stamp' \in CASE stamped       -> {Fingerprint'}
                                  [] ignoreWritten -> {stamp, BadStamp}
                                  [] OTHER         -> {stamp}
                /\ freshBuild' = stamped
    /\ clock' = Now
    /\ UNCHANGED snap

\* Client.Push(ctx, path): ErrNotBuilt without an image (nothing changes);
\* a Pusher error returns it; otherwise the digest is recorded and f.Write
\* persists it.
Push ==
    /\ op = "idle"
    /\ Loaded.image # NoImage
    /\ CanWrite
    /\ \E d \in Digests \cup {NoDigest} :
          desc' = [Loaded EXCEPT !.digest = d]
    /\ files' = Write({FuncYaml})
    /\ clock' = Now
    /\ UNCHANGED <<content, stamp, op, snap, imageFrom, freshBuild>>

\* The user saves a file of the project.
Edit(p) ==
    /\ p \in DOMAIN files
    /\ op = "idle" \/ EditDuringBuild
    /\ content[p] < MaxEdits
    /\ CanWrite
    /\ content' = [content EXCEPT ![p] = @ + 1]
    /\ files' = Write({p})
    /\ clock' = Now
    /\ freshBuild' = FALSE
    /\ UNCHANGED <<desc, stamp, op, snap, imageFrom>>

\* Time passes.
Tick ==
    /\ clock < MaxClock
    /\ clock' = clock + 1
    /\ UNCHANGED <<files, content, desc, stamp, op, snap, imageFrom, freshBuild>>

Next ==
    \/ Create
    \/ BuildStart
    \/ BuildFail
    \/ BuildSucceed
    \/ Push
    \/ \E p \in Editable : Edit(p)
    \/ Tick

Spec == Init /\ [][Next]_vars

-----------------------------------------------------------------------------

\* Staleness (Client.Built, fingerprint, updateBuildStamp): whenever Built
\* can answer true, the image under the Function's tag was built from the
\* bytes the sources hold now; a rebuild is never skipped for a stale image.
BuiltIsFresh == Built => imageFrom = content

\* No step of the Client loses what the user wrote: Create never rewrites
\* the files of an existing project and Build never rewrites a file the
\* user edits.
NoLostEdits == [][\A p \in Editable : content'[p] >= content[p]]_content

\* A root that holds no initialized Function, and whose files func itself
\* wrote, is one Client.Create accepts: a Create that failed part way, or
\* another command that wrote into the root, never blocks creating the
\* Function there.
CreateRetryable == ~HasInitializedFunction => AssertEmptyRoot

\* The staleness engine implements its abstract promise (Staleness.tla):
\* the source is what the user wrote, the image what the Builder last
\* produced, and "built" what Client.Built can answer.
Abs == INSTANCE Staleness WITH
           source <- content, image <- imageFrom, built <- Built,
           Sources <- {[p \in Editable |-> 0]}

StalenessRefined == Abs!ASpec
=============================================================================
