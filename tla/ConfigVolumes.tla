---------------------------- MODULE ConfigVolumes ----------------------------
(***************************************************************************)
(* `func config volumes add` and `func config volumes remove` of           *)
(* src/unnamed/part_002, composed with the migration engine (Migration)   *)
(* over the same func.yaml. Each command loads the Function through        *)
(* initConfigCommand, which migrates it, edits the in-memory volume list   *)
(* through an interactive prompt, and writes the whole Function back in   *)
(* the current schema. The other commands keep loading and saving the     *)
(* file in between (Migration's Load and Save).                            *)
(*                                                                         *)
(* A volume is a model value: the prompt offers the Secrets and ConfigMaps *)
(* the cluster lists and a mount path, and Volume.String renders kind,     *)
(* name and path, so two entries render alike only when they are equal.   *)
(* Every early return of the commands (a load error, an uninitialized     *)
(* Function, a listing error, no Secrets or ConfigMaps, an interrupted    *)
(* prompt, a failing f.Write) writes nothing: those are stuttering steps. *)
(***************************************************************************)
EXTENDS Migration

\* initConfigCommand: the Function at the path, loaded and migrated by
\* NewFunction, when that succeeded and the Function is initialized; the
\* failAt-th migrator's re-read of func.yaml fails (0: none does).
Loadable(failAt) ==
    LET s == Migrate(Parse(raw), raw, failAt) IN
    IF raw.version # BadVersion /\ ~s.err /\ s.fn.named THEN {s.fn} ELSE {}

\* f.Write(): func.yaml now holds f in the current schema; it is what the
\* command held in memory, and what a reload returns.
WriteFunction(f) ==
    /\ raw' = Serialize(f)
    /\ mem' = f
    /\ result' = "ok"
    /\ saved' = TRUE

\* runAddVolumesPrompt: the kind and the resource chosen from the cluster's
\* listing and an absolute mount path give the new volume, appended to
\* f.Runtime.Volumes before f.Write().
VolumesAdd ==
    \E failAt \in 0..Len(migrations), v \in VolumeSet :
        \E f \in Loadable(failAt) :
            /\ Len(f.volumes) < MaxVolumes
            /\ WriteFunction([f EXCEPT !.volumes = Append(@, v)])

\* runRemoveVolumesPrompt: with volumes configured, the user selects one
\* rendering; the first volume whose String() matches is cut out of the
\* list (append(vs[:i], vs[i+1:]...), break) and f.Write() runs.
VolumesRemove ==
    \E failAt \in 0..Len(migrations) :
        \E f \in Loadable(failAt) :
            /\ f.volumes # <<>>
            /\ \E selected \in ToSet(f.volumes) :
                  WriteFunction([f EXCEPT !.volumes =
                                   RemoveFirstMatch(@, LAMBDA v : v = selected)])

ConfigNext == Next \/ VolumesAdd \/ VolumesRemove

ConfigSpec == Init /\ [][ConfigNext]_vars

-----------------------------------------------------------------------------

\* The volumes func.yaml declares, in whichever schema its version has.
DeclaredVolumes(r) == IF Era(r.version) = 3 THEN r.runVolumes ELSE r.topVolumes

\* Whatever command writes func.yaml, its volume mounts change only by the
\* one entry a volumes command added at the end or removed: migrating a
\* file of an older schema, re-serialising it and the other commands keep
\* every configured volume, in order.
VolumeListEdits ==
    [][LET old == DeclaredVolumes(raw)
           new == DeclaredVolumes(raw')
       IN \/ new = old
          \/ \E v \in VolumeSet : new = Append(old, v)
          \/ \E i \in 1..Len(old) : new = RemoveAt(old, i)]_raw
====
