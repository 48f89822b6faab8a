----------------------------- MODULE Staleness -----------------------------
(***************************************************************************)
(* What the staleness engine promises (spec.md 4.2, Client.Built):         *)
(* "Built returns true if the given path contains a Function which has     *)
(* been built without any filesystem modifications since (is not stale)".  *)
(*                                                                         *)
(* source : the version of every source file's bytes                       *)
(* image  : the source versions the image under the Function's tag was     *)
(*          built from                                                     *)
(* built  : whether Built(root) can answer true                            *)
(*                                                                         *)
(* A source change always makes the Function not built; only a rebuild    *)
(* from the current source may make it built; the engine may at any time   *)
(* conservatively decide the Function is stale.                            *)
(***************************************************************************)
CONSTANTS Sources, NoImage

VARIABLES source, image, built

avars == <<source, image, built>>

\* A source file's bytes change: the Function is no longer built.
SourceChange ==
    /\ source' # source
    /\ built' = FALSE
    /\ UNCHANGED image

\* The image is rebuilt from the current source; it may be marked built.
Rebuild ==
    /\ image' = source
    /\ built' \in BOOLEAN
    /\ UNCHANGED source

\* Conservative staleness: the engine forgets that the image is current.
Invalidate ==
    /\ built' = FALSE
    /\ UNCHANGED <<source, image>>

AInit ==
    /\ source \in Sources
    /\ image = NoImage
    /\ built = FALSE

ANext == SourceChange \/ Rebuild \/ Invalidate

ASpec == AInit /\ [][ANext]_avars

\* The promise itself: whenever the Function reads as built, its image was
\* built from exactly the current source.
BuiltImpliesCurrent == built => image = source
=============================================================================
