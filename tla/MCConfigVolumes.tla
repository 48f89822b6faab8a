--------------------------- MODULE MCConfigVolumes ---------------------------
(* The config volumes commands and the other commands' load / save cycle on *)
(* files of every schema era, with two distinct volumes and lists of up to *)
(* two entries (so a list can hold a duplicate).                            *)
EXTENDS ConfigVolumes

MCFileVersions == { <<0, 18, 0>>, <<0, 19, 0>>, <<0, 20, 0>>, <<0, 23, 0>>,
                    <<0, 25, 0>>, <<1, 0, 0>>, <<1, 2, 0>> }
=============================================================================
