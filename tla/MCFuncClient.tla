---------------------------- MODULE MCFuncClient ----------------------------
(* Model-checking instance of FuncClient: one Function root with two        *)
(* template source files.                                                   *)
EXTENDS FuncClient

MCSrcFiles == {"handle.go", "go.mod"}
MCSources  == MCSrcFiles
MCWithIgnore == MCSrcFiles \cup {".gitignore"}
=============================================================================
