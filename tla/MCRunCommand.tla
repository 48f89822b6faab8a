---------------------------- MODULE MCRunCommand ----------------------------
(* Model-checking instance of RunCommand: one Function root with two        *)
(* template source files.                                                   *)
EXTENDS RunCommand

MCSrcFiles == {"handle.go", "go.mod"}
====
