------------------------------- MODULE MCIpc -------------------------------
(* Ipc on a small instance: one resource, all rights or only some.         *)
EXTENDS Ipc

MCResources == {Named("System", "s")}

All == {"DELEGATE", "WRITE", "SUBSCRIBE", "PUBLISH"}

MCPermSets == {All, {"WRITE"}}

TaskSymmetry == Permutations(Tasks)
=============================================================================
