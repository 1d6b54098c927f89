------------------------- MODULE MCFlashFileSystem --------------------------
(* Instances of FlashFileSystem for TLC. *)
EXTENDS FlashFileSystem

CONSTANTS boot, r1, r2, f1, f2, i1, i2

MCRemotes2 == {r1, r2}
MCFiles == {f1, f2}
MCInfos == {i1, i2}
MCCommands == {"getStatus", "format", "scan", "lockForReboot", "readFile",
               "removeFile", "setFile"}
MCLoadable == {i1}
=============================================================================
