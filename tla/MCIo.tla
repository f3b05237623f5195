-------------------------------- MODULE MCIo --------------------------------
(***************************************************************************)
(* Io for TLC: two processes, a file, the log and paths that lead nowhere. *)
(***************************************************************************)
EXTENDS Io
MCLogNames == <<"l0", "l1">>
MCPaths == {<<"fatfs", "f">>, <<"fatfs", "log", "l0">>, <<"fatfs", "log", "">>}
MCPrograms == {<<"initrd", "shell">>, <<"fatfs", "f">>}
=============================================================================
