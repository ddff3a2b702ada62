------------------------------ MODULE Threads ------------------------------
(***************************************************************************)
(* The threads of a process, shared by the modules of dlls/ntdll/sync.c    *)
(* that one specification composes.                                        *)
(***************************************************************************)
CONSTANTS Thread, NoThread
=============================================================================
