-------------------------- MODULE MCSandboxRunner --------------------------
(***************************************************************************)
(* Instances of SandboxRunner for TLC.                                     *)
(***************************************************************************)
EXTENDS SandboxRunner

MCDocker   == BOOLEAN
MCLogs     == SUBSET (Word \ {"modulenotfounderror", "memoryerror"})
MCFewLogs  == {{}, {"typeerror"}}
MCRaisable == {"Other", "PermissionError", "TimeoutError", "TypeError"}
=============================================================================
