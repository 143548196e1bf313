------------------------------ MODULE MCDiagnose ------------------------------
(* Instances for TLC.                                                        *)
EXTENDS DiagnoseInvariant

MCLogs == <<"ltm", "apm">>
MCOthers == <<"MCP status">>
MCExclusions == {{}, {"Prompt state"}, Range(Checks)}
===============================================================================
