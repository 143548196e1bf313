--------------------------- MODULE MCSettingPlugins ---------------------------
(* Instances for TLC.                                                        *)
EXTENDS SettingPlugins

MCFiles == {"bigip.conf", "bigip_base.conf"}
===============================================================================
