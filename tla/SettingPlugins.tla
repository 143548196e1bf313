---------------------------- MODULE SettingPlugins ----------------------------
(***************************************************************************)
(* The conflicts that are about values and fields of objects, not about    *)
(* objects: several plugins look at the same objects and at the database,  *)
(* and the mitigations of one write what another looks for.  Deletion and  *)
(* its effect on other objects are in ConflictPlugin.                      *)
(***************************************************************************)
EXTENDS Naturals, FiniteSets

CONSTANTS Whitelists,   \* security dos network-whitelist
          Vlans,        \* net vlan
          Files,        \* the files of the configuration
          None          \* no such object

\* An object has one type, and there is one of each of the others.
ASSUME SettingAssumption ==
  /\ Whitelists \cap Vlans = {}
  /\ {"compatibility-level", "ltm general", "sys global-settings"} \cap (Whitelists \cup Vlans) = {}

VARIABLES config,       \* the objects, functions from fields to values, and BigDB.dat
          file,         \* the file each object is in
          places        \* of CompatibilityLevel.MSG_TYPE, as long as the process lives

vars == <<config, file, places>>

Plugins == {"CompatibilityLevel", "SPVA", "VLANMACassignment", "MGMT-DHCP", "SPDAG",
            "DoubleTagging", "WildcardWhitelist"}
Objects == {"compatibility-level", "ltm general", "sys global-settings"} \cup Whitelists \cup Vlans
-----------------------------------------------------------------------------
(* What the plugins find.  BigDB is a function from sections to options:    *)
(* the value of an option, NoOption, or a section that is missing.          *)
NoOption == "no option"
Fields(c, o) == IF c.obj[o] = None THEN {} ELSE DOMAIN c.obj[o]
find_objects_with_field_name(c, os, name) == {o \in os : name \in Fields(c, o)}
find_objects_with_field_value(c, os, name, values) ==
  {o \in os : name \in Fields(c, o) /\ c.obj[o][name] \in values}

LevelIs(c, level) == find_objects_with_field_value(c, {"compatibility-level"}, "level", {level})
_check_if_dos_forcewdos_was_enabled(c) ==
  "Dos.ForceSWdos" \in DOMAIN c.bigdb /\ c.bigdb["Dos.ForceSWdos"] = "true"
Exempt(c) == LevelIs(c, "1") # {} /\ _check_if_dos_forcewdos_was_enabled(c)

\* Only a missing option is expected by what reads the database, not a section;
\* a message with two places is formatted with one argument.
DetectionRaises(c) ==
  \/ LevelIs(c, "1") # {} /\ "Dos.ForceSWdos" \notin DOMAIN c.bigdb
  \/ places = 2 /\ LevelIs(c, "1") \cup LevelIs(c, "2") # {} /\ ~Exempt(c)

objects(c, plugin) ==
  CASE plugin = "CompatibilityLevel" ->
         IF LevelIs(c, "1") # {} /\ ~Exempt(c) THEN LevelIs(c, "1") ELSE LevelIs(c, "2")
    [] plugin = "SPVA" ->
         IF Exempt(c) THEN {} ELSE find_objects_with_field_name(c, Whitelists, "address-list")
    [] plugin = "VLANMACassignment" ->
         find_objects_with_field_value(c, {"ltm general"}, "share-single-mac", {"vmw-compat"})
    [] plugin = "MGMT-DHCP" ->
         find_objects_with_field_value(c, {"sys global-settings"}, "mgmt-dhcp", {"enabled"})
    [] plugin = "SPDAG" ->
         find_objects_with_field_value(c, Vlans, "cmp-hash", {"src-ip", "dst-ip"})
    [] plugin = "DoubleTagging" -> find_objects_with_field_name(c, Vlans, "customer-tag")
    [] plugin = "WildcardWhitelist" ->
         find_objects_with_field_name(c, Whitelists, "extended-entries")

conflicts(c) == {plugin \in Plugins : objects(c, plugin) # {}}
-----------------------------------------------------------------------------
(* What the mitigations do to the configuration in memory.  The set of      *)
(* results is empty when the mitigation raises.                             *)
Without(f, x) == [y \in DOMAIN f \ {x} |-> f[y]]
Change(c, os, Op(_)) == [c EXCEPT !.obj = [o \in Objects |-> IF o \in os THEN Op(@[o]) ELSE @[o]]]
SetField(c, os, name, value) == Change(c, os, LAMBDA obj : [obj EXCEPT ![name] = value])
DeleteField(c, os, name) == Change(c, os, LAMBDA obj : Without(obj, name))
delete_objects(c, os) == Change(c, os, LAMBDA obj : None)

\* ConfigParser.set() wants the section to exist.
bigdb_set(c, section, value) ==
  IF section \in DOMAIN c.bigdb THEN {[c EXCEPT !.bigdb[section] = value]} ELSE {}

\* Without an object that has a level there is none to set.
set_compatibility_lvl(c, level) ==
  LET os == find_objects_with_field_name(c, {"compatibility-level"}, "level")
  IN IF os = {} THEN {} ELSE {SetField(c, os, "level", level)}
\* Mutant: the level alone, the setting it requires is left out.
lvl_1_alone(c) == set_compatibility_lvl(c, "1")
lvl_1(c) == UNION {bigdb_set(d, "Dos.ForceSWdos", "true") : d \in set_compatibility_lvl(c, "1")}
share_single_mac(c, value) ==
  bigdb_set(SetField(c, {"ltm general"}, "share-single-mac", value), "Vlan.MacAssignment", value)

mitigate(c, plugin, name) ==
  LET os == objects(c, plugin) IN
  CASE name = "comment_only" -> {c}
    [] name = "compatibility_lvl_0" -> set_compatibility_lvl(c, "0")
    [] name = "compatibility_lvl_1" -> lvl_1(c)
    [] name = "delete_objects" /\ plugin = "SPVA" ->
         set_compatibility_lvl(DeleteField(c, os, "address-list"), "0")
    [] name = "delete_objects" /\ plugin = "DoubleTagging" -> {DeleteField(c, os, "customer-tag")}
    [] name = "delete_objects" /\ plugin \notin {"SPVA", "DoubleTagging"} -> {delete_objects(c, os)}
    [] name = "share_single_mac_global" -> share_single_mac(c, "global")
    [] name = "share_single_mac_unique" -> share_single_mac(c, "unique")
    [] name = "disable_mgmt_dhcp" -> {SetField(c, os, "mgmt-dhcp", "disabled")}
    [] name = "change_value_to_default" -> {SetField(c, os, "cmp-hash", "default")}

recommended(plugin) ==
  CASE plugin = "CompatibilityLevel" -> "compatibility_lvl_0"
    [] plugin = "VLANMACassignment" -> "share_single_mac_unique"
    [] plugin = "MGMT-DHCP" -> "disable_mgmt_dhcp"
    [] plugin = "SPDAG" -> "change_value_to_default"
    [] plugin \in {"SPVA", "DoubleTagging", "WildcardWhitelist"} -> "delete_objects"

mitigations(plugin) ==
  {"comment_only", recommended(plugin)} \cup
  CASE plugin \in {"CompatibilityLevel", "SPVA"} -> {"compatibility_lvl_1"}
    [] plugin = "VLANMACassignment" -> {"share_single_mac_global"}
    [] plugin = "SPDAG" -> {"delete_objects"}
    [] plugin \notin {"CompatibilityLevel", "SPVA", "VLANMACassignment", "SPDAG"} -> {}

\* Mutant: the files are those of the objects that are left.
render_after(plugin, new) ==
  LET files == {file[o] : o \in objects(new, plugin)}
  IN [obj |-> [o \in Objects |-> IF file[o] \in files THEN new.obj[o] ELSE config.obj[o]],
      bigdb |-> new.bigdb]
\* Of the files only those of the plugin's objects are written, the database always.
render(plugin, new) ==
  LET files == {file[o] : o \in objects(config, plugin)}
  IN [obj |-> [o \in Objects |-> IF file[o] \in files THEN new.obj[o] ELSE config.obj[o]],
      bigdb |-> new.bigdb]
-----------------------------------------------------------------------------
Setting(name, values) == {None} \cup {[f \in {name} |-> v] : v \in values}
FieldSets(names) == {None} \cup {[f \in S |-> "set"] : S \in SUBSET names}
Vlan == {[f \in {"cmp-hash"} \cup S |-> IF f = "cmp-hash" THEN hash ELSE "set"] :
           hash \in {"default", "src-ip"}, S \in SUBSET {"customer-tag"}}
\* An option of a section that is there may be missing.
BigDB == {db \in UNION {[S -> {NoOption, "true", "vmw-compat"}] :
                        S \in SUBSET {"Dos.ForceSWdos", "Vlan.MacAssignment"}} :
            /\ "Dos.ForceSWdos" \in DOMAIN db => db["Dos.ForceSWdos"] # "vmw-compat"
            /\ "Vlan.MacAssignment" \in DOMAIN db => db["Vlan.MacAssignment"] = "vmw-compat"}

Configuration(level, mac, dhcp, whites, vlans, bigdb) ==
  [obj |-> [o \in Objects |->
              CASE o = "compatibility-level" -> level
                [] o = "ltm general" -> mac
                [] o = "sys global-settings" -> dhcp
                [] o \in Whitelists -> whites[o]
                [] o \in Vlans -> vlans[o]],
   bigdb |-> bigdb]

Init ==
  /\ \E level \in Setting("level", {"0", "1", "2"}),
        mac \in Setting("share-single-mac", {"vmw-compat"}),
        dhcp \in Setting("mgmt-dhcp", {"enabled"}),
        whites \in [Whitelists -> FieldSets({"address-list", "extended-entries"})],
        vlans \in [Vlans -> Vlan],
        bigdb \in BigDB :
     config = Configuration(level, mac, dhcp, whites, vlans, bigdb)
  /\ file \in [Objects -> Files]
  /\ places = 1

\* A conflict is found and one of its mitigations rendered and merged.
Mitigate(plugin, name) ==
  /\ ~DetectionRaises(config) /\ plugin \in conflicts(config)
  /\ \E new \in mitigate(config, plugin, name) : config' = render(plugin, new)
  /\ places' = IF plugin = "CompatibilityLevel" /\ name = "comment_only" /\ LevelIs(config, "1") # {}
               THEN 2 ELSE places
  /\ UNCHANGED file

\* A new process has the message of the source again.
Restart == places' = 1 /\ UNCHANGED <<config, file>>

Next == Restart \/ \E plugin \in Plugins : \E name \in mitigations(plugin) : Mitigate(plugin, name)

Spec == Init /\ [][Next]_vars
-----------------------------------------------------------------------------
(* No mitigation brings up a conflict that was not there, its own or        *)
(* another plugin's, although only some files are written: whatever is      *)
(* chosen in whatever order, the conflicts become fewer.                    *)
NoneBringsAnother == [][conflicts(config') \subseteq conflicts(config)]_config

(* What is recommended removes the conflict, as far as it is written to the *)
(* files: resolve-all does not meet a conflict twice.                       *)
RecommendedResolves ==
  [][\A plugin \in Plugins :
       Mitigate(plugin, recommended(plugin)) => plugin \notin conflicts(config')]_vars
===============================================================================
