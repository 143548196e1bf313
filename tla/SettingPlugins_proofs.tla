---------------------- MODULE SettingPlugins_proofs ----------------------
(***************************************************************************)
(* Proofs about the plugins that look at values.  Two relations between     *)
(* configurations carry them: Tamer says that whatever a plugin may find    *)
(* in an object was there before, Lowered says what may become of the level *)
(* and of the setting that exempts from it.  Every mitigation, as far as it *)
(* is rendered, keeps to both; and a configuration that is tamer and        *)
(* lowered has no conflict that the other had not.                          *)
(***************************************************************************)
EXTENDS SettingPlugins, TLAPS

\* What every configuration is, whatever is missing in it.
Shaped(c) == DOMAIN c = {"obj", "bigdb"} /\ DOMAIN c.obj = Objects

Level == "compatibility-level"
General == "ltm general"
Global == "sys global-settings"
Dos(c) == _check_if_dos_forcewdos_was_enabled(c)

\* The fields that plugins look at, but for the level, and the values that no
\* plugin objects to.
Watched == {"address-list", "extended-entries", "customer-tag", "share-single-mac",
            "mgmt-dhcp", "cmp-hash"}
Harmless(name) ==
  {v \in {"global", "unique", "disabled", "default"} :
     \/ name = "share-single-mac" /\ v \in {"global", "unique"}
     \/ name = "mgmt-dhcp" /\ v = "disabled"
     \/ name = "cmp-hash" /\ v = "default"}

\* Nothing in d that a plugin may find is not in c, level and database apart.
Tamed(c, d, o) ==
  \A name \in Watched \cap Fields(d, o) :
    /\ name \in Fields(c, o)
    /\ d.obj[o][name] = c.obj[o][name] \/ d.obj[o][name] \in Harmless(name)
Tamer(c, d) == \A o \in Objects : Tamed(c, d, o)

HasLevel(c, level) ==
  "level" \in Fields(c, Level) /\ c.obj[Level]["level"] = level

\* Level and database: an exemption is not lost, and none is needed where there
\* was none.
Lowered(c, d) ==
  \/ d.obj[Level] = c.obj[Level] /\ (Dos(c) => Dos(d))
  \/ ~Exempt(c) /\ ~HasLevel(d, "1") /\ ~HasLevel(d, "2")
  \/ Exempt(d)

\* What each plugin looks for.
LEMMA Exempted == ASSUME NEW c PROVE Exempt(c) <=> HasLevel(c, "1") /\ Dos(c)
BY DEF Exempt, Dos, HasLevel, LevelIs, Level, find_objects_with_field_value

LEMMA FindsLevel ==
  ASSUME NEW c, NEW o
  PROVE  o \in objects(c, "CompatibilityLevel") <=>
           o = Level /\ ((HasLevel(c, "1") /\ ~Exempt(c)) \/ HasLevel(c, "2"))
<1>1. \A level : /\ LevelIs(c, level) # {} <=> HasLevel(c, level)
                 /\ o \in LevelIs(c, level) <=> o = Level /\ HasLevel(c, level)
  BY DEF LevelIs, HasLevel, Level, find_objects_with_field_value
<1>2. HasLevel(c, "1") => ~HasLevel(c, "2")
  BY DEF HasLevel
<1> QED BY <1>1, <1>2, Exempted DEF objects

LEMMA FindsAddresses ==
  ASSUME NEW c, NEW o
  PROVE  o \in objects(c, "SPVA") <=>
           o \in Whitelists /\ ~Exempt(c) /\ "address-list" \in Fields(c, o)
BY DEF objects, find_objects_with_field_name

LEMMA FindsMac ==
  ASSUME NEW c, NEW o
  PROVE  o \in objects(c, "VLANMACassignment") <=>
           /\ o = General /\ "share-single-mac" \in Fields(c, o)
           /\ c.obj[o]["share-single-mac"] = "vmw-compat"
BY DEF objects, find_objects_with_field_value, General

LEMMA FindsDhcp ==
  ASSUME NEW c, NEW o
  PROVE  o \in objects(c, "MGMT-DHCP") <=>
           /\ o = Global /\ "mgmt-dhcp" \in Fields(c, o)
           /\ c.obj[o]["mgmt-dhcp"] = "enabled"
BY DEF objects, find_objects_with_field_value, Global

LEMMA FindsHash ==
  ASSUME NEW c, NEW o
  PROVE  o \in objects(c, "SPDAG") <=>
           /\ o \in Vlans /\ "cmp-hash" \in Fields(c, o)
           /\ c.obj[o]["cmp-hash"] \in {"src-ip", "dst-ip"}
BY DEF objects, find_objects_with_field_value

LEMMA FindsTag ==
  ASSUME NEW c, NEW o
  PROVE  o \in objects(c, "DoubleTagging") <=>
           o \in Vlans /\ "customer-tag" \in Fields(c, o)
BY DEF objects, find_objects_with_field_name

LEMMA FindsEntries ==
  ASSUME NEW c, NEW o
  PROVE  o \in objects(c, "WildcardWhitelist") <=>
           o \in Whitelists /\ "extended-entries" \in Fields(c, o)
BY DEF objects, find_objects_with_field_name

\* Objects of different types.
LEMMA Kinds ==
  /\ {Level, General, Global} \cup Whitelists \cup Vlans = Objects
  /\ Level # General /\ Level # Global /\ Level \notin Whitelists \cup Vlans
BY SettingAssumption DEF Objects, Level, General, Global

\* What is found is in the configuration.
LEMMA FoundObjects ==
  ASSUME NEW c, NEW plugin \in Plugins
  PROVE  objects(c, plugin) \subseteq Objects
<1>1. CASE plugin \in {"CompatibilityLevel", "SPVA"}
  BY <1>1, Kinds, FindsLevel, FindsAddresses
<1>2. CASE plugin = "VLANMACassignment"
  BY <1>2, Kinds, FindsMac
<1>3. CASE plugin = "MGMT-DHCP"
  BY <1>3, Kinds, FindsDhcp
<1>4. CASE plugin \in {"SPDAG", "DoubleTagging", "WildcardWhitelist"}
  BY <1>4, Kinds, FindsHash, FindsTag, FindsEntries
<1> QED BY <1>1, <1>2, <1>3, <1>4 DEF Plugins

\* What is found is not a missing object.
LEMMA FoundThere ==
  ASSUME NEW c, NEW plugin \in Plugins, NEW o \in objects(c, plugin)
  PROVE  c.obj[o] # None
<1>1. Fields(c, o) # {}
  BY FindsLevel, FindsAddresses, FindsMac, FindsDhcp, FindsHash, FindsTag, FindsEntries
     DEF Plugins, HasLevel
<1> QED BY <1>1 DEF Fields

\* No plugin finds an object it did not find before.
LEMMA Fewer ==
  ASSUME NEW c, NEW d, Tamer(c, d), Lowered(c, d), NEW plugin \in Plugins
  PROVE  objects(d, plugin) \subseteq objects(c, plugin)
<1> SUFFICES ASSUME NEW o, o \in objects(d, plugin)
             PROVE  o \in objects(c, plugin)
  OBVIOUS
<1>0. o \in Objects /\ o \in objects(d, plugin)
  BY FoundObjects
<1>t. \A name \in Watched \cap Fields(d, o) :
        /\ name \in Fields(c, o)
        /\ d.obj[o][name] = c.obj[o][name] \/ d.obj[o][name] \in Harmless(name)
  BY <1>0 DEF Tamer, Tamed
<1>1. CASE plugin = "CompatibilityLevel"
  <2>1. CASE d.obj[Level] = c.obj[Level] /\ (Dos(c) => Dos(d))
    <3>1. \A level : HasLevel(d, level) <=> HasLevel(c, level)
      BY <2>1 DEF HasLevel, Fields
    <3> QED BY <1>0, <1>1, <2>1, <3>1, FindsLevel, Exempted
  <2>2. CASE ~HasLevel(d, "1") /\ ~HasLevel(d, "2")
    BY <1>0, <1>1, <2>2, FindsLevel, Exempted
  <2>3. CASE Exempt(d)
    BY <1>0, <1>1, <2>3, FindsLevel, Exempted DEF HasLevel
  <2> QED BY <2>1, <2>2, <2>3 DEF Lowered
<1>2. CASE plugin = "SPVA"
  <2>1. o \in Whitelists /\ ~Exempt(d) /\ "address-list" \in Fields(d, o)
    BY <1>0, <1>2, FindsAddresses
  <2>2. "address-list" \in Fields(c, o)
    BY <1>t, <2>1 DEF Watched
  <2>3. d.obj[Level] = c.obj[Level] => (HasLevel(c, "1") => HasLevel(d, "1"))
    BY DEF HasLevel, Fields
  <2>4. ~Exempt(c)
    BY <2>1, <2>3, Exempted DEF Lowered
  <2> QED BY <1>2, <2>1, <2>2, <2>4, FindsAddresses
<1>3. CASE plugin = "VLANMACassignment"
  <2>1. /\ o = General /\ "share-single-mac" \in Fields(d, o)
        /\ d.obj[o]["share-single-mac"] = "vmw-compat"
    BY <1>0, <1>3, FindsMac
  <2>2. "vmw-compat" \notin Harmless("share-single-mac") /\ "share-single-mac" \in Watched
    BY DEF Harmless, Watched
  <2>3. "share-single-mac" \in Fields(c, o) /\ c.obj[o]["share-single-mac"] = "vmw-compat"
    BY <1>t, <2>1, <2>2
  <2> QED BY <1>3, <2>1, <2>3, FindsMac
<1>4. CASE plugin = "MGMT-DHCP"
  <2>1. /\ o = Global /\ "mgmt-dhcp" \in Fields(d, o)
        /\ d.obj[o]["mgmt-dhcp"] = "enabled"
    BY <1>0, <1>4, FindsDhcp
  <2>2. "enabled" \notin Harmless("mgmt-dhcp") /\ "mgmt-dhcp" \in Watched
    BY DEF Harmless, Watched
  <2>3. "mgmt-dhcp" \in Fields(c, o) /\ c.obj[o]["mgmt-dhcp"] = "enabled"
    BY <1>t, <2>1, <2>2
  <2>4. o \in objects(c, "MGMT-DHCP")
    BY <2>1, <2>3, FindsDhcp
  <2> QED BY <1>4, <2>4
<1>5. CASE plugin = "SPDAG"
  BY <1>0, <1>t, <1>5, FindsHash DEF Watched, Harmless
<1>6. CASE plugin = "DoubleTagging"
  BY <1>0, <1>t, <1>6, FindsTag DEF Watched, Harmless
<1>7. CASE plugin = "WildcardWhitelist"
  BY <1>0, <1>t, <1>7, FindsEntries DEF Watched, Harmless
<1> QED BY <1>1, <1>2, <1>3, <1>4, <1>5, <1>6, <1>7 DEF Plugins

-----------------------------------------------------------------------------
(* What the mitigations do *)

LEMMA SetTames ==
  ASSUME NEW c, Shaped(c), NEW os, NEW name, NEW value, NEW d, d = SetField(c, os, name, value),
         name \in Watched => value \in Harmless(name),
         \A o \in os : c.obj[o] # None
  PROVE  /\ Shaped(d) /\ Tamer(c, d) /\ d.bigdb = c.bigdb
         /\ \A o \in Objects : o \notin os => d.obj[o] = c.obj[o]
         /\ \A o \in Objects \cap os : d.obj[o] = [c.obj[o] EXCEPT ![name] = value]
<1>1. Shaped(d) /\ d.bigdb = c.bigdb
  BY DEF Shaped, SetField, Change
<1>2. \A o \in Objects : d.obj[o] = IF o \in os THEN [c.obj[o] EXCEPT ![name] = value] ELSE c.obj[o]
  BY DEF Shaped, SetField, Change
<1>3. ASSUME NEW o \in Objects PROVE Tamed(c, d, o)
  <2>1. CASE o \in os
    BY <1>2, <2>1 DEF Tamed, Fields
  <2>2. CASE o \notin os
    BY <1>2, <2>2 DEF Tamed, Fields
  <2> QED BY <2>1, <2>2
<1> QED BY <1>1, <1>2, <1>3 DEF Tamer

LEMMA DeleteFieldTames ==
  ASSUME NEW c, Shaped(c), NEW os, NEW name, NEW d, d = DeleteField(c, os, name),
         \A o \in os : c.obj[o] # None
  PROVE  /\ Shaped(d) /\ Tamer(c, d) /\ d.bigdb = c.bigdb
         /\ \A o \in Objects : o \notin os => d.obj[o] = c.obj[o]
         /\ \A o \in Objects \cap os : name \notin Fields(d, o)
<1>1. Shaped(d) /\ d.bigdb = c.bigdb
  BY DEF Shaped, DeleteField, Change
<1>2. \A o \in Objects : d.obj[o] = IF o \in os THEN Without(c.obj[o], name) ELSE c.obj[o]
  BY DEF Shaped, DeleteField, Change
<1>3. ASSUME NEW o \in Objects PROVE Tamed(c, d, o)
  <2>1. CASE o \in os
    BY <1>2, <2>1 DEF Tamed, Fields, Without
  <2>2. CASE o \notin os
    BY <1>2, <2>2 DEF Tamed, Fields
  <2> QED BY <2>1, <2>2
<1>4. \A o \in Objects \cap os : name \notin Fields(d, o)
  BY <1>2 DEF Fields, Without
<1> QED BY <1>1, <1>2, <1>3, <1>4 DEF Tamer

LEMMA DeleteTames ==
  ASSUME NEW c, Shaped(c), NEW os, NEW d, d = delete_objects(c, os)
  PROVE  /\ Shaped(d) /\ Tamer(c, d) /\ d.bigdb = c.bigdb
         /\ \A o \in Objects : o \notin os => d.obj[o] = c.obj[o]
         /\ \A o \in Objects \cap os : Fields(d, o) = {}
<1>1. Shaped(d) /\ d.bigdb = c.bigdb
  BY DEF Shaped, delete_objects, Change
<1>2. \A o \in Objects : d.obj[o] = IF o \in os THEN None ELSE c.obj[o]
  BY DEF Shaped, delete_objects, Change
<1>3. ASSUME NEW o \in Objects PROVE Tamed(c, d, o)
  BY <1>2 DEF Tamed, Fields
<1>4. \A o \in Objects \cap os : Fields(d, o) = {}
  BY <1>2 DEF Fields
<1> QED BY <1>1, <1>2, <1>3, <1>4 DEF Tamer

LEMMA TamerTwice ==
  ASSUME NEW c, NEW d, NEW e, Tamer(c, d), Tamer(d, e)
  PROVE  Tamer(c, e)
BY DEF Tamer, Tamed

LEMMA BigdbSet ==
  ASSUME NEW c, Shaped(c), NEW section, NEW value, NEW d \in bigdb_set(c, section, value)
  PROVE  /\ Shaped(d) /\ d.obj = c.obj /\ Tamer(c, d)
         /\ section = "Dos.ForceSWdos" /\ value = "true" => Dos(d)
         /\ section # "Dos.ForceSWdos" => (Dos(c) <=> Dos(d))
<1>1. section \in DOMAIN c.bigdb /\ d = [c EXCEPT !.bigdb[section] = value]
  BY DEF bigdb_set
<1>2. Shaped(d) /\ d.obj = c.obj /\ d.bigdb = [c.bigdb EXCEPT ![section] = value]
  BY <1>1 DEF Shaped
<1>3. Tamer(c, d)
  BY <1>2 DEF Tamer, Tamed, Fields
<1> QED BY <1>1, <1>2, <1>3 DEF Dos, _check_if_dos_forcewdos_was_enabled

LEMMA LevelSet ==
  ASSUME NEW c, Shaped(c), NEW level, NEW d \in set_compatibility_lvl(c, level)
  PROVE  /\ Shaped(d) /\ Tamer(c, d) /\ d.bigdb = c.bigdb
         /\ \A o \in Objects : o # Level => d.obj[o] = c.obj[o]
         /\ d.obj[Level] # None => \A l : HasLevel(d, l) <=> l = level
<1> DEFINE os == find_objects_with_field_name(c, {"compatibility-level"}, "level")
<1>1. os = {Level} /\ "level" \in Fields(c, Level) /\ d = SetField(c, {Level}, "level", level)
  BY DEF set_compatibility_lvl, find_objects_with_field_name, Level
<1>2. c.obj[Level] # None /\ Level \in Objects /\ "level" \notin Watched
  BY <1>1 DEF Fields, Objects, Watched, Level
<1>3. /\ Shaped(d) /\ Tamer(c, d) /\ d.bigdb = c.bigdb
      /\ \A o \in Objects : o # Level => d.obj[o] = c.obj[o]
      /\ d.obj[Level] = [c.obj[Level] EXCEPT !["level"] = level]
  BY <1>1, <1>2, SetTames
<1> QED BY <1>1, <1>2, <1>3 DEF HasLevel, Fields

LEMMA Rendered ==
  ASSUME NEW c, NEW plugin \in Plugins, NEW new, c = config, Shaped(c), Shaped(new), Tamer(c, new)
  PROVE  LET d == render(plugin, new) IN
         /\ Shaped(d) /\ Tamer(c, d) /\ d.bigdb = new.bigdb
         /\ \A o \in Objects : d.obj[o] \in {c.obj[o], new.obj[o]}
         /\ \A o \in objects(c, plugin) : d.obj[o] = new.obj[o]
<1> DEFINE d == render(plugin, new)
<1>1. Shaped(d) /\ d.bigdb = new.bigdb
  BY DEF render, Shaped
<1>2. \A o \in Objects : d.obj[o] \in {c.obj[o], new.obj[o]}
  BY DEF render, Shaped
<1>3. \A o \in objects(c, plugin) : d.obj[o] = new.obj[o]
  BY FoundObjects DEF render, Shaped
<1> HIDE DEF d
<1>4. Tamer(c, d)
  BY <1>2 DEF Tamer, Tamed, Fields
<1> QED BY <1>1, <1>2, <1>3, <1>4 DEF d

\* Level and database in memory, before only some files are written.
Eased(c, new) ==
  \/ new.obj[Level] = c.obj[Level] /\ (Dos(c) => Dos(new))
  \/ ~Exempt(c) /\ ~HasLevel(new, "1") /\ ~HasLevel(new, "2") /\ (Dos(c) => Dos(new))
  \/ HasLevel(new, "1") /\ Dos(new)

LEMMA Level0 ==
  ASSUME NEW c, Shaped(c), ~Exempt(c), NEW new \in set_compatibility_lvl(c, "0")
  PROVE  Shaped(new) /\ Tamer(c, new) /\ Eased(c, new)
<1>1. ~HasLevel(new, "1") /\ ~HasLevel(new, "2")
  BY LevelSet DEF HasLevel, Fields
<1> QED BY <1>1, LevelSet DEF Eased, Dos, _check_if_dos_forcewdos_was_enabled

LEMMA Level1 ==
  ASSUME NEW c, Shaped(c), ~Exempt(c), NEW new \in lvl_1(c)
  PROVE  Shaped(new) /\ Tamer(c, new) /\ Eased(c, new)
<1>1. PICK d \in set_compatibility_lvl(c, "1") : new \in bigdb_set(d, "Dos.ForceSWdos", "true")
  BY DEF lvl_1
<1>2. Shaped(d) /\ Tamer(c, d)
  BY LevelSet
<1>3. Shaped(new) /\ Tamer(d, new) /\ new.obj = d.obj /\ Dos(new)
  BY <1>1, <1>2, BigdbSet
<1>4. HasLevel(new, "1") \/ (~HasLevel(new, "1") /\ ~HasLevel(new, "2"))
  BY <1>3, LevelSet DEF HasLevel, Fields
<1> QED BY <1>2, <1>3, <1>4, TamerTwice DEF Eased

\* A mitigation that leaves level and database alone.
LEMMA LevelLeft ==
  ASSUME NEW c, NEW new, new.obj[Level] = c.obj[Level], new.bigdb = c.bigdb
  PROVE  Eased(c, new)
BY DEF Eased, Dos, _check_if_dos_forcewdos_was_enabled

LEMMA NewOK ==
  ASSUME NEW c, Shaped(c), NEW plugin \in Plugins, objects(c, plugin) # {},
         NEW name \in mitigations(plugin), NEW new \in mitigate(c, plugin, name)
  PROVE  Shaped(new) /\ Tamer(c, new) /\ Eased(c, new)
<1> DEFINE os == objects(c, plugin)
           OK == Shaped(new) /\ Tamer(c, new) /\ Eased(c, new)
<1>0. os = objects(c, plugin)
  OBVIOUS
<1> HIDE DEF os
<1>1. Level \in Objects /\ os \subseteq Objects
  BY <1>0, FoundObjects, Kinds
<1>2. \A o \in os : c.obj[o] # None
  BY <1>0, FoundThere
<1>3. plugin \notin {"CompatibilityLevel", "SPVA"} => Level \notin os
  BY <1>0, Kinds, FindsMac, FindsDhcp, FindsHash, FindsTag, FindsEntries DEF Plugins
<1>4. plugin \in {"CompatibilityLevel", "SPVA"} => ~Exempt(c)
  <2>1. PICK o : o \in objects(c, plugin)
    OBVIOUS
  <2> QED BY <2>1, FindsLevel, FindsAddresses, Exempted DEF HasLevel
<1>5. CASE name = "comment_only"
  <2>1. new = c
    BY <1>5 DEF mitigate
  <2> QED BY <2>1, LevelLeft DEF Tamer, Tamed
<1>6. CASE plugin = "CompatibilityLevel" /\ name = "compatibility_lvl_0"
  BY <1>4, <1>6, Level0 DEF mitigate
<1>7. CASE plugin \in {"CompatibilityLevel", "SPVA"} /\ name = "compatibility_lvl_1"
  BY <1>4, <1>7, Level1 DEF mitigate
<1>8. CASE plugin = "SPVA" /\ name = "delete_objects"
  <2>1. PICK d : d = DeleteField(c, os, "address-list") /\ new \in set_compatibility_lvl(d, "0")
    BY <1>0, <1>8 DEF mitigate
  <2>2. Level \notin os
    BY <1>0, <1>8, FindsAddresses, Kinds
  <2>3. Shaped(d) /\ Tamer(c, d) /\ d.bigdb = c.bigdb /\ d.obj[Level] = c.obj[Level]
    BY <1>1, <1>2, <2>1, <2>2, DeleteFieldTames
  <2>4. ~Exempt(d)
    <3>1. HasLevel(d, "1") => HasLevel(c, "1")
      BY <2>3 DEF HasLevel, Fields
    <3>2. Dos(d) => Dos(c)
      BY <2>3 DEF Dos, _check_if_dos_forcewdos_was_enabled
    <3> QED BY <1>4, <1>8, <3>1, <3>2, Exempted
  <2>5. Shaped(new) /\ Tamer(d, new) /\ Eased(d, new)
    BY <2>1, <2>3, <2>4, Level0
  <2>6. Eased(c, new)
    BY <1>4, <1>8, <2>3, <2>5 DEF Eased, Dos, _check_if_dos_forcewdos_was_enabled
  <2> QED BY <2>3, <2>5, <2>6, TamerTwice
<1>9. CASE plugin = "DoubleTagging" /\ name = "delete_objects"
  <2>1. new = DeleteField(c, os, "customer-tag")
    BY <1>0, <1>9 DEF mitigate
  <2> QED BY <1>1, <1>2, <1>3, <1>9, <2>1, DeleteFieldTames, LevelLeft
<1>10. CASE plugin \in {"SPDAG", "WildcardWhitelist"} /\ name = "delete_objects"
  <2>1. new = delete_objects(c, os)
    BY <1>0, <1>10 DEF mitigate
  <2> QED BY <1>1, <1>3, <1>10, <2>1, DeleteTames, LevelLeft
<1>11. ASSUME plugin = "VLANMACassignment",
              NEW value \in {"global", "unique"}, new \in share_single_mac(c, value)
       PROVE  OK
  <2>0. PICK d : /\ d = SetField(c, {General}, "share-single-mac", value)
                 /\ new \in bigdb_set(d, "Vlan.MacAssignment", value)
    BY <1>11 DEF share_single_mac, General
  <2>1. General \in os /\ value \in Harmless("share-single-mac")
    <3>1. PICK o : o \in objects(c, plugin)
      OBVIOUS
    <3>2. o = General
      BY <1>11, <3>1, FindsMac
    <3> QED BY <1>0, <3>1, <3>2 DEF Harmless
  <2>2. /\ Shaped(d) /\ Tamer(c, d) /\ d.bigdb = c.bigdb /\ d.obj[Level] = c.obj[Level]
    BY <1>1, <1>2, <2>0, <2>1, Kinds, SetTames
  <2>4. Shaped(new) /\ new.obj = d.obj /\ Tamer(d, new) /\ (Dos(d) <=> Dos(new))
    BY <2>0, <2>2, BigdbSet
  <2>5. Dos(c) <=> Dos(d)
    BY <2>2 DEF Dos, _check_if_dos_forcewdos_was_enabled
  <2> QED BY <2>2, <2>4, <2>5, TamerTwice DEF Eased
<1>12. CASE plugin = "VLANMACassignment" /\ name = "share_single_mac_global"
  BY <1>11, <1>12 DEF mitigate
<1>13. CASE plugin = "VLANMACassignment" /\ name = "share_single_mac_unique"
  BY <1>11, <1>13 DEF mitigate
<1>14. CASE plugin = "MGMT-DHCP" /\ name = "disable_mgmt_dhcp"
  <2>1. new = SetField(c, os, "mgmt-dhcp", "disabled") /\ "disabled" \in Harmless("mgmt-dhcp")
    BY <1>0, <1>14 DEF mitigate, Harmless
  <2> QED BY <1>1, <1>2, <1>3, <1>14, <2>1, SetTames, LevelLeft
<1>15. CASE plugin = "SPDAG" /\ name = "change_value_to_default"
  <2>1. new = SetField(c, os, "cmp-hash", "default") /\ "default" \in Harmless("cmp-hash")
    BY <1>0, <1>15 DEF mitigate, Harmless
  <2> QED BY <1>1, <1>2, <1>3, <1>15, <2>1, SetTames, LevelLeft
<1> HIDE DEF OK
<1>16. mitigations(plugin) \subseteq
         {"comment_only"} \cup
         {n \in {"compatibility_lvl_0", "compatibility_lvl_1", "delete_objects", "share_single_mac_global",
                 "share_single_mac_unique", "disable_mgmt_dhcp", "change_value_to_default"} :
           \/ plugin = "CompatibilityLevel" /\ n = "compatibility_lvl_0"
           \/ plugin \in {"CompatibilityLevel", "SPVA"} /\ n = "compatibility_lvl_1"
           \/ plugin \in {"SPVA", "DoubleTagging", "WildcardWhitelist", "SPDAG"} /\ n = "delete_objects"
           \/ plugin = "VLANMACassignment" /\ n \in {"share_single_mac_global", "share_single_mac_unique"}
           \/ plugin = "MGMT-DHCP" /\ n = "disable_mgmt_dhcp"
           \/ plugin = "SPDAG" /\ n = "change_value_to_default"}
  BY DEF mitigations, recommended, Plugins
<1> QED BY <1>5, <1>6, <1>7, <1>8, <1>9, <1>10, <1>12, <1>13, <1>14, <1>15, <1>16 DEF OK
-----------------------------------------------------------------------------
(* The steps *)

\* What is rendered has the database as changed, and the level changed or not.
LEMMA RenderLowers ==
  ASSUME NEW c, NEW new, NEW d, Eased(c, new),
         d.obj[Level] \in {c.obj[Level], new.obj[Level]}, d.bigdb = new.bigdb
  PROVE  Lowered(c, d)
<1>1. Dos(d) <=> Dos(new)
  BY DEF Dos, _check_if_dos_forcewdos_was_enabled
<1>2. d.obj[Level] = new.obj[Level] => \A l : HasLevel(d, l) <=> HasLevel(new, l)
  BY DEF HasLevel, Fields
<1>3. CASE d.obj[Level] = c.obj[Level]
  BY <1>1, <1>3 DEF Eased, Lowered
<1>4. CASE d.obj[Level] = new.obj[Level]
  BY <1>1, <1>2, <1>4, Exempted DEF Eased, Lowered
<1> QED BY <1>3, <1>4

LEMMA MitigateStep ==
  ASSUME Shaped(config), NEW plugin \in Plugins, NEW name \in mitigations(plugin), Mitigate(plugin, name)
  PROVE  /\ Shaped(config') /\ Tamer(config, config') /\ Lowered(config, config')
         /\ objects(config, plugin) # {}
         /\ \E new \in mitigate(config, plugin, name) :
              \A o \in objects(config, plugin) : config'.obj[o] = new.obj[o]
<1> DEFINE c == config
<1>0. c = config
  OBVIOUS
<1> HIDE DEF c
<1>1. objects(c, plugin) # {}
  BY <1>0 DEF Mitigate, conflicts
<1>2. PICK new \in mitigate(c, plugin, name) : config' = render(plugin, new)
  BY <1>0 DEF Mitigate
<1>3. Shaped(c) /\ Shaped(new) /\ Tamer(c, new) /\ Eased(c, new)
  BY <1>0, <1>1, NewOK
<1>4. /\ Shaped(config') /\ Tamer(c, config') /\ config'.bigdb = new.bigdb
      /\ \A o \in Objects : config'.obj[o] \in {c.obj[o], new.obj[o]}
      /\ \A o \in objects(c, plugin) : config'.obj[o] = new.obj[o]
  BY <1>0, <1>2, <1>3, Rendered
<1>5. Lowered(c, config')
  BY <1>3, <1>4, RenderLowers, Kinds
<1> QED BY <1>0, <1>1, <1>4, <1>5

LEMMA InitShaped == Init => Shaped(config)
<1>1. ASSUME NEW level, NEW mac, NEW dhcp, NEW whites, NEW vlans, NEW bigdb
      PROVE  Shaped(Configuration(level, mac, dhcp, whites, vlans, bigdb))
  BY DEF Shaped, Configuration
<1> QED BY <1>1 DEF Init

LEMMA NextStep ==
  ASSUME Shaped(config), [Next]_vars
  PROVE  Shaped(config') /\ conflicts(config') \subseteq conflicts(config)
<1>1. CASE Restart \/ UNCHANGED vars
  BY <1>1 DEF Restart, vars
<1>2. CASE \E plugin \in Plugins : \E name \in mitigations(plugin) : Mitigate(plugin, name)
  <2>1. PICK plugin \in Plugins : \E name \in mitigations(plugin) : Mitigate(plugin, name)
    BY <1>2
  <2>2. Shaped(config') /\ Tamer(config, config') /\ Lowered(config, config')
    BY <2>1, MitigateStep
  <2> QED BY <2>2, Fewer DEF conflicts
<1> QED BY <1>1, <1>2 DEF Next

\* At any time the configuration has all objects, some of them None, and a
\* database: whatever is written to files is a configuration again.
THEOREM ConfigShaped == Spec => []Shaped(config)
<1>1. Shaped(config) /\ [Next]_vars => Shaped(config)'
  BY NextStep DEF Shaped
<1> QED BY <1>1, InitShaped, PTL DEF Spec

\* Whatever mitigations of whatever plugins are rendered in whatever order, no
\* conflict comes up that was not there: Plugin's mitigations write what other
\* plugins look at, CompatibilityLevel's and SPVA's the same level.
THEOREM ConflictsFall == Spec => NoneBringsAnother
<1>1. Shaped(config) /\ [Next]_vars => [conflicts(config') \subseteq conflicts(config)]_config
  BY NextStep
<1> QED BY <1>1, ConfigShaped, PTL DEF Spec, NoneBringsAnother

\* What is recommended takes from each object found what it was found by.
LEMMA Removed ==
  ASSUME NEW c, Shaped(c), NEW plugin \in Plugins, NEW o \in objects(c, plugin),
         NEW new \in mitigate(c, plugin, recommended(plugin)), NEW d, d.obj[o] = new.obj[o]
  PROVE  o \notin objects(d, plugin)
<1> DEFINE os == objects(c, plugin)
<1>0. os = objects(c, plugin)
  OBVIOUS
<1> HIDE DEF os
<1>1. o \in Objects /\ o \in os /\ \A x \in os : c.obj[x] # None
  BY <1>0, FoundObjects, FoundThere
<1>2. Fields(d, o) = Fields(new, o)
  BY DEF Fields
<1>3. CASE plugin = "CompatibilityLevel"
  <2>1. new \in set_compatibility_lvl(c, "0") /\ o = Level
    BY <1>0, <1>1, <1>3, FindsLevel DEF mitigate, recommended
  <2>2. ~HasLevel(new, "1") /\ ~HasLevel(new, "2")
    BY <2>1, LevelSet DEF HasLevel, Fields
  <2>3. ~HasLevel(d, "1") /\ ~HasLevel(d, "2")
    BY <1>2, <2>1, <2>2 DEF HasLevel
  <2> QED BY <1>3, <2>3, FindsLevel
<1>4. CASE plugin = "SPVA"
  <2>1. PICK e : e = DeleteField(c, os, "address-list") /\ new \in set_compatibility_lvl(e, "0")
    BY <1>0, <1>4 DEF mitigate, recommended
  <2>2. Shaped(e) /\ "address-list" \notin Fields(e, o)
    BY <1>1, <2>1, DeleteFieldTames
  <2>3. o # Level
    BY <1>0, <1>1, <1>4, FindsAddresses, Kinds
  <2>4. Fields(new, o) = Fields(e, o)
    BY <1>1, <2>1, <2>2, <2>3, LevelSet DEF Fields
  <2> QED BY <1>2, <1>4, <2>2, <2>4, FindsAddresses
<1>5. CASE plugin = "VLANMACassignment"
  <2>1. PICK e : /\ e = SetField(c, {General}, "share-single-mac", "unique")
                 /\ new \in bigdb_set(e, "Vlan.MacAssignment", "unique")
    BY <1>5 DEF mitigate, recommended, share_single_mac, General
  <2>2. o = General /\ "share-single-mac" \in Fields(c, o)
    BY <1>0, <1>1, <1>5, FindsMac
  <2>3. "unique" \in Harmless("share-single-mac")
    BY DEF Harmless
  <2>4. Shaped(e) /\ e.obj[o] = [c.obj[o] EXCEPT !["share-single-mac"] = "unique"]
    BY <1>1, <2>1, <2>2, <2>3, SetTames
  <2>5. new.obj = e.obj
    BY <2>1, <2>4, BigdbSet
  <2>6. d.obj[o] = [c.obj[o] EXCEPT !["share-single-mac"] = "unique"]
    BY <2>4, <2>5
  <2>7. d.obj[o]["share-single-mac"] = "unique"
    BY <2>2, <2>6 DEF Fields
  <2> QED BY <1>5, <2>7, FindsMac
<1>6. CASE plugin = "MGMT-DHCP"
  <2>1. new = SetField(c, os, "mgmt-dhcp", "disabled") /\ "disabled" \in Harmless("mgmt-dhcp")
    BY <1>0, <1>6 DEF mitigate, recommended, Harmless
  <2>2. "mgmt-dhcp" \in Fields(c, o)
    BY <1>0, <1>1, <1>6, FindsDhcp
  <2>3. d.obj[o] = [c.obj[o] EXCEPT !["mgmt-dhcp"] = "disabled"]
    BY <1>1, <2>1, SetTames
  <2>4. d.obj[o]["mgmt-dhcp"] = "disabled"
    BY <2>2, <2>3 DEF Fields
  <2> QED BY <1>6, <2>4, FindsDhcp
<1>7. CASE plugin = "SPDAG"
  <2>1. new = SetField(c, os, "cmp-hash", "default") /\ "default" \in Harmless("cmp-hash")
    BY <1>0, <1>7 DEF mitigate, recommended, Harmless
  <2>2. "cmp-hash" \in Fields(c, o)
    BY <1>0, <1>1, <1>7, FindsHash
  <2>3. d.obj[o] = [c.obj[o] EXCEPT !["cmp-hash"] = "default"]
    BY <1>1, <2>1, SetTames
  <2>4. d.obj[o]["cmp-hash"] = "default"
    BY <2>2, <2>3 DEF Fields
  <2> QED BY <1>7, <2>4, FindsHash
<1>8. CASE plugin = "DoubleTagging"
  <2>1. new = DeleteField(c, os, "customer-tag")
    BY <1>0, <1>8 DEF mitigate, recommended
  <2>2. "customer-tag" \notin Fields(new, o)
    BY <1>1, <2>1, DeleteFieldTames
  <2> QED BY <1>2, <1>8, <2>2, FindsTag
<1>9. CASE plugin = "WildcardWhitelist"
  <2>1. new = delete_objects(c, os)
    BY <1>0, <1>9 DEF mitigate, recommended
  <2>2. Fields(new, o) = {}
    BY <1>1, <2>1, DeleteTames
  <2> QED BY <1>2, <1>9, <2>2, FindsEntries
<1> QED BY <1>3, <1>4, <1>5, <1>6, <1>7, <1>8, <1>9 DEF Plugins

\* resolve-all does not meet a conflict again: the recommended mitigation of
\* each plugin removes its conflict, although only files that hold objects of
\* the conflict are written.
THEOREM RecommendedSettles == Spec => RecommendedResolves
<1>1. ASSUME Shaped(config), NEW plugin \in Plugins, Mitigate(plugin, recommended(plugin))
      PROVE  plugin \notin conflicts(config')
  <2>0. recommended(plugin) \in mitigations(plugin)
    BY DEF mitigations
  <2>1. /\ Tamer(config, config') /\ Lowered(config, config')
        /\ \E new \in mitigate(config, plugin, recommended(plugin)) :
             \A o \in objects(config, plugin) : config'.obj[o] = new.obj[o]
    BY <1>1, <2>0, MitigateStep
  <2>2. PICK new \in mitigate(config, plugin, recommended(plugin)) :
          \A o \in objects(config, plugin) : config'.obj[o] = new.obj[o]
    BY <2>1
  <2>3. objects(config', plugin) \subseteq objects(config, plugin)
    BY <2>1, Fewer
  <2>4. \A o \in objects(config, plugin) : o \notin objects(config', plugin)
    BY <1>1, <2>2, Removed
  <2> QED BY <2>3, <2>4 DEF conflicts
<1>2. Shaped(config) /\ [Next]_vars =>
        [\A plugin \in Plugins :
           Mitigate(plugin, recommended(plugin)) => plugin \notin conflicts(config')]_vars
  BY <1>1
<1> QED BY <1>2, ConfigShaped, PTL DEF Spec, RecommendedResolves
====
