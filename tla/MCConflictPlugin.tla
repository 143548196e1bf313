-------------------------- MODULE MCConflictPlugin ---------------------------
(* A configuration for TLC: one object of most types that matter.  The id of *)
(* an object tells its type; the address of the self IP is "ip".             *)
EXTENDS ConflictPlugin, TLC

MCTypeOf ==
  ("interface" :> "net_interface") @@ ("trunk" :> "net_trunk") @@ ("vlan" :> "net_vlan") @@
  ("group" :> "net_vlan-group") @@ ("self" :> "net_self") @@ ("route" :> "net_route") @@
  ("device" :> "cm_device") @@ ("fdb" :> "net_fdb_vlan") @@
  ("whitelist" :> "security_dos_network-whitelist") @@ ("list" :> "net_address-list") @@
  ("profile" :> "pem_profile") @@ ("rule" :> "ltm_rule") @@ ("virtual" :> "ltm_virtual") @@
  ("provision" :> "sys_provision_pem") @@ ("level" :> "sys_compatibility-level")

MCObjects == DOMAIN MCTypeOf
\* The entry of a vlan in the forwarding database has the name of the vlan.
MCNameOf == [o \in MCObjects |-> IF o = "fdb" THEN "vlan" ELSE o]
MCFileOf == [o \in MCObjects |->
  IF MCTypeOf[o] \in {"security_dos_network-whitelist", "net_address-list", "pem_profile",
                      "ltm_rule", "ltm_virtual"}
  THEN "bigip.conf" ELSE "bigip_base.conf"]
MCHosts == {<<"self", "ip">>}
MCNetworks == {<<"self", "ip">>}

Fixed ==
  {<<"trunk", "interfaces", "interface">>, <<"vlan", "interfaces", "trunk">>,
   <<"fdb", "records.trunk", "trunk">>, <<"device", "configsync-ip", "ip">>,
   <<"virtual", "profiles", "profile">>, <<"virtual", "rules", "rule">>,
   <<"group", "members", "vlan">>, <<"route", "gw", "ip">>,
   <<"route", "interface", "group">>, <<"whitelist", "address-list", "list">>}

\* The self IP is in the vlan or in the group; the whitelist and the virtual
\* server may name the vlan.  SPVA is the only one to look at the level, and
\* has no use for the virtual server: they come together.
SelfVlans == {{<<"self", "vlan", "vlan">>}, {<<"self", "vlan", "group">>}}
Whitelists == {{}, {<<"whitelist", "entries.source.vlans", "vlan">>}}
Virtuals == {{}, {<<"virtual", "vlans", "vlan">>, <<"level", "level", "0">>}}

Configuration(links) == [o \in MCObjects |-> {<<t[2], t[3]>> : t \in {t \in links : t[1] = o}}]

MCConfigurations ==
  {Configuration(Fixed \cup s \cup w \cup v) : s \in SelfVlans, w \in Whitelists, v \in Virtuals}
MCReferences == UNION {UNION {c[o] : o \in MCObjects} : c \in MCConfigurations}
==============================================================================
