---------------------------- MODULE DependencyMap ----------------------------
(* References between the objects of a configuration, and what is done about *)
(* them when the object referred to is deleted (modifier/dependency.py).     *)
(*                                                                           *)
(* An object has a type, its words joined by "_", and a name.  What it       *)
(* refers to is its set of references <<field, value>>: the field says where *)
(* in the object the value is found, items of collections and nested blocks  *)
(* included.                                                                 *)
EXTENDS Naturals, Sequences

CONSTANTS
  Objects,     \* ids of the top-level objects of the configuration
  TypeOf,      \* the type of an object: what precedes its name
  NameOf,
  Hosts,       \* <<object, value>>: the address of the object is the value
  Networks,    \* <<object, value>>: the value is in the network of the object
  References   \* the references there can be

ASSUME ObjectAssumption ==
  /\ DOMAIN TypeOf = Objects
  /\ DOMAIN NameOf = Objects

\* A row of the table: objects of a type in `children` refer by `field` to
\* objects of a type in `parents`, by name, address or network.  If the parent
\* is deleted, so is the reference, the collection of references or the object
\* that has it.
Dependency(children, field, parents, target, resolution) ==
  [children |-> children, field |-> field, parents |-> parents,
   target |-> target, resolution |-> resolution]

Vlans == {"net_vlan", "net_vlan-group"}

DEFAULT_DEPENDENCIES ==
  {Dependency({"cm_device"}, "configsync-ip", {"net_self"}, "address", "reference"),
   Dependency({"cm_device"}, "mirror-ip", {"net_self"}, "address", "reference"),
   Dependency({"cm_device"}, "mirror-secondary-ip", {"net_self"}, "address", "reference"),
   \* The blocks of unicast-address have no key by which one could be found: the
   \* resolution takes the collection for empty and deletes it.
   Dependency({"cm_device"}, "unicast-address.ip", {"net_self"}, "address", "collection"),
   Dependency({"ltm_nat", "ltm_snat", "ltm_virtual", "net_packet-filter-trusted",
               "net_route-domain", "net_stp", "gtm_listener"},
              "vlans", Vlans, "name", "reference"),
   Dependency({"ltm_pool"}, "monitor", {"ltm_monitor"}, "name", "reference"),
   Dependency({"ltm_pool"}, "members.monitor", {"ltm_monitor"}, "name", "reference"),
   Dependency({"ltm_pool"}, "members.address", {"ltm_node"}, "address", "reference"),
   Dependency({"security_nat_source-translation"}, "egress-interfaces",
              {"net_vlan"}, "name", "reference"),
   Dependency({"net_fdb_vlan"}, "name", {"net_vlan"}, "name", "object"),
   Dependency({"net_fdb_vlan"}, "records.trunk", {"net_trunk"}, "name", "reference"),
   Dependency({"net_fdb_vlan"}, "records.interface", {"net_interface"}, "name", "reference"),
   Dependency({"net_packet-filter"}, "vlan", Vlans, "name", "reference"),
   Dependency({"net_self"}, "vlan", Vlans, "name", "object"),
   Dependency({"net_route"}, "interface", Vlans, "name", "reference"),
   Dependency({"net_route"}, "gw", {"net_self"}, "network", "reference"),
   Dependency({"net_stp", "sys_ha-group"}, "trunks", {"net_trunk"}, "name", "reference"),
   Dependency({"net_trunk"}, "interfaces", {"net_interface"}, "name", "reference"),
   Dependency({"net_vlan"}, "interfaces", {"net_trunk"}, "name", "reference"),
   Dependency({"net_vlan-group"}, "members", {"net_vlan"}, "name", "reference"),
   Dependency({"ltm_virtual"}, "rules", {"ltm_rule"}, "name", "reference"),
   Dependency({"ltm_virtual"}, "profiles", {"pem_profile"}, "name", "object"),
   Dependency({"security_firewall_management-ip-rules", "security_firewall_policy",
               "security_firewall_rule-list", "security_nat_policy"},
              "rules.source.vlans", Vlans, "name", "reference"),
   Dependency({"security_nat_policy"}, "rules.next-hop.vlan", Vlans, "name", "reference"),
   Dependency({"security_dos_network-whitelist"}, "address-list",
              {"net_address-list", "security_firewall_address-list",
               "security_shared-objects_address-list"}, "name", "object"),
   Dependency({"security_dos_network-whitelist"}, "entries.source.vlans", Vlans,
              "name", "reference"),
   Dependency({"security_dos_network-whitelist"}, "extended-entries.source.vlans", Vlans,
              "name", "reference")}

-----------------------------------------------------------------------------

\* The values by which object c refers to others through dependency d, if it
\* has the references refs.
Values(d, c, refs) ==
  IF d.field = "name" THEN {NameOf[c]} ELSE {r[2] : r \in {r \in refs : r[1] = d.field}}

\* Whether a value found by dependency d means object p.
Means(d, value, p) ==
  CASE d.target = "name"    -> NameOf[p] = value
    [] d.target = "address" -> <<p, value>> \in Hosts
    [] d.target = "network" -> <<p, value>> \in Networks

\* The rows of the table for the types of c and p.
Rows == [c \in Objects |-> [p \in Objects |->
  {d \in DEFAULT_DEPENDENCIES : TypeOf[c] \in d.children /\ TypeOf[p] \in d.parents}]]

\* The dependencies by which c, having the references refs, depends on p.
Dependencies(c, refs, p) ==
  {d \in Rows[c][p] : \E value \in Values(d, c, refs) : Means(d, value, p)}

\* DependencyMap.reverse and .forward of configuration conf.
Dependents(conf, p) == {c \in Objects : Dependencies(c, conf[c], p) # {}}
DependsOn(conf, c) == {p \in Objects : Dependencies(c, conf[c], p) # {}}

\* Mutant: every resolution is the one of BaseDependency.
DeletesByDefault(conf, c, p) == Dependencies(c, conf[c], p) # {}

\* What the resolutions of <<c, p>> do: they delete c, or references of c.
DeletesObject(conf, c, p) ==
  \E d \in Dependencies(c, conf[c], p) : d.resolution = "object"

Removed(conf, c, p) ==
  {r \in conf[c] : \E d \in Dependencies(c, conf[c], p) :
     /\ r[1] = d.field
     /\ \/ d.resolution = "reference" /\ Means(d, r[2], p)
        \/ d.resolution = "collection"}

==============================================================================
