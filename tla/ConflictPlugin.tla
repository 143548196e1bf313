--------------------------- MODULE ConflictPlugin ----------------------------
(* One conflict from its detection to the files that are written for one of  *)
(* its mitigations: the traversal of dependent objects, comments on them,    *)
(* and the deletion of the conflict's objects with the resolution of what    *)
(* refers to them (conflict/plugins/, modifier/dependency.py).               *)
(*                                                                           *)
(* Every loop of this code runs over a set of strings, whose order differs   *)
(* from one process to the next: an element is chosen nondeterministically.  *)
EXTENDS DependencyMap

CONSTANTS
  FileOf,           \* the file an object is in
  Configurations,   \* the configurations to start from: references per object
  None

Plugins == {"CGNAT", "PEM", "SPDAG", "SPVA", "TRUNK", "VirtualWire", "VlanGroup",
            "WildcardWhitelist"}

ASSUME PluginAssumption ==
  /\ DOMAIN FileOf = Objects
  /\ Configurations \subseteq [Objects -> SUBSET References]
  /\ None \notin Objects

VARIABLES
  config,        \* the configuration read: the references of each object
  plugin,        \* the plugin that has found the conflict
  objects,       \* Plugin.objects
  tagged,        \* VirtualWire.virtwire_tagged_vlans: found by their tag only
  dependencies,  \* Plugin.dependencies
  phase,         \* "build", then "comment" and "commented", or "delete" and
                 \* "deleted"; "failed" after an exception
  todo,          \* objects the loop of the phase has still to visit
  stack,         \* calls of visit() that have not returned: object and children left
  visited,       \* `visited` of the dfs() that runs
  comments,      \* <<c, p>>: a comment at c says that it depends on p
  kept,          \* objects of the mutable configuration
  refs,          \* their references
  target,        \* the object deleted last
  related,       \* its dependents that are still to be resolved
  edited         \* objects in which a field was set

conflict == <<config, plugin, objects, tagged>>
traversal == <<stack, visited>>
mutable == <<kept, refs, target, related, edited>>
vars == <<conflict, dependencies, phase, todo, traversal, comments, mutable>>

Phases == {"build", "comment", "commented", "delete", "deleted", "failed"}

-----------------------------------------------------------------------------

\* The types a plugin looks for.
Types ==
  [CGNAT |-> {"sys_feature-module_cgnat", "ltm_lsn-pool", "ltm_profile_pcp", "ltm_virtual"},
   PEM |-> {"pem", "pem_profile", "ltm_rule", "sys_provision_pem"},
   SPDAG |-> {"net_vlan"},
   SPVA |-> {"security_dos_network-whitelist"},
   TRUNK |-> {"net_trunk"},
   VirtualWire |-> {"net_vlan-group", "net_vlan", "net_interface"},
   VlanGroup |-> {"net_vlan-group"},
   WildcardWhitelist |-> {"security_dos_network-whitelist"}]

\* Of these types every object is one of the conflict's; of the others those
\* with a certain field or value.
Whole ==
  {"ltm_lsn-pool", "ltm_profile_pcp", "pem", "pem_profile", "net_trunk"}

HasField(field, o) == \E r \in config[o] : r[1] = field

Candidates(p) == {o \in Objects : TypeOf[o] \in Types[p]}

\* Whether set S of candidates may be what plugin p finds.
MayFind(p, S) ==
  \A o \in Candidates(p) :
    /\ TypeOf[o] \in Whole => o \in S
    /\ p = "VlanGroup" => o \in S
    /\ p = "SPVA" => (o \in S <=> HasField("address-list", o))
    /\ p = "WildcardWhitelist" /\ HasField("extended-entries.source.vlans", o) => o \in S

\* Mutant: get_dependencies in place of get_dependents.
ChildrenForward(o) ==
  IF plugin = "SPVA" \/ phase = "build" THEN DependsOn(config, o) ELSE Dependents(config, o)

\* The map that a traversal follows: SPVA builds its dependencies forward.
Children(o) == IF plugin = "SPVA" THEN DependsOn(config, o) ELSE Dependents(config, o)

\* A plugin that finds no object has no conflict.
Init ==
  /\ config \in Configurations
  /\ plugin \in Plugins
  /\ objects \in {S \in SUBSET Candidates(plugin) : S # {} /\ MayFind(plugin, S)}
  /\ tagged \in SUBSET {o \in objects : plugin = "VirtualWire" /\ TypeOf[o] = "net_vlan"}
  /\ dependencies = {}
  /\ phase = "build"
  /\ todo = objects
  /\ stack = <<>>
  /\ visited = {}
  /\ comments = {}
  /\ kept = Objects
  /\ refs = config
  /\ target = None
  /\ related = {}
  /\ edited = {}

-----------------------------------------------------------------------------
(* DependencyMap.dfs                                                         *)

Traversing == phase \in {"build", "comment"}

\* Mutant: the comment names the type of the parent.
ReportTypes(parent, child) ==
  IF phase = "build"
  THEN dependencies' = dependencies \cup {child} /\ UNCHANGED comments
  ELSE comments' = comments \cup {<<child, TypeOf[parent]>>} /\ UNCHANGED dependencies

\* What `func` does for a child that is reached from parent.
Report(parent, child) ==
  IF phase = "build"
  THEN dependencies' = dependencies \cup {child} /\ UNCHANGED comments
  ELSE comments' = comments \cup {<<child, parent>>} /\ UNCHANGED dependencies

BeginTraversal(o) ==
  /\ Traversing
  /\ stack = <<>>
  /\ o \in todo
  /\ todo' = todo \ {o}
  /\ visited' = {o}
  /\ stack' = <<[object |-> o, left |-> Children(o)]>>
  /\ UNCHANGED <<conflict, dependencies, phase, comments, mutable>>

\* The top call of visit() with `child` taken from the children it has left.
WithoutChild(child) == [stack EXCEPT ![Len(stack)].left = @ \ {child}]

\* Mutant: the children of a child are not visited.
VisitDirect(child) ==
  /\ Traversing
  /\ stack # <<>>
  /\ child \in stack[Len(stack)].left
  /\ stack' = WithoutChild(child)
  /\ visited' = visited \cup {child}
  /\ Report(stack[Len(stack)].object, child)
  /\ UNCHANGED <<conflict, phase, todo, mutable>>
Visit(child) ==
  /\ Traversing
  /\ stack # <<>>
  /\ child \in stack[Len(stack)].left
  /\ \/ /\ child \in visited
        /\ stack' = WithoutChild(child)
        /\ UNCHANGED <<visited, dependencies, comments>>
     \/ /\ child \notin visited
        /\ Report(stack[Len(stack)].object, child)
        /\ visited' = visited \cup {child}
        /\ stack' = Append(WithoutChild(child), [object |-> child, left |-> Children(child)])
  /\ UNCHANGED <<conflict, phase, todo, mutable>>

Return ==
  /\ Traversing
  /\ stack # <<>>
  /\ stack[Len(stack)].left = {}
  /\ stack' = SubSeq(stack, 1, Len(stack) - 1)
  /\ UNCHANGED <<conflict, dependencies, phase, todo, visited, comments, mutable>>

-----------------------------------------------------------------------------

Built == phase = "build" /\ stack = <<>> /\ todo = {}

\* VirtualWire.generate_object_info names the file of the object it has looked
\* up last, which is unbound if it has found vlans by their tag alone.
InfoRaises ==
  /\ Built
  /\ objects = tagged
  /\ phase' = "failed"
  /\ UNCHANGED <<conflict, dependencies, todo, traversal, comments, mutable>>

\* Plugin.__init__ is done and a mitigation is rendered: comment_only, or the
\* one that deletes.  SPVA has no comments on dependents.
RenderComments ==
  /\ Built
  /\ objects # tagged
  /\ phase' = "comment"
  /\ todo' = IF plugin = "SPVA" THEN {} ELSE objects
  /\ UNCHANGED <<conflict, dependencies, traversal, comments, mutable>>

RenderDeletion ==
  /\ Built
  /\ objects # tagged
  /\ phase' = "delete"
  /\ todo' = CASE plugin = "SPVA" -> objects \cup dependencies
               [] plugin = "PEM"  -> {o \in objects : TypeOf[o] # "sys_provision_pem"}
               [] OTHER           -> objects
  /\ UNCHANGED <<conflict, dependencies, traversal, comments, mutable>>

Commented ==
  /\ phase = "comment"
  /\ stack = <<>> /\ todo = {}
  /\ phase' = "commented"
  /\ UNCHANGED <<conflict, dependencies, todo, traversal, comments, mutable>>

-----------------------------------------------------------------------------
(* Plugin.delete_objects, Pem.adjust_objects and SPVA.delete_objects         *)

DeleteWithDependents(o) ==
  /\ kept' = kept \ {o}
  /\ target' = o
  /\ related' = Dependents(config, o)
  /\ UNCHANGED refs

\* SPVA deletes an object's field address-list, or the object if it has none.
DeleteSpva(o) ==
  /\ IF HasField("address-list", o)
     THEN /\ refs' = [refs EXCEPT ![o] = {r \in @ : r[1] # "address-list"}]
          /\ UNCHANGED kept
     ELSE /\ kept' = kept \ {o}
          /\ UNCHANGED refs
  /\ UNCHANGED <<target, related>>

\* fields.get raises KeyError for an object that is gone.
DeleteObject(o) ==
  /\ phase = "delete"
  /\ target = None
  /\ o \in todo
  /\ todo' = todo \ {o}
  /\ IF o \in kept
     THEN /\ IF plugin = "SPVA" THEN DeleteSpva(o) ELSE DeleteWithDependents(o)
          /\ UNCHANGED phase
     ELSE /\ phase' = "failed"
          /\ UNCHANGED <<kept, refs, target, related>>
  /\ UNCHANGED <<conflict, dependencies, traversal, comments, edited>>

\* Mutant: resolutions are looked up under (parent, child).
ApplyResolutionSwapped(c) ==
  /\ phase = "delete"
  /\ c \in related
  /\ related' = related \ {c}
  /\ kept' = IF DeletesObject(config, target, c) THEN kept \ {c} ELSE kept
  /\ refs' = [refs EXCEPT ![c] = @ \ Removed(config, target, c)]
  /\ UNCHANGED <<conflict, dependencies, phase, todo, traversal, comments, target, edited>>

\* Mutant: the KeyError is caught outside the loop over dependents.
ApplyResolutionStops(c) ==
  /\ phase = "delete"
  /\ c \in related
  /\ related' = IF c \in kept THEN related \ {c} ELSE {}
  /\ kept' = IF DeletesObject(config, c, target) THEN kept \ {c} ELSE kept
  /\ refs' = [refs EXCEPT ![c] = @ \ Removed(config, c, target)]
  /\ UNCHANGED <<conflict, dependencies, phase, todo, traversal, comments, target, edited>>

\* apply_resolution: what it does not find any more it leaves alone.
ApplyResolution(c) ==
  /\ phase = "delete"
  /\ c \in related
  /\ related' = related \ {c}
  /\ kept' = IF DeletesObject(config, c, target) THEN kept \ {c} ELSE kept
  /\ refs' = [refs EXCEPT ![c] = @ \ Removed(config, c, target)]
  /\ UNCHANGED <<conflict, dependencies, phase, todo, traversal, comments, target, edited>>

NextObject ==
  /\ phase = "delete"
  /\ target # None
  /\ related = {}
  /\ target' = None
  /\ UNCHANGED <<conflict, dependencies, phase, todo, traversal, comments, kept, refs,
                 related, edited>>

Finished == phase = "delete" /\ target = None /\ todo = {}

\* The objects SPVA may set the compatibility level in: one of them, whichever
\* comes first.  Without any it raises.
Levels == {o \in Objects : TypeOf[o] = "sys_compatibility-level" /\ HasField("level", o)}

LevelMissing ==
  /\ Finished
  /\ plugin = "SPVA" /\ Levels = {}
  /\ phase' = "failed"
  /\ UNCHANGED <<conflict, dependencies, todo, traversal, comments, mutable>>

\* PEM sets the level of provisioning.
Deleted ==
  /\ Finished
  /\ \/ plugin = "SPVA" /\ \E o \in Levels : edited' = {o}
     \/ plugin # "SPVA" /\ edited' = {o \in objects : TypeOf[o] = "sys_provision_pem"}
  /\ phase' = "deleted"
  /\ UNCHANGED <<conflict, dependencies, todo, traversal, comments, kept, refs, target,
                 related>>

Next ==
  \/ \E o \in Objects :
       BeginTraversal(o) \/ Visit(o) \/ DeleteObject(o) \/ ApplyResolution(o)
  \/ Return \/ InfoRaises \/ RenderComments \/ RenderDeletion \/ Commented
  \/ NextObject \/ LevelMissing \/ Deleted

Spec == Init /\ [][Next]_vars

-----------------------------------------------------------------------------
(* Properties                                                                *)

\* Every variable has its type: what is found, commented on, deleted or edited
\* are ids of objects.
TypeOK ==
  /\ config \in [Objects -> SUBSET References]
  /\ plugin \in Plugins
  /\ objects \subseteq Objects
  /\ tagged \subseteq objects
  /\ dependencies \subseteq Objects
  /\ phase \in Phases
  /\ todo \subseteq Objects
  /\ stack \in Seq([object : Objects, left : SUBSET Objects])
  /\ visited \subseteq Objects
  /\ comments \subseteq Objects \X Objects
  /\ kept \subseteq Objects
  /\ refs \in [Objects -> SUBSET References]
  /\ target \in Objects \cup {None}
  /\ related \subseteq Objects
  /\ edited \subseteq Objects

\* Plugin.all_objects.
AllObjects == objects \cup dependencies

\* The traversals find what depends on the conflict's objects and no more, in
\* whatever order the sets are walked: what they find is closed, each element
\* has a parent among the others or the objects, and the comments are at the
\* same objects, each naming one it directly depends on.
TraversalExact ==
  /\ Built =>
       /\ \A o \in AllObjects : Children(o) \subseteq AllObjects
       /\ \A c \in dependencies : \E p \in AllObjects : c \in Children(p)
  /\ phase = "commented" =>
       /\ plugin # "SPVA" => dependencies = {t[1] : t \in comments}
       /\ \A t \in comments : t[1] \in Dependents(config, t[2])

\* No mitigation meets an object of its conflict that the resolution of another
\* one has already deleted (Plugin.delete_objects would end in a KeyError).
\* What does fail is SPVA without a compatibility level to set, and VirtualWire
\* on vlans found by their tag alone.
NeverFails ==
  phase = "failed" =>
    \/ plugin = "SPVA" /\ Levels = {}
    \/ plugin = "VirtualWire" /\ objects = tagged

\* What a mitigation makes of the configuration does not depend on the order in
\* which Plugin.delete_objects deletes objects and resolves dependents: only its
\* objects and their direct dependents change, and by every resolution there is.
OrderIrrelevant ==
  phase = "deleted" /\ plugin # "SPVA" =>
    LET gone == {o \in objects : TypeOf[o] # "sys_provision_pem"}
    IN /\ kept = {o \in Objects \ gone : \A p \in gone : ~DeletesObject(config, o, p)}
       /\ \A o \in kept :
            refs[o] = {r \in config[o] : \A p \in gone : r \notin Removed(config, o, p)}

\* Nothing that is left refers to an object of the conflict that was deleted
\* (BaseDependency.get_resolve: "so that the dependency ... disappears").
NothingRefersToDeleted ==
  phase = "deleted" /\ plugin # "SPVA" =>
    \A c \in kept, p \in objects \ kept : Dependencies(c, refs[c], p) = {}

\* Whatever a mitigation changes or comments on is in a file that is written:
\* Plugin.render_files takes those of the objects and of what was found to
\* depend on them.  SPVA's compatibility level is not among them.
ChangedIsRendered ==
  phase \in {"commented", "deleted"} /\ plugin # "SPVA" =>
    \A o \in Objects :
      \/ o \notin kept \/ refs[o] # config[o]
      \/ o \in edited \/ \E t \in comments : t[1] = o
      => FileOf[o] \in {FileOf[x] : x \in AllObjects}

==============================================================================
