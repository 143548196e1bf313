------------------------ MODULE ConflictPlugin_proofs ------------------------
(* What module ConflictPlugin promises of traversals and of deletion, for    *)
(* every configuration.                                                      *)
EXTENDS ConflictPlugin, SequenceTheorems, TLAPS

\* The objects of the conflict that the mitigation is to delete.
Gone == {o \in objects : TypeOf[o] # "sys_provision_pem"}

\* What there is to resolve at c for the deletion of p has been resolved.
Resolved(c, p) == p \in Gone \ todo /\ (p = target => c \notin related)

\* Plugins find objects of their types, and only VirtualWire finds by tag.
Found ==
  /\ objects \subseteq Candidates(plugin)
  /\ objects # {}
  /\ tagged # {} => plugin = "VirtualWire"

Untouched ==
  phase \in {"build", "comment", "commented"} =>
    kept = Objects /\ refs = config /\ target = None /\ related = {}

Order ==
  /\ todo \subseteq Gone
  /\ target = None => related = {}
  /\ target # None => target \in Gone \ todo

KeptSoFar ==
  \A o \in Objects :
    o \in kept <=> /\ o \notin Gone \ todo
                   /\ \A p \in Objects : Resolved(o, p) => ~DeletesObject(config, o, p)

RefsSoFar ==
  \A o \in Objects :
    refs[o] = {r \in config[o] :
                 \A p \in Objects : Resolved(o, p) => r \notin Removed(config, o, p)}

\* Deletion after some objects: what is kept is a function of which objects
\* were deleted and which of their dependents resolved.
Progress ==
  phase \in {"delete", "deleted"} /\ plugin # "SPVA" => Order /\ KeptSoFar /\ RefsSoFar

\* SPVA deletes each object once and resolves nothing.
SpvaProgress ==
  phase = "delete" /\ plugin = "SPVA" => target = None /\ related = {} /\ todo \subseteq kept

AtEnd == phase = "deleted" => todo = {} /\ target = None

\* A step that changes nothing Order, KeptSoFar and RefsSoFar speak of.
UnchangedProgress ==
  Order /\ KeptSoFar /\ RefsSoFar => (Order /\ KeptSoFar /\ RefsSoFar)'

Inv == TypeOK /\ Found /\ Untouched /\ Progress /\ SpvaProgress /\ AtEnd /\ NeverFails

-----------------------------------------------------------------------------
(* The table *)

\* Every row has one of three resolutions; one that goes by the name of the
\* object that refers deletes that object.
LEMMA RowKinds ==
  \A d \in DEFAULT_DEPENDENCIES :
    /\ d.resolution \in {"reference", "object", "collection"}
    /\ d.field = "name" => d.resolution = "object"
BY DEF DEFAULT_DEPENDENCIES, Dependency

\* An object that goes with another one is never looked for by a plugin that
\* looks for the other.
LEMMA ObjectRows ==
  ASSUME NEW d \in DEFAULT_DEPENDENCIES, d.resolution = "object",
         NEW pl \in Plugins, NEW c \in Types[pl], NEW p \in Types[pl],
         c \in d.children, p \in d.parents
  PROVE  FALSE
<1>1. \/ d.children = {"net_fdb_vlan"}
      \/ d.children = {"net_self"}
      \/ d.children = {"ltm_virtual"} /\ d.parents = {"pem_profile"}
      \/ /\ d.children = {"security_dos_network-whitelist"}
         /\ d.parents = {"net_address-list", "security_firewall_address-list",
                         "security_shared-objects_address-list"}
  BY DEF DEFAULT_DEPENDENCIES, Dependency
<1> QED
  BY <1>1 DEF Plugins, Types

\* No row deletes the object that sets the level of provisioning.
LEMMA ProvisionRows ==
  \A d \in DEFAULT_DEPENDENCIES : "sys_provision_pem" \notin d.children
BY DEF DEFAULT_DEPENDENCIES, Dependency

LEMMA DependenciesInTable ==
  ASSUME NEW c \in Objects, NEW S, NEW p \in Objects
  PROVE  \A d \in Dependencies(c, S, p) :
           /\ d \in DEFAULT_DEPENDENCIES
           /\ TypeOf[c] \in d.children /\ TypeOf[p] \in d.parents
BY DEF Dependencies, Rows

\* No object of a conflict is deleted by the resolution of another.
LEMMA NoMutualDeletion ==
  ASSUME NEW pl \in Plugins, NEW conf, NEW c \in Candidates(pl), NEW p \in Candidates(pl)
  PROVE  ~DeletesObject(conf, c, p)
BY DependenciesInTable, ObjectRows DEF DeletesObject, Candidates

\* Nothing is resolved at an object that is not a dependent.
LEMMA NotDependent ==
  ASSUME NEW conf, NEW c \in Objects, NEW p \in Objects, c \notin Dependents(conf, p)
  PROVE  ~DeletesObject(conf, c, p) /\ Removed(conf, c, p) = {}
BY DEF Dependents, DeletesObject, Removed

-----------------------------------------------------------------------------
(* Types *)

LEMMA ChildrenObjects ==
  \A o : Children(o) \subseteq Objects /\ Dependents(config, o) \subseteq Objects
BY DEF Children, Dependents, DependsOn

LEMMA LastAndFront ==
  ASSUME NEW S, NEW s \in Seq(S), s # <<>>
  PROVE  /\ Len(s) \in 1..Len(s)
         /\ s[Len(s)] \in S
         /\ SubSeq(s, 1, Len(s) - 1) \in Seq(S)
<1>1. Len(s) \in Nat /\ Len(s) # 0
  BY EmptySeq
<1>2. \A i \in 1..Len(s) : s[i] \in S
  BY ElementOfSeq
<1> QED
  BY <1>1, <1>2, SubSeqProperties

LEMMA TypeInit == Init => TypeOK
BY PluginAssumption, EmptySeq DEF Init, TypeOK, Candidates, Phases

LEMMA TypeStep == TypeOK /\ [Next]_vars => TypeOK'
<1> SUFFICES ASSUME TypeOK, [Next]_vars PROVE TypeOK'
  OBVIOUS
<1> DEFINE Frame == [object : Objects, left : SUBSET Objects]
<1> USE DEF TypeOK, Phases, conflict, traversal, mutable
<1>1. ASSUME NEW o \in Objects, BeginTraversal(o) PROVE TypeOK'
  <2>1. [object |-> o, left |-> Children(o)] \in Frame
    BY ChildrenObjects
  <2>2. stack' \in Seq(Frame)
    BY <1>1, <2>1 DEF BeginTraversal
  <2> QED
    BY <1>1, <2>2 DEF BeginTraversal
<1>2. ASSUME NEW o \in Objects, Visit(o) PROVE TypeOK'
  <2>1. stack \in Seq(Frame) /\ stack # <<>>
    BY <1>2 DEF Visit
  <2>2. Len(stack) \in 1..Len(stack) /\ stack[Len(stack)] \in Frame
    <3> HIDE DEF Frame
    <3> QED
      BY <2>1, LastAndFront
  <2> DEFINE frame == [stack[Len(stack)] EXCEPT !.left = @ \ {o}]
  <2>3. WithoutChild(o) \in Seq(Frame)
    <3>1. frame \in Frame
      BY <2>2
    <3>2. WithoutChild(o) = [stack EXCEPT ![Len(stack)] = frame]
      BY DEF WithoutChild
    <3> HIDE DEF frame, Frame
    <3> QED
      BY <2>1, <2>2, <3>1, <3>2, ExceptSeq
  <2>4. CASE o \in visited
    BY <1>2, <2>3, <2>4 DEF Visit
  <2>5. CASE o \notin visited
    <3>1. [object |-> o, left |-> Children(o)] \in Frame
      BY ChildrenObjects
    <3>2. stack' \in Seq(Frame)
      <4>1. stack' = Append(WithoutChild(o), [object |-> o, left |-> Children(o)])
        BY <1>2, <2>5 DEF Visit
      <4> HIDE DEF Frame
      <4> QED
        BY <4>1, <2>3, <3>1, AppendProperties
    <3>3. stack[Len(stack)].object \in Objects
      BY <2>2
    <3>4. Report(stack[Len(stack)].object, o)
      BY <1>2, <2>5 DEF Visit
    <3>5. dependencies' \subseteq Objects /\ comments' \subseteq Objects \X Objects
      BY <3>3, <3>4 DEF Report
    <3> QED
      BY <1>2, <2>5, <3>2, <3>5 DEF Visit
  <2> QED
    BY <2>4, <2>5
<1>3. CASE Return
  <2>1. stack \in Seq(Frame) /\ stack # <<>> /\ stack' = SubSeq(stack, 1, Len(stack) - 1)
    BY <1>3 DEF Return
  <2>2. stack' \in Seq(Frame)
    <3> HIDE DEF Frame
    <3> QED
      BY <2>1, LastAndFront
  <2> QED
    BY <1>3, <2>2 DEF Return
<1>4. CASE InfoRaises
  BY <1>4 DEF InfoRaises
<1>5. CASE RenderComments
  BY <1>5 DEF RenderComments
<1>6. CASE RenderDeletion
  BY <1>6 DEF RenderDeletion
<1>7. CASE Commented
  BY <1>7 DEF Commented
<1>8. ASSUME NEW o \in Objects, DeleteObject(o) PROVE TypeOK'
  <2>1. refs' \in [Objects -> SUBSET References] /\ kept' \subseteq Objects
    BY <1>8 DEF DeleteObject, DeleteSpva, DeleteWithDependents
  <2>2. target' \in Objects \cup {None} /\ related' \subseteq Objects
    BY <1>8, ChildrenObjects DEF DeleteObject, DeleteSpva, DeleteWithDependents
  <2> QED
    BY <1>8, <2>1, <2>2 DEF DeleteObject
<1>9. ASSUME NEW o \in Objects, ApplyResolution(o) PROVE TypeOK'
  BY <1>9 DEF ApplyResolution
<1>10. CASE NextObject
  BY <1>10 DEF NextObject
<1>11. CASE LevelMissing
  BY <1>11 DEF LevelMissing
<1>12. CASE Deleted
  BY <1>12 DEF Deleted, Levels
<1>13. CASE UNCHANGED vars
  BY <1>13 DEF vars
<1> QED
  BY <1>1, <1>2, <1>3, <1>4, <1>5, <1>6, <1>7, <1>8, <1>9, <1>10, <1>11, <1>12, <1>13 DEF Next

-----------------------------------------------------------------------------
(* Deletion *)

LEMMA GoneAll == Found /\ plugin \in Plugins /\ plugin # "PEM" => Gone = objects
BY DEF Found, Gone, Candidates, Plugins, Types

\* What is to be deleted is not deleted by a resolution.
LEMMA GoneNotDeleted ==
  ASSUME TypeOK, Found, NEW c \in Gone, NEW p \in Gone
  PROVE  ~DeletesObject(config, c, p)
BY NoMutualDeletion DEF TypeOK, Found, Gone

LEMMA DeletionBegins ==
  ASSUME Inv, RenderDeletion PROVE Progress' /\ SpvaProgress'
<1> USE DEF Inv, conflict, traversal, mutable
<1>1. /\ kept' = Objects /\ refs' = config /\ target' = None /\ related' = {}
      /\ config' = config /\ plugin' = plugin /\ objects' = objects
  BY DEF RenderDeletion, Built, Untouched
<1>2. SpvaProgress'
  BY <1>1 DEF RenderDeletion, SpvaProgress, TypeOK
<1>3. ASSUME plugin # "SPVA" PROVE Order' /\ KeptSoFar' /\ RefsSoFar'
  <2>1. todo' = Gone /\ Gone' = Gone
    BY <1>1, <1>3, GoneAll DEF RenderDeletion, TypeOK, Gone
  <2>2. \A c, p : ~Resolved(c, p)'
    BY <2>1 DEF Resolved
  <2>3. Order'
    BY <1>1, <2>1 DEF Order
  <2>4. KeptSoFar'
    BY <1>1, <2>1, <2>2 DEF KeptSoFar
  <2>5. RefsSoFar'
    BY <1>1, <2>2 DEF RefsSoFar
  <2> QED
    BY <2>3, <2>4, <2>5
<1> QED
  BY <1>1, <1>2, <1>3 DEF Progress

\* Deleting an object finds it, and leaves its dependents to be resolved.
LEMMA ObjectDeleted ==
  ASSUME NEW o \in Objects, TypeOK, Found, Progress, SpvaProgress, DeleteObject(o)
  PROVE  Progress' /\ SpvaProgress' /\ phase' = "delete"
<1> USE DEF conflict, traversal, mutable
<1>1. /\ phase = "delete" /\ target = None /\ o \in todo /\ todo' = todo \ {o}
      /\ config' = config /\ plugin' = plugin /\ objects' = objects
  BY DEF DeleteObject
<1>2. CASE plugin = "SPVA"
  <2>1. o \in kept
    BY <1>1, <1>2 DEF SpvaProgress
  <2>2. DeleteSpva(o) /\ phase' = phase
    BY <1>2, <2>1 DEF DeleteObject
  <2>3. target' = target /\ related' = related /\ kept \ {o} \subseteq kept'
    BY <2>2 DEF DeleteSpva
  <2> QED
    BY <1>1, <1>2, <2>2, <2>3 DEF Progress, SpvaProgress
<1>3. CASE plugin # "SPVA"
  <2>1. Order /\ KeptSoFar /\ RefsSoFar
    BY <1>1, <1>3 DEF Progress
  <2>2. o \in Gone /\ o \in kept
    <3>1. o \in Gone /\ o \notin Gone \ todo
      BY <1>1, <2>1 DEF Order
    <3>2. \A p \in Objects : Resolved(o, p) => ~DeletesObject(config, o, p)
      BY <3>1, GoneNotDeleted DEF Resolved
    <3> QED
      BY <3>1, <3>2, <2>1 DEF KeptSoFar
  <2>3. /\ phase' = phase /\ kept' = kept \ {o} /\ refs' = refs
        /\ target' = o /\ related' = Dependents(config, o)
    BY <1>3, <2>2 DEF DeleteObject, DeleteWithDependents
  <2>4. Gone' = Gone /\ Gone \ todo' = (Gone \ todo) \cup {o}
    BY <1>1, <2>2 DEF Gone
  <2>5. \A c, p \in Objects :
          Resolved(c, p)' <=> Resolved(c, p) \/ (p = o /\ c \notin Dependents(config, o))
    BY <1>1, <2>3, <2>4, <2>2, PluginAssumption DEF Resolved
  <2>6. \A c, p \in Objects :
          Resolved(c, p)' => \/ Resolved(c, p)
                             \/ ~DeletesObject(config, c, p) /\ Removed(config, c, p) = {}
    BY <2>5, NotDependent
  <2>7. Order'
    BY <1>1, <2>1, <2>2, <2>3, <2>4, PluginAssumption DEF Order
  <2>8. KeptSoFar'
    BY <1>1, <2>1, <2>3, <2>4, <2>5, <2>6 DEF KeptSoFar
  <2>9. RefsSoFar'
    <3>1. ASSUME NEW c \in Objects
          PROVE  refs[c] = {r \in config[c] :
                   \A p \in Objects : Resolved(c, p)' => r \notin Removed(config, c, p)}
      <4>1. refs[c] = {r \in config[c] :
                   \A p \in Objects : Resolved(c, p) => r \notin Removed(config, c, p)}
        BY <2>1 DEF RefsSoFar
      <4>2. ASSUME NEW r
            PROVE  (\A p \in Objects : Resolved(c, p) => r \notin Removed(config, c, p))
                   <=> (\A p \in Objects : Resolved(c, p)' => r \notin Removed(config, c, p))
        BY <2>5, <2>6
      <4> QED
        BY <4>1, <4>2
    <3> QED
      BY <1>1, <2>3, <3>1 DEF RefsSoFar
  <2> QED
    BY <1>1, <1>3, <2>3, <2>7, <2>8, <2>9 DEF Progress, SpvaProgress
<1> QED
  BY <1>2, <1>3

LEMMA OneResolved ==
  ASSUME NEW c \in Objects, TypeOK, Progress, SpvaProgress, ApplyResolution(c)
  PROVE  Progress' /\ SpvaProgress'
<1> USE DEF conflict, traversal, mutable
<1>1. /\ phase = "delete" /\ phase' = phase /\ c \in related /\ related' = related \ {c}
      /\ config' = config /\ plugin' = plugin /\ objects' = objects
      /\ todo' = todo /\ target' = target
  BY DEF ApplyResolution
<1>2. plugin # "SPVA" /\ Order /\ KeptSoFar /\ RefsSoFar /\ target \in Gone \ todo
  BY <1>1 DEF Progress, SpvaProgress, Order
<1>3. Gone' = Gone
  BY <1>1 DEF Gone
<1>4. target \in Objects
  BY <1>2 DEF Gone, TypeOK
<1>5. \A x, p \in Objects : Resolved(x, p)' <=> Resolved(x, p) \/ (x = c /\ p = target)
  BY <1>1, <1>2, <1>3 DEF Resolved
<1>6. Order'
  BY <1>1, <1>2, <1>3 DEF Order
<1>7. KeptSoFar'
  <2>1. \A x \in Objects :
          x \in kept' <=> x \in kept /\ (x = c => ~DeletesObject(config, c, target))
    BY DEF ApplyResolution
  <2> QED
    BY <1>1, <1>2, <1>3, <1>4, <1>5, <2>1 DEF KeptSoFar
<1>8. RefsSoFar'
  <2>1. refs' = [refs EXCEPT ![c] = @ \ Removed(config, c, target)]
    BY DEF ApplyResolution
  <2>2. \A x \in Objects : refs'[x] = IF x = c THEN refs[x] \ Removed(config, c, target) ELSE refs[x]
    BY <2>1 DEF TypeOK
  <2>3. ASSUME NEW x \in Objects
        PROVE  refs'[x] = {r \in config[x] :
                 \A p \in Objects : Resolved(x, p)' => r \notin Removed(config, x, p)}
    <3>1. refs[x] = {r \in config[x] :
                 \A p \in Objects : Resolved(x, p) => r \notin Removed(config, x, p)}
      BY <1>2 DEF RefsSoFar
    <3>2. CASE x = c
      BY <3>1, <3>2, <2>2, <1>4, <1>5
    <3>3. CASE x # c
      BY <3>1, <3>3, <2>2, <1>5
    <3> QED
      BY <3>2, <3>3
  <2> QED
    BY <2>3, <1>1 DEF RefsSoFar
<1> QED
  BY <1>1, <1>2, <1>6, <1>7, <1>8 DEF Progress, SpvaProgress

LEMMA InvInit == Init => Inv
<1> SUFFICES ASSUME Init PROVE Inv
  OBVIOUS
<1>1. TypeOK
  BY TypeInit
<1>2. Found
  BY DEF Init, Found
<1>3. Untouched /\ Progress /\ SpvaProgress /\ AtEnd /\ NeverFails
  BY DEF Init, Untouched, Progress, SpvaProgress, AtEnd, NeverFails
<1> QED
  BY <1>1, <1>2, <1>3 DEF Inv

LEMMA InvStep == Inv /\ [Next]_vars => Inv'
<1> SUFFICES ASSUME Inv, [Next]_vars PROVE Inv'
  OBVIOUS
<1> USE DEF conflict, traversal, mutable
<1>1. TypeOK'
  BY TypeStep DEF Inv
<1>2. config' = config /\ plugin' = plugin /\ objects' = objects /\ tagged' = tagged
  BY DEF Next, vars, BeginTraversal, Visit, Return, InfoRaises, RenderComments,
         RenderDeletion, Commented, DeleteObject, ApplyResolution, NextObject, LevelMissing,
         Deleted
<1>3. Found' /\ Levels' = Levels
  BY <1>2 DEF Inv, Found, Candidates, Levels, HasField
<1> DEFINE Rest == Untouched /\ Progress /\ SpvaProgress /\ AtEnd /\ NeverFails
<1>4. ASSUME phase \in {"build", "comment"}, phase' \in {"build", "comment", "commented"},
             UNCHANGED mutable
      PROVE  Rest'
  BY <1>2, <1>4 DEF Inv, Untouched, Progress, SpvaProgress, AtEnd, NeverFails
<1>5. ASSUME NEW o \in Objects, BeginTraversal(o) PROVE Rest'
  BY <1>4, <1>5 DEF BeginTraversal, Traversing
<1>6. ASSUME NEW o \in Objects, Visit(o) PROVE Rest'
  BY <1>4, <1>6 DEF Visit, Traversing
<1>7. ASSUME Return PROVE Rest'
  BY <1>4, <1>7 DEF Return, Traversing
<1>8. ASSUME InfoRaises PROVE Rest'
  <2>1. phase' = "failed" /\ objects = tagged
    BY <1>8 DEF InfoRaises
  <2>2. plugin = "VirtualWire"
    BY <2>1 DEF Inv, Found
  <2> QED
    BY <1>2, <2>1, <2>2 DEF Inv, Untouched, Progress, SpvaProgress, AtEnd, NeverFails
<1>9. ASSUME RenderComments PROVE Rest'
  BY <1>4, <1>9 DEF RenderComments, Built
<1>10. ASSUME Commented PROVE Rest'
  BY <1>4, <1>10 DEF Commented
<1>11. ASSUME RenderDeletion PROVE Rest'
  <2>1. phase' = "delete"
    BY <1>11 DEF RenderDeletion
  <2> QED
    BY <1>11, <2>1, DeletionBegins DEF Untouched, AtEnd, NeverFails
<1>12. ASSUME NEW o \in Objects, DeleteObject(o) PROVE Rest'
  <2>1. Progress' /\ SpvaProgress' /\ phase' = "delete"
    BY <1>12, ObjectDeleted DEF Inv
  <2> QED
    BY <2>1 DEF Untouched, AtEnd, NeverFails
<1>13. ASSUME NEW o \in Objects, ApplyResolution(o) PROVE Rest'
  <2>1. Progress' /\ SpvaProgress' /\ phase' = "delete"
    BY <1>13, OneResolved DEF Inv, ApplyResolution
  <2> QED
    BY <2>1 DEF Untouched, AtEnd, NeverFails
<1>14. ASSUME NextObject PROVE Rest'
  <2>1. /\ phase' = "delete" /\ plugin' = plugin /\ target' = None /\ related' = {}
        /\ target # None /\ related = {}
        /\ todo' = todo /\ kept' = kept /\ refs' = refs
    BY <1>14 DEF NextObject
  <2>2. plugin # "SPVA" /\ Order /\ KeptSoFar /\ RefsSoFar
    BY <1>14, <2>1 DEF Inv, NextObject, Progress, SpvaProgress
  <2>3. Gone' = Gone
    BY <1>2 DEF Gone
  <2>4. \A c, p : Resolved(c, p)' <=> Resolved(c, p)
    BY <2>1, <2>3 DEF Resolved
  <2>5. Order'
    BY <2>1, <2>2, <2>3 DEF Order
  <2>6. KeptSoFar'
    BY <1>2, <2>1, <2>2, <2>3, <2>4 DEF KeptSoFar
  <2>7. RefsSoFar'
    BY <1>2, <2>1, <2>2, <2>4 DEF RefsSoFar
  <2> QED
    BY <2>1, <2>2, <2>5, <2>6, <2>7
       DEF Untouched, Progress, SpvaProgress, AtEnd, NeverFails
<1>15. ASSUME LevelMissing PROVE Rest'
  BY <1>2, <1>3, <1>15
     DEF LevelMissing, Untouched, Progress, SpvaProgress, AtEnd, NeverFails
<1>16. ASSUME Deleted PROVE Rest'
  <2>1. /\ phase = "delete" /\ phase' = "deleted" /\ todo = {} /\ target = None
        /\ UNCHANGED <<conflict, todo, kept, refs, target, related>>
    BY <1>16 DEF Deleted, Finished
  <2>2. UnchangedProgress
    BY <2>1 DEF UnchangedProgress, Order, KeptSoFar, RefsSoFar, Resolved, Gone
  <2> QED
    BY <2>1, <2>2
       DEF Inv, UnchangedProgress, Untouched, Progress, SpvaProgress, AtEnd, NeverFails
<1>17. ASSUME UNCHANGED vars PROVE Rest'
  <2>1. UNCHANGED <<conflict, phase, todo, kept, refs, target, related>>
    BY <1>17 DEF vars
  <2>2. UnchangedProgress
    BY <2>1 DEF UnchangedProgress, Order, KeptSoFar, RefsSoFar, Resolved, Gone
  <2> QED
    BY <1>3, <2>1, <2>2
       DEF Inv, UnchangedProgress, Untouched, Progress, SpvaProgress, AtEnd, NeverFails
<1>18. Rest'
  <2> HIDE DEF Rest
  <2> QED
    BY <1>5, <1>6, <1>7, <1>8, <1>9, <1>10, <1>11, <1>12, <1>13, <1>14, <1>15, <1>16, <1>17
       DEF Next
<1> QED
  BY <1>1, <1>3, <1>18 DEF Inv

LEMMA Invariance == Spec => []Inv
BY InvInit, InvStep, PTL DEF Spec

-----------------------------------------------------------------------------
(* What a finished deletion has done *)

\* At the end every pair of an object and a deleted one has been resolved.
LEMMA AllResolved ==
  ASSUME Inv, phase = "deleted"
  PROVE  \A c, p \in Objects : Resolved(c, p) <=> p \in Gone
BY PluginAssumption DEF Inv, AtEnd, Resolved

LEMMA OrderIrrelevantAtEnd == Inv => OrderIrrelevant
<1> SUFFICES ASSUME Inv, phase = "deleted", plugin # "SPVA"
             PROVE  /\ kept = {o \in Objects \ Gone :
                                 \A p \in Gone : ~DeletesObject(config, o, p)}
                    /\ \A o \in kept :
                         refs[o] = {r \in config[o] :
                                      \A p \in Gone : r \notin Removed(config, o, p)}
  BY DEF OrderIrrelevant, Gone
<1>1. KeptSoFar /\ RefsSoFar /\ kept \subseteq Objects /\ todo = {}
  BY DEF Inv, Progress, TypeOK, AtEnd
<1>2. Gone \subseteq Objects
  BY DEF Inv, TypeOK, Gone
<1>3. kept = {o \in Objects \ Gone : \A p \in Gone : ~DeletesObject(config, o, p)}
  BY <1>1, <1>2, AllResolved DEF KeptSoFar
<1>4. ASSUME NEW o \in kept
      PROVE  refs[o] = {r \in config[o] : \A p \in Gone : r \notin Removed(config, o, p)}
  <2>1. refs[o] = {r \in config[o] :
                     \A p \in Objects : Resolved(o, p) => r \notin Removed(config, o, p)}
    BY <1>1 DEF RefsSoFar
  <2>2. o \in Objects
    BY <1>1
  <2> QED
    BY <1>2, <2>1, <2>2, AllResolved
<1> QED
  BY <1>3, <1>4

\* A row by which what is left of c would refer to p has been resolved.
LEMMA NoReferenceLeft ==
  ASSUME NEW c \in Objects, NEW p \in Objects, NEW S,
         S \subseteq config[c], S \cap Removed(config, c, p) = {},
         ~DeletesObject(config, c, p)
  PROVE  Dependencies(c, S, p) = {}
<1> SUFFICES ASSUME NEW d \in Dependencies(c, S, p) PROVE FALSE
  OBVIOUS
<1>1. d \in Rows[c][p] /\ d \in DEFAULT_DEPENDENCIES
  BY DependenciesInTable DEF Dependencies
<1>2. PICK value \in Values(d, c, S) : Means(d, value, p)
  BY DEF Dependencies
<1>3. value \in Values(d, c, config[c])
  BY <1>2 DEF Values
<1>4. d \in Dependencies(c, config[c], p)
  BY <1>1, <1>2, <1>3 DEF Dependencies
<1>5. d.resolution # "object"
  BY <1>4 DEF DeletesObject
<1>6. d.field # "name" /\ d.resolution \in {"reference", "collection"}
  BY <1>1, <1>5, RowKinds
<1>7. PICK r \in S : r[1] = d.field /\ r[2] = value
  BY <1>2, <1>6 DEF Values
<1>8. r \in Removed(config, c, p)
  BY <1>2, <1>4, <1>6, <1>7 DEF Removed
<1> QED
  BY <1>7, <1>8

LEMMA NothingLeftAtEnd == Inv => NothingRefersToDeleted
<1> SUFFICES ASSUME Inv, phase = "deleted", plugin # "SPVA",
                    NEW c \in kept, NEW p \in objects \ kept
             PROVE  Dependencies(c, refs[c], p) = {}
  BY DEF NothingRefersToDeleted
<1>1. KeptSoFar /\ RefsSoFar /\ c \in Objects /\ p \in Objects /\ todo = {}
  BY DEF Inv, Progress, TypeOK, AtEnd
<1>2. p \in Gone
  <2>1. PICK x \in Objects : p \in Gone \/ DeletesObject(config, p, x)
    BY <1>1 DEF KeptSoFar
  <2>2. CASE TypeOf[p] = "sys_provision_pem"
    <3>1. p \notin Gone
      BY <2>2 DEF Gone
    <3>2. PICK d \in Dependencies(p, config[p], x) : d.resolution = "object"
      BY <2>1, <3>1 DEF DeletesObject
    <3>3. d \in DEFAULT_DEPENDENCIES /\ TypeOf[p] \in d.children
      BY <1>1, DependenciesInTable
    <3> QED
      BY <2>2, <3>3, ProvisionRows
  <2>3. CASE TypeOf[p] # "sys_provision_pem"
    BY <2>3 DEF Gone
  <2> QED
    BY <2>2, <2>3
<1>3. Resolved(c, p)
  BY <1>1, <1>2, AllResolved
<1>4. ~DeletesObject(config, c, p)
  BY <1>1, <1>3 DEF KeptSoFar
<1>5. refs[c] \subseteq config[c] /\ refs[c] \cap Removed(config, c, p) = {}
  <2>1. refs[c] = {r \in config[c] :
                     \A x \in Objects : Resolved(c, x) => r \notin Removed(config, c, x)}
    BY <1>1 DEF RefsSoFar
  <2> QED
    BY <1>1, <1>3, <2>1
<1> QED
  BY <1>1, <1>4, <1>5, NoReferenceLeft

-----------------------------------------------------------------------------
(* The traversals                                                            *)

Closed(S) == \A o \in S : Children(o) \subseteq S

\* What can be reached from o: what is in every closed set with o in it.
Reached(o) == {c \in Objects : \A S \in SUBSET Objects : o \in S /\ Closed(S) => c \in S}

\* What traversals from S report, one per object: not the object it began with.
Finds(S) == UNION {Reached(o) \ {o} : o \in S}
Reachable == Finds(objects)

LEMMA FindsMore ==
  ASSUME NEW S, NEW o
  PROVE  Finds(S \cup {o}) = Finds(S) \cup (Reached(o) \ {o})
BY DEF Finds

LEMMA ReachedClosed ==
  ASSUME NEW o \in Objects
  PROVE  o \in Reached(o) /\ Reached(o) \subseteq Objects /\ Closed(Reached(o))
BY ChildrenObjects DEF Reached, Closed

LEMMA ReachedLeast ==
  ASSUME NEW o \in Objects, NEW S \in SUBSET Objects, o \in S, Closed(S)
  PROVE  Reached(o) \subseteq S
BY DEF Reached

\* What is reached, but for the beginning, is reached from something reached.
LEMMA ReachedFrom ==
  ASSUME NEW o \in Objects, NEW c \in Reached(o), c # o
  PROVE  \E p \in Reached(o) : c \in Children(p)
<1> SUFFICES ASSUME \A p \in Reached(o) : c \notin Children(p) PROVE FALSE
  OBVIOUS
<1>1. Closed(Reached(o) \ {c})
  BY ReachedClosed DEF Closed
<1>2. Reached(o) \subseteq Reached(o) \ {c}
  BY <1>1, ReachedClosed, ReachedLeast
<1> QED
  BY <1>2

\* The stack of the calls of visit().
On == {stack[i].object : i \in 1..Len(stack)}
Root == stack[1].object

\* The objects that have been reported in this phase.
Reported == IF phase = "build" THEN dependencies ELSE {t[1] : t \in comments}

\* In a traversal that has begun: what is visited is closed, but for the
\* children that calls on the stack have left.
Search ==
  /\ Root \in objects \ todo
  /\ On \subseteq visited /\ visited \subseteq Reached(Root)
  /\ \A o \in visited \ On : Children(o) \subseteq visited
  /\ \A i \in 1..Len(stack) :
       /\ stack[i].left \subseteq Children(stack[i].object)
       /\ Children(stack[i].object) \subseteq visited \cup stack[i].left
  /\ Reported = Finds(objects \ (todo \cup {Root})) \cup (visited \ {Root})

Between == Reported = Finds(objects \ todo)

\* SPVA does not traverse when it comments.
Underway ==
  /\ phase = "build" \/ (phase = "comment" /\ plugin # "SPVA") =>
       /\ todo \subseteq objects
       /\ stack # <<>> => Search
       /\ stack = <<>> => Between
  /\ phase = "comment" /\ plugin = "SPVA" => todo = {} /\ stack = <<>>
  /\ phase \notin {"build", "comment"} => stack = <<>>

Outcome ==
  /\ phase # "build" => dependencies = Reachable
  /\ phase = "commented" /\ plugin # "SPVA" => {t[1] : t \in comments} = Reachable
  /\ phase \notin {"comment", "commented"} \/ plugin = "SPVA" => comments = {}
  /\ \A t \in comments : t[1] \in Children(t[2])
  /\ plugin # "SPVA" => edited \subseteq objects

Traversed == Underway /\ Outcome

Frames == [object : Objects, left : SUBSET Objects]

LEMMA StackWithout ==
  ASSUME TypeOK, stack # <<>>, NEW c
  PROVE  /\ Len(stack) \in Nat \ {0} /\ WithoutChild(c) \in Seq(Frames) /\ Len(WithoutChild(c)) = Len(stack)
         /\ \A i \in 1..Len(stack) :
              /\ stack[i] \in Frames
              /\ WithoutChild(c)[i].object = stack[i].object
              /\ WithoutChild(c)[i].left = IF i = Len(stack) THEN stack[i].left \ {c} ELSE stack[i].left
<1>1. stack \in Seq(Frames)
  BY DEF TypeOK, Frames
<1>2. Len(stack) \in 1..Len(stack) /\ stack[Len(stack)] \in Frames /\ Len(stack) \in Nat \ {0}
  BY <1>1, LastAndFront
<1> DEFINE frame == [stack[Len(stack)] EXCEPT !.left = @ \ {c}]
<1>3. frame \in Frames
  BY <1>2 DEF Frames
<1>4. WithoutChild(c) = [stack EXCEPT ![Len(stack)] = frame]
  BY DEF WithoutChild
<1>5. frame.object = stack[Len(stack)].object /\ frame.left = stack[Len(stack)].left \ {c}
  BY <1>2 DEF Frames
<1> HIDE DEF frame, Frames
<1>6. \A i \in 1..Len(stack) : stack[i] \in Frames
  BY <1>1, ElementOfSeq
<1>7. WithoutChild(c) \in Seq(Frames) /\ Len(WithoutChild(c)) = Len(stack)
  BY <1>1, <1>2, <1>3, <1>4, ExceptSeq
<1>8. \A i \in 1..Len(stack) :
        WithoutChild(c)[i] = IF i = Len(stack) THEN frame ELSE stack[i]
  BY <1>1, <1>2, <1>3, <1>4, ExceptSeq
<1> QED
  BY <1>2, <1>5, <1>6, <1>7, <1>8

Pushed(c) == Append(WithoutChild(c), [object |-> c, left |-> Children(c)])

LEMMA StackPushed ==
  ASSUME TypeOK, stack # <<>>, NEW c \in Objects
  PROVE  /\ Pushed(c) # <<>> /\ Len(Pushed(c)) = Len(stack) + 1
         /\ \A i \in 1..Len(stack) :
              /\ Pushed(c)[i].object = stack[i].object
              /\ Pushed(c)[i].left =
                   IF i = Len(stack) THEN stack[i].left \ {c} ELSE stack[i].left
         /\ Pushed(c)[Len(stack) + 1].object = c
         /\ Pushed(c)[Len(stack) + 1].left = Children(c)
<1> PICK s : s = Pushed(c)
  OBVIOUS
<1> DEFINE frame == [object |-> c, left |-> Children(c)]
<1>1. frame \in Frames /\ frame.object = c /\ frame.left = Children(c)
  BY ChildrenObjects DEF Frames
<1>2. WithoutChild(c) \in Seq(Frames) /\ Len(WithoutChild(c)) = Len(stack)
  BY StackWithout
<1>3. s = Append(WithoutChild(c), frame)
  BY DEF Pushed
<1> HIDE DEF frame
<1>4. /\ s # <<>> /\ Len(s) = Len(stack) + 1
      /\ \A i \in 1..Len(stack) : s[i] = WithoutChild(c)[i]
      /\ s[Len(stack) + 1] = frame
  BY <1>1, <1>2, <1>3, AppendProperties
<1>5. \A i \in 1..Len(stack) :
        /\ WithoutChild(c)[i].object = stack[i].object
        /\ WithoutChild(c)[i].left = IF i = Len(stack) THEN stack[i].left \ {c} ELSE stack[i].left
  BY StackWithout
<1> QED
  BY <1>1, <1>4, <1>5

LEMMA StackPopped ==
  ASSUME TypeOK, stack # <<>>, NEW s, s = SubSeq(stack, 1, Len(stack) - 1)
  PROVE  /\ Len(s) = Len(stack) - 1 /\ Len(stack) \in Nat \ {0}
         /\ \A i \in 1..Len(s) : s[i] = stack[i]
         /\ s = <<>> <=> Len(stack) = 1
<1>1. stack \in Seq(Frames)
  BY DEF TypeOK, Frames
<1>2. Len(stack) \in Nat \ {0} /\ \A i \in 1..Len(stack) : stack[i] \in Frames
  BY <1>1, LastAndFront, ElementOfSeq
<1> DEFINE n == Len(stack) - 1
<1>3. n \in Nat /\ 1 \in Int /\ n \in Int /\ \A i \in 1..n : stack[i] \in Frames
  BY <1>2
<1>4. s = SubSeq(stack, 1, n)
  OBVIOUS
<1> HIDE DEF n
<1>5. /\ s \in Seq(Frames) /\ Len(s) = IF 1 <= n THEN n - 1 + 1 ELSE 0
      /\ \A i \in 1..n - 1 + 1 : s[i] = stack[1 + i - 1]
  BY <1>3, <1>4, SubSeqProperties
<1>6. Len(s) = n /\ \A i \in 1..n : s[i] = stack[i]
  BY <1>3, <1>5
<1>7. s = <<>> <=> n = 0
  BY <1>5, <1>6, EmptySeq
<1> QED
  BY <1>2, <1>6, <1>7 DEF n

LEMMA SameGraph ==
  ASSUME UNCHANGED conflict
  PROVE  /\ \A o : Children(o)' = Children(o) /\ Reached(o)' = Reached(o)
         /\ \A S : Finds(S)' = Finds(S)
         /\ Reachable' = Reachable
<1>1. \A o : Children(o)' = Children(o)
  BY DEF conflict, Children
<1>2. \A S : Closed(S)' <=> Closed(S)
  BY <1>1 DEF Closed
<1>3. \A o : Reached(o)' = Reached(o)
  BY <1>2 DEF Reached
<1>4. \A S : Finds(S)' = Finds(S)
  BY <1>3 DEF Finds
<1> QED
  BY <1>1, <1>3, <1>4 DEF Reachable, conflict

LEMMA OneUnderway ==
  ASSUME Underway, Traversing, stack # <<>> \/ todo # {}
  PROVE  /\ phase = "build" \/ (phase = "comment" /\ plugin # "SPVA")
         /\ todo \subseteq objects
         /\ stack # <<>> => Search
         /\ stack = <<>> => Between
BY DEF Underway, Traversing

\* A step of a traversal that keeps Search, or begins or ends it.
LEMMA TraversalStep ==
  ASSUME Traversed, Traversing, stack # <<>> \/ todo # {},
         UNCHANGED <<conflict, phase, mutable>>,
         todo' \subseteq todo, stack' # <<>> => Search', stack' = <<>> => Between',
         phase = "build" => comments' = comments,
         phase = "comment" => dependencies' = dependencies,
         \A t \in comments' : t[1] \in Children(t[2])
  PROVE  Traversed'
<1>1. phase = "build" \/ (phase = "comment" /\ plugin # "SPVA")
  BY OneUnderway DEF Traversed
<1>2. todo \subseteq objects
  BY OneUnderway DEF Traversed
<1>3. Underway'
  BY <1>1, <1>2 DEF Underway, conflict
<1>4. Outcome'
  BY <1>1, SameGraph DEF Traversed, Outcome, conflict, mutable
<1> QED
  BY <1>3, <1>4 DEF Traversed

LEMMA Beginning ==
  ASSUME NEW o \in Objects, TypeOK, Traversed, BeginTraversal(o)
  PROVE  Traversed'
<1> USE DEF conflict, mutable
<1>1. /\ Traversing /\ stack = <<>> /\ o \in todo /\ todo' = todo \ {o} /\ visited' = {o}
      /\ stack' = <<[object |-> o, left |-> Children(o)]>>
      /\ UNCHANGED <<conflict, dependencies, phase, comments, mutable>>
  BY DEF BeginTraversal
<1>2. todo \subseteq objects /\ Between
  BY <1>1, OneUnderway DEF Traversed
<1>3. /\ \A x : Children(x)' = Children(x) /\ Reached(x)' = Reached(x)
      /\ \A S : Finds(S)' = Finds(S)
  BY <1>1, SameGraph
<1>4. Len(stack') = 1 /\ stack'[1].object = o /\ stack'[1].left = Children(o) /\ stack' # <<>>
  BY <1>1
<1>5. Root' = o /\ On' = {o}
  BY <1>4 DEF Root, On
<1>6. objects \ (todo' \cup {o}) = objects \ todo
  BY <1>1, <1>2
<1>7. Reported' = Finds(objects \ (todo' \cup {o})) \cup (visited' \ {o})
  BY <1>1, <1>2, <1>3, <1>6 DEF Between, Reported
<1>8. Search'
  BY <1>1, <1>2, <1>3, <1>4, <1>5, <1>7, ReachedClosed DEF Search
<1> QED
  BY <1>1, <1>4, <1>8, TraversalStep DEF Traversed, Outcome

LEMMA Visiting ==
  ASSUME NEW c \in Objects, TypeOK, Traversed, Visit(c)
  PROVE  Traversed'
<1> USE DEF conflict, mutable
<1> DEFINE n == Len(stack)
           top == stack[n].object
<1>0. n = Len(stack) /\ top = stack[n].object
  OBVIOUS
<1> HIDE DEF n, top
<1>1. /\ Traversing /\ stack # <<>> /\ c \in stack[n].left
      /\ UNCHANGED <<conflict, phase, todo, mutable>>
  BY <1>0 DEF Visit
<1>2. Search /\ todo \subseteq objects
  BY <1>0, <1>1, OneUnderway DEF Traversed
<1>3. /\ \A x : Children(x)' = Children(x) /\ Reached(x)' = Reached(x)
      /\ \A S : Finds(S)' = Finds(S)
  BY <1>0, <1>1, SameGraph
<1>4. n \in Nat \ {0} /\ n \in 1..n
  BY <1>0, <1>1, StackWithout
<1>5. top \in visited /\ c \in Children(top) /\ top \in Reached(Root) /\ Root \in visited /\ Root \in Objects
  BY <1>0, <1>1, <1>2, <1>4 DEF Search, On, Root, TypeOK
<1>6. CASE c \in visited
  <2>1. /\ stack' = WithoutChild(c)
        /\ UNCHANGED <<visited, dependencies, comments>>
    BY <1>0, <1>6 DEF Visit
  <2>2. /\ Len(stack') = n
        /\ \A i \in 1..n :
             /\ stack'[i].object = stack[i].object
             /\ stack'[i].left = IF i = n THEN stack[i].left \ {c} ELSE stack[i].left
    BY <1>0, <1>1, <2>1, StackWithout
  <2>3. Reported' = Reported
    BY <1>0, <1>1, <2>1 DEF Reported
  <2>4. 1 \in 1..n /\ Len(stack') # 0
    BY <1>0, <1>4, <2>2
  <2>5. Root' = Root
    BY <1>0, <2>2, <2>4 DEF Root
  <2>6. On' = On
    BY <1>0, <2>2 DEF On
  <2>7. stack' # <<>>
    BY <1>0, <2>4, EmptySeq
  <2>8. \A i \in 1..Len(stack') :
       /\ stack'[i].left \subseteq Children(stack'[i].object)
       /\ Children(stack'[i].object) \subseteq visited \cup stack'[i].left
    BY <1>0, <1>2, <1>6, <2>2 DEF Search
  <2>9. Search'
    BY <1>0, <1>1, <1>2, <1>3, <2>1, <2>3, <2>5, <2>6, <2>8 DEF Search
  <2> QED
    BY <1>0, <1>1, <2>1, <2>7, <2>9, TraversalStep DEF Traversed, Outcome
<1>7. CASE c \notin visited
  <2>1. /\ stack' = Append(WithoutChild(c), [object |-> c, left |-> Children(c)])
        /\ Report(top, c) /\ visited' = visited \cup {c}
    BY <1>0, <1>7 DEF Visit
  <2>2. /\ stack' # <<>> /\ Len(stack') = n + 1
        /\ \A i \in 1..n :
             /\ stack'[i].object = stack[i].object
             /\ stack'[i].left = IF i = n THEN stack[i].left \ {c} ELSE stack[i].left
        /\ stack'[n + 1].object = c /\ stack'[n + 1].left = Children(c)
    <3>1. stack' = Pushed(c)
      BY <2>1 DEF Pushed
    <3>2. /\ Pushed(c) # <<>> /\ Len(Pushed(c)) = n + 1
          /\ \A i \in 1..n :
               /\ Pushed(c)[i].object = stack[i].object
               /\ Pushed(c)[i].left = IF i = n THEN stack[i].left \ {c} ELSE stack[i].left
          /\ Pushed(c)[n + 1].object = c /\ Pushed(c)[n + 1].left = Children(c)
      <4>1. TypeOK /\ stack # <<>> /\ c \in Objects /\ n = Len(stack)
        BY <1>0, <1>1
      <4> QED
        BY ONLY <4>1, StackPushed
    <3> QED
      BY ONLY <3>1, <3>2
  <2>3. Root' = Root /\ On' = On \cup {c}
    <3>1. 1 \in 1..n /\ 1..(n + 1) = 1..n \cup {n + 1}
      BY <1>4
    <3>2. Root' = Root
      BY <2>2, <3>1 DEF Root
    <3>3. On' = {stack'[i].object : i \in 1..n} \cup {stack'[n + 1].object}
      BY <2>2, <3>1 DEF On
    <3>4. {stack'[i].object : i \in 1..n} = On
      BY <1>0, <2>2 DEF On
    <3> QED
      BY <2>2, <3>2, <3>3, <3>4
  <2>4. c \in Reached(Root) /\ c # Root
    BY <1>0, <1>5, <1>7, ReachedClosed DEF Closed
  <2>5. Reported' = Reported \cup {c}
    <3>1. CASE phase = "build"
      BY <1>1, <2>1, <3>1 DEF Report, Reported
    <3>2. CASE phase = "comment"
      <4>1. comments' = comments \cup {<<c, top>>}
        BY <2>1, <3>2 DEF Report
      <4>2. {t[1] : t \in comments'} = {t[1] : t \in comments} \cup {c}
        <5>1. \A x : x \in {t[1] : t \in comments'} <=> \E t \in comments' : x = t[1]
          OBVIOUS
        <5>2. <<c, top>>[1] = c
          OBVIOUS
        <5> QED
          BY <4>1, <5>1, <5>2
      <4> QED
        BY <1>1, <3>2, <4>2 DEF Reported
    <3> QED
      BY <1>1, <3>1, <3>2 DEF Traversing
  <2>6. visited' \subseteq Reached(Root) /\ On' \subseteq visited'
    BY <1>0, <1>2, <2>1, <2>3, <2>4 DEF Search
  <2>7. \A x \in visited' \ On' : Children(x) \subseteq visited'
    BY <1>0, <1>2, <2>1, <2>3 DEF Search
  <2>8. \A i \in 1..Len(stack') :
       /\ stack'[i].left \subseteq Children(stack'[i].object)
       /\ Children(stack'[i].object) \subseteq visited' \cup stack'[i].left
    <3>1. \A i \in 1..Len(stack') : i \in 1..n \/ i = n + 1
      BY <1>4, <2>2
    <3>2. visited \subseteq visited' /\ c \in visited'
      BY <2>1
    <3> QED
      BY <1>0, <1>2, <2>2, <3>1, <3>2 DEF Search
  <2>9. Reported' = Finds(objects \ (todo \cup {Root})) \cup (visited' \ {Root})
    <3> DEFINE U == Finds(objects \ (todo \cup {Root}))
    <3>1. Reported = U \cup (visited \ {Root})
      BY <1>2 DEF Search
    <3> HIDE DEF U
    <3>2. Reported' = U \cup (visited' \ {Root})
      BY <2>1, <2>4, <2>5, <3>1
    <3> QED
      BY <3>2 DEF U
  <2>10. Search'
    BY <1>0, <1>1, <1>2, <1>3, <2>3, <2>6, <2>7, <2>8, <2>9 DEF Search
  <2>11. /\ phase = "build" => comments' = comments
         /\ phase = "comment" => dependencies' = dependencies
         /\ \A t \in comments' : t[1] \in Children(t[2])
    BY <1>0, <1>5, <2>1 DEF Report, Traversed, Outcome
  <2> QED
    BY <1>0, <1>1, <2>2, <2>10, <2>11, TraversalStep
<1> QED
  BY <1>0, <1>6, <1>7

LEMMA Returning ==
  ASSUME TypeOK, Traversed, Return
  PROVE  Traversed'
<1> USE DEF conflict, mutable
<1> DEFINE n == Len(stack)
<1>1. /\ Traversing /\ stack # <<>> /\ stack[n].left = {} /\ stack' = SubSeq(stack, 1, n - 1)
      /\ UNCHANGED <<conflict, dependencies, phase, todo, visited, comments, mutable>>
  BY DEF Return
<1>2. Search /\ todo \subseteq objects
  BY <1>1, OneUnderway DEF Traversed
<1>3. /\ \A x : Children(x)' = Children(x) /\ Reached(x)' = Reached(x)
      /\ \A S : Finds(S)' = Finds(S)
  BY <1>1, SameGraph
<1>4. /\ Len(stack') = n - 1 /\ n \in Nat \ {0}
      /\ \A i \in 1..n - 1 : stack'[i] = stack[i]
      /\ stack' = <<>> <=> n = 1
  BY <1>1, StackPopped
<1>5. Children(stack[n].object) \subseteq visited /\ Reported' = Reported
  BY <1>1, <1>2, <1>4 DEF Search, Reported
<1>6. ASSUME n # 1 PROVE Search'
  <2>1. Root' = Root
    BY <1>4, <1>6 DEF Root
  <2>2. On' \subseteq On /\ On \subseteq On' \cup {stack[n].object}
    BY <1>4 DEF On
  <2>3. \A x \in visited \ On' : Children(x) \subseteq visited
    BY <1>2, <1>5, <2>2 DEF Search
  <2> QED
    BY <1>1, <1>2, <1>3, <1>4, <1>5, <2>1, <2>2, <2>3 DEF Search
<1>7. ASSUME n = 1 PROVE Between'
  <2>1. On = {stack[n].object} /\ Root = stack[n].object
    BY <1>7 DEF On, Root
  <2>2. Closed(visited) /\ Root \in visited /\ visited \subseteq Reached(Root) /\ Root \in objects \ todo
    BY <1>2, <1>5, <2>1 DEF Search, Closed
  <2>3. visited = Reached(Root)
    BY <2>2, ReachedLeast DEF TypeOK
  <2>4. Reported = Finds(objects \ (todo \cup {Root})) \cup (Reached(Root) \ {Root})
    BY <1>2, <2>3 DEF Search
  <2>5. Reported = Finds(objects \ todo)
    <3>1. objects \ todo = (objects \ (todo \cup {Root})) \cup {Root}
      BY <2>2
    <3> QED
      BY <2>4, <3>1, FindsMore
  <2> QED
    BY <1>1, <1>3, <1>5, <2>5 DEF Between
<1> QED
  BY <1>1, <1>4, <1>6, <1>7, TraversalStep DEF Traversed, Outcome

LEMMA TraversedInit == Init => Traversed
<1> SUFFICES ASSUME Init PROVE Traversed
  OBVIOUS
<1>1. /\ phase = "build" /\ todo = objects /\ stack = <<>> /\ dependencies = {}
      /\ comments = {} /\ edited = {}
  BY DEF Init
<1>2. Between
  BY <1>1 DEF Between, Reported, Finds
<1>3. Underway
  BY <1>1, <1>2 DEF Underway
<1>4. Outcome
  BY <1>1 DEF Outcome
<1> QED
  BY <1>3, <1>4 DEF Traversed

LEMMA BuiltReachable == Traversed /\ Built => dependencies = Reachable
BY DEF Traversed, Underway, Built, Between, Reported, Reachable

LEMMA TraversedStep ==
  ASSUME Inv, Traversed, [Next]_vars
  PROVE  Traversed'
<1> USE DEF conflict, traversal, mutable
<1>0. TypeOK
  BY DEF Inv
<1>1. ASSUME NEW o \in Objects, BeginTraversal(o) \/ Visit(o) PROVE Traversed'
  BY <1>0, <1>1, Beginning, Visiting
<1>2. CASE Return
  BY <1>0, <1>2, Returning
<1>3. ASSUME UNCHANGED conflict
      PROVE  /\ Reachable' = Reachable
             /\ \A o : Children(o)' = Children(o) /\ Reached(o)' = Reached(o)
             /\ \A S : Finds(S)' = Finds(S)
  BY <1>3, SameGraph
<1>4. CASE InfoRaises
  <2>1. Underway'
    BY <1>4 DEF InfoRaises, Built, Underway
  <2>2. Outcome'
    BY <1>3, <1>4, BuiltReachable DEF InfoRaises, Built, Traversed, Outcome
  <2> QED
    BY <2>1, <2>2 DEF Traversed
<1>5. CASE RenderComments
  <2>1. /\ Built /\ UNCHANGED <<conflict, dependencies, traversal, comments, mutable>>
        /\ phase' = "comment" /\ todo' = IF plugin = "SPVA" THEN {} ELSE objects
    BY <1>5 DEF RenderComments
  <2>2. comments = {} /\ dependencies = Reachable /\ stack = <<>> /\ phase = "build"
    BY <2>1, BuiltReachable DEF Traversed, Outcome, Built
  <2>3. plugin # "SPVA" => Between'
    BY <1>3, <2>1, <2>2 DEF Between, Reported, Finds
  <2>4. Underway'
    BY <2>1, <2>2, <2>3 DEF Underway
  <2>5. Outcome'
    BY <1>3, <2>1, <2>2 DEF Traversed, Outcome
  <2> QED
    BY <2>4, <2>5 DEF Traversed
<1>6. CASE Commented
  <2>1. /\ phase = "comment" /\ stack = <<>> /\ todo = {} /\ phase' = "commented"
        /\ UNCHANGED <<conflict, dependencies, todo, traversal, comments, mutable>>
    BY <1>6 DEF Commented
  <2>2. plugin # "SPVA" => {t[1] : t \in comments} = Reachable
    BY <2>1 DEF Traversed, Underway, Between, Reported, Reachable
  <2>3. Underway'
    BY <2>1 DEF Underway
  <2>4. Outcome'
    BY <1>3, <2>1, <2>2 DEF Traversed, Outcome
  <2> QED
    BY <2>3, <2>4 DEF Traversed
<1>7. CASE RenderDeletion
  <2>1. /\ Built /\ UNCHANGED <<conflict, dependencies, traversal, comments, mutable>>
        /\ phase' = "delete"
    BY <1>7 DEF RenderDeletion
  <2>2. Underway'
    BY <2>1 DEF Built, Underway
  <2>3. Outcome'
    BY <1>3, <2>1, BuiltReachable DEF Built, Traversed, Outcome
  <2> QED
    BY <2>2, <2>3 DEF Traversed
<1>8. ASSUME phase = "delete", phase' \in {"delete", "deleted", "failed"},
             UNCHANGED <<conflict, dependencies, traversal, comments>>,
             plugin # "SPVA" => edited' \subseteq objects
      PROVE  Traversed'
  <2>1. Underway'
    BY <1>8 DEF Traversed, Underway
  <2>2. Outcome'
    BY <1>3, <1>8 DEF Traversed, Outcome
  <2> QED
    BY <2>1, <2>2 DEF Traversed
<1>9. plugin # "SPVA" => edited \subseteq objects
  BY DEF Traversed, Outcome
<1>10. ASSUME NEW o \in Objects, DeleteObject(o) \/ ApplyResolution(o) PROVE Traversed'
  <2>1. CASE DeleteObject(o)
    BY <1>8, <1>9, <2>1 DEF DeleteObject
  <2>2. CASE ApplyResolution(o)
    BY <1>8, <1>9, <2>2 DEF ApplyResolution
  <2> QED
    BY <1>10, <2>1, <2>2
<1>11. CASE NextObject
  BY <1>8, <1>9, <1>11 DEF NextObject
<1>12. CASE LevelMissing
  BY <1>8, <1>9, <1>12 DEF LevelMissing, Finished
<1>13. CASE Deleted
  BY <1>8, <1>13 DEF Deleted, Finished
<1>14. CASE UNCHANGED vars
  <2>1. UNCHANGED <<conflict, dependencies, phase, todo, traversal, comments, mutable>>
    BY <1>14 DEF vars
  <2>2. Search => Search'
    <3>1. Root' = Root /\ On' = On /\ Reported' = Reported
      BY <2>1 DEF Root, On, Reported
    <3>2. /\ stack' = stack /\ visited' = visited /\ todo' = todo /\ objects' = objects
          /\ \A o : Children(o)' = Children(o) /\ Reached(o)' = Reached(o)
          /\ \A S : Finds(S)' = Finds(S)
      BY <1>3, <2>1
    <3> QED
      BY <3>1, <3>2 DEF Search
  <2>3. Between' <=> Between
    BY <1>3, <2>1 DEF Between, Reported
  <2>4. Underway'
    BY <2>1, <2>2, <2>3 DEF Traversed, Underway
  <2>5. Outcome'
    BY <1>3, <2>1 DEF Traversed, Outcome
  <2> QED
    BY <2>4, <2>5 DEF Traversed
<1> QED
  BY <1>1, <1>2, <1>4, <1>5, <1>6, <1>7, <1>10, <1>11, <1>12, <1>13, <1>14 DEF Next

\* What is found is the closure of the conflict's objects.
LEMMA AllClosed ==
  ASSUME TypeOK, dependencies = Reachable
  PROVE  /\ \A o \in AllObjects : Children(o) \subseteq AllObjects
         /\ \A c \in dependencies : \E p \in AllObjects : c \in Children(p)
<1>1. \A b \in objects : b \in Objects /\ Reached(b) \subseteq AllObjects /\ b \in Reached(b)
  BY ReachedClosed DEF TypeOK, AllObjects, Reachable, Finds
<1>2. ASSUME NEW o \in AllObjects PROVE Children(o) \subseteq AllObjects
  <2>1. PICK b \in objects : o \in Reached(b)
    BY <1>1 DEF AllObjects, Reachable, Finds
  <2>2. Children(o) \subseteq Reached(b)
    BY <1>1, <2>1, ReachedClosed DEF Closed
  <2> QED
    BY <1>1, <2>2
<1>3. ASSUME NEW c \in dependencies PROVE \E p \in AllObjects : c \in Children(p)
  <2>1. PICK b \in objects : c \in Reached(b) \ {b}
    BY DEF Reachable, Finds
  <2>2. PICK p \in Reached(b) : c \in Children(p)
    BY <1>1, <2>1, ReachedFrom
  <2> QED
    BY <1>1, <2>2
<1> QED
  BY <1>2, <1>3

LEMMA ExactAtEnd == Inv /\ Traversed => TraversalExact
<1> SUFFICES ASSUME Inv, Traversed PROVE TraversalExact
  OBVIOUS
<1>1. ASSUME Built
      PROVE  /\ \A o \in AllObjects : Children(o) \subseteq AllObjects
             /\ \A c \in dependencies : \E p \in AllObjects : c \in Children(p)
  BY <1>1, BuiltReachable, AllClosed DEF Inv
<1>2. ASSUME phase = "commented", plugin # "SPVA"
      PROVE  dependencies = {t[1] : t \in comments}
  BY <1>2 DEF Traversed, Outcome
<1>3. ASSUME phase = "commented", NEW t \in comments
      PROVE  t[1] \in Dependents(config, t[2])
  BY <1>3 DEF Traversed, Outcome, Children
<1> QED
  BY <1>1, <1>2, <1>3 DEF TraversalExact

LEMMA RenderedAtEnd == Inv /\ Traversed => ChangedIsRendered
<1> SUFFICES ASSUME Inv, Traversed, phase \in {"commented", "deleted"}, plugin # "SPVA",
                    NEW o \in Objects,
                    \/ o \notin kept \/ refs[o] # config[o]
                    \/ o \in edited \/ \E t \in comments : t[1] = o
             PROVE  o \in AllObjects
  BY DEF ChangedIsRendered
<1>1. dependencies = Reachable /\ TypeOK
  BY DEF Inv, Traversed, Outcome
<1>2. ASSUME NEW p \in objects, o \in Dependents(config, p) PROVE o \in AllObjects
  BY <1>1, <1>2, AllClosed DEF Children, AllObjects
<1>3. CASE o \in edited
  BY <1>3 DEF Traversed, Outcome, AllObjects
<1>4. CASE \E t \in comments : t[1] = o
  <2>1. phase = "commented"
    BY <1>4 DEF Traversed, Outcome
  <2>2. o \in {t[1] : t \in comments}
    BY <1>4
  <2> QED
    BY <2>1, <2>2 DEF Traversed, Outcome, AllObjects
<1>5. CASE o \notin kept \/ refs[o] # config[o]
  <2>1. phase = "deleted"
    BY <1>5 DEF Inv, Untouched
  <2>2. KeptSoFar /\ RefsSoFar /\ Gone \subseteq objects
    BY <2>1 DEF Inv, Progress, Gone
  <2>3. CASE o \in Gone
    BY <2>2, <2>3 DEF AllObjects
  <2>4. CASE o \notin Gone
    <3>1. \E p \in Objects : /\ Resolved(o, p)
                             /\ DeletesObject(config, o, p) \/ Removed(config, o, p) # {}
      <4>1. CASE o \notin kept
        BY <2>2, <2>4, <4>1 DEF KeptSoFar
      <4>2. CASE refs[o] # config[o]
        <5>1. refs[o] = {r \in config[o] :
                           \A p \in Objects : Resolved(o, p) => r \notin Removed(config, o, p)}
          BY <2>2 DEF RefsSoFar
        <5> QED
          BY <4>2, <5>1
      <4> QED
        BY <1>5, <4>1, <4>2
    <3>2. PICK p \in Objects : p \in Gone /\ o \in Dependents(config, p)
      BY <3>1, NotDependent DEF Resolved
    <3> QED
      BY <1>2, <2>2, <3>2
  <2> QED
    BY <2>3, <2>4
<1> QED
  BY <1>3, <1>4, <1>5

LEMMA TraversalInvariance == Spec => [](Inv /\ Traversed)
<1>1. Inv /\ Traversed /\ [Next]_vars => (Inv /\ Traversed)'
  BY InvStep, TraversedStep
<1> QED
  BY <1>1, InvInit, TraversedInit, PTL DEF Spec

-----------------------------------------------------------------------------
(* Theorems                                                                  *)

\* Every variable of ConflictPlugin has its type in every reachable state,
\* whatever the objects of the configuration and their references.
THEOREM ConflictPluginTypeCorrect == Spec => []TypeOK
BY Invariance, PTL DEF Inv

\* The deletion of no conflict runs into an object that the resolution of
\* another one has deleted (Plugin.delete_objects), because the rows of the
\* table that delete what refers never relate two types of one plugin.
THEOREM DeletionNeverFails == Spec => []NeverFails
BY Invariance, PTL DEF Inv

\* What is left of a configuration is the same in whatever order
\* Plugin.delete_objects deletes and resolves.
THEOREM DeletionOrderIrrelevant == Spec => []OrderIrrelevant
BY Invariance, OrderIrrelevantAtEnd, PTL

\* After a deletion nothing that is left refers to an object that was deleted.
THEOREM NoDanglingReference == Spec => []NothingRefersToDeleted
BY Invariance, NothingLeftAtEnd, PTL

\* What a plugin finds, and what it comments on, is everything that depends on
\* the conflict's objects and nothing else (DependencyMap.dfs), in whatever order
\* objects and children are walked and however the references run in circles.
THEOREM FoundIsExact == Spec => []TraversalExact
BY TraversalInvariance, ExactAtEnd, PTL

\* No change of a mitigation is lost because the file of the changed object is
\* not among those that Plugin.render_files takes.
THEOREM ChangesWritten == Spec => []ChangedIsRendered
BY TraversalInvariance, RenderedAtEnd, PTL
==============================================================================
