------------------------------ MODULE MCBackend ------------------------------
(* An instance for TLC.                                                      *)
EXTENDS Backend, TLC

CONSTANTS s1, s2, A, B

TwoSessions == {s1, s2}
TwoConflicts == {A, B}
ArchivesOfTwo == {{A}, {A, B}}

\* Sessions are alike: none is named in the specification.
Symmetry == Permutations(TwoSessions)

\* Bound: two conflicts and three commits for one session; one conflict, two
\* commits and rows of changes in one directory once there are two sessions.
Small ==
  \/ \E s \in Sessions : sessions[s] = "unborn"
  \/ /\ B # chosen /\ B \notin found /\ B \notin todo
     /\ config # None => B \notin config
     /\ \E d \in Sessions : \A s \in Sessions : changeRows[s] \subseteq {<<d, 2>>}
     /\ \A s \in Sessions :
          /\ Len(history[s]) <= 2
          /\ \A i \in DOMAIN history[s] : B \notin history[s][i]
          /\ B \notin tree[s] \cup conflictRows[s] \cup branches[s] \cup {current[s], shelf[s]}
          /\ \A row \in mitigationRows[s] \cup fileRows[s] : B \notin {row[1], row[2]}
==============================================================================
