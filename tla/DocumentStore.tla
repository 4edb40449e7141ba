---------------------------- MODULE DocumentStore ----------------------------
(***************************************************************************)
(* What an index promises of the documents put into it: a map from names   *)
(* to contents.  A program that has it open works on a copy, and the copy  *)
(* reaches the disk as a whole: when the program says so, or when it ends  *)
(* in good order or with an error, but not when it is killed.              *)
(***************************************************************************)
EXTENDS Naturals, FiniteSets

CONSTANTS Uris, Contents

VARIABLES
  stored,     \* on disk: a set of pairs <<name, content>>
  working,    \* the copy of the program that has the index open
  opened      \* is there such a program?

vars == <<stored, working, opened>>

IsMap(pairs) == \A p, q \in pairs : p[1] = q[1] => p = q
TypeOK == IsMap(stored) /\ IsMap(working) /\ stored \cup working \subseteq Uris \X Contents

Init == stored = {} /\ working = {} /\ opened = FALSE

Open == ~opened /\ opened' = TRUE /\ working' = stored /\ UNCHANGED stored

\* All there was is gone from the disk at once.
Wipe == ~opened /\ opened' = TRUE /\ working' = {} /\ stored' = {}

Named(uri) == {p \in working : p[1] = uri}

\* In place of what had the name before; it may not be there at all.
Put(uri, content) ==
  /\ opened /\ working' = (working \ Named(uri)) \cup {<<uri, content>>}
  /\ UNCHANGED <<stored, opened>>

Remove(uri) == opened /\ working' = working \ Named(uri) /\ UNCHANGED <<stored, opened>>

Save  == opened /\ stored' = working /\ UNCHANGED <<working, opened>>
Close == opened /\ opened' = FALSE /\ stored' = working /\ working' = {}
Die   == opened /\ opened' = FALSE /\ working' = {} /\ UNCHANGED stored

Next ==
  \/ Open \/ Wipe \/ Save \/ Close \/ Die
  \/ \E uri \in Uris : Remove(uri) \/ \E content \in Contents : Put(uri, content)

Spec == Init /\ [][Next]_vars
=============================================================================
