-------------------------------- MODULE Scene --------------------------------
(***************************************************************************)
(* What a program may rely on when it builds its scene: objects that come  *)
(* and go, a forest of links between them, and clones that show another    *)
(* object.  ObjGraph is how server/object.c keeps the promise.             *)
(***************************************************************************)
EXTENDS Integers

CONSTANTS
  MaxOid,       \* the objects are 0..MaxOid
  System        \* the camera and the pointer: always there

VARIABLES
  objs,         \* the objects there are
  parent,       \* parent[o]: the object o moves along with, or None
  shows         \* shows[o]: the object o is a clone of, or None

Oids == 0 .. MaxOid
None == -1

(* No object moves along with itself: every set of objects has one whose   *)
(* parent is outside of the set.                                           *)
Acyclic(p) == \A S \in SUBSET Oids : S # {} => \E o \in S : p[o] \notin S

(* f without the arrows from o and to o *)
Without(f, o) == [x \in Oids |-> IF x = o \/ f[x] = o THEN None ELSE f[x]]

Init ==
  /\ objs = System
  /\ parent = [o \in Oids |-> None]
  /\ shows = [o \in Oids |-> None]

Add(o) == o \notin objs /\ objs' = objs \union {o} /\ UNCHANGED <<parent, shows>>

(* What was linked to o stands alone, what showed o is empty. *)
Remove(o) ==
  /\ o \in objs \ System
  /\ objs' = objs \ {o}
  /\ parent' = Without(parent, o)
  /\ shows' = Without(shows, o)

Attach(o, to) ==
  /\ o \in objs /\ to \in objs
  /\ parent' = [parent EXCEPT ![o] = to]
  /\ Acyclic(parent')
  /\ UNCHANGED <<objs, shows>>

Detach(o) == parent' = [parent EXCEPT ![o] = None] /\ UNCHANGED <<objs, shows>>

(* A clone shows an object, never another clone. *)
Show(o, to) ==
  /\ o \in objs \ System /\ to \in objs /\ o # to
  /\ shows[to] = None /\ \A x \in Oids : shows[x] # o
  /\ shows' = [shows EXCEPT ![o] = to]
  /\ UNCHANGED <<objs, parent>>

Next ==
  \E o \in Oids : \/ Add(o) \/ Remove(o) \/ Detach(o)
                  \/ \E to \in Oids : Attach(o, to) \/ Show(o, to)

Spec == Init /\ [][Next]_<<objs, parent, shows>>
=============================================================================
