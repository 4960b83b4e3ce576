---------------------------- MODULE ObjGraphProofs ----------------------------
(***************************************************************************)
(* Proofs about ObjGraph.  The lists of linked objects and the absence of  *)
(* circular links hold whatever the program does.  The clones need the     *)
(* flag OF_CLONE_SRC to be right (CloneInv), which it is as long as no     *)
(* vertices are pushed on an object that clones show, system objects are   *)
(* not cloned and freed memory keeps its contents: then the table is a     *)
(* scene as Scene describes it.                                            *)
(***************************************************************************)
EXTENDS ObjGraph, FiniteSetTheorems, WellFoundedInduction, TLAPS

(* ListsAreLinked of any links and any set of live objects *)
Lists(L, lv) ==
  \A o \in Oids :
    /\ L.linkid[o] = None => L.lnext[o] = None /\ L.lprev[o] = None
    /\ L.linkid[o] # None => /\ o \in lv /\ L.linkid[o] \in lv
                             /\ L.lprev[o] = None => L.lsub[L.linkid[o]] = o
    /\ L.lsub[o] # None => L.linkid[L.lsub[o]] = o /\ L.lprev[L.lsub[o]] = None
    /\ L.lnext[o] # None => /\ L.linkid[L.lnext[o]] = L.linkid[o]
                            /\ L.lprev[L.lnext[o]] = o
    /\ L.lprev[o] # None => /\ L.linkid[L.lprev[o]] = L.linkid[o]
                            /\ L.lnext[L.lprev[o]] = o

NoCycle(up) == \A S \in SUBSET Oids : S # {} => \E o \in S : up[o] \notin S

IInv == TypeOK /\ Lists(link, live) /\ NoCycle(link.linkid) /\ NoCycle(link.lprev)

-----------------------------------------------------------------------------
(* The constants *)

(* The oids are numbers; the camera and the pointer have one.              *)
LEMMA OidTypes ==
  /\ Oids \subseteq Nat /\ System \subseteq Oids
  /\ None \notin Oids /\ CAM \in Oids /\ PTR \in Oids /\ CAM # PTR
BY ObjGraphAssumption DEF Oids, System, CAM, PTR, None

-----------------------------------------------------------------------------
(* link_delete(), link_insert() and obj_free() on the lists *)

(* link_delete() takes one object out of its parent's list.                *)
LEMMA LinkDeleteLists ==
  ASSUME NEW L \in Links, NEW lv, NEW oid \in Oids, Lists(L, lv)
  PROVE  LET D == LinkDelete(L, oid)
         IN  /\ D \in Links
             /\ D.linkid = [L.linkid EXCEPT ![oid] = None]
             /\ Lists(D, lv)
<1> DEFINE D == LinkDelete(L, oid)
           up == L.linkid[oid]
           next == L.lnext[oid]
           prev == L.lprev[oid]
<1>1. /\ up \in Oids \union {None} /\ next \in Oids \union {None}
      /\ prev \in Oids \union {None}
  BY DEF Links, Pointer
<1>2. /\ D.linkid = [L.linkid EXCEPT ![oid] = None]
      /\ D.lsub = [t \in Oids |-> IF t = up /\ L.lsub[t] = oid THEN next
                                  ELSE L.lsub[t]]
      /\ D.lnext = [q \in Oids |-> CASE q = oid -> None
                                     [] q # oid /\ up # None /\ q = prev -> next
                                     [] OTHER -> L.lnext[q]]
      /\ D.lprev = [q \in Oids |-> CASE q = oid -> None
                                     [] q # oid /\ up # None /\ q = next -> prev
                                     [] OTHER -> L.lprev[q]]
  BY DEF LinkDelete
<1>3. D \in Links
  <2>1. D.linkid \in Pointer /\ D.lsub \in Pointer
    BY <1>1, <1>2 DEF Links, Pointer
  <2>2. D.lnext \in Pointer
    BY <1>1, <1>2 DEF Links, Pointer
  <2>3. D.lprev \in Pointer
    BY <1>1, <1>2 DEF Links, Pointer
  <2> QED
    BY <2>1, <2>2, <2>3 DEF LinkDelete, Links
<1>4. \A q \in Oids :
        /\ D.linkid[q] = IF q = oid THEN None ELSE L.linkid[q]
        /\ D.lsub[q] = IF q = up /\ L.lsub[q] = oid THEN next ELSE L.lsub[q]
        /\ D.lnext[q] = IF q = oid THEN None
                        ELSE IF up # None /\ q = prev THEN next ELSE L.lnext[q]
        /\ D.lprev[q] = IF q = oid THEN None
                        ELSE IF up # None /\ q = next THEN prev ELSE L.lprev[q]
  BY <1>2 DEF Links, Pointer
<1> HIDE DEF D
<1>5. \A q \in Oids : /\ L.linkid[q] \in Oids \union {None}
                      /\ L.lsub[q] \in Oids \union {None}
                      /\ L.lnext[q] \in Oids \union {None}
                      /\ L.lprev[q] \in Oids \union {None}
  BY DEF Links, Pointer
<1>6. Lists(D, lv)
  <2> SUFFICES ASSUME NEW o \in Oids
               PROVE  /\ D.linkid[o] = None => D.lnext[o] = None /\ D.lprev[o] = None
                      /\ D.linkid[o] # None =>
                           /\ o \in lv /\ D.linkid[o] \in lv
                           /\ D.lprev[o] = None => D.lsub[D.linkid[o]] = o
                      /\ D.lsub[o] # None =>
                           D.linkid[D.lsub[o]] = o /\ D.lprev[D.lsub[o]] = None
                      /\ D.lnext[o] # None =>
                           /\ D.linkid[D.lnext[o]] = D.linkid[o]
                           /\ D.lprev[D.lnext[o]] = o
                      /\ D.lprev[o] # None =>
                           /\ D.linkid[D.lprev[o]] = D.linkid[o]
                           /\ D.lnext[D.lprev[o]] = o
    BY DEF Lists
  <2>1. D.linkid[o] = None => D.lnext[o] = None /\ D.lprev[o] = None
    BY <1>4, <1>5, OidTypes DEF Lists
  <2> DEFINE u == L.linkid[o]
             h == L.lsub[o]
             n == L.lnext[o]
             p == L.lprev[o]
  <2>a. /\ u = None => n = None /\ p = None
        /\ u # None => o \in lv /\ u \in lv /\ (p = None => L.lsub[u] = o)
        /\ h # None => L.linkid[h] = o /\ L.lprev[h] = None
        /\ n # None => L.linkid[n] = u /\ L.lprev[n] = o
        /\ p # None => L.linkid[p] = u /\ L.lnext[p] = o
    BY DEF Lists
  <2>b. /\ up = None => next = None /\ prev = None
        /\ up # None => up \in lv /\ (prev = None => L.lsub[up] = oid)
        /\ next # None => L.linkid[next] = up /\ L.lprev[next] = oid
        /\ prev # None => L.linkid[prev] = up /\ L.lnext[prev] = oid
    BY DEF Lists
  <2>c. ASSUME up # None, L.lsub[up] = oid
        PROVE  prev = None
    <3>1. up \in Oids
      BY <1>1, <2>c
    <3>2. L.lsub[up] # None => L.lprev[L.lsub[up]] = None
      BY <3>1 DEF Lists
    <3> QED
      BY <2>c, <3>2, OidTypes
  <2>2. ASSUME D.linkid[o] # None
        PROVE  /\ o \in lv /\ D.linkid[o] \in lv
               /\ D.lprev[o] = None => D.lsub[D.linkid[o]] = o
    <3>1. o # oid /\ u # None /\ D.linkid[o] = u /\ u \in Oids
      BY <1>4, <1>5, <2>2
    <3>2. CASE up # None /\ o = next
      <4>1. u = up /\ D.lprev[o] = prev
        BY <1>4, <2>b, <3>1, <3>2, OidTypes
      <4>2. prev = None => D.lsub[up] = next
        BY <1>4, <2>b, <3>1, <3>2, <4>1
      <4> QED
        BY <2>a, <3>1, <3>2, <4>1, <4>2
    <3>3. CASE ~(up # None /\ o = next)
      BY <1>4, <2>a, <2>b, <2>c, <3>1, <3>3
    <3> QED
      BY <3>2, <3>3
  <2>3. ASSUME D.lsub[o] # None
        PROVE  D.linkid[D.lsub[o]] = o /\ D.lprev[D.lsub[o]] = None
    <3>1. CASE o = up /\ h = oid
      <4>1. D.lsub[o] = next /\ next \in Oids /\ prev = None /\ up # None
        BY <1>1, <1>4, <1>5, <2>3, <2>c, <3>1, OidTypes
      <4>2. next # oid
        BY <2>b, <4>1, OidTypes
      <4> QED
        BY <1>4, <2>b, <3>1, <4>1, <4>2, OidTypes
    <3>2. CASE ~(o = up /\ h = oid)
      <4>1. D.lsub[o] = h /\ h \in Oids /\ L.linkid[h] = o /\ L.lprev[h] = None
        BY <1>4, <1>5, <2>3, <2>a, <3>2
      <4>2. h # oid
        BY <3>2, <4>1
      <4>3. ~(up # None /\ h = next)
        BY <2>b, <4>1, OidTypes
      <4> QED
        BY <1>4, <4>1, <4>2, <4>3
    <3> QED
      BY <3>1, <3>2
  <2>4. ASSUME D.lnext[o] # None
        PROVE  D.linkid[D.lnext[o]] = D.linkid[o] /\ D.lprev[D.lnext[o]] = o
    <3>1. o # oid
      BY <1>4, <2>4
    <3>2. CASE up # None /\ o = prev
      <4>1. D.lnext[o] = next /\ next \in Oids /\ next # oid
        BY <1>1, <1>4, <2>4, <2>b, <3>1, <3>2, OidTypes
      <4> QED
        BY <1>4, <2>b, <3>1, <3>2, <4>1, OidTypes
    <3>3. CASE ~(up # None /\ o = prev)
      <4>1. D.lnext[o] = n /\ n \in Oids /\ L.linkid[n] = u /\ L.lprev[n] = o
        BY <1>4, <1>5, <2>4, <2>a, <3>1, <3>3
      <4>2. n # oid
        BY <2>b, <3>1, <3>3, <4>1, OidTypes
      <4>3. ~(up # None /\ n = next)
        BY <2>b, <3>1, <4>1, OidTypes
      <4> QED
        BY <1>4, <3>1, <4>1, <4>2, <4>3
    <3> QED
      BY <3>2, <3>3
  <2>5. ASSUME D.lprev[o] # None
        PROVE  D.linkid[D.lprev[o]] = D.linkid[o] /\ D.lnext[D.lprev[o]] = o
    <3>1. o # oid
      BY <1>4, <2>5
    <3>2. CASE up # None /\ o = next
      <4>1. D.lprev[o] = prev /\ prev \in Oids /\ prev # oid
        BY <1>1, <1>4, <2>5, <2>b, <3>1, <3>2, OidTypes
      <4> QED
        BY <1>4, <2>b, <3>1, <3>2, <4>1, OidTypes
    <3>3. CASE ~(up # None /\ o = next)
      <4>1. D.lprev[o] = p /\ p \in Oids /\ L.linkid[p] = u /\ L.lnext[p] = o
        BY <1>4, <1>5, <2>5, <2>a, <3>1, <3>3
      <4>2. p # oid
        BY <2>b, <3>1, <3>3, <4>1, OidTypes
      <4>3. ~(up # None /\ p = prev)
        BY <2>b, <3>1, <4>1, OidTypes
      <4> QED
        BY <1>4, <3>1, <4>1, <4>2, <4>3
    <3> QED
      BY <3>2, <3>3
  <2> QED
    BY <2>1, <2>2, <2>3, <2>4, <2>5
<1> QED
  BY <1>2, <1>3, <1>6 DEF D

(* link_insert() puts an unlinked object at the head of a list.            *)
LEMMA LinkInsertLists ==
  ASSUME NEW L \in Links, NEW lv \in SUBSET Oids, Lists(L, lv),
         NEW oid \in lv, NEW target \in lv, L.linkid[oid] = None
  PROVE  LET D == LinkInsert(L, oid, target)
         IN  /\ D \in Links
             /\ D.linkid = [L.linkid EXCEPT ![oid] = target]
             /\ Lists(D, lv)
<1> DEFINE D == LinkInsert(L, oid, target)
           head == L.lsub[target]
<1>1. \A q \in Oids : /\ L.linkid[q] \in Oids \union {None}
                      /\ L.lsub[q] \in Oids \union {None}
                      /\ L.lnext[q] \in Oids \union {None}
                      /\ L.lprev[q] \in Oids \union {None}
  BY DEF Links, Pointer
<1>2. /\ D.linkid = [L.linkid EXCEPT ![oid] = target]
      /\ D.lsub = [L.lsub EXCEPT ![target] = oid]
      /\ D.lnext = [L.lnext EXCEPT ![oid] = head]
      /\ D.lprev = [q \in Oids |-> IF q = head THEN oid ELSE L.lprev[q]]
  BY DEF LinkInsert
<1>3. D \in Links
  <2>1. D = [linkid |-> D.linkid, lsub |-> D.lsub, lnext |-> D.lnext, lprev |-> D.lprev]
    BY DEF LinkInsert
  <2>2. /\ L.linkid \in Pointer /\ L.lsub \in Pointer
        /\ L.lnext \in Pointer /\ L.lprev \in Pointer
    BY DEF Links
  <2>3. D.linkid \in Pointer /\ D.lsub \in Pointer
    BY <1>2, <2>2 DEF Pointer
  <2>4. D.lnext \in Pointer /\ D.lprev \in Pointer
    BY <1>1, <1>2, <2>2 DEF Pointer
  <2> HIDE DEF D
  <2> QED
    BY <2>1, <2>3, <2>4 DEF Links
<1>4. \A q \in Oids :
        /\ D.linkid[q] = IF q = oid THEN target ELSE L.linkid[q]
        /\ D.lsub[q] = IF q = target THEN oid ELSE L.lsub[q]
        /\ D.lnext[q] = IF q = oid THEN head ELSE L.lnext[q]
        /\ D.lprev[q] = IF q = head THEN oid ELSE L.lprev[q]
  BY <1>2 DEF Links, Pointer
<1> HIDE DEF D
<1>5. Lists(D, lv)
  <2> SUFFICES ASSUME NEW o \in Oids
               PROVE  /\ D.linkid[o] = None => D.lnext[o] = None /\ D.lprev[o] = None
                      /\ D.linkid[o] # None =>
                           /\ o \in lv /\ D.linkid[o] \in lv
                           /\ D.lprev[o] = None => D.lsub[D.linkid[o]] = o
                      /\ D.lsub[o] # None =>
                           D.linkid[D.lsub[o]] = o /\ D.lprev[D.lsub[o]] = None
                      /\ D.lnext[o] # None =>
                           /\ D.linkid[D.lnext[o]] = D.linkid[o]
                           /\ D.lprev[D.lnext[o]] = o
                      /\ D.lprev[o] # None =>
                           /\ D.linkid[D.lprev[o]] = D.linkid[o]
                           /\ D.lnext[D.lprev[o]] = o
    BY DEF Lists
  <2> DEFINE u == L.linkid[o]
             h == L.lsub[o]
             n == L.lnext[o]
             p == L.lprev[o]
  <2>1. /\ u = None => n = None /\ p = None
        /\ u # None => o \in lv /\ u \in lv /\ (p = None => L.lsub[u] = o)
        /\ h # None => L.linkid[h] = o /\ L.lprev[h] = None
        /\ n # None => L.linkid[n] = u /\ L.lprev[n] = o
        /\ p # None => L.linkid[p] = u /\ L.lnext[p] = o
    BY DEF Lists
  <2>2. /\ oid \in Oids /\ target \in Oids
        /\ L.lnext[oid] = None /\ L.lprev[oid] = None
        /\ head # None => L.linkid[head] = target /\ L.lprev[head] = None
    BY DEF Lists
  <2>3. h # oid /\ n # oid /\ p # oid /\ head # oid
    BY <2>1, <2>2, OidTypes
  <2>4. D.linkid[o] = None => D.lnext[o] = None /\ D.lprev[o] = None
    BY <1>1, <1>4, <2>1, <2>2, OidTypes
  <2>5. ASSUME D.linkid[o] # None
        PROVE  /\ o \in lv /\ D.linkid[o] \in lv
               /\ D.lprev[o] = None => D.lsub[D.linkid[o]] = o
    <3>1. CASE o = oid
      BY <1>4, <2>2, <2>3, <3>1
    <3>2. CASE o # oid
      <4>1. u # None /\ D.linkid[o] = u /\ u \in Oids /\ o \in lv /\ u \in lv
        BY <1>1, <1>4, <2>1, <2>5, <3>2
      <4>2. ASSUME D.lprev[o] = None
            PROVE  o # head /\ L.lsub[u] = o
        BY <1>4, <2>1, <2>2, <4>1, <4>2, OidTypes
      <4>3. D.lprev[o] = None => u # target /\ D.lsub[u] = o
        BY <1>4, <4>1, <4>2
      <4> QED
        BY <4>1, <4>3
    <3> QED
      BY <3>1, <3>2
  <2>6. ASSUME D.lsub[o] # None
        PROVE  D.linkid[D.lsub[o]] = o /\ D.lprev[D.lsub[o]] = None
    <3>1. CASE o = target
      BY <1>4, <2>2, <2>3, <3>1
    <3>2. CASE o # target
      <4>1. D.lsub[o] = h /\ h \in Oids /\ L.linkid[h] = o /\ L.lprev[h] = None
        BY <1>1, <1>4, <2>1, <2>6, <3>2
      <4>2. h # oid /\ h # head
        BY <2>2, <2>3, <3>2, <4>1, OidTypes
      <4> QED
        BY <1>4, <4>1, <4>2
    <3> QED
      BY <3>1, <3>2
  <2>7. ASSUME D.lnext[o] # None
        PROVE  D.linkid[D.lnext[o]] = D.linkid[o] /\ D.lprev[D.lnext[o]] = o
    <3>1. CASE o = oid
      <4>1. D.lnext[o] = head /\ head \in Oids /\ L.linkid[head] = target
        BY <1>1, <1>4, <2>2, <2>7, <3>1
      <4> QED
        BY <1>4, <2>2, <2>3, <3>1, <4>1
    <3>2. CASE o # oid
      <4>1. D.lnext[o] = n /\ n \in Oids /\ L.linkid[n] = u /\ L.lprev[n] = o
        BY <1>1, <1>4, <2>1, <2>7, <3>2
      <4>2. n # oid /\ n # head
        BY <2>2, <2>3, <4>1, OidTypes
      <4> QED
        BY <1>4, <3>2, <4>1, <4>2
    <3> QED
      BY <3>1, <3>2
  <2>8. ASSUME D.lprev[o] # None
        PROVE  D.linkid[D.lprev[o]] = D.linkid[o] /\ D.lnext[D.lprev[o]] = o
    <3>1. CASE o = head
      <4>1. D.lprev[o] = oid /\ L.linkid[o] = target
        BY <1>4, <2>2, <3>1, OidTypes
      <4> QED
        BY <1>4, <2>2, <2>3, <3>1, <4>1
    <3>2. CASE o # head
      <4>1. D.lprev[o] = p /\ p \in Oids /\ L.linkid[p] = u /\ L.lnext[p] = o
        BY <1>1, <1>4, <2>1, <2>8, <3>2
      <4>2. o # oid /\ p # oid
        BY <2>2, <2>3, <2>8, <4>1, OidTypes
      <4> QED
        BY <1>4, <4>1, <4>2
    <3> QED
      BY <3>1, <3>2
  <2> QED
    BY <2>4, <2>5, <2>6, <2>7, <2>8
<1> QED
  BY <1>2, <1>3, <1>5 DEF D

(* obj_free() leaves no pointer to the object that goes.                   *)
LEMMA FreeLinksLists ==
  ASSUME NEW L \in Links, NEW lv, NEW oid \in Oids, Lists(L, lv)
  PROVE  LET F == FreeLinks(L, oid)
         IN  /\ F \in Links
             /\ F.linkid = [q \in Oids |-> IF q = oid \/ L.linkid[q] = oid THEN None
                                           ELSE L.linkid[q]]
             /\ Lists(F, lv \ {oid})
<1> DEFINE d == LinkDelete(L, oid)
           F == FreeLinks(L, oid)
<1>1. /\ d \in Links
      /\ d.linkid = [L.linkid EXCEPT ![oid] = None]
      /\ Lists(d, lv)
  BY LinkDeleteLists
<1>2. /\ F.linkid = [q \in Oids |-> IF d.linkid[q] = oid THEN None ELSE d.linkid[q]]
      /\ F.lsub = [d.lsub EXCEPT ![oid] = None]
      /\ F.lnext = [q \in Oids |-> IF d.linkid[q] = oid THEN None ELSE d.lnext[q]]
      /\ F.lprev = [q \in Oids |-> IF d.linkid[q] = oid THEN None ELSE d.lprev[q]]
  BY DEF FreeLinks
<1>3. F = [linkid |-> F.linkid, lsub |-> F.lsub, lnext |-> F.lnext, lprev |-> F.lprev]
  BY DEF FreeLinks
<1> HIDE DEF d, F
<1>4. \A q \in Oids : /\ d.linkid[q] \in Oids \union {None}
                      /\ d.lsub[q] \in Oids \union {None}
                      /\ d.lnext[q] \in Oids \union {None}
                      /\ d.lprev[q] \in Oids \union {None}
  BY <1>1 DEF Links, Pointer
<1>5. F \in Links
  <2>1. F.linkid \in Pointer /\ F.lnext \in Pointer /\ F.lprev \in Pointer
    BY <1>2, <1>4 DEF Pointer
  <2>2. F.lsub \in Pointer
    BY <1>1, <1>2 DEF Links, Pointer
  <2> QED
    BY <1>3, <2>1, <2>2 DEF Links
<1>6. \A q \in Oids :
        /\ F.linkid[q] = IF d.linkid[q] = oid THEN None ELSE d.linkid[q]
        /\ F.lsub[q] = IF q = oid THEN None ELSE d.lsub[q]
        /\ F.lnext[q] = IF d.linkid[q] = oid THEN None ELSE d.lnext[q]
        /\ F.lprev[q] = IF d.linkid[q] = oid THEN None ELSE d.lprev[q]
  BY <1>1, <1>2 DEF Links, Pointer
<1>7. d.linkid[oid] = None
  BY <1>1 DEF Links, Pointer
<1>8. Lists(F, lv \ {oid})
  <2> SUFFICES ASSUME NEW o \in Oids
               PROVE  /\ F.linkid[o] = None => F.lnext[o] = None /\ F.lprev[o] = None
                      /\ F.linkid[o] # None =>
                           /\ o \in lv \ {oid} /\ F.linkid[o] \in lv \ {oid}
                           /\ F.lprev[o] = None => F.lsub[F.linkid[o]] = o
                      /\ F.lsub[o] # None =>
                           F.linkid[F.lsub[o]] = o /\ F.lprev[F.lsub[o]] = None
                      /\ F.lnext[o] # None =>
                           /\ F.linkid[F.lnext[o]] = F.linkid[o]
                           /\ F.lprev[F.lnext[o]] = o
                      /\ F.lprev[o] # None =>
                           /\ F.linkid[F.lprev[o]] = F.linkid[o]
                           /\ F.lnext[F.lprev[o]] = o
    BY DEF Lists
  <2> DEFINE u == d.linkid[o]
             h == d.lsub[o]
             n == d.lnext[o]
             p == d.lprev[o]
  <2>a. /\ u = None => n = None /\ p = None
        /\ u # None => o \in lv /\ u \in lv /\ (p = None => d.lsub[u] = o)
        /\ h # None => d.linkid[h] = o /\ d.lprev[h] = None
        /\ n # None => d.linkid[n] = u /\ d.lprev[n] = o
        /\ p # None => d.linkid[p] = u /\ d.lnext[p] = o
    BY <1>1 DEF Lists
  <2>b. /\ u \in Oids \union {None} /\ h \in Oids \union {None}
        /\ n \in Oids \union {None} /\ p \in Oids \union {None}
    BY <1>4
  <2>1. F.linkid[o] = None => F.lnext[o] = None /\ F.lprev[o] = None
    BY <1>6, <2>a
  <2>2. F.linkid[o] # None =>
          /\ o \in lv \ {oid} /\ F.linkid[o] \in lv \ {oid}
          /\ F.lprev[o] = None => F.lsub[F.linkid[o]] = o
    BY <1>6, <1>7, <2>a, <2>b
  <2>3. F.lsub[o] # None => F.linkid[F.lsub[o]] = o /\ F.lprev[F.lsub[o]] = None
    BY <1>6, <2>a, <2>b
  <2>4. F.lnext[o] # None =>
          F.linkid[F.lnext[o]] = F.linkid[o] /\ F.lprev[F.lnext[o]] = o
    BY <1>6, <2>a, <2>b
  <2>5. F.lprev[o] # None =>
          F.linkid[F.lprev[o]] = F.linkid[o] /\ F.lnext[F.lprev[o]] = o
    BY <1>6, <2>a, <2>b
  <2> QED
    BY <2>1, <2>2, <2>3, <2>4, <2>5
<1>9. F.linkid = [q \in Oids |-> IF q = oid \/ L.linkid[q] = oid THEN None
                                 ELSE L.linkid[q]]
  BY <1>1, <1>2, OidTypes DEF Links, Pointer
<1> QED
  BY <1>5, <1>8, <1>9 DEF F

-----------------------------------------------------------------------------
(* Cycles *)

(* Removing links closes no circle.                                        *)
LEMMA FewerLinks ==
  ASSUME NEW f, NEW g, NoCycle(f), \A o \in Oids : g[o] = f[o] \/ g[o] = None
  PROVE  NoCycle(g)
<1> SUFFICES ASSUME NEW S \in SUBSET Oids, S # {}
             PROVE  \E o \in S : g[o] \notin S
  BY DEF NoCycle
<1>1. PICK o \in S : f[o] \notin S
  BY DEF NoCycle
<1> QED
  BY <1>1, OidTypes

(* The climb in obj_link() is enough: an object that is not above `to' can *)
(* be linked to it.                                                        *)
LEMMA OneMoreLink ==
  ASSUME NEW f \in Pointer, NEW oid \in Oids, NEW to \in Oids, oid # to,
         NoCycle(f),
         NEW B \in SUBSET Oids, to \in B, oid \notin B,
         \A o \in B : f[o] # None => f[o] \in B
  PROVE  NoCycle([f EXCEPT ![oid] = to])
<1> DEFINE g == [f EXCEPT ![oid] = to]
<1> SUFFICES ASSUME NEW S \in SUBSET Oids, S # {},
                    \A o \in S : g[o] \in S
             PROVE  FALSE
  BY DEF NoCycle
<1>1. \A o \in Oids : g[o] = IF o = oid THEN to ELSE f[o]
  BY DEF Pointer
<1> HIDE DEF g
<1>2. CASE oid \notin S
  BY <1>1, <1>2 DEF NoCycle
<1>3. CASE oid \in S
  <2> DEFINE T == S \intersect B
  <2>1. to \in T
    BY <1>1, <1>3
  <2>2. \A o \in T : f[o] \in T
    BY <1>1, OidTypes
  <2> QED
    BY <2>1, <2>2 DEF NoCycle
<1> QED
  BY <1>2, <1>3

(* No list is a ring: an object that leaves its list, one that becomes the *)
(* head of another one, and the end of a parent keep it so.                *)
LEMMA DeleteRing ==
  ASSUME NEW L \in Links, NEW lv, NEW oid \in Oids, Lists(L, lv), NoCycle(L.lprev)
  PROVE  NoCycle(LinkDelete(L, oid).lprev)
<1> DEFINE p == LinkDelete(L, oid).lprev
           up == L.linkid[oid]
           next == L.lnext[oid]
           prev == L.lprev[oid]
<1>1. \A q \in Oids : p[q] = IF q = oid THEN None
                             ELSE IF up # None /\ q = next THEN prev ELSE L.lprev[q]
  BY DEF LinkDelete
<1> HIDE DEF p
<1> SUFFICES ASSUME NEW S \in SUBSET Oids, S # {}, \A o \in S : p[o] \in S
             PROVE  FALSE
  BY DEF NoCycle, p
<1>2. oid \notin S
  BY <1>1, OidTypes
<1>3. CASE up # None /\ next \in S
  <2>1. L.lprev[next] = oid /\ prev \in S
    <3>1. L.lnext[oid] # None => L.lprev[L.lnext[oid]] = oid
      BY DEF Lists
    <3> QED
      BY <1>1, <1>2, <1>3, <3>1, OidTypes
  <2>2. \A o \in S \union {oid} : L.lprev[o] \in S \union {oid}
    BY <1>1, <1>2, <2>1
  <2> QED
    BY <2>2 DEF NoCycle
<1>4. CASE ~(up # None /\ next \in S)
  <2>1. \A o \in S : L.lprev[o] \in S
    BY <1>1, <1>2, <1>4
  <2> QED
    BY <2>1 DEF NoCycle
<1> QED
  BY <1>3, <1>4

LEMMA InsertRing ==
  ASSUME NEW L \in Links, NEW lv, NEW oid \in Oids, NEW target \in Oids,
         Lists(L, lv), NoCycle(L.lprev), L.linkid[oid] = None
  PROVE  NoCycle(LinkInsert(L, oid, target).lprev)
<1> DEFINE p == LinkInsert(L, oid, target).lprev
           head == L.lsub[target]
<1>1. \A q \in Oids : p[q] = IF q = head THEN oid ELSE L.lprev[q]
  BY DEF LinkInsert
<1>2. L.lprev[oid] = None /\ (head # None => L.linkid[head] = target)
  BY DEF Lists
<1> HIDE DEF p
<1> SUFFICES ASSUME NEW S \in SUBSET Oids, S # {}, \A o \in S : p[o] \in S
             PROVE  FALSE
  BY DEF NoCycle, p
<1>3. oid # head
  BY <1>2, OidTypes
<1>4. oid \notin S
  BY <1>1, <1>2, <1>3, OidTypes
<1>5. head \notin S
  BY <1>1, <1>4
<1>6. \A o \in S : L.lprev[o] \in S
  BY <1>1, <1>5
<1> QED
  BY <1>6 DEF NoCycle

LEMMA FreeRing ==
  ASSUME NEW L \in Links, NEW lv, NEW oid \in Oids, Lists(L, lv), NoCycle(L.lprev)
  PROVE  NoCycle(FreeLinks(L, oid).lprev)
<1> DEFINE d == LinkDelete(L, oid)
           p == FreeLinks(L, oid).lprev
<1>1. p = [q \in Oids |-> IF d.linkid[q] = oid THEN None ELSE d.lprev[q]]
  BY DEF FreeLinks
<1>2. NoCycle(d.lprev)
  BY DeleteRing
<1> HIDE DEF d, p
<1>3. \A o \in Oids : p[o] = d.lprev[o] \/ p[o] = None
  BY <1>1
<1> HIDE DEF NoCycle
<1>4. NoCycle(p)
  BY <1>2, <1>3, FewerLinks
<1> QED
  BY <1>4 DEF p

-----------------------------------------------------------------------------
(* The links, whatever the program does *)

(* process_sys_init() starts with two unlinked objects.                    *)
LEMMA InitLinks == Init => IInv
<1> SUFFICES ASSUME Init PROVE IInv
  OBVIOUS
<1>1. /\ link \in Links
      /\ \A o \in Oids : /\ link.linkid[o] = None /\ link.lsub[o] = None
                         /\ link.lnext[o] = None /\ link.lprev[o] = None
  BY DEF Init, Links, Pointer
<1>2. TypeOK
  BY <1>1, OidTypes DEF Init, TypeOK, Pointer, CAM, System
<1>3. Lists(link, live)
  BY <1>1 DEF Lists
<1>4. NoCycle(link.linkid) /\ NoCycle(link.lprev)
  <2> SUFFICES ASSUME NEW S \in SUBSET Oids, S # {}
               PROVE  \E o \in S : link.linkid[o] \notin S /\ link.lprev[o] \notin S
    BY DEF NoCycle
  <2>1. PICK o \in S : TRUE
    OBVIOUS
  <2>2. link.linkid[o] = None /\ link.lprev[o] = None /\ None \notin S
    BY <1>1, OidTypes
  <2> QED
    BY <2>1, <2>2
<1> QED
  BY <1>2, <1>3, <1>4 DEF IInv

(* An object that obj_link() does not find above `to' may be linked to it. *)
LEMMA LinkStep ==
  ASSUME IInv, NEW oid \in Oids, NEW toid \in Oids, Link(oid, toid)
  PROVE  /\ link' \in Links /\ Lists(link', live)
         /\ NoCycle(link'.linkid) /\ NoCycle(link'.lprev)
         /\ link'.linkid = [link.linkid EXCEPT ![oid] = toid]
<1> DEFINE d == IF link.linkid[oid] # None THEN LinkDelete(link, oid) ELSE link
<1>1. /\ link \in Links /\ live \in SUBSET Oids
      /\ Lists(link, live) /\ NoCycle(link.linkid) /\ NoCycle(link.lprev)
      /\ link.linkid \in Pointer
  BY DEF IInv, TypeOK, Links
<1>2. /\ oid \in live /\ toid \in live /\ oid # toid
      /\ ~Circular(oid, toid)
      /\ link' = LinkInsert(d, oid, toid)
  BY DEF Link
<1>3. /\ d \in Links /\ Lists(d, live) /\ d.linkid[oid] = None
      /\ d.linkid = [link.linkid EXCEPT ![oid] = None]
      /\ NoCycle(d.lprev)
  <2>1. CASE link.linkid[oid] # None
    <3>1. d = LinkDelete(link, oid)
      BY <2>1
    <3> HIDE DEF d
    <3>2. NoCycle(d.lprev)
      BY <1>1, <3>1, DeleteRing
    <3> QED
      BY <1>1, <3>1, <3>2, LinkDeleteLists DEF Pointer
  <2>2. CASE link.linkid[oid] = None
    BY <1>1, <2>2 DEF Pointer
  <2> QED
    BY <2>1, <2>2
<1> HIDE DEF d
<1> DEFINE i == LinkInsert(d, oid, toid)
<1>4. /\ link' \in Links /\ Lists(link', live)
      /\ link'.linkid = [d.linkid EXCEPT ![oid] = toid]
  <2>1. /\ i \in Links /\ i.linkid = [d.linkid EXCEPT ![oid] = toid]
        /\ Lists(i, live)
    <3>1. d \in Links /\ live \in SUBSET Oids /\ oid \in live /\ toid \in live
      BY <1>1, <1>2, <1>3
    <3>2. Lists(d, live)
      BY <1>3
    <3>3. d.linkid[oid] = None
      BY <1>3
    <3> QED
      BY <3>1, <3>2, <3>3, LinkInsertLists
  <2>2. link' = i
    BY <1>2
  <2> HIDE DEF i
  <2> QED
    BY <2>1, <2>2
<1>8. NoCycle(link'.lprev)
  <2>1. NoCycle(i.lprev)
    BY <1>1, <1>2, <1>3, InsertRing
  <2> QED
    BY <1>2, <2>1
<1>5. link'.linkid = [link.linkid EXCEPT ![oid] = toid]
  BY <1>1, <1>3, <1>4 DEF Pointer
<1>6. PICK B \in SUBSET Oids : /\ toid \in B /\ oid \notin B
                               /\ \A o \in B : link.linkid[o] # None =>
                                                 link.linkid[o] \in B
  BY <1>2 DEF Circular
<1>7. NoCycle([link.linkid EXCEPT ![oid] = toid])
  BY <1>1, <1>2, <1>6, OneMoreLink
<1> QED
  BY <1>4, <1>5, <1>7, <1>8

(* Every operation keeps the lists and closes no circle.                   *)
LEMMA NextLinks == IInv /\ [Next]_vars => IInv'
<1> SUFFICES ASSUME IInv, [Next]_vars PROVE IInv'
  OBVIOUS
<1> USE OidTypes
<1>1. /\ TypeOK /\ Lists(link, live) /\ NoCycle(link.linkid) /\ NoCycle(link.lprev)
      /\ link \in Links /\ live \subseteq Oids
  BY DEF IInv, TypeOK
<1>2. ASSUME NEW oid \in Oids, NewObj(oid) PROVE IInv'
  <2>1. TypeOK'
    BY <1>1, <1>2 DEF NewObj, TypeOK, Pointer
  <2>2. Lists(link, live)'
    BY <1>1, <1>2 DEF NewObj, Lists
  <2> QED
    BY <1>1, <1>2, <2>1, <2>2 DEF NewObj, IInv
<1>3. ASSUME NEW oid \in Oids, DelObj(oid) PROVE IInv'
  <2>1. /\ link' \in Links /\ Lists(link', live')
        /\ link'.linkid = [q \in Oids |-> IF q = oid \/ link.linkid[q] = oid
                                          THEN None ELSE link.linkid[q]]
    BY <1>1, <1>3, FreeLinksLists DEF DelObj
  <2>2. \A o \in Oids : link'.linkid[o] = link.linkid[o] \/ link'.linkid[o] = None
    BY <2>1
  <2>3. NoCycle(link'.linkid)
    BY <1>1, <2>2, FewerLinks
  <2>5. NoCycle(link'.lprev)
    BY <1>1, <1>3, FreeRing DEF DelObj
  <2>4. TypeOK'
    <3>1. PICK freed \in SUBSET clone :
            /\ clone' = clone \ (freed \union {oid})
            /\ clone_ooid' = [o \in Oids |-> IF o \in freed THEN None
                                             ELSE clone_ooid[o]]
      <4>1. PICK seen \in BOOLEAN :
              LET freed == IF seen THEN ClonesOf(oid) \ {oid} ELSE {}
              IN  /\ clone' = clone \ (freed \union {oid})
                  /\ clone_ooid' = [o \in Oids |-> IF o \in freed THEN None
                                                   ELSE clone_ooid[o]]
        BY <1>3 DEF DelObj
      <4> DEFINE freed == IF seen THEN ClonesOf(oid) \ {oid} ELSE {}
      <4>2. freed \in SUBSET clone
        BY DEF ClonesOf
      <4> HIDE DEF freed
      <4> QED
        BY <4>1, <4>2 DEF freed
    <3>2. clone_ooid' \in Pointer
      BY <1>1, <3>1 DEF TypeOK, Pointer
    <3>3. /\ live' = live \ {oid} /\ oid \notin System
          /\ clone_src' = clone_src \ {oid} /\ filled' = filled \ {oid}
      BY <1>3 DEF DelObj
    <3>4. /\ live' \subseteq Oids /\ System \subseteq live' /\ link' \in Links
      BY <1>1, <2>1, <3>3 DEF TypeOK
    <3>5. /\ clone' \subseteq live' /\ clone_src' \subseteq live'
          /\ filled' \subseteq live'
      BY <1>1, <3>1, <3>3 DEF TypeOK
    <3> QED
      BY <3>2, <3>4, <3>5 DEF TypeOK
  <2> QED
    BY <2>1, <2>3, <2>4, <2>5 DEF IInv
<1>4. ASSUME NEW oid \in Oids, Unlink(oid) PROVE IInv'
  <2>1. /\ link' \in Links /\ Lists(link', live)
        /\ link'.linkid = [link.linkid EXCEPT ![oid] = None]
    BY <1>1, <1>4, LinkDeleteLists DEF Unlink
  <2>2. \A o \in Oids : link'.linkid[o] = link.linkid[o] \/ link'.linkid[o] = None
    BY <1>1, <2>1 DEF Links, Pointer
  <2>3. NoCycle(link'.linkid)
    BY <1>1, <2>2, FewerLinks
  <2>4. NoCycle(link'.lprev)
    BY <1>1, <1>4, DeleteRing DEF Unlink
  <2> QED
    BY <1>1, <1>4, <2>1, <2>3, <2>4 DEF Unlink, IInv, TypeOK
<1>5. ASSUME NEW oid \in Oids, PushVertex(oid) \/ OtherData(oid) \/ DelVertex(oid) \/ Resize(oid)
      PROVE  IInv'
  <2>1. UNCHANGED <<live, link, clone, clone_ooid>>
    BY <1>5 DEF PushVertex, OtherData, DelVertex, Resize
  <2>2. clone_src' \subseteq live /\ filled' \subseteq live
    BY <1>1, <1>5 DEF PushVertex, OtherData, DelVertex, Resize, Refreshed, TypeOK
  <2> QED
    BY <1>1, <2>1, <2>2 DEF IInv, TypeOK
<1>6. ASSUME NEW oid \in Oids, NEW toid \in Oids, Clone(oid, toid) PROVE IInv'
  <2>1. UNCHANGED <<live, link, filled>> /\ oid \in live /\ toid \in live
    BY <1>6 DEF Clone
  <2>2. clone' \subseteq live /\ clone_src' \subseteq live /\ clone_ooid' \in Pointer
    BY <1>1, <1>6 DEF Clone, TypeOK, Pointer
  <2> QED
    BY <1>1, <2>1, <2>2 DEF IInv, TypeOK
<1>7. ASSUME NEW oid \in Oids, NEW toid \in Oids, Link(oid, toid) PROVE IInv'
  <2>1. /\ link' \in Links /\ Lists(link', live)
        /\ NoCycle(link'.linkid) /\ NoCycle(link'.lprev)
    BY <1>7, LinkStep
  <2> QED
    BY <1>1, <1>7, <2>1 DEF Link, IInv, TypeOK
<1>8. CASE UNCHANGED vars
  BY <1>1, <1>8 DEF vars, IInv, TypeOK
<1> QED
  BY <1>2, <1>3, <1>4, <1>5, <1>6, <1>7, <1>8 DEF Next

(* The invariant of the links holds in every state, for any use.           *)
THEOREM LinkInvariant == Spec => []IInv
<1>1. Init => IInv
  BY InitLinks
<1>2. IInv /\ [Next]_vars => IInv'
  BY NextLinks
<1> QED
  BY <1>1, <1>2, PTL DEF Spec

(* Every pointer is an oid or -1 and flags are on live objects only.       *)
THEOREM ObjTypes == Spec => []TypeOK
<1>1. IInv => TypeOK
  BY DEF IInv
<1> QED
  BY <1>1, LinkInvariant, PTL

(* The four pointers of the lists agree in every state.                    *)
THEOREM LinkedLists == Spec => []ListsAreLinked
<1>1. IInv => ListsAreLinked
  BY DEF IInv, Lists, ListsAreLinked
<1> QED
  BY <1>1, LinkInvariant, PTL

(* No sequence of link and unlink, delete and create makes a circle.       *)
THEOREM LinksAcyclic == Spec => []NoCircularLinks
<1>1. IInv => NoCircularLinks
  BY DEF IInv, NoCycle, NoCircularLinks
<1> QED
  BY <1>1, LinkInvariant, PTL

-----------------------------------------------------------------------------
(* The loop of obj_free() *)

(* Induction, over a set of numbers.                                       *)
Below == {p \in Nat \X Nat : p[1] < p[2]}
LEMMA BelowWF == IsWellFoundedOn(Below, Nat)
BY NatLessThanWellFounded DEF OpToRel, Below

LEMMA SetInduction ==
  ASSUME NEW T, 0 \in T, \A k \in Nat : k \in T => k + 1 \in T
  PROVE  Nat \subseteq T
<1> DEFINE U == Nat \ T
<1> SUFFICES ASSUME U # {} PROVE FALSE
  OBVIOUS
<1>1. PICK x \in U : \A y \in U : ~ (<<y, x>> \in Below)
  BY BelowWF, WFMin
<1>2. x # 0 /\ x - 1 \in Nat
  OBVIOUS
<1>3. x - 1 \in U
  <2>1. x - 1 \in T => (x - 1) + 1 \in T
    BY <1>2
  <2> QED
    BY <1>2, <2>1
<1>4. <<x - 1, x>> \in Below
  BY <1>2 DEF Below
<1> QED
  BY <1>1, <1>3, <1>4

(* A function that is defined by what it makes of its last value exists.   *)
Walks(S, G, a) ==
  \A n \in Nat : \E f \in [0 .. n -> S] : f[0] = a /\ \A k \in 1 .. n : f[k] = G[f[k - 1]]
LEMMA Walk ==
  ASSUME NEW S, NEW G \in [S -> S], NEW a \in S
  PROVE  Walks(S, G, a)
<1> DEFINE W(n, f) == f[0] = a /\ \A k \in 1 .. n : f[k] = G[f[k - 1]]
           T == {n \in Nat : \E f \in [0 .. n -> S] : W(n, f)}
<1>1. 0 \in T
  <2> DEFINE f == [k \in 0 .. 0 |-> a]
  <2>1. f \in [0 .. 0 -> S] /\ W(0, f)
    OBVIOUS
  <2> HIDE DEF f, W
  <2> QED
    BY <2>1
<1>2. ASSUME NEW n \in Nat, n \in T PROVE n + 1 \in T
  <2>1. PICK f \in [0 .. n -> S] : W(n, f)
    BY <1>2
  <2> DEFINE g == [k \in 0 .. n + 1 |-> IF k = n + 1 THEN G[f[n]] ELSE f[k]]
  <2>2. g \in [0 .. n + 1 -> S]
    OBVIOUS
  <2>3. W(n + 1, g)
    BY <2>1
  <2> HIDE DEF g, W
  <2> QED
    BY <2>2, <2>3
<1>3. Nat \subseteq T
  <2> HIDE DEF T
  <2> QED
    BY <1>1, <1>2, SetInduction
<1> QED
  BY <1>3 DEF Walks

(* The children of an object, and obj_free()'s links as a function of the  *)
(* links once the object has left its own list.                            *)
Kids(L, oid) == {o \in Oids : L.linkid[o] = oid}
Cut(L, oid) ==
  LET C(f) == [q \in Oids |-> IF L.linkid[q] = oid THEN None ELSE f[q]]
  IN  [linkid |-> C(L.linkid), lsub |-> [L.lsub EXCEPT ![oid] = None],
       lnext |-> C(L.lnext), lprev |-> C(L.lprev)]

Tidy(lv) == {L \in Links : Lists(L, lv) /\ NoCycle(L.lprev)}

(* A list without a head has no members, and then nothing is cut.          *)
LEMMA EmptyList ==
  ASSUME NEW lv, NEW L \in Tidy(lv), NEW oid \in Oids
  PROVE  /\ L.lsub[oid] = None <=> Kids(L, oid) = {}
         /\ Kids(L, oid) = {} => Cut(L, oid) = L
<1>1. L \in Links /\ Lists(L, lv) /\ NoCycle(L.lprev)
  BY DEF Tidy
<1>2. ASSUME L.lsub[oid] # None PROVE L.lsub[oid] \in Kids(L, oid)
  BY <1>1, <1>2 DEF Lists, Kids, Links, Pointer
<1>3. ASSUME Kids(L, oid) # {} PROVE L.lsub[oid] # None
  <2>1. PICK o \in Kids(L, oid) : L.lprev[o] \notin Kids(L, oid)
    BY <1>1, <1>3 DEF NoCycle, Kids
  <2>2. o \in Oids /\ L.linkid[o] = oid /\ L.lprev[o] \in Oids \union {None}
    BY <1>1, <2>1 DEF Kids, Links, Pointer
  <2>3. L.lprev[o] = None
    BY <1>1, <2>1, <2>2 DEF Lists, Kids
  <2>4. L.lsub[oid] = o
    BY <1>1, <2>2, <2>3, OidTypes DEF Lists
  <2> QED
    BY <2>2, <2>4, OidTypes
<1>4. ASSUME Kids(L, oid) = {} PROVE Cut(L, oid) = L
  <2>1. L.lsub[oid] = None /\ \A q \in Oids : L.linkid[q] # oid
    BY <1>2, <1>4 DEF Kids
  <2>2. /\ L.linkid \in Pointer /\ L.lsub \in Pointer
        /\ L.lnext \in Pointer /\ L.lprev \in Pointer
        /\ L = [linkid |-> L.linkid, lsub |-> L.lsub, lnext |-> L.lnext, lprev |-> L.lprev]
    BY <1>1 DEF Links
  <2>3. \A f \in Pointer : [q \in Oids |-> IF L.linkid[q] = oid THEN None ELSE f[q]] = f
    BY <2>1 DEF Pointer
  <2>4. [L.lsub EXCEPT ![oid] = None] = L.lsub
    BY <2>1, <2>2 DEF Pointer
  <2> QED
    BY <2>2, <2>3, <2>4 DEF Cut
<1> QED
  BY <1>2, <1>3, <1>4

(* A round of the loop takes the head out of the list and nothing else.    *)
LEMMA OneRound ==
  ASSUME NEW lv, NEW L \in Tidy(lv), NEW oid \in Oids, L.lsub[oid] # None
  PROVE  LET D == LinkDelete(L, L.lsub[oid])
         IN  /\ D \in Tidy(lv)
             /\ L.lsub[oid] \in Kids(L, oid)
             /\ Kids(D, oid) = Kids(L, oid) \ {L.lsub[oid]}
             /\ Cut(D, oid) = Cut(L, oid)
<1> DEFINE c == L.lsub[oid]
           D == LinkDelete(L, c)
           next == L.lnext[c]
<1>1. L \in Links /\ Lists(L, lv) /\ NoCycle(L.lprev)
  BY DEF Tidy
<1>2. c \in Oids /\ L.linkid[c] = oid /\ L.lprev[c] = None
  BY <1>1 DEF Lists, Links, Pointer
<1>3. /\ next \in Oids \union {None}
      /\ next # None => L.linkid[next] = oid /\ L.lprev[next] = c
  BY <1>1, <1>2 DEF Lists, Links, Pointer
<1>4. D \in Links /\ D.linkid = [L.linkid EXCEPT ![c] = None] /\ Lists(D, lv)
  BY <1>1, <1>2, LinkDeleteLists
<1>5. NoCycle(D.lprev)
  BY <1>1, <1>2, DeleteRing
<1>6. /\ D.lsub = [t \in Oids |-> IF t = oid /\ L.lsub[t] = c THEN next ELSE L.lsub[t]]
      /\ D.lnext = [q \in Oids |-> CASE q = c -> None
                                     [] q # c /\ oid # None /\ q = None -> next
                                     [] OTHER -> L.lnext[q]]
      /\ D.lprev = [q \in Oids |-> CASE q = c -> None
                                     [] q # c /\ oid # None /\ q = next -> None
                                     [] OTHER -> L.lprev[q]]
  BY <1>2 DEF LinkDelete
<1> HIDE DEF c, D, next
<1>7. /\ L.linkid \in Pointer /\ L.lsub \in Pointer
      /\ L.lnext \in Pointer /\ L.lprev \in Pointer
  BY <1>1 DEF Links
<1>8. \A q \in Oids :
        /\ D.linkid[q] = IF q = c THEN None ELSE L.linkid[q]
        /\ D.lsub[q] = IF q = oid /\ L.lsub[q] = c THEN next ELSE L.lsub[q]
        /\ D.lnext[q] = IF q = c THEN None ELSE L.lnext[q]
        /\ D.lprev[q] = IF q = c \/ q = next THEN None ELSE L.lprev[q]
  BY <1>2, <1>4, <1>6, <1>7, OidTypes DEF Pointer
<1>9. Kids(D, oid) = Kids(L, oid) \ {c}
  BY <1>2, <1>8, OidTypes DEF Kids
<1>10. Cut(D, oid) = Cut(L, oid)
  <2>1. \A q \in Oids : (IF D.linkid[q] = oid THEN None ELSE D.linkid[q])
                        = (IF L.linkid[q] = oid THEN None ELSE L.linkid[q])
    BY <1>2, <1>8, OidTypes
  <2>2. \A q \in Oids : (IF D.linkid[q] = oid THEN None ELSE D.lnext[q])
                        = (IF L.linkid[q] = oid THEN None ELSE L.lnext[q])
    BY <1>2, <1>8, OidTypes
  <2>3. \A q \in Oids : (IF D.linkid[q] = oid THEN None ELSE D.lprev[q])
                        = (IF L.linkid[q] = oid THEN None ELSE L.lprev[q])
    BY <1>2, <1>3, <1>8, OidTypes
  <2>4. [D.lsub EXCEPT ![oid] = None] = [L.lsub EXCEPT ![oid] = None]
    <3>1. D.lsub \in Pointer
      BY <1>4 DEF Links
    <3> QED
      BY <1>7, <1>8, <3>1 DEF Pointer
  <2> QED
    BY <2>1, <2>2, <2>3, <2>4 DEF Cut
<1> QED
  BY <1>2, <1>4, <1>5, <1>9, <1>10 DEF c, D, Tidy, Kids

(* As many rounds as there are children empty the list.                    *)
LEMMA RoundsEmpty ==
  ASSUME NEW lv, NEW L \in Tidy(lv), NEW oid \in Oids,
         NEW m \in Nat, NEW f, f[0] = L,
         \A k \in 1 .. m : f[k] = IF f[k - 1].lsub[oid] = None THEN f[k - 1]
                                  ELSE LinkDelete(f[k - 1], f[k - 1].lsub[oid]),
         Cardinality(Kids(L, oid)) <= m
  PROVE  f[Cardinality(Kids(L, oid))] = Cut(L, oid)
<1> DEFINE n == Cardinality(Kids(L, oid))
           T == {k \in Nat : k <= n =>
                   /\ f[k] \in Tidy(lv)
                   /\ Cut(f[k], oid) = Cut(L, oid)
                   /\ Cardinality(Kids(f[k], oid)) = n - k}
<1>1. \A K : IsFiniteSet(Kids(K, oid))
  <2>1. IsFiniteSet(Oids)
    BY FS_Interval, ObjGraphAssumption DEF Oids
  <2> QED
    BY <2>1, FS_Subset DEF Kids
<1>2. n \in Nat
  BY <1>1, FS_CardinalityType
<1>3. 0 \in T
  BY <1>2
<1>4. ASSUME NEW k \in Nat, k \in T PROVE k + 1 \in T
  <2> SUFFICES ASSUME k + 1 <= n
               PROVE  /\ f[k + 1] \in Tidy(lv)
                      /\ Cut(f[k + 1], oid) = Cut(L, oid)
                      /\ Cardinality(Kids(f[k + 1], oid)) = n - (k + 1)
    OBVIOUS
  <2> DEFINE K == f[k]
  <2>1. /\ K \in Tidy(lv) /\ Cut(K, oid) = Cut(L, oid)
        /\ Cardinality(Kids(K, oid)) = n - k
    BY <1>2, <1>4
  <2>2. f[k + 1] = IF K.lsub[oid] = None THEN K ELSE LinkDelete(K, K.lsub[oid])
    BY <1>2
  <2> HIDE DEF K, n
  <2>3. Kids(K, oid) # {}
    <3>1. Cardinality(Kids(K, oid)) # 0
      BY <1>2, <2>1
    <3> QED
      BY <3>1, FS_EmptySet
  <2>4. K.lsub[oid] # None
    BY <2>1, <2>3, EmptyList
  <2> DEFINE D == LinkDelete(K, K.lsub[oid])
  <2>5. /\ D \in Tidy(lv) /\ K.lsub[oid] \in Kids(K, oid)
        /\ Kids(D, oid) = Kids(K, oid) \ {K.lsub[oid]}
        /\ Cut(D, oid) = Cut(K, oid)
    BY <2>1, <2>4, OneRound
  <2>6. f[k + 1] = D
    BY <2>2, <2>4
  <2> HIDE DEF D
  <2>7. Cardinality(Kids(D, oid)) = Cardinality(Kids(K, oid)) - 1
    <3>1. IsFiniteSet(Kids(K, oid))
      BY <1>1
    <3>2. Cardinality(Kids(K, oid) \ {K.lsub[oid]}) = Cardinality(Kids(K, oid)) - 1
      BY <2>5, <3>1, FS_RemoveElement
    <3> QED
      BY <2>5, <3>2
  <2>8. Cardinality(Kids(D, oid)) = n - (k + 1)
    BY <1>2, <2>1, <2>7
  <2>9. Cut(D, oid) = Cut(L, oid)
    BY <2>1, <2>5
  <2> QED
    BY <2>5, <2>6, <2>8, <2>9
<1>5. Nat \subseteq T
  <2> HIDE DEF T
  <2> QED
    BY <1>3, <1>4, SetInduction
<1>6. /\ f[n] \in Tidy(lv) /\ Cut(f[n], oid) = Cut(L, oid)
      /\ Cardinality(Kids(f[n], oid)) = 0
  BY <1>2, <1>5
<1>7. Kids(f[n], oid) = {}
  BY <1>1, <1>6, FS_EmptySet
<1> HIDE DEF n
<1>8. Cut(f[n], oid) = f[n]
  BY <1>6, <1>7, EmptyList
<1> QED
  BY <1>6, <1>8 DEF n

(* obj_free()'s loop leaves the links that FreeLinks describes.            *)
LEMMA TheLoop ==
  ASSUME NEW lv, NEW L \in Tidy(lv), NoCycle(L.linkid), NEW oid \in Oids
  PROVE  LET round[n \in 0 .. MaxOid + 1] ==
               IF n = 0 THEN LinkDelete(L, oid)
               ELSE LET K == round[n - 1]
                    IN  IF K.lsub[oid] = None THEN K ELSE LinkDelete(K, K.lsub[oid])
         IN  round[Cardinality({o \in Oids : L.linkid[o] = oid})] = FreeLinks(L, oid)
<1> DEFINE first == LinkDelete(L, oid)
           Round(K) == IF K.lsub[oid] = None THEN K ELSE LinkDelete(K, K.lsub[oid])
           G == [K \in Tidy(lv) |-> Round(K)]
           round == CHOOSE round : round = [n \in 0 .. MaxOid + 1 |->
                      IF n = 0 THEN first
                      ELSE IF round[n - 1].lsub[oid] = None THEN round[n - 1]
                           ELSE LinkDelete(round[n - 1], round[n - 1].lsub[oid])]
           kids == {o \in Oids : L.linkid[o] = oid}
<1>1. L \in Links /\ Lists(L, lv) /\ NoCycle(L.lprev)
  BY DEF Tidy
<1>2. /\ first \in Links /\ first.linkid = [L.linkid EXCEPT ![oid] = None]
      /\ Lists(first, lv)
  BY <1>1, LinkDeleteLists
<1>3. first \in Tidy(lv)
  BY <1>1, <1>2, DeleteRing DEF Tidy
<1>4. Kids(first, oid) = kids
  <2>1. L.linkid[oid] # oid
    <3>1. {oid} \in SUBSET Oids /\ {oid} # {}
      OBVIOUS
    <3>2. \E o \in {oid} : L.linkid[o] \notin {oid}
      BY <3>1 DEF NoCycle
    <3> QED
      BY <3>2
  <2> HIDE DEF first
  <2> QED
    BY <1>1, <1>2, <2>1, OidTypes DEF Kids, Links, Pointer
<1>5. Cut(first, oid) = FreeLinks(L, oid)
  BY DEF Cut, FreeLinks
<1>6. Cardinality(kids) <= MaxOid + 1
  <2>1. IsFiniteSet(Oids) /\ Cardinality(Oids) = MaxOid + 1
    BY FS_Interval, ObjGraphAssumption DEF Oids
  <2> QED
    BY <2>1, FS_Subset
<1> HIDE DEF first, kids
<1>7. G \in [Tidy(lv) -> Tidy(lv)]
  <2> SUFFICES ASSUME NEW K \in Tidy(lv) PROVE Round(K) \in Tidy(lv)
    OBVIOUS
  <2> QED
    BY OneRound
<1>8. \A K \in Tidy(lv) : G[K] = Round(K)
  OBVIOUS
<1>9. MaxOid + 1 \in Nat
  BY ObjGraphAssumption
<1>10. round = [n \in 0 .. MaxOid + 1 |-> IF n = 0 THEN first ELSE Round(round[n - 1])]
  <2> HIDE DEF G, Round
  <2>1. Walks(Tidy(lv), G, first)
    BY <1>3, <1>7, Walk
  <2>2. PICK f \in [0 .. MaxOid + 1 -> Tidy(lv)] :
          f[0] = first /\ \A k \in 1 .. MaxOid + 1 : f[k] = G[f[k - 1]]
    BY <1>9, <2>1 DEF Walks
  <2>3. \A k \in 1 .. MaxOid + 1 : f[k] = Round(f[k - 1])
    BY <1>8, <1>9, <2>2
  <2>4. f = [n \in 0 .. MaxOid + 1 |-> IF n = 0 THEN first ELSE Round(f[n - 1])]
    BY <1>9, <2>2, <2>3
  <2> USE DEF Round
  <2>5. \E g : g = [n \in 0 .. MaxOid + 1 |->
                     IF n = 0 THEN first
                     ELSE IF g[n - 1].lsub[oid] = None THEN g[n - 1]
                          ELSE LinkDelete(g[n - 1], g[n - 1].lsub[oid])]
    BY <2>4
  <2> QED
    BY <2>5, Zenon
<1> HIDE DEF round, G
<1>11. /\ round[0] = first
       /\ \A k \in 1 .. MaxOid + 1 :
            round[k] = IF round[k - 1].lsub[oid] = None THEN round[k - 1]
                       ELSE LinkDelete(round[k - 1], round[k - 1].lsub[oid])
  BY <1>9, <1>10
<1>12. round[Cardinality(Kids(first, oid))] = Cut(first, oid)
  BY <1>3, <1>4, <1>6, <1>9, <1>11, RoundsEmpty
<1>13. round[Cardinality(kids)] = FreeLinks(L, oid)
  BY <1>4, <1>5, <1>12
<1> QED
  BY <1>13, Zenon DEF round, first, kids

(* Whatever the program linked, deleting an object leaves no child that    *)
(* points to it and no list that is broken: the loop over the head ends    *)
(* after as many rounds as there are children.                             *)
THEOREM TheLoopUnlinksAll == Spec => []FreeIsTheLoop
<1>1. IInv => FreeIsTheLoop
  <2> SUFFICES ASSUME IInv, NEW oid \in live
               PROVE  LET round[n \in 0 .. MaxOid + 1] ==
                            IF n = 0 THEN LinkDelete(link, oid)
                            ELSE LET L == round[n - 1]
                                 IN  IF L.lsub[oid] = None THEN L ELSE LinkDelete(L, L.lsub[oid])
                      IN  round[Cardinality({o \in Oids : link.linkid[o] = oid})]
                            = FreeLinks(link, oid)
    BY Zenon DEF FreeIsTheLoop
  <2>1. link \in Tidy(live) /\ NoCycle(link.linkid) /\ oid \in Oids
    BY DEF IInv, TypeOK, Tidy
  <2> QED
    BY <2>1, TheLoop
<1> QED
  BY <1>1, LinkInvariant, PTL

-----------------------------------------------------------------------------
(* The clones, as long as OF_CLONE_SRC is right *)

(* What a clone shows is live, is no clone and no system object, and is    *)
(* marked as a source.                                                     *)
CloneInv ==
  \A o \in Clones :
    /\ clone_ooid[o] \in live \ {o}
    /\ clone_ooid[o] \notin clone \union System
    /\ clone_ooid[o] \in clone_src

(* A clone of the camera's or the pointer's kind is none: nothing shows a  *)
(* system object, and an object with no clones may lose its mark.          *)
LEMMA NextClones ==
  ASSUME Uses = {}, IInv, CloneInv, [Next]_vars
  PROVE  CloneInv'
<1> USE OidTypes
<1>1. /\ live \subseteq Oids /\ clone \subseteq live
      /\ clone_ooid \in Pointer
      /\ \A o \in clone : o \notin System =>
           /\ clone_ooid[o] \in live \ {o}
           /\ clone_ooid[o] \notin clone \union System
           /\ clone_ooid[o] \in clone_src
  BY DEF IInv, TypeOK, CloneInv, Clones
<1> SUFFICES ASSUME NEW o \in clone', o \notin System
             PROVE  /\ clone_ooid'[o] \in live' \ {o}
                    /\ clone_ooid'[o] \notin clone' \union System
                    /\ clone_ooid'[o] \in clone_src'
  BY DEF CloneInv, Clones
<1> DEFINE Goal == /\ clone_ooid'[o] \in live' \ {o}
                   /\ clone_ooid'[o] \notin clone' \union System
                   /\ clone_ooid'[o] \in clone_src'
<1>2. ASSUME NEW oid \in Oids, NewObj(oid) PROVE Goal
  <2>1. o # oid /\ clone_ooid'[o] = clone_ooid[o]
    BY <1>1, <1>2 DEF NewObj, Pointer
  <2> QED
    BY <1>1, <1>2, <2>1 DEF NewObj
<1>3. ASSUME NEW oid \in Oids, DelObj(oid) PROVE Goal
  <2>1. /\ live' = live \ {oid} /\ clone_src' = clone_src \ {oid}
        /\ \E seen \in {oid \in clone_src} :
             LET freed == IF seen THEN ClonesOf(oid) \ {oid} ELSE {}
             IN  /\ clone' = clone \ (freed \union {oid})
                 /\ clone_ooid' = [q \in Oids |-> IF q \in freed THEN None
                                                  ELSE clone_ooid[q]]
    BY <1>3 DEF DelObj
  <2>2. CASE oid \in clone_src
    <3>1. /\ clone' = clone \ ((ClonesOf(oid) \ {oid}) \union {oid})
          /\ clone_ooid' = [q \in Oids |-> IF q \in ClonesOf(oid) \ {oid} THEN None
                                           ELSE clone_ooid[q]]
      BY <2>1, <2>2
    <3>2. /\ o \in clone /\ o # oid /\ o \notin ClonesOf(oid)
          /\ clone_ooid'[o] = clone_ooid[o]
      BY <1>1, <3>1
    <3>3. clone_ooid[o] # oid
      BY <3>2 DEF ClonesOf
    <3> QED
      BY <1>1, <2>1, <3>1, <3>2, <3>3
  <2>3. CASE oid \notin clone_src
    <3>1. /\ clone' = clone \ {oid}
          /\ clone_ooid' = [q \in Oids |-> clone_ooid[q]]
      BY <2>1, <2>3
    <3>2. /\ o \in clone /\ o # oid
          /\ clone_ooid'[o] = clone_ooid[o] /\ clone_ooid[o] # oid
      BY <1>1, <2>3, <3>1
    <3> QED
      BY <1>1, <2>1, <3>1, <3>2
  <2> QED
    BY <2>2, <2>3
<1>4. ASSUME NEW oid \in Oids, PushVertex(oid) \/ OtherData(oid) \/ DelVertex(oid) \/ Resize(oid)
      PROVE  Goal
  <2>1. /\ UNCHANGED <<live, clone, clone_ooid>>
        /\ clone_src' = clone_src \/ (clone_src' = clone_src \ {oid} /\ ClonesOf(oid) = {})
    BY <1>4 DEF PushVertex, OtherData, DelVertex, Resize, Refreshed
  <2>2. ClonesOf(oid) = {} => clone_ooid[o] # oid
    BY <2>1 DEF ClonesOf
  <2> QED
    BY <1>1, <2>1, <2>2
<1>5. ASSUME NEW oid \in Oids, NEW toid \in Oids, Clone(oid, toid) PROVE Goal
  <2>1. /\ UNCHANGED live /\ oid \in live \ System /\ toid \in live \ System
        /\ toid \notin clone
        /\ oid \in clone \/ oid \notin clone_src \/ ClonesOf(oid) = {}
    BY <1>5 DEF Clone
  <2>2. o \in clone => clone_ooid[o] # oid
    BY <1>1, <2>1 DEF ClonesOf
  <2>3. CASE oid = toid
    <3>1. UNCHANGED <<clone, clone_ooid>> /\ clone_src \ {oid} \subseteq clone_src'
      BY <1>5, <2>3 DEF Clone
    <3> QED
      BY <1>1, <2>1, <2>2, <3>1
  <2>4. CASE oid # toid
    <3>1. /\ clone' = clone \union {oid}
          /\ clone_ooid' = [clone_ooid EXCEPT ![oid] = toid]
          /\ toid \in clone_src' /\ clone_src \ {oid} \subseteq clone_src'
      BY <1>5, <2>4 DEF Clone
    <3>2. CASE o = oid
      BY <1>1, <2>1, <2>4, <3>1, <3>2 DEF Pointer
    <3>3. CASE o # oid
      BY <1>1, <2>1, <2>2, <3>1, <3>3 DEF Pointer
    <3> QED
      BY <3>2, <3>3
  <2> QED
    BY <2>3, <2>4
<1>6. ASSUME NEW oid \in Oids,
             Unlink(oid) \/ \E toid \in Oids : Link(oid, toid)
      PROVE  Goal
  BY <1>1, <1>6 DEF Unlink, Link
<1>7. CASE UNCHANGED vars
  BY <1>1, <1>7 DEF vars
<1> QED
  BY <1>2, <1>3, <1>4, <1>5, <1>6, <1>7 DEF Next

(* The clones' invariant, under the assumption that the flag is right.     *)
THEOREM CloneInvariant == ASSUME Uses = {} PROVE Spec => [](IInv /\ CloneInv)
<1>1. Init => IInv /\ CloneInv
  BY InitLinks DEF Init, CloneInv, Clones, System
<1>2. (IInv /\ CloneInv) /\ [Next]_vars => (IInv /\ CloneInv)'
  BY NextLinks, NextClones
<1> QED
  BY <1>1, <1>2, PTL DEF Spec

(* No clone outlives what it shows.                                        *)
THEOREM ClonesLive == ASSUME Uses = {} PROVE Spec => []ClonesShowObjects
<1>1. CloneInv => ClonesShowObjects
  BY DEF CloneInv, ClonesShowObjects
<1> QED
  BY <1>1, CloneInvariant, PTL

(* No clone shows a clone.                                                 *)
THEOREM ClonesFlat == ASSUME Uses = {} PROVE Spec => []NoCloneChains
<1>1. CloneInv => NoCloneChains
  BY DEF CloneInv, NoCloneChains
<1> QED
  BY <1>1, CloneInvariant, PTL

-----------------------------------------------------------------------------
(* The table implements Scene *)

(* The initial table is the initial scene.                                 *)
LEMMA SceneInit == Init => Contract!Init
BY OidTypes DEF Init, Contract!Init, Shows, Clones, Contract!Oids, Oids,
   Contract!None, None, System

(* Every operation is a step of the scene or leaves it as it is.           *)
LEMMA SceneNext ==
  ASSUME Uses = {}, IInv, CloneInv, IInv', [Next]_vars
  PROVE  [Contract!Next]_<<live, link.linkid, Shows>>
<1> USE OidTypes DEF Contract!Oids, Oids, Contract!None, None
<1> DEFINE svars == <<live, link.linkid, Shows>>
<1>1. /\ live \subseteq Oids /\ System \subseteq live /\ clone \subseteq live
      /\ clone_ooid \in Pointer
      /\ link \in Links /\ Lists(link, live)
      /\ \A o \in clone : o \notin System =>
           /\ clone_ooid[o] \in live \ {o}
           /\ clone_ooid[o] \notin clone \union System
           /\ clone_ooid[o] \in clone_src
  BY DEF IInv, TypeOK, CloneInv, Clones
<1>2. ASSUME clone' = clone, \A o \in clone : clone_ooid'[o] = clone_ooid[o]
      PROVE  Shows' = Shows
  BY <1>2 DEF Shows, Clones
<1>3. ASSUME NEW oid \in Oids, NewObj(oid) PROVE Contract!Next
  <2>1. Shows' = Shows
    BY <1>1, <1>2, <1>3 DEF NewObj, Pointer
  <2>2. Contract!Add(oid)
    BY <1>3, <2>1 DEF NewObj, Contract!Add
  <2> QED
    BY <2>2 DEF Contract!Next
<1>4. ASSUME NEW oid \in Oids, DelObj(oid) PROVE Contract!Next
  <2>1. /\ oid \in live \ System /\ live' = live \ {oid}
        /\ link'.linkid = [q \in Oids |-> IF q = oid \/ link.linkid[q] = oid
                                          THEN None ELSE link.linkid[q]]
    BY <1>1, <1>4, FreeLinksLists DEF DelObj
  <2>2. Shows' = [x \in Oids |-> IF x = oid \/ Shows[x] = oid THEN None ELSE Shows[x]]
    <3>1. \E seen \in {oid \in clone_src} :
             LET freed == IF seen THEN ClonesOf(oid) \ {oid} ELSE {}
             IN  /\ clone' = clone \ (freed \union {oid})
                 /\ clone_ooid' = [q \in Oids |-> IF q \in freed THEN None
                                                  ELSE clone_ooid[q]]
      BY <1>4 DEF DelObj
    <3>2. \A x \in clone \ System : clone_ooid[x] = oid => oid \in clone_src
      BY <1>1
    <3>3. \A x \in Oids \ System :
            /\ x \in clone' <=> x \in clone /\ x # oid /\ clone_ooid[x] # oid
            /\ x \in clone' => clone_ooid'[x] = clone_ooid[x]
      BY <3>1, <3>2 DEF ClonesOf
    <3> QED
      BY <1>1, <2>1, <3>3 DEF Shows, Clones
  <2>3. Contract!Remove(oid)
    BY <2>1, <2>2 DEF Contract!Remove, Contract!Without
  <2> QED
    BY <2>3 DEF Contract!Next
<1>5. ASSUME NEW oid \in Oids, Unlink(oid) PROVE Contract!Next
  <2>1. link'.linkid = [link.linkid EXCEPT ![oid] = None]
    BY <1>1, <1>5, LinkDeleteLists DEF Unlink
  <2>2. Shows' = Shows /\ live' = live
    BY <1>2, <1>5 DEF Unlink
  <2>3. Contract!Detach(oid)
    BY <2>1, <2>2 DEF Contract!Detach
  <2> QED
    BY <2>3 DEF Contract!Next
<1>6. ASSUME NEW oid \in Oids, PushVertex(oid) \/ OtherData(oid) \/ DelVertex(oid) \/ Resize(oid)
      PROVE  UNCHANGED svars
  <2>1. UNCHANGED <<live, link, clone, clone_ooid>>
    BY <1>6 DEF PushVertex, OtherData, DelVertex, Resize
  <2> QED
    BY <1>2, <2>1
<1>7. ASSUME NEW oid \in Oids, NEW toid \in Oids, Clone(oid, toid)
      PROVE  Contract!Next \/ UNCHANGED svars
  <2>1. /\ UNCHANGED <<live, link>> /\ oid \in live \ System
        /\ toid \in live \ System /\ toid \notin clone
        /\ oid \in clone \/ oid \notin clone_src \/ ClonesOf(oid) = {}
    BY <1>7 DEF Clone
  <2>2. CASE oid = toid
    <3>1. UNCHANGED <<clone, clone_ooid>>
      BY <1>7, <2>2 DEF Clone
    <3> QED
      BY <1>2, <2>1, <3>1
  <2>3. CASE oid # toid
    <3>1. /\ clone' = clone \union {oid}
          /\ clone_ooid' = [clone_ooid EXCEPT ![oid] = toid]
      BY <1>7, <2>3 DEF Clone
    <3>2. Shows' = [Shows EXCEPT ![oid] = toid]
      BY <1>1, <2>1, <3>1 DEF Shows, Clones, Pointer
    <3>3. Shows[toid] = None
      BY <1>1, <2>1 DEF Shows, Clones
    <3>4. \A x \in Oids : Shows[x] # oid
      BY <1>1, <2>1 DEF Shows, Clones, ClonesOf
    <3>5. Contract!Show(oid, toid)
      BY <2>1, <2>3, <3>2, <3>3, <3>4 DEF Contract!Show
    <3> QED
      BY <3>5 DEF Contract!Next
  <2> QED
    BY <2>2, <2>3
<1>8. ASSUME NEW oid \in Oids, NEW toid \in Oids, Link(oid, toid)
      PROVE  Contract!Next
  <2>1. link'.linkid = [link.linkid EXCEPT ![oid] = toid] /\ NoCycle(link'.linkid)
    BY <1>8, LinkStep
  <2>2. oid \in live /\ toid \in live /\ UNCHANGED <<live, clone, clone_ooid>>
    BY <1>8 DEF Link
  <2>3. Contract!Attach(oid, toid)
    BY <1>2, <2>1, <2>2 DEF Contract!Attach, Contract!Acyclic, NoCycle
  <2> QED
    BY <2>3 DEF Contract!Next
<1>9. CASE UNCHANGED vars
  BY <1>2, <1>9 DEF vars
<1> QED
  BY <1>3, <1>4, <1>5, <1>6, <1>7, <1>8, <1>9 DEF Next

(* The object table is a scene: it keeps its promise to the program for    *)
(* every operation, when the clones' flag is right.                        *)
THEOREM SceneImplemented == ASSUME Uses = {} PROVE Spec => ImplementsScene
<1>1. Init => Contract!Init
  BY SceneInit
<1>2. (IInv /\ CloneInv) /\ IInv' /\ [Next]_vars
        => [Contract!Next]_<<live, link.linkid, Shows>>
  BY SceneNext
<1>3. Spec => [](IInv /\ CloneInv)
  BY CloneInvariant
<1> QED
  BY <1>1, <1>2, <1>3, LinkInvariant, PTL DEF Spec, ImplementsScene, Contract!Spec
=============================================================================
