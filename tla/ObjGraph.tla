------------------------------- MODULE ObjGraph -------------------------------
(***************************************************************************)
(* The objects of one program in the server (server/object.c): which oids  *)
(* are taken, the links between objects, and the clones.                   *)
(*                                                                         *)
(* A link makes an object move along with another.  The linked objects of  *)
(* an object form a doubly linked list: lsub is its head, lnext and lprev  *)
(* its neighbours, linkid points back to the parent.  A clone draws what   *)
(* clone_ooid draws.  OF_CLONE_SRC marks an object some clone may point    *)
(* to, so that only then its deletion searches the table for them.         *)
(*                                                                         *)
(* The type of an object is its upper four bits.  OF_CAM has the bit of    *)
(* OF_CLONE and OF_POINTER that of OF_VIRTUAL, which several checks meet.  *)
(***************************************************************************)
EXTENDS Integers, FiniteSets

CONSTANTS
  MaxOid,       \* bound: the table has the oids 0..MaxOid
  MaxLinks,     \* bound: so many objects are linked at a time
  Uses          \* what the program or the allocator is admitted to do

CAM == 0                       \* made by process_sys_init()
PTR == 1
System == {CAM, PTR}           \* OF_SYSTEM
Oids == 0 .. MaxOid
None == -1

(* "push": vertices may be pushed on an object that clones show.           *)
(* "system": the camera and the pointer may be named in a CLONE.           *)
(* "freed": the allocator may overwrite the flags of a freed object.       *)
ASSUME ObjGraphAssumption ==
  /\ MaxOid \in Nat \ {0}
  /\ MaxLinks \in Nat
  /\ Uses \subseteq {"push", "system", "freed"}

VARIABLES
  live,         \* the oids whose entry is not NULL
  link,         \* linkid, lsub, lnext and lprev of every object
  clone,        \* the objects with the bit of OF_CLONE
  clone_ooid,   \* read where that bit is set
  clone_src,    \* the objects with OF_CLONE_SRC
  filled        \* the objects with vertices, materials, polygons, textures

vars == <<live, link, clone, clone_ooid, clone_src, filled>>

Pointer == [Oids -> Oids \union {None}]
Links == [linkid: Pointer, lsub: Pointer, lnext: Pointer, lprev: Pointer]
-----------------------------------------------------------------------------
(* The lists of linked objects *)

\* mutant: the next one keeps its lprev
LinkDeleteKeepPrev(L, oid) ==
  LET next == L.lnext[oid]
      prev == L.lprev[oid]
  IN  [linkid |-> [L.linkid EXCEPT ![oid] = None],
       lsub   |-> [t \in Oids |-> IF L.lsub[t] = oid THEN next ELSE L.lsub[t]],
       lnext  |-> [q \in Oids |-> CASE q = oid -> None [] q # oid /\ q = prev -> next
                                    [] OTHER -> L.lnext[q]],
       lprev  |-> [L.lprev EXCEPT ![oid] = None]]

LinkDelete(L, oid) ==
  LET up   == L.linkid[oid]
      next == L.lnext[oid]
      prev == L.lprev[oid]
  IN  [linkid |-> [L.linkid EXCEPT ![oid] = None],
       lsub   |-> [t \in Oids |-> IF t = up /\ L.lsub[t] = oid THEN next
                                  ELSE L.lsub[t]],
       lnext  |-> [q \in Oids |-> CASE q = oid -> None
                                    [] q # oid /\ up # None /\ q = prev -> next
                                    [] OTHER -> L.lnext[q]],
       lprev  |-> [q \in Oids |-> CASE q = oid -> None
                                    [] q # oid /\ up # None /\ q = next -> prev
                                    [] OTHER -> L.lprev[q]]]

\* mutant: the old head is not linked back
LinkInsertNoBacklink(L, oid, target) ==
  [L EXCEPT !.linkid[oid] = target,
            !.lnext[oid] = L.lsub[target],
            !.lsub[target] = oid]

(* The new one becomes the head. *)
LinkInsert(L, oid, target) ==
  LET head == L.lsub[target]
  IN  [linkid |-> [L.linkid EXCEPT ![oid] = target],
       lsub   |-> [L.lsub EXCEPT ![target] = oid],
       lnext  |-> [L.lnext EXCEPT ![oid] = head],
       lprev  |-> [q \in Oids |-> IF q = head THEN oid ELSE L.lprev[q]]]

\* mutant: only the head of the list is unlinked
FreeLinksHead(L, oid) ==
  LET d == LinkDelete(L, oid)
  IN  IF d.lsub[oid] = None THEN d ELSE LinkDelete(d, d.lsub[oid])

(* obj_free(): the object leaves its parent's list, and link_delete() is   *)
(* called for the head of its own list until there is none: that unlinks   *)
(* all its children (FreeIsTheLoop).                                       *)
FreeLinks(L, oid) ==
  LET d == LinkDelete(L, oid)
      Cut(f) == [q \in Oids |-> IF d.linkid[q] = oid THEN None ELSE f[q]]
  IN  [linkid |-> Cut(d.linkid),
       lsub   |-> [d.lsub EXCEPT ![oid] = None],
       lnext  |-> Cut(d.lnext),
       lprev  |-> Cut(d.lprev)]

Linked == {o \in Oids : link.linkid[o] # None}

\* mutant: only the parent is compared
CircularParent(from, to) == link.linkid[to] = from

(* obj_link() climbs from `to' to the root and finds `from': every set     *)
(* that holds `to' and, with an object, its parent, holds `from'.          *)
Circular(from, to) ==
  \A S \in SUBSET Oids :
    /\ to \in S
    /\ \A o \in S : link.linkid[o] # None => link.linkid[o] \in S
    => from \in S
-----------------------------------------------------------------------------
(* The clones *)

ClonesOf(oid) == {o \in clone : clone_ooid[o] = oid}

(* obj_size_update() and obj_pep_vertex() look for the clones of a source  *)
(* and drop the flag when they find none.                                  *)
Refreshed(oid) == IF ClonesOf(oid) = {} THEN clone_src \ {oid} ELSE clone_src

(* OF_NODATA: any bit of the type *)
NoData(oid) == oid \in clone \union System
-----------------------------------------------------------------------------
(* Actions *)

Init ==
  /\ live = System
  /\ link = [linkid |-> [o \in Oids |-> None], lsub |-> [o \in Oids |-> None],
             lnext |-> [o \in Oids |-> None], lprev |-> [o \in Oids |-> None]]
  /\ clone = {CAM}
  /\ clone_ooid = [o \in Oids |-> 0]
  /\ clone_src = {} /\ filled = {}

(* obj_new(): the first free oid *)
NewObj(oid) ==
  /\ oid \notin live /\ \A q \in 0 .. oid - 1 : q \in live
  /\ live' = live \union {oid}
  /\ clone_ooid' = [clone_ooid EXCEPT ![oid] = 0]
  /\ UNCHANGED <<link, clone, clone_src, filled>>

\* mutant: system objects are not protected
DelObjAny(oid) ==
  /\ oid \in live /\ live' = live \ {oid} /\ link' = FreeLinks(link, oid)
  /\ clone' = clone \ ({oid} \union ClonesOf(oid)) /\ clone_src' = clone_src \ {oid}
  /\ filled' = filled \ {oid} /\ UNCHANGED clone_ooid

\* mutant: the clones of the object are not looked for
DelObjOnly(oid) ==
  /\ oid \in live \ System
  /\ live' = live \ {oid} /\ link' = FreeLinks(link, oid)
  /\ clone' = clone \ {oid} /\ clone_src' = clone_src \ {oid}
  /\ filled' = filled \ {oid} /\ UNCHANGED clone_ooid

(* obj_del(): the clones become empty objects.  The flag that says whether *)
(* there are any is read from the freed object.                            *)
DelObj(oid) ==
  /\ oid \in live \ System
  /\ live' = live \ {oid}
  /\ link' = FreeLinks(link, oid)
  /\ \E seen \in {oid \in clone_src} \union (IF "freed" \in Uses THEN BOOLEAN ELSE {}) :
       LET freed == IF seen THEN ClonesOf(oid) \ {oid} ELSE {}
       IN  /\ clone' = clone \ (freed \union {oid})
           /\ clone_ooid' = [o \in Oids |-> IF o \in freed THEN None ELSE clone_ooid[o]]
  /\ clone_src' = clone_src \ {oid}
  /\ filled' = filled \ {oid}

\* mutant: a source may become a clone
CloneSource(oid, toid) ==
  /\ oid \in live \ System /\ toid \in live \ System
  /\ oid \in clone \/ oid \notin filled
  /\ toid \notin clone /\ oid # toid
  /\ clone' = clone \union {oid}
  /\ clone_ooid' = [clone_ooid EXCEPT ![oid] = toid]
  /\ clone_src' = (clone_src \ {oid}) \union {toid}
  /\ UNCHANGED <<live, link, filled>>

(* obj_clone_change(), up to the test against itself *)
Clone(oid, toid) ==
  /\ oid \in live /\ toid \in live
  /\ "system" \in Uses \/ (oid \notin System /\ toid \notin System)
  /\ oid \in clone \/ oid \notin filled
  /\ oid # PTR                               \* OF_VIRTUAL
  /\ toid \notin clone
  /\ oid \in clone \/ oid \notin clone_src \/ ClonesOf(oid) = {}
  /\ LET src == IF oid \in clone THEN clone_src ELSE clone_src \ {oid}
     IN  \/ /\ oid = toid
            /\ clone_src' = src
            /\ UNCHANGED <<clone, clone_ooid>>
         \/ /\ oid # toid
            /\ clone' = clone \union {oid}
            /\ clone_ooid' = [clone_ooid EXCEPT ![oid] = toid]
            /\ clone_src' = src \union {toid}
  /\ UNCHANGED <<live, link, filled>>

(* obj_push_vertex() compares n_vertex, which is 0 for every clone, with   *)
(* the oid, which is not: it finds no clone and drops the flag.            *)
PushVertex(oid) ==
  /\ oid \in live /\ ~NoData(oid)
  /\ "push" \in Uses \/ ClonesOf(oid) = {}
  /\ filled' = filled \union {oid}
  /\ clone_src' = clone_src \ {oid}
  /\ UNCHANGED <<live, link, clone, clone_ooid>>

(* obj_push_mat(), _poly(), _tex() and their obj_del_ *)
OtherData(oid) ==
  /\ oid \in live /\ ~NoData(oid)
  /\ filled' \in {filled \union {oid}, filled, filled \ {oid}}
  /\ UNCHANGED <<live, link, clone, clone_ooid, clone_src>>

(* obj_del_vertex(), some of them or all *)
DelVertex(oid) ==
  /\ oid \in live /\ ~NoData(oid)
  /\ filled' \in {filled, filled \ {oid}}
  /\ clone_src' = Refreshed(oid)
  /\ UNCHANGED <<live, link, clone, clone_ooid>>

(* obj_scale(), obj_pep_vertex() *)
Resize(oid) ==
  /\ oid \in live /\ ~NoData(oid)
  /\ clone_src' = Refreshed(oid)
  /\ UNCHANGED <<live, link, clone, clone_ooid, filled>>

(* obj_link() *)
Link(oid, toid) ==
  /\ oid \in live \ {PTR} /\ toid \in live /\ oid # toid
  /\ ~Circular(oid, toid)
  /\ link.linkid[oid] # toid
  /\ oid \in Linked \/ Cardinality(Linked) < MaxLinks
  /\ LET d == IF link.linkid[oid] # None THEN LinkDelete(link, oid) ELSE link
     IN  link' = LinkInsert(d, oid, toid)
  /\ UNCHANGED <<live, clone, clone_ooid, clone_src, filled>>

(* obj_unlink() *)
Unlink(oid) ==
  /\ oid \in live \ {PTR}
  /\ link' = LinkDelete(link, oid)
  /\ UNCHANGED <<live, clone, clone_ooid, clone_src, filled>>

Next ==
  \E oid \in Oids :
    \/ NewObj(oid) \/ DelObj(oid) \/ Unlink(oid)
    \/ PushVertex(oid) \/ OtherData(oid) \/ DelVertex(oid) \/ Resize(oid)
    \/ \E toid \in Oids : Clone(oid, toid) \/ Link(oid, toid)

Spec == Init /\ [][Next]_vars
-----------------------------------------------------------------------------
(* Properties *)

(* Every pointer of the table is an oid or -1, and only live objects carry *)
(* flags.                                                                  *)
TypeOK ==
  /\ live \subseteq Oids /\ System \subseteq live
  /\ link \in Links
  /\ clone \subseteq live /\ clone_src \subseteq live /\ filled \subseteq live
  /\ clone_ooid \in Pointer

(* The four pointers agree: a linked object is the head of its parent's    *)
(* list or the lnext of its lprev, the two ends of every arrow are live    *)
(* objects with the same parent, and an unlinked object is in no list.     *)
ListsAreLinked ==
  \A o \in Oids :
    LET up   == link.linkid[o]
        head == link.lsub[o]
        next == link.lnext[o]
        prev == link.lprev[o]
    IN  /\ up = None => next = None /\ prev = None
        /\ up # None => /\ o \in live /\ up \in live
                        /\ prev = None => link.lsub[up] = o
        /\ head # None => link.linkid[head] = o /\ link.lprev[head] = None
        /\ next # None => link.linkid[next] = up /\ link.lprev[next] = o
        /\ prev # None => link.linkid[prev] = up /\ link.lnext[prev] = o

(* No chain of links comes back to where it started: the climb in          *)
(* obj_link(), the recursion of into_position() and of obj_pos_update()    *)
(* end.                                                                    *)
NoCircularLinks ==
  \A S \in SUBSET Oids : S # {} => \E o \in S : link.linkid[o] \notin S

(* Unlinking the head of an object's list until the list is empty unlinks  *)
(* exactly the objects whose linkid is the object, in as many rounds as    *)
(* there are children: obj_free() leaves nothing linked to freed memory.   *)
FreeIsTheLoop ==
  \A oid \in live :
    LET round[n \in 0 .. MaxOid + 1] ==
          IF n = 0 THEN LinkDelete(link, oid)
          ELSE LET L == round[n - 1]
               IN  IF L.lsub[oid] = None THEN L ELSE LinkDelete(L, L.lsub[oid])
    IN  round[Cardinality({o \in Oids : link.linkid[o] = oid})] = FreeLinks(link, oid)

(* A clone shows an object that exists ("check if someone depended on this *)
(* object as clone...."): obj_render() and obj_size_update() read the      *)
(* target without a check.                                                 *)
Clones == clone \ System
ClonesShowObjects == \A o \in Clones : clone_ooid[o] \in live \ {o}

(* "this will check and supress looplinks and clonechains" *)
NoCloneChains == \A o \in Clones : clone_ooid[o] \notin clone

(* The camera stays what event_cam_changed() is called for, whatever is    *)
(* deleted ("can't clone from or to system objects").                      *)
CameraStaysCamera == CAM \in clone

(* The table is a scene as a program expects it. *)
Shows == [o \in Oids |-> IF o \in Clones THEN clone_ooid[o] ELSE None]
Contract == INSTANCE Scene WITH objs <- live, parent <- link.linkid, shows <- Shows
ImplementsScene == Contract!Spec
=============================================================================
