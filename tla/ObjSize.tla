------------------------------ MODULE ObjSize ------------------------------
(* Where the objects of a program are and how much room they take              *)
(* (server/object.c): the cached matrix m of an object and its distance o_r    *)
(* from the origin, its radius r, and the radius of the program's virtual      *)
(* object, by which render_by_mcp() decides whether to draw the program at all *)
(* and which the MCP is told of.                                               *)
EXTENDS ObjSpace

CONSTANTS
    MaxOid,     \* oids are 0..MaxOid; the camera and the pointer do not count
    Places,     \* where an object can be put
    Scales,     \* how it can be scaled
    Points,     \* where its vertices can be, at most MaxPoints of them
    MaxPoints,
    MaxSteps,   \* commands
    Uses        \* what programs do that leads the code astray

VARIABLES
    biggest,    \* p->biggest_obj
    steps       \* commands carried out

vars == <<object, biggest, mcp_r, told, steps>>
Oids == 0..MaxOid

\* obj_link() climbs from `to' to the root and finds `from': every set of objects that
\* holds `to' and, with an object, its parent, holds `from'.
Circular(os, from, to) ==
    \A S \in SUBSET DOMAIN os :
        (to \in S /\ \A j \in S : os[j].link # -1 => os[j].link \in S) => from \in S

\* A command is carried out on the record of object, biggest, mcp_r and told.
State == [obj |-> object, biggest |-> biggest, mcp_r |-> mcp_r, told |-> told]
Reach(o) == o.r + o.o_r

\* A variant that takes the biggest as it is.
CheckAlways(st, i) == [st EXCEPT !.mcp_r = Reach(st.obj[i]), !.told = Reach(st.obj[i]), !.biggest = i]
\* Has the object become the biggest, or is it no longer? As written, the oid of another
\* one that is bigger now is not kept, only its size.
obj_check_biggest_object(st, i) ==
    LET r      == Reach(st.obj[i])
        bigger == {j \in DOMAIN st.obj : Reach(st.obj[j]) > r}
        Report(x) == [st EXCEPT !.mcp_r = x, !.told = x, !.biggest = i]
    IN  IF r > st.mcp_r THEN Report(r)
        ELSE IF st.biggest = i /\ bigger # {} THEN Report(Max({Reach(st.obj[j]) : j \in bigger}))
        ELSE st

Clones(os, i) == {j \in DOMAIN os : os[j].clone = i}

\* Every clone of i is given a radius made of its old one, and then checked.
CloneRadii(st, i) ==
    LET o == st.obj[i]
        done[n \in 0..MaxOid + 1] ==
            IF n = 0 THEN st
            ELSE IF n - 1 \notin Clones(st.obj, i) THEN done[n - 1]
            ELSE obj_check_biggest_object(
                    [done[n - 1] EXCEPT !.obj[n - 1].r = (o.r * @) \div Abs(o.scale)], n - 1)
    IN  IF ~o.clone_src THEN st
        ELSE IF Clones(st.obj, i) = {} THEN [st EXCEPT !.obj[i].clone_src = FALSE]
        ELSE done[MaxOid + 1]

\* The radius for the vertices and the scale there are; it never gets smaller.
obj_size_update(st, i) ==
    LET o == st.obj[i]
    IN  IF o.clone # -1
        THEN LET src == st.obj[o.clone]
             IN  obj_check_biggest_object([st EXCEPT !.obj[i].r = (src.r * o.scale) \div src.scale], i)
        ELSE CloneRadii(obj_check_biggest_object(
                [st EXCEPT !.obj[i].r = Max({@, o.scale * Furthest(o)})], i), i)

\* The first of the list of objects that link to one, and the next in the list one is in.
Place(list, i) == CHOOSE n \in 1..Len(list) : list[n] = i
lsub(os, i) == IF os[i].sub = <<>> THEN -1 ELSE Head(os[i].sub)
\* A variant that goes to the first of the list only.
NoNext(os, i) == -1
lnext(os, i) ==
    LET list == os[os[i].link].sub
        n    == Place(list, i)
    IN  IF os[i].link = -1 \/ n = Len(list) THEN -1 ELSE list[n + 1]

\* obj_pos_update() calls itself: an object's matrix is computed anew, then those down its
\* list, then those along the list it is in, unless the call is the first; then it is checked.
Visits(os, first) ==
    LET visit[i \in DOMAIN os] ==
            <<[op |-> "place", oid |-> i]>>
            \o (IF lsub(os, i) = -1 THEN <<>> ELSE visit[lsub(os, i)])
            \o (IF i = first \/ lnext(os, i) = -1 THEN <<>> ELSE visit[lnext(os, i)])
            \o <<[op |-> "check", oid |-> i]>>
    IN  visit

obj_recalc_tmat(st, i) ==
    LET mtx == Position(st.obj, i)
    IN  [st EXCEPT !.obj[i].m = mtx, !.obj[i].o_r = Abs(mtx.a)]
Visit(st, call) ==
    IF call.op = "place" THEN obj_recalc_tmat(st, call.oid) ELSE obj_check_biggest_object(st, call.oid)

obj_pos_update(st, i) ==
    LET calls == Visits(st.obj, i)[i]
        done[n \in 0..Len(calls)] == IF n = 0 THEN st ELSE Visit(done[n - 1], calls[n])
    IN  done[Len(calls)]

link_delete(os, i) ==
    IF os[i].link = -1 THEN os
    ELSE [os EXCEPT ![i].link = -1, ![os[i].link].sub = RemoveAt(@, Place(@, i))]
link_insert(os, i, to) == [os EXCEPT ![i].link = to, ![to].sub = <<i>> \o @]

-----------------------------------------------------------------------------
Carry(st) == /\ steps < MaxSteps
             /\ steps' = steps + 1
             /\ object' = st.obj /\ biggest' = st.biggest /\ mcp_r' = st.mcp_r /\ told' = st.told

\* A source's vertices and scale stay as they are while clones show it, an object that
\* others link to keeps its size: programs that do otherwise are a use of their own.
NotCloned(i) == "cloneupdate" \in Uses \/ Clones(object, i) = {}
Plain(i) == "nestscale" \in Uses \/ Abs(Position(object, i).b) = 1

New == /\ DOMAIN object # Oids
       /\ LET i == Min(Oids \ DOMAIN object)
              o == [translate |-> 0, rotate |-> 1, scale |-> 1, m |-> Identity, o_r |-> 0, r |-> 0,
                    points |-> <<>>, link |-> -1, sub |-> <<>>, clone |-> -1, clone_src |-> FALSE]
          IN  Carry([State EXCEPT !.obj =
                 [j \in DOMAIN object \cup {i} |-> IF j # i THEN object[j] ELSE o]])

Translate(i) == \E x \in Places :
    Carry(obj_pos_update([State EXCEPT !.obj[i].translate = x], i))
Rotate(i) == \E f \in {1, -1} :
    Carry(obj_pos_update([State EXCEPT !.obj[i].rotate = f], i))
Scale(i) == \E s \in Scales :
    /\ NotCloned(i)
    /\ "nestscale" \in Uses \/ s = 1 \/ object[i].sub = <<>>
    /\ Carry(obj_pos_update(obj_size_update([State EXCEPT !.obj[i].scale = s], i), i))

Link(i) == \E to \in DOMAIN object \ {i} :
    /\ ~Circular(object, i, to) /\ to # object[i].link
    /\ Plain(to)
    /\ LET os == link_insert(link_delete(object, i), i, to)
       IN  Carry(obj_pos_update([State EXCEPT !.obj = os], i))
Unlink(i) == Carry(obj_pos_update([State EXCEPT !.obj = link_delete(object, i)], i))

\* obj_push_vertex() looks for clones among the objects with as many vertices as the oid
\* says, and finds none: it drops the mark of a source.
PushVertex(i) == \E x \in Points :
    /\ NotCloned(i)
    /\ object[i].clone = -1 /\ Len(object[i].points) < MaxPoints
    /\ LET r   == Max({object[i].r, object[i].scale * Abs(x)})
           st  == obj_check_biggest_object([State EXCEPT !.obj[i].r = r], i)
       IN  Carry([st EXCEPT !.obj[i].points = Append(@, x), !.obj[i].clone_src = FALSE])
PepVertex(i) == \E x \in Points :
    /\ NotCloned(i)
    /\ object[i].clone = -1 /\ object[i].points # <<>>
    /\ LET r == Max({object[i].r, object[i].scale * Abs(x)})
           n == Len(object[i].points)
       IN  Carry(CloneRadii(obj_check_biggest_object(
              [State EXCEPT !.obj[i].r = r, !.obj[i].points[n] = x], i), i))
DelVertex(i) ==
    /\ NotCloned(i)
    /\ object[i].clone = -1 /\ object[i].points # <<>>
    /\ Carry(obj_size_update([State EXCEPT !.obj[i].points = Front(@)], i))

Clone(i) == \E to \in DOMAIN object \ {i} :
    /\ object[i].points = <<>> /\ object[to].clone = -1
    /\ object[i].clone # -1 \/ Clones(object, i) = {} \/ ~object[i].clone_src
    /\ LET src == IF object[i].clone = -1 THEN FALSE ELSE object[i].clone_src
           st  == [State EXCEPT !.obj[i].clone = to, !.obj[i].clone_src = src,
                                !.obj[to].clone_src = TRUE]
       IN  Carry(obj_check_biggest_object(obj_size_update(st, i), i))

\* The objects that link to a removed one are unlinked, and stay where they are drawn; its
\* clones are emptied. Without the biggest object the size is computed anew, and not reported.
Del(i) ==
    /\ "delparent" \in Uses \/ object[i].sub = <<>>
    /\ LET up   == link_delete(object, i)
           os   == [j \in DOMAIN object \ {i} |-> IF up[j].link = i THEN [up[j] EXCEPT !.link = -1]
                                               ELSE up[j]]
           top  == {j \in DOMAIN os : \A k \in DOMAIN os : Reach(os[j]) >= Reach(os[k])}
           st   == IF biggest # i THEN [State EXCEPT !.obj = os]
                   ELSE [State EXCEPT !.obj = os,
                            !.biggest = IF top = {} THEN -1 ELSE Min(top),
                            !.mcp_r = IF top = {} THEN -1 ELSE Reach(os[Min(top)])]
           emptied[n \in 0..MaxOid + 1] ==
               IF n = 0 THEN st
               ELSE IF n - 1 \notin Clones(os, i) THEN emptied[n - 1]
               ELSE obj_check_biggest_object(
                       [emptied[n - 1] EXCEPT !.obj[n - 1].clone = -1, !.obj[n - 1].r = 0], n - 1)
       IN  Carry(IF object[i].clone_src THEN emptied[MaxOid + 1] ELSE st)

Init == /\ object = <<>>
        /\ biggest = -1 /\ mcp_r = 0 /\ told = 0 /\ steps = 0

Next == \/ New
        \/ \E i \in DOMAIN object :
               \/ Translate(i) \/ Rotate(i) \/ Scale(i) \/ Link(i) \/ Unlink(i)
               \/ PushVertex(i) \/ PepVertex(i) \/ DelVertex(i)
               \/ Clone(i) \/ Del(i)
Spec == Init /\ [][Next]_vars
=============================================================================
