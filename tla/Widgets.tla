------------------------------ MODULE Widgets ------------------------------
(* libs3dw: a tree of widgets, the objects on the server each of them is drawn *)
(* with, the focus of each widget among its kids, and the stack of widgets     *)
(* that slide to their place. Geometry is left out: a widget is `left' steps   *)
(* from its place, an arrangement moves whichever surfaces overlap.            *)
EXTENDS Integers, Sequences, SequencesExt, FiniteSets, FiniteSetsExt

CONSTANTS
    MaxWidgets, \* besides the root and the camera
    Kinds,      \* which kinds of widgets the program puts on its surfaces
    MAXANI,     \* 128 in the code
    MaxLines,   \* lines a textbox shows
    Far,        \* steps of animation until a moved widget is near enough
    MaxCalls    \* calls of the program, clicks and keys

VARIABLES
    widget,     \* the widgets there are
    server,     \* the objects there are, their links and whether they are visible
    ani_s,      \* the animation stack
    animation_on, ani_need_arr,
    calls

vars == <<widget, server, ani_s, animation_on, ani_need_arr, calls>>
Root == 0
Cam == 1
Ids == 2..MaxWidgets + 1

\* A call changes a record of the variables.
State == [w |-> widget, srv |-> server, ani |-> ani_s, on |-> animation_on, need |-> ani_need_arr]
Become(st) == /\ widget' = st.w /\ server' = st.srv /\ ani_s' = st.ani
              /\ animation_on' = st.on /\ ani_need_arr' = st.need

NewOid(st) == CHOOSE o \in 1..Cardinality(DOMAIN st.srv) + 1 : o \notin DOMAIN st.srv
Oids(x) == ToSet(x.parts)
\* The last one takes the place of the one that goes.
LastInto(s, k) == SubSeq([s EXCEPT ![k] = s[Len(s)]], 1, Len(s) - 1)
Surfaces(st) == {i \in ToSet(st.w[Root].pobj) : i # Cam}

-----------------------------------------------------------------------------
(* Requests to the server.                                                     *)

NewObject(st, i, link) ==
    LET o == NewOid(st)
    IN  [st EXCEPT !.srv = [x \in DOMAIN @ \cup {o} |->
                              IF x = o THEN [link |-> link, visible |-> FALSE] ELSE @[x]],
                   !.w[i].parts = Append(@, o)]
\* What is linked to a deleted object is not linked to anything.
DelObjects(st, gone) ==
    [st EXCEPT !.srv = [x \in DOMAIN @ \ gone |->
                          IF @[x].link \in gone THEN [@[x] EXCEPT !.link = 0] ELSE @[x]]]
FlagsOn(st, oids) == [st EXCEPT !.srv = [x \in DOMAIN @ |-> IF x \in oids THEN [@[x] EXCEPT !.visible = TRUE]
                                                           ELSE @[x]]]
Oid(st, i) == IF i = Root THEN 0 ELSE st.w[i].parts[1]
\* The object of the widget itself, and those that are linked to it, n of them.
Draw(st, i, n) ==
    LET own == NewObject(st, i, Oid(st, st.w[i].parent))
    IN  FoldLeft(LAMBDA s, k : NewObject(s, i, Oid(s, i)), own, [k \in 1..n |-> k])
\* Those after the first k are drawn again, n of them, and shown with the widget.
Redraw(st, i, k, n) ==
    LET old  == SubSeq(st.w[i].parts, k + 1, Len(st.w[i].parts))
        kept == DelObjects([st EXCEPT !.w[i].parts = SubSeq(@, 1, k)], ToSet(old))
        new  == IF k = 0 THEN Draw(kept, i, n)
                ELSE FoldLeft(LAMBDA s, j : NewObject(s, i, Oid(s, i)), kept, [j \in 1..n |-> j])
    IN  IF st.w[i].onscreen THEN FlagsOn(new, Oids(new.w[i])) ELSE new

-----------------------------------------------------------------------------
(* animate.c                                                                   *)

s3dw_ani_stackpos(st, i) == {k \in DOMAIN st.ani : st.ani[k] = i}
s3dw_ani_del(st, k) == [st EXCEPT !.ani = LastInto(@, k)]
s3dw_ani_iterate(st, i) == [st EXCEPT !.w[i].left = IF @ > 0 THEN @ - 1 ELSE 0]
s3dw_ani_finish(st, i) == [st EXCEPT !.w[i].left = 0]
\* Variant: with no place left the widget is let go.
AniAddFull(st, i) ==
    IF Len(st.ani) < MAXANI /\ st.on
    THEN IF s3dw_ani_stackpos(st, i) # {} THEN st ELSE [st EXCEPT !.ani = Append(@, i)] ELSE st
\* Onto the stack, or with no place left, or no animation, to the place at once.
s3dw_ani_add(st, i) ==
    IF Len(st.ani) < MAXANI /\ st.on
    THEN IF s3dw_ani_stackpos(st, i) # {} THEN st
         ELSE s3dw_ani_iterate([st EXCEPT !.ani = Append(@, i)], i)
    ELSE s3dw_ani_finish(st, i)

\* From the k-th on: one step each; one that is near enough leaves, and the one that took
\* its place is next.
RECURSIVE Mate(_, _)
Mate(st, k) ==
    IF k > Len(st.ani) THEN st
    ELSE LET i    == st.ani[k]
             step == s3dw_ani_iterate(st, i)
         IN  IF step.w[i].left = 0 THEN Mate(s3dw_ani_del(s3dw_ani_finish(step, i), k), k)
             ELSE Mate(step, k + 1)

\* s3dw_arrange(): those that overlap, or are too far from the camera, have a new place, and
\* every surface is turned. Without surfaces nothing happens.
s3dw_arrange(st, moved, again) ==
    LET far(s, i) == s3dw_ani_add(IF i \in moved THEN [s EXCEPT !.w[i].left = Far] ELSE s, i)
        quiet     == [st EXCEPT !.need = FALSE]
    IN  IF Surfaces(st) = {} THEN quiet
        ELSE [FoldLeft(far, quiet, SelectSeq(st.w[Root].pobj, LAMBDA i : i # Cam)) EXCEPT !.need = again]
\* Without animation it is arranged at once, until it is done.
s3dw_ani_needarr(st, moved) ==
    IF st.on THEN [st EXCEPT !.need = TRUE] ELSE s3dw_arrange(st, moved, FALSE)

-----------------------------------------------------------------------------
(* widget.c                                                                    *)

\* Variant: the focus is left as it is.
RemoveBare(st, i) ==
    LET p == st.w[i].parent
        k == CHOOSE x \in DOMAIN st.w[p].pobj : st.w[p].pobj[x] = i
        s == FoldLeft(LAMBDA a, x : s3dw_ani_del(a, x), st, SetToSeq(s3dw_ani_stackpos(st, i)))
    IN  [s EXCEPT !.w[p].pobj = LastInto(@, k)]
\* Off the stack, and out of the parent's list; the last kid takes the place.
s3dw_widget_remove(st, i) ==
    LET p == st.w[i].parent
        k == CHOOSE x \in DOMAIN st.w[p].pobj : st.w[p].pobj[x] = i
        n == Len(st.w[p].pobj)
        s == FoldLeft(LAMBDA a, x : s3dw_ani_del(a, x), st, SetToSeq(s3dw_ani_stackpos(st, i)))
        f == IF s.w[p].focus = k THEN 0 ELSE IF s.w[p].focus = n THEN k ELSE s.w[p].focus
    IN  [s EXCEPT !.w[p].focus = f, !.w[p].pobj = LastInto(@, k)]

\* The objects of the widget go when its kids are gone.
s3dw_destroy(st, i) ==
    LET s == DelObjects(st, Oids(st.w[i])) IN [s EXCEPT !.w = [x \in DOMAIN @ \ {i} |-> @[x]]]
RECURSIVE s3dw_delete(_, _), DeleteKids(_, _)
s3dw_delete(st, i) == s3dw_destroy(DeleteKids(s3dw_widget_remove(st, i), i), i)
DeleteKids(st, i) ==
    IF st.w[i].pobj = <<>> THEN st ELSE DeleteKids(s3dw_delete(st, st.w[i].pobj[1]), i)

s3dw_focus(st, i) ==
    LET p == st.w[i].parent
    IN  [st EXCEPT !.w[p].focus = CHOOSE k \in DOMAIN st.w[p].pobj : st.w[p].pobj[k] = i]

\* The kids first; whether they are shown depends on the widget, not on them.
RECURSIVE s3dw_widget_visible(_, _)
s3dw_widget_visible(st, i) ==
    LET kids == IF st.w[i].visible
                THEN FoldLeft(LAMBDA s, k : s3dw_widget_visible(s, k), st, st.w[i].pobj) ELSE st
    IN  FlagsOn([kids EXCEPT !.w[i].onscreen = TRUE], Oids(kids.w[i]))
s3dw_show(st, i) == s3dw_widget_visible([st EXCEPT !.w[i].visible = TRUE], i)

\* A new widget is appended; it is marked visible when its parent is not.
Fresh(st) == Min(Ids \ DOMAIN st.w)
s3dw_widget_append(st, type, p) ==
    LET i == Fresh(st)
        x == [type |-> type, parent |-> p, pobj |-> <<>>, focus |-> 0, left |-> 0, parts |-> <<>>,
              visible |-> ~st.w[p].visible, onscreen |-> FALSE]
    IN  [st EXCEPT !.w = [y \in DOMAIN @ \cup {i} |->
            IF y = i THEN x ELSE IF y = p THEN [@[p] EXCEPT !.pobj = Append(@, i)] ELSE @[y]]]

s3dw_surface_new(st, moved) ==
    LET i == Fresh(st)
        s == Draw(s3dw_widget_append(st, "surface", Root), i, 2)
    IN  s3dw_ani_add(s3dw_ani_needarr([s EXCEPT !.w[i].left = Far], moved), i)
s3dw_button_new(st, p) == Draw(s3dw_widget_append(st, "button", p), Fresh(st), 1)
s3dw_label_new(st, p) == Draw(s3dw_widget_append(st, "label", p), Fresh(st), 0)
s3dw_input_new(st, p) == Draw(s3dw_widget_append(st, "input", p), Fresh(st), 1)
s3dw_scrollbar_new(st, p) == Draw(s3dw_widget_append(st, "scrollbar", p), Fresh(st), 3)
s3dw_textbox_new(st, p, n) ==
    LET i == Fresh(st)
    IN  s3dw_scrollbar_new(s3dw_scrollbar_new(Draw(s3dw_widget_append(st, "textbox", p), i, n), i), i)

\* Variant: the new text of an input is not switched on.
ChangeTextBare(st, i, n) ==
    LET k == IF st.w[i].type = "label" THEN 0 ELSE 1
    IN  [Redraw([st EXCEPT !.w[i].onscreen = FALSE], i, k, n) EXCEPT !.w[i].onscreen = st.w[i].onscreen]
\* A label is drawn anew, an input's text, the lines of a textbox that is scrolled or changed.
ChangeText(st, i, n) ==
    CASE st.w[i].type = "label" -> Redraw(st, i, 0, 0)
      [] st.w[i].type = "input" -> Redraw(st, i, 1, 1)
      [] st.w[i].type = "textbox" -> Redraw(st, i, 1, n)

-----------------------------------------------------------------------------
(* event.c: a click is offered to a widget, then to its kids; a key goes down  *)
(* the chain of the focused ones until an input takes it.                      *)

Owner(o) == {i \in DOMAIN widget : o \in Oids(widget[i])}
\* The program's onclick: nothing, or it deletes a widget, which may be the one that calls it.
Called(st) == {st} \cup {s3dw_delete(st, j) :
                            j \in {x \in DOMAIN st.w \ {Root, Cam} : st.w[x].type # "scrollbar"}}
\* What the widget that owns the clicked object does. A textbox calls the program when its
\* frame is clicked. An input has the focus before it calls: that call is the Delete that may
\* come next, as nothing is done after it.
Clicked(st, i, o) ==
    CASE st.w[i].type = "surface" -> {s3dw_focus(st, i)}
      [] st.w[i].type = "input" -> {s3dw_focus(st, i)}
      [] st.w[i].type \in {"button", "label"} -> Called(st)
      [] st.w[i].type = "textbox" /\ o = st.w[i].parts[1] -> Called(st)
      [] st.w[i].type = "scrollbar" ->
            IF o \in {st.w[i].parts[2], st.w[i].parts[3]}
            THEN {ChangeText(st, st.w[i].parent, n) : n \in 0..MaxLines} ELSE {st}
      [] OTHER -> {st}
RECURSIVE KeyTarget(_)
KeyTarget(i) == IF widget[i].type = "input" \/ widget[i].focus = 0 THEN i
                ELSE KeyTarget(widget[i].pobj[widget[i].focus])

-----------------------------------------------------------------------------
Plain(parent) == [type |-> "cam", parent |-> parent, pobj |-> <<>>, focus |-> 0, left |-> 0,
                  parts |-> <<>>, visible |-> TRUE, onscreen |-> FALSE]
\* After s3dw_getroot().
Init == /\ widget = (Root :> [Plain(-1) EXCEPT !.type = "root", !.pobj = <<Cam>>]) @@ (Cam :> Plain(Root))
        /\ server = <<>>
        /\ ani_s = <<>>
        /\ animation_on = FALSE /\ ani_need_arr = FALSE
        /\ calls = 0

Call(st) == calls < MaxCalls /\ calls' = calls + 1 /\ Become(st)
Room(n) == Cardinality(Ids \ DOMAIN widget) >= n
OfType(types) == {i \in DOMAIN widget : widget[i].type \in types}

SurfaceNew == Room(1) /\ \E moved \in SUBSET Surfaces(State) : Call(s3dw_surface_new(State, moved))
ButtonNew  == "button" \in Kinds /\ Room(1) /\ \E p \in OfType({"surface"}) : Call(s3dw_button_new(State, p))
LabelNew   == "label" \in Kinds /\ Room(1) /\ \E p \in OfType({"surface"}) : Call(s3dw_label_new(State, p))
InputNew   == "input" \in Kinds /\ Room(1) /\ \E p \in OfType({"surface"}) : Call(s3dw_input_new(State, p))
TextboxNew == "textbox" \in Kinds /\ Room(3) /\ \E p \in OfType({"surface"}), n \in 0..MaxLines :
                  Call(s3dw_textbox_new(State, p, n))
Show   == \E i \in DOMAIN widget \ {Root, Cam} : Call(s3dw_show(State, i))
Focus  == \E i \in DOMAIN widget \ {Root, Cam} : Call(s3dw_focus(State, i))
Delete == \E i \in OfType({"surface", "button", "label", "input", "textbox"}) : Call(s3dw_delete(State, i))
Change == \E i \in OfType({"label", "input", "textbox"}), n \in 0..MaxLines :
              /\ widget[i].type # "textbox" => n = 0
              /\ Call(ChangeText(State, i, n))
MoveIt == \E i \in OfType({"surface", "button"}) :
              Call(s3dw_ani_add([State EXCEPT !.w[i].left = Far], i))
Click  == \E o \in DOMAIN server : \E i \in Owner(o) : \E st \in Clicked(State, i, o) : Call(st)
Key    == /\ widget[KeyTarget(Root)].type = "input"
          /\ Call(ChangeText(State, KeyTarget(Root), 0))
CamMoves == \E moved \in SUBSET Surfaces(State) : Call(s3dw_ani_needarr(State, moved))

\* s3dw_ani_mate() in the main loop of the program.
AniMate == \E moved \in SUBSET Surfaces(State), again \in BOOLEAN :
    LET on == [State EXCEPT !.on = TRUE]
        s  == IF ani_need_arr THEN s3dw_arrange(on, moved, again) ELSE on
    IN  /\ ani_need_arr \/ (moved = {} /\ ~again)
        /\ Become(Mate(s, 1)) /\ UNCHANGED calls

Next == \/ SurfaceNew \/ ButtonNew \/ LabelNew \/ InputNew \/ TextboxNew
        \/ Show \/ Focus \/ Delete \/ Change \/ MoveIt \/ Click \/ Key \/ CamMoves \/ AniMate
Spec == Init /\ [][Next]_vars

-----------------------------------------------------------------------------
\* However widgets were made, drawn again and deleted, from a callback too: the objects on
\* the server are those of the widgets, each of one widget; they are switched on when the
\* widget is on the screen, and hang below another widget's that is there.
ScreenMatches ==
    /\ DOMAIN server = UNION {Oids(widget[i]) : i \in DOMAIN widget}
    /\ \A i, j \in DOMAIN widget : i # j => Oids(widget[i]) \cap Oids(widget[j]) = {}
    /\ \A i \in DOMAIN widget : \A o \in Oids(widget[i]) :
          /\ server[o].visible = widget[i].onscreen
          /\ server[o].link \in {0} \cup DOMAIN server
          /\ server[o].link = 0 => widget[i].parent = Root

\* Whoever is deleted around it, the widget that has the focus keeps it.
Focused(w, p) == IF w[p].focus = 0 THEN -1
                 ELSE IF w[p].focus \in DOMAIN w[p].pobj THEN w[p].pobj[w[p].focus] ELSE -2
FocusKept == [][\A p \in DOMAIN widget \cap DOMAIN widget' :
                  LET f == Focused(widget, p)
                  IN  DOMAIN widget' # DOMAIN widget /\ f \in DOMAIN widget' \cup {-1}
                      => Focused(widget', p) = f]_vars

\* Every widget that is not at its place is on the stack that takes it there, once, and only
\* widgets that exist are, also when the stack is full.
AniIsLive ==
    /\ ToSet(ani_s) \subseteq DOMAIN widget
    /\ Cardinality(ToSet(ani_s)) = Len(ani_s) /\ Len(ani_s) <= MAXANI
    /\ \A i \in DOMAIN widget : widget[i].left > 0 => i \in ToSet(ani_s)
=============================================================================
