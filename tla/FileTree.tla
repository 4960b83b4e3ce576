------------------------------ MODULE FileTree ------------------------------
(* The file manager s3dfm: the tree of nodes it keeps of the file system, how  *)
(* each is displayed, the focus that walks over them, and the stack of what is *)
(* animated: nodes, and the flying copies of the files a job is to copy. A     *)
(* node is freed when it is in no list; files come and go on the disk behind   *)
(* the program's back.                                                         *)
EXTENDS Integers, Sequences, FiniteSets, SequencesExt

CONSTANTS
    Nodes, Root,
    Folders,        \* the nodes that are directories
    Parent,         \* the directory of each node but Root
    Uses            \* "opened": an opened directory, or what is above it, vanishes
                    \* "icon": a directory that is shown as an icon is refreshed

VARIABLES disk,     \* the nodes that exist
          t         \* [sub, pindex, disp, detached, dirs_opened], as in t_node, the focus, the
                    \* stack ani, and whether the list of a job has copies; on the stack
                    \* "copy" stands for those of the list, "stale" for those freed with one

vars == <<disk, t>>
Kids(n) == {m \in Nodes \ {Root} : Parent[m] = n}
Subs(st, n) == {st.sub[n][i] : i \in DOMAIN st.sub[n]}
RECURSIVE Above(_)
Above(n) == IF n = Root THEN {} ELSE {Parent[n]} \cup Above(Parent[n])
Known(st) == {n \in Nodes : n = Root \/ (n \in Subs(st, Parent[n])
                             /\ \A a \in Above(n) \ {Root} : a \in Subs(st, Parent[a]))}
Opened(st, n) == {m \in Subs(st, n) : st.disp[m] = "dir"}

-----------------------------------------------------------------------------
(* focus.c, icon.c and box.c                                                   *)

focus_set(st, n) == [st EXCEPT !.focus = n, !.ani = @ \cup {Root}]
\* Variant: the focus stays when the box it is on is closed.
FocusStays(st, from, n) == st
FocusFrom(st, from, n) == IF st.focus \in from THEN focus_set(st, n) ELSE st

Shows(st, ns, d) == [st EXCEPT !.disp = [n \in Nodes |-> IF n \in ns THEN d ELSE @[n]]]
box_draw_icons(st, n) == Shows(st, {m \in Subs(st, n) : st.disp[m] = "none"}, "icon")
box_order_subdirs(st, n) ==
    IF st.dirs_opened[n] = 0 THEN st ELSE [st EXCEPT !.ani = @ \cup Opened(st, n)]

box_expand(st, n) ==
    LET drawn == box_draw_icons(Shows(st, {n}, "dir"), n)
    IN  IF st.disp[n] = "dir" THEN st
        ELSE box_order_subdirs([drawn EXCEPT !.dirs_opened[Parent[n]] = @ + 1], Parent[n])

box_unexpand(st, n) ==
    LET back == Shows([st EXCEPT !.detached[n] = FALSE, !.dirs_opened[Parent[n]] = @ - 1], {n}, "icon")
    IN  box_order_subdirs(back, Parent[n])

\* box_close() by force, the kids first; a kid that was open is an icon by then.
RECURSIVE box_close(_, _)
box_close(st, n) ==
    IF n = Root \/ st.disp[n] # "dir" THEN st
    ELSE LET kids == FoldSeq(LAMBDA m, acc : IF acc.disp[m] = "dir" THEN box_close(acc, m) ELSE acc,
                             st, st.sub[n])
             icons == {m \in Subs(kids, n) : kids.disp[m] = "icon"}
             bare == Shows(FocusFrom(FocusFrom(kids, {n}, Parent[n]), icons, Parent[n]), icons, "none")
         IN  box_unexpand(IF icons = {} THEN bare ELSE [bare EXCEPT !.detached[n] = FALSE], n)

-----------------------------------------------------------------------------
(* node.c and parse.c                                                          *)

\* One node: its objects, its place on the stack, and the focus, which goes to the parent.
Freed(st, n) ==
    LET up == FocusFrom(st, {n}, Parent[n])
    IN  [Shows(up, {n}, "none") EXCEPT !.ani = @ \ {n}, !.sub[n] = <<>>,
                                        !.detached[n] = FALSE, !.dirs_opened[n] = 0, !.pindex[n] = 0]
RECURSIVE node_delete(_, _)
node_delete(st, n) == Freed(FoldSeq(LAMBDA m, acc : node_delete(acc, m), st, st.sub[n]), n)

\* The entries that are not on the disk any more go; the last takes the place of one that
\* went, is told so, and is itself not looked at. When the one that went is the last itself,
\* the index is written into the node that was just freed.
RECURSIVE Sweep(_, _, _)
Sweep(st, n, i) ==
    IF i > Len(st.sub[n]) THEN st
    ELSE IF st.sub[n][i] \in disk THEN Sweep(st, n, i + 1)
    ELSE LET gone == node_delete(st, st.sub[n][i])
             last == Len(st.sub[n])
             list == [k \in 1..(last - 1) |-> IF k = i THEN st.sub[n][last] ELSE st.sub[n][k]]
         IN  Sweep([gone EXCEPT !.sub[n] = list, !.pindex[st.sub[n][last]] = i], n, i + 1)
\* An entry that was found is told its place in the list.
Found(st, n) ==
    LET all == st.sub[n] \o SetToSeq((Kids(n) \cap disk) \ Subs(st, n))
    IN  [st EXCEPT !.sub[n] = all,
                   !.pindex = [m \in Nodes |-> IF m \in Kids(n) \cap disk
                                               THEN CHOOSE i \in DOMAIN all : all[i] = m ELSE @[m]]]
\* Variant: a directory that has grown is not swept.
ParseGrown(st, n) ==
    IF n \notin disk THEN st
    ELSE IF Kids(n) \cap disk \subseteq Subs(st, n) THEN Sweep(Found(st, n), n, 1)
    ELSE Found(st, n)
parse_dir(st, n) == IF n \notin disk THEN st ELSE Sweep(Found(st, n), n, 1)

node_select(st, n) ==
    CASE st.disp[n] = "dir" /\ n = Root ->
            focus_set(IF st.focus = n THEN [st EXCEPT !.detached[n] = ~@] ELSE st, n)
      [] st.disp[n] = "dir" /\ n # Root ->
            box_order_subdirs(IF st.focus = n THEN [st EXCEPT !.detached[n] = ~@] ELSE focus_set(st, n), Parent[n])
      [] st.disp[n] = "icon" /\ n \in Folders ->
            LET plain == [st EXCEPT !.detached[n] = FALSE]
            IN  focus_set(IF n \in disk THEN box_expand(parse_dir(plain, n), n) ELSE plain, n)
      [] st.disp[n] = "icon" /\ n \notin Folders ->
            focus_set([st EXCEPT !.detached[n] = ~@, !.ani = @ \cup {n}], n)
      [] OTHER -> [st EXCEPT !.detached[n] = ~@]

-----------------------------------------------------------------------------
(* event.c, animation.c and the disk                                           *)

Init == /\ disk = Nodes
        /\ t = box_draw_icons(parse_dir(
                 [sub |-> [n \in Nodes |-> <<>>], pindex |-> [n \in Nodes |-> 0],
                  detached |-> [n \in Nodes |-> FALSE], copying |-> FALSE,
                  disp |-> [n \in Nodes |-> IF n = Root THEN "dir" ELSE "none"],
                  dirs_opened |-> [n \in Nodes |-> 0], focus |-> Root, ani |-> {Root}], Root), Root)

\* event_click() on what a node shows; the cross of a box closes it.
Click(n) == /\ n \in Known(t) /\ t.disp[n] # "none"
            /\ \/ t' = node_select(t, n)
               \/ t.disp[n] = "dir" /\ t' = box_close(t, n)
            /\ UNCHANGED disk

Dir(n) == IF n \in Folders THEN n ELSE Parent[n]
\* event_key(): `r' looks at the directory again.
Refresh == LET n == Dir(t.focus)
               looked == box_draw_icons(parse_dir(t, n), n)
           IN  /\ "icon" \in Uses \/ t.disp[n] = "dir"
               /\ t' = box_order_subdirs(looked, n)
               /\ UNCHANGED disk
Return == t' = node_select(t, t.focus) /\ UNCHANGED disk
Backspace == /\ t' = box_close(t, IF t.disp[t.focus] = "dir" \/ t.focus = Root THEN t.focus ELSE Parent[t.focus])
             /\ UNCHANGED disk
\* window_fsani(): the directory of a file that a job is done with. How the node is displayed
\* is looked up after it may have been freed; then it may be anything.
CleanUp(n) == /\ n \in Known(t) \ {Root}
              /\ LET done == parse_dir([t EXCEPT !.detached[n] = FALSE], Parent[n])
                 IN  \E d \in IF n \in Known(done) THEN {done.disp[n]} ELSE {"none", "icon", "dir"} :
                        t' = IF d = "dir" THEN box_order_subdirs(done, Parent[n]) ELSE done
              /\ UNCHANGED disk
\* get_selected() for a copy; what is copied flies to its new place; fl_del() frees what flies
\* with the list, and leaves it on the stack.
GetSelected == /\ ~t.copying /\ \E n \in Known(t) \ {Root} : t.detached[n]
               /\ t' = [t EXCEPT !.copying = TRUE, !.ani = @ \cup {"copy"}]
               /\ UNCHANGED disk
Fly == t.copying /\ t' = [t EXCEPT !.ani = @ \cup {"copy"}] /\ UNCHANGED disk
ListDeleted == /\ t.copying
               /\ t' = [t EXCEPT !.copying = FALSE,
                                 !.ani = {IF x = "copy" THEN "stale" ELSE x : x \in @}]
               /\ UNCHANGED disk

\* focus_by_key(): along the boxes or the icons of one directory, up into it and down.
Beside == {m \in Subs(t, Parent[t.focus]) : t.disp[m] = t.disp[t.focus]}
FocusByKey ==
    /\ \/ t.focus # Root /\ t.disp[t.focus] # "none" /\ \E n \in Beside : t' = focus_set(t, n)
       \/ t.disp[t.focus] # "icon" /\ t.sub[t.focus] # <<>> /\ t' = focus_set(t, t.sub[t.focus][1])
       \/ t.disp[t.focus] = "icon" /\ t' = focus_set(t, Parent[t.focus])
       \/ t.disp[t.focus] = "icon" /\ \E n \in Opened(t, Parent[t.focus]) : t' = focus_set(t, n)
       \/ t.focus # Root /\ t.disp[t.focus] = "dir"
          /\ \E n \in Subs(t, Parent[t.focus]) : t.disp[n] = "icon" /\ t' = focus_set(t, n)
    /\ UNCHANGED disk

\* ani_mate(): a node that has arrived, or has no object, leaves the stack; so does one that
\* was freed, when what is read there says so.
ani_mate == \E n \in t.ani : t' = [t EXCEPT !.ani = @ \ {n}] /\ UNCHANGED disk

Below(n) == {m \in Nodes : n \in Above(m)} \cup {n}
Vanish(n) ==
    /\ n \in disk \ {Root}
    /\ "opened" \in Uses \/ t.disp[n] # "dir"
    /\ disk' = disk \ Below(n) /\ UNCHANGED t
Appear(n) == n \notin disk /\ Parent[n] \in disk /\ disk' = disk \cup {n} /\ UNCHANGED t

Next == \/ Refresh \/ Return \/ Backspace \/ FocusByKey \/ ani_mate
        \/ GetSelected \/ Fly \/ ListDeleted
        \/ \E n \in Nodes : Click(n) \/ CleanUp(n) \/ Vanish(n) \/ Appear(n)
Spec == Init /\ [][Next]_vars

-----------------------------------------------------------------------------
SweptOf(n) == /\ Kids(n) \cap disk \subseteq Subs(t', n)
              /\ 2 * Cardinality(Subs(t', n) \ disk) <= Cardinality(Subs(t, n) \ disk)

\* Between two events the focus is on a node of the tree, and the stack of animations has no
\* node that was freed, whatever was closed, refreshed or deleted under it, but the copies
\* that went with the list of a job.
PointersLive ==
    /\ t.focus \in Known(t)
    /\ t.ani \subseteq Known(t) \cup {"copy", "stale"} /\ ("copy" \in t.ani => t.copying)

\* What is shown stands on an open box, each box knows how many stand on it - the ring they
\* are ordered in is computed from that - and each node its place in the list, from where the
\* keys go to its neighbours.
BoxesStand == \A n \in Known(t) :
    /\ n # Root => /\ t.disp[n] # "none" => t.disp[Parent[n]] = "dir"
                   /\ t.pindex[n] \in DOMAIN t.sub[Parent[n]] /\ t.sub[Parent[n]][t.pindex[n]] = n
    /\ t.dirs_opened[n] = Cardinality(Opened(t, n))

\* A directory that was looked at again has the entries that are on the disk, and of those
\* that have vanished at most every second is left: one may be passed over that took the place
\* of another.
Refreshed == [][Refresh => LET n == Dir(t.focus) IN n \in disk => SweptOf(n)]_vars
=============================================================================
