------------------------------ MODULE MeshView ------------------------------
(* The viewer meshs3d: a daemon sends blocks of lines, each a link, a network  *)
(* or an uplink of a node of a mesh, and whoever is not in them any more goes  *)
(* from the screen, links at the end of a block, nodes by a count of blocks.   *)
(* Places and movement are left out, and the shades of a colour.               *)
EXTENDS Integers, FiniteSets

CONSTANTS
    Links, Networks, Uplinks,   \* what lines can say: links and networks are pairs of nodes
    Etxs,       \* how good a link can be: "good" as it starts, or else
    MaxBlocks,  \* blocks counted
    Uses        \* "burst": the next block begins in the same round in which one ends

VARIABLES
    node,       \* node_hash: the nodes that were ever reported
    con,        \* con_hash, a connection by the two nodes it connects
    node_count, last_count,     \* the nodes to be seen, and the number on the label
    output_block_counter, output_block_completed,
    color_switch,
    phase,      \* "draw" and "net", the two parts of mainloop()
    objs,       \* the program's objects on the server, and what each looks like
    since       \* how many blocks have ended since a node was reported, up to 2; not in the code

vars == <<node, con, node_count, last_count, output_block_counter, output_block_completed,
          color_switch, phase, objs, since>>

State == [node |-> node, con |-> con, count |-> node_count, objs |-> objs, since |-> since]
Become(st) == /\ node' = st.node /\ con' = st.con /\ node_count' = st.count
              /\ objs' = st.objs /\ since' = st.since

\* An object of its owner; that it differs from those there are is all that matters.
New(st, owner) == LET i == CHOOSE i \in 1..Cardinality(DOMAIN st.objs) + 1 :
                               /\ <<owner, i>> \notin DOMAIN st.objs
                               /\ \A j \in 1..i - 1 : <<owner, j>> \in DOMAIN st.objs
                  IN  <<owner, i>>
None == <<>>
Made(os, o, look) == [x \in DOMAIN os \cup {o} |-> IF x = o THEN look ELSE os[x]]
Deleted(os, gone) == [x \in DOMAIN os \ gone |-> os[x]]
Visible(nodes) == {n \in DOMAIN nodes : nodes[n].visible}

-----------------------------------------------------------------------------
(* process.c: one line                                                         *)

NewNode == [type |-> 0, modified |-> TRUE, visible |-> TRUE, obj |-> None, desc |-> None,
            last_seen |-> output_block_counter]

\* Variant: a node that comes back is not counted.
HandleMeshNodeUncounted(st, n) ==
    IF n \in DOMAIN st.node
    THEN [st EXCEPT !.node[n].visible = TRUE, !.node[n].last_seen = output_block_counter,
                    !.node[n].modified = @ \/ ~st.node[n].visible, !.since[n] = 0]
    ELSE [st EXCEPT !.node = Made(@, n, NewNode), !.count = @ + 1, !.since = Made(@, n, 0)]
handle_mesh_node(st, n) ==
    IF n \in DOMAIN st.node
    THEN [st EXCEPT !.count = IF st.node[n].visible THEN @ ELSE @ + 1,
                    !.node[n].visible = TRUE, !.node[n].last_seen = output_block_counter,
                    !.node[n].modified = @ \/ ~st.node[n].visible, !.since[n] = 0]
    ELSE [st EXCEPT !.node = Made(@, n, NewNode), !.count = @ + 1, !.since = Made(@, n, 0)]

set_type(st, n, type) ==
    IF st.node[n].type = type THEN st
    ELSE [st EXCEPT !.node[n].type = type, !.node[n].modified = TRUE]

\* A line from `from' to `to': the connection is made, or drawn anew when it lost its object.
handle_con(st, from, to, etx) ==
    LET k    == {from, to}
        o    == New(st, <<k, "line">>)
        old  == IF k \in DOMAIN st.con THEN st.con[k]
                ELSE [old |-> FALSE, obj |-> None, color |-> 0, etx |-> [n \in k |-> "good"]]
        bare == old.obj = None
    IN  [st EXCEPT !.con = Made(@, k, [old EXCEPT !.obj = IF bare THEN o ELSE @,
                                                  !.etx[from] = etx, !.old = FALSE]),
                   !.objs = IF bare THEN Made(@, o, 0) ELSE @]

\* A line is read; more lines follow the end of a block in the same round only with "burst".
Line(st) ==
    /\ phase = "net" /\ ("burst" \in Uses \/ ~output_block_completed)
    /\ Become(st)
    /\ UNCHANGED <<last_count, output_block_counter, output_block_completed, color_switch, phase>>

Uplink == \E n \in Uplinks : Line(set_type(handle_mesh_node(State, n), n, 1))
Network == \E l \in Networks :
    Line(handle_con(set_type(handle_mesh_node(handle_mesh_node(State, l[1]), l[2]), l[2], 2),
                    l[1], l[2], "network"))
Link == \E l \in Links, etx \in Etxs :
    Line(handle_con(handle_mesh_node(handle_mesh_node(State, l[1]), l[2]), l[1], l[2], etx))

\* Variant: what is old goes from the screen, and stays in the table.
AgeUndrawn(st) ==
    LET gone == {k \in DOMAIN st.con : st.con[k].old}
    IN  [st EXCEPT !.con = [k \in DOMAIN @ |-> [@[k] EXCEPT !.old = TRUE,
                                                           !.obj = IF k \in gone THEN None ELSE @]],
                   !.objs = Deleted(@, {st.con[k].obj : k \in gone})]
\* At the end of a block the connections that were not in it go.
Age(st) ==
    LET gone == {k \in DOMAIN st.con : st.con[k].old}
    IN  [st EXCEPT !.con = [k \in DOMAIN @ \ gone |-> [@[k] EXCEPT !.old = TRUE]],
                   !.objs = Deleted(@, {st.con[k].obj : k \in gone})]

\* The end is noticed when the brace and the newline after it are in one reading.
BlockEnd ==
    /\ phase = "net" /\ output_block_counter < MaxBlocks
    /\ "burst" \in Uses \/ ~output_block_completed
    /\ LET st == [State EXCEPT !.since = [n \in DOMAIN @ |-> IF @[n] < 2 THEN @[n] + 1 ELSE 2]]
       IN  \/ output_block_completed' = TRUE /\ Become(Age(st))
           \/ UNCHANGED output_block_completed /\ Become(st)
    /\ UNCHANGED <<last_count, output_block_counter, color_switch, phase>>

\* net_main() has no more to read, or has read enough for a round.
NetDone == /\ phase = "net" /\ phase' = "draw"
           /\ UNCHANGED <<node, con, node_count, last_count, output_block_counter,
                          output_block_completed, color_switch, objs, since>>

-----------------------------------------------------------------------------
(* main.c: what is drawn                                                       *)

Color(c) == LET es == {c.etx[n] : n \in DOMAIN c.etx}
            IN  IF "network" \in es THEN 1 ELSE IF es = {"good"} THEN 2 ELSE 3

\* calc_node_mov(): the lines between nodes that are to be seen are moved, and get the
\* colour of their class when that has changed, or white.
calc_node_mov(st) ==
    LET drawn == {k \in DOMAIN st.con : k \subseteq Visible(st.node)}
        cons  == [k \in DOMAIN st.con |->
                     [st.con[k] EXCEPT !.color = IF k \notin drawn THEN @
                                                 ELSE IF color_switch THEN Color(st.con[k]) ELSE 0]]
        pep   == {k \in drawn : color_switch => cons[k].color # st.con[k].color}
    IN  [st EXCEPT !.con = cons,
                   !.objs = [o \in DOMAIN @ |->
                                IF \E k \in pep : cons[k].obj = o
                                THEN cons[CHOOSE k \in pep : cons[k].obj = o].color ELSE @[o]]]

\* A node that was changed gets a new object, the clone for its type, and its name.
draw_node(st, n) ==
    LET bare == Deleted(st.objs, {st.node[n].obj, st.node[n].desc})
        o    == New([st EXCEPT !.objs = bare], <<{n}, "node">>)
        d    == New([st EXCEPT !.objs = bare], <<{n}, "desc">>)
    IN  [st EXCEPT !.objs = Made(Made(bare, o, st.node[n].type), d, 0),
                   !.node[n].obj = o, !.node[n].desc = d, !.node[n].modified = FALSE]

\* A node that has not been seen goes with its connections to any other.
hide_node(st, n) ==
    LET ks == {k \in DOMAIN st.con : n \in k}
    IN  [st EXCEPT !.objs = Deleted(@, {st.node[n].obj, st.node[n].desc}
                                          \cup {st.con[k].obj : k \in ks}),
                   !.node[n].obj = None, !.node[n].desc = None, !.node[n].visible = FALSE,
                   !.count = @ - 1,
                   !.con = [k \in DOMAIN @ |-> [@[k] EXCEPT !.obj = IF k \in ks THEN None ELSE @]]]

\* Variant: a block that is not over yet is counted.
UnseenSoon(v) == v.last_seen < output_block_counter /\ v.visible
Unseen(v) == v.last_seen < output_block_counter - 1 /\ v.visible

\* handle_node(), for one node after the other.
RECURSIVE handle_node(_, _)
handle_node(st, ns) ==
    IF ns = {} THEN st
    ELSE LET n    == CHOOSE n \in ns : TRUE
             new  == IF st.node[n].modified THEN draw_node(st, n) ELSE st
         IN  handle_node(IF Unseen(new.node[n]) THEN hide_node(new, n) ELSE new, ns \ {n})

\* mainloop(), up to the reading.
Draw ==
    /\ phase = "draw" /\ phase' = "net"
    /\ LET st == handle_node(calc_node_mov(State), DOMAIN node)
       IN  /\ Become(st)
           /\ last_count' = IF st.count # 0 THEN st.count ELSE last_count
    /\ output_block_counter' = output_block_counter + (IF output_block_completed THEN 1 ELSE 0)
    /\ output_block_completed' = FALSE
    /\ UNCHANGED color_switch

\* Events are handled between two rounds; `c' switches the colours.
keypress == /\ phase = "draw" /\ color_switch' = ~color_switch
            /\ UNCHANGED <<node, con, node_count, last_count, output_block_counter,
                           output_block_completed, phase, objs, since>>

Init == /\ node = <<>> /\ con = <<>> /\ node_count = 0 /\ last_count = 0
        /\ output_block_counter = 0 /\ output_block_completed = FALSE
        /\ color_switch = FALSE /\ phase = "draw" /\ objs = <<>> /\ since = <<>>

Next == Draw \/ Uplink \/ Network \/ Link \/ BlockEnd \/ NetDone \/ keypress
Spec == Init /\ [][Next]_vars

-----------------------------------------------------------------------------
\* However nodes and links come and go: the objects on the server are those of the nodes
\* and connections, nothing is left behind and nothing is named that is gone; and the count
\* is that of the nodes to be seen.
OnlyTheirObjects ==
    /\ DOMAIN objs = ({node[n].obj : n \in DOMAIN node} \cup {node[n].desc : n \in DOMAIN node}
                         \cup {con[k].obj : k \in DOMAIN con}) \ {None}
    /\ \A n \in Visible(node) : node[n].modified \/ objs[node[n].obj] \in 0..2
    /\ node_count = Cardinality(Visible(node))

\* A connection without an object is one that goes, unless it is reported again.
UndrawnAreOld == \A k \in DOMAIN con : con[k].obj = None => con[k].old

\* A connection has the colour that it is taken to have when its class changes.
ColorIsKnown == \A k \in DOMAIN con : con[k].obj # None => objs[con[k].obj] = con[k].color

\* A node goes from the screen only when a whole block came without it.
ReportedStay == [][\A n \in Visible(node) : n \notin Visible(node') => since[n] = 2]_vars
=============================================================================
