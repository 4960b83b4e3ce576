------------------------------- MODULE DotMcp -------------------------------
(* The window manager apps/dot_mcp: it is told which programs there are, draws *)
(* decorations around each, gives one of them the focus and closes them, all   *)
(* by the oid of the program's virtual object. Events and requests are under   *)
(* way while the server frees oids and uses them again.                        *)
EXTENDS Integers, Sequences, SequencesExt, FiniteSets, FiniteSetsExt

CONSTANTS
    MaxOid,     \* the MCP's objects have oids 0..MaxOid
    MaxInputs,  \* clicks, and changes of radius
    MaxStarts,  \* programs that start
    Uses        \* what happens that leads the code astray

VARIABLES
    table,      \* the server's objects of the MCP: [oid -> "virtual" or "own"]
    srvFocus,   \* the oid the server has the focus on, or -1
    toMcp, toServer,    \* events and requests under way
    apps,       \* the list, oldest first
    focus,      \* the oid of the focused app, or -1
    closed,     \* the programs that are on the screen when their close button is clicked
    killed,     \* the programs the server has ended for the MCP
    starts,
    inputs

vars == <<table, srvFocus, toMcp, toServer, apps, focus, closed, killed, starts, inputs>>
Oids == 0..MaxOid
Free == Oids \ DOMAIN table
FirstFree == Min(Free)
OfKind(k) == {o \in DOMAIN table : table[o] = k}

\* A record of what the program changes in one callback.
State == [table |-> table, apps |-> apps, focus |-> focus, out |-> <<>>]
find_app(st, oid) == {k \in DOMAIN st.apps : st.apps[k].oid = oid}
Decor(a) == IF a.init THEN {a.close_but, a.min_but, a.sphere} ELSE {}

-----------------------------------------------------------------------------
Send(st, op, oid) == [st EXCEPT !.out = Append(@, [op |-> op, oid |-> oid])]

\* A variant that forgets to tell the server when nothing is focused.
SetFocusQuiet(st, oid) == IF oid = -1 THEN [st EXCEPT !.focus = -1] ELSE Send([st EXCEPT !.focus = oid], "FOCUS", oid)
set_focus(st, oid) == Send([st EXCEPT !.focus = oid], "FOCUS", oid)

\* An app that is in the list is not added again.
add_app(st, oid) ==
    IF find_app(st, oid) # {} THEN st
    ELSE [st EXCEPT !.apps = Append(@, [oid |-> oid, init |-> FALSE, close_but |-> -1,
                                        min_but |-> -1, sphere |-> -1])]

Deletions(a) ==
    IF a.init THEN [i \in 1..4 |-> [op |-> "DEL", oid |-> <<a.close_but, a.min_but, a.sphere, a.oid>>[i]]] ELSE <<>>

\* A variant that leaves the decorations.
DelAppBare(st, oid) ==
    LET k == CHOOSE x \in find_app(st, oid) : TRUE
        s == Send([st EXCEPT !.apps = RemoveAt(@, k)], "DEL", oid)
    IN  IF find_app(st, oid) = {} THEN st
        ELSE IF st.focus = oid THEN set_focus(s, -1) ELSE s
\* An app goes with its decorations, and its object, which ends the program if there is one.
del_app(st, oid) ==
    LET k == CHOOSE x \in find_app(st, oid) : TRUE
        s == [st EXCEPT !.apps = RemoveAt(@, k), !.out = @ \o Deletions(st.apps[k])]
    IN  IF find_app(st, oid) = {} THEN st
        ELSE IF st.focus = oid THEN set_focus(s, -1) ELSE s

\* New objects come from those the library has ready: the next free oids.
New(st) == Min(Oids \ DOMAIN st.table)
Own(st, k, part) ==
    LET o == New(st)
    IN  [st EXCEPT !.table = [x \in DOMAIN @ \cup {o} |-> IF x = o THEN "own" ELSE @[x]],
                   !.apps[k] = [@ EXCEPT ![part] = o]]
app_init(st, k) ==
    [Own(Own(Own(st, k, "sphere"), k, "close_but"), k, "min_but") EXCEPT !.apps[k].init = TRUE]

-----------------------------------------------------------------------------
(* The callbacks.                                                              *)

mcp_object(st, oid) == add_app(st, oid)
mcp_del_object(st, oid) == del_app(st, oid)

\* Variant: the button that minimizes is taken for the one that closes.
ClickMinCloses(st, oid) ==
    LET hit == {k \in DOMAIN st.apps : oid \in Decor(st.apps[k]) \cup {st.apps[k].oid}}
        k   == CHOOSE x \in hit : \A y \in hit : x <= y
    IN  IF hit = {} THEN st
        ELSE IF oid \in {st.apps[k].close_but, st.apps[k].min_but} THEN del_app(st, st.apps[k].oid)
        ELSE set_focus(st, st.apps[k].oid)
\* The first app in the list one of whose objects it is.
object_click(st, oid) ==
    LET hit == {k \in DOMAIN st.apps : oid \in Decor(st.apps[k]) \cup {st.apps[k].oid}}
        k   == CHOOSE x \in hit : \A y \in hit : x <= y
        a   == st.apps[k]
    IN  IF hit = {} THEN st
        ELSE IF oid = a.close_but THEN del_app(st, a.oid)
        ELSE IF oid = a.min_but THEN (IF st.focus = a.oid THEN set_focus(st, -1) ELSE st)
        ELSE set_focus(st, a.oid)

Callback(st) == /\ table' = st.table /\ apps' = st.apps /\ focus' = st.focus
                /\ toServer' = toServer \o st.out

-----------------------------------------------------------------------------
Init == /\ table = <<>> /\ srvFocus = -1
        /\ toMcp = <<>> /\ toServer = <<>>
        /\ apps = <<>> /\ focus = -1
        /\ closed = {} /\ killed = {} /\ starts = 0 /\ inputs = 0

\* New objects while a deletion or a click is under way may be given the oid it means: a
\* use of its own.
Settled == "restart" \in Uses \/ \A q \in {toMcp, toServer} : \A i \in DOMAIN q : q[i].op \notin {"DEL", "CLICK"}

\* A program connects and sends INIT.
Start ==
    /\ starts < MaxStarts /\ Cardinality(Free) >= 4 * (MaxStarts - starts)
    /\ Settled
    /\ starts' = starts + 1
    /\ table' = [x \in DOMAIN table \cup {FirstFree} |-> IF x = FirstFree THEN "virtual" ELSE table[x]]
    /\ toMcp' = Append(toMcp, [op |-> "OBJ", oid |-> FirstFree])
    /\ closed' = closed \ {FirstFree} /\ killed' = killed \ {FirstFree}
    /\ UNCHANGED <<srvFocus, toServer, apps, focus, inputs>>

\* Its radius changes, and the MCP is told.
Grow == \E o \in OfKind("virtual") :
    /\ inputs < MaxInputs /\ inputs' = inputs + 1
    /\ toMcp' = Append(toMcp, [op |-> "OBJ", oid |-> o])
    /\ UNCHANGED <<table, srvFocus, toServer, apps, focus, closed, killed, starts>>

Gone(o) ==
    /\ table' = [x \in DOMAIN table \ {o} |-> table[x]]
    /\ toMcp' = IF table[o] = "virtual" THEN Append(toMcp, [op |-> "DEL", oid |-> o]) ELSE toMcp
    /\ srvFocus' = IF srvFocus = o THEN -1 ELSE srvFocus

ProgramQuits == \E o \in OfKind("virtual") :
    /\ Gone(o)
    /\ UNCHANGED <<toServer, apps, focus, closed, killed, starts, inputs>>

\* Requests about what is not there are passed over.
ServerDel == /\ toServer # <<>> /\ Head(toServer).op = "DEL"
             /\ toServer' = Tail(toServer)
             /\ LET o == Head(toServer).oid
                IN  IF o \in DOMAIN table
                    THEN Gone(o) /\ killed' = IF table[o] = "virtual" THEN killed \cup {o} ELSE killed
                    ELSE UNCHANGED <<table, toMcp, srvFocus, killed>>
             /\ UNCHANGED <<apps, focus, closed, starts, inputs>>
ServerFocus == /\ toServer # <<>> /\ Head(toServer).op = "FOCUS"
               /\ toServer' = Tail(toServer)
               /\ srvFocus' = IF Head(toServer).oid \in OfKind("virtual") THEN Head(toServer).oid ELSE -1
               /\ UNCHANGED <<table, toMcp, apps, focus, closed, killed, starts, inputs>>

UserClicks == \E o \in DOMAIN table :
    /\ inputs < MaxInputs /\ inputs' = inputs + 1
    /\ toMcp' = Append(toMcp, [op |-> "CLICK", oid |-> o])
    /\ closed' = closed \cup {apps[k].oid : k \in {x \in DOMAIN apps : apps[x].close_but = o}}
    /\ UNCHANGED <<table, srvFocus, toServer, apps, focus, killed, starts>>

McpEvent ==
    /\ toMcp # <<>>
    /\ toMcp' = Tail(toMcp)
    /\ LET e == Head(toMcp)
       IN  \/ e.op = "OBJ" /\ Callback(mcp_object(State, e.oid))
           \/ e.op = "DEL" /\ Callback(mcp_del_object(State, e.oid))
           \/ e.op = "CLICK" /\ Callback(object_click(State, e.oid))
    /\ UNCHANGED <<srvFocus, closed, killed, starts, inputs>>

\* The decorations are made in the main loop, of objects of the MCP.
Mainloop ==
    /\ Settled
    /\ \E k \in DOMAIN apps : ~apps[k].init
    /\ Cardinality(Free) >= 3 * Cardinality({k \in DOMAIN apps : ~apps[k].init})
    /\ LET init[k \in 0..Len(apps)] ==
              IF k = 0 THEN State
              ELSE IF apps[k].init THEN init[k - 1] ELSE app_init(init[k - 1], k)
       IN  Callback(init[Len(apps)])
    /\ UNCHANGED <<srvFocus, toMcp, closed, killed, starts, inputs>>

Next == \/ Start \/ Grow \/ ProgramQuits \/ UserClicks
        \/ ServerDel \/ ServerFocus \/ McpEvent \/ Mainloop
Spec == Init /\ [][Next]_vars

-----------------------------------------------------------------------------
\* Whatever crossed on the way: once it has all arrived, dot_mcp has each program in its list
\* once, none of its decorations is left over or missing, and both sides have the focus on
\* the same program.
AgreeAtRest ==
    toMcp = <<>> /\ toServer = <<>> =>
        /\ {apps[k].oid : k \in DOMAIN apps} = OfKind("virtual")
        /\ OfKind("own") = UNION {Decor(apps[k]) : k \in DOMAIN apps}
        /\ Cardinality(OfKind("virtual")) = Len(apps)
        /\ focus = srvFocus

\* dot_mcp ends no program whose close button was not clicked.
OnlyClosedDie == killed \subseteq closed
=============================================================================
