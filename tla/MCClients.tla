----------------------------- MODULE MCClients -----------------------------
(* What programs are made of, for TLC: the table and the object numbers of     *)
(* libs3d (Hash, Queue), its textures (Textures), the widgets of libs3dw (W),  *)
(* dot_mcp (Mcp), the terminal s3dvt (Vt), the tree and the jobs of the file   *)
(* manager s3dfm (Tree, Jobs), and the viewer meshs3d, whose blocks of data    *)
(* come apart (Mesh) or not (Burst). They share nothing: a behaviour picks one *)
(* in its first state, and the others rest.                                    *)
EXTENDS Clients, TLC

VARIABLES
    on,         \* "hash", "queue", "widgets", "mcp", "vt", "tree", "jobs", "textures", "mesh" or "burst"
    size, table, elements, iter, todo,
    widget, server, ani_s, animation_on, ani_need_arr, calls,
    entries, t,
    node, con, node_count, last_count, output_block_counter, output_block_completed, color_switch,
    phase, objs, since

hashvars  == <<size, table, elements, iter, todo>>
wvars     == <<widget, server, ani_s, animation_on, ani_need_arr, calls>>
treevars  == <<entries, t>>
meshvars  == <<node, con, node_count, last_count, output_block_counter, output_block_completed,
               color_switch, phase, objs, since>>
allvars   == <<on, hashvars, queuevars, wvars, mcpvars, vtvars, treevars, jobvars, texvars, meshvars>>

\* Four keys, of which two always and three sometimes share an index, and four buckets.
Addresses == {"a1", "a2", "a3", "a4"}
Hash == INSTANCE HashTable WITH Keys <- {"a", "b", "c", "d"}, Slot <- [a |-> 0, b |-> 0, c |-> 2, d |-> 4],
                                Sizes <- {2, 4}, Addrs <- Addresses
W == INSTANCE Widgets WITH MaxWidgets <- 4, Kinds <- {"button", "input", "label", "textbox"},
                           MAXANI <- 1, MaxLines <- 1, Far <- 2, MaxCalls <- 6
\* A directory with a directory and a file in it, both in the root.
Tree == INSTANCE FileTree WITH Nodes <- {"r", "d", "e", "g"}, Root <- "r", Folders <- {"r", "d", "e"},
                               Parent <- [d |-> "r", e |-> "d", g |-> "d"], Uses <- {}, disk <- entries
\* Three nodes: links of one with both others, a network between these, an uplink.
Mesh == INSTANCE MeshView WITH Links <- {<<"a", "b">>, <<"a", "c">>}, Networks <- {<<"b", "c">>},
                               Uplinks <- {"a"}, Etxs <- {"bad"}, MaxBlocks <- 3, Uses <- {}
Burst == INSTANCE MeshView WITH Links <- {<<"a", "b">>, <<"a", "c">>}, Networks <- {}, Uplinks <- {},
                                Etxs <- {"bad"}, MaxBlocks <- 3, Uses <- {"burst"}

-----------------------------------------------------------------------------
SuiteInit ==
    /\ on \in {"hash", "queue", "widgets", "mcp", "vt", "tree", "jobs", "textures", "mesh", "burst"}
    /\ Hash!Init /\ Queue!Init /\ W!Init /\ Mcp!Init /\ Vt!Init /\ Tree!Init /\ Jobs!Init
    /\ Textures!Init /\ Mesh!Init

HashTurn == on = "hash" /\ UNCHANGED <<on, queuevars, wvars, mcpvars, vtvars, treevars, jobvars, texvars, meshvars>>
QueueTurn == on = "queue" /\ UNCHANGED <<on, hashvars, wvars, mcpvars, vtvars, treevars, jobvars, texvars, meshvars>>
WTurn == on = "widgets" /\ UNCHANGED <<on, hashvars, queuevars, mcpvars, vtvars, treevars, jobvars, texvars, meshvars>>
McpTurn == on = "mcp" /\ UNCHANGED <<on, hashvars, queuevars, wvars, vtvars, treevars, jobvars, texvars, meshvars>>
VtTurn == on = "vt" /\ UNCHANGED <<on, hashvars, queuevars, wvars, mcpvars, treevars, jobvars, texvars, meshvars>>
TreeTurn == on = "tree" /\ UNCHANGED <<on, hashvars, queuevars, wvars, mcpvars, vtvars, jobvars, texvars, meshvars>>
JobsTurn == on = "jobs" /\ UNCHANGED <<on, hashvars, queuevars, wvars, mcpvars, vtvars, treevars, texvars, meshvars>>
TexturesTurn == on = "textures" /\ UNCHANGED <<on, hashvars, queuevars, wvars, mcpvars, vtvars, treevars, jobvars, meshvars>>
MeshTurn(k) == on = k /\ UNCHANGED <<on, hashvars, queuevars, wvars, mcpvars, vtvars, treevars, jobvars, texvars>>

SuiteNext ==
    \/ \E k \in {"a", "b", "c", "d"} :
        \/ HashTurn /\ \E a \in Addresses : Hash!Add(k, a)
        \/ HashTurn /\ Hash!RemoveKey(k)
    \/ HashTurn /\ Hash!RemoveBucket
    \/ HashTurn /\ Hash!Start
    \/ HashTurn /\ Hash!Step
    \/ HashTurn /\ Hash!Resize
    \/ QueueTurn /\ Queue!MainLoop
    \/ QueueTurn /\ Queue!Call
    \/ QueueTurn /\ Queue!WantTake
    \/ QueueTurn /\ Queue!WantLook
    \/ QueueTurn /\ Queue!WantFail
    \/ QueueTurn /\ Queue!DelObject
    \/ QueueTurn /\ Queue!Server
    \/ QueueTurn /\ Queue!ServerQuit
    \/ WTurn /\ W!SurfaceNew
    \/ WTurn /\ W!ButtonNew
    \/ WTurn /\ W!LabelNew
    \/ WTurn /\ W!InputNew
    \/ WTurn /\ W!TextboxNew
    \/ WTurn /\ W!Show
    \/ WTurn /\ W!Focus
    \/ WTurn /\ W!Delete
    \/ WTurn /\ W!Change
    \/ WTurn /\ W!MoveIt
    \/ WTurn /\ W!Click
    \/ WTurn /\ W!Key
    \/ WTurn /\ W!CamMoves
    \/ WTurn /\ W!AniMate
    \/ McpTurn /\ Mcp!Start
    \/ McpTurn /\ Mcp!Grow
    \/ McpTurn /\ Mcp!ProgramQuits
    \/ McpTurn /\ Mcp!UserClicks
    \/ McpTurn /\ Mcp!ServerDel
    \/ McpTurn /\ Mcp!ServerFocus
    \/ McpTurn /\ Mcp!McpEvent
    \/ McpTurn /\ Mcp!Mainloop
    \/ VtTurn /\ Vt!Read
    \/ VtTurn /\ Vt!AddChar
    \/ VtTurn /\ Vt!Added
    \/ VtTurn /\ Vt!Lost
    \/ VtTurn /\ Vt!init_terminal
    \/ VtTurn /\ Vt!keypress
    \/ VtTurn /\ Vt!Paint
    \/ VtTurn /\ Vt!Compare
    \/ VtTurn /\ Vt!Store
    \/ VtTurn /\ Vt!Painted
    \/ VtTurn /\ Vt!Stop
    \/ VtTurn /\ Vt!ShellPrints
    \/ VtTurn /\ Vt!ShellEnds
    \/ TreeTurn /\ Tree!Refresh
    \/ TreeTurn /\ Tree!Return
    \/ TreeTurn /\ Tree!Backspace
    \/ TreeTurn /\ Tree!FocusByKey
    \/ TreeTurn /\ Tree!GetSelected
    \/ TreeTurn /\ Tree!Fly
    \/ TreeTurn /\ Tree!ListDeleted
    \/ TreeTurn /\ Tree!ani_mate
    \/ \E n \in {"r", "d", "e", "g"} :
        \/ TreeTurn /\ Tree!Click(n)
        \/ TreeTurn /\ Tree!CleanUp(n)
        \/ TreeTurn /\ Tree!Vanish(n)
        \/ TreeTurn /\ Tree!Appear(n)
    \/ JobsTurn /\ \E f \in Files : Jobs!Select(f)
    \/ JobsTurn /\ \E type \in {"COPY", "UNLINK"} : Jobs!window_job(type)
    \/ JobsTurn /\ Jobs!window_mkdir
    \/ JobsTurn /\ Jobs!window_fs
    \/ JobsTurn /\ Jobs!window_fs_abort
    \/ JobsTurn /\ Jobs!window_fs_confirm_error
    \/ JobsTurn /\ Jobs!window_fsani
    \/ JobsTurn /\ Jobs!thread_start
    \/ TexturesTurn /\ Textures!s3d_push_texture
    \/ TexturesTurn /\ Textures!s3d_pop_texture
    \/ TexturesTurn /\ Textures!s3d_load_texture
    \/ TexturesTurn /\ Textures!s3d_handle_texshm
    \/ TexturesTurn /\ Textures!obj_push_tex
    \/ TexturesTurn /\ Textures!Clear
    \/ TexturesTurn /\ Textures!texture_delete
    \/ TexturesTurn /\ Textures!obj_update_tex
    \/ TexturesTurn /\ Textures!obj_load_tex
    \/ TexturesTurn /\ Textures!obj_render
    \/ MeshTurn("mesh") /\ Mesh!Draw
    \/ MeshTurn("mesh") /\ Mesh!Uplink
    \/ MeshTurn("mesh") /\ Mesh!Network
    \/ MeshTurn("mesh") /\ Mesh!Link
    \/ MeshTurn("mesh") /\ Mesh!BlockEnd
    \/ MeshTurn("mesh") /\ Mesh!NetDone
    \/ MeshTurn("mesh") /\ Mesh!keypress
    \/ MeshTurn("burst") /\ Burst!Draw
    \/ MeshTurn("burst") /\ Burst!Link
    \/ MeshTurn("burst") /\ Burst!BlockEnd
    \/ MeshTurn("burst") /\ Burst!NetDone
    \/ MeshTurn("burst") /\ Burst!keypress

SuiteSpec == SuiteInit /\ [][SuiteNext]_allvars

-----------------------------------------------------------------------------
\* Whatever was added, removed and moved to a larger table, hash_find() finds every element,
\* and once; and an iteration comes to each of them once, also when those it comes to are
\* removed.
HashHasAll ==
    /\ []Hash!FoundOnce
    /\ [][on = "hash" /\ iter # Hash!None /\ UNCHANGED table =>
              IF iter' = Hash!None THEN todo = {} ELSE Hash!KeyAt(iter') \in todo]_allvars

\* What a program's widgets are is what the server shows, and what is still to move is on the
\* stack, also when that is full and when a callback deletes the widget it is called for; and
\* the widget that has the focus keeps it, whoever is deleted around it.
WidgetsAreShown ==
    /\ [](W!ScreenMatches /\ W!AniIsLive)
    /\ [][\A p \in DOMAIN widget \cap DOMAIN widget' :
            LET f == W!Focused(widget, p)
            IN  DOMAIN widget' # DOMAIN widget /\ f \in DOMAIN widget' \cup {-1}
                => W!Focused(widget', p) = f]_allvars

\* Between two events the focus is on a node of the tree, and the stack of animations has none
\* that was freed but the copies that went with a job's list; every box and icon stands on a
\* box that counts it and at its place in the list; and a directory that was looked at again
\* has what is on the disk, and at most every second of the entries that vanished.
TreeStands ==
    /\ [](Tree!PointersLive /\ Tree!BoxesStand)
    /\ [][on = "tree" /\ Tree!Refresh =>
              LET n == Tree!Dir(t.focus) IN n \in entries => Tree!SweptOf(n)]_allvars

\* The screen of meshs3d holds its nodes and links and nothing else, however they come and
\* go; and when the blocks of data come apart, a node goes only when it was missing from a
\* whole one, and a link has the colour of its class.
MeshIsShown ==
    /\ [](Mesh!OnlyTheirObjects /\ Mesh!UndrawnAreOld)
    /\ [](on = "mesh" => Mesh!ColorIsKnown)
    /\ [][on = "mesh" => \A n \in Mesh!Visible(node) : n \notin Mesh!Visible(node') => since[n] = 2]_allvars
=============================================================================
