# s3d: models and proofs

s3d is a 3D desktop: a server that draws, and programs that build objects in it
over a socket or over shared memory. This directory holds TLA+ models of the
parts of it whose bugs a test hardly reaches, the TLC configurations that check
them, and proofs that TLAPS checks. Paths are relative to the repository's root
(`src/` here); `PROJECT.json` maps every definition to the lines it models.

- [The system](#the-system): components, their state, how they interact
- [The modules](#the-modules): what each models and how it follows the code
- [The runs](#the-runs): questions, bounds, fairness
- [What the code does otherwise](#what-the-code-does-otherwise)
- [The proofs](#the-proofs)
- [What is not modelled](#what-is-not-modelled)
- [Plan](#plan)

## The system

```
 program                                   s3d server (one thread, one loop)
 +----------------------------+            +--------------------------------------+
 | main(), callbacks          |            | user.c   keys, buttons               |
 | libs3d/callback.c event.c  |  socket or | process.c mcp.c event.c  procs_p     |
 |   object_queue.c io.c      | <--------> | proto.c  prot_com_in / prot_com_out  |
 |   network.c proto_in/out.c |  two rings | object.c objects, links, clones      |
 |   tcp.c shm.c shm_ringbuf.c|            | network.c tcp.c shm.c shm_ringbuf.c  |
 +----------------------------+            | graphics.c ... drawing               |
 dot_mcp is a program that is the MCP      +--------------------------------------+
```

The server's loop (`server/main.c`, `one_time()`) sleeps, takes user input, reads
every connection and draws. A packet is carried out completely before the next
one is read. Nothing is written to disk and nothing survives a restart, so there
is no recovery to model; what a client or the server leaves behind when it dies
(segments, the key file, slots, a kid) is. What makes the server hard is that a *write* may find
the other side gone, and the process is then deleted in the middle of the
function that wrote. What makes the library hard is that one thread re-enters
itself: callback, request, read, event, callback. What makes the transport hard
is two processes on the same memory without a lock.

### Components

| component | state | operations | hard about it | what makes it correct |
|---|---|---|---|---|
| process table (`server/process.c`) | `procs_p[0..procs_n-1]`, slot 0 is the MCP's; `con_type`, `mcp_oid` | `process_add`, `process_protinit`, `process_del`, `process_quit` | removing a slot moves the last one into the hole, possibly nested in another removal | the pid in an object and the oid in a slot name each other; a slot is a connection |
| MCP (`server/mcp.c`, `event.c`) | the virtual objects in slot 0's table, `focus_oid` | `mcp_init`, `mcp_rep_object`, `mcp_del_object`, `mcp_focus`, input events | the MCP comes late, goes, fails half way through a hand-over | the MCP knows exactly the running programs; focus is a live program |
| dispatch (`server/proto.c`) | none | `prot_com_in`, `prot_com_out` | a command from a process that was deleted by its own command | one command concerns one process |
| object store (`server/object.c`) | per process: `object[]`, with `linkid/lsub/lnext/lprev`, `clone_ooid`, flags, stacks of vertices, materials, polygons, textures | `obj_new`, `obj_del`, `obj_link`, `obj_unlink`, `obj_clone_change`, `obj_push_*`, `obj_pep_*`, `obj_load_*`, `obj_del_*` | intrusive lists; oids are used again; clones point at entries that go | lists are lists; links have no circle; clones show objects that exist and are no clones |
| server transports (`server/network.c`, `tcp.c`, `shm.c`) | sockets, segments, the SIGIO flag, idle counts | `network_main`, `tcp_pollport`, `tcp_pollproc`, `shm_main` | lost signals, dead peers, blocking writes | a closed connection is noticed |
| ring (`*/shm_ringbuf.c`, `*/shm.c`) | `start`, `end`, `bufsize`, the bytes | `shm_write`, `shm_read`, `shm_writen`, `shm_readn` | two processes, no lock, two stores per index | it is a pipe |
| events (`libs3d/event.c`, `callback.c`, `proto_in.c`) | `s3d_stack`, `s3d_cb_list`, `cb_lock` | `s3d_push_event`, `s3d_process_stack`, `s3d_set_callback`, ... | recursion; two ways to a callback | callbacks do not meet; events keep their order and are not stuck |
| life cycle (`libs3d/io.c`, `network.c`) | `con_type`, `_s3d_ready`, `_s3d_sigio` | `s3d_init`, `s3d_mainloop`, `s3d_net_check`, `s3d_quit` | quit from anywhere | quit ends the loop and the events |
| object queue (`libs3d/object_queue.c`) | `queue`, `queue_size`, `requested` | `_queue_new_object`, `_queue_want_object` | late answers, a limit on requests | every oid is given out once, and a call for one returns |
| requests (`libs3d/proto_out.c`) | none | `s3d_push_*`, `s3d_load_*`, ... | long requests are split into packets | the pieces make the whole |
| hash (`libs3d/hash.c`) | buckets of a table that grows | add, find, remove, iterate | removal while iterating | what was added is found, once |
| textures (`libs3d/texture.c`, `server/texture.c`, `object.c`) | a segment per texture, `tex_hash`, `gl_texnum` | push, load, update, bind | drawing into memory the other side may replace, or clear | the last picture is the one shown |
| widgets, animation (`libs3dw/`) | a tree of widgets, focus, the stack of animated ones | append, delete, focus, animate | deletion in a callback, a stack of fixed depth | the tree is a tree |
| dot_mcp (`apps/dot_mcp/main.c`) | a list of programs by oid | follows MCP_OBJECT and MCP_DEL_OBJECT | oids are used again | its list is the server's |
| server's life (`server/main.c`) | `running`, `kidpid`, the handlers | `rc_init`, `init`, `quit`, the signals | signals between any two steps, also of `quit()`, and a kid that must not be left | a server that goes out leaves nothing up, and no kid |
| s3dvt (`apps/s3dvt/`) | the lines of the screen, escape state, `gotnewdata` | a thread that reads the shell, the main loop that paints | two threads, one flag, no lock | at rest the screen shows the lines, but for what was printed behind the painter |
| s3dfm (`apps/s3dfm/`) | a tree of nodes, the animation stack, the job's list and `fs_lock` | open, close, refresh, select, copy, unlink, make | nodes that are freed while pointed at; a thread whose list the main loop frees | the focus and the animation stack are on nodes of the tree; a job ends and is alone |
| meshs3d (`apps/meshs3d/`) | nodes and connections in two hash tables, a count of blocks | reads lines from a daemon, draws, colours, drops what is no longer reported | links go by a mark, nodes by a count, both hold the other's objects | its objects are what was reported; a node that is reported stays |
| drawing, geometry, models, fonts, other programs | | | | outside (see below) |

They interact by packets (each direction a stream, in order), and inside of a
process by calls: `prot_com_out()` may call `process_del()`, which calls
`mcp_del_object()`, which calls `prot_com_out()` again; `net_prot_in()` calls
`s3d_push_event()`, which calls a callback, which may call `s3d_new_object()`,
which calls `s3d_net_check()`, which calls `net_prot_in()`.

The hazards of this code are listed one by one, at their lines, in
`PROJECT.json`, each with the properties that catch it, or with the reason why none does.

## The modules

| module | models | lines | proofs |
|---|---|---|---|
| `ProcTable` | the process table, the MCP, the focus, and every way a connection ends | `server/process.c`, `mcp.c`, `event.c`, parts of `proto.c`, `tcp.c`, `shm.c`, `object.c` | `ProcTableProofs` |
| `ObjGraph` | one program's objects: links, children, clones, reuse of oids | `server/object.c` | `ObjGraphProofs` |
| `Scene` | what a program may rely on: a forest and clones that show objects | the contract of `ObjGraph` | |
| `RingBuf` | the ring in shared memory and both its users | `*/shm_ringbuf.c`, `*/shm.c` | `TransportsProofs` |
| `Pipe` | a FIFO of packets | the contract of `RingBuf` | |
| `EventLoop` | the library's events, callbacks, lock, life cycle and recursion | `libs3d/event.c`, `callback.c`, `io.c`, `network.c` | `EventLoopProofs` |
| `ShmConnect` | the key file, who gets which pair of segments, and when a slot is given up | `*/shm.c` | `ShmConnectProofs` |
| `Tcp` | sockets on both sides: the flags, the timer, blocking writes | `server/network.c`, `tcp.c`, `libs3d/network.c`, `tcp.c` | |
| `StartUp` | the server's life, its signals, its kid for the rc script | `server/main.c` | `TransportsProofs` |
| `ObjData` | the data of an object from the library's call to the compiled display list | `libs3d/proto_out.c`, `server/proto.c`, `object.c` | `ObjDataProofs` |
| `Stacks` | five stacks and a set of flags | the contract of `ObjData` | |
| `ObjSpace` | the space objects are in, and what the server's numbers must say of it | `server/object.c`, `graphics.c` | |
| `ObjSize` | matrices, radii, the biggest object of a program | `server/object.c` | `ObjSizeProofs` |
| `TexShm` | a texture in shared memory | `libs3d/texture.c`, `proto_in.c`, `server/texture.c`, `object.c` | `ClientsProofs` |
| `ObjQueue` | object numbers that are asked for in advance | `libs3d/object_queue.c` | `ClientsProofs` |
| `HashTable` | the table, its growth, its iterator | `libs3d/hash.c`, meshs3d's copy of it | |
| `Widgets` | widgets, their objects on the server, focus, animation | `libs3dw/*.c` | |
| `DotMcp` | the window manager against the server | `apps/dot_mcp/*.c` | `ClientsProofs` |
| `Terminal` | the terminal's thread and its painter | `apps/s3dvt/*.c` | `ClientsProofs` |
| `FileTree` | the file manager's nodes, boxes, icons and focus | `apps/s3dfm/*.c` | |
| `FileJobs` | the file manager's jobs on a thread | `apps/s3dfm/dialog.c`, `fs.c` | `ClientsProofs` |
| `MeshView` | the viewer of a mesh network: nodes and links as blocks of data come | `apps/meshs3d/process.c`, `main.c`, `net.c` | |
| `MCProcTable`, `MCObjGraph`, `MCEventLoop`, `MCObjData` | constants for TLC | | |
| `Clients` | `ObjQueue`, `TexShm`, `DotMcp`, `Terminal` and `FileJobs` with what the code lets happen, for the proofs and the run | | `ClientsProofs` |
| `MCTransports`, `MCObjects`, `MCClients`, `MCProgress` | several components in one run: one module extended and the others instances, or all of them instances | | `TransportsProofs` |

Operators under a comment that begins with "mutant", "Variant" or "A variant" are
plausible mistakes in the definition below them. No specification uses them;
replacing the definition by one must break the property it is listed with in
`PROJECT.json`.

Components that share no state are checked side by side in one run: the module
for it INSTANCEs each, its variable `on` is chosen in the initial state and never changes, and an action
belongs to the component that is `on` while the variables of the others stay as they
are. The reachable states are the union of what each component has alone; nothing is
interleaved between components, and nothing needs to be.
What a component does with fairness is fair while it is on.

### ProcTable

The server's state is one record, `srv`, because its functions change several
fields and call each other: every C function is an operator from state to state,
with the set `dead` of clients whose writes fail while it runs, and an action is
one packet, one input, one accepted or closed connection or one round of
`process_quit()`. `srv.con[pid]` is the connection of a slot, `mcp_oid` and
`object` the two halves of the naming, `known` what the connected MCP was told
(a history of what was sent to it), `told` who got a QUIT. `ProcessListRm` moves the last slot into
the hole and renames its virtual object; `ProcessDel`, `EventQuit`, `McpFocus`,
`McpInit` are the functions of these names; `DelMcp` and `PDel` are the two halves of
`p_del()`. `Crash` is a NULL from `get_proc_by_pid()` that is dereferenced.

`Faults` says where a connection may be found dead or a client may be rude:
`"quit"` in the QUIT packet itself, `"init"` while an INIT is handled, `"early"`
a command before INIT. Everywhere else any client whose end is closed may be found dead.

Assumed of the environment: a client sends INIT once per connection (`s3d_init()`
does), the MCP does not focus the pointer object and clones virtual objects only
(dot_mcp does), writes to shared memory never fail (`shm_write()` returns 0),
and TCP writes do not block.

### ObjGraph and Scene

One ordinary program's table: `live` are the entries that are not NULL, `link` the
four pointers of `struct t_obj`, `clone`, `clone_ooid` and `clone_src` the clones
and the flag that says some clone may point here, `filled` whether the object
has data (which decides whether it may become a clone). `LinkDelete`,
`LinkInsert`, `Circular`, `Clone`, `DelObj` follow the functions statement by
statement; `FreeLinks` states what the loop in `obj_free()` arrives at, and the
property `FreeIsTheLoop`, checked and proved, says that it does. `OF_CAM` shares a bit
with `OF_CLONE` and `OF_POINTER` with `OF_VIRTUAL`; the checks that meet them are kept.

`Uses` admits what leads the code astray: `"push"` a vertex pushed onto an object
that clones show, `"system"` a CLONE of the camera or the pointer, `"freed"` an
allocator that overwrites what `obj_del()` still reads.

`Scene` says what remains for a program: objects come and go, a removed object
takes its links and its clones' targets with it, links never close a circle, a
clone never shows a clone. `ImplementsScene` is the refinement
(`objs <- live, parent <- linkid, shows <- clone_ooid` of the clones).

### RingBuf and Pipe

One direction of a connection. A cell of `cells` carries its number in the
stream, so that a lost, doubled or mixed cell shows. Each side has a program
counter and goes through the C function load by load and store by store:
the writer `Write` (free space), `CopyIn`, `StoreEnd`, `WrapEnd`; the reader `Look`,
`Load` (of `end`), `CopyOut`, `StoreStart`, `WrapStart`, once for the header and
once for the body of a packet. `Uses`: `"end"`, `"start"` make the store that
leaves the ring and the one that brings the index back two steps, as gcc compiles
them without optimization (with it they are merged into one store);
`"overwrite"` is the server's `shm_write()`, which only prints that there is no room.
The client's refuses, and `shm_writen()` tries again; when it gives up nothing was written, so
the packet does not exist for the ring. The processors' reordering of stores is
not modelled: the code was written for x86, where the stores of one
processor are seen in order.

`Pipe` is a FIFO; `RingIsAPipe` maps its queue to the packets sent and not yet
delivered.

### ShmConnect, Tcp and StartUp

*ShmConnect.* `data` are the two words of the key file, `idle` the server's slots,
`exists` the pairs whose segments can still be found by key. The server takes a pass in
pieces (`Idle` finds a slot idle for `MAX_IDLE` passes and alone, `Remove` gives it up;
`Register` makes a slot when both words are taken, `Offer` writes the next pair), a
program every load and store of `_shm_init()` for itself. Programs die anywhere except
with one of the two words cleared, which is the use `"midway"`; `"race"` lets two
programs be in between reading and clearing the words.

*Tcp.* `at` is where the server's loop is. `User` writes or not, `network_main` goes on
only when `sigio` is up or it is the timer's turn (`net_turn_off`), `tcp_pollport` accepts
one connection, `tcp_pollproc` finds the sockets that are ready, `tcp_prot_com_in` serves one, `Reset`
clears the flag, after reading, as the code does: a signal that came since the last `select()` is lost. A socket that
arrives in between raised the flag for nothing. `tcp_writen` blocks while the buffer `down[c]` is full. A program's
`BeginWrite`/`EndWrite`, `s3d_net_check`, `Receive` and `ClearFlag` mirror it. Nothing is excluded: a program may write
without end, and lose the signal of the last event in the same way. SIGIO is only raised by data, connections and ends;
the one the kernel also sends for room in a buffer is left out, and would only make up for a lost one.

*StartUp.* `pc` goes through `rc_init()`, `init()`, the main loop and `quit()`, one component at a time;
handlers run between any two steps, and `quit` begins anew from each of them, also in the middle of `quit()` (a signal
is blocked in its own handler only, `inside`). `torn` are the components a handler came upon half taken down: to take
these down again may end the server (`Crash`), and so does `process_quit()` on a table that is freed. The kid waits
for SIGUSR1, runs the script, idles, or is ended by somebody; its end raises SIGCHLD, which ends the server.
`ran` says that the server had set itself up.

### ObjData, Stacks, ObjSize and TexShm

*ObjData.* A call of the library becomes the packets `proto_out.c` makes of it
(`Pieces`: how many, and how much goes into each), a packet what `proto.c` reads of it
(`ProtComIn`) and what `object.c` does to the stacks and to the compiled list
`dplist`, which `Render` makes where `obj_render()` does. An entry is a record of
fields; every value a call gives carries the call's number, so that any mix-up shows. Lengths are
scaled: four bytes per entry, `MF_LEN` small, the width of a pop's number
`NumWidth` bits. `Stacks` is what the comments over the functions promise: it is
indexed from the ends of the arrays, knows neither packets nor lists, and `ImplementsStacks` maps its stacks to
the server's with all packets under way applied (`Pending`). Of the texture pushes and
loads only their place on the stack matters here; `TexShm` has their contents.

*ObjSize* has one dimension: a matrix is a place and a factor (`ObjSpace`, which also has the
property, so that the suite `MCObjects` can extend it). Each action is a command with all it recalculates (`obj_recalc_tmat` down the links, `obj_size_update`, `obj_check_biggest_object`,
`obj_sys_update` and the report to the MCP). The two functions that call themselves, `into_position()` and `obj_pos_update()`,
are recursive functions: `Positions` of an object, and `Visits`, the order in which matrices are recalculated
and sizes checked. Uses: `"delparent"`, `"cloneupdate"`, `"nestscale"`.

*TexShm.* Both rings, the segment the library knows (`tex_hash`), the server's buffer
(`p_tex`), its contents (`buf`) and what OpenGL was given (`bound`, `shown`). `last` is what the program drew last.
`obj_push_tex()` is two steps, since it announces the segment first and clears it then (`obj_push_tex`, `Clear`); `wiped` is the
last drawing that went with it. Uses: `"soon"`, `"reuse"`.

### ObjQueue, HashTable and Widgets

*ObjQueue.* `queue` are the slots, `requested` the counter that bounds
requests, which answers lower whether it counted them or not. `WantLook` is one round of the wait in
`_queue_want_object()`. `Server` answers and reuses numbers, `ServerQuit` ends the library.

*HashTable.* Buckets have addresses, since the iterator keeps two of them and compares; freed addresses are used
again. `todo` is the only thing not in the code: what the iteration still owes.

*Widgets.* A call is an operator from state to state (records of `widget`, `server`, the
stack `ani_s` and the two flags); `Clicked` are the states after a click, where a callback (`Called`) of a button, a label or a
textbox may delete any widget, the one it is called for or its parent too. An input calls last, after it has taken the focus, so its callback is the
`Delete` that may come next. Coordinates are left out: `left` is
how many steps a widget is from its place, and which surfaces an arrangement moves is any choice.

### DotMcp, Terminal, FileTree, FileJobs and MeshView

*DotMcp.* The server's objects of the MCP, events and requests under way in both
directions, and the list `apps`. `McpEvent` is one callback with all it sends. The server
reuses oids. Use: `"restart"`, a program that starts while events about its oid's former owner are under way.

*Terminal.* The thread takes a character (`AddChar`, with the escape state `esc` and `args`) or is at the end of its data
(`Added`), whatever the painter does. The painter goes cell by cell and twice at each: `Compare` reads the character, `Store` shows or
erases it, in the lines too when it follows an erased cell (`line_end`); `Painted` takes the flag back. So the thread writes
between any two of these steps; `late` are the cells it changed when the pass had read them. What a character does, a
scroll of the lines included, is one step.

*FileTree.* `t` are the nodes' lists and places in them (`pindex`), `disp` how each is shown, `dirs_opened`, the focus and
the animation stack, on which a job's flying copies are `"copy"` while its list lives and `"stale"` after it was freed (`GetSelected`, `Fly`,
`ListDeleted`). `Vanish` and `Appear` change the disk; `Refresh`, `CleanUp` and opening a node call `parse_dir()`: `Found` adds and
places what is there, `Sweep` removes what is not, with its exchange of the last entry for the one that went, which is then not looked at,
and its write into the node just freed. `CleanUp` reads how the node is displayed after `parse_dir()` may have freed it: then any answer.
Uses: `"opened"`, `"icon"`.

*FileJobs.* `thread_start` is the thread, one load, store or file operation at a time; `window_fsani` the main loop's look at
the list, one entry at a time (`pos`); the rest are the user's. The thread ends at any place of that look, and a job may be asked for
with nothing selected. `missed` are the files it was done with when the look had passed them. File operations fail
whenever they like, `MaxErrs` times.

*MeshView.* `node` and `con` are the two hash tables, a connection is named by the set of its two nodes, and `phase` says which half of
`mainloop()` runs: `Draw` is `calc_node_mov()`, `handle_node()` and the counting of blocks; then come lines
(`Uplink`, `Network`, `Link`), ends of blocks (`BlockEnd`, noticed or not) and `NetDone`. `objs` are the program's objects on the server with what they
look like, `since` how many blocks ended since a node was reported; it is not in the code. Use: `"burst"`, the next block begins
in the round in which one ends.

### EventLoop

`frames` is the stack of calls: `s3d_init()`, the program's `main()`,
`s3d_mainloop()` and its function, `s3d_net_check()`, `s3d_process_stack()`,
`s3d_new_object()`, a callback. The running function is the last. What a function
does after the call it is in lies below: the main loop, after its function, pushes
the receiving loop and above it the loop over the queue, in the order they run.
`PushEvent` has both ways of an event, `S3dQuit` the order of `s3d_quit()`: close,
clear the queue, reset the lock, push QUIT. The server sends
OBJ_INFO before its answer to INIT (`process_sys_init()` runs before
`event_init()`), so events arrive during `s3d_init()`, when the lock is taken.

`Uses` says what callbacks and the function of the main loop do: `"new"`
(`s3d_new_object()` also outside that function), `"poll"` (`s3d_net_check()`), `"set"`
callbacks, `"quit"`; and `"bye"`: the server sends QUIT or vanishes. `main()` may always look for
packets, set callbacks and quit. One look for packets in `s3d_new_object()`
stands for all it takes until the object is there, since a look may read any
number of packets. `tries` is the counter of `s3d_init()`.

## The runs

Each passing run answers one question; between them they take every action. A
violation run shows one disagreement between the code and what it says of itself.

| run | question | properties | result |
|---|---|---|---|
| `proctable_safe` | do the tables stay consistent while programs and the MCP come and go at any time? | `PidsAndOidsMatch SlotsAreConnections FocusIsAProgram ClonesShowPrograms McpKnowsThePrograms NeverCrashes NoSilentDrop OneDropPerStep` | yes, without faults |
| `proctable_live` | is a closed connection noticed, does a shutdown end, also with `"quit"` and `"early"`? | `DeadAreReaped ShutDownCompletes` | yes |
| `proctable_quit` | is nobody dropped for another's failure? | `NoSilentDrop` | no: `event_quit()` deletes a pid twice |
| `objgraph_scene` | does a well-behaved program get its scene? | `ClonesShowObjects NoCloneChains ImplementsScene` | yes |
| `objgraph_lists` | do lists and links stay well formed whatever a program does? | `ListsAreLinked NoCircularLinks FreeIsTheLoop` | yes |
| `eventloop_safe` | are events in order and callbacks apart, for a program that makes objects in its loop? | `NoNesting LockMatches InOrder` | yes |
| `eventloop_live` | with all uses: is no event stuck, does the loop end after a quit, and is a quit the last word? | `NothingAfterQuit Processed QuitEnds` | yes |
| `transports` | does a program reach the server, is the ring a pipe, does the server leave nothing behind? | `KeysServed RingIsAPipe ServerLeavesNothing TransportsEnd` | yes |
| `progress` | is every program on TCP accepted, read and forgotten, and where may a write of the server hang? does a call for an object return, and a job end? | `SocketsGoOn ProgramsGoOn` | yes; a write hangs on a program that is blind or floods, and on no other |
| `objects` | does an object hold, and show, what its program asked for? | `ImplementsStacks ListIsCurrent SizesAreCurrent` | yes, within `Uses = {}` |
| `objdata_long` | also an array of a length that does not fill its packets? | `ImplementsStacks` | no: the last entries are not sent |
| `clients` | do the library's tables and textures and the programs keep their state right? | `HashHasAll NumbersAreGiven TexturesShowTheLast WidgetsAreShown McpAgrees TerminalShows TreeStands JobsRunAlone MeshIsShown` | yes, within what `Uses` is in the instances |

`TypeOK` of ProcTable and ObjGraph is proved (below) and not run; that of EventLoop
and `InsideRing` and `IgnoredAreSkipped` are for the changed configurations of
the next section. The properties of `MCTransports`, `Clients` and `MCClients` join what
their modules state one by one (`KeysServed` is ShmConnect's of that name, `TransportsEnd` are the liveness
properties of its parts, `JobsRunAlone` are FileJobs' `JobsAreApart` and `ListHasOwner`, `ProgramsGoOn` its `JobEnds` and
ObjQueue's `CallReturns`, and so on); `SocketsGoOn` are `Served`, `WriteEnds` and `EventsRead` of Tcp; `HashHasAll`, `WidgetsAreShown`, `TreeStands` and `MeshIsShown` write the action property
out for the suite's variables.

### Bounds, and why they are enough

- *ProcTable*: three clients, slots 0..3, oids 0..5 (0..4 where the MCP's own
  objects matter less). Three is the least for a removal to move a slot other
  than the one concerned, nested in the removal of a third; the MCP, its
  virtual objects, one clone and one object of its own fit the oids. Clients on TCP are symmetric
  (not under liveness).
- *ObjGraph*: oids 0..4 for clones (a source, two clones or a chain of three,
  besides camera and pointer), 0..3 with five links for the lists, where the
  camera and the pointer are list members too, so that lists reach length three.
  The proofs drop the bounds.
- *RingBuf*: five cells, packets of two to four with a header of two, seven packets: more
  than two rounds, in which a packet, its header and its body each lie across
  the end in every way, and the ring is full at every position. As the build has it (`Build`): three cells and
  three packets with all uses.
- *EventLoop*: two kinds and three events, or one kind and two events with all
  uses; three calls; two tries in `s3d_init()`. Two events are enough to overtake, and the third
  meets a callback that was changed between them. The bound on the calls also bounds the
  recursion.
- *ShmConnect*: two clients, one idle pass, one look for the answer. Two are enough to
  cross in the key file and for one to attach what the other's death gives up.
- *Tcp*: two clients, buffers of one command or event, a command of two parts: a signal for one is lost
  behind that of the other or between its own `select()` and `Reset`, the last event that fits comes
  while its program has looked for the last time, and a full buffer is met at once. Buffers of two
  give the same results (in two and a half minutes).
- *StartUp* has no bounds.
- *ObjData*: two requests of up to three entries on an empty object or on one with two
  to three of everything, packets of 14 bytes (three entries behind a short header, one
  behind a long one), three packets under way. One request is enough for a split, the second for what a
  request does to what an earlier one left in the stacks or in the list. `objdata_long`: one request of one
  or ten entries, packets of 18 bytes: ten entries stand for 16381 vertices.
- *ObjSize*: three objects, eight commands. *TexShm*: three pushes, three drawings.
- *ObjQueue*: three calls, `MAX_REQ = 1`, one look. *HashTable*: four keys with collisions, sizes 2
  and 4, four addresses, so that a freed one is the next.
- *Widgets*: four besides the root and the camera, six calls, a stack of one: the second
  widget to slide finds it full. *DotMcp*: two programs, two inputs, oids for all their decorations.
- *Terminal*: two lines of two characters, sequences with two arguments: a line behind the painter, one ahead of it, and in the one it is at a cell on either side. A
  character goes into the last column only by a wrap, so a cell that is erased behind a gap takes three columns: one line of three was checked apart
  (375229 states), and the theorem holds for every size. *FileTree*: a
  directory in a directory, a file beside it. *FileJobs*: two files, two jobs, two failures.
- *MeshView*: three nodes, two of them with a link, a network behind the first, an uplink; three blocks are counted, the
  least for a node to be missed, to go and to come back.

`MaxSent`, `MaxEvents`, `MaxCalls`, `MaxLinks`, `MaxSteps`, `MaxPushes`, `MaxLoads`, `MaxChan`, `MaxPoints`, `MaxWidgets`,
`MaxInputs`, `MaxStarts`, `MaxJobs`, `MaxErrs`, `MaxBlocks` and the largest pid and oid are bounds of the models, not of
the code; `MAX_REQ`, `TIMEOUT`, `MAXANI`, `MAX_IDLE`, `MF_LEN`, `MAX_LINES`, `MAX_CHARS` and `BUF` are limits of the code (or of
the kernel), made small. Deadlock is not checked where the bounds or a shutdown stop the system;
ObjGraph, which never stops, is checked for it.

### Fairness

- *ProcTable*: `network_main()` reads every connection in each round of the main
  loop, so a closed one is read again and again (`WF` of `Reap(c)` per client);
  `process_quit()` is a loop that runs to its end (`WF` of `QuitLast`). Clients owe nothing.
- *RingBuf*: a writer does not stop inside a call (`WF(Writing)`), and both
  programs look at their ring in every turn of their main loop (`WF(Reading)`).
  No fairness on `Write`: nobody has to send.
- *EventLoop*: the library's functions run on (`WF(Library)`, with the end of
  callbacks and of the main loop's function, and `main()` reaching the main loop), and the
  server answers INIT. What the program calls is free.
- *ShmConnect*: `shm_main()` is called every round and comes to every slot and to the key
  file; a program inside `s3d_init()` runs on. Programs may die instead.
- *Tcp*: the server's loop goes round, its timer fires, a write that was begun goes on when there is
  room. `s3d_net_check(c)` is strongly fair: it is only enabled while its program runs, in between
  writes, and a program in `s3d_mainloop()` comes there every round. What is promised has conditions, since the code keeps it only so far:
  `Served` asks for signals again and again, since without another one a lost one is lost for good, and that the server is not held up
  in a write for ever; `EventsRead` asks the same of a program; and `WriteEnds` says of whom a write that never ends is: of a
  program that was not told of the events that fill its buffer (`Blind`), or that waits for the server itself (`Floods`).
- *StartUp*: processes run on and signals are delivered. The script need not end.
- *ObjQueue*: the wait in `_queue_want_object()` goes round. The server owes nothing.
- *FileJobs*: the main loop and the thread run on, and the user confirms an error sooner or later: strongly fair,
  since the button is only there between two rounds of the main loop.

## What the code does otherwise

Found while modelling. Some are in what the passing runs do, and their properties say what is left in spite of them:
"fails without" names the part of the property that stands for it. The others are reproduced by a run, or by a
changed constant: of the configuration named, or of the INSTANCE in the module named. `Uses` and `Faults` are
empty in the runs exactly to keep these apart from everything else.

| where | what happens | to see it |
|---|---|---|
| `server/event.c:69` | QUIT to a dead connection deletes its process, then the process moved into its slot | run `proctable_quit` |
| `server/proto.c:39` | a command before INIT is carried out after the kick, on the slot's new process | `ProcTable_quit.cfg` with `Faults = {"early"}`, `OneDropPerStep` |
| `server/process.c:60` | a client that dies inside its INIT leaves its neighbour with two virtual objects | the same with `{"init"}`, `PidsAndOidsMatch` |
| `server/mcp.c:60` | the newest client doing so makes `mcp_rep_object()` dereference NULL | the same with `{"init"}`, `NeverCrashes` |
| `server/object.c:101` | a pushed vertex clears `OF_CLONE_SRC` (the search compares `n_vertex`), so a deletion leaves clones that point at nothing | `ObjGraph_lists.cfg` with `Uses = {"push"}`, `ClonesShowObjects` |
| `server/object.c:1880` | for the same reason a shown object may become a clone | the same with `MaxOid = 4`, `NoCloneChains` |
| `server/object.c:1959` | `obj_del()` reads the flags of the object it has freed | the same with `Uses = {"freed"}`, `ClonesShowObjects` |
| `server/object.c:1871` | a CLONE of the camera is reported and carried out | the same with `{"system"}`, `CameraStaysCamera` |
| `server/object.c:1303` | the search for the biggest object stores the oid of the command, not the one found; `obj_del()` never reports the new radius | read in `obj_check_biggest_object` and `Del` of ObjSize; no property fails, since the radius stays large enough |
| `server/object.c:1985` | the children of a removed object keep the matrix they had below it | `"delparent"` in ObjSize's `Uses` (MCObjects), `SizesAreCurrent` |
| `server/object.c` (clones) | a clone's radius is that of its own empty stack, or of an outdated source | the same with `"cloneupdate"` |
| `server/object.c` (radii) | the radius ignores how the object's parents are scaled, and a negative factor | the same with `"nestscale"` |
| `server/object.c:1101` | popping n of m textures leaves n of them, not m - n | `"poptex"` in `Objects.cfg`, `ImplementsStacks` |
| `server/object.c:944` and the four like it | popping all entries keeps the compiled list, so what was popped stays on the screen | `"popall"`, `ListIsCurrent` |
| `server/object.c:292` | a texture pushed after its material does not discard the list | `"latetex"`, `ListIsCurrent` |
| `server/proto.c:28` | the number of a pop is cut to 16 bits | `"popwide"` with `NumWidth = 1`, `ImplementsStacks` |
| `libs3d/proto_out.c:154` | the number of packets is computed from the bytes that fit, their contents from whole entries: of 16381 vertices 16380 are sent | run `objdata_long` |
| `libs3d/proto_out.c:809` | `s3d_pep_lines()` sends its first number for all | `"peplines"`, `ImplementsStacks` |
| `libs3d/proto_out.c:916` and the three like it | the second packet of a load starts as many entries on as the first had bytes | `"load2"`, `ImplementsStacks` |
| `server/object.c:339` | the segment of a texture is announced before it is cleared, and a picture drawn in between is wiped | in the run `clients`: `LastLoadShows` of TexShm fails with `last` for its `IF wiped = last THEN 0 ELSE last` |
| `libs3d/texture.c` | a LOAD_TEX still under way overwrites what was drawn into the segment after it | `"soon"` in TexShm's `Uses` (Clients), `TexturesShowTheLast` |
| `libs3d/texture.c` | a popped texture's segment stays known; the one pushed in its place is drawn into the old segment | the same with `"reuse"` |
| `server/shm_ringbuf.c:24` | a full ring is overwritten | RingBuf with `Size = 5`, `Hdr = 1`, `MaxLen = MaxSent = 3`, `Uses = {"overwrite"}`, `NoOverrun` |
| `server/shm_ringbuf.c:34`, `:63` | without optimization the other side sees an index outside of the ring | the same with `Uses = {"end"}`, `MaxSent = 4`, `InsideRing`; with `{"start"}`, `MaxSent = 6`, `NoOverrun` |
| `libs3d/shm.c:64` | two programs take the same pair of keys, and write into the same ring | `"race"` in ShmConnect's `Uses` (MCTransports), `KeysServed` |
| `libs3d/shm.c` | a program that dies with one of the words cleared keeps everybody else from connecting, for ever | the same with `"midway"`, `TransportsEnd` |
| `server/tcp.c:212` | both sides write into full sockets and wait for each other | in the run `progress`: `WriteEnds` of Tcp fails without `Floods(cur)` |
| `libs3d/network.c:66` | a lost signal leaves a program blind while the server waits for it to read | the same without `Blind(cur)` |
| `server/network.c:95` | a lost signal leaves a program unread, and nobody notices until the next one | the same: `Served` fails without `[]<>sigio` |
| `server/main.c:34` | `quit()` is begun anew by a handler in the middle of `quit()`, and takes down again what is down or half down: `shm_quit()` writes to a block it is detached from, `process_quit()` walks a table that is freed | in the run `transports`: `Crash` of StartUp is taken |
| `server/main.c:168` | a server whose kid ends during `init()` calls `quit()` with `running` still 0, takes down nothing and leaves its segments and its key file | the same: `ServerLeavesNothing` fails without `ran` |
| `libs3d/event.c:29` | with the lock taken an event to be ignored is queued, and reaches a callback set later | `EventLoop_live.cfg` with `Uses = {}`, `Spec`, `IgnoredAreSkipped` |
| `libs3d/io.c:212` | `s3d_quit()` in a callback runs QUIT's callback inside it | the same with `{"quit"}`, `NoNesting` |
| `libs3d/event.c:30` | an event goes straight to its callback past those queued during `s3d_new_object()` | `EventLoop_safe.cfg` with `Uses = {"new"}`, `InOrder` |
| `apps/dot_mcp/main.c:202` | a program that gets the oid of one that is gone, while its deletion or a click on it is under way, loses its decorations, or is closed in its place | `"restart"` in DotMcp's `Uses` (MCClients), `McpAgrees` |
| `apps/s3dvt/main.c:317` | `paintit()` clears the flag when it is done, and with it what the thread raised meanwhile: what it wrote behind the painter is not painted until the shell prints again | in the run `clients`: `ShownAtRest` of Terminal fails without `late` |
| `apps/s3dvt/main.c:299` | from the first cell that has become empty, all that changed in the line is erased, on the screen and in the lines, also behind a gap that a sequence left | `ShownAtRest` of Terminal fails without its last line under its own `Spec` with `MAX_LINES = 1`, `MAX_CHARS = 3`, since a cell erased so stays blank when the thread writes the same character there again |
| `apps/s3dfm/parse.c:72` | of two entries that vanished, the second may be swapped into the place of the first and is skipped | in the run `clients`: `SweptOf` of FileTree fails with none in place of half |
| `apps/s3dfm/parse.c:73` | when the entry that vanished is the last, its index is written into the node that was just freed | read in `Sweep` of FileTree |
| `apps/s3dfm/dialog.c:369` | how a node is displayed is read after `parse_dir()` has freed it | read in `CleanUp` of FileTree: any of the answers |
| `apps/s3dfm/fs.c:79` | the copies of a job are freed with its list while they are on the animation stack | in the run `clients`: `PointersLive` of FileTree fails without `"stale"` |
| `apps/s3dfm/parse.c` | an opened directory that vanishes is deleted while its parent counts it and the stack points to it | `"opened"` in FileTree's `Uses` (MCClients), `TreeStands` |
| `apps/s3dfm/parse.c` | refreshing a directory shown as an icon draws its entries on a box that is not there | the same with `"icon"` |
| `apps/s3dfm/dialog.c:165` | a job with nothing selected leaves `fs_lock` set: from then on "another FS Action is in Progress" | in the run `progress`: `fs_lock # "NONE" ~> fs_lock = "NONE"` fails in FileJobs |
| `apps/s3dfm/dialog.c:395` | the thread that ends behind the main loop's look is found finished, and its list freed, with entries not cleaned up: nodes stay of files that are gone | in the run `clients`: `JobsAreApart` of FileJobs fails without `missed` |
| `apps/meshs3d/main.c:412` | the end of a block is a flag that is counted in the next round, so the lines that follow it in the same reading are dated to the block before: a node that was in every block is taken for one that was missing, and goes until it is reported again | `Uses = {"burst"}` in `Mesh` (MCClients), `MeshIsShown` (`ReportedStay`) |
| `apps/meshs3d/process.c:229` | a connection that gets a new object keeps the colour it had in `con->color`, so that the new line stays white | the same (`ColorIsKnown`) |

Read but not run, since they are about what the models leave out: `s3dw_moveit()` adds
y where drawing subtracts it; `s3dw_textbox_hide()` switches its lines on; the root of the widgets is kept after it was
deleted. In s3dvt the character after a wrap leaves the cursor on it, the sequences `A` on the top line, and `G` and `r` without arguments, leave the
screen (the model sends what a program that knows the size sends, `Sane`), and pipe mode does not end. In s3dfm the job window asks `fs_approx()` on
the main thread for what only the main thread can confirm, the destination of a job (`destnode`, `dialog.c:20`) is a node that may be deleted before
it is read (lines 345 and 402), `fs_move()` has its test inverted (nobody calls it), and a directory copied into itself does not end. In meshs3d the end of a block is missed when
its brace and the newline after it come in different readings, a brace is counted twice when the rest of its line comes later, an address
that cannot be read cuts off what follows it, and the label with the count never shows none. If
`init()` fails before the word to the kid, the kid waits for ever.

## The proofs

TLC checks small instances; the theorems hold for every value of the constants.

**ProcTableProofs**, assuming `"init" \notin Faults` (with it the invariant is false,
as the table above says). `Invariant` proves `IInv`, from which follow `Types`, `Matching`, `Connections`,
`Focus`, `Clones`, `Knowledge` and `NoCrash`: all the invariants of `proctable_safe`, also with the
faults `"quit"` and `"early"`. The properties are not inductive one by one: whether a
pid and an oid match after a removal depends on every slot having one
connection, on the focus, and on the MCP's knowledge, and in the middle of a handler
some slot is half removed. So `Inv(s, X)` states them together, except for the
slots in `X` that a function under way has left unfinished, and there is one lemma
per C function that says which `X` it takes and leaves, in the order of the
calls. `NextInv` then has one step per action.

Two action properties follow with more about each function. `NobodyDroppedSilently` (without `"quit"` and
`"init"`; `"early"` is allowed): every function keeps everybody who is not in `dead`, or has told
him. A QUIT to a dead connection is excluded by assumption, since it deletes the process that moved into
the slot (run `proctable_quit`). `OneDroppedAtATime` (without `"init"` and `"early"`; `"quit"` is
allowed): nested deletions may cost several clients their slots, all found dead, but a packet drops nobody
but its sender and those.

**ObjGraphProofs.** `LinkInvariant` needs no assumption: for any number of oids and all
uses the four pointers agree and links have no circle; `ObjTypes`,
`LinkedLists`, `LinksAcyclic` follow. The lemmas say what `LinkDelete`, `LinkInsert` and
`FreeLinks` do to a well-formed list. A circle is excluded over sets ("every set of
objects has one whose parent is outside"), which avoids induction along a path: a
new link `oid -> to` closes no circle because the set that `Circular` speaks of, of all ancestors of `to`,
does not hold `oid`. The invariant also says that no list of children is a ring: every set of list members has one
whose `lprev` is outside of it. That is what `TheLoopUnlinksAll` needs: each round of the loop in `obj_free()` leaves a well-formed
table with one child less (`OneRound`), so that the number of children, which is finite, bounds the rounds (`RoundsEmpty`), and the
result is `FreeLinks`. Under `Uses = {}` `CloneInvariant` adds the clones, which needs
that `OF_CLONE_SRC` is set for every object a clone shows; `ClonesLive`, `ClonesFlat` and
the refinement `SceneImplemented` follow.

**EventLoopProofs**, assuming `Stays` (callbacks do not quit and the server does not end the connection;
otherwise `NoNesting` is false). `LockInvariant` is about the stack of calls:
the loops, the main loop's function and callbacks have nothing below them that holds the
lock; `s3d_new_object()` has at most the receiving loop above it; `s3d_init()` and
`main()` are at the bottom; and `cb_lock` is the number of functions that hold it. `Push`,
`Pop` and `PushStack` say how a call, a return and `s3d_process_stack()` keep this. `Nesting` and `Lock`
follow for all other uses, any number of events and calls, and any depth of recursion.

Three more follow. `LockWhileConnected`: with every use, as long as there is a connection callbacks stay
apart and the lock is counted, so that only a quit can break it. `QuietAfterQuit`, without any
assumption: an event is only handled while there is a connection or by the loop over the queue, and
`s3d_quit()` leaves the queue empty and the connection closed; a function that goes on below it finds nothing.
`EventsInOrder` (the program makes objects in the main loop's function only, and only `main()` looks for packets and sets
callbacks): events are numbered as they are sent, and along the way, from what was handled over the frames of
the stack that hold an event, the queue and the unread packets, the numbers of a kind only
grow. A packet is read past the queue only with the lock free and the queue empty for its
kind, which is what the other uses break.

**TransportsProofs**, the ring, assuming `Uses = {}` (each index stored once; with the stores of the build, or a writer that overwrites, it is false).
`Invariant`: packet k lies in the stream behind the packets before it (`Off`), the cells from
`start` to `end` are those of the stream from `taken` to `written`, the writer has room for what it
is about to copy, and the `rend` the reader loaded lies behind the whole packet it is in. The last is the point: a
header is only followed by its body because the writer makes both visible with one store of `end`.
`TheRingIsAPipe` maps every step to one of `Pipe` or to none, and says that nothing unwritten is read; for every size
of ring, header and packet, provided a packet fits the ring.

**ShmConnectProofs**, assuming `"race" \notin Uses`; `"midway"` is allowed. `AnsweredIsServed`, for any number of clients and slots:
the words of the key file are offered from the second to the first and taken from the first to the second,
so that one client at a time can hold a pair that nobody had before; who has taken it keeps its segments until it ends,
and the server gives a slot up only when nobody else is attached, so that an answer is from a slot that stays.

**TransportsProofs**, the rest, carries this over to the specification that is run, in which a turn of another part leaves the keys
alone (`KeysAreServed`), and proves StartUp there: `NothingIsLeft` follows the components through `quit()` (`UpInv`): each of its steps finds down what the steps
before it took down, since nothing comes up again after `init()`, whoever began `quit()` anew; and `quit()` passes over the components of a server that had set itself up
only when an earlier `quit()` had come through them all (`RunningInv`). That the server may die of what it takes down twice is no contradiction: it has not gone through `exit()` then.

**ObjDataProofs**: `PictureIsCurrent`. That the compiled list is never older than the stacks is not inductive: emptying a stack
keeps the list (`popall`), and a texture that comes after its material does too (`latetex`). Whether a removal empties a stack is
decided by what the *program* has counted, calls earlier than the server carries it out. So the invariant follows the length of each stack
through the packets under way (`Leads`): there is a number the server's stack has at least, and what each packet leaves of it, pieces
of a request included, arrives at what the program has pushed. `TextureInv` does the same for the order of textures and materials. The
assumptions are on what programs do (`Tame`: they pop less than there is, a number that fits 16 bits, of textures only half, and push
textures first), on the objects that are there at the start, and that the pieces of an array hold all of it (`Covered`; `objdata_long` shows an array
for which they do not, and then the counts would not match either). `Objects.cfg` meets all of them: lengths 1 to 3, of which two fit a packet of 14 bytes.

`DataImplementsStacks` is the refinement of Stacks, of which the state is the object after all packets under way
(`Pending`), so that the server's step is a stutter and the program's request is the step. Packets carried out one after the other are a recursive function
(`Carried`), which `RunExists` shows to exist, and sending appends to it (`CarriedMore`). Three things are to be shown of it. The pieces of an array bring the
array (`PushedAll`, from `SplitCuts`: each begins where the one before it ended). What a packet does, in bytes, offsets and the shorter of two lengths, is what
Stacks says of positions from the end (`OverLastGive`, `CutLast`, `HalfLast` for textures). And `calc_normal()` writes into the entries that requests change too: a normal
it computed is negative, nothing a program sends is, and every packet does the same to an object whether the computed ones are in it or not (`UncomputedCarry`),
so that a frame may be drawn between any two packets. The invariant, `StackInv`, is small: each count of the program is the
length of its stack in `Pending`. The assumptions (`Behaved`) are what the table above shows to be false otherwise: `popwide`, `poptex`, `load2`
and `peplines`; with `popall` and `latetex`, which spoil the picture, the stacks are right all the same. At the start no normals are computed, and arrays are `Covered`.

**ObjSizeProofs**: `SizesStayCurrent`, both parts of `SizesAreCurrent`, for any number of objects and vertices and any places.
The command that moves an object recalculates others, along pointers. `Tree` says that parents and lists are an order of the objects (of a
forest with numbers, `Ordered`: a parent before its children, a child before the next in the list), so that `Positions` and
`Visits`, which recur along it, exist (`SetInduction`). A visit is a bracket, a matrix first and a check last, with the visits below and
beside it in between; hence the calls of `obj_pos_update()` are about the object and those below it and nothing else (`Down`, by
sets as in ObjGraphProofs), each after its parent and each checked after it was placed. So matrices of all others stay current, since nothing above them
moved, and the sphere, which is behind by no more than what is not yet checked (`Inside(st, P)`), is not behind at the end.
Radii: an object's covers vertices times scale, a clone's those of its source, a source with clones is marked, so that its
deletion empties them (`Sized`). What others link to has scale 1, hence the factor of a matrix is the scale up to its sign, and distance
plus radius covers the vertices. `biggest` may be the wrong object (see the table): all the invariant needs is that
the sphere never gets smaller than what is left.
The assumptions (`Tame`): none of the uses of the table, and scales are positive, since a factor below 0 is accepted by `obj_scale()` and the radius not enlarged for
it. Scales are integers here, so a clone's radius is rounded; it is rounded to no less than its vertices.

**ClientsProofs**: what two threads or processes use without a lock. The five parts are proved of their own specifications; TexShm and DotMcp with
`Uses <- {}` as in the run, the others have no uses.
- `TextureShowsTheLast`. The texture a program has is on its way, in the i-th packet, or in the server's buffer (i = 0). `Current(i)`: only drawings of it
  follow that packet; the last of them is the last drawing of all, or there is none and everything was drawn into the buffer, with an
  UPDATE_TEX under way when OpenGL has less. `Kept` is that what was drawn is there still or was wiped, and `Clearing` that a buffer to be cleared is the last one made and
  has not been bound. `Counted` numbers the textures along the packets, so that the server never has more buffers
  than the program has pushed and a push always meets an empty one. Drawing into the segment while a LOAD_TEX is under way (`"soon"`), and into that of a texture
  that was popped (`"reuse"`), is not allowed for; the table shows why.
- `JobsApart`. The list of a job is begun by nobody, or worked on up to `at`, or done (`Fresh`, `AtWork`, `Done`), and
  `fs_lock` with the open windows tells which. A node of a file that is gone has its entry still in the list, finished, or was missed
  (`GoneIsListed`); an entry that is finished and that the main loop has passed is missed (`PassedIsMissed`); so whatever the thread's end leaves of the list when
  it is freed is missed, or not yet passed, which it is by then. A file is in a list once (`EachOnce`), or it could be passed as one entry and finished as another.
- `ScreenShowsTheLines`. `Compared`: a cell shows what it was compared with, or was erased. `Passed`: in the pass under way, the cells that were stored agree with the
  lines unless the thread changed them since, and so does the character that was read and not yet stored; the thread may write any cell in between, and `late` has those behind
  the painter. What holds of all cells at the end of a pass holds until the thread raises the flag (`AtRest`), which it does when it is done. The cursor: one
  lemma per sequence (`FinalIn`).
  `move_x_letters()` goes letter by letter, a recursive function in the model; `LeftIn` proves for any number of letters that the cursor stays on the
  screen as long as there are so many before it.
- `NumbersGivenOnce`. Until the connection ends, a number in use on the server is in a slot of the queue, held by the program, in an answer under
  way or in a deletion under way; these are apart (`Apart`) and in each of them a number is once (`Once`), so their sizes add up to the number of
  objects (`QueueCounts`). `NetProtIn` reads any number of answers in one go; the recursive function that models it is shown to exist
  (`Walk`) and to keep the invariant answer by answer. `_queue_want_object()` may give up and an answer come later: nothing in the argument is
  about `requested`, the count that answers lower whether they were counted or not, so the count bounds the requests and loses nothing.
  That `obj_new()` finds a number below the count of objects or that count itself (`FirstFree`) is shown by counting.
- `McpFollowsTheServer`. The property speaks of rest, so the invariant `McpInv` says what each event and request under way is worth. `McpKnows`: a
  program that is not in the list is announced, or its deletion was ordered; one in the list that is gone has its DEL under way; and every
  announcement is of a program that is there or has a DEL behind it, which the order of events keeps. `Dressed`: entries share no
  decoration, and each object of the MCP belongs to one entry or is about to be deleted. `FocusTold`: the last FOCUS under way is dot_mcp's
  own focus, or there is none and the server has it, or had it until the program went. `Closing`: who is about to be closed was
  clicked. New objects must find no DEL and no click under way (`Settled`; the use `"restart"` is what happens otherwise): their oid may be
  the one that is meant. `DroppedInv` is the main step: an entry goes with its decorations, and the focus if it has it. The loop of
  `mainloop()` is a recursive function again: after n entries the table and the list are `Half` done, and there are three free oids for each of the rest.

Induction here is over a *set* of numbers (`SetInduction`: a set with 0 and all successors holds every number), from the library's theorem that `<` is well-founded, which
has no operator as a parameter; `Walk` obtains from it that a function defined by its last value exists.

Only model-checked, and why:

- every liveness property, which the provers cannot do: `DeadAreReaped`, `ShutDownCompletes`, `Processed`, `QuitEnds`, `TransportsEnd`,
  `SocketsGoOn`, `ProgramsGoOn`;
- `TreeStands`, `MeshIsShown`, `WidgetsAreShown` and `HashHasAll`: their models or they themselves use
  recursive operators, or folds of the community modules over what they change, which are recursive operators below.

## What is not modelled

- Drawing, picking and navigation (`server/graphics*.c`, `cull.c`, `matrix.c`, `navigation.c`), the triangulation
  (`libs3d/sei_*.c`) and vectors: floating point, no state that a later step's control depends on. What of matrices
  and radii decides whether something is drawn is in ObjSize.
- Models and fonts (`libs3d/modelread.c`, `freetype.c`, `fontselect.c`): wrappers of other libraries.
- The programs that show data of another domain (`kism3d`, `olsrs3d`, `s3dosm`, `s3d_x11gate`,
  the examples): to the server each is any client. olsrs3d is meshs3d's ancestor, with a binary tree for a table.
- Byte order, logging, option parsing, the search for the rc script, the allocator.
- In ProcTable: the camera and pointer of each program and what an input's numbers are. In ObjGraph: the
  deletion of a whole table at once. In ObjData: clones, and entries of different sizes. In ObjSize:
  rotation other than by half a turn, dimensions other than one. In TexShm: more than one texture. In EventLoop: the freeing of
  memory, NEW_OBJECT and texture packets, which never become events, and a second `s3d_init()`. In Tcp: a packet in more than
  two parts, a partial write. In StartUp: a failed `fork()`, and what a crash of the server leaves. In Widgets: coordinates, styles, the text.
  In DotMcp: where programs are placed, the keyboard. In Terminal: colours, function keys, the steps of one character (a scroll of the lines is one). In FileTree and FileJobs: names and
  paths, the camera, where a job's copies fly to; the thread's reading of the tree while the main thread changes it. In MeshView: where nodes are and move, the shades of a colour, addresses that
  cannot be read, a line between a node and itself.

## Plan

Modelled: the server's state and its connections, the library, and the programs that are part of the desktop. Proved: what is safe about the process
table, links and clones, the ring, the key file, the server's life, the events of the library, the data and the picture of an object,
where and how large objects are, textures, object numbers, the window manager's list, and the two programs with threads.
What is left to prove is what recursive operators stand in the way of: the hash table (`HashHasAll`), of which the chains would have to be
a recursive function, and the trees of s3dfm and s3dw.
