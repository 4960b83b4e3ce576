------------------------------ MODULE ProcTable ------------------------------
(***************************************************************************)
(* The process table of the s3d server (server/process.c, mcp.c, event.c   *)
(* and the process half of proto.c, tcp.c and shm.c).                      *)
(*                                                                         *)
(* Every connection owns a slot of procs_p.  Slot 0 belongs to the master  *)
(* control program (MCP) and always exists.  A client that sent INIT also  *)
(* owns a VIRTUAL object in the MCP's object table: procs_p[pid].mcp_oid   *)
(* names the object and the object's virtual_pid names the slot.  Removing *)
(* a slot moves the last slot into the hole, so both names have to follow. *)
(*                                                                         *)
(* The server is single threaded: one action is one handler, run to its    *)
(* end.  What happens inside a handler is that a write may find a closed   *)
(* connection, and prot_com_out() then deletes the process in the middle   *)
(* of its caller.  Each handler takes the set `dead' of the clients whose  *)
(* writes fail while it runs.                                              *)
(***************************************************************************)
EXTENDS Integers

CONSTANTS
  Clients,      \* the client programs
  NoClient,     \* an unused connection (CON_NULL)
  ShmClients,   \* clients on the shared memory transport: writes never fail
  MaxPid,       \* bound: slots 0..MaxPid
  MaxOid,       \* bound: the MCP's object table has the oids 0..MaxOid
  Faults        \* where a dead connection or a rude client is admitted

(* "quit": the QUIT packet may be written to a dead connection.            *)
(* "init": a client may be found dead while an INIT is being handled.      *)
(* "early": a client may send another command before INIT.                 *)
FaultKinds == {"quit", "init", "early"}

ASSUME ProcTableAssumption ==
  /\ NoClient \notin Clients
  /\ ShmClients \subseteq Clients
  /\ MaxPid \in Nat
  /\ MaxOid \in Nat \ {0}
  /\ Faults \subseteq FaultKinds

VARIABLES
  srv,          \* the server's state, one record
  peer          \* peer[c]: is the client's end of its connection open?

vars == <<srv, peer>>
-----------------------------------------------------------------------------
(* Types *)

MCP == 0                       \* the pid of the MCP
CAM == 0                       \* oid of the camera, made by process_sys_init
PTR == 1                       \* oid of the pointer
Pids == 0 .. MaxPid
Oids == 0 .. MaxOid

ObjTypes == {"null", "cam", "ptr", "virtual", "plain", "clone"}
\* ref is virtual_pid of a virtual object, clone_ooid of a clone, else 0
Object == [type: ObjTypes, ref: Nat]
Obj(type, ref) == [type |-> type, ref |-> ref]
NoObj == Obj("null", 0)

Server ==
  [procs_n: 1 .. MaxPid + 1,                \* slots in use are 0..procs_n-1
   con: [Pids -> Clients \union {NoClient}],
   mcp_oid: [Pids -> Oids \union {-1}],
   object: [Oids -> Object],                \* procs_p[MCP].object
   focus_oid: Oids \union {-1},
   known: SUBSET Oids,                      \* apps the connected MCP was told of
   told: SUBSET Clients,                    \* clients a QUIT was delivered to
   status: {"running", "quitting", "stopped", "crashed"}]

Slots(s) == 0 .. s.procs_n - 1
Virtuals(s) == {o \in Oids : s.object[o].type = "virtual"}
HasSlot(s, c) == \E pid \in Slots(s) : s.con[pid] = c
FreeOid(s, o) ==               \* the oid obj_new() takes: the first free one
  /\ s.object[o] = NoObj
  /\ \A q \in 0 .. o - 1 : s.object[q] # NoObj
-----------------------------------------------------------------------------
(* Deleting processes.  Operators are the C functions, state to state.     *)

(* process_del(MCP): the connection goes, and the objects its client made; *)
(* the system and the virtual objects stay.                                *)
DelMcp(s) ==
  [s EXCEPT !.con[MCP] = NoClient,
            !.object = [o \in Oids |->
               IF @[o].type \in {"plain", "clone"} THEN NoObj ELSE @[o]],
            !.known = {}]

(* prot_com_out() to the MCP *)
McpComOut(s, dead) == IF s.con[MCP] \in dead THEN DelMcp(s) ELSE s

McpRepObject(s, oid, dead) ==
  LET w == McpComOut(s, dead)
  IN  IF w.con[MCP] = NoClient THEN w
      ELSE [w EXCEPT !.known = @ \union {oid}]

\* mutant: the focus is not checked
McpDelObjectKeepFocus(s, oid, dead) ==
  [McpComOut(s, dead) EXCEPT !.known = @ \ {oid}]

McpDelObject(s, oid, dead) ==
  LET f == IF oid = s.focus_oid THEN [s EXCEPT !.focus_oid = -1] ELSE s
      w == McpComOut(f, dead)
  IN  [w EXCEPT !.known = @ \ {oid}]

\* mutant: the clones of the object are left alone
FreeVirtualOnly(s, oid) == [s EXCEPT !.object[oid] = NoObj]

(* the part of p_del() that frees the virtual object and its clones *)
FreeVirtual(s, oid) ==
  [s EXCEPT !.object = [o \in Oids |->
     CASE o = oid -> NoObj
       [] o # oid /\ @[o] = Obj("clone", oid) -> Obj("plain", 0)
       [] OTHER -> @[o]]]

\* mutant: the MCP is not told
PDelUntold(s, pid, dead) ==
  LET oid == s.mcp_oid[pid]
  IN  IF oid = -1 THEN s
      ELSE [FreeVirtual(s, oid) EXCEPT
              !.focus_oid = IF oid = s.focus_oid THEN -1 ELSE @]

(* p_del() of a client; its own objects are not part of this state *)
PDel(s, pid, dead) ==
  IF s.mcp_oid[pid] = -1 THEN s
  ELSE McpDelObject(FreeVirtual(s, s.mcp_oid[pid]), s.mcp_oid[pid], dead)

\* mutant: the moved process's object keeps the old virtual_pid
ProcessListRmKeepPid(s, pid) ==
  LET last == s.procs_n - 1
  IN  [s EXCEPT !.con = [@ EXCEPT ![pid] = s.con[last], ![last] = NoClient],
                !.mcp_oid = [@ EXCEPT ![pid] = s.mcp_oid[last], ![last] = -1],
                !.procs_n = last]

(* process_list_rm(): the last slot is copied over slot pid *)
ProcessListRm(s, pid) ==
  LET last == s.procs_n - 1
      oid  == s.mcp_oid[last]
  IN  [s EXCEPT !.con = [@ EXCEPT ![pid] = s.con[last], ![last] = NoClient],
                !.mcp_oid = [@ EXCEPT ![pid] = oid, ![last] = -1],
                !.object = IF pid # last /\ oid # -1
                           THEN [@ EXCEPT ![oid].ref = pid] ELSE @,
                !.procs_n = last]

\* mutant: the MCP's slot is removed like any other
ProcessDelMcpToo(s, pid, dead) ==
  IF pid \notin Slots(s) THEN s
  ELSE ProcessListRm(PDel([s EXCEPT !.con[pid] = NoClient], pid, dead), pid)

ProcessDel(s, pid, dead) ==
  IF pid = MCP THEN DelMcp(s)
  ELSE IF pid \notin Slots(s) THEN s
  ELSE ProcessListRm(PDel([s EXCEPT !.con[pid] = NoClient], pid, dead), pid)

(* A failing write deletes the process in that slot. *)
ProtComOut(s, pid, dead) ==
  IF s.con[pid] \in dead THEN ProcessDel(s, pid, dead) ELSE s

\* mutant: the process is deleted before the QUIT packet is written
EventQuitDelFirst(s, pid, dead) ==
  LET w == ProcessDel(s, pid, dead)
  IN  IF w.con[pid] \in dead \union {NoClient} THEN w
      ELSE [w EXCEPT !.told = @ \union {w.con[pid]}]

\* mutant: the process is deleted twice, whether the write failed or not
EventQuitTwice(s, pid, dead) ==
  ProcessDel(ProcessDel([s EXCEPT !.told = @ \union ({s.con[pid]} \ {NoClient})],
                        pid, dead), pid, dead)

(* event_quit(): the QUIT packet, then process_del(p->id), whatever the    *)
(* write did to the slot.                                                  *)
EventQuit(s, pid, dead) ==
  LET c == s.con[pid]
      w == IF c \in dead \union {NoClient} THEN ProtComOut(s, pid, dead)
           ELSE [s EXCEPT !.told = @ \union {c}]
  IN  ProcessDel(w, pid, dead)
-----------------------------------------------------------------------------
(* Focus and input events *)

(* A write to the focused program.  A virtual_pid that names no slot makes *)
(* get_proc_by_pid() return NULL, which the callers dereference.           *)
Crash(s) == [s EXCEPT !.status = "crashed"]
FocusComOut(s, dead) ==
  IF s.focus_oid = -1 THEN s
  ELSE LET pid == s.object[s.focus_oid].ref
       IN  IF pid \in Slots(s) THEN ProtComOut(s, pid, dead) ELSE Crash(s)

(* obj_pos_update() of the MCP's camera or pointer: event_cam_changed() or *)
(* event_ptr_changed() tell the MCP and the focused program.               *)
PosUpdate(s, dead) == FocusComOut(McpComOut(s, dead), dead)

(* event_key_pressed(), event_mbutton_clicked(): the focused program first *)
InputOut(s, dead) == McpComOut(FocusComOut(s, dead), dead)

McpFocus(s, oid, dead) ==
  IF oid \in Oids /\ s.object[oid].type = "virtual"
  THEN PosUpdate([s EXCEPT !.focus_oid = oid], dead)
  ELSE [s EXCEPT !.focus_oid = -1]

\* mutant: a new MCP is not told of the programs that run already
McpInitNoReport(s, dead) == McpFocus(McpComOut(s, dead), -1, dead)

(* mcp_init(): report every application, then drop the focus *)
McpInit(s, dead) ==
  IF \E o \in Virtuals(s) : s.object[o].ref \notin Slots(s) THEN Crash(s)
  ELSE McpFocus(McpComOut([s EXCEPT !.known = Virtuals(s)], dead), -1, dead)
-----------------------------------------------------------------------------
(* process_protinit(), in the three ways it goes *)

(* process_sys_init(): moving the MCP's camera and pointer tells the       *)
(* focused program, event_obj_info() tells the new one.                    *)
ProcessSysInit(s, pid, dead) ==
  LET w == PosUpdate(s, dead)
  IN  IF pid \in Slots(w) THEN ProtComOut(w, pid, dead) ELSE w

(* the new virtual object, its report, the focus when there is no MCP, and *)
(* event_init() to whoever has the slot then                               *)
Register(s, pid, oid, dead) ==
  LET v == [s EXCEPT !.object[oid] = Obj("virtual", pid), !.mcp_oid[pid] = oid]
      r == McpRepObject(v, oid, dead)
      f == IF r.con[MCP] = NoClient THEN McpFocus(r, oid, dead) ELSE r
  IN  IF pid \in Slots(f) THEN ProtComOut(f, pid, dead) ELSE f

\* mutant: the old slot stays
TakeMcpPlaceKeepSlot(s, pid, dead) ==
  McpComOut(McpInit([s EXCEPT !.con[MCP] = s.con[pid]], dead), dead)

(* the client of slot pid becomes the MCP: its connection moves to slot 0 *)
TakeMcpPlace(s, pid, dead) ==
  LET m == [s EXCEPT !.con[MCP] = s.con[pid]]
  IN  McpComOut(ProcessListRm(McpInit(m, dead), pid), dead)
-----------------------------------------------------------------------------
(* Actions *)

Running == srv.status = "running"
InUse(pid) == pid \in Slots(srv) /\ srv.con[pid] # NoClient
Initialised(pid) == pid # MCP /\ InUse(pid) /\ srv.mcp_oid[pid] # -1
Waiting(pid) == pid # MCP /\ InUse(pid) /\ srv.mcp_oid[pid] = -1

(* A write can fail once the client's end of a socket is closed.  Without  *)
(* fault f, a handler sensitive to it finds only the MCP dead.             *)
Gone == {c \in Clients \ ShmClients : peer[c] = "closed"}
DeadIn(f) == IF f \in Faults THEN Gone ELSE Gone \intersect {srv.con[MCP]}

Init ==
  /\ srv = [procs_n |-> 1,
            con |-> [pid \in Pids |-> NoClient],
            mcp_oid |-> [pid \in Pids |-> -1],
            object |-> [o \in Oids |-> CASE o = CAM -> Obj("cam", 0)
                                         [] o = PTR -> Obj("ptr", 0)
                                         [] OTHER -> NoObj],
            focus_oid |-> -1, known |-> {}, told |-> {}, status |-> "running"]
  /\ peer = [c \in Clients |-> "closed"]

(* tcp_pollport() or shm_main(): process_add() and the connection's data *)
Accept(c) ==
  /\ Running /\ peer[c] = "closed" /\ ~HasSlot(srv, c)
  /\ srv.procs_n <= MaxPid
  /\ srv' = [srv EXCEPT !.procs_n = @ + 1, !.con[srv.procs_n] = c,
                        !.mcp_oid[srv.procs_n] = -1, !.told = @ \ {c}]
  /\ peer' = [peer EXCEPT ![c] = "open"]

(* the client closes its end, or its program ends *)
Leave(c) ==
  /\ peer[c] = "open"
  /\ peer' = [peer EXCEPT ![c] = "closed"]
  /\ UNCHANGED srv

\* mutant: only initialised processes are read
HangUpInitialised(pid) ==
  /\ Running /\ Initialised(pid) /\ peer[srv.con[pid]] = "closed"
  /\ \E dead \in SUBSET Gone : srv' = ProcessDel(srv, pid, dead)
  /\ UNCHANGED peer

(* tcp_prot_com_in() reads the end of file; shm_main() finds itself alone  *)
(* on the segment after MAX_IDLE polls                                     *)
HangUp(pid) ==
  /\ Running /\ InUse(pid) /\ peer[srv.con[pid]] = "closed"
  /\ \E dead \in SUBSET Gone : srv' = ProcessDel(srv, pid, dead)
  /\ UNCHANGED peer

(* INIT of an ordinary program.  `first' are the clients found dead while  *)
(* process_sys_init() runs, `dead' those after it.  When the slot itself   *)
(* went away meanwhile, mcp_rep_object() looks up a pid that is out of     *)
(* range and dereferences NULL.                                            *)
InitApp(pid) ==
  /\ Running /\ Waiting(pid)
  /\ \E first \in SUBSET DeadIn("init") : \E dead \in SUBSET Gone :
       LET s == ProcessSysInit(srv, pid, first)
       IN  /\ first \subseteq dead
           /\ \/ /\ pid \in Slots(s)
                 /\ \E oid \in Oids : /\ FreeOid(s, oid)
                                      /\ srv' = Register(s, pid, oid, dead)
              \/ /\ pid \notin Slots(s)
                 /\ srv' = Crash(s)
  /\ UNCHANGED peer

(* INIT with a name that starts with "mcp" while the place is free *)
InitMcp(pid) ==
  /\ Running /\ Waiting(pid) /\ srv.con[MCP] = NoClient
  /\ \E dead \in SUBSET Gone : srv' = TakeMcpPlace(srv, pid, dead)
  /\ UNCHANGED peer

(* INIT as "sys_*", or as "mcp*" when the place is taken: kicked *)
InitRefused(pid) ==
  /\ Running /\ Waiting(pid)
  /\ \E dead \in SUBSET DeadIn("quit") : srv' = EventQuit(srv, pid, dead)
  /\ UNCHANGED peer

(* S3D_P_C_QUIT, of a program or of the MCP *)
Quit(pid) ==
  /\ Running /\ (Initialised(pid) \/ (pid = MCP /\ InUse(pid)))
  /\ \E dead \in SUBSET DeadIn("quit") : srv' = EventQuit(srv, pid, dead)
  /\ UNCHANGED peer

(* A command before INIT: prot_com_in() kicks the process and then goes on *)
(* to carry the command out, on the process that is in the slot by now.    *)
(* The commands that change this state are QUIT and those with a reply.    *)
EarlyCommand(pid) ==
  /\ Running /\ "early" \in Faults /\ Waiting(pid)
  /\ \E dead \in SUBSET DeadIn("quit") :
       LET s == EventQuit(srv, pid, dead)
       IN  \/ srv' = IF pid \in Slots(s) THEN EventQuit(s, pid, dead) ELSE s
           \/ srv' = IF pid \in Slots(s) THEN ProtComOut(s, pid, dead) ELSE s
  /\ UNCHANGED peer

(* S3D_P_C_NEW_OBJ of a program: its own table is elsewhere, the reply may *)
(* find it dead                                                            *)
NewObj(pid) ==
  /\ Running /\ Initialised(pid)
  /\ \E dead \in SUBSET Gone : srv' = ProtComOut(srv, pid, dead)
  /\ UNCHANGED peer

(* obj_check_biggest_object(): the program's size changed *)
CheckBiggest(pid) ==
  /\ Running /\ Initialised(pid)
  /\ \E dead \in SUBSET Gone : srv' = McpRepObject(srv, srv.mcp_oid[pid], dead)
  /\ UNCHANGED peer

(* S3D_P_C_NEW_OBJ of the MCP *)
McpNewObj ==
  /\ Running /\ srv.con[MCP] # NoClient
  /\ \E dead \in SUBSET Gone : \E oid \in Oids :
       /\ FreeOid(srv, oid)
       /\ srv' = McpComOut([srv EXCEPT !.object[oid] = Obj("plain", 0)], dead)
  /\ UNCHANGED peer

(* S3D_P_C_CLONE of the MCP: its own object oid shows program toid *)
McpClone(oid, toid) ==
  /\ Running /\ srv.con[MCP] # NoClient
  /\ srv.object[oid].type \in {"plain", "clone"}
  /\ srv.object[toid].type = "virtual"
  /\ srv' = [srv EXCEPT !.object[oid] = Obj("clone", toid)]
  /\ UNCHANGED peer

(* S3D_P_C_DEL_OBJ of the MCP: obj_del() frees its own objects, and closes *)
(* the program of a virtual one; system objects stay                       *)
McpDelObj(oid) ==
  /\ Running /\ srv.con[MCP] # NoClient
  /\ \/ /\ srv.object[oid].type \in {"plain", "clone"}
        /\ srv' = [srv EXCEPT !.object[oid] = NoObj]
     \/ /\ srv.object[oid].type = "virtual"
        /\ \E dead \in SUBSET DeadIn("quit") :
             srv' = IF srv.object[oid].ref \in Slots(srv)
                    THEN EventQuit(srv, srv.object[oid].ref, dead)
                    ELSE Crash(srv)
  /\ UNCHANGED peer

(* S3D_P_MCP_FOCUS, with any oid but the pointer's: the MCP may name an    *)
(* object that has gone, or one that took its place                        *)
FocusCommand(oid) ==
  /\ Running /\ srv.con[MCP] # NoClient
  /\ \E dead \in SUBSET Gone : srv' = McpFocus(srv, oid, dead)
  /\ UNCHANGED peer

(* keys and buttons; the camera or the pointer moving, on the user's       *)
(* account or because the focused program moved its own                    *)
InputEvent ==
  /\ Running
  /\ \E dead \in SUBSET Gone : \/ srv' = InputOut(srv, dead)
                               \/ srv' = PosUpdate(srv, dead)
  /\ UNCHANGED peer

(* quit(), then process_quit(): event_quit() for the last slot down to the *)
(* first                                                                   *)
ShutDown ==
  /\ Running
  /\ srv' = [srv EXCEPT !.status = "quitting"]
  /\ UNCHANGED peer

\* mutant: the loop stops short of the MCP
QuitLastProgram ==
  /\ srv.status = "quitting" /\ srv.procs_n > 1
  /\ \E dead \in SUBSET Gone : srv' = EventQuit(srv, srv.procs_n - 1, dead)
  /\ UNCHANGED peer

QuitLast ==
  /\ srv.status = "quitting"
  /\ \E dead \in SUBSET Gone :
       LET pid == srv.procs_n - 1
           s   == EventQuit(srv, pid, dead)
       IN  srv' = IF pid = MCP THEN [s EXCEPT !.status = "stopped"] ELSE s
  /\ UNCHANGED peer

Next ==
  \/ \E c \in Clients : Accept(c) \/ Leave(c)
  \/ \E pid \in Pids :
       \/ HangUp(pid) \/ InitApp(pid) \/ InitMcp(pid) \/ InitRefused(pid)
       \/ Quit(pid) \/ EarlyCommand(pid) \/ NewObj(pid) \/ CheckBiggest(pid)
  \/ McpNewObj
  \/ \E oid \in Oids : McpDelObj(oid) \/ \E toid \in Oids : McpClone(oid, toid)
  \/ \E oid \in (Oids \union {-1}) \ {PTR} : FocusCommand(oid)
  \/ InputEvent \/ ShutDown \/ QuitLast

Spec == Init /\ [][Next]_vars

(* network_main() reads every connection in each round of the main loop,   *)
(* and process_quit() runs to its end.                                     *)
Reap(c) == \E pid \in Pids : srv.con[pid] = c /\ HangUp(pid)
FairSpec == Spec /\ (\A c \in Clients : WF_vars(Reap(c))) /\ WF_vars(QuitLast)
-----------------------------------------------------------------------------
(* Properties *)

(* Every field of the server's record and every peer has its type. *)
TypeOK ==
  /\ srv \in Server
  /\ peer \in [Clients -> {"open", "closed"}]

(* The two names follow each other through every removal: a program's      *)
(* mcp_oid is a virtual object whose virtual_pid is its slot, and every    *)
(* virtual object is some program's (process_list_rm: "change the          *)
(* mcp-objects pid-pointer to the right position!").                       *)
PidsAndOidsMatch ==
  /\ \A pid \in Slots(srv) \ {MCP} :
       srv.mcp_oid[pid] # -1 =>
         srv.object[srv.mcp_oid[pid]] = Obj("virtual", pid)
  /\ \A o \in Virtuals(srv) :
       /\ srv.object[o].ref \in Slots(srv) \ {MCP}
       /\ srv.mcp_oid[srv.object[o].ref] = o

(* A slot other than the MCP's has a live connection, and no connection    *)
(* has two slots: nothing is served twice and no slot is left that no read *)
(* would ever remove.                                                      *)
SlotsAreConnections ==
  /\ \A pid \in Slots(srv) \ {MCP} : srv.con[pid] # NoClient
  /\ \A p, q \in Slots(srv) :
       srv.con[p] = srv.con[q] /\ srv.con[p] # NoClient => p = q

(* Input goes to a living program or to nobody: the focus is a virtual     *)
(* object, also after the focused program died in the middle of a handler. *)
FocusIsAProgram ==
  srv.focus_oid # -1 => srv.object[srv.focus_oid].type = "virtual"

(* No object of the MCP shows a program that has gone (the clone loop in   *)
(* p_del).                                                                 *)
ClonesShowPrograms ==
  \A o \in Oids : srv.object[o].type = "clone" =>
                    srv.object[srv.object[o].ref].type = "virtual"

(* What the connected MCP was told is what there is: an MCP that connects  *)
(* late, or reconnects, knows exactly the programs that are running.       *)
McpKnowsThePrograms ==
  srv.con[MCP] # NoClient => srv.known = Virtuals(srv)

(* No handler looks up a pid that is out of range. *)
NeverCrashes == srv.status # "crashed"

(* A client whose end is open loses its slot only with a QUIT delivered to *)
(* it: nobody is dropped for another connection's failure (event_quit:     *)
(* "this lets a process quit gracefully ...").                             *)
Dropped(c) == HasSlot(srv, c) /\ ~HasSlot(srv, c)' /\ peer[c] = "open"
NoSilentDrop == [][\A c \in Clients : Dropped(c) => c \in srv'.told]_vars

(* One command ends at most one living client: a command reaches only the  *)
(* process that sent it, and the one the MCP closes with it.               *)
OneDropPerStep ==
  [][\A c, d \in Clients : Dropped(c) /\ Dropped(d) => c = d]_vars

(* A closed connection gives its slot back, initialised or not, whichever  *)
(* slots it is moved to on the way.                                        *)
DeadAreReaped ==
  \A c \in Clients :
    (peer[c] = "closed" /\ HasSlot(srv, c)) ~> ~HasSlot(srv, c)

(* process_quit() gets through the table, whatever its writes delete. *)
ShutDownCompletes == (srv.status = "quitting") ~> (srv.status = "stopped")
=============================================================================
