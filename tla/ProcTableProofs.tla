--------------------------- MODULE ProcTableProofs ---------------------------
(***************************************************************************)
(* Proofs about ProcTable.  The inductive invariant Inv(s, X) says of a    *)
(* server state what the properties say, except about the slots in X: in   *)
(* the middle of a handler the slot of the process that is being removed   *)
(* is no longer, or not yet again, in order.  Every C function has a lemma *)
(* that it preserves Inv, and the actions follow from these.               *)
(***************************************************************************)
EXTENDS ProcTable, TLAPS

Good(s) == s \in Server /\ s.status # "crashed"

ProcSlots(s) == Slots(s) \ {MCP}

SlotsInv(s, X) ==
  /\ \A p \in ProcSlots(s) \ X : s.con[p] # NoClient
  /\ \A p, q \in Slots(s) \ X :
       s.con[p] = s.con[q] /\ s.con[p] # NoClient => p = q

MatchInv(s, X) ==
  /\ \A p \in ProcSlots(s) \ X :
       s.mcp_oid[p] # -1 => /\ s.mcp_oid[p] \in Virtuals(s)
                            /\ s.object[s.mcp_oid[p]].ref = p
  /\ \A o \in Virtuals(s) :
       /\ s.object[o].ref \in ProcSlots(s) \ X
       /\ s.mcp_oid[s.object[o].ref] = o

FocusInv(s) == s.focus_oid # -1 => s.focus_oid \in Virtuals(s)

ClonesInv(s) ==
  \A o \in Oids : s.object[o].type = "clone" => s.object[o].ref \in Virtuals(s)

Core(s, X) ==
  /\ Good(s)
  /\ SlotsInv(s, X)
  /\ MatchInv(s, X)
  /\ FocusInv(s)
  /\ ClonesInv(s)

KnownInv(s) == s.con[MCP] # NoClient => s.known = Virtuals(s)

Inv(s, X) == Core(s, X) /\ KnownInv(s)

-----------------------------------------------------------------------------
(* Deleting processes *)

(* The pids and the oids are numbers, and the MCP's pid is one of them.    *)
LEMMA PidTypes == MCP \in Pids /\ Pids \subseteq Int /\ Oids \subseteq Nat
BY ProcTableAssumption DEF MCP, Pids, Oids

(* The slots in use are pids below procs_n, the MCP's among them.          *)
LEMMA SlotsArePids ==
  ASSUME NEW s, s \in Server
  PROVE  /\ Slots(s) \subseteq Pids /\ MCP \in Slots(s)
         /\ s.procs_n \in Nat \ {0}
         /\ \A p \in Slots(s) : p \in Int /\ p < s.procs_n
BY ProcTableAssumption DEF Server, Slots, Pids, MCP

(* process_del(MCP) keeps the system and the virtual objects. *)
LEMMA DelMcpFields ==
  ASSUME NEW s, s \in Server
  PROVE  LET t == DelMcp(s)
         IN  /\ t \in Server
             /\ t.procs_n = s.procs_n /\ t.mcp_oid = s.mcp_oid
             /\ t.focus_oid = s.focus_oid /\ t.told = s.told
             /\ t.status = s.status /\ t.known = {}
             /\ t.con = [s.con EXCEPT ![MCP] = NoClient]
             /\ Virtuals(t) = Virtuals(s)
             /\ \A o \in Virtuals(s) : t.object[o] = s.object[o]
             /\ \A o \in Oids : t.object[o].type # "clone"
<1> DEFINE t == DelMcp(s)
           con == [s.con EXCEPT ![MCP] = NoClient]
           obj == [o \in Oids |-> IF s.object[o].type \in {"plain", "clone"}
                                  THEN NoObj ELSE s.object[o]]
<1>1. t = [s EXCEPT !.con = con, !.object = obj, !.known = {}]
  BY DEF DelMcp, Server
<1>2. obj \in [Oids -> Object] /\ con \in [Pids -> Clients \union {NoClient}]
  BY PidTypes DEF Server, Object, NoObj, Obj, ObjTypes
<1>3. \A o \in Oids : obj[o] = IF s.object[o].type \in {"plain", "clone"}
                               THEN NoObj ELSE s.object[o]
  OBVIOUS
<1> HIDE DEF t, con, obj
<1>4. t \in Server
  BY <1>1, <1>2 DEF Server
<1>5. /\ t.object = obj /\ t.con = con /\ t.known = {}
      /\ t.procs_n = s.procs_n /\ t.mcp_oid = s.mcp_oid
      /\ t.focus_oid = s.focus_oid /\ t.told = s.told /\ t.status = s.status
  BY <1>1 DEF Server
<1>6. Virtuals(t) = Virtuals(s) /\ \A o \in Virtuals(s) : t.object[o] = s.object[o]
  BY <1>3, <1>5 DEF Virtuals, NoObj, Obj
<1>7. \A o \in Oids : t.object[o].type # "clone"
  BY <1>3, <1>5 DEF NoObj, Obj
<1> QED
  BY <1>4, <1>5, <1>6, <1>7 DEF t, con

(* An interrupted handler may go on after the MCP's connection failed.     *)
LEMMA DelMcpCore ==
  ASSUME NEW s, NEW X, Core(s, X)
  PROVE  Core(DelMcp(s), X)
<1> DEFINE t == DelMcp(s)
<1>1. s \in Server
  BY DEF Core, Good
<1>2. /\ t \in Server
      /\ t.procs_n = s.procs_n /\ t.mcp_oid = s.mcp_oid
      /\ t.focus_oid = s.focus_oid /\ t.status = s.status
      /\ t.con = [s.con EXCEPT ![MCP] = NoClient]
      /\ Virtuals(t) = Virtuals(s)
      /\ \A o \in Virtuals(s) : t.object[o] = s.object[o]
      /\ \A o \in Oids : t.object[o].type # "clone"
  BY <1>1, DelMcpFields
<1> HIDE DEF t
<1>3. Slots(t) = Slots(s) /\ ProcSlots(t) = ProcSlots(s)
  BY <1>2 DEF Slots, ProcSlots
<1>4. \A p \in Slots(s) : t.con[p] = IF p = MCP THEN NoClient ELSE s.con[p]
  BY <1>1, <1>2, SlotsArePids DEF Server
<1>5. SlotsInv(t, X)
  BY <1>3, <1>4 DEF Core, SlotsInv, ProcSlots
<1>6. MatchInv(t, X)
  BY <1>2, <1>3 DEF Core, MatchInv
<1>7. FocusInv(t) /\ ClonesInv(t)
  BY <1>2 DEF Core, FocusInv, ClonesInv
<1> QED
  BY <1>2, <1>5, <1>6, <1>7 DEF Core, Good, t

(* A write to the MCP changes nothing, or it finds the MCP gone. *)
LEMMA McpComOutCore ==
  ASSUME NEW s, NEW X, NEW dead, Core(s, X)
  PROVE  LET t == McpComOut(s, dead)
         IN  /\ Core(t, X)
             /\ t = s \/ t.con[MCP] = NoClient
             /\ t.procs_n = s.procs_n /\ t.mcp_oid = s.mcp_oid
             /\ t.focus_oid = s.focus_oid
             /\ Virtuals(t) = Virtuals(s)
             /\ \A o \in Virtuals(s) : t.object[o] = s.object[o]
<1>1. s \in Server
  BY DEF Core, Good
<1>2. CASE s.con[MCP] \in dead
  <2> DEFINE t == DelMcp(s)
  <2>1. McpComOut(s, dead) = t
    BY <1>2 DEF McpComOut
  <2>2. Core(t, X)
    BY DelMcpCore
  <2>3. /\ t.procs_n = s.procs_n /\ t.mcp_oid = s.mcp_oid
        /\ t.focus_oid = s.focus_oid
        /\ t.con = [s.con EXCEPT ![MCP] = NoClient]
        /\ Virtuals(t) = Virtuals(s)
        /\ \A o \in Virtuals(s) : t.object[o] = s.object[o]
    BY <1>1, DelMcpFields
  <2> HIDE DEF t
  <2>4. t.con[MCP] = NoClient
    BY <1>1, <2>3, PidTypes DEF Server
  <2> QED
    BY <2>1, <2>2, <2>3, <2>4
<1>3. CASE s.con[MCP] \notin dead
  BY <1>3 DEF McpComOut
<1> QED
  BY <1>2, <1>3

(* A write to the MCP leaves the connections of the others alone.          *)
LEMMA McpComOutCon ==
  ASSUME NEW s, NEW dead, s \in Server, NEW p \in ProcSlots(s)
  PROVE  McpComOut(s, dead).con[p] = s.con[p]
<1> DEFINE t == DelMcp(s)
<1>1. t.con = [s.con EXCEPT ![MCP] = NoClient] /\ p \in Pids /\ p # MCP
  BY DelMcpFields, SlotsArePids DEF ProcSlots
<1> HIDE DEF t
<1>2. t.con[p] = s.con[p]
  BY <1>1 DEF Server
<1> QED
  BY <1>2 DEF McpComOut, t

(* prot_com_out() to the MCP keeps the invariant, whatever is excepted.    *)
LEMMA McpComOutInv ==
  ASSUME NEW s, NEW X, NEW dead, Inv(s, X)
  PROVE  Inv(McpComOut(s, dead), X)
<1> DEFINE t == McpComOut(s, dead)
<1>1. Core(t, X) /\ (t = s \/ t.con[MCP] = NoClient)
  BY McpComOutCore DEF Inv
<1> QED
  BY <1>1 DEF Inv, KnownInv

(* What the MCP knows, and the focus, can be changed on their own. *)
LEMMA KnownChange ==
  ASSUME NEW s, NEW X, NEW K \in SUBSET Oids, Core(s, X)
  PROVE  LET t == [s EXCEPT !.known = K]
         IN  /\ Core(t, X)
             /\ t.known = K /\ t.con = s.con /\ t.object = s.object
             /\ t.procs_n = s.procs_n /\ t.mcp_oid = s.mcp_oid
             /\ t.focus_oid = s.focus_oid /\ t.status = s.status
             /\ t.told = s.told
<1> DEFINE t == [s EXCEPT !.known = K]
<1>1. s \in Server
  BY DEF Core, Good
<1>2. /\ t.known = K /\ t.con = s.con /\ t.object = s.object
      /\ t.procs_n = s.procs_n /\ t.mcp_oid = s.mcp_oid
      /\ t.focus_oid = s.focus_oid /\ t.status = s.status /\ t.told = s.told
  BY <1>1 DEF Server
<1>3. t \in Server
  BY <1>1 DEF Server
<1> HIDE DEF t
<1>4. Slots(t) = Slots(s) /\ ProcSlots(t) = ProcSlots(s) /\ Virtuals(t) = Virtuals(s)
  BY <1>2 DEF Slots, ProcSlots, Virtuals
<1>5. Core(t, X)
  BY <1>2, <1>3, <1>4 DEF Core, Good, SlotsInv, MatchInv, FocusInv, ClonesInv
<1> QED
  BY <1>2, <1>5 DEF t

(* mcp_focus() may set the focus to any virtual object, or drop it. *)
LEMMA FocusChange ==
  ASSUME NEW s, NEW X, NEW oid, oid \in Virtuals(s) \union {-1}, Inv(s, X)
  PROVE  LET t == [s EXCEPT !.focus_oid = oid]
         IN  /\ Inv(t, X)
             /\ t.con = s.con /\ t.procs_n = s.procs_n /\ t.mcp_oid = s.mcp_oid
<1> DEFINE t == [s EXCEPT !.focus_oid = oid]
<1>1. s \in Server
  BY DEF Inv, Core, Good
<1>2. /\ t.focus_oid = oid /\ t.known = s.known /\ t.con = s.con
      /\ t.object = s.object /\ t.procs_n = s.procs_n
      /\ t.mcp_oid = s.mcp_oid /\ t.status = s.status
  BY <1>1 DEF Server
<1>3. t \in Server
  BY <1>1 DEF Server, Virtuals
<1> HIDE DEF t
<1>4. Slots(t) = Slots(s) /\ ProcSlots(t) = ProcSlots(s) /\ Virtuals(t) = Virtuals(s)
  BY <1>2 DEF Slots, ProcSlots, Virtuals
<1>5. Inv(t, X)
  BY <1>2, <1>3, <1>4
  DEF Inv, Core, Good, SlotsInv, MatchInv, FocusInv, ClonesInv, KnownInv
<1> QED
  BY <1>2, <1>5 DEF t

(* p_del() of the process in slot pid: its connection is closed, and what  *)
(* is left of it is the slot alone.                                        *)
LEMMA PDelInv ==
  ASSUME NEW s, NEW pid, NEW dead, Inv(s, {}), pid \in ProcSlots(s)
  PROVE  LET t == PDel([s EXCEPT !.con[pid] = NoClient], pid, dead)
         IN  Inv(t, {pid}) /\ t.procs_n = s.procs_n
<1> DEFINE c == [s EXCEPT !.con[pid] = NoClient]
           oid == s.mcp_oid[pid]
           con == [s.con EXCEPT ![pid] = NoClient]
<1>1. s \in Server
  BY DEF Inv, Core, Good
<1>2. pid \in Pids /\ pid # MCP /\ pid \in Slots(s)
  BY <1>1, SlotsArePids DEF ProcSlots
<1>3. con \in [Pids -> Clients \union {NoClient}] /\ c = [s EXCEPT !.con = con]
  BY <1>1, <1>2 DEF Server
<1>4. \A p \in Pids : con[p] = IF p = pid THEN NoClient ELSE s.con[p]
  BY <1>1 DEF Server
<1> HIDE DEF c, con
<1>5. /\ c.con = con /\ c.mcp_oid = s.mcp_oid /\ c.object = s.object
      /\ c.procs_n = s.procs_n /\ c.focus_oid = s.focus_oid
      /\ c.known = s.known /\ c.status = s.status /\ c \in Server
  BY <1>1, <1>3 DEF Server
<1>6. CASE oid = -1
  <2>1. PDel(c, pid, dead) = c
    BY <1>5, <1>6 DEF PDel
  <2>2. Slots(c) = Slots(s) /\ ProcSlots(c) = ProcSlots(s) /\ Virtuals(c) = Virtuals(s)
    BY <1>5 DEF Slots, ProcSlots, Virtuals
  <2>3. SlotsInv(c, {pid})
    BY <1>1, <1>4, <1>5, <2>2, SlotsArePids DEF Inv, Core, SlotsInv, ProcSlots
  <2>4. \A o \in Virtuals(s) : s.object[o].ref # pid
    BY <1>6, PidTypes DEF Inv, Core, MatchInv, Virtuals
  <2>5. MatchInv(c, {pid})
    BY <1>5, <2>2, <2>4 DEF Inv, Core, MatchInv
  <2>6. FocusInv(c) /\ ClonesInv(c) /\ KnownInv(c)
    BY <1>2, <1>4, <1>5, <2>2, PidTypes
    DEF Inv, Core, FocusInv, ClonesInv, KnownInv
  <2> QED
    BY <1>5, <2>1, <2>3, <2>5, <2>6 DEF Inv, Core, Good, c
<1>7. CASE oid # -1
  <2> DEFINE obj == [o \in Oids |->
                      CASE o = oid -> NoObj
                        [] o # oid /\ s.object[o] = Obj("clone", oid) -> Obj("plain", 0)
                        [] OTHER -> s.object[o]]
             focus == IF oid = s.focus_oid THEN -1 ELSE s.focus_oid
             f == [c EXCEPT !.object = obj, !.focus_oid = focus]
             w == McpComOut(f, dead)
             t == [w EXCEPT !.known = @ \ {oid}]
  <2>1. PDel(c, pid, dead) = t
    <3>1. FreeVirtual(c, oid) = [c EXCEPT !.object = obj]
      BY <1>1, <1>5 DEF FreeVirtual, Server
    <3>2. PDel(c, pid, dead) = McpDelObject(FreeVirtual(c, oid), oid, dead)
      BY <1>5, <1>7 DEF PDel
    <3> HIDE DEF obj
    <3>3. (IF oid = [c EXCEPT !.object = obj].focus_oid
           THEN [[c EXCEPT !.object = obj] EXCEPT !.focus_oid = -1]
           ELSE [c EXCEPT !.object = obj]) = f
      BY <1>5 DEF Server
    <3> QED
      BY <3>1, <3>2, <3>3 DEF McpDelObject
  <2>2. oid \in Virtuals(s) /\ s.object[oid].ref = pid
    BY <1>7 DEF Inv, Core, MatchInv
  <2>3. obj \in [Oids -> Object]
    BY <1>1 DEF Server, Object, NoObj, Obj, ObjTypes
  <2>4. \A o \in Oids : /\ o = oid => obj[o].type = "null"
                        /\ o # oid /\ s.object[o] = Obj("clone", oid)
                             => obj[o].type = "plain"
                        /\ o # oid /\ s.object[o] # Obj("clone", oid)
                             => obj[o] = s.object[o]
    BY DEF NoObj, Obj
  <2>5. focus \in Oids \union {-1}
    BY <1>1 DEF Server
  <2> HIDE DEF obj, f, w, t
  <2>6. /\ f \in Server /\ f.con = con /\ f.mcp_oid = s.mcp_oid /\ f.object = obj
        /\ f.procs_n = s.procs_n /\ f.focus_oid = focus
        /\ f.known = s.known /\ f.status = s.status
    BY <1>5, <2>3, <2>5 DEF Server, f
  <2>7. Slots(f) = Slots(s) /\ ProcSlots(f) = ProcSlots(s)
    BY <2>6 DEF Slots, ProcSlots
  <2>8. /\ Virtuals(f) = Virtuals(s) \ {oid}
        /\ \A o \in Virtuals(f) : f.object[o] = s.object[o]
    BY <2>4, <2>6 DEF Virtuals, Obj
  <2>9. SlotsInv(f, {pid})
    BY <1>1, <1>4, <2>6, <2>7, SlotsArePids DEF Inv, Core, SlotsInv, ProcSlots
  <2>10. \A o \in Virtuals(f) : s.object[o].ref # pid
    BY <2>8 DEF Inv, Core, MatchInv
  <2>11. MatchInv(f, {pid})
    BY <2>2, <2>6, <2>7, <2>8, <2>10 DEF Inv, Core, MatchInv
  <2>12. FocusInv(f)
    BY <2>6, <2>8 DEF Inv, Core, FocusInv
  <2>13. ClonesInv(f)
    <3>1. SUFFICES ASSUME NEW o \in Oids, f.object[o].type = "clone"
                   PROVE  f.object[o].ref \in Virtuals(f)
      BY DEF ClonesInv
    <3>2. f.object[o] = s.object[o] /\ s.object[o] # Obj("clone", oid)
      BY <2>4, <2>6, <3>1
    <3>3. s.object[o].ref \in Virtuals(s)
      BY <3>1, <3>2 DEF Inv, Core, ClonesInv
    <3>4. s.object[o].ref # oid
      BY <1>1, <3>1, <3>2 DEF Server, Object, Obj
    <3> QED
      BY <2>8, <3>2, <3>3, <3>4
  <2>14. Core(f, {pid})
    BY <2>6, <2>9, <2>11, <2>12, <2>13 DEF Inv, Core, Good
  <2>15. /\ Core(w, {pid}) /\ w.procs_n = s.procs_n
         /\ Virtuals(w) = Virtuals(f)
         /\ w = f \/ w.con[MCP] = NoClient
    BY <2>6, <2>14, McpComOutCore DEF w
  <2>16. w.known \ {oid} \in SUBSET Oids /\ t = [w EXCEPT !.known = w.known \ {oid}]
    BY <2>15 DEF Core, Good, Server, t
  <2>17. /\ Core(t, {pid}) /\ t.procs_n = s.procs_n
         /\ t.con = w.con /\ t.object = w.object /\ t.known = w.known \ {oid}
    BY <2>15, <2>16, KnownChange
  <2>18. KnownInv(t)
    <3>1. Virtuals(t) = Virtuals(s) \ {oid}
      BY <2>8, <2>15, <2>17 DEF Virtuals
    <3>2. f.con[MCP] = s.con[MCP] /\ (s.con[MCP] # NoClient => s.known = Virtuals(s))
      BY <1>2, <1>4, <2>6, PidTypes DEF Inv, KnownInv
    <3> QED
      BY <2>6, <2>15, <2>17, <3>1, <3>2 DEF KnownInv
  <2> QED
    BY <2>1, <2>17, <2>18 DEF Inv, c
<1> QED
  BY <1>6, <1>7

(* process_list_rm(): the last slot takes the place of slot pid, with its  *)
(* connection, its mcp_oid and its object's virtual_pid.                   *)
LEMMA ProcessListRmInv ==
  ASSUME NEW s, NEW pid, Inv(s, {pid}), pid \in ProcSlots(s)
  PROVE  /\ Inv(ProcessListRm(s, pid), {})
         /\ ProcessListRm(s, pid).procs_n = s.procs_n - 1
<1> DEFINE t == ProcessListRm(s, pid)
           last == s.procs_n - 1
           oid == s.mcp_oid[last]
           moves == pid # last /\ oid # -1
           con == [s.con EXCEPT ![pid] = s.con[last], ![last] = NoClient]
           mcp_oid == [s.mcp_oid EXCEPT ![pid] = oid, ![last] = -1]
           obj == IF moves THEN [s.object EXCEPT ![oid].ref = pid] ELSE s.object
           Old(p) == IF p = pid THEN last ELSE p
<1>1. s \in Server
  BY DEF Inv, Core, Good
<1>2. /\ pid \in Pids /\ last \in Pids /\ pid \in Slots(s) /\ last \in Slots(s)
      /\ pid # MCP /\ last # MCP /\ pid \in 1 .. last /\ last \in Nat
  BY <1>1, ProcTableAssumption DEF ProcSlots, Slots, Server, Pids, MCP
<1>3. t = [s EXCEPT !.con = con, !.mcp_oid = mcp_oid, !.object = obj, !.procs_n = last]
  BY <1>1 DEF ProcessListRm, Server
<1>4. moves => /\ oid \in Virtuals(s) /\ s.object[oid].ref = last /\ oid \in Oids
  BY <1>2 DEF Inv, Core, MatchInv, ProcSlots, Virtuals
<1>5. con \in [Pids -> Clients \union {NoClient}]
  BY <1>1, <1>2 DEF Server
<1>6. mcp_oid \in [Pids -> Oids \union {-1}]
  BY <1>1, <1>2 DEF Server
<1>7. obj \in [Oids -> Object]
  BY <1>1, <1>2, <1>4 DEF Server, Object
<1>8. \A p \in Pids : /\ p # last => con[p] = s.con[Old(p)]
                      /\ p # last => mcp_oid[p] = s.mcp_oid[Old(p)]
  BY <1>1, <1>2 DEF Server
<1>9. \A o \in Oids : /\ obj[o].type = s.object[o].type
                      /\ obj[o].ref = IF moves /\ o = oid THEN pid ELSE s.object[o].ref
  BY <1>1, <1>4 DEF Server, Object
<1>10. last \in 1 .. MaxPid + 1
  BY <1>1, <1>2, ProcTableAssumption DEF Server
<1> HIDE DEF t, con, mcp_oid, obj
<1>11. t \in Server
  BY <1>1, <1>3, <1>5, <1>6, <1>7, <1>10 DEF Server
<1>12. /\ t.con = con /\ t.mcp_oid = mcp_oid /\ t.object = obj /\ t.procs_n = last
       /\ t.focus_oid = s.focus_oid /\ t.known = s.known /\ t.status = s.status
  BY <1>1, <1>3 DEF Server
<1>13. /\ Slots(t) \subseteq Pids
       /\ \A p \in Slots(t) : p # last /\ Old(p) \in Slots(s) \ {pid}
       /\ \A p \in ProcSlots(t) : Old(p) \in ProcSlots(s) \ {pid}
       /\ \A p, q \in Slots(t) : Old(p) = Old(q) => p = q
       /\ \A p \in ProcSlots(s) \ {pid} : p # last => p \in ProcSlots(t)
       /\ pid # last => pid \in ProcSlots(t)
  BY <1>1, <1>2, <1>11, <1>12, SlotsArePids DEF Slots, ProcSlots, MCP
<1>14. Virtuals(t) = Virtuals(s)
  BY <1>9, <1>12 DEF Virtuals
<1>15. SlotsInv(t, {})
  <2>1. \A p \in ProcSlots(t) : t.con[p] # NoClient
    BY <1>8, <1>12, <1>13 DEF Inv, Core, SlotsInv, ProcSlots
  <2>2. \A p, q \in Slots(t) : t.con[p] = t.con[q] /\ t.con[p] # NoClient => p = q
    <3>1. SUFFICES ASSUME NEW p \in Slots(t), NEW q \in Slots(t),
                          t.con[p] = t.con[q], t.con[p] # NoClient
                   PROVE  Old(p) = Old(q)
      BY <1>13
    <3>2. t.con[p] = s.con[Old(p)] /\ t.con[q] = s.con[Old(q)]
      BY <1>8, <1>12, <1>13
    <3> HIDE DEF Old
    <3> QED
      BY <1>13, <3>1, <3>2 DEF Inv, Core, SlotsInv
  <2> QED
    BY <2>1, <2>2 DEF SlotsInv
<1>16. MatchInv(t, {})
  <2>1. ASSUME NEW p \in ProcSlots(t), t.mcp_oid[p] # -1
        PROVE  t.mcp_oid[p] \in Virtuals(t) /\ t.object[t.mcp_oid[p]].ref = p
    <3>1. p \in Slots(t) /\ p \in Pids /\ p # last
      BY <1>13 DEF ProcSlots
    <3>2. t.mcp_oid[p] = s.mcp_oid[Old(p)]
      BY <1>8, <1>12, <3>1
    <3>3. /\ t.mcp_oid[p] \in Virtuals(s)
          /\ s.object[t.mcp_oid[p]].ref = Old(p)
      BY <1>13, <2>1, <3>2 DEF Inv, Core, MatchInv
    <3>4. CASE p = pid
      BY <1>9, <1>12, <1>14, <2>1, <3>1, <3>2, <3>3, <3>4 DEF Virtuals
    <3>5. CASE p # pid
      BY <1>4, <1>9, <1>12, <1>14, <3>1, <3>3, <3>5 DEF Virtuals
    <3> QED
      BY <3>4, <3>5
  <2>2. ASSUME NEW o \in Virtuals(t)
        PROVE  t.object[o].ref \in ProcSlots(t) /\ t.mcp_oid[t.object[o].ref] = o
    <3>1. /\ o \in Oids /\ o \in Virtuals(s)
          /\ s.object[o].ref \in ProcSlots(s) \ {pid}
          /\ s.mcp_oid[s.object[o].ref] = o
      BY <1>14 DEF Inv, Core, MatchInv, Virtuals
    <3>2. o # -1
      BY <3>1, PidTypes
    <3>3. CASE s.object[o].ref = last
      <4>1. moves /\ o = oid
        BY <3>1, <3>2, <3>3
      <4>2. t.object[o].ref = pid
        BY <1>9, <1>12, <3>1, <4>1
      <4>3. t.mcp_oid[pid] = oid
        BY <1>2, <1>8, <1>12, <4>1
      <4> QED
        BY <1>13, <4>1, <4>2, <4>3
    <3>4. CASE s.object[o].ref # last
      <4>1. ~(moves /\ o = oid)
        BY <1>4, <3>4
      <4>2. t.object[o].ref = s.object[o].ref
        BY <1>9, <1>12, <3>1, <4>1
      <4>3. t.mcp_oid[s.object[o].ref] = o
        BY <1>1, <1>8, <1>12, <3>1, <3>4, SlotsArePids DEF ProcSlots
      <4> QED
        BY <1>13, <3>1, <3>4, <4>2, <4>3
    <3> QED
      BY <3>3, <3>4
  <2> QED
    BY <2>1, <2>2 DEF MatchInv
<1>17. FocusInv(t)
  BY <1>12, <1>14 DEF Inv, Core, FocusInv
<1>18. ClonesInv(t)
  BY <1>4, <1>9, <1>12, <1>14 DEF Inv, Core, ClonesInv, Virtuals
<1>19. KnownInv(t)
  <2>1. t.con[MCP] = s.con[MCP]
    BY <1>2, <1>8, <1>12, PidTypes
  <2> QED
    BY <1>12, <1>14, <2>1 DEF Inv, KnownInv
<1> QED
  BY <1>11, <1>12, <1>15, <1>16, <1>17, <1>18, <1>19 DEF Inv, Core, Good, t

(* process_del() removes the process of any slot, or of none.              *)
LEMMA ProcessDelInv ==
  ASSUME NEW s, NEW pid, NEW dead, Inv(s, {})
  PROVE  Inv(ProcessDel(s, pid, dead), {})
<1>1. CASE pid = MCP
  <2> DEFINE t == DelMcp(s)
  <2>1. s \in Server /\ Core(t, {})
    BY DelMcpCore DEF Inv, Core, Good
  <2>2. t.con = [s.con EXCEPT ![MCP] = NoClient]
    BY <2>1, DelMcpFields
  <2> HIDE DEF t
  <2>3. t.con[MCP] = NoClient
    BY <2>1, <2>2, PidTypes DEF Server
  <2>4. ProcessDel(s, pid, dead) = t
    BY <1>1 DEF ProcessDel, t
  <2> QED
    BY <2>1, <2>3, <2>4 DEF Inv, KnownInv
<1>2. CASE pid # MCP /\ pid \notin Slots(s)
  BY <1>2 DEF ProcessDel
<1>3. CASE pid # MCP /\ pid \in Slots(s)
  <2> DEFINE t == PDel([s EXCEPT !.con[pid] = NoClient], pid, dead)
  <2>1. pid \in ProcSlots(s)
    BY <1>3 DEF ProcSlots
  <2>2. Inv(t, {pid}) /\ t.procs_n = s.procs_n
    BY <2>1, PDelInv
  <2>3. ProcessDel(s, pid, dead) = ProcessListRm(t, pid)
    BY <1>3 DEF ProcessDel
  <2> HIDE DEF t
  <2>4. pid \in ProcSlots(t)
    BY <2>1, <2>2 DEF ProcSlots, Slots
  <2> QED
    BY <2>2, <2>3, <2>4, ProcessListRmInv
<1> QED
  BY <1>1, <1>2, <1>3

(* prot_com_out() to any slot, when the write fails and when it does not.  *)
LEMMA ProtComOutInv ==
  ASSUME NEW s, NEW pid, NEW dead, Inv(s, {})
  PROVE  Inv(ProtComOut(s, pid, dead), {})
BY ProcessDelInv DEF ProtComOut

(* Which clients a QUIT was delivered to matters to no part of Inv. *)
LEMMA ToldChange ==
  ASSUME NEW s, NEW C \in SUBSET Clients, Inv(s, {})
  PROVE  Inv([s EXCEPT !.told = C], {})
<1> DEFINE t == [s EXCEPT !.told = C]
<1>1. s \in Server
  BY DEF Inv, Core, Good
<1>2. /\ t \in Server
      /\ t.focus_oid = s.focus_oid /\ t.known = s.known /\ t.con = s.con
      /\ t.object = s.object /\ t.procs_n = s.procs_n
      /\ t.mcp_oid = s.mcp_oid /\ t.status = s.status
  BY <1>1 DEF Server
<1> HIDE DEF t
<1>3. Slots(t) = Slots(s) /\ ProcSlots(t) = ProcSlots(s) /\ Virtuals(t) = Virtuals(s)
  BY <1>2 DEF Slots, ProcSlots, Virtuals
<1>4. Inv(t, {})
  BY <1>2, <1>3
  DEF Inv, Core, Good, SlotsInv, MatchInv, FocusInv, ClonesInv, KnownInv
<1> QED
  BY <1>4 DEF t

(* event_quit(), for any slot, even where it deletes a second process. *)
LEMMA EventQuitInv ==
  ASSUME NEW s, NEW pid, NEW dead, Inv(s, {}), pid \in Slots(s)
  PROVE  Inv(EventQuit(s, pid, dead), {})
<1> DEFINE c == s.con[pid]
           w == IF c \in dead \union {NoClient} THEN ProtComOut(s, pid, dead)
                ELSE [s EXCEPT !.told = @ \union {c}]
<1>1. s \in Server
  BY DEF Inv, Core, Good
<1>2. c \in Clients \union {NoClient}
  BY <1>1, SlotsArePids DEF Server
<1>3. ASSUME c # NoClient
      PROVE  s.told \union {c} \in SUBSET Clients
  BY <1>1, <1>2, <1>3 DEF Server
<1>4. CASE c \in dead \union {NoClient}
  BY <1>4, ProtComOutInv, ProcessDelInv DEF EventQuit
<1>5. CASE c \notin dead \union {NoClient}
  <2>1. Inv([s EXCEPT !.told = s.told \union {c}], {})
    BY <1>3, <1>5, ToldChange
  <2>2. w = [s EXCEPT !.told = s.told \union {c}]
    BY <1>5
  <2>3. EventQuit(s, pid, dead) = ProcessDel(w, pid, dead)
    BY DEF EventQuit
  <2> QED
    BY <2>1, <2>2, <2>3, ProcessDelInv
<1> QED
  BY <1>4, <1>5

-----------------------------------------------------------------------------
(* Focus and input events *)

(* The focus is a virtual object, whose virtual_pid is in range. *)
LEMMA FocusComOutInv ==
  ASSUME NEW s, NEW dead, Inv(s, {})
  PROVE  Inv(FocusComOut(s, dead), {})
<1>1. CASE s.focus_oid = -1
  BY <1>1 DEF FocusComOut
<1>2. CASE s.focus_oid # -1
  <2>1. s.object[s.focus_oid].ref \in Slots(s)
    BY <1>2 DEF Inv, Core, FocusInv, MatchInv, ProcSlots
  <2>2. FocusComOut(s, dead) = ProtComOut(s, s.object[s.focus_oid].ref, dead)
    BY <1>2, <2>1 DEF FocusComOut
  <2> QED
    BY <2>2, ProtComOutInv
<1> QED
  BY <1>1, <1>2

(* event_cam_changed(): the MCP's write, then the focused program's.       *)
LEMMA PosUpdateInv ==
  ASSUME NEW s, NEW dead, Inv(s, {})
  PROVE  Inv(PosUpdate(s, dead), {})
BY McpComOutInv, FocusComOutInv DEF PosUpdate

(* event_key_pressed(): the focused program's write, then the MCP's.       *)
LEMMA InputOutInv ==
  ASSUME NEW s, NEW dead, Inv(s, {})
  PROVE  Inv(InputOut(s, dead), {})
BY McpComOutInv, FocusComOutInv DEF InputOut

(* mcp_focus() with any oid: a program's, another object's, or none.       *)
LEMMA McpFocusInv ==
  ASSUME NEW s, NEW oid, NEW dead, Inv(s, {})
  PROVE  Inv(McpFocus(s, oid, dead), {})
<1>1. CASE oid \in Virtuals(s)
  <2>1. Inv([s EXCEPT !.focus_oid = oid], {})
    BY <1>1, FocusChange
  <2>2. McpFocus(s, oid, dead) = PosUpdate([s EXCEPT !.focus_oid = oid], dead)
    BY <1>1 DEF McpFocus, Virtuals
  <2> QED
    BY <2>1, <2>2, PosUpdateInv
<1>2. CASE oid \notin Virtuals(s)
  <2>1. Inv([s EXCEPT !.focus_oid = -1], {})
    BY FocusChange
  <2>2. McpFocus(s, oid, dead) = [s EXCEPT !.focus_oid = -1]
    BY <1>2 DEF McpFocus, Virtuals
  <2> QED
    BY <2>1, <2>2
<1> QED
  BY <1>1, <1>2

-----------------------------------------------------------------------------
(* process_protinit() *)

(* The client of a waiting slot becomes the MCP. *)
LEMMA TakeMcpPlaceInv ==
  ASSUME NEW s, NEW pid, NEW dead, Inv(s, {}), pid \in ProcSlots(s),
         s.mcp_oid[pid] = -1, s.con[MCP] = NoClient
  PROVE  Inv(TakeMcpPlace(s, pid, dead), {})
<1> DEFINE con == [s.con EXCEPT ![MCP] = s.con[pid]]
           m == [s EXCEPT !.con = con]
           k == [m EXCEPT !.known = Virtuals(m)]
           w == McpComOut(k, dead)
           f == [w EXCEPT !.focus_oid = -1]
<1>1. s \in Server /\ pid \in Pids /\ pid # MCP /\ pid \in Slots(s)
  BY SlotsArePids DEF Inv, Core, Good, ProcSlots
<1>2. con \in [Pids -> Clients \union {NoClient}]
  BY <1>1 DEF Server
<1>3. \A p \in Pids : con[p] = IF p = MCP THEN s.con[pid] ELSE s.con[p]
  BY <1>1 DEF Server
<1> HIDE DEF con
<1>4. /\ m \in Server /\ m.con = con /\ m.mcp_oid = s.mcp_oid
      /\ m.object = s.object /\ m.procs_n = s.procs_n
      /\ m.focus_oid = s.focus_oid /\ m.status = s.status
  BY <1>1, <1>2 DEF Server
<1>5. TakeMcpPlace(s, pid, dead) =
        McpComOut(ProcessListRm(McpInit(m, dead), pid), dead)
  BY <1>1 DEF TakeMcpPlace, Server, con
<1> HIDE DEF m
<1>6. Slots(m) = Slots(s) /\ ProcSlots(m) = ProcSlots(s) /\ Virtuals(m) = Virtuals(s)
  BY <1>4 DEF Slots, ProcSlots, Virtuals
<1>7. \A o \in Virtuals(s) : s.object[o].ref # pid
  BY PidTypes DEF Inv, Core, MatchInv, Virtuals
<1>8. SlotsInv(m, {pid})
  <2>1. \A p \in ProcSlots(s) \ {pid} : m.con[p] # NoClient
    BY <1>1, <1>3, <1>4, SlotsArePids DEF Inv, Core, SlotsInv, ProcSlots
  <2>2. \A p, q \in Slots(s) \ {pid} :
          m.con[p] = m.con[q] /\ m.con[p] # NoClient => p = q
    BY <1>1, <1>3, <1>4, SlotsArePids DEF Inv, Core, SlotsInv
  <2> QED
    BY <1>6, <2>1, <2>2 DEF SlotsInv
<1>9. MatchInv(m, {pid})
  BY <1>4, <1>6, <1>7 DEF Inv, Core, MatchInv
<1>10. Core(m, {pid})
  BY <1>4, <1>6, <1>8, <1>9 DEF Inv, Core, Good, FocusInv, ClonesInv
<1>11. McpInit(m, dead) = McpFocus(w, -1, dead)
  BY <1>4, <1>6 DEF McpInit, Inv, Core, MatchInv, ProcSlots
<1>12. McpFocus(w, -1, dead) = f
  BY PidTypes DEF McpFocus
<1>13. /\ Core(k, {pid}) /\ k.procs_n = s.procs_n
       /\ k.known = Virtuals(m) /\ k.object = m.object
  BY <1>4, <1>10, KnownChange DEF Virtuals
<1> HIDE DEF k
<1>14. Inv(k, {pid})
  BY <1>13 DEF Inv, KnownInv, Virtuals
<1>15. Inv(w, {pid}) /\ w.procs_n = s.procs_n
  <2>1. Inv(w, {pid})
    BY <1>14, McpComOutInv
  <2>2. w.procs_n = k.procs_n
    BY <1>13, McpComOutCore
  <2> QED
    BY <1>13, <2>1, <2>2
<1> HIDE DEF w
<1>16. Inv(f, {pid}) /\ f.procs_n = s.procs_n
  BY <1>15, FocusChange
<1> HIDE DEF f
<1>17. Inv(ProcessListRm(f, pid), {})
  BY <1>6, <1>16, ProcessListRmInv DEF ProcSlots, Slots
<1> QED
  BY <1>5, <1>11, <1>12, <1>17, McpComOutInv

(* A new virtual object for the waiting slot pid, and its report. *)
LEMMA RegisterReported ==
  ASSUME NEW s, NEW pid, NEW oid \in Oids, NEW dead, Inv(s, {}),
         pid \in ProcSlots(s), s.mcp_oid[pid] = -1, FreeOid(s, oid)
  PROVE  LET v == [s EXCEPT !.object[oid] = Obj("virtual", pid), !.mcp_oid[pid] = oid]
         IN  Inv(McpRepObject(v, oid, dead), {})
<1> DEFINE obj == [s.object EXCEPT ![oid] = Obj("virtual", pid)]
           mcp_oid == [s.mcp_oid EXCEPT ![pid] = oid]
           v == [s EXCEPT !.object = obj, !.mcp_oid = mcp_oid]
           w == McpComOut(v, dead)
           r == McpRepObject(v, oid, dead)
<1>1. s \in Server /\ pid \in Pids /\ pid \in Nat
  BY SlotsArePids DEF Inv, Core, Good, ProcSlots, Pids
<1>2. obj \in [Oids -> Object] /\ mcp_oid \in [Pids -> Oids \union {-1}]
  BY <1>1 DEF Server, Object, Obj, ObjTypes
<1>3. /\ \A p \in Pids : mcp_oid[p] = IF p = pid THEN oid ELSE s.mcp_oid[p]
      /\ \A o \in Oids : o # oid => obj[o] = s.object[o]
      /\ obj[oid].type = "virtual" /\ obj[oid].ref = pid
  BY <1>1 DEF Server, Obj
<1>4. s.object[oid].type = "null" /\ oid \notin Virtuals(s) /\ oid # -1
  BY PidTypes DEF FreeOid, NoObj, Obj, Virtuals
<1>5. [s EXCEPT !.object[oid] = Obj("virtual", pid), !.mcp_oid[pid] = oid] = v
  BY <1>1 DEF Server
<1> HIDE DEF obj, mcp_oid
<1>6. /\ v \in Server /\ v.con = s.con /\ v.mcp_oid = mcp_oid /\ v.object = obj
      /\ v.procs_n = s.procs_n /\ v.focus_oid = s.focus_oid
      /\ v.known = s.known /\ v.status = s.status
  BY <1>1, <1>2 DEF Server
<1> HIDE DEF v
<1>7. /\ Slots(v) = Slots(s) /\ ProcSlots(v) = ProcSlots(s)
      /\ Virtuals(v) = Virtuals(s) \union {oid}
  BY <1>3, <1>6 DEF Slots, ProcSlots, Virtuals
<1>8. SlotsInv(v, {})
  BY <1>6, <1>7 DEF Inv, Core, SlotsInv
<1>9. MatchInv(v, {})
  <2>1. ASSUME NEW p \in ProcSlots(s), v.mcp_oid[p] # -1
        PROVE  v.mcp_oid[p] \in Virtuals(v) /\ v.object[v.mcp_oid[p]].ref = p
    <3>1. p \in Pids
      BY <1>1, SlotsArePids DEF ProcSlots
    <3>2. CASE p = pid
      BY <1>3, <1>6, <1>7, <3>1, <3>2
    <3>3. CASE p # pid
      <4>1. v.mcp_oid[p] = s.mcp_oid[p]
        BY <1>3, <1>6, <3>1, <3>3
      <4>2. s.mcp_oid[p] \in Virtuals(s) /\ s.object[s.mcp_oid[p]].ref = p
        BY <2>1, <4>1 DEF Inv, Core, MatchInv
      <4> QED
        BY <1>3, <1>4, <1>6, <1>7, <4>1, <4>2 DEF Virtuals
    <3> QED
      BY <3>2, <3>3
  <2>2. ASSUME NEW o \in Virtuals(v)
        PROVE  v.object[o].ref \in ProcSlots(s) /\ v.mcp_oid[v.object[o].ref] = o
    <3>1. CASE o = oid
      BY <1>1, <1>3, <1>6, <3>1
    <3>2. CASE o # oid
      <4>1. o \in Oids /\ o \in Virtuals(s) /\ o # -1
        BY <1>7, <3>2, PidTypes DEF Virtuals
      <4>2. v.object[o] = s.object[o]
        BY <1>3, <1>6, <3>2, <4>1
      <4>3. s.object[o].ref \in ProcSlots(s) /\ s.mcp_oid[s.object[o].ref] = o
        BY <4>1 DEF Inv, Core, MatchInv
      <4>4. s.object[o].ref # pid /\ s.object[o].ref \in Pids
        BY <1>1, <4>1, <4>3, SlotsArePids DEF ProcSlots
      <4> QED
        BY <1>3, <1>6, <4>2, <4>3, <4>4
    <3> QED
      BY <3>1, <3>2
  <2> QED
    BY <1>7, <2>1, <2>2 DEF MatchInv
<1>10. FocusInv(v)
  BY <1>6, <1>7 DEF Inv, Core, FocusInv
<1>11. ClonesInv(v)
  BY <1>3, <1>6, <1>7 DEF Inv, Core, ClonesInv
<1>12. Core(v, {})
  BY <1>6, <1>8, <1>9, <1>10, <1>11 DEF Inv, Core, Good
<1>13. /\ Core(w, {}) /\ (w = v \/ w.con[MCP] = NoClient)
  BY <1>12, McpComOutCore
<1> HIDE DEF w
<1>14. r = IF w.con[MCP] = NoClient THEN w
           ELSE [w EXCEPT !.known = w.known \union {oid}]
  BY DEF McpRepObject, w
<1> HIDE DEF r
<1>15. Inv(r, {})
  <2>1. CASE w.con[MCP] = NoClient
    BY <1>13, <1>14, <2>1 DEF Inv, KnownInv
  <2>2. CASE w.con[MCP] # NoClient
    <3>1. w = v
      BY <1>13, <2>2
    <3>2. s.known = Virtuals(s) /\ v.known \union {oid} = Virtuals(v)
      BY <1>6, <1>7, <2>2, <3>1 DEF Inv, KnownInv
    <3>3. Virtuals(v) \in SUBSET Oids
      BY DEF Virtuals
    <3>4. r = [v EXCEPT !.known = Virtuals(v)]
      BY <1>14, <2>2, <3>1, <3>2
    <3>5. Core(r, {}) /\ r.known = Virtuals(v) /\ r.object = v.object
      BY <1>12, <3>3, <3>4, KnownChange
    <3> QED
      BY <3>5 DEF Inv, KnownInv, Virtuals
  <2> QED
    BY <2>1, <2>2
<1> QED
  BY <1>5, <1>15 DEF r

(* INIT of an ordinary program, to its end. *)
LEMMA RegisterInv ==
  ASSUME NEW s, NEW pid, NEW oid \in Oids, NEW dead, Inv(s, {}),
         pid \in ProcSlots(s), s.mcp_oid[pid] = -1, FreeOid(s, oid)
  PROVE  Inv(Register(s, pid, oid, dead), {})
<1> DEFINE v == [s EXCEPT !.object[oid] = Obj("virtual", pid), !.mcp_oid[pid] = oid]
           r == McpRepObject(v, oid, dead)
           f == IF r.con[MCP] = NoClient THEN McpFocus(r, oid, dead) ELSE r
<1>1. Inv(r, {})
  BY RegisterReported
<1>2. Register(s, pid, oid, dead) =
        IF pid \in Slots(f) THEN ProtComOut(f, pid, dead) ELSE f
  BY DEF Register
<1> HIDE DEF r
<1>3. Inv(f, {})
  BY <1>1, McpFocusInv
<1> HIDE DEF f
<1> QED
  BY <1>2, <1>3, ProtComOutInv

(* process_sys_init(), when nobody but the MCP can be found dead in it:    *)
(* the other connections are no other than the MCP's.                      *)
LEMMA ProcessSysInitInv ==
  ASSUME NEW s, NEW pid \in ProcSlots(s), NEW first, Inv(s, {}),
         first \subseteq {s.con[MCP]} \ {NoClient}
  PROVE  ProcessSysInit(s, pid, first) = McpComOut(s, first)
<1> DEFINE w == McpComOut(s, first)
<1>1. s \in Server
  BY DEF Inv, Core, Good
<1>2. /\ Core(w, {}) /\ w.procs_n = s.procs_n
      /\ \A p \in ProcSlots(s) : w.con[p] = s.con[p]
  <2>1. Core(s, {})
    BY DEF Inv
  <2>2. Core(w, {}) /\ w.procs_n = s.procs_n
    BY <2>1, McpComOutCore
  <2> QED
    BY <1>1, <2>2, McpComOutCon
<1>3. Slots(w) = Slots(s) /\ ProcSlots(w) = ProcSlots(s)
  BY <1>2 DEF Slots, ProcSlots
<1>4. \A p \in ProcSlots(s) : s.con[p] \notin first
  BY <1>1, SlotsArePids DEF Inv, Core, SlotsInv, ProcSlots
<1> HIDE DEF w
<1>5. \A p \in ProcSlots(s) : ProtComOut(w, p, first) = w
  BY <1>2, <1>4 DEF ProtComOut, ProcSlots
<1>6. FocusComOut(w, first) = w
  <2>1. CASE w.focus_oid = -1
    BY <2>1 DEF FocusComOut
  <2>2. CASE w.focus_oid # -1
    <3>1. w.object[w.focus_oid].ref \in ProcSlots(w)
      BY <1>2, <2>2 DEF Core, FocusInv, MatchInv
    <3> QED
      BY <1>3, <1>5, <2>2, <3>1 DEF FocusComOut, ProcSlots
  <2> QED
    BY <2>1, <2>2
<1>7. PosUpdate(s, first) = w
  BY <1>6 DEF PosUpdate, w
<1> QED
  BY <1>3, <1>5, <1>7 DEF ProcessSysInit, w

-----------------------------------------------------------------------------
(* The parts of the state that an action changes without a C function of   *)
(* its own.                                                                *)
(* The MCP's own objects may change as long as no program's does.          *)
LEMMA ObjectChange ==
  ASSUME NEW s, NEW oid \in Oids, NEW x \in Object, Inv(s, {}),
         oid \notin Virtuals(s), x.type # "virtual",
         x.type = "clone" => x.ref \in Virtuals(s)
  PROVE  Inv([s EXCEPT !.object[oid] = x], {})
<1> DEFINE obj == [s.object EXCEPT ![oid] = x]
           t == [s EXCEPT !.object = obj]
<1>1. s \in Server
  BY DEF Inv, Core, Good
<1>2. obj \in [Oids -> Object]
  BY <1>1 DEF Server
<1>3. \A o \in Oids : obj[o] = IF o = oid THEN x ELSE s.object[o]
  BY <1>1 DEF Server
<1>4. [s EXCEPT !.object[oid] = x] = t
  BY <1>1 DEF Server
<1> HIDE DEF obj
<1>5. /\ t \in Server
      /\ t.focus_oid = s.focus_oid /\ t.known = s.known /\ t.con = s.con
      /\ t.object = obj /\ t.procs_n = s.procs_n
      /\ t.mcp_oid = s.mcp_oid /\ t.status = s.status
  BY <1>1, <1>2 DEF Server
<1> HIDE DEF t
<1>6. /\ Slots(t) = Slots(s) /\ ProcSlots(t) = ProcSlots(s)
      /\ Virtuals(t) = Virtuals(s)
      /\ \A o \in Virtuals(s) : t.object[o] = s.object[o]
  BY <1>3, <1>5 DEF Slots, ProcSlots, Virtuals
<1>7. ClonesInv(t)
  BY <1>3, <1>5, <1>6 DEF Inv, Core, ClonesInv
<1>8. Inv(t, {})
  BY <1>5, <1>6, <1>7
  DEF Inv, Core, Good, SlotsInv, MatchInv, FocusInv, KnownInv
<1> QED
  BY <1>4, <1>8

(* quit() changes the status alone.                                        *)
LEMMA StatusChange ==
  ASSUME NEW s, NEW x \in {"running", "quitting", "stopped"}, Inv(s, {})
  PROVE  Inv([s EXCEPT !.status = x], {})
<1> DEFINE t == [s EXCEPT !.status = x]
<1>1. s \in Server
  BY DEF Inv, Core, Good
<1>2. /\ t \in Server /\ t.status # "crashed"
      /\ t.focus_oid = s.focus_oid /\ t.known = s.known /\ t.con = s.con
      /\ t.object = s.object /\ t.procs_n = s.procs_n /\ t.mcp_oid = s.mcp_oid
  BY <1>1 DEF Server
<1> HIDE DEF t
<1>3. Slots(t) = Slots(s) /\ ProcSlots(t) = ProcSlots(s) /\ Virtuals(t) = Virtuals(s)
  BY <1>2 DEF Slots, ProcSlots, Virtuals
<1>4. Inv(t, {})
  BY <1>2, <1>3
  DEF Inv, Core, Good, SlotsInv, MatchInv, FocusInv, ClonesInv, KnownInv
<1> QED
  BY <1>4 DEF t

(* obj_check_biggest_object() reports a program the MCP knows already. *)
LEMMA McpRepObjectInv ==
  ASSUME NEW s, NEW oid \in Virtuals(s), NEW dead, Inv(s, {})
  PROVE  Inv(McpRepObject(s, oid, dead), {})
<1> DEFINE w == McpComOut(s, dead)
<1>1. Core(w, {}) /\ (w = s \/ w.con[MCP] = NoClient)
  BY McpComOutCore DEF Inv
<1>2. Inv(w, {})
  BY McpComOutInv
<1> HIDE DEF w
<1>3. McpRepObject(s, oid, dead) = IF w.con[MCP] = NoClient THEN w
                                   ELSE [w EXCEPT !.known = w.known \union {oid}]
  BY DEF McpRepObject, w
<1>4. CASE w.con[MCP] # NoClient
  <2>1. w = s /\ w.known \union {oid} = Virtuals(s)
    BY <1>1, <1>4 DEF Inv, KnownInv
  <2>2. Virtuals(s) \in SUBSET Oids
    BY DEF Virtuals
  <2> DEFINE t == [s EXCEPT !.known = Virtuals(s)]
  <2>3. Core(t, {}) /\ t.known = Virtuals(s) /\ t.object = s.object
    BY <1>1, <2>1, <2>2, KnownChange
  <2> HIDE DEF t
  <2>4. Inv(t, {})
    BY <2>3 DEF Inv, KnownInv, Virtuals
  <2> QED
    BY <1>3, <1>4, <2>1, <2>4 DEF t
<1> QED
  BY <1>2, <1>3, <1>4

(* process_add() takes the next slot for a client that has none.           *)
LEMMA AcceptInv ==
  ASSUME Inv(srv, {}), peer \in [Clients -> {"open", "closed"}],
         NEW c \in Clients, Accept(c)
  PROVE  Inv(srv', {})
<1> DEFINE s == srv
           t == srv'
           n == srv.procs_n
           con == [srv.con EXCEPT ![n] = c]
           mcp_oid == [srv.mcp_oid EXCEPT ![n] = -1]
<1>1. s \in Server /\ n \in Pids /\ n \in Nat \ {0}
  BY ProcTableAssumption, SlotsArePids DEF Inv, Core, Good, Accept, Server, Pids
<1>2. /\ con \in [Pids -> Clients \union {NoClient}]
      /\ mcp_oid \in [Pids -> Oids \union {-1}]
      /\ n + 1 \in 1 .. MaxPid + 1
      /\ srv.told \ {c} \in SUBSET Clients
  BY <1>1, ProcTableAssumption DEF Server, Accept
<1>3. \A p \in Pids : /\ con[p] = IF p = n THEN c ELSE s.con[p]
                      /\ mcp_oid[p] = IF p = n THEN -1 ELSE s.mcp_oid[p]
  BY <1>1 DEF Server
<1>4. t = [s EXCEPT !.procs_n = n + 1, !.con = con, !.mcp_oid = mcp_oid,
                    !.told = srv.told \ {c}]
  BY <1>1 DEF Accept, Server
<1> HIDE DEF con, mcp_oid
<1>5. /\ t \in Server
      /\ t.focus_oid = s.focus_oid /\ t.known = s.known /\ t.con = con
      /\ t.object = s.object /\ t.procs_n = n + 1
      /\ t.mcp_oid = mcp_oid /\ t.status = s.status
  BY <1>1, <1>2, <1>4 DEF Server
<1>6. Slots(t) = Slots(s) \union {n} /\ n \notin Slots(s) /\ n # MCP
  BY <1>1, <1>5 DEF Slots, MCP
<1>7. ProcSlots(t) = ProcSlots(s) \union {n} /\ Virtuals(t) = Virtuals(s)
  BY <1>5, <1>6 DEF ProcSlots, Virtuals
<1>8. \A p \in Slots(s) : s.con[p] # c
  BY DEF Accept, HasSlot
<1>9. Slots(s) \subseteq Pids /\ MCP \in Slots(s) /\ c # NoClient
  BY <1>1, SlotsArePids, ProcTableAssumption
<1> HIDE DEF t, s, n
<1>10. SlotsInv(t, {})
  BY <1>1, <1>3, <1>5, <1>6, <1>7, <1>8, <1>9 DEF Inv, Core, SlotsInv, ProcSlots, s
<1>11. MatchInv(t, {})
  <2>1. \A p \in ProcSlots(s) : mcp_oid[p] = s.mcp_oid[p] /\ p \in Pids /\ p # n
    BY <1>3, <1>6, <1>9 DEF ProcSlots
  <2>2. MatchInv(s, {})
    BY DEF Inv, Core, s
  <2>3. mcp_oid[n] = -1
    BY <1>1, <1>3
  <2> QED
    BY <1>5, <1>7, <2>1, <2>2, <2>3 DEF MatchInv
<1>12. FocusInv(t) /\ ClonesInv(t) /\ KnownInv(t)
  BY <1>3, <1>5, <1>6, <1>7, <1>9
  DEF Inv, Core, FocusInv, ClonesInv, KnownInv, s
<1>13. t.status # "crashed"
  BY <1>5 DEF Inv, Core, Good, s
<1> QED
  BY <1>5, <1>10, <1>11, <1>12, <1>13 DEF Inv, Core, Good, t

(* process_init() starts with the MCP's slot, its camera and its pointer.  *)
LEMMA InitInv == Init => Inv(srv, {}) /\ peer \in [Clients -> {"open", "closed"}]
<1> SUFFICES ASSUME Init PROVE Inv(srv, {}) /\ peer \in [Clients -> {"open", "closed"}]
  OBVIOUS
<1> DEFINE con == [pid \in Pids |-> NoClient]
           mcp_oid == [pid \in Pids |-> -1]
           obj == [o \in Oids |-> CASE o = CAM -> Obj("cam", 0)
                                    [] o = PTR -> Obj("ptr", 0)
                                    [] OTHER -> NoObj]
<1>1. /\ con \in [Pids -> Clients \union {NoClient}]
      /\ mcp_oid \in [Pids -> Oids \union {-1}]
      /\ obj \in [Oids -> Object] /\ 1 \in 1 .. MaxPid + 1
  BY ProcTableAssumption DEF Object, Obj, NoObj, ObjTypes
<1>2. /\ con[MCP] = NoClient
      /\ \A o \in Oids : obj[o].type # "virtual" /\ obj[o].type # "clone"
  BY PidTypes DEF Obj, NoObj
<1>3. srv = [procs_n |-> 1, con |-> con, mcp_oid |-> mcp_oid, object |-> obj,
             focus_oid |-> -1, known |-> {}, told |-> {}, status |-> "running"]
  BY DEF Init
<1> HIDE DEF con, mcp_oid, obj
<1>4. srv \in Server
  BY <1>1, <1>3 DEF Server
<1>5. Slots(srv) = {MCP} /\ Virtuals(srv) = {}
  BY <1>2, <1>3 DEF Slots, Virtuals, MCP
<1>6. Inv(srv, {})
  BY <1>2, <1>3, <1>4, <1>5
  DEF Inv, Core, Good, SlotsInv, MatchInv, FocusInv, ClonesInv, KnownInv, ProcSlots
<1> QED
  BY <1>6 DEF Init

-----------------------------------------------------------------------------
(* The specification *)

IInv == Inv(srv, {}) /\ peer \in [Clients -> {"open", "closed"}]

(* Every action of the server keeps the invariant.                         *)
LEMMA NextInv ==
  ASSUME "init" \notin Faults, IInv, Next
  PROVE  Inv(srv', {})
<1>1. /\ Inv(srv, {}) /\ srv \in Server /\ MCP \in Slots(srv)
      /\ Slots(srv) \subseteq Pids /\ peer \in [Clients -> {"open", "closed"}]
  BY SlotsArePids DEF IInv, Inv, Core, Good
<1>2. ASSUME NEW c \in Clients, Accept(c)
      PROVE  Inv(srv', {})
  BY <1>1, <1>2, AcceptInv
<1>3. ASSUME NEW c \in Clients, Leave(c)
      PROVE  Inv(srv', {})
  BY <1>1, <1>3 DEF Leave
<1>4. ASSUME NEW pid \in Pids, HangUp(pid)
      PROVE  Inv(srv', {})
  BY <1>1, <1>4, ProcessDelInv DEF HangUp
<1>5. ASSUME NEW pid \in Pids, InitApp(pid)
      PROVE  Inv(srv', {})
  <2>1. pid \in ProcSlots(srv) /\ srv.mcp_oid[pid] = -1
    BY <1>5 DEF InitApp, Waiting, InUse, ProcSlots
  <2>2. PICK first \in SUBSET DeadIn("init"), dead \in SUBSET Gone :
          LET s == ProcessSysInit(srv, pid, first)
          IN  /\ first \subseteq dead
              /\ \/ /\ pid \in Slots(s)
                    /\ \E oid \in Oids : /\ FreeOid(s, oid)
                                         /\ srv' = Register(s, pid, oid, dead)
                 \/ /\ pid \notin Slots(s)
                    /\ srv' = Crash(s)
    BY <1>5 DEF InitApp
  <2>3. first \subseteq {srv.con[MCP]} \ {NoClient}
    BY <2>2, ProcTableAssumption DEF DeadIn, Gone
  <2> DEFINE s == McpComOut(srv, first)
  <2>4. ProcessSysInit(srv, pid, first) = s
    BY <1>1, <2>1, <2>3, ProcessSysInitInv
  <2>5. Core(srv, {})
    BY <1>1 DEF Inv
  <2>6. Inv(s, {})
    BY <1>1, McpComOutInv
  <2>7. s.procs_n = srv.procs_n /\ s.mcp_oid = srv.mcp_oid
    BY <2>5, McpComOutCore
  <2> HIDE DEF s
  <2>8. pid \in Slots(s) /\ pid \in ProcSlots(s) /\ s.mcp_oid[pid] = -1
    BY <2>1, <2>7 DEF ProcSlots, Slots
  <2>9. PICK oid \in Oids : FreeOid(s, oid) /\ srv' = Register(s, pid, oid, dead)
    BY <2>2, <2>4, <2>8
  <2> QED
    BY <2>6, <2>8, <2>9, RegisterInv
<1>6. ASSUME NEW pid \in Pids, InitMcp(pid)
      PROVE  Inv(srv', {})
  BY <1>1, <1>6, TakeMcpPlaceInv DEF InitMcp, Waiting, InUse, ProcSlots
<1>7. ASSUME NEW pid \in Pids, InitRefused(pid)
      PROVE  Inv(srv', {})
  BY <1>1, <1>7, EventQuitInv DEF InitRefused, Waiting, InUse
<1>8. ASSUME NEW pid \in Pids, Quit(pid)
      PROVE  Inv(srv', {})
  BY <1>1, <1>8, EventQuitInv DEF Quit, Initialised, InUse
<1>9. ASSUME NEW pid \in Pids, EarlyCommand(pid)
      PROVE  Inv(srv', {})
  <2>1. PICK dead \in SUBSET DeadIn("quit") :
          LET s == EventQuit(srv, pid, dead)
          IN  \/ srv' = IF pid \in Slots(s) THEN EventQuit(s, pid, dead) ELSE s
              \/ srv' = IF pid \in Slots(s) THEN ProtComOut(s, pid, dead) ELSE s
    BY <1>9 DEF EarlyCommand
  <2>2. Inv(EventQuit(srv, pid, dead), {})
    BY <1>1, <1>9, EventQuitInv DEF EarlyCommand, Waiting, InUse
  <2> QED
    BY <2>1, <2>2, EventQuitInv, ProtComOutInv
<1>10. ASSUME NEW pid \in Pids, NewObj(pid)
       PROVE  Inv(srv', {})
  BY <1>1, <1>10, ProtComOutInv DEF NewObj
<1>11. ASSUME NEW pid \in Pids, CheckBiggest(pid)
       PROVE  Inv(srv', {})
  <2>1. srv.mcp_oid[pid] \in Virtuals(srv)
    BY <1>1, <1>11
    DEF CheckBiggest, Initialised, InUse, Inv, Core, MatchInv, ProcSlots
  <2> QED
    BY <1>1, <1>11, <2>1, McpRepObjectInv DEF CheckBiggest
<1>12. CASE McpNewObj
  <2>1. PICK dead \in SUBSET Gone, oid \in Oids :
          /\ FreeOid(srv, oid)
          /\ srv' = McpComOut([srv EXCEPT !.object[oid] = Obj("plain", 0)], dead)
    BY <1>12 DEF McpNewObj
  <2>2. /\ Obj("plain", 0) \in Object /\ Obj("plain", 0).type = "plain"
        /\ oid \notin Virtuals(srv)
    BY <2>1 DEF Object, Obj, ObjTypes, FreeOid, NoObj, Virtuals
  <2>3. Inv([srv EXCEPT !.object[oid] = Obj("plain", 0)], {})
    BY <1>1, <2>2, ObjectChange
  <2> QED
    BY <2>1, <2>3, McpComOutInv
<1>13. ASSUME NEW oid \in Oids, NEW toid \in Oids, McpClone(oid, toid)
       PROVE  Inv(srv', {})
  <2>1. /\ Obj("clone", toid) \in Object /\ Obj("clone", toid).type = "clone"
        /\ Obj("clone", toid).ref = toid
        /\ oid \notin Virtuals(srv) /\ toid \in Virtuals(srv)
    BY <1>13, PidTypes DEF McpClone, Object, Obj, ObjTypes, Virtuals
  <2>2. Inv([srv EXCEPT !.object[oid] = Obj("clone", toid)], {})
    BY <1>1, <2>1, ObjectChange
  <2> QED
    BY <1>13, <2>2 DEF McpClone
<1>14. ASSUME NEW oid \in Oids, McpDelObj(oid)
       PROVE  Inv(srv', {})
  <2>1. CASE srv.object[oid].type \in {"plain", "clone"}
    <3>1. NoObj \in Object /\ NoObj.type = "null" /\ oid \notin Virtuals(srv)
      BY <2>1 DEF NoObj, Object, Obj, ObjTypes, Virtuals
    <3>2. Inv([srv EXCEPT !.object[oid] = NoObj], {})
      BY <1>1, <3>1, ObjectChange
    <3> QED
      BY <1>14, <2>1, <3>2 DEF McpDelObj
  <2>2. CASE srv.object[oid].type = "virtual"
    <3>1. srv.object[oid].ref \in Slots(srv)
      BY <1>1, <2>2 DEF Inv, Core, MatchInv, ProcSlots, Virtuals
    <3> QED
      BY <1>1, <1>14, <2>2, <3>1, EventQuitInv DEF McpDelObj
  <2> QED
    BY <1>14, <2>1, <2>2 DEF McpDelObj
<1>15. ASSUME NEW oid, FocusCommand(oid)
       PROVE  Inv(srv', {})
  BY <1>1, <1>15, McpFocusInv DEF FocusCommand
<1>16. CASE InputEvent
  BY <1>1, <1>16, InputOutInv, PosUpdateInv DEF InputEvent
<1>17. CASE ShutDown
  BY <1>1, <1>17, StatusChange DEF ShutDown
<1>18. CASE QuitLast
  <2>1. PICK dead \in SUBSET Gone :
          LET pid == srv.procs_n - 1
              s   == EventQuit(srv, pid, dead)
          IN  srv' = IF pid = MCP THEN [s EXCEPT !.status = "stopped"] ELSE s
    BY <1>18 DEF QuitLast
  <2>2. srv.procs_n - 1 \in Slots(srv)
    BY <1>1, SlotsArePids DEF Slots
  <2>3. Inv(EventQuit(srv, srv.procs_n - 1, dead), {})
    BY <1>1, <2>2, EventQuitInv
  <2> QED
    BY <2>1, <2>3, StatusChange
<1> QED
  BY <1>2, <1>3, <1>4, <1>5, <1>6, <1>7, <1>8, <1>9, <1>10, <1>11, <1>12, <1>13,
     <1>14, <1>15, <1>16, <1>17, <1>18 DEF Next

(* Clients open and close their own end only.                              *)
LEMMA NextPeer ==
  ASSUME peer \in [Clients -> {"open", "closed"}], Next
  PROVE  peer' \in [Clients -> {"open", "closed"}]
BY DEF Next, Accept, Leave, HangUp, InitApp, InitMcp, InitRefused, Quit,
       EarlyCommand, NewObj, CheckBiggest, McpNewObj, McpClone, McpDelObj,
       FocusCommand, InputEvent, ShutDown, QuitLast

(* The inductive invariant holds when no client but the MCP is found dead  *)
(* while an INIT is handled: otherwise process_protinit() goes on with the *)
(* slot of another process.                                                *)
THEOREM Invariant == ASSUME "init" \notin Faults PROVE Spec => []IInv
<1>1. Init => IInv
  BY InitInv DEF IInv
<1>2. IInv /\ [Next]_vars => IInv'
  <2>1. CASE Next
    BY <2>1, NextInv, NextPeer DEF IInv
  <2>2. CASE UNCHANGED vars
    BY <2>2 DEF IInv, vars
  <2> QED
    BY <2>1, <2>2
<1> QED
  BY <1>1, <1>2, PTL DEF Spec

-----------------------------------------------------------------------------
(* What follows for the properties of ProcTable *)

(* Every field keeps its type: in particular the slot count never leaves   *)
(* 1..MaxPid+1, so process_list_rm() never removes the MCP's slot.         *)
THEOREM Types == ASSUME "init" \notin Faults PROVE Spec => []TypeOK
<1>1. IInv => TypeOK
  BY DEF IInv, Inv, Core, Good, TypeOK
<1> QED
  BY <1>1, Invariant, PTL

(* mcp_oid and virtual_pid name each other, through every removal of a     *)
(* slot, nested ones included.                                             *)
THEOREM Matching == ASSUME "init" \notin Faults PROVE Spec => []PidsAndOidsMatch
<1>1. IInv => PidsAndOidsMatch
  <2> SUFFICES ASSUME IInv PROVE PidsAndOidsMatch
    OBVIOUS
  <2>1. srv \in Server /\ MatchInv(srv, {})
    BY DEF IInv, Inv, Core, Good
  <2>2. ASSUME NEW pid \in ProcSlots(srv), srv.mcp_oid[pid] # -1
        PROVE  srv.object[srv.mcp_oid[pid]] = Obj("virtual", pid)
    <3> DEFINE x == srv.object[srv.mcp_oid[pid]]
    <3>1. srv.mcp_oid[pid] \in Virtuals(srv) /\ x.ref = pid
      BY <2>1, <2>2 DEF MatchInv
    <3>2. x \in Object /\ x.type = "virtual"
      BY <2>1, <3>1 DEF Virtuals, Server
    <3> HIDE DEF x
    <3>3. x = Obj("virtual", pid)
      BY <3>1, <3>2 DEF Object, Obj
    <3> QED
      BY <3>3 DEF x
  <2> QED
    BY <2>1, <2>2 DEF PidsAndOidsMatch, MatchInv, ProcSlots
<1> QED
  BY <1>1, Invariant, PTL

(* Every slot but the MCP's has a connection, and no connection has two.   *)
THEOREM Connections == ASSUME "init" \notin Faults PROVE Spec => []SlotsAreConnections
<1>1. IInv => SlotsAreConnections
  BY DEF IInv, Inv, Core, SlotsInv, SlotsAreConnections, ProcSlots
<1> QED
  BY <1>1, Invariant, PTL

(* The focus is a living program's object or nothing.                      *)
THEOREM Focus == ASSUME "init" \notin Faults PROVE Spec => []FocusIsAProgram
<1>1. IInv => FocusIsAProgram
  BY DEF IInv, Inv, Core, FocusInv, FocusIsAProgram, Virtuals
<1> QED
  BY <1>1, Invariant, PTL

(* No object of the MCP shows a program that has gone.                     *)
THEOREM Clones == ASSUME "init" \notin Faults PROVE Spec => []ClonesShowPrograms
<1>1. IInv => ClonesShowPrograms
  BY DEF IInv, Inv, Core, ClonesInv, ClonesShowPrograms, Virtuals
<1> QED
  BY <1>1, Invariant, PTL

(* A connected MCP knows exactly the programs there are.                   *)
THEOREM Knowledge == ASSUME "init" \notin Faults PROVE Spec => []McpKnowsThePrograms
<1>1. IInv => McpKnowsThePrograms
  BY DEF IInv, Inv, KnownInv, McpKnowsThePrograms
<1> QED
  BY <1>1, Invariant, PTL

(* No handler dereferences a pid that is out of range.                     *)
THEOREM NoCrash == ASSUME "init" \notin Faults PROVE Spec => []NeverCrashes
<1>1. IInv => NeverCrashes
  BY DEF IInv, Inv, Core, Good, NeverCrashes
<1> QED
  BY <1>1, Invariant, PTL

-----------------------------------------------------------------------------
(* Who loses a slot                                                        *)

(* From s to t only the clients of D lose a slot, no QUIT is forgotten,    *)
(* and no program got a connection that was not a program's before.        *)
Keeps(s, t, D) ==
  /\ \A c \in Clients \ D : HasSlot(s, c) => HasSlot(t, c)
  /\ s.told \subseteq t.told
  /\ \A p \in ProcSlots(t) : \E q \in ProcSlots(s) : t.con[p] = s.con[q]

(* One handler's losses after another's.                                   *)
LEMMA KeepsTrans ==
  ASSUME NEW s, NEW t, NEW u, NEW D, NEW E, Keeps(s, t, D), Keeps(t, u, E)
  PROVE  Keeps(s, u, D \union E)
<1>1. \A c \in Clients \ (D \union E) : HasSlot(s, c) => HasSlot(u, c)
  BY DEF Keeps
<1>2. \A p \in ProcSlots(u) : \E q \in ProcSlots(s) : u.con[p] = s.con[q]
  <2> TAKE p \in ProcSlots(u)
  <2>1. PICK r \in ProcSlots(t) : u.con[p] = t.con[r]
    BY DEF Keeps
  <2>2. PICK q \in ProcSlots(s) : t.con[r] = s.con[q]
    BY DEF Keeps
  <2> QED
    BY <2>1, <2>2
<1> QED
  BY <1>1, <1>2 DEF Keeps

(* What leaves the slots and their connections alone loses nobody.         *)
LEMMA KeepsSlots ==
  ASSUME NEW s, NEW t, NEW D, t.procs_n = s.procs_n, t.con = s.con,
         s.told \subseteq t.told
  PROVE  Keeps(s, t, D)
BY DEF Keeps, HasSlot, Slots, ProcSlots

(* A write to the MCP can lose the MCP only, and only if it is dead.       *)
LEMMA McpComOutKeeps ==
  ASSUME NEW s, NEW dead, s \in Server
  PROVE  LET t == McpComOut(s, dead)
         IN  /\ Keeps(s, t, dead)
             /\ t \in Server /\ t.told = s.told /\ t.procs_n = s.procs_n
             /\ \A p \in ProcSlots(s) : t.con[p] = s.con[p]
             /\ t.con[MCP] = s.con[MCP] \/ s.con[MCP] \in dead
<1>1. CASE s.con[MCP] \in dead
  <2> DEFINE t == DelMcp(s)
  <2>1. /\ t \in Server /\ t.told = s.told /\ t.procs_n = s.procs_n
        /\ t.con = [s.con EXCEPT ![MCP] = NoClient]
    BY DelMcpFields
  <2> HIDE DEF t
  <2>2. Slots(t) = Slots(s) /\ ProcSlots(t) = ProcSlots(s)
    BY <2>1 DEF Slots, ProcSlots
  <2>3. \A p \in ProcSlots(s) : t.con[p] = s.con[p]
    BY <2>1, SlotsArePids DEF ProcSlots, Server
  <2>4. Keeps(s, t, dead)
    BY <1>1, <2>1, <2>2, <2>3 DEF Keeps, HasSlot, ProcSlots
  <2>5. McpComOut(s, dead) = t
    BY <1>1 DEF McpComOut, t
  <2> QED
    BY <1>1, <2>1, <2>3, <2>4, <2>5
<1>2. CASE s.con[MCP] \notin dead
  BY <1>2, KeepsSlots DEF McpComOut
<1> QED
  BY <1>1, <1>2

(* process_list_rm() loses the connection of the slot it fills, no other.  *)
LEMMA ProcessListRmKeeps ==
  ASSUME NEW s, NEW pid, s \in Server, pid \in ProcSlots(s)
  PROVE  LET t == ProcessListRm(s, pid)
         IN  /\ t \in Server /\ t.told = s.told /\ t.procs_n = s.procs_n - 1
             /\ t.con[MCP] = s.con[MCP]
             /\ \A p \in Slots(s) \ {pid} : \E q \in Slots(t) : t.con[q] = s.con[p]
             /\ \A p \in ProcSlots(t) : \E q \in ProcSlots(s) \ {pid} : t.con[p] = s.con[q]
<1> DEFINE t == ProcessListRm(s, pid)
           last == s.procs_n - 1
           oid == s.mcp_oid[last]
           con == [s.con EXCEPT ![pid] = s.con[last], ![last] = NoClient]
           mcp_oid == [s.mcp_oid EXCEPT ![pid] = oid, ![last] = -1]
           obj == IF pid # last /\ oid # -1 THEN [s.object EXCEPT ![oid].ref = pid]
                  ELSE s.object
<1>1. /\ t.con = con /\ t.told = s.told /\ t.procs_n = last
      /\ t = [s EXCEPT !.con = con, !.mcp_oid = mcp_oid, !.object = obj, !.procs_n = last]
  BY DEF ProcessListRm, Server
<1>2. /\ pid \in Pids /\ last \in Pids /\ pid # MCP /\ last # MCP
      /\ pid \in 1 .. last /\ last \in Nat
  BY SlotsArePids, ProcTableAssumption DEF ProcSlots, Slots, Server, Pids, MCP
<1>3. \A p \in Pids : p # last => con[p] = IF p = pid THEN s.con[last] ELSE s.con[p]
  BY <1>2 DEF Server
<1>8. /\ con \in [Pids -> Clients \union {NoClient}]
      /\ mcp_oid \in [Pids -> Oids \union {-1}]
      /\ obj \in [Oids -> Object] /\ last \in 1 .. MaxPid + 1
  BY <1>2, ProcTableAssumption DEF Server, Object
<1> HIDE DEF t, con, mcp_oid, obj
<1>9. t \in Server
  BY <1>1, <1>8 DEF Server
<1>4. /\ Slots(s) \subseteq Pids
      /\ Slots(t) = Slots(s) \ {last} /\ ProcSlots(t) = ProcSlots(s) \ {last}
      /\ last \in ProcSlots(s) /\ MCP \in Slots(s)
  BY <1>1, <1>2, SlotsArePids DEF Slots, ProcSlots, MCP
<1>5. \A p \in Slots(s) \ {pid} : \E q \in Slots(t) : t.con[q] = s.con[p]
  <2> TAKE p \in Slots(s) \ {pid}
  <2>1. CASE p = last
    BY <1>1, <1>2, <1>3, <1>4, <2>1 DEF ProcSlots
  <2>2. CASE p # last
    BY <1>1, <1>3, <1>4, <2>2
  <2> QED
    BY <2>1, <2>2
<1>6. \A p \in ProcSlots(t) : \E q \in ProcSlots(s) \ {pid} : t.con[p] = s.con[q]
  BY <1>1, <1>2, <1>3, <1>4 DEF ProcSlots
<1>7. t.con[MCP] = s.con[MCP]
  BY <1>1, <1>2, <1>3, <1>4
<1> QED
  BY <1>1, <1>5, <1>6, <1>7, <1>9 DEF t

(* process_del() loses the client of its slot, and an MCP found dead.      *)
LEMMA ProcessDelKeeps ==
  ASSUME NEW s, NEW pid \in Slots(s), NEW dead, Inv(s, {})
  PROVE  LET t == ProcessDel(s, pid, dead)
         IN  /\ Keeps(s, t, {s.con[pid]} \union dead)
             /\ t.told = s.told
             /\ pid # MCP => t.procs_n = s.procs_n - 1
<1>1. s \in Server /\ MCP \in Slots(s) /\ Slots(s) \subseteq Pids
  BY SlotsArePids DEF Inv, Core, Good
<1>2. CASE pid = MCP
  <2> DEFINE t == DelMcp(s)
  <2>1. t.told = s.told /\ t.procs_n = s.procs_n
        /\ t.con = [s.con EXCEPT ![MCP] = NoClient]
    BY <1>1, DelMcpFields
  <2>2. ProcessDel(s, pid, dead) = t
    BY <1>2 DEF ProcessDel
  <2> HIDE DEF t
  <2>3. \A p \in ProcSlots(s) : t.con[p] = s.con[p]
    BY <1>1, <2>1 DEF Server, ProcSlots
  <2>4. Keeps(s, t, {s.con[pid]} \union dead)
    BY <1>2, <2>1, <2>3 DEF Keeps, HasSlot, Slots, ProcSlots
  <2> QED
    BY <1>2, <2>1, <2>2, <2>4
<1>3. CASE pid # MCP
  <2> DEFINE c == [s EXCEPT !.con[pid] = NoClient]
             oid == s.mcp_oid[pid]
             f == [FreeVirtual(c, oid) EXCEPT
                     !.focus_oid = IF oid = s.focus_oid THEN -1 ELSE @]
             w == McpComOut(f, dead)
             d == PDel(c, pid, dead)
             t == ProcessListRm(d, pid)
             Cut(u) == /\ u.procs_n = s.procs_n /\ u.told = s.told
                       /\ \A p \in ProcSlots(s) \ {pid} : u.con[p] = s.con[p]
                       /\ u.con[MCP] = s.con[MCP] \/ s.con[MCP] \in dead
  <2>1. /\ pid \in ProcSlots(s) /\ pid \in Pids
        /\ Inv(d, {pid}) /\ d.procs_n = s.procs_n
    BY <1>1, <1>3, PDelInv DEF ProcSlots
  <2>2. /\ c \in Server /\ c.procs_n = s.procs_n /\ c.told = s.told
        /\ c.mcp_oid = s.mcp_oid /\ c.focus_oid = s.focus_oid
        /\ c.con = [s.con EXCEPT ![pid] = NoClient]
    BY <1>1, <2>1 DEF Server
  <2> HIDE DEF c
  <2>3. \A p \in Slots(s) \ {pid} : c.con[p] = s.con[p]
    BY <1>1, <2>2 DEF Server
  <2>4. Cut(d)
    <3>1. CASE oid = -1
      BY <1>1, <1>3, <2>2, <2>3, <3>1 DEF PDel, ProcSlots
    <3>2. CASE oid # -1
      <4>1. /\ f.con = c.con /\ f.procs_n = s.procs_n /\ f.told = s.told
            /\ f \in Server
        <5>1. oid \in Oids
          BY <1>1, <2>1, <3>2 DEF Server
        <5>2. FreeVirtual(c, oid).object \in [Oids -> Object]
          BY <2>2 DEF FreeVirtual, Server, Object, NoObj, Obj, ObjTypes
        <5>3. FreeVirtual(c, oid) = [c EXCEPT !.object = FreeVirtual(c, oid).object]
          BY <2>2 DEF FreeVirtual, Server
        <5> QED
          BY <2>2, <5>1, <5>2, <5>3 DEF Server
      <4>2. d = [w EXCEPT !.known = @ \ {oid}]
        <5>1. (IF oid = FreeVirtual(c, oid).focus_oid
               THEN [FreeVirtual(c, oid) EXCEPT !.focus_oid = -1]
               ELSE FreeVirtual(c, oid)) = f
          BY <2>2 DEF FreeVirtual, Server
        <5> QED
          BY <2>2, <3>2, <5>1 DEF PDel, McpDelObject
      <4> HIDE DEF f
      <4>3. /\ w \in Server /\ w.told = s.told /\ w.procs_n = s.procs_n
            /\ \A p \in ProcSlots(f) : w.con[p] = f.con[p]
            /\ w.con[MCP] = f.con[MCP] \/ f.con[MCP] \in dead
        BY <4>1, McpComOutKeeps
      <4> HIDE DEF w, d
      <4>4. d.con = w.con /\ d.told = w.told
        BY <4>2, <4>3 DEF Server
      <4>5. ProcSlots(f) = ProcSlots(s)
        BY <4>1 DEF ProcSlots, Slots
      <4> QED
        BY <1>1, <1>3, <2>1, <2>3, <4>1, <4>3, <4>4, <4>5 DEF ProcSlots
    <3> QED
      BY <3>1, <3>2
  <2>5. ProcessDel(s, pid, dead) = t
    BY <1>3 DEF ProcessDel, c
  <2>6. d \in Server /\ Slots(d) = Slots(s) /\ ProcSlots(d) = ProcSlots(s)
    BY <2>1 DEF Inv, Core, Good, Slots, ProcSlots
  <2> HIDE DEF d
  <2>7. /\ t.told = d.told /\ t.procs_n = d.procs_n - 1
        /\ \A p \in Slots(s) \ {pid} : \E q \in Slots(t) : t.con[q] = d.con[p]
        /\ \A p \in ProcSlots(t) : \E q \in ProcSlots(s) \ {pid} : t.con[p] = d.con[q]
    BY <2>1, <2>6, ProcessListRmKeeps
  <2> HIDE DEF t
  <2>8. \A p \in Slots(s) \ {pid} : d.con[p] = s.con[p] \/ s.con[p] \in dead
    BY <2>4 DEF ProcSlots
  <2>9. Keeps(s, t, {s.con[pid]} \union dead)
    <3>1. ASSUME NEW x \in Clients \ ({s.con[pid]} \union dead), HasSlot(s, x)
          PROVE  HasSlot(t, x)
      <4>1. PICK p \in Slots(s) \ {pid} : s.con[p] = x
        BY <3>1 DEF HasSlot
      <4>2. d.con[p] = x
        BY <2>8, <3>1, <4>1
      <4> QED
        BY <2>7, <4>2 DEF HasSlot
    <3>2. \A p \in ProcSlots(t) : \E q \in ProcSlots(s) : t.con[p] = s.con[q]
      BY <2>4, <2>7
    <3> QED
      BY <2>4, <2>7, <3>1, <3>2 DEF Keeps
  <2> QED
    BY <1>3, <2>4, <2>5, <2>7, <2>9
<1> QED
  BY <1>2, <1>3

(* A failing write loses dead clients only.                                *)
LEMMA ProtComOutKeeps ==
  ASSUME NEW s, NEW pid, NEW dead, Inv(s, {})
  PROVE  Keeps(s, ProtComOut(s, pid, dead), dead)
<1>1. Keeps(s, s, dead)
  BY KeepsSlots
<1>2. CASE s.con[pid] \in dead /\ pid \in Slots(s)
  BY <1>2, ProcessDelKeeps DEF ProtComOut, Keeps
<1>3. CASE s.con[pid] \in dead /\ pid \notin Slots(s)
  <2>1. pid # MCP
    BY <1>3, SlotsArePids DEF Inv, Core, Good
  <2> QED
    BY <1>1, <1>3, <2>1 DEF ProtComOut, ProcessDel
<1>4. CASE s.con[pid] \notin dead
  BY <1>1, <1>4 DEF ProtComOut
<1> QED
  BY <1>2, <1>3, <1>4

(* The QUIT of slot pid can be written, or there is no other slot that     *)
(* process_del(p->id) could find in its place when it could not.           *)
QuitIsSafe(s, pid, dead) ==
  s.con[pid] \in dead => pid = MCP \/ pid = s.procs_n - 1

(* event_quit() loses the dead and one other client: the one of its slot,  *)
(* which was told, or the one that was moved there when the write failed.  *)
LEMMA EventQuitKeeps ==
  ASSUME NEW s, NEW pid \in Slots(s), NEW dead \in SUBSET Clients, Inv(s, {})
  PROVE  LET t == EventQuit(s, pid, dead)
         IN  \E x : /\ Keeps(s, t, {x} \union dead)
                    /\ QuitIsSafe(s, pid, dead) =>
                         x \in dead \union {NoClient} \union t.told
<1> DEFINE c == s.con[pid]
<1>1. /\ s \in Server /\ MCP \in Slots(s) /\ NoClient \notin dead
      /\ c \in Clients \union {NoClient}
  BY SlotsArePids, ProcTableAssumption DEF Inv, Core, Good, Server
<1>2. CASE c \in dead
  <2> DEFINE w == ProcessDel(s, pid, dead)
             t == ProcessDel(w, pid, dead)
             x == IF pid \in Slots(w) THEN w.con[pid] ELSE NoClient
  <2>1. EventQuit(s, pid, dead) = t
    BY <1>2 DEF EventQuit, ProtComOut
  <2>2. /\ Inv(w, {}) /\ Keeps(s, w, {c} \union dead)
        /\ pid # MCP => w.procs_n = s.procs_n - 1
    BY ProcessDelInv, ProcessDelKeeps
  <2>3. pid = MCP => w.con[pid] = NoClient
    <3> SUFFICES ASSUME pid = MCP PROVE w.con[pid] = NoClient
      OBVIOUS
    <3> DEFINE m == DelMcp(s)
    <3>1. w = m
      BY DEF ProcessDel
    <3>2. m.con = [s.con EXCEPT ![MCP] = NoClient]
      BY <1>1, DelMcpFields
    <3> HIDE DEF m
    <3>3. m.con[MCP] = NoClient
      BY <1>1, <3>2, PidTypes DEF Server
    <3> HIDE DEF w
    <3> QED
      BY <3>1, <3>3
  <2> HIDE DEF w
  <2>4. Keeps(w, t, {x} \union dead)
    <3>1. CASE pid \in Slots(w)
      BY <2>2, <3>1, ProcessDelKeeps
    <3>2. CASE pid \notin Slots(w)
      <4>1. pid # MCP
        BY <2>2, <3>2, SlotsArePids DEF Inv, Core, Good
      <4>2. t = w
        BY <3>2, <4>1 DEF ProcessDel
      <4> HIDE DEF t
      <4> QED
        BY <4>2, KeepsSlots
    <3> QED
      BY <3>1, <3>2
  <2> HIDE DEF t
  <2>5. Keeps(s, t, ({c} \union dead) \union ({x} \union dead))
    BY <2>2, <2>4, KeepsTrans
  <2>6. ({c} \union dead) \union ({x} \union dead) = {x} \union dead
    BY <1>2
  <2>7. QuitIsSafe(s, pid, dead) => x = NoClient
    BY <1>1, <1>2, <2>2, <2>3, SlotsArePids DEF QuitIsSafe, Slots
  <2> QED
    BY <2>1, <2>5, <2>6, <2>7
<1>3. CASE c = NoClient
  <2>1. EventQuit(s, pid, dead) = ProcessDel(s, pid, dead)
    BY <1>1, <1>3 DEF EventQuit, ProtComOut
  <2>2. Keeps(s, ProcessDel(s, pid, dead), {NoClient} \union dead)
    BY <1>3, ProcessDelKeeps
  <2> QED
    BY <2>1, <2>2
<1>4. CASE c \notin dead \union {NoClient}
  <2> DEFINE w == [s EXCEPT !.told = s.told \union {c}]
  <2>1. EventQuit(s, pid, dead) = ProcessDel(w, pid, dead)
    BY <1>4 DEF EventQuit
  <2>2. /\ w.con = s.con /\ w.procs_n = s.procs_n /\ w.told = s.told \union {c}
    BY <1>1 DEF Server
  <2>3. Inv(w, {})
    BY <1>1, <1>4, ToldChange DEF Server
  <2> HIDE DEF w
  <2>4. pid \in Slots(w) /\ Keeps(s, w, {})
    BY <2>2, KeepsSlots DEF Slots
  <2>5. LET t == ProcessDel(w, pid, dead)
        IN  Keeps(w, t, {c} \union dead) /\ t.told = w.told
    BY <2>2, <2>3, <2>4, ProcessDelKeeps
  <2>6. Keeps(s, ProcessDel(w, pid, dead), {} \union ({c} \union dead))
    BY <2>4, <2>5, KeepsTrans
  <2>7. {} \union ({c} \union dead) = {c} \union dead
    OBVIOUS
  <2> QED
    BY <2>1, <2>2, <2>5, <2>6, <2>7
<1> QED
  BY <1>1, <1>2, <1>3, <1>4

(* The focused program's write. *)
LEMMA FocusComOutKeeps ==
  ASSUME NEW s, NEW dead, Inv(s, {})
  PROVE  Keeps(s, FocusComOut(s, dead), dead)
<1>1. CASE s.focus_oid = -1
  BY <1>1, KeepsSlots DEF FocusComOut
<1>2. CASE s.focus_oid # -1
  <2>1. s.object[s.focus_oid].ref \in Slots(s)
    BY <1>2 DEF Inv, Core, FocusInv, MatchInv, ProcSlots
  <2> QED
    BY <1>2, <2>1, ProtComOutKeeps DEF FocusComOut
<1> QED
  BY <1>1, <1>2

(* Input events write to the MCP and to the focused program, in either     *)
(* order.                                                                  *)
LEMMA InputKeeps ==
  ASSUME NEW s, NEW dead, Inv(s, {})
  PROVE  /\ Keeps(s, PosUpdate(s, dead), dead)
         /\ Keeps(s, InputOut(s, dead), dead)
<1> DEFINE w == McpComOut(s, dead)
           f == FocusComOut(s, dead)
<1>1. Inv(w, {}) /\ Inv(f, {})
  BY McpComOutInv, FocusComOutInv
<1>2. Keeps(s, w, dead) /\ Keeps(s, f, dead)
  BY McpComOutKeeps, FocusComOutKeeps DEF Inv, Core, Good
<1>3. PosUpdate(s, dead) = FocusComOut(w, dead) /\ InputOut(s, dead) = McpComOut(f, dead)
  BY DEF PosUpdate, InputOut
<1> HIDE DEF w, f
<1>4. Keeps(w, FocusComOut(w, dead), dead) /\ Keeps(f, McpComOut(f, dead), dead)
  BY <1>1, McpComOutKeeps, FocusComOutKeeps DEF Inv, Core, Good
<1> QED
  BY <1>2, <1>3, <1>4, KeepsTrans

(* mcp_focus() tells whom it focuses. *)
LEMMA McpFocusKeeps ==
  ASSUME NEW s, NEW oid, NEW dead, Inv(s, {})
  PROVE  Keeps(s, McpFocus(s, oid, dead), dead)
<1> DEFINE f == [s EXCEPT !.focus_oid = oid]
           n == [s EXCEPT !.focus_oid = -1]
<1>1. s \in Server
  BY DEF Inv, Core, Good
<1>2. CASE oid \in Virtuals(s)
  <2>1. Inv(f, {}) /\ f.con = s.con /\ f.procs_n = s.procs_n /\ f.told = s.told
    BY <1>1, <1>2, FocusChange DEF Server
  <2>2. McpFocus(s, oid, dead) = PosUpdate(f, dead)
    BY <1>2 DEF McpFocus, Virtuals
  <2> HIDE DEF f
  <2>3. Keeps(s, f, {}) /\ Keeps(f, PosUpdate(f, dead), dead)
    BY <2>1, KeepsSlots, InputKeeps
  <2>4. Keeps(s, PosUpdate(f, dead), {} \union dead)
    BY <2>3, KeepsTrans
  <2> QED
    BY <2>2, <2>4
<1>3. CASE oid \notin Virtuals(s)
  <2>1. n.con = s.con /\ n.procs_n = s.procs_n /\ n.told = s.told
    BY <1>1 DEF Server
  <2>2. McpFocus(s, oid, dead) = n
    BY <1>3 DEF McpFocus, Virtuals
  <2> HIDE DEF n
  <2> QED
    BY <2>1, <2>2, KeepsSlots
<1> QED
  BY <1>2, <1>3

(* mcp_rep_object() is a write to the MCP. *)
LEMMA McpRepObjectKeeps ==
  ASSUME NEW s, NEW oid, NEW dead, s \in Server
  PROVE  LET t == McpRepObject(s, oid, dead)
         IN  Keeps(s, t, dead) /\ t.procs_n = s.procs_n
<1> DEFINE w == McpComOut(s, dead)
<1>1. w \in Server /\ Keeps(s, w, dead) /\ w.procs_n = s.procs_n
  BY McpComOutKeeps
<1> HIDE DEF w
<1>2. McpRepObject(s, oid, dead) =
        IF w.con[MCP] = NoClient THEN w ELSE [w EXCEPT !.known = @ \union {oid}]
  BY DEF McpRepObject, w
<1>3. Keeps(w, [w EXCEPT !.known = @ \union {oid}], {})
  BY <1>1, KeepsSlots DEF Server
<1>4. Keeps(s, [w EXCEPT !.known = @ \union {oid}], dead \union {})
  BY <1>1, <1>3, KeepsTrans
<1> QED
  BY <1>1, <1>2, <1>4 DEF Server

(* INIT of an ordinary program loses nobody but the dead.                  *)
LEMMA RegisterKeeps ==
  ASSUME NEW s, NEW pid, NEW oid \in Oids, NEW dead, Inv(s, {}),
         pid \in ProcSlots(s), s.mcp_oid[pid] = -1, FreeOid(s, oid)
  PROVE  Keeps(s, Register(s, pid, oid, dead), dead)
<1> DEFINE v == [s EXCEPT !.object[oid] = Obj("virtual", pid), !.mcp_oid[pid] = oid]
           r == McpRepObject(v, oid, dead)
           f == IF r.con[MCP] = NoClient THEN McpFocus(r, oid, dead) ELSE r
<1>1. s \in Server /\ pid \in Pids /\ pid \in Nat
  BY SlotsArePids DEF Inv, Core, Good, ProcSlots, Pids
<1>2. /\ v \in Server /\ v.con = s.con /\ v.procs_n = s.procs_n /\ v.told = s.told
  BY <1>1 DEF Server, Object, Obj, ObjTypes
<1>3. Register(s, pid, oid, dead) =
        IF pid \in Slots(f) THEN ProtComOut(f, pid, dead) ELSE f
  BY DEF Register
<1>4. Inv(r, {})
  BY RegisterReported
<1> HIDE DEF v
<1>5. Keeps(s, v, {}) /\ Keeps(v, r, dead)
  BY <1>2, KeepsSlots, McpRepObjectKeeps
<1> HIDE DEF r
<1>6. Inv(f, {}) /\ (Keeps(r, f, dead) \/ f = r)
  BY <1>4, McpFocusInv, McpFocusKeeps
<1> HIDE DEF f
<1>7. Keeps(f, Register(s, pid, oid, dead), dead)
  BY <1>3, <1>6, ProtComOutKeeps, KeepsSlots
<1>8. Keeps(s, r, {} \union dead)
  BY <1>5, KeepsTrans
<1>9. Keeps(s, f, ({} \union dead) \union dead)
  BY <1>6, <1>8, KeepsTrans
<1>10. Keeps(s, Register(s, pid, oid, dead), (({} \union dead) \union dead) \union dead)
  BY <1>7, <1>9, KeepsTrans
<1>11. (({} \union dead) \union dead) \union dead = dead
  OBVIOUS
<1> QED
  BY <1>10, <1>11

(* The client that becomes the MCP gives one slot up and keeps another.    *)
LEMMA TakeMcpPlaceKeeps ==
  ASSUME NEW s, NEW pid, NEW dead, Inv(s, {}), pid \in ProcSlots(s),
         s.mcp_oid[pid] = -1, s.con[MCP] = NoClient
  PROVE  Keeps(s, TakeMcpPlace(s, pid, dead), dead)
<1> DEFINE m == [s EXCEPT !.con[MCP] = s.con[pid]]
           k == [m EXCEPT !.known = Virtuals(m)]
           w == McpComOut(k, dead)
           f == [w EXCEPT !.focus_oid = -1]
           l == ProcessListRm(f, pid)
<1>1. s \in Server /\ pid \in Pids /\ pid # MCP /\ pid \in Slots(s) /\ MCP \in Slots(s)
  BY SlotsArePids DEF Inv, Core, Good, ProcSlots
<1>2. /\ m \in Server /\ m.procs_n = s.procs_n /\ m.told = s.told
      /\ m.con = [s.con EXCEPT ![MCP] = s.con[pid]]
      /\ m.object = s.object
  BY <1>1, PidTypes DEF Server
<1>3. McpInit(m, dead) = f
  <2>1. Slots(m) = Slots(s) /\ Virtuals(m) = Virtuals(s)
    BY <1>2 DEF Slots, Virtuals
  <2>2. McpInit(m, dead) = McpFocus(w, -1, dead)
    BY <1>2, <2>1 DEF McpInit, Inv, Core, MatchInv, ProcSlots
  <2> QED
    BY <2>2, PidTypes DEF McpFocus
<1>4. TakeMcpPlace(s, pid, dead) = McpComOut(l, dead)
  BY <1>3 DEF TakeMcpPlace
<1> HIDE DEF m
<1>5. /\ k \in Server /\ k.procs_n = s.procs_n /\ k.told = s.told /\ k.con = m.con
  BY <1>2 DEF Server, Virtuals
<1> HIDE DEF k
<1>6. /\ w \in Server /\ w.procs_n = s.procs_n /\ w.told = s.told
      /\ \A p \in ProcSlots(s) : w.con[p] = s.con[p]
      /\ w.con[MCP] = s.con[pid] \/ s.con[pid] \in dead
  <2>1. /\ w \in Server /\ w.procs_n = k.procs_n /\ w.told = k.told
        /\ \A p \in ProcSlots(k) : w.con[p] = k.con[p]
        /\ w.con[MCP] = k.con[MCP] \/ k.con[MCP] \in dead
    BY <1>5, McpComOutKeeps
  <2>2. ProcSlots(k) = ProcSlots(s)
    BY <1>5 DEF ProcSlots, Slots
  <2>3. /\ k.con[MCP] = s.con[pid]
        /\ \A p \in ProcSlots(s) : k.con[p] = s.con[p]
    BY <1>1, <1>2, <1>5, PidTypes, SlotsArePids DEF Server, ProcSlots
  <2> HIDE DEF w
  <2> QED
    BY <1>5, <2>1, <2>2, <2>3
<1> HIDE DEF w
<1>7. /\ f \in Server /\ f.procs_n = s.procs_n /\ f.told = s.told /\ f.con = w.con
      /\ Slots(f) = Slots(s) /\ ProcSlots(f) = ProcSlots(s)
  BY <1>6 DEF Server, Slots, ProcSlots
<1> HIDE DEF f
<1>8. /\ l \in Server /\ l.told = s.told /\ l.con[MCP] = f.con[MCP] /\ l.procs_n = s.procs_n - 1
      /\ \A p \in Slots(s) \ {pid} : \E q \in Slots(l) : l.con[q] = f.con[p]
      /\ \A p \in ProcSlots(l) : \E q \in ProcSlots(s) \ {pid} : l.con[p] = f.con[q]
  BY <1>7, ProcessListRmKeeps
<1> HIDE DEF l
<1>9. Keeps(s, l, dead)
  <2>1. ASSUME NEW x \in Clients \ dead, HasSlot(s, x)
        PROVE  HasSlot(l, x)
    <3>1. PICK p \in Slots(s) : s.con[p] = x
      BY <2>1 DEF HasSlot
    <3>2. p \in ProcSlots(s)
      BY <3>1, ProcTableAssumption DEF ProcSlots
    <3>3. CASE p = pid
      <4>1. f.con[MCP] = x
        BY <1>6, <1>7, <3>1, <3>3
      <4> QED
        BY <1>1, <1>8, <4>1 DEF HasSlot
    <3>4. CASE p # pid
      <4>1. f.con[p] = x
        BY <1>6, <1>7, <3>1, <3>2
      <4> QED
        BY <1>8, <3>4, <4>1 DEF HasSlot
    <3> QED
      BY <3>3, <3>4
  <2>2. \A p \in ProcSlots(l) : \E q \in ProcSlots(s) : l.con[p] = s.con[q]
    BY <1>6, <1>7, <1>8
  <2> QED
    BY <1>8, <2>1, <2>2 DEF Keeps
<1>10. Keeps(l, McpComOut(l, dead), dead)
  BY <1>8, McpComOutKeeps
<1>11. Keeps(s, McpComOut(l, dead), dead \union dead)
  BY <1>9, <1>10, KeepsTrans
<1> QED
  BY <1>4, <1>11

(* At most client x loses its slot in this step while its end is open, and *)
(* it was told, unless the QUIT may go to a dead program.                  *)
DropsOnly(x) ==
  \A c \in Clients : Dropped(c) => c = x /\ ("quit" \notin Faults => c \in srv'.told)

(* Nothing but dead clients, and one that was told, is what DropsOnly      *)
(* asks of a step.                                                         *)
LEMMA KeepsIsNoDrop ==
  ASSUME NEW x, NEW dead \in SUBSET Gone, Keeps(srv, srv', {x} \union dead),
         "quit" \notin Faults => x \in dead \union {NoClient} \union srv'.told
  PROVE  DropsOnly(x)
BY ProcTableAssumption DEF DropsOnly, Dropped, Gone, Keeps, HasSlot, Slots

(* A handler that only writes drops nobody.                                *)
LEMMA WritesDropNobody ==
  ASSUME NEW dead \in SUBSET Gone, Keeps(srv, srv', dead)
  PROVE  DropsOnly(NoClient)
BY KeepsIsNoDrop DEF Keeps

(* event_quit() on its own.                                                *)
LEMMA QuitDropsOne ==
  ASSUME IInv, NEW pid \in Slots(srv), NEW dead \in SUBSET Gone,
         "quit" \notin Faults => QuitIsSafe(srv, pid, dead),
         srv' = EventQuit(srv, pid, dead)
  PROVE  \E x : DropsOnly(x)
<1>1. PICK x : /\ Keeps(srv, srv', {x} \union dead)
               /\ QuitIsSafe(srv, pid, dead) =>
                    x \in dead \union {NoClient} \union srv'.told
  BY EventQuitKeeps DEF IInv, Gone
<1> QED
  BY <1>1, KeepsIsNoDrop

(* A dead MCP has no program's slot: the connection of one is not the      *)
(* MCP's.                                                                  *)
LEMMA DeadInQuit ==
  ASSUME NEW s, Inv(s, {}), NEW pid \in Slots(s),
         NEW dead \in SUBSET Clients, dead \subseteq {s.con[MCP]}
  PROVE  QuitIsSafe(s, pid, dead)
BY SlotsArePids, ProcTableAssumption DEF Inv, Core, Good, SlotsInv, QuitIsSafe

(* Every action but a command before INIT drops one living client at most. *)
LEMMA NextDrops ==
  ASSUME "init" \notin Faults, IInv, Next, \A pid \in Pids : ~EarlyCommand(pid)
  PROVE  \E x : DropsOnly(x)
<1>1. /\ Inv(srv, {}) /\ srv \in Server /\ MCP \in Slots(srv)
      /\ Slots(srv) \subseteq Pids /\ Gone \subseteq Clients
      /\ DeadIn("quit") \subseteq Gone
      /\ "quit" \notin Faults => DeadIn("quit") \subseteq {srv.con[MCP]}
  BY SlotsArePids DEF IInv, Inv, Core, Good, Gone, DeadIn
<1>2. ASSUME NEW c \in Clients, Accept(c)
      PROVE  DropsOnly(NoClient)
  <2>1. \A p \in Slots(srv) : p \in Slots(srv') /\ srv'.con[p] = srv.con[p]
    BY <1>1, <1>2, SlotsArePids DEF Accept, Slots, Server
  <2> QED
    BY <2>1 DEF DropsOnly, Dropped, HasSlot
<1>3. ASSUME NEW c \in Clients, Leave(c)
      PROVE  DropsOnly(NoClient)
  BY <1>3 DEF Leave, DropsOnly, Dropped
<1>4. ASSUME NEW pid \in Pids, HangUp(pid)
      PROVE  DropsOnly(srv.con[pid])
  <2>1. PICK dead \in SUBSET Gone : srv' = ProcessDel(srv, pid, dead)
    BY <1>4 DEF HangUp
  <2>2. Keeps(srv, srv', {srv.con[pid]} \union dead)
    BY <1>1, <1>4, <2>1, ProcessDelKeeps DEF HangUp, InUse
  <2>3. peer[srv.con[pid]] = "closed"
    BY <1>4 DEF HangUp
  <2> QED
    BY <2>2, <2>3 DEF Keeps, DropsOnly, Dropped, Gone
<1>5. ASSUME NEW pid \in Pids, InitApp(pid)
      PROVE  DropsOnly(NoClient)
  <2>1. pid \in ProcSlots(srv) /\ srv.mcp_oid[pid] = -1
    BY <1>5 DEF InitApp, Waiting, InUse, ProcSlots
  <2>2. PICK first \in SUBSET DeadIn("init"), dead \in SUBSET Gone :
          LET s == ProcessSysInit(srv, pid, first)
          IN  /\ first \subseteq dead
              /\ \/ /\ pid \in Slots(s)
                    /\ \E oid \in Oids : /\ FreeOid(s, oid)
                                         /\ srv' = Register(s, pid, oid, dead)
                 \/ /\ pid \notin Slots(s)
                    /\ srv' = Crash(s)
    BY <1>5 DEF InitApp
  <2>3. first \subseteq {srv.con[MCP]} \ {NoClient}
    BY <2>2, ProcTableAssumption DEF DeadIn, Gone
  <2> DEFINE s == McpComOut(srv, first)
  <2>4. ProcessSysInit(srv, pid, first) = s
    BY <1>1, <2>1, <2>3, ProcessSysInitInv
  <2>5. Core(srv, {})
    BY <1>1 DEF Inv
  <2>6. Inv(s, {}) /\ Keeps(srv, s, first)
    BY <1>1, McpComOutInv, McpComOutKeeps
  <2>7. s.procs_n = srv.procs_n /\ s.mcp_oid = srv.mcp_oid
    BY <2>5, McpComOutCore
  <2> HIDE DEF s
  <2>8. pid \in Slots(s) /\ pid \in ProcSlots(s) /\ s.mcp_oid[pid] = -1
    BY <2>1, <2>7 DEF ProcSlots, Slots
  <2>9. PICK oid \in Oids : FreeOid(s, oid) /\ srv' = Register(s, pid, oid, dead)
    BY <2>2, <2>4, <2>8
  <2>10. Keeps(s, srv', dead)
    BY <2>6, <2>8, <2>9, RegisterKeeps
  <2>11. Keeps(srv, srv', first \union dead) /\ first \union dead \in SUBSET Gone
    BY <2>2, <2>6, <2>10, KeepsTrans
  <2> QED
    BY <2>11, WritesDropNobody
<1>6. ASSUME NEW pid \in Pids, InitMcp(pid)
      PROVE  DropsOnly(NoClient)
  BY <1>1, <1>6, TakeMcpPlaceKeeps, WritesDropNobody
  DEF InitMcp, Waiting, InUse, ProcSlots
<1>7. ASSUME NEW pid \in Pids, InitRefused(pid)
      PROVE  \E x : DropsOnly(x)
  <2>1. PICK dead \in SUBSET DeadIn("quit") : srv' = EventQuit(srv, pid, dead)
    BY <1>7 DEF InitRefused
  <2>2. pid \in Slots(srv)
    BY <1>7 DEF InitRefused, Waiting, InUse
  <2> QED
    BY <1>1, <2>1, <2>2, DeadInQuit, QuitDropsOne
<1>8. ASSUME NEW pid \in Pids, Quit(pid)
      PROVE  \E x : DropsOnly(x)
  <2>1. PICK dead \in SUBSET DeadIn("quit") : srv' = EventQuit(srv, pid, dead)
    BY <1>8 DEF Quit
  <2>2. pid \in Slots(srv)
    BY <1>8 DEF Quit, Initialised, InUse
  <2> QED
    BY <1>1, <2>1, <2>2, DeadInQuit, QuitDropsOne
<1>9. ASSUME NEW pid \in Pids, NewObj(pid)
      PROVE  DropsOnly(NoClient)
  BY <1>1, <1>9, ProtComOutKeeps, WritesDropNobody DEF NewObj
<1>10. ASSUME NEW pid \in Pids, CheckBiggest(pid)
       PROVE  DropsOnly(NoClient)
  BY <1>1, <1>10, McpRepObjectKeeps, WritesDropNobody DEF CheckBiggest
<1>11. ASSUME NEW object \in [Oids -> Object],
              NEW dead \in SUBSET Gone,
              srv' = McpComOut([srv EXCEPT !.object = object], dead)
       PROVE  DropsOnly(NoClient)
  <2> DEFINE s == [srv EXCEPT !.object = object]
  <2>1. s \in Server /\ Keeps(srv, s, {})
    BY <1>1, KeepsSlots DEF Server
  <2> HIDE DEF s
  <2>2. Keeps(s, srv', dead)
    BY <1>11, <2>1, McpComOutKeeps DEF s
  <2>3. Keeps(srv, srv', {} \union dead)
    BY <2>1, <2>2, KeepsTrans
  <2> QED
    BY <2>3, WritesDropNobody
<1>12. CASE McpNewObj
  <2>1. PICK dead \in SUBSET Gone, oid \in Oids :
          srv' = McpComOut([srv EXCEPT !.object[oid] = Obj("plain", 0)], dead)
    BY <1>12 DEF McpNewObj
  <2>2. /\ [srv.object EXCEPT ![oid] = Obj("plain", 0)] \in [Oids -> Object]
        /\ [srv EXCEPT !.object[oid] = Obj("plain", 0)]
             = [srv EXCEPT !.object = [srv.object EXCEPT ![oid] = Obj("plain", 0)]]
    BY <1>1 DEF Server, Object, Obj, ObjTypes
  <2> QED
    BY <1>11, <2>1, <2>2
<1>13. ASSUME NEW oid \in Oids, NEW toid \in Oids, McpClone(oid, toid)
       PROVE  DropsOnly(NoClient)
  <2>1. Keeps(srv, srv', {})
    BY <1>1, <1>13, KeepsSlots DEF McpClone, Server
  <2> QED
    BY <2>1, WritesDropNobody
<1>14. ASSUME NEW oid \in Oids, McpDelObj(oid)
       PROVE  \E x : DropsOnly(x)
  <2>1. CASE srv.object[oid].type \in {"plain", "clone"}
    <3>1. Keeps(srv, srv', {})
      BY <1>1, <1>14, <2>1, KeepsSlots DEF McpDelObj, Server
    <3> QED
      BY <3>1, WritesDropNobody
  <2>2. CASE srv.object[oid].type = "virtual"
    <3>1. srv.object[oid].ref \in Slots(srv)
      BY <1>1, <2>2 DEF Inv, Core, MatchInv, ProcSlots, Virtuals
    <3>2. PICK dead \in SUBSET DeadIn("quit") :
            srv' = EventQuit(srv, srv.object[oid].ref, dead)
      BY <1>14, <2>2, <3>1 DEF McpDelObj
    <3> QED
      BY <1>1, <3>1, <3>2, DeadInQuit, QuitDropsOne
  <2> QED
    BY <1>14, <2>1, <2>2 DEF McpDelObj
<1>15. ASSUME NEW oid, FocusCommand(oid)
       PROVE  DropsOnly(NoClient)
  BY <1>1, <1>15, McpFocusKeeps, WritesDropNobody DEF FocusCommand
<1>16. CASE InputEvent
  BY <1>1, <1>16, InputKeeps, WritesDropNobody DEF InputEvent
<1>17. CASE ShutDown
  <2>1. Keeps(srv, srv', {})
    BY <1>1, <1>17, KeepsSlots DEF ShutDown, Server
  <2> QED
    BY <2>1, WritesDropNobody
<1>18. CASE QuitLast
  <2> DEFINE pid == srv.procs_n - 1
  <2>1. PICK dead \in SUBSET Gone :
          srv' = IF pid = MCP THEN [EventQuit(srv, pid, dead) EXCEPT !.status = "stopped"]
                 ELSE EventQuit(srv, pid, dead)
    BY <1>18 DEF QuitLast
  <2> DEFINE s == EventQuit(srv, pid, dead)
  <2>2. pid \in Slots(srv)
    BY <1>1, SlotsArePids DEF Slots
  <2>3. Inv(s, {}) /\ QuitIsSafe(srv, pid, dead)
    BY <1>1, <2>2, EventQuitInv DEF QuitIsSafe
  <2>4. PICK x : Keeps(srv, s, {x} \union dead) /\ x \in dead \union {NoClient} \union s.told
    BY <1>1, <2>2, <2>3, EventQuitKeeps
  <2>5. srv' = s \/ srv' = [s EXCEPT !.status = "stopped"]
    BY <2>1
  <2> HIDE DEF s
  <2>6. Keeps(s, srv', {}) /\ srv'.told = s.told
    BY <2>3, <2>5, KeepsSlots DEF Inv, Core, Good, Server
  <2>7. Keeps(srv, srv', ({x} \union dead) \union {})
    BY <2>4, <2>6, KeepsTrans
  <2>8. DropsOnly(x)
    BY <2>4, <2>6, <2>7, KeepsIsNoDrop
  <2> QED
    BY <2>8
<1> QED
  BY <1>2, <1>3, <1>4, <1>5, <1>6, <1>7, <1>8, <1>9, <1>10, <1>12, <1>13,
     <1>14, <1>15, <1>16, <1>17, <1>18 DEF Next

(* A command before INIT is carried out on the process that moved into the *)
(* slot.  It may end that one too, but not without telling it.             *)
LEMMA EarlyTells ==
  ASSUME "quit" \notin Faults, IInv, NEW pid \in Pids, EarlyCommand(pid)
  PROVE  \A c \in Clients : Dropped(c) => c \in srv'.told
<1>1. /\ Inv(srv, {}) /\ srv \in Server /\ MCP \in Slots(srv)
      /\ DeadIn("quit") \subseteq {srv.con[MCP]} /\ DeadIn("quit") \subseteq Gone
      /\ Gone \subseteq Clients
      /\ pid \in ProcSlots(srv)
  BY SlotsArePids
  DEF IInv, Inv, Core, Good, Gone, DeadIn, EarlyCommand, Waiting, InUse, ProcSlots
<1>2. PICK dead \in SUBSET DeadIn("quit") :
        LET s == EventQuit(srv, pid, dead)
        IN  \/ srv' = IF pid \in Slots(s) THEN EventQuit(s, pid, dead) ELSE s
            \/ srv' = IF pid \in Slots(s) THEN ProtComOut(s, pid, dead) ELSE s
  BY DEF EarlyCommand
<1> DEFINE s == EventQuit(srv, pid, dead)
<1>3. Inv(s, {})
  BY <1>1, EventQuitInv DEF ProcSlots
<1>4. PICK x : Keeps(srv, s, {x} \union dead) /\ x \in dead \union {NoClient} \union s.told
  BY <1>1, <1>2, DeadInQuit, EventQuitKeeps DEF ProcSlots
<1>5. \/ srv' = s
      \/ pid \in Slots(s) /\ srv' = EventQuit(s, pid, dead)
      \/ pid \in Slots(s) /\ srv' = ProtComOut(s, pid, dead)
  BY <1>2
<1> HIDE DEF s
<1>6. \A c \in Clients : Dropped(c) => c \notin dead
  BY <1>1 DEF Dropped, Gone
<1>7. \A c \in Clients : Dropped(c) => HasSlot(srv, c) /\ ~HasSlot(srv', c)
  BY DEF Dropped, HasSlot, Slots
<1>8. \A c \in Clients \ dead : HasSlot(srv, c) /\ ~HasSlot(s, c) => c \in s.told
  BY <1>4, ProcTableAssumption DEF Keeps
<1>9. CASE srv' = s
  BY <1>6, <1>7, <1>8, <1>9
<1>10. CASE pid \in Slots(s) /\ srv' = ProtComOut(s, pid, dead)
  <2>1. Keeps(s, srv', dead)
    BY <1>3, <1>10, ProtComOutKeeps
  <2> QED
    BY <1>6, <1>7, <1>8, <2>1 DEF Keeps
<1>11. CASE pid \in Slots(s) /\ srv' = EventQuit(s, pid, dead)
  <2>1. pid \in ProcSlots(s) /\ s.con[pid] # NoClient
    BY <1>1, <1>3, <1>11 DEF ProcSlots, Inv, Core, SlotsInv
  <2>2. PICK q \in ProcSlots(srv) : s.con[pid] = srv.con[q]
    BY <1>4, <2>1 DEF Keeps
  <2>3. srv.con[q] # srv.con[MCP]
    BY <1>1, <2>1, <2>2 DEF ProcSlots, Inv, Core, SlotsInv
  <2>4. s.con[pid] \notin dead
    BY <1>1, <1>2, <2>2, <2>3
  <2>5. PICK y : /\ Keeps(s, srv', {y} \union dead)
                 /\ y \in dead \union {NoClient} \union srv'.told
    BY <1>1, <1>2, <1>3, <1>11, <2>4, EventQuitKeeps DEF QuitIsSafe
  <2>6. \A c \in Clients \ dead : HasSlot(s, c) /\ ~HasSlot(srv', c) => c \in srv'.told
    BY <2>5, ProcTableAssumption DEF Keeps
  <2> QED
    BY <1>6, <1>7, <1>8, <2>5, <2>6 DEF Keeps
<1> QED
  BY <1>5, <1>9, <1>10, <1>11

(* A client whose end is open is told before it loses its slot, whatever   *)
(* connections fail, rude clients included, as long as no QUIT is written  *)
(* to a dead program (the finding on event_quit()).                        *)
THEOREM NobodyDroppedSilently ==
  ASSUME "init" \notin Faults, "quit" \notin Faults
  PROVE  Spec => NoSilentDrop
<1>1. IInv /\ [Next]_vars => [\A c \in Clients : Dropped(c) => c \in srv'.told]_vars
  <2> SUFFICES ASSUME IInv, Next PROVE \A c \in Clients : Dropped(c) => c \in srv'.told
    OBVIOUS
  <2>1. CASE \E pid \in Pids : EarlyCommand(pid)
    BY <2>1, EarlyTells
  <2>2. CASE \A pid \in Pids : ~EarlyCommand(pid)
    BY <2>2, NextDrops DEF DropsOnly
  <2> QED
    BY <2>1, <2>2
<1> QED
  BY <1>1, Invariant, PTL DEF Spec, NoSilentDrop

(* One command ends one living client at most, even where process_del() is *)
(* called twice, from clients that send no command before INIT.            *)
THEOREM OneDroppedAtATime ==
  ASSUME "init" \notin Faults, "early" \notin Faults
  PROVE  Spec => OneDropPerStep
<1>1. IInv /\ [Next]_vars => [\A c, d \in Clients : Dropped(c) /\ Dropped(d) => c = d]_vars
  <2> SUFFICES ASSUME IInv, Next
               PROVE  \A c, d \in Clients : Dropped(c) /\ Dropped(d) => c = d
    OBVIOUS
  <2>1. PICK x : DropsOnly(x)
    BY NextDrops DEF EarlyCommand
  <2> QED
    BY <2>1 DEF DropsOnly
<1> QED
  BY <1>1, Invariant, PTL DEF Spec, OneDropPerStep

=============================================================================
