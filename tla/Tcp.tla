-------------------------------- MODULE Tcp --------------------------------
(* The server and its programs on TCP sockets. Both sides look at a socket     *)
(* only when SIGIO has raised a flag, and both clear the flag after they have  *)
(* read, so that a signal may be lost; both write with blocking calls. A       *)
(* command arrives in two parts, for the server reads its head and its body.   *)
EXTENDS Integers, Sequences

CONSTANTS
    Clients,
    BUF         \* the commands, or the events, a socket's buffer holds

VARIABLES
    at,         \* where the server is: "top", "main", "port", "poll", "serve", "write" or "reset"
    back,       \* where it goes on after the write
    cur,        \* whom it writes to
    sigio, turn,
    found,      \* the sockets of this select() that are still to be read
    backlog, open,      \* the connections not accepted yet, and the entries in the table
    pc,         \* each program: "new", "run", "write", "full", "check", "reset" or "closed"
    up,         \* the parts of commands that wait at the server
    down,       \* the events that wait at the program
    s3d_sigio

vars == <<at, back, cur, sigio, turn, found, backlog, open, pc, up, down, s3d_sigio>>
server == <<at, back, cur, turn, found, open>>
programs == <<pc, up, down, s3d_sigio>>

Init == /\ at = "top" /\ back = "top" /\ cur \in Clients
        /\ sigio = FALSE /\ turn = FALSE /\ found = {}
        /\ backlog = <<>> /\ open = {}
        /\ pc = [c \in Clients |-> "new"]
        /\ up = [c \in Clients |-> 0] /\ down = [c \in Clients |-> 0]
        /\ s3d_sigio = [c \in Clients |-> FALSE]

-----------------------------------------------------------------------------
(* server/network.c and server/tcp.c                                           *)

\* user_main() may have an event for some program; then comes network_main().
User ==
    /\ at = "top"
    /\ \/ at' = "main" /\ UNCHANGED <<back, cur>>
       \/ at' = "write" /\ back' = "main" /\ cur' \in open
    /\ UNCHANGED <<sigio, turn, found, backlog, open>> /\ UNCHANGED programs

network_main ==
    /\ at = "main"
    /\ turn' = TRUE
    /\ at' = IF sigio THEN "port" ELSE "top"
    /\ UNCHANGED <<back, cur, sigio, found, backlog, open>> /\ UNCHANGED programs

\* One connection is accepted, however many there are.
tcp_pollport ==
    /\ at = "port" /\ at' = "poll"
    /\ IF backlog = <<>> THEN UNCHANGED <<backlog, open>>
       ELSE backlog' = Tail(backlog) /\ open' = open \cup {Head(backlog)}
    /\ UNCHANGED <<back, cur, sigio, turn, found>> /\ UNCHANGED programs

\* Variant: a socket that was closed is not found.
ReadableOpen == {c \in open : up[c] > 0}
Readable == {c \in open : up[c] > 0 \/ pc[c] = "closed"}
tcp_pollproc ==
    /\ at = "poll"
    /\ found' = IF turn THEN Readable ELSE {}
    /\ at' = IF found' = {} THEN "reset" ELSE "serve"
    /\ UNCHANGED <<back, cur, sigio, turn, backlog, open>> /\ UNCHANGED programs

\* The timer of network_main(): 50 ms are over.
net_turn_off == /\ at \in {"poll", "serve", "write"} /\ back # "main" /\ turn
                /\ turn' = FALSE
                /\ UNCHANGED <<at, back, cur, sigio, found, backlog, open>> /\ UNCHANGED programs

After(left) == IF left = {} THEN "poll" ELSE "serve"

\* tcp_prot_com_in(): the read waits for the second part. When the program is gone, the first
\* part alone is carried out too; the entry is deleted when not even that is there.
tcp_prot_com_in(c) ==
    /\ at = "serve" /\ c \in found
    /\ up[c] # 1 \/ pc[c] = "closed"
    /\ found' = found \ {c}
    /\ IF up[c] = 0
       THEN open' = open \ {c} /\ at' = After(found') /\ UNCHANGED <<up, back, cur>>
       ELSE /\ up' = [up EXCEPT ![c] = IF @ = 1 THEN 0 ELSE @ - 2]
            /\ \/ at' = After(found') /\ UNCHANGED <<back, cur>>
               \/ at' = "write" /\ back' = After(found') /\ cur' = c
            /\ UNCHANGED open
    /\ UNCHANGED <<sigio, turn, backlog, pc, down, s3d_sigio>>

\* Variant: it waits for room even when the program is gone.
WriteWaits ==
    /\ at = "write" /\ at' = back /\ back' = "top"
    /\ down[cur] < BUF
    /\ down' = [down EXCEPT ![cur] = @ + 1]
    /\ s3d_sigio' = [s3d_sigio EXCEPT ![cur] = TRUE]
    /\ UNCHANGED <<pc, up, cur, sigio, turn, found, backlog, open>>
\* tcp_writen(): it waits for room, unless the program is gone.
tcp_writen ==
    /\ at = "write" /\ at' = back /\ back' = "top"
    /\ IF pc[cur] = "closed" THEN UNCHANGED programs
       ELSE /\ down[cur] < BUF
            /\ down' = [down EXCEPT ![cur] = @ + 1]
            /\ s3d_sigio' = [s3d_sigio EXCEPT ![cur] = TRUE]
            /\ UNCHANGED <<pc, up>>
    /\ UNCHANGED <<cur, sigio, turn, found, backlog, open>>

\* A signal that came since the last select() is lost here.
Reset == /\ at = "reset" /\ at' = "top" /\ sigio' = FALSE
         /\ UNCHANGED <<back, cur, turn, found, backlog, open>> /\ UNCHANGED programs

-----------------------------------------------------------------------------
(* libs3d/network.c and libs3d/tcp.c                                           *)

Go(c, from, to) == pc[c] = from /\ pc' = [pc EXCEPT ![c] = to] /\ UNCHANGED server

\* _tcp_init(): the listening socket raises SIGIO.
tcp_init(c) == /\ Go(c, "new", "run")
                /\ backlog' = Append(backlog, c) /\ sigio' = TRUE
                /\ UNCHANGED <<up, down, s3d_sigio>>

\* net_send(): data on a socket that is accepted raises SIGIO.
Arrive(c) == /\ up[c] < 2 * BUF
             /\ up' = [up EXCEPT ![c] = @ + 1]
             /\ sigio' = (sigio \/ c \in open)
             /\ UNCHANGED <<backlog, down, s3d_sigio>>
BeginWrite(c) ==
    /\ pc[c] \in {"run", "full"} /\ UNCHANGED server
    /\ IF up[c] + 2 <= 2 * BUF
       THEN pc' = [pc EXCEPT ![c] = "write"] /\ Arrive(c)
       ELSE /\ pc' = [pc EXCEPT ![c] = "full"]
            /\ UNCHANGED <<backlog, sigio, up, down, s3d_sigio>>
EndWrite(c) == Go(c, "write", "run") /\ Arrive(c)

s3d_net_check(c) == /\ s3d_sigio[c] /\ Go(c, "run", "check")
                    /\ UNCHANGED <<backlog, sigio, up, down, s3d_sigio>>
Receive(c) ==
    /\ Go(c, "check", IF down[c] = 0 THEN "reset" ELSE "check")
    /\ down' = [down EXCEPT ![c] = IF @ = 0 THEN 0 ELSE @ - 1]
    /\ UNCHANGED <<backlog, sigio, up, s3d_sigio>>
ClearFlag(c) == /\ Go(c, "reset", "run")
                /\ s3d_sigio' = [s3d_sigio EXCEPT ![c] = FALSE]
                /\ UNCHANGED <<backlog, sigio, up, down>>

\* s3d_quit(), or the program dies, also in the middle of a command.
Close(c) == /\ pc[c] \notin {"new", "closed"}
            /\ pc' = [pc EXCEPT ![c] = "closed"]
            /\ sigio' = (sigio \/ c \in open)
            /\ UNCHANGED server /\ UNCHANGED <<backlog, up, down, s3d_sigio>>

ServerStep == \/ User \/ network_main \/ tcp_pollport \/ tcp_pollproc \/ tcp_writen \/ Reset
              \/ \E c \in Clients : tcp_prot_com_in(c)
LibraryStep(c) == EndWrite(c) \/ s3d_net_check(c) \/ Receive(c) \/ ClearFlag(c)
Next == \/ ServerStep \/ net_turn_off
        \/ \E c \in Clients : LibraryStep(c) \/ tcp_init(c) \/ BeginWrite(c) \/ Close(c)

\* The server's loop goes round and its timer fires; a write that was begun goes on when there is room; a program
\* that is alive comes to s3d_net_check(), in s3d_mainloop() at least.
Spec == /\ Init /\ [][Next]_vars
        /\ WF_vars(ServerStep) /\ WF_vars(net_turn_off)
        /\ \A c \in Clients : SF_vars(s3d_net_check(c))
                              /\ WF_vars(EndWrite(c) \/ (pc[c] = "full" /\ BeginWrite(c)))
                              /\ WF_vars(Receive(c) \/ ClearFlag(c))

-----------------------------------------------------------------------------
\* The program is not told any more of the events that fill its buffer: the signal of the last
\* came after it had looked for the last time, and before it cleared the flag.
Blind(c) == down[c] = BUF /\ ~s3d_sigio[c]
\* The program waits itself for the server to read.
Floods(c) == down[c] = BUF /\ pc[c] = "full"

\* Signals get lost, connections come in bursts and the timer cuts a pass short; but as long
\* as there are signals again and again, from whichever program, and the server is not held up
\* in a write for ever, every connection is accepted, every program with commands unread is
\* read again, and every program that is gone leaves the table.
Served == []<>sigio /\ []<>(at # "write") => \A c \in Clients :
    /\ []<>(\A i \in DOMAIN backlog : backlog[i] # c)
    /\ []<>(c \notin open \/ up[c] < 2) \/ []<><<tcp_prot_com_in(c)>>_vars
    /\ (c \in open /\ pc[c] = "closed") ~> c \notin open

\* A write of the server comes to an end, or the program it is for is blind, or waits for the
\* server itself: one more event, or one more command, than the buffers hold is all it takes,
\* and there is no third way.
WriteEnds == []<>(at # "write") \/ <>[](at = "write" /\ (Blind(cur) \/ Floods(cur)))

\* A lost signal costs a program no event that it was not to read anyway: with the next one it
\* reads all that is there, unless a write of its own does not come to an end.
EventsRead == \A c \in Clients :
    []<>s3d_sigio[c] /\ []<>(pc[c] = "run") => []<>(down[c] = 0)

\* What the loop of the server promises to programs on TCP, and where it stops to.
SocketsGoOn == Served /\ WriteEnds /\ EventsRead
=============================================================================
