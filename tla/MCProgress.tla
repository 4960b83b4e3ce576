----------------------------- MODULE MCProgress -----------------------------
(* What has to go on, for TLC: the server and its programs on TCP sockets      *)
(* (Sockets), the call for a new object in libs3d (Queue), and the jobs of the *)
(* file manager s3dfm (Jobs). A behaviour picks one in its first state.        *)
EXTENDS Integers, Sequences

CONSTANTS
    Clients, BUF,               \* the sockets
    MAX_REQ, TIMEOUT, MaxCalls, \* the call for an object
    Files, MaxJobs, MaxErrs     \* the jobs

VARIABLES
    on,         \* "sockets", "queue" or "jobs"
    place, back, cur, sigio, turn, found, backlog, open, pc, up, down, s3d_sigio,
    queue, requested, calls, looks, held, toServer, fromServer, made,
    fs_lock, fp, pos, worker, at, fs_err, windows, typeinput, detached, tree, files, jobs, errs, missed

socketvars == <<place, back, cur, sigio, turn, found, backlog, open, pc, up, down, s3d_sigio>>
queuevars  == <<queue, requested, calls, looks, held, toServer, fromServer, made>>
jobvars    == <<fs_lock, fp, pos, worker, at, fs_err, windows, typeinput, detached, tree, files, jobs, errs, missed>>
allvars    == <<on, socketvars, queuevars, jobvars>>

Sockets == INSTANCE Tcp WITH at <- place
Queue == INSTANCE ObjQueue
Jobs == INSTANCE FileJobs WITH thread <- worker, disk <- files

-----------------------------------------------------------------------------
ProgressInit == on \in {"sockets", "queue", "jobs"} /\ Sockets!Init /\ Queue!Init /\ Jobs!Init

SocketsTurn == on = "sockets" /\ UNCHANGED <<on, queuevars, jobvars>>
QueueTurn == on = "queue" /\ UNCHANGED <<on, socketvars, jobvars>>
JobsTurn == on = "jobs" /\ UNCHANGED <<on, socketvars, queuevars>>

ProgressNext ==
    \/ SocketsTurn /\ Sockets!User
    \/ SocketsTurn /\ Sockets!network_main
    \/ SocketsTurn /\ Sockets!tcp_pollport
    \/ SocketsTurn /\ Sockets!tcp_pollproc
    \/ SocketsTurn /\ Sockets!net_turn_off
    \/ SocketsTurn /\ Sockets!tcp_writen
    \/ SocketsTurn /\ Sockets!Reset
    \/ \E c \in Clients :
        \/ SocketsTurn /\ Sockets!tcp_prot_com_in(c)
        \/ SocketsTurn /\ Sockets!tcp_init(c)
        \/ SocketsTurn /\ Sockets!BeginWrite(c)
        \/ SocketsTurn /\ Sockets!EndWrite(c)
        \/ SocketsTurn /\ Sockets!s3d_net_check(c)
        \/ SocketsTurn /\ Sockets!Receive(c)
        \/ SocketsTurn /\ Sockets!ClearFlag(c)
        \/ SocketsTurn /\ Sockets!Close(c)
    \/ QueueTurn /\ Queue!MainLoop
    \/ QueueTurn /\ Queue!Call
    \/ QueueTurn /\ Queue!WantTake
    \/ QueueTurn /\ Queue!WantLook
    \/ QueueTurn /\ Queue!WantFail
    \/ QueueTurn /\ Queue!DelObject
    \/ QueueTurn /\ Queue!Server
    \/ QueueTurn /\ Queue!ServerQuit
    \/ JobsTurn /\ \E f \in Files : Jobs!Select(f)
    \/ JobsTurn /\ \E type \in {"COPY", "UNLINK"} : Jobs!window_job(type)
    \/ JobsTurn /\ Jobs!window_mkdir
    \/ JobsTurn /\ Jobs!window_fs
    \/ JobsTurn /\ Jobs!window_fs_abort
    \/ JobsTurn /\ Jobs!window_fs_confirm_error
    \/ JobsTurn /\ Jobs!window_fsani
    \/ JobsTurn /\ Jobs!thread_start

\* The fairness of each module, for the one that is on.
ProgressSpec ==
    /\ ProgressInit /\ [][ProgressNext]_allvars
    /\ WF_allvars(SocketsTurn /\ Sockets!ServerStep) /\ WF_allvars(SocketsTurn /\ Sockets!net_turn_off)
    /\ \A c \in Clients :
        /\ SF_allvars(SocketsTurn /\ Sockets!s3d_net_check(c))
        /\ WF_allvars(SocketsTurn /\ (Sockets!EndWrite(c) \/ (pc[c] = "full" /\ Sockets!BeginWrite(c))))
        /\ WF_allvars(SocketsTurn /\ (Sockets!Receive(c) \/ Sockets!ClearFlag(c)))
    /\ WF_allvars(QueueTurn /\ Queue!WantTake) /\ WF_allvars(QueueTurn /\ Queue!WantLook)
    /\ WF_allvars(QueueTurn /\ Queue!WantFail)
    /\ WF_allvars(JobsTurn /\ Jobs!window_fsani) /\ WF_allvars(JobsTurn /\ Jobs!thread_start)
    /\ SF_allvars(JobsTurn /\ Jobs!window_fs_confirm_error)

-----------------------------------------------------------------------------
\* What the server promises to programs on TCP while signals come and no write holds it up, the
\* two ways a write of it may come to hold it up for ever, and that a lost signal is made good
\* by the next.
SocketsGoOn == Sockets!SocketsGoOn

\* Whatever the server does s3d_new_object() returns, and whatever fails on the way a job of
\* s3dfm that was started comes to its end and gives up the lock.
ProgramsGoOn == Queue!CallReturns /\ Jobs!JobEnds
=============================================================================
