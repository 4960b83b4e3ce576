------------------------------ MODULE EventLoop ------------------------------
(***************************************************************************)
(* How libs3d hands the events of the server to a program: event.c,        *)
(* callback.c, the main loop and the life cycle in io.c, the receiving     *)
(* loop of network.c.                                                      *)
(*                                                                         *)
(* There is one thread, but its functions call each other: a callback may  *)
(* ask for an object and so read the socket, what is read may be an event, *)
(* and an event may call a callback.  frames is the stack of the functions *)
(* under way, the running one last:                                        *)
(*   init   s3d_init(), waiting      recv   s3d_net_check()                *)
(*   main   the program's main()     stack  the loop of s3d_process_stack()*)
(*   loop   s3d_mainloop()           f, cb  its function, a callback       *)
(*   want   s3d_new_object(), waiting for an object                        *)
(* A function that is to run after the one it calls lies below it.         *)
(***************************************************************************)
EXTENDS Integers, Sequences

CONSTANTS
  Kinds,        \* the kinds of events the server sends
  S_INIT, QUIT, \* the packets S3D_P_S_INIT, S3D_P_S_QUIT; S3D_EVENT_QUIT
  MaxEvents,    \* bound: events the server sends
  MaxCalls,     \* bound: calls the program makes
  MaxTries,     \* how often s3d_init() looks for INIT, 100
  Uses          \* what the program and the server are admitted to do

(* A program makes objects in the function of its main loop; "new": also   *)
(* in its main() and its callbacks.  "poll", "set", "quit": the function   *)
(* of the main loop and the callbacks look for packets, set callbacks,     *)
(* call s3d_quit(), which main() may do anyway.                            *)
(* "bye": the server sends a QUIT or vanishes, which the client takes for  *)
(* the same.                                                               *)
ASSUME EventLoopAssumption ==
  /\ S_INIT \notin Kinds /\ QUIT \notin Kinds /\ S_INIT # QUIT
  /\ MaxEvents \in Nat /\ MaxCalls \in Nat /\ MaxTries \in Nat
  /\ Uses \subseteq {"new", "poll", "set", "quit", "bye"}

VARIABLES
  wire,         \* the packets on their way to the client
  count,        \* the events the server has sent
  open,         \* the server has not closed the connection
  con,          \* con_type # CON_NULL
  ready,        \* _s3d_ready
  tries,        \* the counter in s3d_init()
  cb_lock,
  s3d_stack,    \* the queue of events
  s3d_cb_list,  \* what is done with each kind: "nil", "ignore" or "user"
  frames,
  calls,        \* calls the program has made
  ran,          \* history: the events callbacks were called for
  ignored       \* history: the events that came while they were ignored

vars == <<wire, count, open, con, ready, tries, cb_lock, s3d_stack, s3d_cb_list,
          frames, calls, ran, ignored>>
server == <<wire, count, open>>
history == <<ran, ignored>>

Event == [kind: Kinds \union {QUIT}, n: 0 .. MaxEvents]
Packet == [kind: Kinds \union {S_INIT, QUIT}, n: 0 .. MaxEvents]
Bare(kind) == [kind |-> kind, n |-> 0]
OnTheWay(kind) == \E i \in 1 .. Len(wire) : wire[i].kind = kind
Frame == {"init", "main", "loop", "recv", "want", "stack", "f", "cb"}

Running(what) == frames # <<>> /\ frames[Len(frames)] \in what
Below == SubSeq(frames, 1, Len(frames) - 1)
User == {"main", "f", "cb"}
May(use) == Running(IF use \in Uses THEN User ELSE {"main"})
-----------------------------------------------------------------------------
(* The library *)

\* mutant: an off-by-one in the look at the lock
ProcessStackNever(lock) == IF lock >= 0 THEN <<>> ELSE <<"stack">>

(* s3d_process_stack() with the given lock: nothing, if that is taken. *)
ProcessStack(lock) == IF lock > 0 THEN <<>> ELSE <<"stack">>

(* A callback is called.  _s3d_ignore() returns at once. *)
Call(e, base) ==
  IF s3d_cb_list[e.kind] = "user"
  THEN /\ cb_lock' = cb_lock + 1 /\ frames' = Append(base, "cb")
       /\ ran' = IF e.kind = QUIT THEN ran ELSE Append(ran, e)
  ELSE UNCHANGED <<cb_lock, ran>> /\ frames' = base

\* mutant: the lock is not looked at
PushEventAlways(e) ==
  /\ IF s3d_cb_list[e.kind] # "nil"
     THEN Call(e, frames) /\ UNCHANGED s3d_stack
     ELSE /\ s3d_stack' = Append(s3d_stack, e)
          /\ UNCHANGED <<cb_lock, ran, frames>>
  /\ ignored' = IF s3d_cb_list[e.kind] = "ignore" THEN ignored \union {e.n} ELSE ignored

\* mutant: the newest first
PushEventFront(e) ==
  /\ IF cb_lock = 0 /\ s3d_cb_list[e.kind] # "nil"
     THEN Call(e, frames) /\ UNCHANGED s3d_stack
     ELSE /\ s3d_stack' = <<e>> \o s3d_stack
          /\ UNCHANGED <<cb_lock, ran, frames>>
  /\ ignored' = IF s3d_cb_list[e.kind] = "ignore" THEN ignored \union {e.n} ELSE ignored

(* s3d_push_event(): straight to the callback if none is running *)
PushEvent(e) ==
  /\ IF cb_lock = 0 /\ s3d_cb_list[e.kind] # "nil"
     THEN Call(e, frames) /\ UNCHANGED s3d_stack
     ELSE /\ s3d_stack' = Append(s3d_stack, e)
          /\ UNCHANGED <<cb_lock, ran, frames>>
  /\ ignored' = IF s3d_cb_list[e.kind] = "ignore" THEN ignored \union {e.n} ELSE ignored

\* mutant: the queue is not cleared
QuitKeepsQueue ==
  IF con /\ ready
  THEN /\ con' = FALSE /\ ready' = FALSE
       /\ \/ /\ s3d_cb_list[QUIT] = "user"
             /\ cb_lock' = 1 /\ UNCHANGED s3d_stack /\ frames' = Append(frames, "cb")
          \/ /\ s3d_cb_list[QUIT] = "ignore"
             /\ cb_lock' = 0 /\ UNCHANGED <<s3d_stack, frames>>
          \/ /\ s3d_cb_list[QUIT] = "nil"
             /\ cb_lock' = 0 /\ s3d_stack' = Append(s3d_stack, Bare(QUIT)) /\ UNCHANGED frames
  ELSE UNCHANGED <<con, ready, cb_lock, s3d_stack, frames>>

(* s3d_quit(): the queue is cleared, the lock is reset and the QUIT event  *)
(* pushed.                                                                 *)
S3dQuit ==
  IF con /\ ready
  THEN /\ con' = FALSE /\ ready' = FALSE
       /\ \/ /\ s3d_cb_list[QUIT] = "user"
             /\ cb_lock' = 1 /\ s3d_stack' = <<>> /\ frames' = Append(frames, "cb")
          \/ /\ s3d_cb_list[QUIT] = "ignore"
             /\ cb_lock' = 0 /\ s3d_stack' = <<>> /\ UNCHANGED frames
          \/ /\ s3d_cb_list[QUIT] = "nil"
             /\ cb_lock' = 0 /\ s3d_stack' = <<Bare(QUIT)>> /\ UNCHANGED frames
  ELSE UNCHANGED <<con, ready, cb_lock, s3d_stack, frames>>
-----------------------------------------------------------------------------
(* Actions *)

Init ==
  /\ wire = <<>> /\ count = 0
  /\ open = TRUE /\ con = TRUE /\ ready = FALSE /\ tries = 0
  /\ cb_lock = 1                        \* s3d_init(), after INIT was sent
  /\ s3d_stack = <<>>
  /\ \E S \in SUBSET Kinds :           \* the kinds ignored by default
       s3d_cb_list = [k \in Kinds \union {QUIT} |-> IF k \in S THEN "ignore" ELSE "nil"]
  /\ frames = <<"init">> /\ calls = 0
  /\ ran = <<>> /\ ignored = {}

(* The server tells a program about its objects even before it answers     *)
(* INIT, and closes the connection after a QUIT.                           *)
Send(p) == open /\ con /\ wire' = Append(wire, p)
client == <<con, ready, tries, cb_lock, s3d_stack, s3d_cb_list, frames, calls>>

SendInit ==
  /\ ~ready /\ ~OnTheWay(S_INIT) /\ Send(Bare(S_INIT))
  /\ UNCHANGED <<count, open, client, history>>

SendEvent(k) ==
  /\ count < MaxEvents /\ count' = count + 1
  /\ Send([kind |-> k, n |-> count'])
  /\ UNCHANGED <<open, client, history>>

SendQuit ==
  /\ "bye" \in Uses /\ Send(Bare(QUIT)) /\ open' = FALSE
  /\ UNCHANGED <<count, client, history>>

(* s3d_init() has read INIT, looks again, or gives up. *)
InitWait ==
  /\ Running({"init"})
  /\ \/ ready /\ cb_lock' = cb_lock - 1 /\ frames' = <<"main">> /\ UNCHANGED tries
     \/ /\ ~ready /\ tries < MaxTries /\ tries' = tries + 1
        /\ frames' = Append(frames, "recv") /\ UNCHANGED cb_lock
     \/ ~ready /\ tries = MaxTries /\ frames' = <<>> /\ UNCHANGED <<cb_lock, tries>>
  /\ UNCHANGED <<server, con, ready, s3d_stack, s3d_cb_list, calls, history>>

(* _shm_net_receive(), _s3d_tcp_net_receive() with net_prot_in() *)
Receive ==
  /\ Running({"recv"}) /\ con /\ wire # <<>>
  /\ wire' = Tail(wire)
  /\ \/ /\ Head(wire).kind = S_INIT /\ ready' = TRUE
        /\ UNCHANGED <<con, cb_lock, s3d_stack, frames, history>>
     \/ /\ Head(wire).kind = QUIT /\ S3dQuit
        /\ UNCHANGED history
     \/ /\ Head(wire).kind \in Kinds /\ PushEvent(Head(wire))
        /\ UNCHANGED <<con, ready>>
  /\ UNCHANGED <<count, open, tries, s3d_cb_list, calls>>

(* There is nothing more to read: s3d_net_check() looks at the queue. *)
ReceiveDone ==
  /\ Running({"recv"}) /\ (~con \/ wire = <<>>)
  /\ frames' = Below \o ProcessStack(cb_lock)
  /\ UNCHANGED <<server, con, ready, tries, cb_lock, s3d_stack, s3d_cb_list, calls, history>>

(* One round of s3d_process_stack().  An event without a callback is gone. *)
PopEvent ==
  /\ Running({"stack"})
  /\ \/ /\ s3d_stack = <<>> /\ frames' = Below
        /\ UNCHANGED <<cb_lock, s3d_stack, ran>>
     \/ /\ s3d_stack # <<>> /\ s3d_stack' = Tail(s3d_stack)
        /\ Call(Head(s3d_stack), frames)
  /\ UNCHANGED <<server, con, ready, tries, s3d_cb_list, calls, ignored>>

\* mutant: the main loop does not look whether there is a connection
LoopForever ==
  /\ Running({"loop"})
  /\ cb_lock' = cb_lock + 1 /\ frames' = Append(frames, "f")
  /\ UNCHANGED <<server, con, ready, tries, s3d_stack, s3d_cb_list, calls, history>>

(* s3d_mainloop() calls its function or ends. *)
Loop ==
  /\ Running({"loop"})
  /\ \/ con /\ cb_lock' = cb_lock + 1 /\ frames' = Append(frames, "f")
     \/ ~con /\ frames' = Below /\ UNCHANGED cb_lock
  /\ UNCHANGED <<server, con, ready, tries, s3d_stack, s3d_cb_list, calls, history>>

\* mutant: the lock of a callback is not given back
ReturnLocked ==
  /\ \/ /\ Running({"f"}) /\ cb_lock' = cb_lock - 1
        /\ frames' = Below \o <<"recv">> \o ProcessStack(cb_lock')
     \/ /\ Running({"want"}) /\ cb_lock' = cb_lock - 1 /\ frames' = Below
     \/ /\ Running({"cb"}) /\ UNCHANGED cb_lock /\ frames' = Below
  /\ UNCHANGED <<server, con, ready, tries, s3d_stack, s3d_cb_list, calls, history>>

(* The function of the main loop returns, and the loop goes on to the      *)
(* queue and the socket; a callback returns to what called it, and         *)
(* s3d_new_object() to the program.                                        *)
Return ==
  /\ \/ /\ Running({"f"}) /\ cb_lock' = cb_lock - 1
        /\ frames' = Below \o <<"recv">> \o ProcessStack(cb_lock')
     \/ /\ Running({"cb", "want"}) /\ cb_lock' = cb_lock - 1 /\ frames' = Below
  /\ UNCHANGED <<server, con, ready, tries, s3d_stack, s3d_cb_list, calls, history>>

(* The program's calls *)

UserCall == calls < MaxCalls /\ calls' = calls + 1

SetCallback(k, func) ==
  /\ May("set") /\ UserCall
  /\ s3d_cb_list' = [s3d_cb_list EXCEPT ![k] = func]
  /\ frames' = frames \o ProcessStack(cb_lock)
  /\ UNCHANGED <<server, con, ready, tries, cb_lock, s3d_stack, history>>

ClearCallback(k) ==
  /\ Running(User) /\ UserCall
  /\ s3d_cb_list' = [s3d_cb_list EXCEPT ![k] = "nil"]
  /\ UNCHANGED <<server, con, ready, tries, cb_lock, s3d_stack, frames, history>>

Poll ==
  /\ May("poll") /\ UserCall
  /\ frames' = Append(frames, "recv")
  /\ UNCHANGED <<server, con, ready, tries, cb_lock, s3d_stack, s3d_cb_list, history>>

(* s3d_new_object(): callbacks are locked out while it waits.  One look    *)
(* for packets stands for those _queue_want_object() takes until it has an *)
(* object, or none if it has one.                                          *)
NewObject ==
  /\ Running(IF "new" \in Uses THEN User ELSE {"f"}) /\ UserCall
  /\ cb_lock' = cb_lock + 1
  /\ frames' \in {frames \o <<"want">>, frames \o <<"want", "recv">>}
  /\ UNCHANGED <<server, con, ready, tries, s3d_stack, s3d_cb_list, history>>

Quit ==
  /\ May("quit") /\ UserCall
  /\ S3dQuit
  /\ UNCHANGED <<server, tries, s3d_cb_list, history>>

MainLoop ==
  /\ Running({"main"}) /\ con
  /\ frames' = Append(frames, "loop")
  /\ UNCHANGED <<server, con, ready, tries, cb_lock, s3d_stack, s3d_cb_list, calls, history>>

Serve == SendInit \/ SendQuit \/ \E k \in Kinds : SendEvent(k)
Library == InitWait \/ Receive \/ ReceiveDone \/ PopEvent \/ Loop \/ Return \/ MainLoop
Program ==
  \/ Poll \/ NewObject \/ Quit
  \/ \E k \in Kinds \union {QUIT} :
       ClearCallback(k) \/ \E func \in {"ignore", "user"} : SetCallback(k, func)

Next == Serve \/ Library \/ Program

Spec == Init /\ [][Next]_vars

(* The program enters the main loop, its callbacks and its function end,   *)
(* and the server answers INIT.                                            *)
FairSpec == Spec /\ WF_vars(Library) /\ WF_vars(SendInit)
-----------------------------------------------------------------------------
(* Properties *)

TypeOK ==
  /\ wire \in Seq(Packet) /\ count \in 0 .. MaxEvents
  /\ open \in BOOLEAN /\ con \in BOOLEAN /\ ready \in BOOLEAN
  /\ tries \in 0 .. MaxTries /\ cb_lock \in -2 .. 2
  /\ s3d_stack \in Seq(Event)
  /\ s3d_cb_list \in [Kinds \union {QUIT} -> {"nil", "ignore", "user"}]
  /\ frames \in Seq(Frame) /\ calls \in 0 .. MaxCalls
  /\ ran \in Seq(Event) /\ ignored \subseteq 0 .. MaxEvents

(* "event callbacks will not interrupt each other or the mainloop" *)
NoNesting ==
  \A i, j \in 1 .. Len(frames) : {frames[i], frames[j]} \subseteq {"f", "cb"} => i = j

(* The lock is taken while a callback, the function of the main loop,      *)
(* s3d_new_object() or s3d_init() runs, and at no other time: no event     *)
(* waits for a lock nobody will give back.                                 *)
LockMatches ==
  frames # <<>> =>
    (cb_lock > 0 <=> \E i \in 1 .. Len(frames) :
                       frames[i] \in {"f", "cb", "want"} \/ (frames[i] = "init" /\ con))

(* Events of one kind are handled in the order the server sent them in, by *)
(* a program that looks for packets and sets callbacks only in main() and  *)
(* makes objects only in the function of the main loop:                    *)
(* what waits in the queue is not overtaken by an event that goes straight *)
(* to its callback.                                                        *)
InOrder ==
  \A i, j \in 1 .. Len(ran) :
    i < j /\ ran[i].kind = ran[j].kind => ran[i].n < ran[j].n

(* "An incoming event of this type will simply be skipped." *)
IgnoredAreSkipped == \A i \in 1 .. Len(ran) : ran[i].n \notin ignored

(* s3d_quit() "clears the event-stack": no event of the server is handled  *)
(* after it, whatever was queued, under way or still unread.               *)
NothingAfterQuit == [][~con => ran' = ran]_vars

(* No event stays in the queue of a running program for ever. *)
Ended == frames = <<>>
Waiting == {s3d_stack[i].n : i \in 1 .. Len(s3d_stack)}
Processed == \A n \in 1 .. MaxEvents : n \in Waiting ~> n \notin Waiting \/ Ended

(* After s3d_quit() the main loop ends ("It can also be used to leave the  *)
(* s3d_mainloop()"), wherever it was called.                               *)
QuitEnds == ~con ~> Running({"main"}) \/ Ended
=============================================================================
