------------------------------ MODULE StartUp ------------------------------
(* main.c: the server forks a kid for the rc script, sets itself up, tells the *)
(* kid with SIGUSR1 that it may begin, and is ended by SIGINT, by SIGTERM or   *)
(* by the end of its kid. The two run side by side.                            *)
EXTENDS Integers

VARIABLES
    pc,         \* the server: a step of init(), "main", a step of quit(), "gone"
                \* after quit(), or "aborted"
    running,    \* the server's flag; the kid has its own
    kidpid,     \* the server knows of a kid
    up,         \* the components that are initialised
    torn,       \* the components a handler came upon half taken down
    inside,     \* the signals whose handlers are at work; each is blocked in its own
    ran,        \* (history) the server had set itself up
    kid,        \* "none", "born", "waits", "script", "idle" or "dead"
    chld,       \* the server's SIGCHLD handler is set
    pending     \* signals under way: "usr1" and "term" to the kid, "chld" to the server

vars == <<pc, running, kidpid, up, torn, inside, ran, kid, chld, pending>>
srv == <<running, kidpid, up, torn, inside, ran>>
Components == {"graphics", "network", "user", "process"}
Starting == {"fork", "handler", "graphics", "network", "user", "process", "running", "signals", "tell"}
Quitting == {"quit", "user quit", "network quit", "graphics quit", "process quit", "kill kid", "exit"}
Alive == {"born", "waits", "script", "idle"}
TakesDown == [graphics |-> "graphics quit", network |-> "network quit", user |-> "user quit",
              process |-> "process quit"]

Init == /\ pc = "fork" /\ running = FALSE /\ kidpid = FALSE /\ up = {} /\ torn = {} /\ inside = {}
        /\ ran = FALSE /\ kid = "none" /\ chld = FALSE /\ pending = {}

Go(from, to) == pc = from /\ pc' = to

-----------------------------------------------------------------------------
\* rc_init(); with --no-rc there is no kid.
rc_init ==
    /\ \/ Go("fork", "handler") /\ kidpid' = TRUE /\ kid' = "born" /\ UNCHANGED chld
       \/ Go("fork", "graphics") /\ UNCHANGED <<kidpid, kid, chld>>
       \/ Go("handler", "graphics") /\ chld' = TRUE /\ UNCHANGED <<kidpid, kid>>
    /\ UNCHANGED <<running, up, torn, inside, ran, pending>>

\* init(): the components in their order, the flag, the handlers, and the word to the kid.
InitOne ==
    /\ \/ Go("graphics", "network") \/ Go("network", "user")
       \/ Go("user", "process") \/ Go("process", "running")
    /\ up' = up \cup {pc}
    /\ UNCHANGED <<running, kidpid, torn, inside, ran, kid, chld, pending>>
InitFlags ==
    /\ \/ Go("running", "signals") /\ running' = TRUE /\ ran' = TRUE
       \/ Go("signals", "tell") /\ UNCHANGED <<running, ran>>
    /\ UNCHANGED <<kidpid, up, torn, inside, kid, chld, pending>>
InitTell ==
    /\ Go("tell", "main")
    /\ pending' = IF kidpid /\ kid \in Alive THEN pending \cup {"usr1"} ELSE pending
    /\ UNCHANGED <<srv, kid, chld>>

\* errnf(), or a signal that has no handler yet: neither goes through quit().
Abort == /\ pc \in Starting \ {"fork", "tell"}
         /\ pc' = "aborted"
         /\ UNCHANGED <<srv, kid, chld, pending>>

-----------------------------------------------------------------------------
\* quit() is begun, by a handler also while quit() is at work: the new one ends in exit(),
\* and the one before never goes on, so what it was taking down may stay torn.
quit ==
    /\ pc' = "quit"
    /\ torn' \in {torn} \cup {torn \cup {c} : c \in {d \in up : pc = TakesDown[d]}}
    /\ UNCHANGED <<up, ran, kid, chld>>

\* Variant: the handler ends the main loop before it calls quit().
sigchld_stops ==
    /\ "chld" \in pending \ inside /\ chld
    /\ pc \in (Starting \ {"fork", "handler"}) \cup {"main"} \cup Quitting
    /\ pending' = pending \ {"chld"}
    /\ IF kidpid THEN quit /\ kidpid' = FALSE /\ running' = FALSE /\ inside' = inside \cup {"chld"}
       ELSE UNCHANGED <<pc, srv, kid, chld>>
\* The kid has ended. The handler may come between any two steps.
sigchld_handler ==
    /\ "chld" \in pending \ inside /\ chld
    /\ pc \in (Starting \ {"fork", "handler"}) \cup {"main"} \cup Quitting
    /\ pending' = pending \ {"chld"}
    /\ IF kidpid THEN quit /\ kidpid' = FALSE /\ inside' = inside \cup {"chld"} /\ UNCHANGED running
       ELSE UNCHANGED <<pc, srv, kid, chld>>

\* SIGINT and SIGTERM have the same handler and do not block each other.
sigint_handler ==
    /\ pc \in {"tell", "main"} \cup Quitting
    /\ \E sig \in {"int", "term"} \ inside : inside' = inside \cup {sig}
    /\ quit
    /\ UNCHANGED <<running, kidpid, pending>>

\* The window is closed.
WindowClosed == pc = "main" /\ quit /\ UNCHANGED <<running, kidpid, inside, pending>>

\* quit(): the components are taken down only when the server was running. One that was torn
\* before may not survive it: shm_quit() writes to a segment it is detached from, process_quit()
\* walks and frees a table that is freed; and the latter once more when it had come to its end.
Quit ==
    \/ /\ Go("quit", IF running THEN "user quit" ELSE "exit")
       /\ UNCHANGED <<srv, kid, chld, pending>>
    \/ /\ \/ Go("user quit", "network quit") \/ Go("network quit", "graphics quit")
          \/ Go("graphics quit", "process quit") \/ Go("process quit", "kill kid")
       /\ up' = {c \in up : pc # TakesDown[c]}
       /\ UNCHANGED <<running, kidpid, torn, inside, ran, kid, chld, pending>>
Crash ==
    /\ \/ \E c \in torn : pc = TakesDown[c]
       \/ pc = "process quit" /\ "process" \notin up
    /\ pc' = "aborted"
    /\ UNCHANGED <<srv, kid, chld, pending>>
\* Variant: the kid is forgotten.
ForgetKid ==
    /\ \/ Go("kill kid", "exit") /\ running' = FALSE /\ kidpid' = FALSE
       \/ Go("exit", "gone") /\ UNCHANGED <<running, kidpid>>
    /\ UNCHANGED <<up, torn, inside, ran, kid, chld, pending>>
KillKid ==
    /\ \/ /\ Go("kill kid", "exit") /\ running' = FALSE /\ kidpid' = FALSE
          /\ pending' = IF kidpid /\ kid \in Alive THEN pending \cup {"term"} ELSE pending
       \/ Go("exit", "gone") /\ UNCHANGED <<running, kidpid, pending>>
    /\ UNCHANGED <<up, torn, inside, ran, kid, chld>>

-----------------------------------------------------------------------------
\* The kid ends: the server gets SIGCHLD, which is lost when the handler is not set yet.
Dies == kid' = "dead" /\ pending' = (pending \ {"usr1", "term"}) \cup (IF chld THEN {"chld"} ELSE {})

\* The kid sets its handler, waits for SIGUSR1, and launches the scripts until one is usable.
Kid ==
    /\ \/ kid = "born" /\ kid' = "waits" /\ UNCHANGED pending
       \/ kid = "waits" /\ "usr1" \in pending /\ kid' = "script"
          /\ pending' = pending \ {"usr1"}
    /\ UNCHANGED <<pc, srv, chld>>

\* system() comes back: the kid exits, or idles for ever when there was no script at all.
ScriptEnds ==
    /\ kid = "script"
    /\ \/ Dies
       \/ kid' = "idle" /\ UNCHANGED pending
    /\ UNCHANGED <<pc, srv, chld>>

\* SIGTERM ends the kid wherever it is, and so does SIGUSR1 before the handler is set.
KidKilled ==
    /\ kid \in Alive
    /\ "term" \in pending \/ (kid = "born" /\ "usr1" \in pending)
    /\ Dies
    /\ UNCHANGED <<pc, srv, chld>>
\* Somebody else ends the kid.
KidEnded == kid \in Alive /\ Dies /\ UNCHANGED <<pc, srv, chld>>

Next == \/ rc_init \/ InitOne \/ InitFlags \/ InitTell \/ Abort
        \/ sigchld_handler \/ sigint_handler \/ WindowClosed \/ Quit \/ Crash \/ KillKid
        \/ Kid \/ ScriptEnds \/ KidKilled \/ KidEnded
Spec == /\ Init /\ [][Next]_vars
        /\ WF_vars(rc_init \/ InitOne \/ InitFlags \/ InitTell)
        /\ WF_vars(sigchld_handler) /\ WF_vars(Quit \/ KillKid)
        /\ WF_vars(Kid) /\ WF_vars(KidKilled)

-----------------------------------------------------------------------------
\* However the signals fall, also those that come while quit() is at work and begin it anew: a
\* server that had set itself up and has gone through exit() has taken down everything, the
\* segments and the key file of shared memory among it.
ServerLeavesNothing == pc = "gone" /\ ran => up = {}

\* quit() comes to an end however often it is begun anew, and the kid does not outlive for ever
\* a server that ended so: not waiting for SIGUSR1, not idling.
KidEnds == /\ pc \in Quitting ~> pc \in {"gone", "aborted"}
           /\ pc = "gone" ~> kid \notin Alive
=============================================================================
