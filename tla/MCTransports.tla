---------------------------- MODULE MCTransports ----------------------------
(* How programs and the server come together, for TLC: the rings in shared     *)
(* memory, as they should be (RingBuf) and as the build has them (Build), the  *)
(* exchange of their keys (Keys), and the start and end of the server          *)
(* (Server). They share nothing: a behaviour picks one in its first state, and *)
(* the others rest.                                                            *)
EXTENDS RingBuf

CONSTANTS c1, c2

VARIABLES
    on,         \* "ring", "build", "keys" or "server"
    bstart, bend, bcells, bwpc, bwlen, bwritten, bsent,
    brpc, brend, brnew, bwant, bgot, btaken, bdelivered,
    data, pair, server, doomed, idle, exists, request, answer, keypc, key, attached, looks,
    mainpc, running, kidpid, components, torn, inside, ran, kid, chld, pending

\* A ring of three cells on which all that the build does to it is seen.
Build == INSTANCE RingBuf WITH Size <- 3, Hdr <- 1, MaxLen <- 2, MaxSent <- 3,
                               Uses <- {"start", "end", "overwrite"},
                               start <- bstart, end <- bend, cells <- bcells,
                               wpc <- bwpc, wlen <- bwlen, written <- bwritten, sent <- bsent,
                               rpc <- brpc, rend <- brend, rnew <- brnew, want <- bwant,
                               got <- bgot, taken <- btaken, delivered <- bdelivered
\* Two programs that look for the server's answer twice.
Keys == INSTANCE ShmConnect WITH Clients <- {c1, c2}, MAX_IDLE <- 1, Tries <- 1, Uses <- {},
                                 pc <- keypc
Server == INSTANCE StartUp WITH pc <- mainpc, up <- components

ringvars == vars
buildvars == <<bstart, bend, bcells, bwpc, bwlen, bwritten, bsent,
               brpc, brend, brnew, bwant, bgot, btaken, bdelivered>>
keyvars == <<data, pair, server, doomed, idle, exists, request, answer, keypc, key, attached, looks>>
mainvars == <<mainpc, running, kidpid, components, torn, inside, ran, kid, chld, pending>>
allvars == <<on, ringvars, buildvars, keyvars, mainvars>>

-----------------------------------------------------------------------------
SuiteInit ==
    /\ on \in {"ring", "build", "keys", "server"}
    /\ Init /\ Build!Init /\ Keys!Init /\ Server!Init

RingTurn   == on = "ring" /\ UNCHANGED <<on, buildvars, keyvars, mainvars>>
BuildTurn  == on = "build" /\ UNCHANGED <<on, ringvars, keyvars, mainvars>>
KeysTurn   == on = "keys" /\ UNCHANGED <<on, ringvars, buildvars, mainvars>>
ServerTurn == on = "server" /\ UNCHANGED <<on, ringvars, buildvars, keyvars>>

SuiteNext ==
    \/ RingTurn /\ \E n \in Hdr..MaxLen : Write(n)
    \/ RingTurn /\ CopyIn
    \/ RingTurn /\ StoreEnd
    \/ RingTurn /\ Look
    \/ RingTurn /\ Load
    \/ RingTurn /\ CopyOut
    \/ RingTurn /\ StoreStart
    \/ BuildTurn /\ \E n \in 1..2 : Build!Write(n)
    \/ BuildTurn /\ Build!CopyIn
    \/ BuildTurn /\ Build!StoreEnd
    \/ BuildTurn /\ Build!WrapEnd
    \/ BuildTurn /\ Build!Look
    \/ BuildTurn /\ Build!Load
    \/ BuildTurn /\ Build!CopyOut
    \/ BuildTurn /\ Build!StoreStart
    \/ BuildTurn /\ Build!WrapStart
    \/ KeysTurn /\ \E k \in DOMAIN idle : Keys!Serve(k)
    \/ KeysTurn /\ \E k \in DOMAIN idle : Keys!Idle(k)
    \/ KeysTurn /\ Keys!Remove
    \/ KeysTurn /\ Keys!Register
    \/ KeysTurn /\ Keys!Offer
    \/ \E c \in {c1, c2} :
        \/ KeysTurn /\ Keys!Start(c)
        \/ KeysTurn /\ Keys!Read(c)
        \/ KeysTurn /\ Keys!Clear(c)
        \/ KeysTurn /\ Keys!Attach(c)
        \/ KeysTurn /\ Keys!SendInit(c)
        \/ KeysTurn /\ Keys!Wait(c)
        \/ KeysTurn /\ Keys!Die(c)
    \/ ServerTurn /\ Server!rc_init
    \/ ServerTurn /\ Server!InitOne
    \/ ServerTurn /\ Server!InitFlags
    \/ ServerTurn /\ Server!InitTell
    \/ ServerTurn /\ Server!Abort
    \/ ServerTurn /\ Server!sigchld_handler
    \/ ServerTurn /\ Server!sigint_handler
    \/ ServerTurn /\ Server!WindowClosed
    \/ ServerTurn /\ Server!Quit
    \/ ServerTurn /\ Server!Crash
    \/ ServerTurn /\ Server!KillKid
    \/ ServerTurn /\ Server!Kid
    \/ ServerTurn /\ Server!ScriptEnds
    \/ ServerTurn /\ Server!KidKilled
    \/ ServerTurn /\ Server!KidEnded

\* The fairness of each module, for the one that is on.
SuiteSpec ==
    /\ SuiteInit /\ [][SuiteNext]_allvars
    /\ WF_allvars(RingTurn /\ Writing) /\ WF_allvars(RingTurn /\ Reading)
    /\ WF_allvars(BuildTurn /\ Build!Writing) /\ WF_allvars(BuildTurn /\ Build!Reading)
    /\ WF_allvars(KeysTurn /\ (Keys!Remove \/ Keys!Register \/ Keys!Offer))
    /\ \A k \in 1..2 : WF_allvars(KeysTurn /\ (Keys!Serve(k) \/ Keys!Idle(k)))
    /\ \A c \in {c1, c2} : WF_allvars(KeysTurn /\ Keys!ClientStep(c))
    /\ WF_allvars(ServerTurn /\ (Server!rc_init \/ Server!InitOne \/ Server!InitFlags \/ Server!InitTell))
    /\ WF_allvars(ServerTurn /\ Server!sigchld_handler)
    /\ WF_allvars(ServerTurn /\ (Server!Quit \/ Server!KillKid))
    /\ WF_allvars(ServerTurn /\ Server!Kid) /\ WF_allvars(ServerTurn /\ Server!KidKilled)

-----------------------------------------------------------------------------
\* A program whose INIT was answered has the two rings of one slot to itself.
KeysServed == Keys!KeysServed

\* However signals fall, also those that begin quit() anew in the middle of quit(): the server
\* that had set itself up and went through exit() has left nothing up.
ServerLeavesNothing == Server!ServerLeavesNothing

\* What must happen does. What is written to the ring comes out of it, however often it was
\* full, and the reader empties the ring whatever it finds there: a header broken by the stores
\* of the build, or by a server that overwrote it, does not leave it waiting for ever. s3d_init()
\* comes to an end, and a slot nobody uses any more is given up, whoever died where. The kid,
\* which launched the rc script, does not outlive the server.
TransportsEnd ==
    /\ AllArrive
    /\ Build!Drains
    /\ Keys!ConnectEnds /\ Keys!Reaped
    /\ Server!KidEnds
=============================================================================
