------------------------------ MODULE ObjQueue ------------------------------
(* libs3d/object_queue.c: new objects are asked for before they are needed.    *)
(* The server's answers are put into slots; s3d_new_object() takes from them,  *)
(* or waits, looking at the socket itself, until there is one, the library has *)
(* quit or TIMEOUT looks were in vain.                                         *)
EXTENDS Integers, Sequences, SequencesExt, FiniteSets, FiniteSetsExt

CONSTANTS
    MAX_REQ,    \* 100 in the code
    TIMEOUT,    \* looks at the socket
    MaxCalls    \* how often the program asks for an object

VARIABLES
    queue,      \* the slots, an oid or Q_UNUSED each; no slots when the library has quit
    requested,  \* the count of additional requests
    calls,      \* how often it has asked
    looks,      \* j in queue_want_object(), or -1 outside of it
    held,       \* the oids the program was given and has not deleted
    toServer, fromServer,   \* packets under way
    made        \* the oids in use on the server

vars == <<queue, requested, calls, looks, held, toServer, fromServer, made>>
Q_UNUSED == -1
NewObj == [op |-> "NEW_OBJ", oid |-> -1]
QUIT == -2                      \* among the answers: the server says good-bye

Used(q) == {i \in DOMAIN q : q[i] # Q_UNUSED}
Unused(q) == DOMAIN q \ Used(q)

queue_init == <<Q_UNUSED>>
\* queue_fill(): a request for each slot that is not used.
queue_fill(q) == [i \in 1..Cardinality(Unused(q)) |-> NewObj]

\* Variant: when the slots are taken, the last one is taken again.
QueueNewOver(q, oid) ==
    IF q = <<>> THEN q
    ELSE IF Unused(q) # {} THEN [q EXCEPT ![Min(Unused(q))] = oid] ELSE [q EXCEPT ![Len(q)] = oid]
\* The first slot that is free, or one more.
queue_new_object(q, oid) ==
    IF q = <<>> THEN q
    ELSE IF Unused(q) # {} THEN [q EXCEPT ![Min(Unused(q))] = oid] ELSE Append(q, oid)

\* The first n answers are read from the socket; the QUIT of the server ends the library.
NetProtIn(n) ==
    LET q[k \in 0..n] ==
          IF k = 0 THEN queue
          ELSE IF fromServer[k] = QUIT THEN <<>> ELSE queue_new_object(q[k - 1], fromServer[k])
    IN  q[n]
Lowered(n) == IF queue = <<>> THEN 0 ELSE Cardinality({i \in 1..n : fromServer[i] # QUIT})
NetCheck(n) == /\ queue' = NetProtIn(n)
               /\ fromServer' = SubSeq(fromServer, n + 1, Len(fromServer))

-----------------------------------------------------------------------------
Init == /\ queue = queue_init
        /\ requested = 0
        /\ calls = 0
        /\ looks = -1
        /\ held = {}
        /\ toServer = queue_fill(queue_init)
        /\ fromServer = <<>>
        /\ made = {}

\* The main loop of the program, outside of s3d_new_object().
MainLoop == \E n \in 1..Len(fromServer) :
    /\ looks = -1
    /\ NetCheck(n) /\ requested' = requested - Lowered(n)
    /\ UNCHANGED <<calls, looks, held, toServer, made>>

Call == /\ looks = -1 /\ calls < MaxCalls
        /\ looks' = 0 /\ calls' = calls + 1
        /\ UNCHANGED <<queue, requested, held, toServer, fromServer, made>>

\* The first object there is, and a request for another one.
Take ==
    LET i == Min(Used(queue))
    IN  /\ queue' = [queue EXCEPT ![i] = Q_UNUSED]
        /\ held' = held \cup {queue[i]}
        /\ toServer' = Append(toServer, NewObj)

WantTake ==
    /\ looks \in 0..TIMEOUT /\ Used(queue) # {}
    /\ Take
    /\ looks' = -1
    /\ UNCHANGED <<requested, calls, fromServer, made>>

\* Variant: the looks are not counted.
WantLookOn ==
    /\ looks # -1 /\ queue # <<>> /\ Used(queue) = {} /\ looks <= TIMEOUT
    /\ toServer' = IF requested < MAX_REQ THEN Append(toServer, NewObj) ELSE toServer
    /\ \E n \in 0..Len(fromServer) :
          /\ NetCheck(n)
          /\ requested' = (IF requested < MAX_REQ THEN requested + 1 ELSE requested) - Lowered(n)
    /\ looks' = looks
    /\ UNCHANGED <<calls, held, made>>

\* None: one more is asked for, unless there are enough under way, and the socket looked at.
WantLook ==
    /\ looks # -1 /\ queue # <<>> /\ Used(queue) = {} /\ looks <= TIMEOUT
    /\ toServer' = IF requested < MAX_REQ THEN Append(toServer, NewObj) ELSE toServer
    /\ \E n \in 0..Len(fromServer) :
          /\ NetCheck(n)
          /\ requested' = (IF requested < MAX_REQ THEN requested + 1 ELSE requested) - Lowered(n)
    /\ looks' = looks + 1
    /\ UNCHANGED <<calls, held, made>>

WantFail ==
    /\ looks # -1
    /\ queue = <<>> \/ looks > TIMEOUT
    /\ looks' = -1
    /\ UNCHANGED <<queue, requested, calls, held, toServer, fromServer, made>>

DelObject == \E oid \in held :
    /\ looks = -1 /\ queue # <<>>
    /\ held' = held \ {oid}
    /\ toServer' = Append(toServer, [op |-> "DEL_OBJ", oid |-> oid])
    /\ UNCHANGED <<queue, requested, calls, looks, fromServer, made>>

\* The server carries out what it reads; an oid that is free is used again.
FirstFree == Min((0..Cardinality(made)) \ made)
Server ==
    /\ toServer # <<>>
    /\ toServer' = Tail(toServer)
    /\ IF Head(toServer) = NewObj
       THEN /\ made' = made \cup {FirstFree}
            /\ fromServer' = IF QUIT \in ToSet(fromServer) THEN fromServer
                             ELSE Append(fromServer, FirstFree)
       ELSE made' = made \ {Head(toServer).oid} /\ UNCHANGED fromServer
    /\ UNCHANGED <<queue, requested, calls, looks, held>>

ServerQuit ==
    /\ QUIT \notin ToSet(fromServer) /\ queue # <<>>
    /\ fromServer' = Append(fromServer, QUIT)
    /\ UNCHANGED <<queue, requested, calls, looks, held, toServer, made>>

Next == MainLoop \/ Call \/ WantTake \/ WantLook \/ WantFail \/ DelObject \/ Server \/ ServerQuit
Spec == /\ Init /\ [][Next]_vars
        /\ WF_vars(WantTake) /\ WF_vars(WantLook) /\ WF_vars(WantFail)

-----------------------------------------------------------------------------
\* Whatever arrives before or after it is asked for: an oid the server has made is under way,
\* in one slot, or held by the program, and only there; none is lost and none given twice.
OneHolder ==
    queue # <<>> /\ QUIT \notin ToSet(fromServer) =>
        LET dels == {toServer[i].oid : i \in {j \in DOMAIN toServer : toServer[j] # NewObj}}
            slot == {queue[i] : i \in Used(queue)}
            all  == <<held, dels, ToSet(fromServer), slot>>
        IN  /\ made = UNION ToSet(all)
            /\ Cardinality(made) = Cardinality(held) + Cardinality(dels) + Len(fromServer)
                                   + Cardinality(Used(queue))

\* s3d_new_object() returns, whatever the server does.
CallReturns == looks # -1 ~> looks = -1
=============================================================================
