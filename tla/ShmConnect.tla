----------------------------- MODULE ShmConnect -----------------------------
(* How a program comes to its two rings: the server leaves the keys of a pair  *)
(* of segments in a file of two words, _shm_init() takes them out, and the     *)
(* server makes a slot and leaves the next pair. A slot that has been idle is  *)
(* given up when nobody else is attached. Programs may die at every step.      *)
EXTENDS Integers, FiniteSets

CONSTANTS
    Clients,
    MAX_IDLE,   \* passes of shm_main() without data before it looks who is attached
    Tries,      \* how often s3d_init() looks for the answer to INIT
    Uses        \* what happens that leads the code astray

VARIABLES
    data,       \* the two words: next_key[1] is `in' to a program, next_key[0] is `out'
    pair,       \* the pair that is on offer, waiting_comblock
    server,     \* what shm_main() is in the middle of: "loop", "remove", "offer" or "offered"
    doomed,     \* the slot it has found idle and alone
    idle,       \* the slots, and how long each has been idle
    exists,     \* the pairs whose segments can be found by their keys
    request, answer,    \* the pairs with INIT in one ring, and the answer in the other
    pc, key,    \* where each client is, and the keys it has read
    attached,   \* the segments each client is attached to
    looks       \* how often it has looked for the answer

vars == <<data, pair, server, doomed, idle, exists, request, answer, pc, key, attached, looks>>
srv == <<pair, server, doomed, idle, exists, answer>>
Connecting == {"read in", "read out", "clear in", "clear out", "get in", "get out", "send", "wait"}
Zeroing == {"read in", "read out", "clear in", "clear out"}
Slots == DOMAIN idle
\* Variant: shm_nattch is compared with 0, and the server itself is attached.
AloneNever(k) == k \notin Slots
Alone(k) == \A c \in Clients : [pair |-> k, dir |-> "out"] \notin attached[c]

Init == /\ data = [in |-> 1, out |-> 1] /\ pair = 1
        /\ server = "loop" /\ doomed = 0
        /\ idle = <<>> /\ exists = {1}
        /\ request = {} /\ answer = {}
        /\ pc = [c \in Clients |-> "start"]
        /\ key = [c \in Clients |-> [in |-> 0, out |-> 0]]
        /\ attached = [c \in Clients |-> {}]
        /\ looks = [c \in Clients |-> 0]

-----------------------------------------------------------------------------
(* server/shm.c                                                                *)

\* shm_prot_com_in(): the INIT of a new program is answered.
Serve(k) ==
    /\ server = "loop" /\ k \in Slots \cap request
    /\ request' = request \ {k} /\ answer' = answer \cup {k}
    /\ idle' = [idle EXCEPT ![k] = 0]
    /\ UNCHANGED <<data, pair, server, doomed, exists, pc, key, attached, looks>>

\* Variant: the slot is given up without a look at who is attached.
IdleBlind(k) ==
    /\ server = "loop" /\ k \in Slots \ request
    /\ IF idle[k] < MAX_IDLE
       THEN idle' = [idle EXCEPT ![k] = @ + 1] /\ UNCHANGED <<server, doomed>>
       ELSE server' = "remove" /\ doomed' = k /\ UNCHANGED idle
    /\ UNCHANGED <<data, pair, exists, request, answer, pc, key, attached, looks>>
\* Nothing to read: the IPC_STAT, and in the next step what follows from it.
Idle(k) ==
    /\ server = "loop" /\ k \in Slots \ request
    /\ \/ idle[k] < MAX_IDLE /\ idle' = [idle EXCEPT ![k] = @ + 1] /\ UNCHANGED <<server, doomed>>
       \/ idle[k] = MAX_IDLE /\ ~Alone(k) /\ idle' = [idle EXCEPT ![k] = 0] /\ UNCHANGED <<server, doomed>>
       \/ idle[k] = MAX_IDLE /\ Alone(k) /\ server' = "remove" /\ doomed' = k /\ UNCHANGED idle
    /\ UNCHANGED <<data, pair, exists, request, answer, pc, key, attached, looks>>

\* process_del() and shm_remove(): who is attached by now stays so.
Remove ==
    /\ server = "remove"
    /\ server' = "loop" /\ doomed' = 0
    /\ idle' = [k \in Slots \ {doomed} |-> idle[k]]
    /\ exists' = exists \ {doomed}
    /\ UNCHANGED <<data, pair, request, answer, pc, key, attached, looks>>

Taken == data.in = 0 /\ data.out = 0
\* Both words are gone: a slot for whoever took them, then the next pair, word by word.
Register ==
    /\ server = "loop" /\ Taken
    /\ pair <= Cardinality(Clients)
    /\ idle' = [k \in Slots \cup {pair} |-> IF k = pair THEN 0 ELSE idle[k]]
    /\ pair' = pair + 1 /\ exists' = exists \cup {pair + 1}
    /\ server' = "offer"
    /\ UNCHANGED <<data, doomed, request, answer, pc, key, attached, looks>>
Offer ==
    /\ \/ server = "offer" /\ data' = [data EXCEPT !.out = pair] /\ server' = "offered"
       \/ server = "offered" /\ data' = [data EXCEPT !.in = pair] /\ server' = "loop"
    /\ UNCHANGED <<pair, doomed, idle, exists, request, answer, pc, key, attached, looks>>

-----------------------------------------------------------------------------
(* libs3d/shm.c and s3d_init(). A client goes to `next' when `test' holds.     *)

Go(c, from, to) == pc[c] = from /\ pc' = [pc EXCEPT ![c] = to] /\ UNCHANGED srv

\* Two programs that read the words at the same time are a use of its own.
Start(c) == /\ "race" \in Uses \/ \A d \in Clients : pc[d] \notin Zeroing
            /\ Go(c, "start", "read in")
            /\ UNCHANGED <<data, request, key, attached, looks>>

\* Each word is read again and again until neither was 0.
Read(c) ==
    /\ \/ Go(c, "read in", IF data.in = 0 THEN "read in" ELSE "read out")
          /\ key' = [key EXCEPT ![c].in = data.in]
       \/ Go(c, "read out", IF data.out = 0 THEN "read in" ELSE "clear in")
          /\ key' = [key EXCEPT ![c].out = data.out]
    /\ UNCHANGED <<data, request, attached, looks>>
Clear(c) ==
    /\ \/ Go(c, "clear in", "clear out") /\ data' = [data EXCEPT !.in = 0]
       \/ Go(c, "clear out", "get in") /\ data' = [data EXCEPT !.out = 0]
    /\ UNCHANGED <<request, key, attached, looks>>

\* shmget() finds no segment that is removed; then the program goes on to try TCP.
Attach(c) ==
    LET k == key[c]
    IN  /\ \/ Go(c, "get in", IF k.in \in exists THEN "get out" ELSE "failed")
              /\ attached' = IF k.in \notin exists THEN attached
                             ELSE [attached EXCEPT ![c] = {[pair |-> k.in, dir |-> "in"]}]
           \/ Go(c, "get out", IF k.out \in exists THEN "send" ELSE "failed")
              /\ attached' = IF k.out \notin exists THEN attached
                             ELSE [attached EXCEPT ![c] = @ \cup {[pair |-> k.out, dir |-> "out"]}]
        /\ UNCHANGED <<data, request, key, looks>>

SendInit(c) == /\ Go(c, "send", "wait")
               /\ request' = request \cup {key[c].out}
               /\ UNCHANGED <<data, key, attached, looks>>
\* Variant: the loop of s3d_init() looks until the answer is there.
WaitOn(c) ==
    /\ Go(c, "wait", IF key[c].in \in answer THEN "ready" ELSE "wait")
    /\ UNCHANGED <<data, request, key, attached, looks>>
Wait(c) ==
    /\ \/ key[c].in \in answer /\ Go(c, "wait", "ready") /\ UNCHANGED looks
       \/ key[c].in \notin answer /\ Go(c, "wait", IF looks[c] < Tries THEN "wait" ELSE "failed")
          /\ looks' = [looks EXCEPT ![c] = IF @ < Tries THEN @ + 1 ELSE @]
    /\ UNCHANGED <<data, request, key, attached>>

\* A program ends, or dies anywhere: it is detached. That one dies with one word cleared and
\* not the other is a use of its own.
Die(c) ==
    /\ pc[c] \notin {"start", "dead"}
    /\ "midway" \in Uses \/ pc[c] # "clear out"
    /\ pc' = [pc EXCEPT ![c] = "dead"]
    /\ attached' = [attached EXCEPT ![c] = {}]
    /\ UNCHANGED <<data, request, key, looks>> /\ UNCHANGED srv

ServerStep == Remove \/ Register \/ Offer \/ \E k \in Slots : Serve(k) \/ Idle(k)
ClientStep(c) == Read(c) \/ Clear(c) \/ Attach(c) \/ SendInit(c) \/ Wait(c)
Next == ServerStep \/ \E c \in Clients : Start(c) \/ ClientStep(c) \/ Die(c)

\* The main loop goes round, coming to every slot and to the key file, and a program that
\* runs keeps running.
Spec == /\ Init /\ [][Next]_vars
        /\ WF_vars(Remove \/ Register \/ Offer)
        /\ \A k \in 1..Cardinality(Clients) : WF_vars(Serve(k) \/ Idle(k))
        /\ \A c \in Clients : WF_vars(ClientStep(c))

-----------------------------------------------------------------------------
\* A program whose INIT was answered has a slot, both its rings belong to that slot, and no
\* other program is attached to them; whoever died on the way.
KeysServed == \A c \in Clients : pc[c] = "ready" =>
    /\ key[c].in = key[c].out /\ key[c].in \in Slots
    /\ \A d \in Clients \ {c} : \A s \in attached[c] \cap attached[d] : FALSE

\* s3d_init() does not hang: it comes to an end, whoever died before at any other place.
ConnectEnds == \A c \in Clients : pc[c] \in Connecting ~> pc[c] \notin Connecting

\* A slot nobody is attached to any more is given up, also when the program that took its
\* keys died before it used them.
Reaped == \A k \in 1..Cardinality(Clients) :
    (k \in Slots /\ \A c \in Clients : pc[c] = "dead") ~> k \notin Slots
=============================================================================
