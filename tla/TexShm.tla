------------------------------ MODULE TexShm -------------------------------
(* One texture of one object on a shared memory connection: the server keeps   *)
(* it in a segment and tells the program, whose library from then on draws     *)
(* into the segment itself and only reports that it did; before, the drawing   *)
(* goes through LOAD_TEX. Segments are numbered in the order they are made.    *)
EXTENDS Integers, Sequences

CONSTANTS
    MaxPushes, MaxLoads,
    Uses        \* "soon": the program draws into the segment while a LOAD_TEX is under way
                \* "reuse": it draws on a texture pushed in place of a popped one before it
                \* has been told of its segment

VARIABLES
    toServer, toClient,     \* the two rings
    pushes, has,            \* the program: the textures pushed so far, and whether it has one
    loads, last,            \* the drawings so far, and the one the texture should show
    tex_hash,               \* the segment the library knows, 0 when it knows none
    p_tex, made,            \* the server's buffer for the texture, 0 for none; the buffers made
    buf,                    \* what was drawn last into each
    clearing,               \* the server is in obj_push_tex(), and has not cleared the buffer yet
    wiped,                  \* (history) the last drawing it cleared with it, 0 for none
    bound, shown            \* the texture has been given to OpenGL, and what that shows

vars == <<toServer, toClient, pushes, has, loads, last, tex_hash, p_tex, made, buf, clearing, wiped,
          bound, shown>>
program == <<pushes, has, loads, last>>
server == <<p_tex, made, buf, clearing, wiped, bound, shown>>

Init == /\ toServer = <<>> /\ toClient = <<>>
        /\ pushes = 0 /\ has = FALSE /\ loads = 0 /\ last = 0 /\ tex_hash = 0
        /\ p_tex = 0 /\ made = 0 /\ buf = [s \in 1..MaxPushes |-> 0]
        /\ clearing = FALSE /\ wiped = 0 /\ bound = FALSE /\ shown = 0

Send(op, n) == toServer' = Append(toServer, [op |-> op, n |-> n])
Loading == \E i \in DOMAIN toServer : toServer[i].op = "load"

-----------------------------------------------------------------------------
(* libs3d/proto_out.c and libs3d/texture.c                                     *)

s3d_push_texture == /\ ~has /\ pushes < MaxPushes
                    /\ has' = TRUE /\ pushes' = pushes + 1 /\ last' = 0
                    /\ Send("push", 0)
                    /\ UNCHANGED <<toClient, loads, tex_hash>> /\ UNCHANGED server
s3d_pop_texture == /\ has
                   /\ has' = FALSE /\ Send("pop", 0)
                   /\ UNCHANGED <<toClient, pushes, loads, last, tex_hash>> /\ UNCHANGED server

\* Variant: no UPDATE_TEX after the library has drawn into the segment.
UpdateSilent == UNCHANGED toServer
update_texture == Send("update", 0)
load_texture_shm == tex_hash # 0 /\ buf' = [buf EXCEPT ![tex_hash] = loads']
s3d_load_texture ==
    /\ has /\ loads < MaxLoads
    /\ tex_hash # 0 => /\ "soon" \in Uses \/ ~Loading
                       /\ "reuse" \in Uses \/ tex_hash = pushes
    /\ loads' = loads + 1 /\ last' = loads'
    /\ \/ load_texture_shm /\ update_texture
       \/ tex_hash = 0 /\ Send("load", loads') /\ UNCHANGED buf
    /\ UNCHANGED <<toClient, pushes, has, tex_hash, p_tex, made, clearing, wiped, bound, shown>>

\* The old entry goes; a segment that was removed meanwhile cannot be attached.
s3d_handle_texshm ==
    /\ toClient # <<>> /\ toClient' = Tail(toClient)
    /\ tex_hash' = IF Head(toClient) = p_tex THEN p_tex ELSE 0
    /\ UNCHANGED toServer /\ UNCHANGED program /\ UNCHANGED server

-----------------------------------------------------------------------------
(* server/proto.c, server/object.c and server/event.c                          *)

Take(op) == /\ ~clearing
            /\ toServer # <<>> /\ Head(toServer).op = op /\ toServer' = Tail(toServer)
            /\ UNCHANGED tex_hash /\ UNCHANGED program

event_texshm == toClient' = Append(toClient, made')
\* obj_push_tex(): when there is no segment the buffer is the server's own, and not reported.
obj_push_tex ==
    /\ Take("push")
    /\ made' = made + 1 /\ p_tex' = made' /\ bound' = FALSE /\ shown' = 0
    /\ event_texshm \/ UNCHANGED toClient
    /\ clearing' = TRUE
    /\ UNCHANGED <<buf, wiped>>
\* The program may have been told of the segment, and have drawn into it, when the server
\* comes to clear it.
Clear == /\ clearing /\ clearing' = FALSE
         /\ buf' = [buf EXCEPT ![p_tex] = 0]
         /\ wiped' = IF buf[p_tex] = 0 THEN wiped ELSE buf[p_tex]
         /\ UNCHANGED <<toServer, toClient, tex_hash, p_tex, made, bound, shown>> /\ UNCHANGED program
texture_delete == /\ Take("pop") /\ p_tex' = 0
                  /\ UNCHANGED <<toClient, made, buf, clearing, wiped, bound, shown>>

obj_update_tex == /\ Take("update")
                  /\ shown' = IF bound /\ p_tex # 0 THEN buf[p_tex] ELSE shown
                  /\ UNCHANGED <<toClient, p_tex, made, buf, clearing, wiped, bound>>
obj_load_tex == /\ Take("load")
                /\ IF p_tex = 0 THEN UNCHANGED <<buf, shown>>
                   ELSE /\ buf' = [buf EXCEPT ![p_tex] = Head(toServer).n]
                        /\ shown' = IF bound THEN Head(toServer).n ELSE shown
                /\ UNCHANGED <<toClient, p_tex, made, clearing, wiped, bound>>

\* The first time the object is drawn the texture goes to OpenGL as it is.
obj_render == /\ ~clearing /\ p_tex # 0 /\ ~bound
              /\ bound' = TRUE /\ shown' = buf[p_tex]
              /\ UNCHANGED <<toServer, toClient, tex_hash, p_tex, made, buf, clearing, wiped>> /\ UNCHANGED program

Next == \/ s3d_push_texture \/ s3d_pop_texture \/ s3d_load_texture \/ s3d_handle_texshm
        \/ obj_push_tex \/ Clear \/ texture_delete \/ obj_update_tex \/ obj_load_tex \/ obj_render
Spec == Init /\ [][Next]_vars

-----------------------------------------------------------------------------
\* Whichever way the drawings went, when nothing is under way the texture holds the last one,
\* and so does the screen: segments are neither confused nor changed behind OpenGL's back. The
\* one drawing that is lost is one the program made into a segment it was told of before the
\* server cleared it; then the texture is empty, until the next.
LastLoadShows == (has /\ toServer = <<>> /\ toClient = <<>> /\ ~clearing) =>
    /\ buf[p_tex] = IF wiped = last THEN 0 ELSE last
    /\ bound => shown = buf[p_tex]
=============================================================================
