------------------------------ MODULE ObjData ------------------------------
(* The contents of an object, from the program's call to the picture: the      *)
(* requests of libs3d/proto_out.c and the packets they are split into, the     *)
(* packets as server/proto.c takes them apart, the stacks of server/object.c,  *)
(* and the display list obj_render() compiles of them and keeps until it is    *)
(* told to forget it. The object is one that may hold data.                    *)
(* What a vertex or a colour is does not matter: an entry carries the value    *)
(* that was given for it, all of them different. Lengths are scaled: an entry  *)
(* takes 4 bytes in every packet, and MF_LEN is small.                         *)
EXTENDS Integers, Sequences

CONSTANTS
    Lens, Starts, Indices, MaxCalls, Given,   \* as in Stacks
    MF_LEN,     \* the longest packet, in bytes
    NumWidth,   \* the bits of the number a pop carries, 16 in the code
    MaxChan,    \* packets under way
    Uses        \* what programs do that leads the code astray

VARIABLES
    obj,        \* struct t_obj: the stacks and the flags
    dplist,     \* the compiled list of what is drawn, or None
    chan,       \* the packets from the program to the server
    pushed,     \* the entries the program has pushed and not popped, as it counts them
    calls       \* the requests so far

vars == <<obj, dplist, chan, pushed, calls>>

UseNames == {"load2", "peplines", "popwide", "poptex", "popall", "latetex"}
ASSUME UsesAssumption == Uses \subseteq UseNames
ASSUME SizeAssumption == /\ MF_LEN \in Nat /\ MF_LEN > 12 /\ MF_LEN % 4 = 2
                         /\ Lens \subseteq Nat \ {0} /\ Starts \subseteq Nat
                         /\ Indices \subseteq Nat /\ MaxCalls \in Nat
                         /\ NumWidth \in Nat /\ 2^NumWidth \in Nat

None == <<"none">>
Bytes == 4                      \* of an entry
Width(n) == n % 2^NumWidth

-----------------------------------------------------------------------------
(* The library: a request is a sequence of packets.                            *)

Packet(op, at, xs) == [op |-> op, at |-> at, xs |-> xs]

\* A variant for TLC to find at fault: pieces as long as the room for them.
PiecesByRoom(n, h) ==
    LET len  == n * Bytes
        step == MF_LEN - h
    IN  [f \in 1..(len \div step + 1) |->
            [from |-> (f - 1) * step,
             n |-> (IF len - (f - 1) * step > step THEN step ELSE len - (f - 1) * step) \div Bytes]]
\* The pieces of an array of n entries when h bytes of a packet are taken: where each
\* begins and how many entries it has. As written, the count of pieces goes by the room
\* in a packet, the pieces by the entries that fit into it.
Pieces(n, h) ==
    LET len   == n * Bytes
        room  == MF_LEN - h
        stepl == (room \div Bytes) * Bytes
        flen(i) == IF len - i * stepl > stepl THEN stepl ELSE len - i * stepl
    IN  [f \in 1..(len \div room + 1) |->
            [from |-> (f - 1) * stepl, n |-> flen(f - 1) \div Bytes]]

Piece(xs, p) == SubSeq(xs, p.from \div Bytes + 1, p.from \div Bytes + p.n)

Split(op, xs) == [f \in DOMAIN Pieces(Len(xs), 4) |->
                    Packet(op, 0, Piece(xs, Pieces(Len(xs), 4)[f]))]
One(op, x) == <<Packet(op, 0, <<x>>)>>

s3d_push_vertex(x)        == One("PUSH_VERTEX", x)
s3d_push_vertices(xs)     == Split("PUSH_VERTEX", xs)
s3d_push_material(x)      == One("PUSH_MAT", x)
s3d_push_material_a(x)    == One("PUSH_MAT", x)
s3d_push_materials_a(xs)  == Split("PUSH_MAT", xs)
s3d_push_polygon(x)       == One("PUSH_POLY", x)
s3d_push_polygons(xs)     == Split("PUSH_POLY", xs)
s3d_push_line(x)          == One("PUSH_LINE", x)
s3d_push_lines(xs)        == Split("PUSH_LINE", xs)
s3d_push_texture(x)       == One("PUSH_TEX", x)
s3d_push_textures(xs)     == Split("PUSH_TEX", xs)

\* A pop is one packet with the number, which the server keeps in sixteen bits.
s3d_pop_vertex(n)   == <<Packet("DEL_VERTEX", n, <<>>)>>
s3d_pop_material(n) == <<Packet("DEL_MAT", n, <<>>)>>
s3d_pop_polygon(n)  == <<Packet("DEL_POLY", n, <<>>)>>
s3d_pop_line(n)     == <<Packet("DEL_LINE", n, <<>>)>>
s3d_pop_texture(n)  == <<Packet("DEL_TEX", n, <<>>)>>

\* An array for the last entries is not split: what does not fit is refused.
Whole(op, xs) == IF Len(xs) * Bytes + 4 > MF_LEN THEN <<>> ELSE <<Packet(op, 0, xs)>>

s3d_pep_material(x)              == One("PEP_MAT", x)
s3d_pep_material_a(x)            == One("PEP_MAT", x)
s3d_pep_materials_a(xs)          == Whole("PEP_MAT", xs)
s3d_pep_polygon_normals(xs)      == Whole("PEP_POLY_NORMAL", xs)
s3d_pep_line_normals(xs)         == Whole("PEP_LINE_NORMAL", xs)
s3d_pep_vertex(x)                == One("PEP_VERTEX", x)
s3d_pep_line(x)                  == One("PEP_LINE", x)
\* Every value sent is the first one of the array.
s3d_pep_lines(xs)                == Whole("PEP_LINE", [i \in DOMAIN xs |-> xs[1]])
s3d_pep_vertices(xs)             == Whole("PEP_VERTEX", xs)
s3d_pep_polygon_tex_coord(x)     == One("PEP_POLY_TEXC", x)
s3d_pep_polygon_tex_coords(xs)   == Whole("PEP_POLY_TEXC", xs)
s3d_pep_material_texture(x)      == One("PEP_MAT_TEX", x)

\* An array from a position on: every further piece is sent with the position raised by
\* the bytes of a piece, where the server expects entries.
SplitAt(op, start, xs) ==
    LET ps == Pieces(Len(xs), 8)
    IN  [f \in DOMAIN ps |-> Packet(op, start + ps[f].from, Piece(xs, ps[f]))]

s3d_load_polygon_normals(start, xs)    == SplitAt("LOAD_POLY_NORMAL", start, xs)
s3d_load_line_normals(start, xs)       == SplitAt("LOAD_LINE_NORMAL", start, xs)
s3d_load_polygon_tex_coords(start, xs) == SplitAt("LOAD_POLY_TEXC", start, xs)
s3d_load_materials_a(start, xs)        == SplitAt("LOAD_MAT", start, xs)

s3d_flags_on(f)  == <<Packet("FLAGS_ON", 0, <<f>>)>>
s3d_flags_off(f) == <<Packet("FLAGS_OFF", 0, <<f>>)>>

-----------------------------------------------------------------------------
(* The server's stacks: an object, what a packet says, the object after it.    *)

obj_push_vertex(o, xs) == [o EXCEPT !.vertex = @ \o xs]
obj_push_mat(o, xs)    == [o EXCEPT !.mat = @ \o [i \in DOMAIN xs |-> [xs[i] EXCEPT !.tex = -1]]]
obj_push_poly(o, xs)   == [o EXCEPT !.poly = @ \o [i \in DOMAIN xs |->
                                                     [xs[i] EXCEPT !.n = 0, !.tc = 0]]]
\* A variant that leaves the normals as they come.
obj_push_line_bare(o, xs) ==
    [o EXCEPT !.line = @ \o [i \in DOMAIN xs |-> [id |-> xs[i].id, v |-> xs[i].v, mat |-> xs[i].mat]]]
obj_push_line(o, xs)   == [o EXCEPT !.line = @ \o [i \in DOMAIN xs |-> [xs[i] EXCEPT !.n = 0]]]
obj_push_tex(o, xs)    == [o EXCEPT !.tex = @ \o xs]

\* Field f of the entries start + 1 .. Len(s), at most as many as there are values.
Over(s, start, xs, f) ==
    LET m == Len(s)
        n == IF m < start + Len(xs) THEN m - start ELSE Len(xs)
    IN  [i \in DOMAIN s |-> IF i \in start + 1..start + n THEN [s[i] EXCEPT ![f] = xs[i - start]]
                            ELSE s[i]]
OverFirst(s, xs, f) == Over(s, 0, xs, f)      \* a variant, from the first on
OverLast(s, xs, f) ==
    LET m == Len(s)
        n == IF m < Len(xs) THEN m ELSE Len(xs)
    IN  Over(s, m - n, xs, f)

obj_pep_vertex(o, xs)      == [o EXCEPT !.vertex = OverLast(@, xs, "id")]
obj_pep_mat(o, xs)         == [o EXCEPT !.mat = OverLast(@, xs, "id")]
obj_pep_mat_tex(o, xs)     == [o EXCEPT !.mat = OverLast(@, xs, "tex")]
obj_pep_poly_normal(o, xs) == [o EXCEPT !.poly = OverLast(@, xs, "n")]
obj_pep_poly_texc(o, xs)   == [o EXCEPT !.poly = OverLast(@, xs, "tc")]
obj_pep_line_normal(o, xs) == [o EXCEPT !.line = OverLast(@, xs, "n")]
\* A line is replaced with its vertices, and the normals are those of its vertices again.
obj_pep_line(o, xs) ==
    LET m == Len(o.line)
        n == IF m < Len(xs) THEN m ELSE Len(xs)
    IN  [o EXCEPT !.line = [i \in DOMAIN @ |-> IF i > m - n THEN [xs[i - (m - n)] EXCEPT !.n = 0]
                                               ELSE @[i]]]

obj_load_mat(o, start, xs)         == [o EXCEPT !.mat = Over(@, start, xs, "id")]
obj_load_poly_normal(o, start, xs) == [o EXCEPT !.poly = Over(@, start, xs, "n")]
obj_load_poly_texc(o, start, xs)   == [o EXCEPT !.poly = Over(@, start, xs, "tc")]
obj_load_line_normal(o, start, xs) == [o EXCEPT !.line = Over(@, start, xs, "n")]

Cut(s, n) == IF n >= Len(s) THEN <<>> ELSE SubSeq(s, 1, Len(s) - n)
obj_del_vertex(o, n) == [o EXCEPT !.vertex = Cut(@, n)]
obj_del_mat(o, n)    == [o EXCEPT !.mat = Cut(@, n)]
obj_del_poly(o, n)   == [o EXCEPT !.poly = Cut(@, n)]
obj_del_line(o, n)   == [o EXCEPT !.line = Cut(@, n)]
\* With some textures left their number becomes that of the removed ones, n_tex = n; what
\* lies past the end of the array then is whatever was there before.
obj_del_tex(o, n) == [o EXCEPT !.tex = IF n >= Len(@) THEN <<>>
                                       ELSE IF n > 0 THEN SubSeq(@ \o @, 1, n) ELSE @]
obj_toggle_flags(o, on, fs) == [o EXCEPT !.flags = IF on THEN @ \cup fs ELSE @ \ fs]

\* prot_com_in(): the packets that carry arrays have to have something in them.
PushIn(o, p) ==
    IF p.xs = <<>> THEN o
    ELSE CASE p.op = "PUSH_VERTEX" -> obj_push_vertex(o, p.xs)
           [] p.op = "PUSH_MAT"    -> obj_push_mat(o, p.xs)
           [] p.op = "PUSH_POLY"   -> obj_push_poly(o, p.xs)
           [] p.op = "PUSH_LINE"   -> obj_push_line(o, p.xs)
           [] p.op = "PUSH_TEX"    -> obj_push_tex(o, p.xs)
PepIn(o, p) ==
    CASE p.op = "PEP_POLY_NORMAL" -> obj_pep_poly_normal(o, p.xs)
      [] p.op = "PEP_LINE_NORMAL" -> obj_pep_line_normal(o, p.xs)
      [] p.op = "PEP_POLY_TEXC"   -> obj_pep_poly_texc(o, p.xs)
      [] p.op = "PEP_MAT"         -> obj_pep_mat(o, p.xs)
      [] p.op = "PEP_VERTEX"      -> obj_pep_vertex(o, p.xs)
      [] p.op = "PEP_MAT_TEX"     -> obj_pep_mat_tex(o, p.xs)
      [] p.op = "PEP_LINE"        -> obj_pep_line(o, p.xs)
LoadIn(o, p) ==
    IF p.xs = <<>> THEN o
    ELSE CASE p.op = "LOAD_LINE_NORMAL" -> obj_load_line_normal(o, p.at, p.xs)
           [] p.op = "LOAD_POLY_NORMAL" -> obj_load_poly_normal(o, p.at, p.xs)
           [] p.op = "LOAD_POLY_TEXC"   -> obj_load_poly_texc(o, p.at, p.xs)
           [] p.op = "LOAD_MAT"         -> obj_load_mat(o, p.at, p.xs)
DelIn(o, p) ==
    CASE p.op = "DEL_VERTEX" -> obj_del_vertex(o, Width(p.at))
      [] p.op = "DEL_POLY"   -> obj_del_poly(o, Width(p.at))
      [] p.op = "DEL_LINE"   -> obj_del_line(o, Width(p.at))
      [] p.op = "DEL_MAT"    -> obj_del_mat(o, Width(p.at))
      [] p.op = "DEL_TEX"    -> obj_del_tex(o, Width(p.at))

PushOps == {"PUSH_VERTEX", "PUSH_MAT", "PUSH_POLY", "PUSH_LINE", "PUSH_TEX"}
PepOps  == {"PEP_POLY_NORMAL", "PEP_LINE_NORMAL", "PEP_POLY_TEXC", "PEP_MAT", "PEP_VERTEX",
            "PEP_MAT_TEX", "PEP_LINE"}
LoadOps == {"LOAD_LINE_NORMAL", "LOAD_POLY_NORMAL", "LOAD_POLY_TEXC", "LOAD_MAT"}
DelOps  == {"DEL_VERTEX", "DEL_POLY", "DEL_LINE", "DEL_MAT", "DEL_TEX"}

Carry(o, p) == CASE p.op \in PushOps -> PushIn(o, p)
                 [] p.op \in PepOps  -> PepIn(o, p)
                 [] p.op \in LoadOps -> LoadIn(o, p)
                 [] p.op \in DelOps  -> DelIn(o, p)
                 [] OTHER -> obj_toggle_flags(o, p.op = "FLAGS_ON", {p.xs[1]})

\* The functions that change a stack also drop the display list, except that a removal
\* does not when it empties the stack, and obj_push_tex() never does. Whatever the object
\* has a list for, it is gone after any other packet but one that only turns flags.
RemovedNone(o, p) == FALSE      \* a variant
Removed(o, p) ==
    LET s == CASE p.op = "DEL_VERTEX" -> o.vertex [] p.op = "DEL_POLY" -> o.poly
               [] p.op = "DEL_LINE" -> o.line [] p.op = "DEL_MAT" -> o.mat
               [] p.op = "DEL_TEX" -> o.tex
    IN  Width(p.at) \in 1..Len(s) - 1
DropsList(o, p) == \/ p.op \in PepOps
                   \/ p.op \in PushOps \cup LoadOps /\ p.xs # <<>> /\ p.op # "PUSH_TEX"
                   \/ p.op \in DelOps /\ Removed(o, p)

-----------------------------------------------------------------------------
(* obj_render(): polygons in order, then lines, up to the first with a vertex  *)
(* or a material that does not exist.                                          *)

Normal(o, e) == IF e.n = 0 THEN -o.vertex[e.v + 1].id ELSE e.n
Drawable(o, e) == e.v < Len(o.vertex) /\ e.mat < Len(o.mat)
Colour(o, m) == IF m.tex # -1 /\ m.tex < Len(o.tex) THEN o.tex[m.tex + 1].id ELSE m.id
Upto(o, s) == {i \in DOMAIN s : \A j \in 1..i : Drawable(o, s[j])}

DrawnPolys(o) ==
    [i \in Upto(o, o.poly) |-> LET e == o.poly[i] IN
        <<o.vertex[e.v + 1].id, Colour(o, o.mat[e.mat + 1]), Normal(o, e), e.tc>>]
DrawnLines(o) ==
    IF Upto(o, o.poly) # DOMAIN o.poly THEN <<>>
    ELSE [i \in Upto(o, o.line) |-> LET e == o.line[i] IN
            <<o.vertex[e.v + 1].id, o.mat[e.mat + 1].id, e.n>>]
Drawn(o) == <<DrawnPolys(o), DrawnLines(o)>>

\* calc_normal() writes the normals it has computed into the polygons it reaches; it looks
\* at the vertices of a polygon before obj_render() looks at its material.
CalcNormals(o) ==
    [o EXCEPT !.poly = [i \in DOMAIN o.poly |-> LET e == o.poly[i] IN
        IF (\A j \in 1..i - 1 : Drawable(o, o.poly[j])) /\ e.v < Len(o.vertex)
        THEN [e EXCEPT !.n = Normal(o, e)] ELSE e]]

-----------------------------------------------------------------------------
(* What the requests under way will leave.                                     *)

\* An object after the packets ps, carried out one after the other.
Carried(o, ps) ==
    LET after[i \in 0..Len(ps)] == IF i = 0 THEN o ELSE Carry(after[i - 1], ps[i])
    IN  after[Len(ps)]
\* A normal the server computed, a negative one, counts as none given.
AsGiven(s) == [i \in DOMAIN s |-> IF s[i].n < 0 THEN [s[i] EXCEPT !.n = 0] ELSE s[i]]
Uncomputed(o) == [o EXCEPT !.poly = AsGiven(@)]
Pending == Uncomputed(Carried(obj, chan))

S == INSTANCE Stacks WITH stk <- Pending

Entries(k, n, ix) == [i \in 1..n |-> S!Entry(k, S!Values(n)[i], ix)]
Single(xs, ps) == IF Len(xs) = 1 THEN {ps} ELSE {}

Request(packets) ==
    /\ calls < MaxCalls
    /\ Len(chan) + Len(packets) <= MaxChan
    /\ chan' = chan \o packets
    /\ calls' = IF packets = <<>> THEN calls ELSE calls + 1
    /\ UNCHANGED <<obj, dplist>>

Count(k, n) == pushed' = [pushed EXCEPT ![k] = @ + n]

PushVertex == \E n \in Lens : LET xs == Entries("vertex", n, 0) IN
    /\ \E ps \in {s3d_push_vertices(xs)} \cup Single(xs, s3d_push_vertex(xs[1])) : Request(ps)
    /\ Count("vertex", n)
PushMaterial == \E n \in Lens : LET xs == Entries("mat", n, 0) IN
    /\ \E ps \in {s3d_push_materials_a(xs)} \cup Single(xs, s3d_push_material(xs[1]))
                    \cup Single(xs, s3d_push_material_a(xs[1])) : Request(ps)
    /\ Count("mat", n)
PushPolygon == \E n \in Lens, ix \in Indices : LET xs == Entries("poly", n, ix) IN
    /\ \E ps \in {s3d_push_polygons(xs)} \cup Single(xs, s3d_push_polygon(xs[1])) : Request(ps)
    /\ Count("poly", n)
PushLine == \E n \in Lens, ix \in Indices : LET xs == Entries("line", n, ix) IN
    /\ \E ps \in {s3d_push_lines(xs)} \cup Single(xs, s3d_push_line(xs[1])) : Request(ps)
    /\ Count("line", n)
\* A texture is pushed before what is drawn with it, unless a program is "late".
PushTexture == \E n \in Lens : LET xs == Entries("tex", n, 0) IN
    /\ "latetex" \in Uses \/ pushed["mat"] = 0
    /\ \E ps \in {s3d_push_textures(xs)} \cup Single(xs, s3d_push_texture(xs[1])) : Request(ps)
    /\ Count("tex", n)

\* A program knows how much it has pushed, and pops less than all of it; numbers that need
\* more than sixteen bits, an emptied stack, and textures unless half of them are popped, are
\* uses of their own.
Pops(k, n) ==
    /\ "popwide" \in Uses \/ n < 2^NumWidth
    /\ "popall" \in Uses \/ n < pushed[k]
    /\ "poptex" \in Uses \/ k # "tex" \/ 2 * n = pushed[k]
    /\ pushed' = [pushed EXCEPT ![k] = IF n < @ THEN @ - n ELSE 0]
PopVertex   == \E n \in Lens : Pops("vertex", n) /\ Request(s3d_pop_vertex(n))
PopMaterial == \E n \in Lens : Pops("mat", n) /\ Request(s3d_pop_material(n))
PopPolygon  == \E n \in Lens : Pops("poly", n) /\ Request(s3d_pop_polygon(n))
PopLine     == \E n \in Lens : Pops("line", n) /\ Request(s3d_pop_line(n))
PopTexture  == \E n \in Lens : Pops("tex", n) /\ Request(s3d_pop_texture(n))

PepVertices == \E n \in Lens : LET xs == S!Values(n) IN
    /\ \E ps \in {s3d_pep_vertices(xs)} \cup Single(xs, s3d_pep_vertex(xs[1])) : Request(ps)
    /\ UNCHANGED pushed
PepMaterials == \E n \in Lens : LET xs == S!Values(n) IN
    /\ \E ps \in {s3d_pep_materials_a(xs)} \cup Single(xs, s3d_pep_material(xs[1]))
                    \cup Single(xs, s3d_pep_material_a(xs[1])) : Request(ps)
    /\ UNCHANGED pushed
PepMaterialTexture == \E t \in Indices :
    Request(s3d_pep_material_texture(t)) /\ UNCHANGED pushed
PepNormals == \E n \in Lens : LET xs == S!Values(n) IN
    /\ \E ps \in {s3d_pep_polygon_normals(xs), s3d_pep_line_normals(xs)} : Request(ps)
    /\ UNCHANGED pushed
PepTexCoords == \E n \in Lens : LET xs == S!Values(n) IN
    /\ \E ps \in {s3d_pep_polygon_tex_coords(xs)}
                    \cup Single(xs, s3d_pep_polygon_tex_coord(xs[1])) : Request(ps)
    /\ UNCHANGED pushed
PepLines == \E n \in Lens, ix \in Indices : LET xs == Entries("line", n, ix) IN
    /\ "peplines" \in Uses \/ n = 1
    /\ \E ps \in {s3d_pep_lines(xs)} \cup Single(xs, s3d_pep_line(xs[1])) : Request(ps)
    /\ UNCHANGED pushed
LoadArray == \E n \in Lens, start \in Starts : LET xs == S!Values(n) IN
    /\ "load2" \in Uses \/ n * Bytes + 8 <= MF_LEN
    /\ \E ps \in {s3d_load_polygon_normals(start, xs), s3d_load_line_normals(start, xs),
                  s3d_load_polygon_tex_coords(start, xs), s3d_load_materials_a(start, xs)} :
          Request(ps)
    /\ UNCHANGED pushed
TurnFlags == \E f \in S!Flags :
    /\ \E ps \in {s3d_flags_on(f), s3d_flags_off(f)} : Request(ps)
    /\ UNCHANGED pushed

\* The server reads a packet and carries it out.
ProtComIn ==
    /\ chan # <<>>
    /\ obj' = Carry(obj, Head(chan))
    /\ dplist' = IF DropsList(obj, Head(chan)) THEN None ELSE dplist
    /\ chan' = Tail(chan)
    /\ UNCHANGED <<pushed, calls>>

\* A frame: an object without a display list gets one.
Render ==
    /\ dplist = None
    /\ dplist' = Drawn(obj)
    /\ obj' = CalcNormals(obj)
    /\ UNCHANGED <<chan, pushed, calls>>

Init == /\ obj \in Given
        /\ dplist = None
        /\ chan = <<>>
        /\ pushed = [k \in S!Kinds |-> Len(obj[k])]
        /\ calls = 0

Next == \/ PushVertex \/ PushMaterial \/ PushPolygon \/ PushLine \/ PushTexture
        \/ PopVertex \/ PopMaterial \/ PopPolygon \/ PopLine \/ PopTexture
        \/ PepVertices \/ PepMaterials \/ PepMaterialTexture \/ PepNormals \/ PepTexCoords
        \/ PepLines \/ LoadArray \/ TurnFlags
        \/ ProtComIn \/ Render

Spec == Init /\ [][Next]_vars

-----------------------------------------------------------------------------
\* A request, however it was split into packets and whichever of the two sides cut it short,
\* does to the stacks what the comment above it in proto_out.c says (Stacks.tla).
ImplementsStacks == S!Spec

\* What is shown is what the object holds: whatever changes the picture an object makes has
\* obj_render() compile it again (the "freeing display list to get new data" of object.c).
ListIsCurrent == dplist # None => dplist = Drawn(obj)

=============================================================================
