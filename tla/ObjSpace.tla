------------------------------ MODULE ObjSpace ------------------------------
(* The space a program's objects are in, and the sphere around them outside of *)
(* which render_by_mcp() does not draw the program.                            *)
(* Space has one dimension here: a position is a number, a matrix a place a    *)
(* and a factor b, a turn by half a circle the factor -1.                      *)
EXTENDS Integers, Sequences, SequencesExt, FiniteSetsExt

VARIABLES
    object,     \* p->object[], a record for each oid that is in use
    mcp_r,      \* the radius of the program's virtual object, mcp_o->r
    told        \* the radius last reported to the MCP

Abs(x) == IF x < 0 THEN -x ELSE x
Furthest(o) == IF o.points = <<>> THEN 0 ELSE Max({Abs(x) : x \in ToSet(o.points)})

\* into_position(): the matrix of an object, those of its parents first.
Identity == [a |-> 0, b |-> 1]
Positions(os) ==
    LET position[i \in DOMAIN os] ==
            LET up == IF os[i].link = -1 THEN Identity ELSE position[os[i].link]
            IN  [a |-> up.a + up.b * os[i].translate, b |-> up.b * os[i].scale * os[i].rotate]
    IN  position
Position(os, i) == Positions(os)[i]

-----------------------------------------------------------------------------
\* The matrix an object is drawn with is the one its place and its links make, however many
\* objects a command on one of them has moved.
MatricesAreCurrent == \A i \in DOMAIN object :
    object[i].m = Position(object, i) /\ object[i].o_r = Abs(object[i].m.a)

\* The sphere around a program, outside of which render_by_mcp() does not draw it, holds
\* everything the program shows, and the MCP has not been told of a smaller one.
Shown(i) == IF object[i].clone = -1 THEN Furthest(object[i]) ELSE Furthest(object[object[i].clone])
SphereCovers == \A i \in DOMAIN object :
    Shown(i) > 0 => /\ Abs(object[i].m.a) + Abs(object[i].m.b) * Shown(i) <= mcp_r
                    /\ mcp_r <= told

\* However many objects a command moves, each is drawn where its place and its links put it,
\* and the sphere outside of which render_by_mcp() does not draw a program holds all it shows.
SizesAreCurrent == MatricesAreCurrent /\ SphereCovers
=============================================================================
