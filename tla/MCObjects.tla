----------------------------- MODULE MCObjects -----------------------------
(* What the server keeps of a program's objects, for TLC: the stacks of one    *)
(* object and the requests that fill them (ObjData), and where the objects are *)
(* and how large (Sizes). They share nothing: a behaviour picks one in its     *)
(* first state, and the other rests.                                           *)
EXTENDS ObjData, ObjSpace

VARIABLES
    on,         \* "data" or "sizes"
    biggest, steps

\* Three objects, put in two places, in two sizes, with up to two vertices each.
Sizes == INSTANCE ObjSize WITH MaxOid <- 2, Places <- {0, 4}, Scales <- {1, 2}, Points <- {4, 8},
                               MaxPoints <- 2, MaxSteps <- 8, Uses <- {}

datavars == vars
sizevars == <<object, biggest, mcp_r, told, steps>>
allvars  == <<on, datavars, sizevars>>

\* An object that a program has given vertices, materials, two polygons and a line, the
\* second polygon with a normal of its own.
Something ==
    [vertex |-> <<[id |-> 1], [id |-> 2]>>,
     mat    |-> <<[id |-> 3, tex |-> -1], [id |-> 4, tex |-> 3]>>,
     poly   |-> <<[id |-> 5, v |-> 0, mat |-> 1, n |-> 0, tc |-> 0],
                  [id |-> 6, v |-> 1, mat |-> 0, n |-> 99, tc |-> 0]>>,
     line   |-> <<[id |-> 7, v |-> 1, mat |-> 0, n |-> 0]>>,
     tex    |-> <<[id |-> 8], [id |-> 9]>>,
     flags  |-> {}]
Nothing == [vertex |-> <<>>, mat |-> <<>>, poly |-> <<>>, line |-> <<>>, tex |-> <<>>, flags |-> {}]
Objects == {Nothing, Something}

-----------------------------------------------------------------------------
SuiteInit ==
    /\ on \in {"data", "sizes"}
    /\ Init /\ (on # "data" => obj = Nothing)
    /\ Sizes!Init

DataTurn  == on = "data" /\ UNCHANGED <<on, sizevars>>
SizesTurn == on = "sizes" /\ UNCHANGED <<on, datavars>>

SuiteNext ==
    \/ DataTurn /\ PushVertex
    \/ DataTurn /\ PushMaterial
    \/ DataTurn /\ PushPolygon
    \/ DataTurn /\ PushLine
    \/ DataTurn /\ PushTexture
    \/ DataTurn /\ PopVertex
    \/ DataTurn /\ PopMaterial
    \/ DataTurn /\ PopPolygon
    \/ DataTurn /\ PopLine
    \/ DataTurn /\ PopTexture
    \/ DataTurn /\ PepVertices
    \/ DataTurn /\ PepMaterials
    \/ DataTurn /\ PepMaterialTexture
    \/ DataTurn /\ PepNormals
    \/ DataTurn /\ PepTexCoords
    \/ DataTurn /\ PepLines
    \/ DataTurn /\ LoadArray
    \/ DataTurn /\ TurnFlags
    \/ DataTurn /\ ProtComIn
    \/ DataTurn /\ Render
    \/ SizesTurn /\ Sizes!New
    \/ \E i \in DOMAIN object :
        \/ SizesTurn /\ Sizes!Translate(i)
        \/ SizesTurn /\ Sizes!Rotate(i)
        \/ SizesTurn /\ Sizes!Scale(i)
        \/ SizesTurn /\ Sizes!Link(i)
        \/ SizesTurn /\ Sizes!Unlink(i)
        \/ SizesTurn /\ Sizes!PushVertex(i)
        \/ SizesTurn /\ Sizes!PepVertex(i)
        \/ SizesTurn /\ Sizes!DelVertex(i)
        \/ SizesTurn /\ Sizes!Clone(i)
        \/ SizesTurn /\ Sizes!Del(i)

SuiteSpec == SuiteInit /\ [][SuiteNext]_allvars

=============================================================================
