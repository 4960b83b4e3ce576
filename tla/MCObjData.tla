----------------------------- MODULE MCObjData -----------------------------
(* ObjData with an object that holds nothing, or one that a program has given  *)
(* vertices, materials, two polygons and a line, the second polygon with a     *)
(* normal of its own.                                                          *)
EXTENDS ObjData

Something ==
    [vertex |-> <<[id |-> 1], [id |-> 2]>>,
     mat    |-> <<[id |-> 3, tex |-> -1], [id |-> 4, tex |-> 3]>>,
     poly   |-> <<[id |-> 5, v |-> 0, mat |-> 1, n |-> 0, tc |-> 0],
                  [id |-> 6, v |-> 1, mat |-> 0, n |-> 99, tc |-> 0]>>,
     line   |-> <<[id |-> 7, v |-> 1, mat |-> 0, n |-> 0]>>,
     tex    |-> <<[id |-> 8], [id |-> 9]>>,
     flags  |-> {}]

Nothing == [vertex |-> <<>>, mat |-> <<>>, poly |-> <<>>, line |-> <<>>, tex |-> <<>>, flags |-> {}]
Objects == {Nothing, Something}
=============================================================================
