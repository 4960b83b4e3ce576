------------------------------- MODULE Stacks -------------------------------
(* What a program may rely on when it fills an object: five stacks of          *)
(* vertices, materials, polygons, lines and textures, and a set of flags. A    *)
(* request pushes a whole array, takes some of the last entries, gives a field *)
(* of the last entries, or of those from a position on, new values, or turns   *)
(* flags on and off, as the comments in libs3d/proto_out.c promise for         *)
(* s3d_push_*(), s3d_pop_*(), s3d_pep_*(), s3d_load_*() and s3d_flags_*().     *)
EXTENDS Integers, Sequences

CONSTANTS
    Lens,     \* the lengths of the arrays of a request
    Starts,   \* the positions a load begins at
    Indices,  \* the vertices and materials a polygon or a line refers to
    MaxCalls, \* how many requests a program makes
    Given     \* what an object may hold already

VARIABLES
    stk,      \* the stacks, the entries of each a record of fields
    pushed,   \* how many entries of each kind there are, as the program counts them
    calls     \* the requests so far: the values of a request carry its number

Kinds == {"vertex", "mat", "poly", "line", "tex"}
Flags == {"visible", "selectable", "pointable"}

Empty == [vertex |-> <<>>, mat |-> <<>>, poly |-> <<>>, line |-> <<>>, tex |-> <<>>,
          flags |-> {}]

\* The values a request gives: all different, and different from those of others.
Values(n) == [i \in 1..n |-> 10 * (calls + 1) + i]

\* An entry as it is pushed; fields that only later requests set are 0, or -1 for no texture.
Entry(k, x, ix) ==
    CASE k = "vertex" -> [id |-> x]
      [] k = "mat"    -> [id |-> x, tex |-> -1]
      [] k = "poly"   -> [id |-> x, v |-> ix, mat |-> ix, n |-> 0, tc |-> 0]
      [] k = "line"   -> [id |-> x, v |-> ix, mat |-> ix, n |-> 0]
      [] k = "tex"    -> [id |-> x]

Fields(k) == DOMAIN Entry(k, 0, 0)

\* The fields that can be given to the last entries, and to those from a position on.
PepFields == {<<"vertex", "id">>, <<"mat", "id">>, <<"poly", "n">>, <<"poly", "tc">>,
              <<"line", "n">>}
LoadFields == {<<"mat", "id">>, <<"poly", "n">>, <<"poly", "tc">>, <<"line", "n">>}

\* Field f of the entries after position start becomes xs, as far as both reach.
Give(s, f, start, xs) ==
    [i \in DOMAIN s |-> IF i - start \in DOMAIN xs THEN [s[i] EXCEPT ![f] = xs[i - start]]
                        ELSE s[i]]

Last(s, n) == IF n < Len(s) THEN Len(s) - n ELSE 0

Called == calls < MaxCalls /\ calls' = calls + 1

Push == /\ Called
        /\ \E k \in Kinds, n \in Lens, ix \in Indices :
              /\ stk' = [stk EXCEPT ![k] = @ \o [i \in 1..n |-> Entry(k, Values(n)[i], ix)]]
              /\ pushed' = [pushed EXCEPT ![k] = @ + n]
Pop ==  /\ Called
        /\ \E k \in Kinds, n \in Lens  :
              /\ stk' = [stk EXCEPT ![k] = SubSeq(@, 1, Last(@, n))]
              /\ pushed' = [pushed EXCEPT ![k] = Last(stk[k], n)]
Pep ==  /\ Called /\ UNCHANGED pushed
        /\ \E kf \in PepFields, n \in Lens :
              stk' = [stk EXCEPT ![kf[1]] = Give(@, kf[2], Last(@, n), Values(n))]
\* The texture of the last material is one of a number.
PepTexture == /\ Called /\ UNCHANGED pushed
              /\ \E t \in Indices : stk' = [stk EXCEPT !.mat = Give(@, "tex", Last(@, 1), <<t>>)]
\* A line is given anew with its vertices; its normals are gone (s3d_pep_lines).
PepLine == /\ Called /\ UNCHANGED pushed
           /\ \E n \in Lens, ix \in Indices :
                 stk' = [stk EXCEPT !.line =
                    [i \in DOMAIN @ |-> IF i > Last(@, n)
                                        THEN Entry("line", Values(n)[i - Last(@, n)], ix)
                                        ELSE @[i]]]
Load == /\ Called /\ UNCHANGED pushed
        /\ \E kf \in LoadFields, n \in Lens, start \in Starts :
              stk' = [stk EXCEPT ![kf[1]] = Give(@, kf[2], start, Values(n))]
Toggle == /\ Called /\ UNCHANGED pushed
          /\ \E f \in Flags, on \in BOOLEAN :
                stk' = [stk EXCEPT !.flags = IF on THEN @ \cup {f} ELSE @ \ {f}]

Init == stk \in Given /\ pushed = [k \in Kinds |-> Len(stk[k])] /\ calls = 0
Next == Push \/ Pop \/ Pep \/ PepTexture \/ PepLine \/ Load \/ Toggle
Spec == Init /\ [][Next]_<<stk, pushed, calls>>
=============================================================================
