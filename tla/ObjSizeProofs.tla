--------------------------- MODULE ObjSizeProofs ---------------------------
(***************************************************************************)
(* Proofs about ObjSize: a program's objects are drawn where they are      *)
(* placed, and the sphere by which the program is drawn or not holds what  *)
(* they show, for any number of objects.                                   *)
(* The lists of links make a tree with an order of its objects, along      *)
(* which parents come first and lists go on. So obj_pos_update(), which    *)
(* calls itself, reaches all that hangs on the object of a command and     *)
(* nothing else, places each after its parent and checks each after        *)
(* placing it. The radius of an object covers its vertices times its       *)
(* scale, a clone's those of its source, which is marked; what others link *)
(* to has scale 1, so the factor of a matrix is the scale, up to its sign. *)
(***************************************************************************)
EXTENDS ObjSize, SequenceTheorems, WellFoundedInduction, TLAPS

-----------------------------------------------------------------------------
(* Induction, over a set of numbers.                                       *)
Below == {p \in Nat \X Nat : p[1] < p[2]}
LEMMA BelowWF == IsWellFoundedOn(Below, Nat)
BY NatLessThanWellFounded DEF OpToRel, Below

LEMMA Least ==
  ASSUME NEW U \in SUBSET Nat, U # {}
  PROVE  \E x \in U : \A y \in U : x <= y
<1>1. PICK x \in U : \A y \in U : ~ (<<y, x>> \in Below)
  BY BelowWF, WFMin
<1>2. ASSUME NEW y \in U PROVE x <= y
  <2>1. x \in Nat /\ y \in Nat /\ (y < x => <<y, x>> \in Below)
    BY DEF Below
  <2> QED
    BY <1>1, <2>1
<1> QED
  BY <1>2

LEMMA SetInduction ==
  ASSUME NEW T, 0 \in T, \A k \in Nat : k \in T => k + 1 \in T
  PROVE  Nat \subseteq T
<1> SUFFICES ASSUME Nat \ T # {} PROVE FALSE
  OBVIOUS
<1>1. PICK x \in Nat \ T : \A y \in Nat \ T : x <= y
  BY Least
<1>2. x # 0 /\ x - 1 \in Nat /\ (x - 1) + 1 = x
  OBVIOUS
<1>3. x - 1 \in T
  BY <1>1, <1>2
<1> QED
  BY <1>2, <1>3

-----------------------------------------------------------------------------
(* Numbers: the smallest and the greatest of a set, products and quotients *)
LEMMA MinIs ==
  ASSUME NEW U \in SUBSET Nat, U # {}
  PROVE  Min(U) \in U /\ \A y \in U : Min(U) <= y
BY Least DEF Min

LEMMA GreatestAt ==
  ASSUME NEW n \in Nat, NEW J \in SUBSET (0 .. n), J # {}, NEW F \in [J -> Int]
  PROVE  \E j \in J : \A k \in J : F[k] <= F[j]
<1> DEFINE Has(U, G) == \E j \in U : \A k \in U : G[k] <= G[j]
           T == {x \in Nat : \A U \in SUBSET (0 .. x) : U # {} => \A G \in [U -> Int] : Has(U, G)}
<1>1. 0 \in T
  <2> SUFFICES ASSUME NEW U \in SUBSET (0 .. 0), U # {}, NEW G \in [U -> Int] PROVE Has(U, G)
    OBVIOUS
  <2>1. \A x \in U : x = 0
    OBVIOUS
  <2>2. PICK j \in U : TRUE
    OBVIOUS
  <2>3. G[j] \in Int /\ \A k \in U : k = j
    BY <2>1
  <2> QED
    BY <2>3
<1>2. ASSUME NEW x \in Nat, x \in T PROVE x + 1 \in T
  <2> SUFFICES ASSUME NEW U \in SUBSET (0 .. x + 1), U # {}, NEW G \in [U -> Int] PROVE Has(U, G)
    OBVIOUS
  <2> DEFINE V == U \ {x + 1}
             H == [k \in V |-> G[k]]
  <2>1. V \in SUBSET (0 .. x) /\ H \in [V -> Int]
    OBVIOUS
  <2>2. CASE V = {}
    <3>1. \A k \in U : k = x + 1
      BY <2>2
    <3>2. PICK j \in U : TRUE
      OBVIOUS
    <3>3. G[j] \in Int /\ \A k \in U : k = j
      BY <3>1
    <3> QED
      BY <3>3
  <2>3. CASE V # {}
    <3>1. PICK j \in V : \A k \in V : H[k] <= H[j]
      <4> HIDE DEF V, H
      <4> QED
        BY <1>2, <2>1, <2>3
    <3>2. \A k \in V : G[k] <= G[j]
      BY <3>1
    <3>3. CASE x + 1 \in U /\ G[x + 1] > G[j]
      <4>1. \A k \in U : G[k] <= G[x + 1]
        <5> TAKE k \in U
        <5>1. G[k] \in Int /\ G[j] \in Int /\ G[x + 1] \in Int
          BY <3>1, <3>3
        <5>2. k = x + 1 \/ k \in V
          OBVIOUS
        <5> QED
          BY <3>2, <3>3, <5>1, <5>2
      <4> QED
        BY <3>3, <4>1
    <3>4. CASE x + 1 \notin U \/ G[x + 1] <= G[j]
      <4>1. \A k \in U : G[k] <= G[j]
        BY <3>2, <3>4
      <4> QED
        BY <3>1, <4>1
    <3>5. x + 1 \in U => G[x + 1] \in Int /\ G[j] \in Int
      BY <3>1
    <3> QED
      BY <3>3, <3>4, <3>5
  <2> QED
    BY <2>2, <2>3
<1>3. n \in T
  <2> HIDE DEF T
  <2>1. Nat \subseteq T
    BY <1>1, <1>2, SetInduction
  <2> QED
    BY <2>1
<1> QED
  BY <1>3

LEMMA MaxIs ==
  ASSUME NEW n \in Nat, NEW J \in SUBSET (0 .. n), J # {}, NEW F \in [J -> Int],
         NEW S, S = {F[j] : j \in J}
  PROVE  Max(S) \in S /\ \A x \in S : x <= Max(S)
<1>1. PICK j \in J : \A k \in J : F[k] <= F[j]
  BY GreatestAt
<1>2. F[j] \in S /\ \A y \in S : F[j] >= y
  BY <1>1
<1>3. Max(S) \in S /\ \A y \in S : Max(S) >= y
  BY <1>2 DEF Max
<1>4. S \subseteq Int
  OBVIOUS
<1> QED
  BY <1>3, <1>4

LEMMA MaxOfTwo ==
  ASSUME NEW a \in Int, NEW b \in Int
  PROVE  Max({a, b}) \in Int /\ Max({a, b}) \in {a, b} /\ a <= Max({a, b}) /\ b <= Max({a, b})
<1>1. \E x \in {a, b} : \A y \in {a, b} : x >= y
  <2>1. CASE a >= b
    BY <2>1
  <2>2. CASE b >= a
    BY <2>2
  <2> QED
    BY <2>1, <2>2
<1>2. Max({a, b}) \in {a, b} /\ \A y \in {a, b} : Max({a, b}) >= y
  BY <1>1 DEF Max
<1> QED
  BY <1>2

LEMMA AbsIs ==
  ASSUME NEW x \in Int
  PROVE  Abs(x) \in Nat /\ (x >= 0 => Abs(x) = x) /\ (x < 0 => Abs(x) = -x) /\ Abs(-x) = Abs(x)
BY DEF Abs

LEMMA Product ==
  ASSUME NEW a \in Nat, NEW b \in Nat, NEW c \in Nat, b <= c
  PROVE  a * b \in Nat /\ a * b <= a * c
<1> DEFINE T == {k \in Nat : k * b \in Nat /\ k * b <= k * c /\ k * c \in Nat}
<1>1. 0 \in T
  OBVIOUS
<1>2. ASSUME NEW k \in Nat, k \in T PROVE k + 1 \in T
  <2>1. (k + 1) * b = k * b + b /\ (k + 1) * c = k * c + c
    OBVIOUS
  <2> QED
    BY <1>2, <2>1
<1>3. a \in T
  <2> HIDE DEF T
  <2>1. Nat \subseteq T
    BY <1>1, <1>2, SetInduction
  <2> QED
    BY <2>1
<1> QED
  BY <1>3

LEMMA Quotient ==
  ASSUME NEW a \in Nat, NEW b \in Nat \ {0}, NEW c \in Nat, b * c <= a
  PROVE  a \div b \in Nat /\ c <= a \div b
<1>1. a \div b \in Nat /\ a < b * (a \div b) + b
  OBVIOUS
<1>2. ASSUME a \div b < c PROVE FALSE
  <2> DEFINE q == a \div b
  <2>1. q \in Nat /\ q + 1 \in Nat /\ q + 1 <= c /\ b \in Nat
    BY <1>1, <1>2
  <2> HIDE DEF q
  <2>2. b * (q + 1) <= b * c
    BY <2>1, Product
  <2>3. b * (q + 1) = b * q + b
    BY <2>1
  <2>4. b * q \in Nat /\ b * c \in Nat
    BY <2>1, Product
  <2>5. a < b * q + b
    BY <1>1 DEF q
  <2> QED
    BY <2>2, <2>3, <2>4, <2>5
<1> QED
  BY <1>1, <1>2

-----------------------------------------------------------------------------
(* Tables of objects.  A link leads to an object that was numbered before; *)
(* so were those that come before one in a list.                           *)
Matrix == [a : Int, b : Int]
Object == [translate : Int, rotate : {1, -1}, scale : Nat \ {0}, m : Matrix, o_r : Nat, r : Nat,
           points : Seq(Int), link : Int, sub : Seq(Int), clone : Int, clone_src : BOOLEAN]
Tables == UNION {[D -> Object] : D \in SUBSET Oids}

Listed(os) ==
  /\ \A i \in DOMAIN os : os[i].link # -1 => os[i].link \in DOMAIN os
  /\ \A p \in DOMAIN os : \A n \in 1 .. Len(os[p].sub) :
       os[p].sub[n] \in DOMAIN os /\ os[os[p].sub[n]].link = p
  /\ \A i \in DOMAIN os : os[i].link # -1 =>
       \E n \in 1 .. Len(os[os[i].link].sub) : os[os[i].link].sub[n] = i
Ordered(os, M, ord) ==
  /\ M \in Nat /\ ord \in [DOMAIN os -> 0 .. M]
  /\ \A i \in DOMAIN os : os[i].link # -1 => ord[os[i].link] < ord[i]
  /\ \A p \in DOMAIN os : \A n, k \in 1 .. Len(os[p].sub) :
       n < k => ord[os[p].sub[n]] < ord[os[p].sub[k]]
Tree(os) == Listed(os) /\ \E M, ord : Ordered(os, M, ord)

LEMMA ObjectAt ==
  ASSUME NEW os \in Tables, NEW i \in DOMAIN os
  PROVE  os[i] \in Object /\ i \in Oids /\ DOMAIN os \subseteq Oids /\ os \in [DOMAIN os -> Object]
BY DEF Tables

LEMMA LinkAt ==
  ASSUME NEW os \in Tables, NEW M, NEW ord, Listed(os), Ordered(os, M, ord),
         NEW i \in DOMAIN os
  PROVE  /\ M \in Nat /\ ord[i] \in 0 .. M
         /\ os[i].link # -1 => /\ os[i].link \in DOMAIN os
                               /\ ord[os[i].link] < ord[i] /\ ord[os[i].link] \in 0 .. M
BY DEF Listed, Ordered

-----------------------------------------------------------------------------
(* Matrices: the one of an object is made of those it is linked to.        *)
Climb(os, i, f) ==
  LET up == IF os[i].link = -1 THEN Identity ELSE f[os[i].link]
  IN  [a |-> up.a + up.b * os[i].translate, b |-> up.b * os[i].scale * os[i].rotate]

LEMMA ClimbIs ==
  ASSUME NEW os \in Tables, NEW i \in DOMAIN os, NEW f,
         os[i].link # -1 => f[os[i].link] \in Matrix
  PROVE  Climb(os, i, f) \in Matrix
<1>1. os[i].translate \in Int /\ os[i].scale \in Int /\ os[i].rotate \in Int
  BY ObjectAt DEF Object
<1> DEFINE up == IF os[i].link = -1 THEN Identity ELSE f[os[i].link]
<1>2. up \in Matrix
  BY DEF Identity, Matrix
<1>3. Climb(os, i, f) = [a |-> up.a + up.b * os[i].translate, b |-> up.b * os[i].scale * os[i].rotate]
  BY DEF Climb
<1> HIDE DEF up
<1>4. up.a \in Int /\ up.b \in Int
  BY <1>2 DEF Matrix
<1>5. up.a + up.b * os[i].translate \in Int /\ up.b * os[i].scale * os[i].rotate \in Int
  BY <1>1, <1>4
<1> QED
  BY <1>3, <1>5 DEF Matrix

LEMMA ClimbExists ==
  ASSUME NEW os \in Tables, Tree(os)
  PROVE  \E f \in [DOMAIN os -> Matrix] : \A i \in DOMAIN os : f[i] = Climb(os, i, f)
<1>1. PICK M, ord : Listed(os) /\ Ordered(os, M, ord)
  BY DEF Tree
<1> DEFINE Lower(n) == {i \in DOMAIN os : ord[i] < n}
           Made(n, f) == f \in [Lower(n) -> Matrix] /\ \A i \in Lower(n) : f[i] = Climb(os, i, f)
           T == {n \in Nat : \E f : Made(n, f)}
<1>2. 0 \in T
  <2> DEFINE f == [i \in Lower(0) |-> Identity]
  <2>1. Lower(0) = {}
    BY <1>1, LinkAt
  <2>2. f \in [Lower(0) -> Matrix]
    BY <2>1
  <2>3. Made(0, f)
    BY <2>1, <2>2
  <2> QED
    BY <2>3
<1>3. ASSUME NEW n \in Nat, n \in T PROVE n + 1 \in T
  <2>1. PICK f : Made(n, f)
    BY <1>3
  <2> DEFINE g == [i \in Lower(n + 1) |-> IF i \in Lower(n) THEN f[i] ELSE Climb(os, i, f)]
  <2>2. \A i \in Lower(n + 1) : os[i].link # -1 => os[i].link \in Lower(n) /\ os[i].link \in Lower(n + 1)
    <3> TAKE i \in Lower(n + 1)
    <3> HAVE os[i].link # -1
    <3>1. os[i].link \in DOMAIN os /\ ord[os[i].link] < ord[i] /\ ord[i] < n + 1
          /\ ord[i] \in Nat /\ ord[os[i].link] \in Nat
      BY <1>1, LinkAt
    <3> QED
      BY <3>1
  <2>3. \A i \in Lower(n) : i \in Lower(n + 1)
    <3> TAKE i \in Lower(n)
    <3>1. ord[i] \in Nat
      BY <1>1, LinkAt
    <3> QED
      BY <3>1
  <2>4. \A i \in Lower(n + 1) : Climb(os, i, g) = Climb(os, i, f) /\ Climb(os, i, f) \in Matrix
    <3> TAKE i \in Lower(n + 1)
    <3> DEFINE p == os[i].link
    <3>1. p # -1 => p \in Lower(n) /\ g[p] = f[p] /\ f[p] \in Matrix
      BY <2>1, <2>2
    <3>2. i \in DOMAIN os
      OBVIOUS
    <3> HIDE DEF g, Lower
    <3>3. Climb(os, i, g) = Climb(os, i, f)
      BY <3>1 DEF Climb
    <3>4. Climb(os, i, f) \in Matrix
      BY <3>1, <3>2, ClimbIs
    <3> QED
      BY <3>3, <3>4
  <2>5. \A i \in Lower(n) : f[i] \in Matrix /\ f[i] = Climb(os, i, f)
    BY <2>1
  <2>6. g \in [Lower(n + 1) -> Matrix]
    BY <2>4, <2>5
  <2>7. \A i \in Lower(n + 1) : g[i] = Climb(os, i, g)
    BY <2>4, <2>5
  <2>8. Made(n + 1, g)
    BY <2>6, <2>7
  <2> HIDE DEF Made, g
  <2> QED
    BY <2>8
<1>4. M + 1 \in T
  <2> HIDE DEF T
  <2>1. Nat \subseteq T
    BY <1>2, <1>3, SetInduction
  <2> QED
    BY <1>1, <2>1 DEF Ordered
<1>5. PICK f : Made(M + 1, f)
  BY <1>4
<1>6. Lower(M + 1) = DOMAIN os
  BY <1>1, LinkAt
<1> QED
  BY <1>5, <1>6

(* Where two tables agree, on a set of objects with all they are linked    *)
(* to, their matrices do.                                                  *)
PlacedAlike(os, ot, i) ==
  /\ os[i].link = ot[i].link /\ os[i].translate = ot[i].translate
  /\ os[i].scale = ot[i].scale /\ os[i].rotate = ot[i].rotate
Closed(os, S) == \A i \in S : os[i].link # -1 => os[i].link \in S

LEMMA ClimbsAgree ==
  ASSUME NEW os \in Tables, Tree(os), NEW ot, NEW S \in SUBSET DOMAIN os, Closed(os, S),
         \A i \in S : PlacedAlike(os, ot, i),
         NEW f, \A i \in S : f[i] = Climb(os, i, f),
         NEW g, \A i \in S : g[i] = Climb(ot, i, g)
  PROVE  \A i \in S : f[i] = g[i]
<1>1. PICK M, ord : Listed(os) /\ Ordered(os, M, ord)
  BY DEF Tree
<1> DEFINE T == {n \in Nat : \A i \in S : ord[i] < n => f[i] = g[i]}
<1>2. 0 \in T
  BY <1>1, LinkAt
<1>3. ASSUME NEW n \in Nat, n \in T PROVE n + 1 \in T
  <2> SUFFICES ASSUME NEW i \in S, ord[i] < n + 1 PROVE f[i] = g[i]
    OBVIOUS
  <2> DEFINE p == os[i].link
  <2>1. p # -1 => f[p] = g[p]
    <3> HAVE p # -1
    <3>1. p \in S
      BY DEF Closed
    <3>2. ord[p] < ord[i] /\ ord[i] \in Nat /\ ord[p] \in Nat
      BY <1>1, LinkAt
    <3> QED
      BY <1>3, <3>1, <3>2
  <2>2. Climb(os, i, f) = Climb(ot, i, g)
    BY <2>1 DEF Climb, PlacedAlike
  <2> QED
    BY <2>2
<1>4. M + 1 \in T
  <2> HIDE DEF T
  <2>1. Nat \subseteq T
    BY <1>2, <1>3, SetInduction
  <2> QED
    BY <1>1, <2>1 DEF Ordered
<1>5. \A i \in S : ord[i] < M + 1
  BY <1>1, LinkAt
<1> QED
  BY <1>4, <1>5

LEMMA PositionsIs ==
  ASSUME NEW os \in Tables, Tree(os)
  PROVE  /\ Positions(os) \in [DOMAIN os -> Matrix]
         /\ \A i \in DOMAIN os : Positions(os)[i] = Climb(os, i, Positions(os))
<1> DEFINE Is(f) == f = [i \in DOMAIN os |-> Climb(os, i, f)]
           P == CHOOSE f : Is(f)
<1>1. PICK f \in [DOMAIN os -> Matrix] : \A i \in DOMAIN os : f[i] = Climb(os, i, f)
  BY ClimbExists
<1>2. Is(f)
  BY <1>1
<1>3. Is(P)
  <2> HIDE DEF Is
  <2> QED
    BY <1>2
<1>4. Positions(os) = P
  BY DEF Positions, Climb
<1> HIDE DEF P
<1>5. \A i \in DOMAIN os : P[i] = Climb(os, i, P)
  BY <1>3
<1>6. \A i \in DOMAIN os : f[i] = P[i]
  <2>1. Closed(os, DOMAIN os)
    BY DEF Closed, Tree, Listed
  <2>2. \A i \in DOMAIN os : PlacedAlike(os, os, i)
    BY DEF PlacedAlike
  <2> QED
    BY <1>1, <1>5, <2>1, <2>2, ClimbsAgree
<1>7. P \in [DOMAIN os -> Matrix]
  <2>1. P = [i \in DOMAIN os |-> Climb(os, i, P)]
    BY <1>3
  <2>2. \A i \in DOMAIN os : Climb(os, i, P) \in Matrix
    BY <1>1, <1>5, <1>6
  <2> QED
    BY <2>1, <2>2
<1> QED
  BY <1>4, <1>5, <1>7

LEMMA PositionsAgree ==
  ASSUME NEW os \in Tables, Tree(os), NEW ot \in Tables, Tree(ot),
         NEW S \in SUBSET (DOMAIN os \cap DOMAIN ot), Closed(os, S),
         \A i \in S : PlacedAlike(os, ot, i)
  PROVE  \A i \in S : Position(os, i) = Position(ot, i)
<1> DEFINE f == Positions(os)
           g == Positions(ot)
<1>1. \A i \in S : f[i] = Climb(os, i, f)
  BY PositionsIs
<1>2. \A i \in S : g[i] = Climb(ot, i, g)
  BY PositionsIs
<1>3. S \in SUBSET DOMAIN os
  OBVIOUS
<1>4. \A i \in S : Position(os, i) = f[i] /\ Position(ot, i) = g[i]
  BY DEF Position
<1> HIDE DEF f, g
<1>5. \A i \in S : f[i] = g[i]
  BY <1>1, <1>2, <1>3, ClimbsAgree
<1> QED
  BY <1>4, <1>5

-----------------------------------------------------------------------------
(* The objects that link to one, directly or not, and itself.              *)
Down(os, i) == {j \in DOMAIN os : Circular(os, i, j)}

LEMMA DownHolds ==
  ASSUME NEW os, NEW i \in DOMAIN os
  PROVE  /\ i \in Down(os, i)
         /\ \A j \in DOMAIN os : os[j].link # -1 /\ os[j].link \in Down(os, i) => j \in Down(os, i)
BY DEF Down, Circular

LEMMA DownOnly ==
  ASSUME NEW os, Listed(os), NEW i \in DOMAIN os, NEW j \in Down(os, i), j # i
  PROVE  os[j].link # -1 /\ os[j].link \in Down(os, i)
<1>1. j \in DOMAIN os /\ Circular(os, i, j)
  BY DEF Down
<1> DEFINE p == os[j].link
<1>2. ASSUME p = -1 PROVE FALSE
  <2>1. {j} \in SUBSET DOMAIN os /\ i \notin {j}
    BY <1>1
  <2>2. \A k \in {j} : os[k].link # -1 => os[k].link \in {j}
    BY <1>2
  <2> QED
    BY <1>1, <2>1, <2>2 DEF Circular
<1>3. ASSUME p # -1, p \notin Down(os, i) PROVE FALSE
  <2>1. p \in DOMAIN os
    BY <1>1, <1>3 DEF Listed
  <2>2. PICK S \in SUBSET DOMAIN os :
          p \in S /\ (\A k \in S : os[k].link # -1 => os[k].link \in S) /\ i \notin S
    BY <1>3, <2>1 DEF Down, Circular
  <2> DEFINE U == S \union {j}
  <2>3. U \in SUBSET DOMAIN os /\ j \in U /\ i \notin U
    BY <1>1, <2>2
  <2>4. \A k \in U : os[k].link # -1 => os[k].link \in U
    BY <2>2
  <2> QED
    BY <1>1, <2>3, <2>4 DEF Circular
<1> QED
  BY <1>2, <1>3

LEMMA DownIsLater ==
  ASSUME NEW os \in Tables, Listed(os), NEW M, NEW ord, Ordered(os, M, ord),
         NEW i \in DOMAIN os, NEW j \in Down(os, i)
  PROVE  ord[i] <= ord[j]
<1> DEFINE S == {k \in DOMAIN os : ord[k] < ord[i]}
<1>1. i \notin S
  BY LinkAt
<1>2. \A k \in S : os[k].link # -1 => os[k].link \in S
  <2> TAKE k \in S
  <2> HAVE os[k].link # -1
  <2>1. os[k].link \in DOMAIN os /\ ord[os[k].link] < ord[k]
        /\ ord[os[k].link] \in Nat /\ ord[k] \in Nat /\ ord[i] \in Nat
    BY LinkAt
  <2> QED
    BY <2>1
<1>3. j \notin S
  <2> HIDE DEF S
  <2>1. S \in SUBSET DOMAIN os
    BY DEF S
  <2> QED
    BY <1>1, <1>2, <2>1 DEF Down, Circular
<1>4. j \in DOMAIN os /\ ord[i] \in Nat /\ ord[j] \in Nat
  BY LinkAt DEF Down
<1> QED
  BY <1>3, <1>4

-----------------------------------------------------------------------------
(* Lists: where an object is in its list, and what comes after it.         *)
LEMMA SubAt ==
  ASSUME NEW os \in Tables, NEW p \in DOMAIN os
  PROVE  os[p].sub \in Seq(Int) /\ Len(os[p].sub) \in Nat
BY ObjectAt DEF Object

LEMMA PlaceIs ==
  ASSUME NEW os \in Tables, Listed(os), NEW M, NEW ord, Ordered(os, M, ord),
         NEW p \in DOMAIN os, NEW n \in 1 .. Len(os[p].sub)
  PROVE  Place(os[p].sub, os[p].sub[n]) = n
<1> DEFINE s == os[p].sub
<1>1. \A k \in 1 .. Len(s) : s[k] = s[n] => k = n
  <2> TAKE k \in 1 .. Len(s)
  <2>1. s[k] \in DOMAIN os /\ s[n] \in DOMAIN os /\ ord[s[k]] \in Nat /\ ord[s[n]] \in Nat
    BY LinkAt DEF Listed
  <2>2. (k < n => ord[s[k]] < ord[s[n]]) /\ (n < k => ord[s[n]] < ord[s[k]])
    BY DEF Ordered
  <2>3. k \in Int /\ n \in Int
    BY SubAt
  <2> QED
    BY <2>1, <2>2, <2>3
<1> QED
  BY <1>1 DEF Place

LEMMA SubIs ==
  ASSUME NEW os \in Tables, Listed(os), NEW M, NEW ord, Ordered(os, M, ord),
         NEW i \in DOMAIN os, lsub(os, i) # -1
  PROVE  lsub(os, i) \in DOMAIN os /\ os[lsub(os, i)].link = i /\ ord[i] < ord[lsub(os, i)]
<1>1. os[i].sub \in Seq(Int) /\ os[i].sub # <<>> /\ lsub(os, i) = Head(os[i].sub)
  BY SubAt DEF lsub
<1>2. 1 \in 1 .. Len(os[i].sub) /\ lsub(os, i) = os[i].sub[1]
  BY <1>1
<1>3. lsub(os, i) \in DOMAIN os /\ os[lsub(os, i)].link = i
  BY <1>2 DEF Listed
<1>4. i # -1
  BY ObjectAt DEF Oids
<1> QED
  BY <1>3, <1>4, LinkAt

LEMMA NextIs ==
  ASSUME NEW os \in Tables, Listed(os), NEW M, NEW ord, Ordered(os, M, ord),
         NEW i \in DOMAIN os, lnext(os, i) # -1
  PROVE  lnext(os, i) \in DOMAIN os /\ ord[i] < ord[lnext(os, i)]
<1> DEFINE p == os[i].link
           s == os[p].sub
<1>1. p # -1 /\ p \in DOMAIN os
  BY DEF lnext, Listed
<1>2. PICK n \in 1 .. Len(s) : s[n] = i
  BY <1>1 DEF Listed
<1>3. Place(s, i) = n
  BY <1>1, <1>2, PlaceIs
<1>4. n # Len(s) /\ lnext(os, i) = s[n + 1]
  BY <1>3 DEF lnext
<1>5. n + 1 \in 1 .. Len(s) /\ n < n + 1
  BY <1>1, <1>4, SubAt
<1>6. s[n + 1] \in DOMAIN os
  BY <1>1, <1>5 DEF Listed
<1>7. ord[s[n]] < ord[s[n + 1]]
  BY <1>1, <1>5 DEF Ordered
<1> QED
  BY <1>2, <1>4, <1>6, <1>7

LEMMA NextOf ==
  ASSUME NEW os \in Tables, Listed(os), NEW M, NEW ord, Ordered(os, M, ord),
         NEW p \in DOMAIN os, NEW n \in Nat \ {0}, n + 1 \in 1 .. Len(os[p].sub)
  PROVE  lnext(os, os[p].sub[n]) = os[p].sub[n + 1]
<1> DEFINE s == os[p].sub
<1>1. n \in 1 .. Len(s) /\ n # Len(s)
  BY SubAt
<1>2. s[n] \in DOMAIN os /\ os[s[n]].link = p
  BY <1>1 DEF Listed
<1>3. Place(s, s[n]) = n
  BY <1>1, PlaceIs
<1>4. p # -1
  BY ObjectAt DEF Oids
<1> QED
  BY <1>1, <1>2, <1>3, <1>4 DEF lnext

-----------------------------------------------------------------------------
(* The calls of obj_pos_update().                                          *)
Called(D) == [op : {"place", "check"}, oid : D]
Placing(i) == [op |-> "place", oid |-> i]
Checking(i) == [op |-> "check", oid |-> i]
Bracket(i, u, v) == <<Placing(i)>> \o u \o v \o <<Checking(i)>>
Call(os, first, i, v) ==
  Bracket(i, IF lsub(os, i) = -1 THEN <<>> ELSE v[lsub(os, i)],
             IF i = first \/ lnext(os, i) = -1 THEN <<>> ELSE v[lnext(os, i)])

(* What is placed is checked later.                                        *)
Closes(w) == \A k \in 1 .. Len(w) :
  w[k].op = "place" => \E l \in k + 1 .. Len(w) : w[l] = Checking(w[k].oid)
(* All that is placed in u is placed in w.                                 *)
Within(u, w) == \A k \in 1 .. Len(u) : \E l \in 1 .. Len(w) : w[l] = u[k]

Joins(w, s, t) ==
  /\ Len(s) \in Nat /\ Len(t) \in Nat /\ Len(w) = Len(s) + Len(t)
  /\ \A k \in 1 .. Len(w) : w[k] = IF k <= Len(s) THEN s[k] ELSE t[k - Len(s)]
LEMMA ConcatAt ==
  ASSUME NEW S, NEW s \in Seq(S), NEW t \in Seq(S)
  PROVE  s \o t \in Seq(S) /\ Joins(s \o t, s, t)
BY ConcatProperties, LenProperties DEF Joins

Brackets(w, i, u, v) ==
  /\ Len(w) = Len(u) + Len(v) + 2 /\ Len(u) \in Nat /\ Len(v) \in Nat
  /\ w[1] = Placing(i) /\ w[Len(w)] = Checking(i)
  /\ \A k \in 1 .. Len(u) : w[k + 1] = u[k]
  /\ \A k \in 1 .. Len(v) : w[k + 1 + Len(u)] = v[k]
LEMMA BracketIs ==
  ASSUME NEW D, NEW i \in D, NEW u \in Seq(Called(D)), NEW v \in Seq(Called(D))
  PROVE  Bracket(i, u, v) \in Seq(Called(D)) /\ Brackets(Bracket(i, u, v), i, u, v)
<1> DEFINE w == Bracket(i, u, v)
<1> DEFINE C == Called(D)
           a == <<Placing(i)>>
           b == <<Checking(i)>>
           x == a \o u
           y == x \o v
<1>1. Placing(i) \in C /\ Checking(i) \in C
  BY DEF Called, Placing, Checking
<1>2. a \in Seq(C) /\ b \in Seq(C) /\ Len(a) = 1 /\ Len(b) = 1 /\ a[1] = Placing(i) /\ b[1] = Checking(i)
  BY <1>1
<1> HIDE DEF C, a, b
<1>3. x \in Seq(C) /\ Joins(x, a, u)
  BY <1>2, ConcatAt DEF C
<1> HIDE DEF x
<1>4. y \in Seq(C) /\ Joins(y, x, v)
  BY <1>3, ConcatAt DEF C
<1> HIDE DEF y
<1>5. w = y \o b
  BY DEF x, y, a, b, Bracket
<1> HIDE DEF w
<1>6. w \in Seq(C) /\ Joins(w, y, b)
  BY <1>2, <1>4, <1>5, ConcatAt
<1> USE DEF Joins
<1>7. /\ Len(u) \in Nat /\ Len(v) \in Nat /\ Len(a) = 1 /\ Len(b) = 1
      /\ Len(x) = 1 + Len(u) /\ Len(y) = 1 + Len(u) + Len(v) /\ Len(w) = 2 + Len(u) + Len(v)
  BY <1>2, <1>3, <1>4, <1>6
<1>8. w[1] = Placing(i)
  <2>1. 1 \in 1 .. Len(w) /\ 1 <= Len(y) /\ 1 \in 1 .. Len(y) /\ 1 <= Len(x) /\ 1 \in 1 .. Len(x)
        /\ 1 <= Len(a)
    BY <1>7
  <2> QED
    BY <1>2, <1>3, <1>4, <1>6, <2>1
<1>9. w[Len(w)] = Checking(i)
  <2>1. Len(w) \in 1 .. Len(w) /\ ~(Len(w) <= Len(y)) /\ Len(w) - Len(y) = 1
    BY <1>7
  <2> QED
    BY <1>2, <1>6, <2>1
<1>10. ASSUME NEW k \in 1 .. Len(u) PROVE w[k + 1] = u[k]
  <2>1. k + 1 \in 1 .. Len(w) /\ k + 1 <= Len(y) /\ k + 1 \in 1 .. Len(y) /\ k + 1 <= Len(x)
        /\ k + 1 \in 1 .. Len(x) /\ ~(k + 1 <= Len(a)) /\ (k + 1) - Len(a) = k
    BY <1>7
  <2>2. w[k + 1] = y[k + 1]
    BY <1>6, <2>1
  <2>3. y[k + 1] = x[k + 1]
    BY <1>4, <2>1
  <2> QED
    BY <1>3, <2>1, <2>2, <2>3
<1>11. ASSUME NEW k \in 1 .. Len(v) PROVE w[k + 1 + Len(u)] = v[k]
  <2> DEFINE n == k + 1 + Len(u)
  <2>1. n \in 1 .. Len(w) /\ n <= Len(y) /\ n \in 1 .. Len(y) /\ ~(n <= Len(x)) /\ n - Len(x) = k
    BY <1>7
  <2> HIDE DEF n
  <2>2. w[n] = v[k]
    BY <1>4, <1>6, <2>1
  <2> QED
    BY <2>2 DEF n
<1>12. Len(w) = Len(u) + Len(v) + 2
  BY <1>7
<1> QED
  BY <1>6, <1>7, <1>8, <1>9, <1>10, <1>11, <1>12 DEF C, w, Brackets

LEMMA BracketCloses ==
  ASSUME NEW w, NEW i, NEW u, NEW v, Closes(u), Closes(v), Brackets(w, i, u, v)
  PROVE  Closes(w) /\ Within(u, w) /\ Within(v, w) /\ Placing(i) = w[1] /\ 1 \in 1 .. Len(w)
<1>1. /\ Len(w) = Len(u) + Len(v) + 2 /\ Len(u) \in Nat /\ Len(v) \in Nat
      /\ w[1] = Placing(i) /\ w[Len(w)] = Checking(i)
      /\ \A k \in 1 .. Len(u) : w[k + 1] = u[k]
      /\ \A k \in 1 .. Len(v) : w[k + 1 + Len(u)] = v[k]
  BY DEF Brackets
<1>2. Within(u, w)
  <2> SUFFICES ASSUME NEW k \in 1 .. Len(u) PROVE \E l \in 1 .. Len(w) : w[l] = u[k]
    BY DEF Within
  <2>1. k + 1 \in 1 .. Len(w)
    BY <1>1
  <2> QED
    BY <1>1, <2>1
<1>3. Within(v, w)
  <2> SUFFICES ASSUME NEW k \in 1 .. Len(v) PROVE \E l \in 1 .. Len(w) : w[l] = v[k]
    BY DEF Within
  <2>1. k + 1 + Len(u) \in 1 .. Len(w)
    BY <1>1
  <2> QED
    BY <1>1, <2>1
<1>4. ASSUME NEW k \in 1 .. Len(w), w[k].op = "place"
      PROVE  \E l \in k + 1 .. Len(w) : w[l] = Checking(w[k].oid)
  <2>1. CASE k = 1
    <3>1. Len(w) \in k + 1 .. Len(w) /\ w[k].oid = i
      BY <1>1, <2>1 DEF Placing
    <3> QED
      BY <1>1, <3>1
  <2>2. CASE k \in 2 .. Len(u) + 1
    <3>1. k - 1 \in 1 .. Len(u) /\ w[k] = u[k - 1]
      <4>1. k - 1 \in 1 .. Len(u) /\ (k - 1) + 1 = k
        BY <1>1, <2>2
      <4> QED
        BY <1>1, <4>1
    <3>2. PICK l \in (k - 1) + 1 .. Len(u) : u[l] = Checking(u[k - 1].oid)
      BY <1>4, <3>1 DEF Closes
    <3>3. l \in 1 .. Len(u) /\ l + 1 \in k + 1 .. Len(w)
      BY <1>1, <2>2, <3>2
    <3> QED
      BY <1>1, <3>1, <3>2, <3>3
  <2>3. CASE k \in Len(u) + 2 .. Len(u) + Len(v) + 1
    <3> DEFINE j == k - 1 - Len(u)
    <3>1. j \in 1 .. Len(v) /\ w[k] = v[j]
      <4>1. j \in 1 .. Len(v) /\ j + 1 + Len(u) = k
        BY <1>1, <2>3
      <4> QED
        BY <1>1, <4>1
    <3>2. PICK l \in j + 1 .. Len(v) : v[l] = Checking(v[j].oid)
      BY <1>4, <3>1 DEF Closes
    <3>3. l \in 1 .. Len(v) /\ l + 1 + Len(u) \in k + 1 .. Len(w)
      BY <1>1, <2>3, <3>2
    <3> QED
      BY <1>1, <3>1, <3>2, <3>3
  <2>4. CASE k = Len(w)
    BY <1>1, <1>4, <2>4 DEF Checking
  <2>5. /\ k \in Int /\ 1 <= k /\ k <= Len(u) + Len(v) + 2
        /\ Len(u) \in Nat /\ Len(v) \in Nat /\ Len(w) = Len(u) + Len(v) + 2
    BY <1>1
  <2>6. k = 1 \/ k \in 2 .. Len(u) + 1 \/ k \in Len(u) + 2 .. Len(u) + Len(v) + 1 \/ k = Len(w)
    BY <2>5
  <2> QED
    BY <2>1, <2>2, <2>3, <2>4, <2>6
<1>5. Closes(w)
  BY <1>4 DEF Closes
<1> QED
  BY <1>1, <1>2, <1>3, <1>5

LEMMA NothingCalled ==
  ASSUME NEW D
  PROVE  <<>> \in Seq(Called(D)) /\ Closes(<<>>)
BY DEF Closes

(* The calls exist: those after an object are for objects of later number. *)
LEMMA CallIs ==
  ASSUME NEW os \in Tables, NEW first, NEW i \in DOMAIN os, NEW f,
         lsub(os, i) # -1 => f[lsub(os, i)] \in Seq(Called(DOMAIN os)),
         i # first /\ lnext(os, i) # -1 => f[lnext(os, i)] \in Seq(Called(DOMAIN os))
  PROVE  Call(os, first, i, f) \in Seq(Called(DOMAIN os))
<1> DEFINE u == IF lsub(os, i) = -1 THEN <<>> ELSE f[lsub(os, i)]
           v == IF i = first \/ lnext(os, i) = -1 THEN <<>> ELSE f[lnext(os, i)]
<1>1. u \in Seq(Called(DOMAIN os)) /\ v \in Seq(Called(DOMAIN os))
  BY NothingCalled
<1>2. Call(os, first, i, f) = Bracket(i, u, v)
  BY DEF Call
<1> HIDE DEF u, v
<1> QED
  BY <1>1, <1>2, BracketIs

LEMMA CallSame ==
  ASSUME NEW os, NEW first, NEW i, NEW f, NEW g,
         lsub(os, i) # -1 => f[lsub(os, i)] = g[lsub(os, i)],
         lnext(os, i) # -1 => f[lnext(os, i)] = g[lnext(os, i)]
  PROVE  Call(os, first, i, f) = Call(os, first, i, g)
BY DEF Call

LEMMA CallsExist ==
  ASSUME NEW os \in Tables, Tree(os), NEW first
  PROVE  \E f : f = [i \in DOMAIN os |-> Call(os, first, i, f)]
<1>1. PICK M, ord : Listed(os) /\ Ordered(os, M, ord)
  BY DEF Tree
<1>2. M \in Nat /\ \A i \in DOMAIN os : ord[i] \in Nat /\ ord[i] <= M
  BY <1>1, LinkAt DEF Ordered
<1> DEFINE Upper(n) == {i \in DOMAIN os : M - ord[i] < n}
           Made(n, f) == f = [i \in Upper(n) |-> Call(os, first, i, f)]
           T == {n \in Nat : \E f : Made(n, f)}
<1>3. 0 \in T
  <2> DEFINE f == [i \in Upper(0) |-> <<>>]
  <2>1. Upper(0) = {}
    BY <1>2
  <2>2. f = [i \in Upper(0) |-> Call(os, first, i, f)]
    BY <2>1
  <2> HIDE DEF f, Upper
  <2>3. Made(0, f)
    BY <2>2
  <2> QED
    BY <2>3
<1>4. ASSUME NEW n \in Nat, n \in T PROVE n + 1 \in T
  <2>1. PICK f : Made(n, f)
    BY <1>4
  <2> DEFINE g == [i \in Upper(n + 1) |-> IF i \in Upper(n) THEN f[i] ELSE Call(os, first, i, f)]
  <2>2. \A i \in Upper(n) : i \in Upper(n + 1)
    BY <1>2
  <2>3. ASSUME NEW i \in Upper(n + 1), NEW j \in DOMAIN os, ord[i] < ord[j] PROVE j \in Upper(n)
    <3>1. ord[i] \in Nat /\ ord[j] \in Nat /\ M - ord[i] < n + 1
      BY <1>2
    <3> QED
      BY <1>2, <2>3, <3>1
  <2>4. \A i \in Upper(n + 1) : Call(os, first, i, g) = Call(os, first, i, f)
    <3> TAKE i \in Upper(n + 1)
    <3> DEFINE c == lsub(os, i)
               d == lnext(os, i)
    <3>1. i \in DOMAIN os
      OBVIOUS
    <3>2. c # -1 => c \in Upper(n)
      BY <1>1, <2>3, <3>1, SubIs
    <3>3. d # -1 => d \in Upper(n)
      BY <1>1, <2>3, <3>1, NextIs
    <3>4. (c # -1 => g[c] = f[c]) /\ (d # -1 => g[d] = f[d])
      BY <2>2, <3>2, <3>3
    <3> HIDE DEF g
    <3> QED
      BY <3>4, CallSame
  <2>5. \A i \in Upper(n) : f[i] = Call(os, first, i, f)
    <3> HIDE DEF Upper
    <3> QED
      BY <2>1
  <2>6. \A i \in Upper(n + 1) : g[i] = Call(os, first, i, g)
    <3> TAKE i \in Upper(n + 1)
    <3>1. g[i] = Call(os, first, i, f)
      BY <2>5
    <3> QED
      BY <2>4, <3>1
  <2>7. g = [i \in Upper(n + 1) |-> Call(os, first, i, g)]
    <3> DEFINE h == [i \in Upper(n + 1) |-> Call(os, first, i, g)]
    <3>1. \A i \in Upper(n + 1) : g[i] = h[i]
      BY <2>6
    <3>2. g = h
      <4> HIDE DEF Upper
      <4> QED
        BY <3>1
    <3> QED
      BY <3>2
  <2>8. Made(n + 1, g)
    BY <2>7
  <2> HIDE DEF Made, g
  <2> QED
    BY <2>8
<1>5. M + 1 \in T
  <2> HIDE DEF T
  <2>1. Nat \subseteq T
    BY <1>3, <1>4, SetInduction
  <2> QED
    BY <1>2, <2>1
<1>6. PICK f : Made(M + 1, f)
  BY <1>5
<1>7. Upper(M + 1) = DOMAIN os
  BY <1>2
<1> QED
  BY <1>6, <1>7

LEMMA VisitsIs ==
  ASSUME NEW os \in Tables, Tree(os), NEW first
  PROVE  /\ DOMAIN Visits(os, first) = DOMAIN os
         /\ \A i \in DOMAIN os : Visits(os, first)[i] = Call(os, first, i, Visits(os, first))
<1> DEFINE Is(f) == f = [i \in DOMAIN os |-> Call(os, first, i, f)]
           V == CHOOSE f : Is(f)
<1>1. Is(V)
  <2>1. \E f : Is(f)
    BY CallsExist
  <2> HIDE DEF Is
  <2> QED
    BY <2>1
<1>2. Visits(os, first) = V
  BY DEF Visits, Call, Bracket, Placing, Checking
<1> HIDE DEF V
<1> QED
  BY <1>1, <1>2

(* What an object's calls are, and that those of its list and of the rest  *)
(* of the list it is in are among them.                                    *)
LEMMA VisitsAre ==
  ASSUME NEW os \in Tables, Tree(os), NEW first, NEW i \in DOMAIN os
  PROVE  /\ Visits(os, first)[i] \in Seq(Called(DOMAIN os))
         /\ Closes(Visits(os, first)[i])
<1>1. PICK M, ord : Listed(os) /\ Ordered(os, M, ord)
  BY DEF Tree
<1>2. M \in Nat /\ \A j \in DOMAIN os : ord[j] \in Nat /\ ord[j] <= M
  BY <1>1, LinkAt DEF Ordered
<1> DEFINE V == Visits(os, first)
           Good(w) == w \in Seq(Called(DOMAIN os)) /\ Closes(w)
           T == {n \in Nat : \A j \in DOMAIN os : M - ord[j] < n => Good(V[j])}
<1>3. \A j \in DOMAIN os : V[j] = Call(os, first, j, V)
  BY VisitsIs
<1> HIDE DEF V
<1>4. 0 \in T
  BY <1>2
<1>5. ASSUME NEW n \in Nat, n \in T PROVE n + 1 \in T
  <2> SUFFICES ASSUME NEW j \in DOMAIN os, M - ord[j] < n + 1 PROVE Good(V[j])
    OBVIOUS
  <2> DEFINE c == lsub(os, j)
             d == lnext(os, j)
             u == IF c = -1 THEN <<>> ELSE V[c]
             v == IF j = first \/ d = -1 THEN <<>> ELSE V[d]
  <2>1. ASSUME NEW k \in DOMAIN os, ord[j] < ord[k] PROVE Good(V[k])
    <3>1. M - ord[k] < n
      BY <1>2, <2>1
    <3> QED
      BY <1>5, <3>1
  <2>2. c # -1 => Good(V[c])
    BY <1>1, <2>1, SubIs
  <2>3. d # -1 => Good(V[d])
    BY <1>1, <2>1, NextIs
  <2>4. Good(u) /\ Good(v)
    BY <2>2, <2>3, NothingCalled
  <2>5. V[j] = Bracket(j, u, v)
    BY <1>3 DEF Call
  <2> HIDE DEF u, v
  <2>6. V[j] \in Seq(Called(DOMAIN os)) /\ Brackets(V[j], j, u, v)
    BY <2>4, <2>5, BracketIs
  <2>7. Closes(V[j])
    BY <2>4, <2>6, BracketCloses
  <2> QED
    BY <2>6, <2>7
<1>6. M + 1 \in T
  <2> HIDE DEF T
  <2>1. Nat \subseteq T
    BY <1>4, <1>5, SetInduction
  <2> QED
    BY <1>2, <2>1
<1>7. M - ord[i] < M + 1
  BY <1>2
<1> QED
  BY <1>6, <1>7 DEF V

LEMMA VisitsHold ==
  ASSUME NEW os \in Tables, Tree(os), NEW first, NEW i \in DOMAIN os
  PROVE  /\ \E k \in 1 .. Len(Visits(os, first)[i]) : Visits(os, first)[i][k] = Placing(i)
         /\ lsub(os, i) # -1 => Within(Visits(os, first)[lsub(os, i)], Visits(os, first)[i])
         /\ i # first /\ lnext(os, i) # -1 =>
              Within(Visits(os, first)[lnext(os, i)], Visits(os, first)[i])
<1>1. PICK M, ord : Listed(os) /\ Ordered(os, M, ord)
  BY DEF Tree
<1> DEFINE V == Visits(os, first)
           c == lsub(os, i)
           d == lnext(os, i)
           u == IF c = -1 THEN <<>> ELSE V[c]
           v == IF i = first \/ d = -1 THEN <<>> ELSE V[d]
<1>2. V[i] = Bracket(i, u, v)
  BY VisitsIs DEF Call
<1>3. /\ u \in Seq(Called(DOMAIN os)) /\ Closes(u)
      /\ v \in Seq(Called(DOMAIN os)) /\ Closes(v)
  <2>1. c # -1 => c \in DOMAIN os
    BY <1>1, SubIs
  <2>2. d # -1 => d \in DOMAIN os
    BY <1>1, NextIs
  <2> QED
    BY <2>1, <2>2, VisitsAre, NothingCalled
<1>4. (c # -1 => u = V[c]) /\ (i # first /\ d # -1 => v = V[d])
  OBVIOUS
<1> HIDE DEF u, v, V
<1>5. Brackets(V[i], i, u, v)
  BY <1>2, <1>3, BracketIs
<1>6. Within(u, V[i]) /\ Within(v, V[i]) /\ Placing(i) = V[i][1] /\ 1 \in 1 .. Len(V[i])
  BY <1>3, <1>5, BracketCloses
<1> QED
  BY <1>4, <1>6 DEF V

(* A call for an object reaches all that are linked to it.                 *)
LEMMA WithinWithin ==
  ASSUME NEW u, NEW v, NEW w, Within(u, v), Within(v, w)
  PROVE  Within(u, w)
<1> SUFFICES ASSUME NEW k \in 1 .. Len(u) PROVE \E l \in 1 .. Len(w) : w[l] = u[k]
  BY DEF Within
<1>1. PICK n \in 1 .. Len(v) : v[n] = u[k]
  BY DEF Within
<1>2. PICK l \in 1 .. Len(w) : w[l] = v[n]
  BY DEF Within
<1> QED
  BY <1>1, <1>2

LEMMA VisitsReach ==
  ASSUME NEW os \in Tables, Tree(os), NEW i \in DOMAIN os, NEW j \in Down(os, i)
  PROVE  \E k \in 1 .. Len(Visits(os, i)[i]) : Visits(os, i)[i][k] = Placing(j)
<1>1. PICK M, ord : Listed(os) /\ Ordered(os, M, ord)
  BY DEF Tree
<1>2. M \in Nat /\ \A y \in DOMAIN os : ord[y] \in Nat /\ ord[y] <= M
  BY <1>1, LinkAt DEF Ordered
<1> DEFINE V == Visits(os, i)
           T == {n \in Nat : \A y \in Down(os, i) : ord[y] < n => Within(V[y], V[i])}
<1>3. \A y \in Down(os, i) : y \in DOMAIN os
  BY DEF Down
<1>4. \A y \in DOMAIN os :
        /\ \E k \in 1 .. Len(V[y]) : V[y][k] = Placing(y)
        /\ lsub(os, y) # -1 => Within(V[lsub(os, y)], V[y])
        /\ y # i /\ lnext(os, y) # -1 => Within(V[lnext(os, y)], V[y])
  BY VisitsHold
<1> HIDE DEF V
<1>5. 0 \in T
  BY <1>2, <1>3
<1>6. ASSUME NEW n \in Nat, n \in T PROVE n + 1 \in T
  <2> SUFFICES ASSUME NEW y \in Down(os, i), ord[y] < n + 1 PROVE Within(V[y], V[i])
    OBVIOUS
  <2>1. CASE y = i
    BY <2>1 DEF Within
  <2>2. CASE y # i
    <3> DEFINE p == os[y].link
               s == os[p].sub
    <3>1. p # -1 /\ p \in Down(os, i) /\ p \in DOMAIN os /\ y \in DOMAIN os /\ ord[p] < ord[y]
      BY <1>1, <1>3, <2>2, DownOnly, LinkAt
    <3>2. PICK k \in 1 .. Len(s) : s[k] = y
      BY <1>1, <3>1 DEF Listed
    <3>3. s \in Seq(Int) /\ k \in Nat \ {0}
      BY <3>1, SubAt
    <3>4. y # -1
      BY <3>1, ObjectAt DEF Oids
    <3>5. ASSUME NEW z \in Down(os, i), ord[z] < ord[y] PROVE Within(V[z], V[i])
      <4>1. ord[z] < n
        BY <1>2, <1>3, <3>5
      <4> QED
        BY <1>6, <4>1
    <3>6. CASE k = 1
      <4>1. s # <<>> /\ Head(s) = s[1]
        BY <3>2, <3>3
      <4>2. lsub(os, p) = y
        BY <3>2, <3>6, <4>1 DEF lsub
      <4>3. Within(V[y], V[p])
        BY <1>4, <3>1, <3>4, <4>2
      <4> QED
        BY <3>1, <3>5, <4>3, WithinWithin
    <3>7. CASE k # 1
      <4> DEFINE z == s[k - 1]
      <4>1. k - 1 \in 1 .. Len(s) /\ k - 1 < k /\ k - 1 \in Nat \ {0} /\ (k - 1) + 1 = k
        BY <3>3, <3>7
      <4>2. z \in DOMAIN os /\ os[z].link = p
        BY <1>1, <3>1, <4>1 DEF Listed
      <4>3. z \in Down(os, i) /\ ord[p] < ord[z]
        BY <1>1, <3>1, <4>2, DownHolds, LinkAt
      <4>4. ord[z] < ord[y]
        BY <1>1, <3>1, <3>2, <4>1 DEF Ordered
      <4>5. lnext(os, z) = y
        BY <1>1, <3>1, <3>2, <4>1, NextOf
      <4>6. z # i
        <5> HIDE DEF z, p, s
        <5>1. ord[i] <= ord[p]
          BY <1>1, <3>1, DownIsLater
        <5>2. p \in DOMAIN os /\ ord[i] \in Nat /\ ord[p] \in Nat
          BY <1>1, <1>3, <3>1, LinkAt
        <5> QED
          BY <4>3, <5>1, <5>2
      <4>7. Within(V[y], V[z])
        BY <1>4, <3>4, <4>2, <4>5, <4>6
      <4> QED
        BY <3>5, <4>3, <4>4, <4>7, WithinWithin
    <3> QED
      BY <3>6, <3>7
  <2> QED
    BY <2>1, <2>2
<1>7. M + 1 \in T
  <2> HIDE DEF T
  <2>1. Nat \subseteq T
    BY <1>5, <1>6, SetInduction
  <2> QED
    BY <1>2, <2>1
<1>8. Within(V[j], V[i])
  BY <1>2, <1>3, <1>7
<1>9. PICK k \in 1 .. Len(V[j]) : V[j][k] = Placing(j)
  BY <1>3, <1>4
<1> QED
  BY <1>8, <1>9 DEF Within, V

-----------------------------------------------------------------------------
(* The states of the server, for one program.  Nothing reaches further     *)
(* than the sphere but what is yet to be checked, and what has no size.    *)
States == [obj : Tables, biggest : Int, mcp_r : Int, told : Int]
Told(st) ==
  /\ -1 <= st.mcp_r /\ st.mcp_r <= st.told /\ 0 <= st.told
  /\ st.biggest # -1 => 0 <= st.mcp_r
Inside(st, P) ==
  \A j \in DOMAIN st.obj \ P : Reach(st.obj[j]) <= st.mcp_r \/ Reach(st.obj[j]) = 0

LEMMA ReachIs ==
  ASSUME NEW os \in Tables, NEW i \in DOMAIN os
  PROVE  Reach(os[i]) \in Nat
BY ObjectAt DEF Reach, Object

(* A check keeps all inside, and takes in the one checked.                 *)
LEMMA CheckKeeps ==
  ASSUME MaxOid \in Nat, NEW st \in States, NEW i \in DOMAIN st.obj, Told(st), NEW P, Inside(st, P),
         NEW sn, sn = obj_check_biggest_object(st, i)
  PROVE  sn \in States /\ sn.obj = st.obj /\ Told(sn) /\ Inside(sn, P \ {i})
<1> DEFINE os == st.obj
           r == Reach(os[i])
           bigger == {j \in DOMAIN os : Reach(os[j]) > r}
           S == {Reach(os[j]) : j \in bigger}
<1>1. os \in Tables /\ i \in Int /\ st.mcp_r \in Int
  BY ObjectAt DEF States, Oids
<1>2. r \in Nat /\ \A j \in DOMAIN os : Reach(os[j]) \in Nat
  BY <1>1, ReachIs
<1>3. CASE r > st.mcp_r
  <2>1. sn = [st EXCEPT !.mcp_r = r, !.told = r, !.biggest = i]
    BY <1>3 DEF obj_check_biggest_object
  <2>2. sn \in States /\ sn.obj = os /\ sn.biggest = i /\ sn.mcp_r = r /\ sn.told = r
    <3>1. r \in Int /\ i \in Int /\ st \in States
      BY <1>1, <1>2
    <3> HIDE DEF r
    <3> QED
      BY <2>1, <3>1 DEF States
  <2>3. Told(sn)
    BY <1>2, <2>2 DEF Told
  <2>4. Inside(sn, P \ {i})
    <3> SUFFICES ASSUME NEW j \in DOMAIN os \ (P \ {i}) PROVE Reach(os[j]) <= r \/ Reach(os[j]) = 0
      BY <2>2 DEF Inside
    <3>1. CASE j = i
      BY <1>2, <3>1
    <3>2. CASE j # i
      <4>1. Reach(os[j]) <= st.mcp_r \/ Reach(os[j]) = 0
        BY <3>2 DEF Inside
      <4> HIDE DEF r, os
      <4> QED
        BY <1>1, <1>2, <1>3, <4>1
    <3> QED
      BY <3>1, <3>2
  <2> QED
    BY <2>2, <2>3, <2>4
<1>4. CASE ~(r > st.mcp_r) /\ st.biggest = i /\ bigger # {}
  <2> DEFINE x == Max(S)
             F == [j \in bigger |-> Reach(os[j])]
  <2>1. sn = [st EXCEPT !.mcp_r = x, !.told = x, !.biggest = i]
    BY <1>4 DEF obj_check_biggest_object
  <2>2. x \in S /\ \A y \in S : y <= x
    <3>1. bigger \in SUBSET (0 .. MaxOid)
      BY <1>1, ObjectAt DEF Oids
    <3>2. F \in [bigger -> Int]
      BY <1>2
    <3>3. S = {F[j] : j \in bigger}
      <4>1. \A j \in bigger : F[j] = Reach(os[j])
        OBVIOUS
      <4> HIDE DEF bigger, F
      <4> QED
        BY <4>1
    <3> HIDE DEF bigger, F, S
    <3> QED
      BY <1>4, <3>1, <3>2, <3>3, MaxIs
  <2>3. x \in Nat /\ x > r
    BY <1>2, <2>2
  <2>4. \A j \in DOMAIN os : Reach(os[j]) <= x
    <3> TAKE j \in DOMAIN os
    <3>1. CASE j \in bigger
      BY <2>2, <3>1
    <3>2. CASE j \notin bigger
      BY <1>2, <2>3, <3>2
    <3> QED
      BY <3>1, <3>2
  <2> HIDE DEF x
  <2>5. sn \in States /\ sn.obj = os /\ sn.biggest = i /\ sn.mcp_r = x /\ sn.told = x
    <3>1. x \in Int /\ i \in Int /\ st \in States
      BY <1>1, <2>3
    <3> QED
      BY <2>1, <3>1 DEF States
  <2>6. Told(sn)
    BY <2>3, <2>5 DEF Told
  <2>7. Inside(sn, P \ {i})
    BY <2>4, <2>5 DEF Inside
  <2> QED
    BY <2>5, <2>6, <2>7
<1>5. CASE ~(r > st.mcp_r) /\ ~(st.biggest = i /\ bigger # {})
  <2>1. sn = st
    BY <1>5 DEF obj_check_biggest_object
  <2>2. r <= st.mcp_r
    BY <1>1, <1>2, <1>5
  <2>3. Inside(sn, P \ {i})
    BY <2>1, <2>2 DEF Inside
  <2> QED
    BY <2>1, <2>3
<1> QED
  BY <1>3, <1>4, <1>5

-----------------------------------------------------------------------------
(* Changes of one object.                                                  *)
TableKept(st, sn, ot) ==
  /\ sn \in States /\ sn.obj = ot
  /\ sn.biggest = st.biggest /\ sn.mcp_r = st.mcp_r /\ sn.told = st.told
ObjectSet(os, ot, i, o) ==
  /\ ot \in Tables /\ DOMAIN ot = DOMAIN os /\ ot[i] = o
  /\ \A j \in DOMAIN os : j # i => ot[j] = os[j]

LEMMA SetTable ==
  ASSUME NEW st \in States, NEW ot \in Tables, NEW sn, sn = [st EXCEPT !.obj = ot]
  PROVE  TableKept(st, sn, ot)
BY DEF States, TableKept

LEMMA SetObject ==
  ASSUME NEW os \in Tables, NEW i \in DOMAIN os, NEW o \in Object, NEW ot, ot = [os EXCEPT ![i] = o]
  PROVE  ObjectSet(os, ot, i, o)
BY DEF Tables, ObjectSet

(* The matrix of an object is computed: nothing else changes.              *)
Current(os, i) == os[i].m = Position(os, i) /\ os[i].o_r = Abs(os[i].m.a)
SameObject(o, n) ==
  /\ n.link = o.link /\ n.sub = o.sub /\ n.translate = o.translate /\ n.rotate = o.rotate
  /\ n.scale = o.scale /\ n.r = o.r /\ n.points = o.points
  /\ n.clone = o.clone /\ n.clone_src = o.clone_src
SameTable(os, ot) == DOMAIN ot = DOMAIN os /\ \A i \in DOMAIN os : SameObject(os[i], ot[i])

Measured(o, m, z) == [o EXCEPT !.m = m, !.o_r = z]
LEMMA MeasuredIs ==
  ASSUME NEW o \in Object, NEW m \in Matrix, NEW z \in Nat
  PROVE  /\ Measured(o, m, z) \in Object /\ Measured(o, m, z).m = m /\ Measured(o, m, z).o_r = z
         /\ SameObject(o, Measured(o, m, z))
BY DEF Object, SameObject, Measured

LEMMA SameTree ==
  ASSUME NEW os \in Tables, NEW ot \in Tables, SameTable(os, ot), Tree(os)
  PROVE  Tree(ot) /\ \A i \in DOMAIN os : Position(ot, i) = Position(os, i)
<1>1. DOMAIN ot = DOMAIN os /\ \A i \in DOMAIN os : os[i].link = ot[i].link /\ os[i].sub = ot[i].sub
  BY DEF SameTable, SameObject
<1>2. Listed(ot)
  BY <1>1 DEF Tree, Listed
<1>3. \A M, ord : Ordered(os, M, ord) => Ordered(ot, M, ord)
  BY <1>1 DEF Ordered
<1>4. Tree(ot)
  BY <1>2, <1>3 DEF Tree
<1>5. Closed(os, DOMAIN os)
  BY DEF Closed, Tree, Listed
<1>6. \A i \in DOMAIN os : PlacedAlike(os, ot, i)
  BY DEF SameTable, SameObject, PlacedAlike
<1>7. DOMAIN os \in SUBSET (DOMAIN os \cap DOMAIN ot)
  BY <1>1
<1> QED
  BY <1>4, <1>5, <1>6, <1>7, PositionsAgree

LEMMA PositionIs ==
  ASSUME NEW os \in Tables, Tree(os), NEW i \in DOMAIN os
  PROVE  /\ Position(os, i) \in Matrix /\ Position(os, i).a \in Int /\ Position(os, i).b \in Int
         /\ Abs(Position(os, i).a) \in Nat
<1>1. Position(os, i) \in Matrix
  BY PositionsIs DEF Position
<1>2. Position(os, i).a \in Int /\ Position(os, i).b \in Int
  BY <1>1 DEF Matrix
<1> QED
  BY <1>1, <1>2, AbsIs

LEMMA RecalcIs ==
  ASSUME NEW st \in States, Tree(st.obj), NEW i \in DOMAIN st.obj,
         NEW sn, sn = obj_recalc_tmat(st, i)
  PROVE  /\ TableKept(st, sn, sn.obj) /\ SameTable(st.obj, sn.obj) /\ sn.obj \in Tables
         /\ Current(sn.obj, i)
         /\ \A j \in DOMAIN st.obj : j # i => sn.obj[j] = st.obj[j]
<1> DEFINE os == st.obj
           mtx == Position(os, i)
           z == Abs(mtx.a)
           o == os[i]
           n == Measured(o, mtx, z)
           ot == [os EXCEPT ![i] = n]
<1>1. os \in Tables /\ o \in Object
  BY ObjectAt DEF States
<1>2. mtx \in Matrix /\ z \in Nat
  BY <1>1, PositionIs
<1>3. sn = [st EXCEPT !.obj[i].m = mtx, !.obj[i].o_r = z]
  BY DEF obj_recalc_tmat
<1> HIDE DEF mtx, z
<1>4. sn = [st EXCEPT !.obj = ot]
  BY <1>1, <1>3 DEF States, Tables, Object, Measured
<1>5. n \in Object /\ n.m = mtx /\ n.o_r = z /\ SameObject(o, n)
  BY <1>1, <1>2, MeasuredIs
<1> HIDE DEF n
<1>6. ObjectSet(os, ot, i, n)
  BY <1>1, <1>5, SetObject
<1> HIDE DEF ot
<1>7. TableKept(st, sn, ot)
  BY <1>4, <1>6, SetTable DEF ObjectSet
<1>8. sn.obj = ot /\ ot \in Tables
  BY <1>6, <1>7 DEF TableKept, ObjectSet
<1>9. \A j \in DOMAIN os : SameObject(os[j], os[j])
  BY DEF SameObject
<1>10. SameTable(os, ot)
  BY <1>5, <1>6, <1>9 DEF ObjectSet, SameTable
<1>11. Current(ot, i)
  <2>1. Position(ot, i) = mtx
    BY <1>1, <1>8, <1>10, SameTree DEF mtx
  <2>2. ot[i].m = mtx /\ ot[i].o_r = z
    BY <1>5, <1>6 DEF ObjectSet
  <2> QED
    BY <2>1, <2>2 DEF Current, z
<1> QED
  BY <1>6, <1>7, <1>8, <1>10, <1>11 DEF ObjectSet

-----------------------------------------------------------------------------
(* The calls, one after the other.                                         *)
Run(st, calls, n, f) == f = [i \in 0 .. n |-> IF i = 0 THEN st ELSE Visit(f[i - 1], calls[i])]

LEMMA RunExists ==
  ASSUME NEW st, NEW calls, NEW n \in Nat
  PROVE  \E f : Run(st, calls, n, f)
<1> DEFINE T == {k \in Nat : \E f : Run(st, calls, k, f)}
<1>1. 0 \in T
  <2> DEFINE f == [i \in 0 .. 0 |-> st]
  <2>1. f = [i \in 0 .. 0 |-> IF i = 0 THEN st ELSE Visit(f[i - 1], calls[i])]
    OBVIOUS
  <2> HIDE DEF f
  <2>2. Run(st, calls, 0, f)
    BY <2>1 DEF Run
  <2> QED
    BY <2>2
<1>2. ASSUME NEW k \in Nat, k \in T PROVE k + 1 \in T
  <2>1. PICK f : Run(st, calls, k, f)
    BY <1>2
  <2> DEFINE g == [i \in 0 .. k + 1 |-> IF i = k + 1 THEN Visit(f[k], calls[k + 1]) ELSE f[i]]
  <2>2. \A i \in 0 .. k : f[i] = IF i = 0 THEN st ELSE Visit(f[i - 1], calls[i])
    BY <2>1 DEF Run
  <2>3. ASSUME NEW i \in 0 .. k + 1
        PROVE  g[i] = IF i = 0 THEN st ELSE Visit(g[i - 1], calls[i])
    <3>1. CASE i = k + 1
      <4>1. i # 0 /\ i - 1 = k /\ k \in 0 .. k + 1 /\ k # k + 1
        BY <3>1
      <4> QED
        BY <3>1, <4>1
    <3>2. CASE i # k + 1 /\ i # 0
      <4>1. i \in 0 .. k /\ i - 1 \in 0 .. k + 1 /\ i - 1 # k + 1
        BY <3>2
      <4> QED
        BY <2>2, <3>2, <4>1
    <3>3. CASE i # k + 1 /\ i = 0
      BY <2>2, <3>3
    <3> QED
      BY <3>1, <3>2, <3>3
  <2>4. Run(st, calls, k + 1, g)
    <3> DEFINE h == [i \in 0 .. k + 1 |-> IF i = 0 THEN st ELSE Visit(g[i - 1], calls[i])]
    <3>1. \A i \in 0 .. k + 1 : g[i] = h[i]
      BY <2>3
    <3>2. g = h
      BY <3>1
    <3> HIDE DEF g
    <3> QED
      BY <3>2 DEF Run
  <2> HIDE DEF g
  <2> QED
    BY <2>4
<1>3. n \in T
  <2> HIDE DEF T
  <2>1. Nat \subseteq T
    BY <1>1, <1>2, SetInduction
  <2> QED
    BY <2>1
<1> QED
  BY <1>3

LEMMA RunOfUpdate ==
  ASSUME NEW st, NEW i, NEW calls, calls = Visits(st.obj, i)[i], Len(calls) \in Nat
  PROVE  \E f : /\ f[0] = st /\ obj_pos_update(st, i) = f[Len(calls)]
                /\ \A n \in 1 .. Len(calls) : f[n] = Visit(f[n - 1], calls[n])
<1> DEFINE c == CHOOSE f : Run(st, calls, Len(calls), f)
<1>1. Run(st, calls, Len(calls), c)
  BY RunExists
<1>2. obj_pos_update(st, i) = c[Len(calls)]
  BY DEF obj_pos_update, Run
<1> HIDE DEF c
<1>3. \A n \in 0 .. Len(calls) : c[n] = IF n = 0 THEN st ELSE Visit(c[n - 1], calls[n])
  BY <1>1 DEF Run
<1> QED
  BY <1>2, <1>3

LEMMA CurrentStays ==
  ASSUME NEW os \in Tables, NEW ot \in Tables, SameTable(os, ot), Tree(os),
         NEW j \in DOMAIN os, ot[j] = os[j], Current(os, j)
  PROVE  Current(ot, j)
BY SameTree DEF Current

LEMMA SameSame ==
  ASSUME NEW os, NEW ot, NEW ou, SameTable(os, ot), SameTable(ot, ou)
  PROVE  SameTable(os, ou)
BY DEF SameTable, SameObject

(* After obj_pos_update() all matrices are current, if those were that it  *)
(* does not reach, and the sphere covers all again.                        *)
LEMMA PosUpdate ==
  ASSUME MaxOid \in Nat, NEW st \in States, Tree(st.obj), NEW i \in DOMAIN st.obj,
         Told(st), Inside(st, {}),
         \A j \in DOMAIN st.obj \ Down(st.obj, i) : Current(st.obj, j),
         NEW sn, sn = obj_pos_update(st, i)
  PROVE  /\ sn \in States /\ SameTable(st.obj, sn.obj) /\ Told(sn) /\ Inside(sn, {})
         /\ \A j \in DOMAIN st.obj : Current(sn.obj, j)
<1> DEFINE os == st.obj
           calls == Visits(os, i)[i]
           N == Len(calls)
           Pending(n) == {j \in DOMAIN os : \E k \in n + 1 .. N : calls[k] = Checking(j)}
           Done(n) == {j \in DOMAIN os : j \notin Down(os, i) \/ \E k \in 1 .. n : calls[k] = Placing(j)}
<1>1. os \in Tables
  BY DEF States
<1>2. calls \in Seq(Called(DOMAIN os)) /\ N \in Nat /\ Closes(calls)
  BY <1>1, VisitsAre
<1>3. PICK f : /\ f[0] = st /\ sn = f[N]
               /\ \A n \in 1 .. N : f[n] = Visit(f[n - 1], calls[n])
  BY <1>2, RunOfUpdate
<1>4. \A j \in Down(os, i) : \E k \in 1 .. N : calls[k] = Placing(j)
  BY <1>1, VisitsReach
<1> HIDE DEF calls
<1> DEFINE I(n) == /\ f[n] \in States /\ SameTable(os, f[n].obj) /\ Told(f[n])
                   /\ Inside(f[n], Pending(n))
                   /\ \A j \in Done(n) : Current(f[n].obj, j)
           T == {n \in Nat : n <= N => I(n)}
<1>5. 0 \in T
  <2>1. SameTable(os, os)
    BY DEF SameTable, SameObject
  <2>2. Inside(st, Pending(0))
    BY DEF Inside
  <2>3. \A j \in Done(0) : Current(os, j)
    OBVIOUS
  <2> QED
    BY <1>3, <2>1, <2>2, <2>3
<1>6. ASSUME NEW n \in Nat, n \in T PROVE n + 1 \in T
  <2> SUFFICES ASSUME n + 1 <= N PROVE I(n + 1)
    OBVIOUS
  <2> DEFINE s == f[n]
             t == f[n + 1]
             c == calls[n + 1]
             j == c.oid
  <2>1. n + 1 \in 1 .. N /\ n <= N /\ (n + 1) - 1 = n
    BY <1>2
  <2>2. I(n)
    BY <1>6, <2>1
  <2>3. t = Visit(s, c)
    BY <1>3, <2>1
  <2>4. c \in Called(DOMAIN os)
    BY <1>2, <2>1
  <2>5. j \in DOMAIN os /\ (c = Placing(j) \/ c = Checking(j)) /\ c.op \in {"place", "check"}
    BY <2>4 DEF Called, Placing, Checking
  <2>6. s \in States /\ s.obj \in Tables /\ DOMAIN s.obj = DOMAIN os /\ Tree(s.obj)
    BY <1>1, <2>2, SameTree DEF States, SameTable
  <2>7. \A k \in DOMAIN os : k \in Pending(n) => k \in Pending(n + 1) \/ c = Checking(k)
    <3> SUFFICES ASSUME NEW k \in DOMAIN os, NEW l \in n + 1 .. N, calls[l] = Checking(k)
                 PROVE  k \in Pending(n + 1) \/ c = Checking(k)
      OBVIOUS
    <3>1. CASE l = n + 1
      BY <3>1
    <3>2. CASE l # n + 1
      <4>1. l \in (n + 1) + 1 .. N
        BY <3>2, <1>2
      <4> QED
        BY <4>1
    <3> QED
      BY <3>1, <3>2
  <2>8. \A k \in Done(n + 1) : k \in Done(n) \/ c = Placing(k)
    <3> TAKE k \in Done(n + 1)
    <3> SUFFICES ASSUME NEW l \in 1 .. n + 1, calls[l] = Placing(k)
                 PROVE  k \in Done(n) \/ c = Placing(k)
      OBVIOUS
    <3>1. l = n + 1 \/ l \in 1 .. n
      OBVIOUS
    <3> QED
      BY <3>1
  <2>9. CASE c.op = "place"
    <3>1. c = Placing(j) /\ t = obj_recalc_tmat(s, j)
      BY <2>3, <2>5, <2>9 DEF Visit, Checking
    <3>2. /\ TableKept(s, t, t.obj) /\ SameTable(s.obj, t.obj) /\ t.obj \in Tables
          /\ Current(t.obj, j)
          /\ \A k \in DOMAIN s.obj : k # j => t.obj[k] = s.obj[k]
      BY <2>5, <2>6, <3>1, RecalcIs
    <3>3. t \in States /\ Told(t) /\ t.mcp_r = s.mcp_r
      BY <2>2, <3>2 DEF TableKept, Told
    <3>4. SameTable(os, t.obj)
      BY <2>2, <3>2, SameSame
    <3>5. j \in Pending(n + 1)
      <4>1. PICK l \in (n + 1) + 1 .. N : calls[l] = Checking(calls[n + 1].oid)
        BY <1>2, <2>1, <2>9 DEF Closes
      <4> QED
        BY <2>5, <4>1
    <3>6. \A k \in Pending(n) : k \in Pending(n + 1)
      <4>1. \A k : c # Checking(k)
        BY <2>9 DEF Checking
      <4> QED
        BY <2>7, <4>1
    <3>7. Inside(t, Pending(n + 1))
      <4> SUFFICES ASSUME NEW k \in DOMAIN t.obj \ Pending(n + 1)
                   PROVE  Reach(t.obj[k]) <= t.mcp_r \/ Reach(t.obj[k]) = 0
        BY DEF Inside
      <4>1. k \in DOMAIN os /\ k # j /\ k \notin Pending(n)
        BY <3>4, <3>5, <3>6 DEF SameTable
      <4>2. t.obj[k] = s.obj[k] /\ k \in DOMAIN s.obj \ Pending(n)
        BY <2>6, <3>2, <4>1
      <4> QED
        BY <2>2, <3>3, <4>2 DEF Inside
    <3>8. \A k \in Done(n + 1) : Current(t.obj, k)
      <4> TAKE k \in Done(n + 1)
      <4>1. CASE k = j
        BY <3>2, <4>1
      <4>2. CASE k # j
        <5>1. k \in Done(n) /\ k \in DOMAIN s.obj
          BY <2>6, <2>8, <3>1, <4>2 DEF Placing
        <5> QED
          BY <2>2, <2>6, <3>2, <4>2, <5>1, CurrentStays
      <4> QED
        BY <4>1, <4>2
    <3> QED
      BY <3>3, <3>4, <3>7, <3>8
  <2>10. CASE c.op = "check"
    <3>1. c = Checking(j) /\ t = obj_check_biggest_object(s, j)
      BY <2>3, <2>5, <2>10 DEF Visit, Placing
    <3>2. t \in States /\ t.obj = s.obj /\ Told(t) /\ Inside(t, Pending(n) \ {j})
      BY <2>2, <2>5, <2>6, <3>1, CheckKeeps
    <3>3. Inside(t, Pending(n + 1))
      <4> SUFFICES ASSUME NEW k \in DOMAIN t.obj \ Pending(n + 1)
                   PROVE  Reach(t.obj[k]) <= t.mcp_r \/ Reach(t.obj[k]) = 0
        BY DEF Inside
      <4>1. k \in DOMAIN t.obj \ (Pending(n) \ {j})
        BY <2>6, <2>7, <3>1, <3>2 DEF Checking
      <4> QED
        BY <3>2, <4>1 DEF Inside
    <3>4. \A k \in Done(n + 1) : Current(t.obj, k)
      <4>1. \A k : c # Placing(k)
        BY <2>10 DEF Placing
      <4> QED
        BY <2>2, <2>8, <3>2, <4>1
    <3> QED
      BY <2>2, <3>2, <3>3, <3>4
  <2> QED
    BY <2>5, <2>9, <2>10
<1>7. I(N)
  <2> HIDE DEF T, I
  <2>1. Nat \subseteq T
    BY <1>5, <1>6, SetInduction
  <2> QED
    BY <1>2, <2>1 DEF T
<1>8. Pending(N) = {}
  BY <1>2
<1>9. \A j \in DOMAIN os : j \in Done(N)
  BY <1>4
<1>10. Inside(sn, {})
  BY <1>3, <1>7, <1>8
<1> QED
  BY <1>3, <1>7, <1>9, <1>10

-----------------------------------------------------------------------------
(* How far an object's vertices are from where it is.                      *)
LEMMA FurthestIs ==
  ASSUME NEW o \in Object
  PROVE  /\ Furthest(o) \in Nat /\ o.points \in Seq(Int) /\ Len(o.points) \in Nat
         /\ o.points = <<>> => Furthest(o) = 0
         /\ \A k \in 1 .. Len(o.points) : o.points[k] \in Int /\ Abs(o.points[k]) <= Furthest(o)
         /\ o.points # <<>> => \E k \in 1 .. Len(o.points) : Furthest(o) = Abs(o.points[k])
<1> DEFINE s == o.points
           J == 1 .. Len(s)
           F == [k \in J |-> Abs(s[k])]
           S == {Abs(x) : x \in ToSet(s)}
<1>1. s \in Seq(Int) /\ Len(s) \in Nat /\ DOMAIN s = J
  BY DEF Object
<1>2. \A k \in J : s[k] \in Int /\ Abs(s[k]) \in Nat
  <2> TAKE k \in J
  <2>1. s[k] \in Int
    BY <1>1
  <2> QED
    BY <2>1, AbsIs
<1>3. CASE s = <<>>
  BY <1>1, <1>3 DEF Furthest
<1>4. CASE s # <<>>
  <2>1. Furthest(o) = Max(S)
    BY <1>4 DEF Furthest
  <2>2. J \in SUBSET (0 .. Len(s)) /\ J # {}
    <3> HIDE DEF F, S
    <3>1. Len(s) # 0
      BY <1>1, <1>4, EmptySeq
    <3>2. Len(s) \in Nat \ {0}
      BY <1>1, <3>1
    <3> QED
      BY <3>2
  <2>3. F \in [J -> Int] /\ \A k \in J : F[k] = Abs(s[k])
    BY <1>2
  <2>4. S = {F[k] : k \in J}
    <3>1. S = {Abs(s[k]) : k \in J}
      BY <1>1 DEF ToSet
    <3> HIDE DEF F, J, S
    <3> QED
      BY <2>3, <3>1
  <2> HIDE DEF F, J, S
  <2>5. Max(S) \in S /\ \A x \in S : x <= Max(S)
    BY <1>1, <2>2, <2>3, <2>4, MaxIs
  <2>6. \E k \in J : Max(S) = F[k]
    BY <2>4, <2>5
  <2>7. \A k \in J : F[k] <= Max(S)
    BY <2>4, <2>5
  <2> QED
    BY <1>1, <1>2, <1>4, <2>1, <2>3, <2>6, <2>7 DEF J
<1> QED
  BY <1>3, <1>4

-----------------------------------------------------------------------------
(* The invariant.  The radius of an object covers its vertices, in its     *)
(* scale; that of a clone the vertices of what it shows, which is marked   *)
(* as a source and no clone itself.  What others link to has its own size. *)
Sized(os) ==
  /\ \A i \in DOMAIN os : os[i].clone = -1 => os[i].scale * Furthest(os[i]) <= os[i].r
  /\ \A i \in DOMAIN os : os[i].clone # -1 =>
       /\ os[i].clone \in DOMAIN os /\ os[os[i].clone].clone = -1 /\ os[os[i].clone].clone_src
       /\ os[i].points = <<>>
       /\ os[i].scale * Furthest(os[os[i].clone]) <= os[i].r
  /\ \A i \in DOMAIN os : os[i].sub # <<>> => os[i].scale = 1

Sound(st) ==
  /\ st \in States /\ Tree(st.obj) /\ Sized(st.obj) /\ Told(st) /\ Inside(st, {})
  /\ \A i \in DOMAIN st.obj : Current(st.obj, i)
SizeInv == Sound(State)

(* What programs do.                                                       *)
Tame ==
  /\ MaxOid \in Nat /\ Uses = {}
  /\ Places \subseteq Int /\ Scales \subseteq Nat \ {0} /\ Points \subseteq Int

LEMMA SizedSame ==
  ASSUME NEW os, NEW ot, SameTable(os, ot), Sized(os)
  PROVE  Sized(ot)
<1>1. DOMAIN ot = DOMAIN os /\ \A i \in DOMAIN os : SameObject(os[i], ot[i])
  BY DEF SameTable
<1>2. \A i \in DOMAIN os : Furthest(ot[i]) = Furthest(os[i])
  BY <1>1 DEF Furthest, SameObject
<1> QED
  BY <1>1, <1>2 DEF Sized, SameObject

LEMMA PlacedAnew ==
  ASSUME MaxOid \in Nat, NEW st \in States, Tree(st.obj), Sized(st.obj), NEW i \in DOMAIN st.obj,
         Told(st), Inside(st, {}),
         \A j \in DOMAIN st.obj \ Down(st.obj, i) : Current(st.obj, j)
  PROVE  Sound(obj_pos_update(st, i))
<1> DEFINE sn == obj_pos_update(st, i)
<1>1. /\ sn \in States /\ SameTable(st.obj, sn.obj) /\ Told(sn) /\ Inside(sn, {})
      /\ \A j \in DOMAIN st.obj : Current(sn.obj, j)
  BY PosUpdate
<1>2. st.obj \in Tables /\ sn.obj \in Tables
  BY <1>1 DEF States
<1> HIDE DEF sn
<1>3. Tree(sn.obj) /\ Sized(sn.obj) /\ DOMAIN sn.obj = DOMAIN st.obj
  BY <1>1, <1>2, SameTree, SizedSame DEF SameTable
<1> QED
  BY <1>1, <1>3 DEF Sound, sn

(* What does not link to a changed object is still where it was.           *)
LEMMA OutsideStays ==
  ASSUME NEW os \in Tables, Tree(os), NEW ot \in Tables, Tree(ot), DOMAIN ot = DOMAIN os,
         NEW i \in DOMAIN os,
         \A j \in DOMAIN os \ {i} : /\ PlacedAlike(os, ot, j)
                                    /\ ot[j].m = os[j].m /\ ot[j].o_r = os[j].o_r,
         \A j \in DOMAIN os : Current(os, j)
  PROVE  \A j \in DOMAIN ot \ Down(ot, i) : Current(ot, j)
<1> DEFINE S == DOMAIN ot \ Down(ot, i)
<1>1. i \notin S /\ Closed(ot, S)
  <2>1. i \in Down(ot, i)
    BY DownHolds
  <2>2. ASSUME NEW j \in S, ot[j].link # -1 PROVE ot[j].link \in S
    <3>1. ot[j].link \in DOMAIN ot
      BY <2>2 DEF Tree, Listed
    <3> QED
      BY <2>2, <3>1, DownHolds
  <2> QED
    BY <2>1, <2>2 DEF Closed
<1>2. \A j \in S : PlacedAlike(ot, os, j)
  BY <1>1 DEF PlacedAlike
<1>3. S \in SUBSET (DOMAIN ot \cap DOMAIN os)
  OBVIOUS
<1> HIDE DEF S
<1>4. \A j \in S : Position(ot, j) = Position(os, j)
  BY <1>1, <1>2, <1>3, PositionsAgree
<1>5. \A j \in S : j \in DOMAIN os \ {i}
  BY <1>1, <1>3
<1>6. \A j \in S : Current(ot, j)
  BY <1>4, <1>5 DEF Current
<1> QED
  BY <1>6 DEF S

(* One object is replaced.                                                 *)
Changed(st, sn, i, o) == TableKept(st, sn, sn.obj) /\ ObjectSet(st.obj, sn.obj, i, o)

LEMMA ChangeIs ==
  ASSUME NEW st \in States, NEW i \in DOMAIN st.obj, NEW o \in Object,
         NEW sn, sn = [st EXCEPT !.obj[i] = o]
  PROVE  Changed(st, sn, i, o)
<1> DEFINE ot == [st.obj EXCEPT ![i] = o]
<1>1. st.obj \in Tables
  BY DEF States
<1>2. ObjectSet(st.obj, ot, i, o)
  BY <1>1, SetObject
<1>3. sn = [st EXCEPT !.obj = ot]
  OBVIOUS
<1> HIDE DEF ot
<1>4. TableKept(st, sn, ot)
  BY <1>2, <1>3, SetTable DEF ObjectSet
<1> QED
  BY <1>2, <1>4 DEF TableKept, Changed

LEMMA StateIs ==
  ASSUME SizeInv
  PROVE  /\ Sound(State) /\ State \in States /\ object \in Tables /\ State.obj = object /\ Tree(object)
         /\ Sized(object) /\ Told(State) /\ Inside(State, {})
         /\ \A i \in DOMAIN object : Current(object, i) /\ object[i] \in Object /\ i \in Oids
<1>1. Sound(State) /\ State.obj = object
  BY DEF SizeInv, State
<1>2. State \in States /\ object \in Tables
  BY <1>1 DEF Sound, States
<1> HIDE DEF State
<1> QED
  BY <1>1, <1>2, ObjectAt DEF Sound

LEMMA Carried ==
  ASSUME NEW st, Sound(st), Carry(st)
  PROVE  SizeInv'
<1>1. st \in States
  BY DEF Sound
<1>2. st = [obj |-> st.obj, biggest |-> st.biggest, mcp_r |-> st.mcp_r, told |-> st.told]
  BY <1>1 DEF States
<1>3. st = [obj |-> object', biggest |-> biggest', mcp_r |-> mcp_r', told |-> told']
  BY <1>2 DEF Carry
<1> QED
  BY <1>3 DEF SizeInv, State

LEMMA SameLinks ==
  ASSUME NEW os \in Tables, NEW ot \in Tables, DOMAIN ot = DOMAIN os,
         \A j \in DOMAIN os : ot[j].link = os[j].link /\ ot[j].sub = os[j].sub,
         Tree(os)
  PROVE  Tree(ot)
<1>1. Listed(ot)
  BY DEF Tree, Listed
<1>2. \A M, ord : Ordered(os, M, ord) => Ordered(ot, M, ord)
  BY DEF Ordered
<1> QED
  BY <1>1, <1>2 DEF Tree

(* An object that is moved is placed anew.                                 *)
MovedTo(o, n) ==
  /\ n.link = o.link /\ n.sub = o.sub /\ n.m = o.m /\ n.o_r = o.o_r /\ n.scale = o.scale
  /\ n.r = o.r /\ n.points = o.points /\ n.clone = o.clone /\ n.clone_src = o.clone_src

LEMMA Moved ==
  ASSUME MaxOid \in Nat, NEW st, Sound(st), NEW i \in DOMAIN st.obj, NEW o, NEW sn,
         Changed(st, sn, i, o), MovedTo(st.obj[i], o)
  PROVE  Sound(obj_pos_update(sn, i))
<1> DEFINE os == st.obj
           ot == sn.obj
<1>1. sn \in States /\ ot \in Tables /\ os \in Tables /\ DOMAIN ot = DOMAIN os
      /\ sn.mcp_r = st.mcp_r /\ sn.told = st.told /\ sn.biggest = st.biggest
  BY DEF Changed, TableKept, ObjectSet, Sound, States
<1>2. \A j \in DOMAIN os : MovedTo(os[j], ot[j]) /\ (j # i => ot[j] = os[j])
  BY DEF Changed, ObjectSet, MovedTo
<1> HIDE DEF ot
<1>3. Tree(ot)
  BY <1>1, <1>2, SameLinks DEF Sound, MovedTo
<1>4. Sized(ot)
  <2>1. \A j \in DOMAIN os : Furthest(ot[j]) = Furthest(os[j])
    BY <1>2 DEF Furthest, MovedTo
  <2> QED
    BY <1>1, <1>2, <2>1 DEF Sized, MovedTo, Sound
<1>5. Told(sn) /\ Inside(sn, {})
  <2>1. \A j \in DOMAIN os : Reach(ot[j]) = Reach(os[j])
    BY <1>2 DEF Reach, MovedTo
  <2> QED
    BY <1>1, <2>1 DEF Told, Inside, Sound, ot
<1>6. \A j \in DOMAIN ot \ Down(ot, i) : Current(ot, j)
  <2>1. \A j \in DOMAIN os \ {i} : /\ PlacedAlike(os, ot, j)
                                   /\ ot[j].m = os[j].m /\ ot[j].o_r = os[j].o_r
    BY <1>2 DEF PlacedAlike
  <2>2. Tree(os) /\ \A j \in DOMAIN os : Current(os, j)
    BY DEF Sound
  <2> QED
    BY <1>1, <1>3, <2>1, <2>2, OutsideStays
<1> QED
  BY <1>1, <1>3, <1>4, <1>5, <1>6, PlacedAnew DEF ot

LEMMA TranslateKeeps ==
  ASSUME Tame, SizeInv, NEW i \in DOMAIN object, Translate(i)
  PROVE  SizeInv'
<1>1. PICK x \in Places : Carry(obj_pos_update([State EXCEPT !.obj[i].translate = x], i))
  BY DEF Translate
<1> DEFINE o == [object[i] EXCEPT !.translate = x]
           sn == [State EXCEPT !.obj[i].translate = x]
<1>2. o \in Object /\ MovedTo(object[i], o)
  BY StateIs DEF Object, MovedTo, Tame
<1>3. sn = [State EXCEPT !.obj[i] = o]
  BY StateIs
<1> HIDE DEF o, sn
<1>4. Changed(State, sn, i, o)
  BY <1>2, <1>3, StateIs, ChangeIs
<1>5. Sound(obj_pos_update(sn, i))
  BY <1>2, <1>4, StateIs, Moved DEF Tame
<1> QED
  BY <1>1, <1>5, Carried DEF sn

LEMMA RotateKeeps ==
  ASSUME Tame, SizeInv, NEW i \in DOMAIN object, Rotate(i)
  PROVE  SizeInv'
<1>1. PICK x \in {1, -1} : Carry(obj_pos_update([State EXCEPT !.obj[i].rotate = x], i))
  BY DEF Rotate
<1> DEFINE o == [object[i] EXCEPT !.rotate = x]
           sn == [State EXCEPT !.obj[i].rotate = x]
<1>2. o \in Object /\ MovedTo(object[i], o)
  BY StateIs DEF Object, MovedTo
<1>3. sn = [State EXCEPT !.obj[i] = o]
  BY StateIs
<1> HIDE DEF o, sn
<1>4. Changed(State, sn, i, o)
  BY <1>2, <1>3, StateIs, ChangeIs
<1>5. Sound(obj_pos_update(sn, i))
  BY <1>2, <1>4, StateIs, Moved DEF Tame
<1> QED
  BY <1>1, <1>5, Carried DEF sn

-----------------------------------------------------------------------------
(* Radii.                                                                  *)
Seen(os, i) == IF os[i].clone = -1 THEN Furthest(os[i]) ELSE Furthest(os[os[i].clone])
SizedAt(os, i) ==
  /\ os[i].scale * Seen(os, i) <= os[i].r
  /\ os[i].clone # -1 =>
       /\ os[i].clone \in DOMAIN os /\ os[os[i].clone].clone = -1 /\ os[os[i].clone].clone_src
       /\ os[i].points = <<>>
  /\ os[i].sub # <<>> => os[i].scale = 1

LEMMA SizedIs ==
  ASSUME NEW os
  PROVE  Sized(os) <=> \A i \in DOMAIN os : SizedAt(os, i)
BY DEF Sized, SizedAt, Seen

(* An object that is not cloned changes, another one may become a source.  *)
StillSeen(o, n) ==
  /\ n.scale = o.scale /\ n.r = o.r /\ n.points = o.points /\ n.clone = o.clone /\ n.sub = o.sub
  /\ o.clone_src => n.clone_src

LEMMA SizedWith ==
  ASSUME NEW os, NEW ot, Sized(os), DOMAIN ot = DOMAIN os, NEW i \in DOMAIN os,
         \A j \in DOMAIN os \ {i} : StillSeen(os[j], ot[j]),
         Clones(os, i) = {}, SizedAt(ot, i)
  PROVE  Sized(ot)
<1> SUFFICES ASSUME NEW j \in DOMAIN os \ {i} PROVE SizedAt(ot, j)
  BY SizedIs
<1>1. SizedAt(os, j) /\ StillSeen(os[j], ot[j])
  BY SizedIs
<1>2. os[j].clone # i
  BY DEF Clones
<1>3. ot[j].clone = os[j].clone /\ ot[j].scale = os[j].scale /\ ot[j].r = os[j].r
      /\ ot[j].points = os[j].points /\ ot[j].sub = os[j].sub
  BY <1>1 DEF StillSeen
<1>4. CASE os[j].clone = -1
  <2>1. Seen(ot, j) = Seen(os, j)
    BY <1>3, <1>4 DEF Seen, Furthest
  <2> QED
    BY <1>1, <1>3, <1>4, <2>1 DEF SizedAt
<1>5. CASE os[j].clone # -1
  <2> DEFINE k == os[j].clone
  <2>1. k \in DOMAIN os \ {i} /\ os[k].clone = -1 /\ os[k].clone_src
    BY <1>1, <1>2, <1>5 DEF SizedAt
  <2>2. ot[k].points = os[k].points /\ ot[k].clone = -1 /\ ot[k].clone_src
    BY <2>1 DEF StillSeen
  <2>3. Seen(ot, j) = Seen(os, j)
    BY <1>3, <1>5, <2>2 DEF Seen, Furthest
  <2> QED
    BY <1>1, <1>3, <2>1, <2>2, <2>3 DEF SizedAt
<1> QED
  BY <1>4, <1>5

(* A source without clones is one no longer.                               *)
OnlySource(o, n) ==
  /\ n \in Object /\ n.link = o.link /\ n.sub = o.sub /\ n.translate = o.translate
  /\ n.rotate = o.rotate /\ n.scale = o.scale /\ n.m = o.m /\ n.o_r = o.o_r /\ n.r = o.r
  /\ n.points = o.points /\ n.clone = o.clone
OthersStay(os, ot, i) ==
  /\ ot \in Tables /\ DOMAIN ot = DOMAIN os
  /\ \A j \in DOMAIN os \ {i} : ot[j] = os[j]

LEMMA RadiiOfNone ==
  ASSUME NEW st \in States, NEW i \in DOMAIN st.obj, Clones(st.obj, i) = {},
         Told(st), Inside(st, {}), NEW sn, sn = CloneRadii(st, i)
  PROVE  /\ sn \in States /\ Told(sn) /\ Inside(sn, {})
         /\ OthersStay(st.obj, sn.obj, i) /\ OnlySource(st.obj[i], sn.obj[i])
<1>1. st.obj \in Tables /\ st.obj[i] \in Object
  BY ObjectAt DEF States
<1>2. CASE ~ st.obj[i].clone_src
  <2>1. sn = st
    BY <1>2 DEF CloneRadii
  <2> QED
    BY <1>1, <2>1 DEF OthersStay, OnlySource
<1>3. CASE st.obj[i].clone_src
  <2> DEFINE o == [st.obj[i] EXCEPT !.clone_src = FALSE]
  <2>1. sn = [st EXCEPT !.obj[i].clone_src = FALSE]
    BY <1>3 DEF CloneRadii
  <2>2. o \in Object /\ OnlySource(st.obj[i], o)
    BY <1>1 DEF Object, OnlySource
  <2>3. sn = [st EXCEPT !.obj[i] = o]
    BY <1>1, <2>1
  <2> HIDE DEF o
  <2>4. Changed(st, sn, i, o)
    BY <2>2, <2>3, ChangeIs
  <2>5. OthersStay(st.obj, sn.obj, i) /\ sn.obj[i] = o
    BY <2>4 DEF Changed, ObjectSet, OthersStay
  <2>6. sn \in States /\ sn.mcp_r = st.mcp_r /\ sn.told = st.told /\ sn.biggest = st.biggest
    BY <2>4 DEF Changed, TableKept
  <2>7. \A j \in DOMAIN sn.obj : Reach(sn.obj[j]) = Reach(st.obj[j])
    BY <2>2, <2>5 DEF Reach, OthersStay, OnlySource
  <2>8. Told(sn) /\ Inside(sn, {})
    BY <2>5, <2>6, <2>7 DEF Told, Inside, OthersStay
  <2> QED
    BY <2>2, <2>5, <2>6, <2>8
<1> QED
  BY <1>2, <1>3

LEMMA CheckedOne ==
  ASSUME MaxOid \in Nat, NEW st \in States, NEW i \in DOMAIN st.obj, Told(st), Inside(st, {}),
         NEW o, NEW sm, Changed(st, sm, i, o), NEW sn, sn = obj_check_biggest_object(sm, i)
  PROVE  /\ sn \in States /\ Told(sn) /\ Inside(sn, {}) /\ sn.obj = sm.obj
         /\ OthersStay(st.obj, sn.obj, i) /\ sn.obj[i] = o
<1>1. /\ sm \in States /\ sm.mcp_r = st.mcp_r /\ sm.told = st.told /\ sm.biggest = st.biggest
      /\ OthersStay(st.obj, sm.obj, i) /\ sm.obj[i] = o
  BY DEF Changed, TableKept, ObjectSet, OthersStay
<1>2. Told(sm) /\ Inside(sm, {i})
  BY <1>1 DEF Told, Inside, OthersStay
<1>3. i \in DOMAIN sm.obj
  BY <1>1 DEF OthersStay
<1>4. sn \in States /\ sn.obj = sm.obj /\ Told(sn) /\ Inside(sn, {i} \ {i})
  BY <1>1, <1>2, <1>3, CheckKeeps
<1>5. {i} \ {i} = {}
  OBVIOUS
<1> QED
  BY <1>1, <1>4, <1>5

(* obj_size_update(): the radius covers what the object shows.             *)
Resized(o, n) ==
  /\ n \in Object /\ n.link = o.link /\ n.sub = o.sub /\ n.translate = o.translate
  /\ n.rotate = o.rotate /\ n.scale = o.scale /\ n.m = o.m /\ n.o_r = o.o_r
  /\ n.points = o.points /\ n.clone = o.clone

LEMMA RadiusOfClone ==
  ASSUME NEW scale \in Nat, NEW src \in Nat \ {0}, NEW f \in Nat, NEW r \in Nat, src * f <= r
  PROVE  (r * scale) \div src \in Nat /\ scale * f <= (r * scale) \div src
<1>1. scale * (src * f) <= scale * r /\ scale * (src * f) \in Nat /\ scale * r \in Nat
      /\ src * f \in Nat /\ scale * f \in Nat
  BY Product
<1>2. src * (scale * f) = scale * (src * f) /\ scale * r = r * scale
  OBVIOUS
<1> QED
  BY <1>1, <1>2, Quotient

LEMMA SizeUpdateIs ==
  ASSUME MaxOid \in Nat, NEW st \in States, NEW i \in DOMAIN st.obj, Told(st), Inside(st, {}),
         Clones(st.obj, i) = {},
         st.obj[i].clone # -1 =>
           /\ st.obj[i].clone \in DOMAIN st.obj
           /\ st.obj[st.obj[i].clone].scale * Furthest(st.obj[st.obj[i].clone])
                <= st.obj[st.obj[i].clone].r,
         NEW sn, sn = obj_size_update(st, i)
  PROVE  /\ sn \in States /\ Told(sn) /\ Inside(sn, {}) /\ OthersStay(st.obj, sn.obj, i)
         /\ Resized(st.obj[i], sn.obj[i])
         /\ sn.obj[i].scale * Seen(sn.obj, i) <= sn.obj[i].r
<1> DEFINE old == st.obj[i]
<1>1. st.obj \in Tables /\ old \in Object
  BY ObjectAt DEF States
<1>2. old.scale \in Nat /\ old.r \in Nat /\ Furthest(old) \in Nat
  BY <1>1, FurthestIs DEF Object
<1>3. CASE old.clone # -1
  <2> DEFINE src == st.obj[old.clone]
             z == (src.r * old.scale) \div src.scale
             o == [old EXCEPT !.r = z]
             sm == [st EXCEPT !.obj[i].r = z]
  <2>1. src \in Object
    BY <1>1, <1>3, ObjectAt
  <2>2. src.scale \in Nat \ {0} /\ src.r \in Nat /\ Furthest(src) \in Nat
    BY <2>1, FurthestIs DEF Object
  <2>3. src.scale * Furthest(src) <= src.r
    BY <1>3
  <2>4. z \in Nat /\ old.scale * Furthest(src) <= z
    <3> HIDE DEF old, src
    <3> QED
      BY <1>2, <2>2, <2>3, RadiusOfClone
  <2>5. sn = obj_check_biggest_object(sm, i)
    BY <1>3 DEF obj_size_update
  <2> HIDE DEF z
  <2>6. o \in Object /\ Resized(old, o) /\ o.r = z /\ o.scale = old.scale /\ o.clone = old.clone
    BY <1>1, <2>4 DEF Object, Resized
  <2>7. sm = [st EXCEPT !.obj[i] = o]
    BY <1>1
  <2> HIDE DEF o, sm
  <2>8. Changed(st, sm, i, o)
    BY <2>6, <2>7, ChangeIs
  <2>9. /\ sn \in States /\ Told(sn) /\ Inside(sn, {}) /\ OthersStay(st.obj, sn.obj, i)
        /\ sn.obj[i] = o
    BY <2>5, <2>8, CheckedOne
  <2>10. old.clone # i /\ old.clone \in DOMAIN st.obj
    BY <1>3 DEF Clones
  <2>11. sn.obj[old.clone] = src
    BY <2>9, <2>10 DEF OthersStay
  <2>12. Seen(sn.obj, i) = Furthest(src)
    <3> HIDE DEF src
    <3> QED
      BY <1>3, <2>6, <2>9, <2>11 DEF Seen
  <2>13. sn.obj[i].r = z /\ sn.obj[i].scale = old.scale /\ Resized(old, sn.obj[i])
    BY <2>6, <2>9
  <2> HIDE DEF src, old
  <2>14. sn.obj[i].scale * Seen(sn.obj, i) <= sn.obj[i].r
    BY <2>4, <2>12, <2>13
  <2> QED
    BY <2>9, <2>13, <2>14 DEF old
<1>4. CASE old.clone = -1
  <2> DEFINE f == old.scale * Furthest(old)
             z == Max({old.r, f})
             o == [old EXCEPT !.r = z]
             sm == [st EXCEPT !.obj[i].r = z]
             sc == obj_check_biggest_object(sm, i)
  <2>1. f \in Nat
    BY <1>2, Product
  <2>2. z \in Nat /\ f <= z
    <3> DEFINE q == old.r
    <3>1. q \in Nat /\ q \in Int /\ f \in Int
      BY <1>2, <2>1
    <3> HIDE DEF f, q
    <3>2. Max({q, f}) \in Int /\ q <= Max({q, f}) /\ f <= Max({q, f})
      BY <3>1, MaxOfTwo
    <3>3. Max({q, f}) \in Nat /\ f <= Max({q, f})
      BY <2>1, <3>1, <3>2
    <3> QED
      BY <3>3 DEF q
  <2>3. sn = CloneRadii(sc, i)
    BY <1>4 DEF obj_size_update
  <2> HIDE DEF z
  <2>4. o \in Object /\ Resized(old, o) /\ o.r = z /\ o.scale = old.scale /\ o.clone = old.clone
        /\ o.points = old.points
    BY <1>1, <2>2 DEF Object, Resized
  <2>5. sm = [st EXCEPT !.obj[i] = o]
    BY <1>1
  <2> HIDE DEF o, sm
  <2>6. Changed(st, sm, i, o)
    BY <2>4, <2>5, ChangeIs
  <2>7. /\ sc \in States /\ Told(sc) /\ Inside(sc, {}) /\ OthersStay(st.obj, sc.obj, i)
        /\ sc.obj[i] = o
    BY <2>6, CheckedOne
  <2> HIDE DEF sc
  <2>8. Clones(sc.obj, i) = {} /\ i \in DOMAIN sc.obj
    <3>1. \A j \in DOMAIN sc.obj : sc.obj[j].clone = st.obj[j].clone
      BY <2>4, <2>7 DEF OthersStay
    <3> QED
      BY <2>7, <3>1 DEF Clones, OthersStay
  <2>9. /\ sn \in States /\ Told(sn) /\ Inside(sn, {})
        /\ OthersStay(sc.obj, sn.obj, i) /\ OnlySource(o, sn.obj[i])
    BY <2>3, <2>7, <2>8, RadiiOfNone
  <2>10. OthersStay(st.obj, sn.obj, i) /\ Resized(old, sn.obj[i])
    BY <2>4, <2>7, <2>9 DEF OthersStay, OnlySource, Resized
  <2>11. Seen(sn.obj, i) = Furthest(old) /\ sn.obj[i].r = z /\ sn.obj[i].scale = old.scale
    BY <1>4, <2>4, <2>9, <2>10 DEF Seen, Furthest, OnlySource, Resized
  <2> HIDE DEF old
  <2>12. sn.obj[i].scale * Seen(sn.obj, i) <= sn.obj[i].r
    BY <2>2, <2>11
  <2> QED
    BY <2>9, <2>10, <2>12 DEF old
<1> QED
  BY <1>3, <1>4

(* After it the invariant holds, for all that is sized well otherwise.     *)
LEMMA ResizedSound ==
  ASSUME MaxOid \in Nat, NEW st \in States, NEW i \in DOMAIN st.obj, Told(st), Inside(st, {}),
         Tree(st.obj), NEW os, Sized(os), DOMAIN os = DOMAIN st.obj, Clones(os, i) = {},
         \A j \in DOMAIN os \ {i} : StillSeen(os[j], st.obj[j]),
         st.obj[i].clone # -1 => /\ st.obj[i].clone \in DOMAIN os \ {i}
                                 /\ os[st.obj[i].clone].clone = -1
                                 /\ st.obj[st.obj[i].clone].clone_src
                                 /\ st.obj[i].points = <<>>,
         st.obj[i].sub # <<>> => st.obj[i].scale = 1,
         NEW sn, sn = obj_size_update(st, i)
  PROVE  /\ sn \in States /\ Told(sn) /\ Inside(sn, {}) /\ OthersStay(st.obj, sn.obj, i)
         /\ Resized(st.obj[i], sn.obj[i]) /\ Tree(sn.obj) /\ Sized(sn.obj)
<1> DEFINE k == st.obj[i].clone
<1>1. Clones(st.obj, i) = {}
  <2>1. \A j \in DOMAIN os \ {i} : st.obj[j].clone = os[j].clone
    BY DEF StillSeen
  <2>2. st.obj[i].clone # i
    <3>1. CASE st.obj[i].clone = -1
      <4>1. i \in Oids
        BY ObjectAt DEF States
      <4> QED
        BY <3>1, <4>1 DEF Oids
    <3>2. CASE st.obj[i].clone # -1
      BY <3>2
    <3> QED
      BY <3>1, <3>2
  <2> QED
    BY <2>1, <2>2 DEF Clones
<1>2. ASSUME k # -1
      PROVE  k \in DOMAIN st.obj /\ st.obj[k].scale * Furthest(st.obj[k]) <= st.obj[k].r
  <2>1. k \in DOMAIN os \ {i} /\ os[k].clone = -1
    BY <1>2
  <2>2. SizedAt(os, k) /\ StillSeen(os[k], st.obj[k])
    BY <2>1, SizedIs
  <2> HIDE DEF k
  <2>3. Furthest(st.obj[k]) = Seen(os, k)
    BY <2>1, <2>2 DEF Seen, StillSeen, Furthest
  <2> QED
    BY <2>1, <2>2, <2>3 DEF SizedAt, StillSeen
<1>3. /\ sn \in States /\ Told(sn) /\ Inside(sn, {}) /\ OthersStay(st.obj, sn.obj, i)
      /\ Resized(st.obj[i], sn.obj[i])
      /\ sn.obj[i].scale * Seen(sn.obj, i) <= sn.obj[i].r
  BY <1>1, <1>2, SizeUpdateIs
<1>4. \A j \in DOMAIN st.obj : sn.obj[j].link = st.obj[j].link /\ sn.obj[j].sub = st.obj[j].sub
  BY <1>3 DEF OthersStay, Resized
<1>5. Tree(sn.obj)
  BY <1>3, <1>4, SameLinks DEF States, OthersStay
<1>6. SizedAt(sn.obj, i)
  <2>1. k # -1 => k \in DOMAIN sn.obj /\ sn.obj[k] = st.obj[k] /\ st.obj[k].clone = -1
    BY <1>3 DEF OthersStay, StillSeen
  <2>2. sn.obj[i].clone = k /\ sn.obj[i].points = st.obj[i].points
        /\ sn.obj[i].sub = st.obj[i].sub /\ sn.obj[i].scale = st.obj[i].scale
    BY <1>3 DEF Resized
  <2> QED
    BY <1>3, <2>1, <2>2 DEF SizedAt
<1>7. \A j \in DOMAIN os \ {i} : StillSeen(os[j], sn.obj[j])
  BY <1>3 DEF OthersStay
<1>8. Sized(sn.obj)
  BY <1>3, <1>6, <1>7, SizedWith DEF OthersStay
<1> QED
  BY <1>3, <1>5, <1>8

LEMMA CloneOf ==
  ASSUME NEW os, Sized(os), NEW i \in DOMAIN os, Clones(os, i) = {}, os[i].clone # -1
  PROVE  /\ os[i].clone \in DOMAIN os \ {i} /\ os[os[i].clone].clone = -1
         /\ os[os[i].clone].clone_src /\ os[i].points = <<>>
<1>1. SizedAt(os, i)
  BY SizedIs
<1>2. os[i].clone # i
  BY DEF Clones
<1> QED
  BY <1>1, <1>2 DEF SizedAt

LEMMA NotClonedIs ==
  ASSUME Tame, NEW i, NotCloned(i)
  PROVE  Clones(object, i) = {} /\ MaxOid \in Nat
BY DEF Tame, NotCloned

(* Objects that stay where they are.                                       *)
StaysAt(o, n) ==
  /\ n.link = o.link /\ n.sub = o.sub /\ n.translate = o.translate /\ n.rotate = o.rotate
  /\ n.scale = o.scale /\ n.m = o.m /\ n.o_r = o.o_r

LEMMA PlacedAgain ==
  ASSUME NEW os \in Tables, Tree(os), \A j \in DOMAIN os : Current(os, j),
         NEW ot \in Tables, DOMAIN ot = DOMAIN os,
         \A j \in DOMAIN os : StaysAt(os[j], ot[j])
  PROVE  Tree(ot) /\ \A j \in DOMAIN ot : Current(ot, j)
<1>1. Tree(ot)
  BY SameLinks DEF StaysAt
<1>2. Closed(os, DOMAIN os)
  BY DEF Closed, Tree, Listed
<1>3. \A j \in DOMAIN os : PlacedAlike(os, ot, j)
  BY DEF PlacedAlike, StaysAt
<1>4. DOMAIN os \in SUBSET (DOMAIN os \cap DOMAIN ot)
  OBVIOUS
<1>5. \A j \in DOMAIN os : Position(os, j) = Position(ot, j)
  BY <1>1, <1>2, <1>3, <1>4, PositionsAgree
<1>6. \A j \in DOMAIN ot : Current(ot, j)
  BY <1>5 DEF Current, StaysAt
<1> QED
  BY <1>1, <1>6

LEMMA SoundAgain ==
  ASSUME NEW st, Sound(st), NEW sn \in States, Told(sn), Inside(sn, {}), Sized(sn.obj),
         DOMAIN sn.obj = DOMAIN st.obj,
         \A j \in DOMAIN st.obj : StaysAt(st.obj[j], sn.obj[j])
  PROVE  Sound(sn)
<1>1. st.obj \in Tables /\ sn.obj \in Tables /\ Tree(st.obj)
      /\ \A j \in DOMAIN st.obj : Current(st.obj, j)
  BY DEF Sound, States
<1>2. Tree(sn.obj) /\ \A j \in DOMAIN sn.obj : Current(sn.obj, j)
  BY <1>1, PlacedAgain
<1> QED
  BY <1>2 DEF Sound

(* A change of what does not make an object's reach keeps the sphere.      *)
LEMMA ChangedInside ==
  ASSUME NEW st, Sound(st), NEW i \in DOMAIN st.obj, NEW o, NEW sn, Changed(st, sn, i, o),
         o.r = st.obj[i].r, o.o_r = st.obj[i].o_r, o.link = st.obj[i].link, o.sub = st.obj[i].sub
  PROVE  /\ sn \in States /\ Told(sn) /\ Inside(sn, {}) /\ Tree(sn.obj) /\ DOMAIN sn.obj = DOMAIN st.obj
         /\ sn.obj[i] = o /\ \A j \in DOMAIN st.obj \ {i} : sn.obj[j] = st.obj[j]
<1>1. /\ sn \in States /\ sn.mcp_r = st.mcp_r /\ sn.told = st.told /\ sn.biggest = st.biggest
      /\ DOMAIN sn.obj = DOMAIN st.obj
      /\ sn.obj[i] = o /\ \A j \in DOMAIN st.obj \ {i} : sn.obj[j] = st.obj[j]
  BY DEF Changed, TableKept, ObjectSet
<1>2. \A j \in DOMAIN st.obj : Reach(sn.obj[j]) = Reach(st.obj[j])
  BY <1>1 DEF Reach
<1>3. Told(sn) /\ Inside(sn, {})
  BY <1>1, <1>2 DEF Told, Inside, Sound
<1>4. \A j \in DOMAIN st.obj : sn.obj[j].link = st.obj[j].link /\ sn.obj[j].sub = st.obj[j].sub
  BY <1>1
<1>5. Tree(sn.obj)
  BY <1>1, <1>4, SameLinks DEF Sound, States
<1> QED
  BY <1>1, <1>3, <1>5

LEMMA ScaleKeeps ==
  ASSUME Tame, SizeInv, NEW i \in DOMAIN object, Scale(i)
  PROVE  SizeInv'
<1>1. PICK x \in Scales :
         /\ NotCloned(i)
         /\ x = 1 \/ object[i].sub = <<>>
         /\ Carry(obj_pos_update(obj_size_update([State EXCEPT !.obj[i].scale = x], i), i))
  BY DEF Scale, Tame
<1> DEFINE o == [object[i] EXCEPT !.scale = x]
           sm == [State EXCEPT !.obj[i].scale = x]
           su == obj_size_update(sm, i)
<1>2. /\ o \in Object /\ o.r = object[i].r /\ o.o_r = object[i].o_r /\ o.link = object[i].link
      /\ o.sub = object[i].sub /\ o.clone = object[i].clone /\ o.points = object[i].points /\ o.m = object[i].m
      /\ o.scale = x
  BY StateIs DEF Object, Tame
<1>3. sm = [State EXCEPT !.obj[i] = o]
  BY StateIs
<1>4. State.obj = object /\ State \in States /\ Sized(object) /\ Sound(State) /\ object \in Tables
      /\ Tree(object) /\ \A j \in DOMAIN object : Current(object, j)
  BY StateIs
<1> HIDE DEF o, sm, State
<1>5. Changed(State, sm, i, o)
  BY <1>2, <1>3, <1>4, ChangeIs
<1>6. /\ sm \in States /\ Told(sm) /\ Inside(sm, {}) /\ Tree(sm.obj) /\ DOMAIN sm.obj = DOMAIN object
      /\ sm.obj[i] = o /\ \A j \in DOMAIN object \ {i} : sm.obj[j] = object[j]
  BY <1>2, <1>4, <1>5, ChangedInside
<1>7. Clones(object, i) = {} /\ MaxOid \in Nat
  BY <1>1, NotClonedIs
<1>8. \A j \in DOMAIN object \ {i} : StillSeen(object[j], sm.obj[j])
  BY <1>6 DEF StillSeen
<1>9. o.clone # -1 => /\ o.clone \in DOMAIN object \ {i} /\ object[o.clone].clone = -1
                      /\ sm.obj[o.clone].clone_src /\ o.points = <<>>
  BY <1>2, <1>4, <1>6, <1>7, CloneOf
<1>10. /\ su \in States /\ Told(su) /\ Inside(su, {}) /\ OthersStay(sm.obj, su.obj, i)
       /\ Resized(sm.obj[i], su.obj[i]) /\ Tree(su.obj) /\ Sized(su.obj)
  BY <1>1, <1>2, <1>4, <1>6, <1>7, <1>8, <1>9, ResizedSound
<1> HIDE DEF su
<1>11. su.obj \in Tables /\ DOMAIN su.obj = DOMAIN object
  BY <1>6, <1>10 DEF OthersStay
<1>12. \A j \in DOMAIN object \ {i} : su.obj[j] = object[j]
  BY <1>6, <1>10 DEF OthersStay
<1>13. \A j \in DOMAIN object \ {i} : /\ PlacedAlike(object, su.obj, j)
                                      /\ su.obj[j].m = object[j].m /\ su.obj[j].o_r = object[j].o_r
  BY <1>12 DEF PlacedAlike
<1>14. \A j \in DOMAIN su.obj \ Down(su.obj, i) : Current(su.obj, j)
  BY <1>4, <1>10, <1>11, <1>13, OutsideStays
<1>15. Sound(obj_pos_update(su, i))
  BY <1>7, <1>10, <1>11, <1>14, PlacedAnew
<1> QED
  BY <1>1, <1>15, Carried DEF su, sm

LEMMA FrontIs ==
  ASSUME NEW s \in Seq(Int), s # <<>>
  PROVE  Front(s) \in Seq(Int)
<1>1. Len(s) \in Nat \ {0}
  BY EmptySeq
<1>2. Len(s) - 1 \in Int /\ 1 \in Int
  BY <1>1
<1>3. \A k \in 1 .. Len(s) - 1 : s[k] \in Int
  BY <1>1
<1> QED
  BY <1>2, <1>3, SubSeqProperties DEF Front

LEMMA DelVertexKeeps ==
  ASSUME Tame, SizeInv, NEW i \in DOMAIN object, DelVertex(i)
  PROVE  SizeInv'
<1> DEFINE o == [object[i] EXCEPT !.points = Front(@)]
           sm == [State EXCEPT !.obj[i].points = Front(@)]
           su == obj_size_update(sm, i)
<1>1. NotCloned(i) /\ object[i].clone = -1 /\ object[i].points # <<>> /\ Carry(su)
  BY DEF DelVertex
<1>2. /\ o \in Object /\ o.r = object[i].r /\ o.o_r = object[i].o_r /\ o.link = object[i].link
      /\ o.sub = object[i].sub /\ o.clone = object[i].clone /\ o.scale = object[i].scale /\ o.m = object[i].m
      /\ o.translate = object[i].translate /\ o.rotate = object[i].rotate
  <2> DEFINE s == object[i].points
  <2>1. s \in Seq(Int) /\ s # <<>>
    BY <1>1, StateIs DEF Object
  <2>2. Front(s) \in Seq(Int)
    BY <2>1, FrontIs
  <2> QED
    BY <2>2, StateIs DEF Object
<1>3. sm = [State EXCEPT !.obj[i] = o]
  BY StateIs
<1>4. State.obj = object /\ State \in States /\ Sized(object) /\ Sound(State) /\ object \in Tables
  BY StateIs
<1> HIDE DEF o, sm, State
<1>5. Changed(State, sm, i, o)
  BY <1>2, <1>3, <1>4, ChangeIs
<1>6. /\ sm \in States /\ Told(sm) /\ Inside(sm, {}) /\ Tree(sm.obj) /\ DOMAIN sm.obj = DOMAIN object
      /\ sm.obj[i] = o /\ \A j \in DOMAIN object \ {i} : sm.obj[j] = object[j]
  BY <1>2, <1>4, <1>5, ChangedInside
<1>7. Clones(object, i) = {} /\ MaxOid \in Nat
  BY <1>1, NotClonedIs
<1>8. \A j \in DOMAIN object \ {i} : StillSeen(object[j], sm.obj[j])
  BY <1>6 DEF StillSeen
<1>9. o.sub # <<>> => o.scale = 1
  BY <1>2, <1>4 DEF Sized
<1>10. /\ su \in States /\ Told(su) /\ Inside(su, {}) /\ OthersStay(sm.obj, su.obj, i)
       /\ Resized(sm.obj[i], su.obj[i]) /\ Sized(su.obj)
  BY <1>1, <1>2, <1>4, <1>6, <1>7, <1>8, <1>9, ResizedSound
<1> HIDE DEF su
<1>11. DOMAIN su.obj = DOMAIN object /\ \A j \in DOMAIN object : StaysAt(object[j], su.obj[j])
  BY <1>2, <1>6, <1>10 DEF OthersStay, Resized, StaysAt
<1>12. Sound(su)
  BY <1>4, <1>10, <1>11, SoundAgain
<1> QED
  BY <1>1, <1>12, Carried

(* A vertex more, or another one.                                          *)
LEMMA FurtherBy ==
  ASSUME NEW o \in Object, NEW p \in Object, NEW x \in Int, NEW scale \in Nat, NEW q \in Nat,
         \A k \in 1 .. Len(p.points) :
           p.points[k] = x \/ \E l \in 1 .. Len(o.points) : p.points[k] = o.points[l],
         scale * Furthest(o) <= q,
         NEW r, r = Max({q, scale * Abs(x)})
  PROVE  r \in Nat /\ scale * Furthest(p) <= r
<1> DEFINE f == scale * Abs(x)
<1>1. Abs(x) \in Nat /\ f \in Nat
  BY AbsIs, Product
<1> HIDE DEF f
<1>2. r \in Nat /\ q <= r /\ f <= r
  <2>1. q \in Int /\ f \in Int /\ r = Max({q, f})
    BY <1>1 DEF f
  <2>2. r \in Int /\ q <= r /\ f <= r
    BY <2>1, MaxOfTwo
  <2> QED
    BY <1>1, <2>2
<1>3. Furthest(o) \in Nat /\ Furthest(p) \in Nat
  BY FurthestIs
<1>4. CASE p.points = <<>>
  <2>1. Furthest(p) = 0
    BY <1>4, FurthestIs
  <2> QED
    BY <1>2, <2>1
<1>5. CASE p.points # <<>>
  <2>1. PICK k \in 1 .. Len(p.points) : Furthest(p) = Abs(p.points[k])
    BY <1>5, FurthestIs
  <2>2. CASE p.points[k] = x
    <3>1. scale * Furthest(p) = f
      BY <2>1, <2>2 DEF f
    <3> QED
      BY <1>2, <3>1
  <2>3. CASE \E l \in 1 .. Len(o.points) : p.points[k] = o.points[l]
    <3>1. Furthest(p) <= Furthest(o)
      BY <2>1, <2>3, FurthestIs
    <3>2. /\ scale * Furthest(p) <= scale * Furthest(o)
          /\ scale * Furthest(p) \in Nat /\ scale * Furthest(o) \in Nat
      BY <1>3, <3>1, Product
    <3> QED
      BY <1>2, <3>2
  <2> QED
    BY <2>2, <2>3
<1> QED
  BY <1>2, <1>4, <1>5

LEMMA ReachSame ==
  ASSUME NEW st \in States, NEW i \in DOMAIN st.obj, Told(st), Inside(st, {}),
         NEW o, NEW sn, Changed(st, sn, i, o), o.r = st.obj[i].r, o.o_r = st.obj[i].o_r
  PROVE  sn \in States /\ Told(sn) /\ Inside(sn, {}) /\ OthersStay(st.obj, sn.obj, i) /\ sn.obj[i] = o
<1>1. /\ sn \in States /\ sn.mcp_r = st.mcp_r /\ sn.told = st.told /\ sn.biggest = st.biggest
      /\ OthersStay(st.obj, sn.obj, i) /\ sn.obj[i] = o
  BY DEF Changed, TableKept, ObjectSet, OthersStay
<1>2. \A j \in DOMAIN st.obj : Reach(sn.obj[j]) = Reach(st.obj[j])
  BY <1>1 DEF Reach, OthersStay
<1> QED
  BY <1>1, <1>2 DEF Told, Inside, OthersStay

Pushed(o, x) == [o EXCEPT !.points = Append(@, x), !.clone_src = FALSE]
LEMMA PushedIs ==
  ASSUME NEW o \in Object, NEW x \in Int
  PROVE  /\ Pushed(o, x) \in Object /\ StaysAt(o, Pushed(o, x)) /\ Pushed(o, x).r = o.r
         /\ Pushed(o, x).clone = o.clone /\ Pushed(o, x).points = Append(o.points, x)
         /\ \A k \in 1 .. Len(Pushed(o, x).points) : Pushed(o, x).points[k] = x
              \/ \E l \in 1 .. Len(o.points) : Pushed(o, x).points[k] = o.points[l]
<1>1. o.points \in Seq(Int)
  BY DEF Object
<1> DEFINE s == Append(o.points, x)
<1>2. /\ s \in Seq(Int) /\ Len(o.points) \in Nat /\ Len(s) = Len(o.points) + 1
      /\ \A k \in 1 .. Len(o.points) : s[k] = o.points[k]
      /\ s[Len(o.points) + 1] = x
  BY <1>1, AppendProperties
<1> HIDE DEF s
<1>3. Pushed(o, x) = [o EXCEPT !.points = s, !.clone_src = FALSE]
  BY DEF Pushed, s, Object
<1>4. /\ Pushed(o, x) \in Object /\ StaysAt(o, Pushed(o, x)) /\ Pushed(o, x).r = o.r
      /\ Pushed(o, x).clone = o.clone /\ Pushed(o, x).points = s
  BY <1>2, <1>3 DEF StaysAt, Object
<1>5. ASSUME NEW k \in 1 .. Len(s), s[k] # x
      PROVE  \E l \in 1 .. Len(o.points) : s[k] = o.points[l]
  <2>1. k \in 1 .. Len(o.points)
    BY <1>2, <1>5
  <2> QED
    BY <1>2, <2>1
<1> QED
  BY <1>4, <1>5 DEF s

LEMMA PushVertexKeeps ==
  ASSUME Tame, SizeInv, NEW i \in DOMAIN object, PushVertex(i)
  PROVE  SizeInv'
<1>1. PICK x \in Points :
        /\ NotCloned(i) /\ object[i].clone = -1
        /\ LET r   == Max({object[i].r, object[i].scale * Abs(x)})
               st  == obj_check_biggest_object([State EXCEPT !.obj[i].r = r], i)
           IN  Carry([st EXCEPT !.obj[i].points = Append(@, x), !.obj[i].clone_src = FALSE])
  BY DEF PushVertex
<1> DEFINE r == Max({object[i].r, object[i].scale * Abs(x)})
           o == [object[i] EXCEPT !.r = r]
           p == Pushed(o, x)
           sm == [State EXCEPT !.obj[i].r = r]
           sc == obj_check_biggest_object(sm, i)
           sn == [sc EXCEPT !.obj[i].points = Append(@, x), !.obj[i].clone_src = FALSE]
<1>2. Carry(sn)
  BY <1>1
<1>3. x \in Int /\ Clones(object, i) = {} /\ MaxOid \in Nat
  BY <1>1, NotClonedIs DEF Tame
<1>4. State.obj = object /\ State \in States /\ Sized(object) /\ Sound(State) /\ object \in Tables
      /\ object[i] \in Object /\ Told(State) /\ Inside(State, {})
  BY StateIs
<1>5. object[i].scale \in Nat /\ object[i].r \in Nat /\ object[i].scale * Furthest(object[i]) <= object[i].r
  BY <1>1, <1>4 DEF Object, Sized
<1>6. r \in Nat
  <2> DEFINE q == object[i].r
             scale == object[i].scale
             v == object[i]
  <2>1. q \in Nat /\ scale \in Nat /\ v \in Object /\ scale * Furthest(v) <= q
    BY <1>4, <1>5
  <2>2. r = Max({q, scale * Abs(x)})
    OBVIOUS
  <2>3. x \in Int
    BY <1>3
  <2>4. \A k \in 1 .. Len(v.points) :
          v.points[k] = x \/ \E l \in 1 .. Len(v.points) : v.points[k] = v.points[l]
    OBVIOUS
  <2> HIDE DEF q, scale, v, r
  <2> QED
    BY <2>1, <2>2, <2>3, <2>4, FurtherBy
<1>7. o \in Object /\ StaysAt(object[i], o) /\ o.r = r /\ o.clone = object[i].clone
      /\ o.points = object[i].points /\ o.scale = object[i].scale
  <2> HIDE DEF r
  <2> QED
    BY <1>4, <1>6 DEF Object, StaysAt
<1>8. sm = [State EXCEPT !.obj[i] = o]
  BY <1>4
<1>9. /\ p \in Object /\ StaysAt(o, p) /\ p.r = o.r /\ p.clone = o.clone
      /\ \A k \in 1 .. Len(p.points) : p.points[k] = x
              \/ \E l \in 1 .. Len(o.points) : p.points[k] = o.points[l]
  <2> HIDE DEF o
  <2> QED
    BY <1>3, <1>7, PushedIs
<1>10. object[i].scale * Furthest(p) <= r
  <2> DEFINE q == object[i].r
             scale == object[i].scale
             v == object[i]
  <2>1. /\ q \in Nat /\ scale \in Nat /\ v \in Object /\ scale * Furthest(v) <= q
        /\ r = Max({q, scale * Abs(x)})
    BY <1>4, <1>5
  <2> HIDE DEF p, o, q, scale, r
  <2>2. \A k \in 1 .. Len(p.points) :
          p.points[k] = x \/ \E l \in 1 .. Len(v.points) : p.points[k] = v.points[l]
    BY <1>7, <1>9
  <2> HIDE DEF v
  <2>3. p \in Object /\ x \in Int
    BY <1>3, <1>9
  <2>4. scale * Furthest(p) <= r
    BY <2>1, <2>2, <2>3, FurtherBy
  <2> QED
    BY <2>4 DEF scale
<1> HIDE DEF sm, o, State
<1>11. Changed(State, sm, i, o)
  BY <1>4, <1>7, <1>8, ChangeIs
<1>12. /\ sc \in States /\ Told(sc) /\ Inside(sc, {})
       /\ OthersStay(object, sc.obj, i) /\ sc.obj[i] = o
  BY <1>3, <1>4, <1>11, CheckedOne
<1> HIDE DEF sc, r
<1>13. i \in DOMAIN sc.obj /\ sc.obj \in Tables
  BY <1>12 DEF OthersStay
<1>14. sn = [sc EXCEPT !.obj[i] = p]
  <2>1. sc.obj[i] \in Object
    BY <1>7, <1>12
  <2> QED
    BY <1>12, <1>13, <2>1 DEF Pushed, States, Tables, Object
<1> HIDE DEF p, sn
<1>15. Changed(sc, sn, i, p)
  BY <1>9, <1>12, <1>13, <1>14, ChangeIs
<1>16. /\ sn \in States /\ Told(sn) /\ Inside(sn, {}) /\ OthersStay(sc.obj, sn.obj, i)
       /\ sn.obj[i] = p
  BY <1>9, <1>12, <1>13, <1>15, ReachSame DEF StaysAt
<1>17. OthersStay(object, sn.obj, i) /\ StaysAt(object[i], p) /\ p.clone = -1 /\ p.r = r
       /\ p.scale = object[i].scale /\ p.sub = object[i].sub
  BY <1>1, <1>7, <1>9, <1>12, <1>16 DEF OthersStay, StaysAt
<1>18. SizedAt(sn.obj, i)
  BY <1>4, <1>10, <1>16, <1>17 DEF SizedAt, Seen, Sized
<1>19. \A j \in DOMAIN object \ {i} : StillSeen(object[j], sn.obj[j])
  BY <1>17 DEF OthersStay, StillSeen
<1>20. Sized(sn.obj) /\ DOMAIN sn.obj = DOMAIN object
  BY <1>3, <1>4, <1>17, <1>18, <1>19, SizedWith DEF OthersStay
<1>21. \A j \in DOMAIN object : StaysAt(object[j], sn.obj[j])
  BY <1>16, <1>17 DEF OthersStay, StaysAt
<1>22. Sound(sn)
  BY <1>4, <1>16, <1>20, <1>21, SoundAgain
<1> QED
  BY <1>2, <1>22, Carried

Pepped(o, r, n, x) == [o EXCEPT !.r = r, !.points[n] = x]
LEMMA PeppedIs ==
  ASSUME NEW o \in Object, NEW r \in Nat, NEW n \in 1 .. Len(o.points), NEW x \in Int
  PROVE  /\ Pepped(o, r, n, x) \in Object /\ StaysAt(o, Pepped(o, r, n, x))
         /\ Pepped(o, r, n, x).r = r /\ Pepped(o, r, n, x).clone = o.clone
         /\ \A k \in 1 .. Len(Pepped(o, r, n, x).points) : Pepped(o, r, n, x).points[k] = x
              \/ \E l \in 1 .. Len(o.points) : Pepped(o, r, n, x).points[k] = o.points[l]
<1> DEFINE s == [o.points EXCEPT ![n] = x]
<1>1. o.points \in Seq(Int)
  BY DEF Object
<1>2. s \in Seq(Int) /\ Len(s) = Len(o.points) /\ \A k \in 1 .. Len(s) : s[k] = x \/ s[k] = o.points[k]
  BY <1>1, ExceptSeq
<1>3. Pepped(o, r, n, x) = [o EXCEPT !.r = r, !.points = s]
  BY DEF Pepped, Object
<1> HIDE DEF s
<1>4. /\ Pepped(o, r, n, x) \in Object /\ StaysAt(o, Pepped(o, r, n, x))
      /\ Pepped(o, r, n, x).r = r /\ Pepped(o, r, n, x).clone = o.clone
      /\ Pepped(o, r, n, x).points = s
  BY <1>2, <1>3 DEF StaysAt, Object
<1> QED
  BY <1>2, <1>4

LEMMA PepVertexKeeps ==
  ASSUME Tame, SizeInv, NEW i \in DOMAIN object, PepVertex(i)
  PROVE  SizeInv'
<1>1. PICK x \in Points :
        /\ NotCloned(i) /\ object[i].clone = -1 /\ object[i].points # <<>>
        /\ LET r == Max({object[i].r, object[i].scale * Abs(x)})
               n == Len(object[i].points)
           IN  Carry(CloneRadii(obj_check_biggest_object(
                  [State EXCEPT !.obj[i].r = r, !.obj[i].points[n] = x], i), i))
  BY DEF PepVertex
<1> DEFINE r == Max({object[i].r, object[i].scale * Abs(x)})
           n == Len(object[i].points)
           p == Pepped(object[i], r, n, x)
           sm == [State EXCEPT !.obj[i].r = r, !.obj[i].points[n] = x]
           sc == obj_check_biggest_object(sm, i)
           sn == CloneRadii(sc, i)
<1>2. Carry(sn)
  BY <1>1
<1>3. x \in Int /\ Clones(object, i) = {} /\ MaxOid \in Nat
  BY <1>1, NotClonedIs DEF Tame
<1>4. State.obj = object /\ State \in States /\ Sized(object) /\ Sound(State) /\ object \in Tables
      /\ object[i] \in Object /\ Told(State) /\ Inside(State, {})
  BY StateIs
<1>5. object[i].scale \in Nat /\ object[i].r \in Nat /\ object[i].scale * Furthest(object[i]) <= object[i].r
  BY <1>1, <1>4 DEF Object, Sized
<1>6. r \in Nat
  <2> DEFINE q == object[i].r
             scale == object[i].scale
             v == object[i]
  <2>1. q \in Nat /\ scale \in Nat /\ v \in Object /\ scale * Furthest(v) <= q
    BY <1>4, <1>5
  <2>2. r = Max({q, scale * Abs(x)})
    OBVIOUS
  <2>3. x \in Int
    BY <1>3
  <2>4. \A k \in 1 .. Len(v.points) :
          v.points[k] = x \/ \E l \in 1 .. Len(v.points) : v.points[k] = v.points[l]
    OBVIOUS
  <2> HIDE DEF q, scale, v, r
  <2> QED
    BY <2>1, <2>2, <2>3, <2>4, FurtherBy
<1>7. n \in 1 .. Len(object[i].points)
  <2>1. Len(object[i].points) \in Nat \ {0}
    BY <1>1, <1>4, EmptySeq DEF Object
  <2> QED
    BY <2>1
<1>8. sm = [State EXCEPT !.obj[i] = p]
  <2> HIDE DEF r, n
  <2> QED
    BY <1>4 DEF Pepped, States, Tables, Object
<1>9. /\ p \in Object /\ StaysAt(object[i], p) /\ p.r = r /\ p.clone = object[i].clone
      /\ \A k \in 1 .. Len(p.points) : p.points[k] = x
              \/ \E l \in 1 .. Len(object[i].points) : p.points[k] = object[i].points[l]
  <2> HIDE DEF r, n
  <2> QED
    BY <1>3, <1>4, <1>6, <1>7, PeppedIs
<1>10. object[i].scale * Furthest(p) <= r
  <2> DEFINE q == object[i].r
             scale == object[i].scale
             v == object[i]
  <2>1. /\ q \in Nat /\ scale \in Nat /\ v \in Object /\ scale * Furthest(v) <= q
        /\ r = Max({q, scale * Abs(x)})
    BY <1>4, <1>5
  <2> HIDE DEF p, q, scale, r
  <2>2. \A k \in 1 .. Len(p.points) :
          p.points[k] = x \/ \E l \in 1 .. Len(v.points) : p.points[k] = v.points[l]
    BY <1>9
  <2> HIDE DEF v
  <2>3. p \in Object /\ x \in Int
    BY <1>3, <1>9
  <2>4. scale * Furthest(p) <= r
    BY <2>1, <2>2, <2>3, FurtherBy
  <2> QED
    BY <2>4 DEF scale
<1> HIDE DEF sm, p, State, r
<1>11. Changed(State, sm, i, p)
  BY <1>4, <1>8, <1>9, ChangeIs
<1>12. /\ sc \in States /\ Told(sc) /\ Inside(sc, {})
       /\ OthersStay(object, sc.obj, i) /\ sc.obj[i] = p
  BY <1>3, <1>4, <1>11, CheckedOne
<1> HIDE DEF sc
<1>13. i \in DOMAIN sc.obj /\ Clones(sc.obj, i) = {}
  <2>1. \A j \in DOMAIN object : sc.obj[j].clone = object[j].clone
    BY <1>9, <1>12 DEF OthersStay
  <2> QED
    BY <1>3, <1>12, <2>1 DEF Clones, OthersStay
<1>14. /\ sn \in States /\ Told(sn) /\ Inside(sn, {})
       /\ OthersStay(sc.obj, sn.obj, i) /\ OnlySource(p, sn.obj[i])
  BY <1>12, <1>13, RadiiOfNone
<1> HIDE DEF sn
<1>15. /\ OthersStay(object, sn.obj, i) /\ StaysAt(object[i], sn.obj[i]) /\ sn.obj[i].clone = -1
       /\ sn.obj[i].r = r /\ sn.obj[i].points = p.points
  BY <1>1, <1>9, <1>12, <1>14 DEF OthersStay, StaysAt, OnlySource
<1>16. Seen(sn.obj, i) = Furthest(p)
  BY <1>15 DEF Seen, Furthest
<1>17. SizedAt(sn.obj, i)
  BY <1>4, <1>10, <1>15, <1>16 DEF SizedAt, Sized, StaysAt
<1>18. \A j \in DOMAIN object \ {i} : StillSeen(object[j], sn.obj[j])
  BY <1>15 DEF OthersStay, StillSeen
<1>19. Sized(sn.obj) /\ DOMAIN sn.obj = DOMAIN object
  BY <1>3, <1>4, <1>15, <1>17, <1>18, SizedWith DEF OthersStay
<1>20. \A j \in DOMAIN object : StaysAt(object[j], sn.obj[j])
  BY <1>15 DEF OthersStay, StaysAt
<1>21. Sound(sn)
  BY <1>4, <1>14, <1>19, <1>20, SoundAgain
<1> QED
  BY <1>2, <1>21, Carried

Cloning(o, to, src) == [o EXCEPT !.clone = to, !.clone_src = src]
Source(o) == [o EXCEPT !.clone_src = TRUE]
LEMMA CloningIs ==
  ASSUME NEW o \in Object, NEW to \in Int, NEW src \in BOOLEAN
  PROVE  /\ Cloning(o, to, src) \in Object /\ StaysAt(o, Cloning(o, to, src))
         /\ Cloning(o, to, src).r = o.r /\ Cloning(o, to, src).points = o.points
         /\ Cloning(o, to, src).clone = to
BY DEF Object, StaysAt, Cloning

LEMMA SourceIs ==
  ASSUME NEW o \in Object
  PROVE  /\ Source(o) \in Object /\ StaysAt(o, Source(o)) /\ Source(o).r = o.r
         /\ Source(o).points = o.points /\ Source(o).clone = o.clone /\ Source(o).clone_src
BY DEF Object, StaysAt, Source

LEMMA CloneKeeps ==
  ASSUME Tame, SizeInv, NEW i \in DOMAIN object, Clone(i)
  PROVE  SizeInv'
<1>1. PICK to \in DOMAIN object \ {i} :
        /\ object[i].points = <<>> /\ object[to].clone = -1
        /\ object[i].clone # -1 \/ Clones(object, i) = {} \/ ~object[i].clone_src
        /\ LET src == IF object[i].clone = -1 THEN FALSE ELSE object[i].clone_src
               st  == [State EXCEPT !.obj[i].clone = to, !.obj[i].clone_src = src,
                                    !.obj[to].clone_src = TRUE]
           IN  Carry(obj_check_biggest_object(obj_size_update(st, i), i))
  BY DEF Clone
<1> DEFINE src == IF object[i].clone = -1 THEN FALSE ELSE object[i].clone_src
           c == Cloning(object[i], to, src)
           d == Source(object[to])
           ot == [object EXCEPT ![i] = c, ![to] = d]
           sm == [State EXCEPT !.obj[i].clone = to, !.obj[i].clone_src = src,
                               !.obj[to].clone_src = TRUE]
           su == obj_size_update(sm, i)
           sn == obj_check_biggest_object(su, i)
<1>2. Carry(sn)
  BY <1>1
<1>3. State.obj = object /\ State \in States /\ Sized(object) /\ Sound(State) /\ object \in Tables
      /\ object[i] \in Object /\ object[to] \in Object /\ Told(State) /\ Inside(State, {})
      /\ Tree(object) /\ to \in Oids /\ MaxOid \in Nat
  BY StateIs DEF Tame
<1>4. src \in BOOLEAN /\ to \in Int /\ to # -1
  <2>1. object[i].clone_src \in BOOLEAN
    BY <1>3 DEF Object
  <2>2. src \in BOOLEAN
    BY <2>1, ZenonT(30)
  <2>3. to \in Int /\ to # -1
    BY <1>3 DEF Oids
  <2> QED
    BY <2>2, <2>3
<1> HIDE DEF src
<1>5. /\ c \in Object /\ StaysAt(object[i], c) /\ c.r = object[i].r /\ c.points = <<>> /\ c.clone = to
      /\ d \in Object /\ StaysAt(object[to], d) /\ d.r = object[to].r /\ d.points = object[to].points
      /\ d.clone = object[to].clone /\ d.clone_src
  <2>1. c \in Object /\ StaysAt(object[i], c) /\ c.r = object[i].r /\ c.points = object[i].points /\ c.clone = to
    BY <1>3, <1>4, CloningIs, ZenonT(30)
  <2>2. /\ d \in Object /\ StaysAt(object[to], d) /\ d.r = object[to].r /\ d.points = object[to].points
        /\ d.clone = object[to].clone /\ d.clone_src
    BY <1>3, SourceIs
  <2> QED
    BY <1>1, <2>1, <2>2
<1>6. sm = [State EXCEPT !.obj = ot]
  BY <1>3 DEF Cloning, Source, States, Tables, Object
<1> HIDE DEF c, d, sm
<1>7. ot \in Tables /\ DOMAIN ot = DOMAIN object /\ ot[i] = c /\ ot[to] = d
      /\ \A j \in DOMAIN object \ {i, to} : ot[j] = object[j]
  BY <1>3, <1>5 DEF Tables
<1> HIDE DEF ot
<1>8. TableKept(State, sm, ot)
  BY <1>3, <1>6, <1>7, SetTable
<1>9. sm \in States /\ sm.obj = ot /\ sm.mcp_r = State.mcp_r /\ sm.told = State.told
      /\ sm.biggest = State.biggest
  BY <1>8 DEF TableKept
<1>10. \A j \in DOMAIN object : StaysAt(object[j], ot[j]) /\ ot[j].r = object[j].r
  BY <1>5, <1>7 DEF StaysAt
<1>11. Tree(ot)
  BY <1>3, <1>7, <1>10, SameLinks DEF StaysAt
<1>12. Told(sm) /\ Inside(sm, {})
  <2>1. \A j \in DOMAIN object : Reach(ot[j]) = Reach(object[j])
    BY <1>10 DEF Reach, StaysAt
  <2> QED
    BY <1>3, <1>7, <1>9, <2>1 DEF Told, Inside
<1>13. Clones(object, i) = {}
  <2> SUFFICES ASSUME NEW j \in DOMAIN object, object[j].clone = i PROVE Clones(object, i) = {}
    BY DEF Clones
  <2>1. SizedAt(object, j) /\ i # -1
    BY <1>3, SizedIs, StateIs DEF Oids
  <2>2. object[i].clone = -1 /\ object[i].clone_src
    BY <2>1 DEF SizedAt
  <2> QED
    BY <1>1, <2>2
<1>14. \A j \in DOMAIN object \ {i} : StillSeen(object[j], ot[j])
  BY <1>5, <1>7 DEF StillSeen, StaysAt
<1>15. ot[i].sub # <<>> => ot[i].scale = 1
  BY <1>3, <1>5, <1>7 DEF Sized, StaysAt
<1>16. /\ su \in States /\ Told(su) /\ Inside(su, {}) /\ OthersStay(ot, su.obj, i)
       /\ Resized(ot[i], su.obj[i]) /\ Sized(su.obj)
  BY <1>1, <1>3, <1>5, <1>7, <1>9, <1>11, <1>12, <1>13, <1>14, <1>15, ResizedSound
<1> HIDE DEF su
<1>17. DOMAIN su.obj = DOMAIN object /\ \A j \in DOMAIN object : StaysAt(object[j], su.obj[j])
  BY <1>7, <1>10, <1>16 DEF OthersStay, Resized, StaysAt
<1>18. sn \in States /\ sn.obj = su.obj /\ Told(sn) /\ Inside(sn, {} \ {i})
  BY <1>3, <1>16, <1>17, CheckKeeps
<1>19. {} \ {i} = {}
  OBVIOUS
<1> HIDE DEF sn
<1>20. Sound(sn)
  BY <1>3, <1>16, <1>17, <1>18, <1>19, SoundAgain
<1> QED
  BY <1>2, <1>20, Carried

-----------------------------------------------------------------------------
(* Links.  An object is taken out of the list it is in.                    *)
Removed(s, t, n) ==
  /\ Len(s) \in Nat /\ t \in Seq(Int) /\ Len(t) \in Nat /\ Len(t) + 1 = Len(s)
  /\ \A k \in 1 .. Len(t) : t[k] = IF k < n THEN s[k] ELSE s[k + 1]

LEMMA RemoveAtIs ==
  ASSUME NEW s \in Seq(Int), NEW n \in 1 .. Len(s)
  PROVE  Removed(s, RemoveAt(s, n), n)
<1> DEFINE u == SubSeq(s, 1, n - 1)
           v == SubSeq(s, n + 1, Len(s))
<1>1. Len(s) \in Nat /\ n \in Nat \ {0} /\ n <= Len(s)
  BY LenProperties
<1>2. /\ 1 \in Int /\ n - 1 \in Int /\ n + 1 \in Int /\ Len(s) \in Int
      /\ \A k \in 1 .. n - 1 : s[k] \in Int
      /\ \A k \in n + 1 .. Len(s) : s[k] \in Int
  BY <1>1
<1>3. /\ u \in Seq(Int) /\ Len(u) = IF 1 <= n - 1 THEN (n - 1) - 1 + 1 ELSE 0
      /\ \A k \in 1 .. (n - 1) - 1 + 1 : u[k] = s[1 + k - 1]
  BY <1>2, SubSeqProperties
<1>4. /\ v \in Seq(Int) /\ Len(v) = IF n + 1 <= Len(s) THEN Len(s) - (n + 1) + 1 ELSE 0
      /\ \A k \in 1 .. Len(s) - (n + 1) + 1 : v[k] = s[(n + 1) + k - 1]
  BY <1>2, SubSeqProperties
<1> HIDE DEF u, v
<1>5. Len(u) = n - 1 /\ Len(v) = Len(s) - n
  BY <1>1, <1>3, <1>4
<1>6. u \o v \in Seq(Int) /\ Joins(u \o v, u, v)
  BY <1>3, <1>4, ConcatAt
<1> DEFINE t == u \o v
<1>7. RemoveAt(s, n) = t
  BY DEF RemoveAt, u, v
<1> HIDE DEF t
<1>8. t \in Seq(Int) /\ Joins(t, u, v)
  BY <1>6 DEF t
<1>9. Len(t) \in Nat /\ Len(t) + 1 = Len(s)
  BY <1>1, <1>5, <1>8 DEF Joins
<1>10. ASSUME NEW k \in 1 .. Len(t) PROVE t[k] = IF k < n THEN s[k] ELSE s[k + 1]
  <2>1. t[k] = IF k <= n - 1 THEN u[k] ELSE v[k - (n - 1)]
    BY <1>5, <1>8 DEF Joins
  <2>2. CASE k < n
    <3>1. k \in 1 .. (n - 1) - 1 + 1 /\ 1 + k - 1 = k /\ k <= n - 1
      BY <1>1, <1>9, <2>2
    <3> QED
      BY <1>3, <2>1, <2>2, <3>1
  <2>3. CASE ~ (k < n)
    <3>1. /\ k - (n - 1) \in 1 .. Len(s) - (n + 1) + 1 /\ (n + 1) + (k - (n - 1)) - 1 = k + 1
          /\ ~ (k <= n - 1)
      BY <1>1, <1>9, <2>3
    <3>2. v[k - (n - 1)] = s[k + 1]
      BY <1>4, <3>1
    <3> QED
      BY <2>1, <2>3, <3>1, <3>2
  <2> QED
    BY <2>2, <2>3
<1> QED
  BY <1>1, <1>7, <1>8, <1>9, <1>10 DEF Removed

ButLinks(o, n) ==
  /\ n.translate = o.translate /\ n.rotate = o.rotate /\ n.scale = o.scale /\ n.m = o.m
  /\ n.o_r = o.o_r /\ n.r = o.r /\ n.points = o.points /\ n.clone = o.clone
  /\ n.clone_src = o.clone_src
Unlinked(os, ot, i) ==
  LET p == os[i].link
      n == Place(os[p].sub, i)
  IN  /\ ot \in Tables /\ DOMAIN ot = DOMAIN os /\ p \in DOMAIN os \ {i}
      /\ n \in 1 .. Len(os[p].sub) /\ os[p].sub[n] = i
      /\ \A j \in DOMAIN os : ButLinks(os[j], ot[j])
      /\ ot[i].link = -1 /\ \A j \in DOMAIN os \ {i} : ot[j].link = os[j].link
      /\ Removed(os[p].sub, ot[p].sub, n) /\ \A j \in DOMAIN os \ {p} : ot[j].sub = os[j].sub

WithLink(o, to) == [o EXCEPT !.link = to]
WithSub(o, s) == [o EXCEPT !.sub = s]
LEMMA WithLinkIs ==
  ASSUME NEW o \in Object, NEW to \in Int
  PROVE  /\ WithLink(o, to) \in Object /\ ButLinks(o, WithLink(o, to))
         /\ WithLink(o, to).link = to /\ WithLink(o, to).sub = o.sub
BY DEF Object, ButLinks, WithLink
LEMMA WithSubIs ==
  ASSUME NEW o \in Object, NEW s \in Seq(Int)
  PROVE  /\ WithSub(o, s) \in Object /\ ButLinks(o, WithSub(o, s))
         /\ WithSub(o, s).link = o.link /\ WithSub(o, s).sub = s
BY DEF Object, ButLinks, WithSub

LEMMA UnlinkedIs ==
  ASSUME NEW os \in Tables, Tree(os), NEW i \in DOMAIN os, os[i].link # -1
  PROVE  Unlinked(os, link_delete(os, i), i)
<1>1. PICK M, ord : Listed(os) /\ Ordered(os, M, ord)
  BY DEF Tree
<1> DEFINE p == os[i].link
           s == os[p].sub
           n == Place(s, i)
           t == RemoveAt(s, n)
           a == WithLink(os[i], -1)
           b == WithSub(os[p], t)
           ot == [os EXCEPT ![i] = a, ![p] = b]
<1>2. p \in DOMAIN os /\ p # i /\ os[i] \in Object /\ os[p] \in Object
  BY <1>1, LinkAt, ObjectAt
<1>3. PICK k \in 1 .. Len(s) : s[k] = i
  BY <1>1 DEF Listed
<1>4. n \in 1 .. Len(s) /\ s[n] = i
  BY <1>1, <1>2, <1>3, PlaceIs
<1>5. Removed(s, t, n)
  BY <1>2, <1>4, SubAt, RemoveAtIs
<1>6. link_delete(os, i) = ot
  BY <1>2 DEF link_delete, Tables, Object, WithLink, WithSub
<1> HIDE DEF t, n
<1>7. /\ a \in Object /\ ButLinks(os[i], a) /\ a.link = -1 /\ a.sub = os[i].sub
      /\ b \in Object /\ ButLinks(os[p], b) /\ b.link = os[p].link /\ b.sub = t
  <2>1. t \in Seq(Int) /\ -1 \in Int
    BY <1>5 DEF Removed
  <2> QED
    BY <1>2, <2>1, WithLinkIs, WithSubIs
<1> HIDE DEF a, b
<1>8. ot \in Tables /\ DOMAIN ot = DOMAIN os /\ ot[i] = a /\ ot[p] = b
      /\ \A j \in DOMAIN os \ {i, p} : ot[j] = os[j]
  BY <1>2, <1>7 DEF Tables
<1> HIDE DEF ot
<1>9. \A j \in DOMAIN os : ButLinks(os[j], ot[j])
  BY <1>7, <1>8 DEF ButLinks
<1>10. ot[i].link = -1 /\ \A j \in DOMAIN os \ {i} : ot[j].link = os[j].link
  BY <1>7, <1>8
<1>11. ot[p].sub = t /\ \A j \in DOMAIN os \ {p} : ot[j].sub = os[j].sub
  BY <1>2, <1>7, <1>8
<1> QED
  BY <1>2, <1>4, <1>5, <1>6, <1>8, <1>9, <1>10, <1>11 DEF Unlinked, n

(* What remains in a list, and where.                                      *)
LEMMA UnlinkedTree ==
  ASSUME NEW os \in Tables, NEW i \in DOMAIN os, NEW ot, Unlinked(os, ot, i), Tree(os)
  PROVE  Tree(ot)
<1>1. PICK M, ord : Listed(os) /\ Ordered(os, M, ord)
  BY DEF Tree
<1> DEFINE p == os[i].link
           s == os[p].sub
           n == Place(s, i)
           t == ot[p].sub
           From(k) == IF k < n THEN k ELSE k + 1
<1>2. /\ ot \in Tables /\ DOMAIN ot = DOMAIN os /\ p \in DOMAIN os \ {i}
      /\ n \in 1 .. Len(s) /\ s[n] = i /\ Removed(s, t, n)
      /\ ot[i].link = -1 /\ \A j \in DOMAIN os \ {i} : ot[j].link = os[j].link
      /\ \A j \in DOMAIN os \ {p} : ot[j].sub = os[j].sub
  BY DEF Unlinked
<1> HIDE DEF n
<1>3. /\ Len(s) \in Nat /\ Len(t) \in Nat /\ Len(t) + 1 = Len(s) /\ n \in Nat
      /\ \A k \in 1 .. Len(t) : From(k) \in 1 .. Len(s) /\ From(k) # n /\ t[k] = s[From(k)]
  <2>1. Len(s) \in Nat /\ Len(t) \in Nat /\ Len(t) + 1 = Len(s) /\ n \in Nat
    BY <1>2 DEF Removed
  <2> HIDE DEF t, s
  <2>2. ASSUME NEW k \in 1 .. Len(t)
        PROVE  From(k) \in 1 .. Len(s) /\ From(k) # n /\ t[k] = s[From(k)]
    BY <1>2, <2>1 DEF Removed
  <2> QED
    BY <2>1, <2>2
<1>4. \A k \in 1 .. Len(s) : k # n => s[k] # i
  <2> SUFFICES ASSUME NEW k \in 1 .. Len(s), s[k] = i PROVE k = n
    OBVIOUS
  <2>1. Place(s, s[k]) = k
    BY <1>1, <1>2, PlaceIs
  <2> QED
    BY <2>1 DEF n
<1>5. ASSUME NEW j \in DOMAIN ot, ot[j].link # -1 PROVE ot[j].link \in DOMAIN ot
  BY <1>1, <1>2, <1>5 DEF Listed
<1>6. ASSUME NEW q \in DOMAIN ot, NEW k \in 1 .. Len(ot[q].sub)
      PROVE  ot[q].sub[k] \in DOMAIN ot /\ ot[ot[q].sub[k]].link = q
  <2>1. CASE q = p
    <3>1. t[k] = s[From(k)] /\ From(k) \in 1 .. Len(s) /\ From(k) # n
      BY <1>3, <2>1
    <3>2. t[k] \in DOMAIN os /\ os[t[k]].link = p /\ t[k] # i
      BY <1>1, <1>2, <1>4, <3>1 DEF Listed
    <3> QED
      BY <1>2, <2>1, <3>2
  <2>2. CASE q # p
    <3>1. ot[q].sub = os[q].sub /\ q \in DOMAIN os
      BY <1>2, <2>2
    <3>2. os[q].sub[k] \in DOMAIN os /\ os[os[q].sub[k]].link = q
      BY <1>1, <3>1 DEF Listed
    <3>3. os[q].sub[k] # i
      BY <2>2, <3>2
    <3> QED
      BY <1>2, <3>1, <3>2, <3>3
  <2> QED
    BY <2>1, <2>2
<1>7. ASSUME NEW j \in DOMAIN ot, ot[j].link # -1
      PROVE  \E k \in 1 .. Len(ot[ot[j].link].sub) : ot[ot[j].link].sub[k] = j
  <2>1. j \in DOMAIN os \ {i} /\ ot[j].link = os[j].link
    BY <1>2, <1>7
  <2>2. PICK l \in 1 .. Len(os[os[j].link].sub) : os[os[j].link].sub[l] = j
    BY <1>1, <1>7, <2>1 DEF Listed
  <2>3. CASE os[j].link = p
    <3>1. l \in 1 .. Len(s) /\ s[l] = j /\ l # n
      BY <1>2, <2>1, <2>2, <2>3
    <3> DEFINE k == IF l < n THEN l ELSE l - 1
    <3>2. k \in 1 .. Len(t) /\ From(k) = l
      <4> HIDE DEF s, t
      <4> QED
        BY <1>2, <1>3, <3>1
    <3>3. t[k] = j
      BY <1>3, <3>1, <3>2
    <3> QED
      BY <2>1, <2>3, <3>2, <3>3
  <2>4. CASE os[j].link # p
    <3>1. os[j].link \in DOMAIN os \ {p}
      BY <1>1, <1>7, <2>1, <2>4 DEF Listed
    <3> QED
      BY <1>2, <2>1, <2>2, <3>1
  <2> QED
    BY <2>3, <2>4
<1>8. Listed(ot)
  BY <1>5, <1>6, <1>7 DEF Listed
<1>9. M \in Nat /\ ord \in [DOMAIN ot -> 0 .. M]
  BY <1>1, <1>2 DEF Ordered
<1>10. \A j \in DOMAIN ot : ot[j].link # -1 => ord[ot[j].link] < ord[j]
  BY <1>1, <1>2 DEF Ordered
<1>11. ASSUME NEW q \in DOMAIN ot, NEW k \in 1 .. Len(ot[q].sub), NEW l \in 1 .. Len(ot[q].sub), k < l
       PROVE  ord[ot[q].sub[k]] < ord[ot[q].sub[l]]
  <2>1. CASE q = p
    <3>1. /\ t[k] = s[From(k)] /\ From(k) \in 1 .. Len(s)
          /\ t[l] = s[From(l)] /\ From(l) \in 1 .. Len(s)
      BY <1>3, <2>1
    <3>2. From(k) < From(l)
      <4>1. k \in Nat /\ l \in Nat
        BY <1>3, <2>1
      <4> QED
        BY <1>3, <1>11, <4>1
    <3>3. ord[s[From(k)]] < ord[s[From(l)]]
      BY <1>1, <1>2, <3>1, <3>2 DEF Ordered
    <3> QED
      BY <2>1, <3>1, <3>3
  <2>2. CASE q # p
    BY <1>1, <1>2, <1>11, <2>2 DEF Ordered
  <2> QED
    BY <2>1, <2>2
<1>12. Ordered(ot, M, ord)
  BY <1>9, <1>10, <1>11 DEF Ordered
<1> QED
  BY <1>8, <1>12 DEF Tree

(* An object is put at the head of a list.                                 *)
Headed(s, t, i) ==
  /\ Len(s) \in Nat /\ t \in Seq(Int) /\ Len(t) = Len(s) + 1 /\ t[1] = i
  /\ \A k \in 1 .. Len(s) : t[k + 1] = s[k]
Linked(os, ot, i, to) ==
  /\ ot \in Tables /\ DOMAIN ot = DOMAIN os /\ to \in DOMAIN os \ {i} /\ os[i].link = -1
  /\ \A j \in DOMAIN os : ButLinks(os[j], ot[j])
  /\ ot[i].link = to /\ \A j \in DOMAIN os \ {i} : ot[j].link = os[j].link
  /\ Headed(os[to].sub, ot[to].sub, i) /\ \A j \in DOMAIN os \ {to} : ot[j].sub = os[j].sub

LEMMA HeadedIs ==
  ASSUME NEW s \in Seq(Int), NEW i \in Int
  PROVE  Headed(s, <<i>> \o s, i)
<1> DEFINE a == <<i>>
           t == a \o s
<1>1. a \in Seq(Int) /\ Len(a) = 1 /\ a[1] = i /\ Len(s) \in Nat
  BY LenProperties
<1> HIDE DEF a
<1>2. t \in Seq(Int) /\ Joins(t, a, s)
  BY <1>1, ConcatAt
<1> HIDE DEF t
<1>3. Len(t) = Len(s) + 1
  BY <1>1, <1>2 DEF Joins
<1>4. t[1] = i
  <2>1. 1 \in 1 .. Len(t)
    BY <1>1, <1>3
  <2> QED
    BY <1>1, <1>2, <2>1 DEF Joins
<1>5. ASSUME NEW k \in 1 .. Len(s) PROVE t[k + 1] = s[k]
  <2>1. k + 1 \in 1 .. Len(t) /\ ~ (k + 1 <= Len(a)) /\ (k + 1) - Len(a) = k
    BY <1>1, <1>3
  <2> QED
    BY <1>2, <2>1 DEF Joins
<1> QED
  BY <1>1, <1>2, <1>3, <1>4, <1>5 DEF Headed, t, a

LEMMA LinkedIs ==
  ASSUME NEW os \in Tables, NEW i \in DOMAIN os, os[i].link = -1, NEW to \in DOMAIN os \ {i}
  PROVE  Linked(os, link_insert(os, i, to), i, to)
<1> DEFINE s == os[to].sub
           t == <<i>> \o s
           a == WithLink(os[i], to)
           b == WithSub(os[to], t)
           ot == [os EXCEPT ![i] = a, ![to] = b]
<1>1. os[i] \in Object /\ os[to] \in Object /\ i \in Int /\ to \in Int /\ s \in Seq(Int)
  BY ObjectAt, SubAt DEF Oids
<1>2. Headed(s, t, i)
  BY <1>1, HeadedIs
<1>3. link_insert(os, i, to) = ot
  BY <1>1 DEF link_insert, Tables, Object, WithLink, WithSub
<1> HIDE DEF t
<1>4. /\ a \in Object /\ ButLinks(os[i], a) /\ a.link = to /\ a.sub = os[i].sub
      /\ b \in Object /\ ButLinks(os[to], b) /\ b.link = os[to].link /\ b.sub = t
  <2>1. t \in Seq(Int)
    BY <1>2 DEF Headed
  <2> QED
    BY <1>1, <2>1, WithLinkIs, WithSubIs
<1> HIDE DEF a, b
<1>5. ot \in Tables /\ DOMAIN ot = DOMAIN os /\ ot[i] = a /\ ot[to] = b
      /\ \A j \in DOMAIN os \ {i, to} : ot[j] = os[j]
  BY <1>4 DEF Tables
<1> HIDE DEF ot
<1>6. \A j \in DOMAIN os : ButLinks(os[j], ot[j])
  BY <1>4, <1>5 DEF ButLinks
<1>7. ot[i].link = to /\ \A j \in DOMAIN os \ {i} : ot[j].link = os[j].link
  BY <1>4, <1>5
<1>8. ot[to].sub = t /\ \A j \in DOMAIN os \ {to} : ot[j].sub = os[j].sub
  BY <1>4, <1>5
<1> QED
  BY <1>2, <1>3, <1>5, <1>6, <1>7, <1>8 DEF Linked

(* All that hangs on the object is numbered anew, after what it links to,  *)
(* and the rest after that.                                                *)
LEMMA LinkedTree ==
  ASSUME NEW os \in Tables, NEW i \in DOMAIN os, NEW to, NEW ot, Linked(os, ot, i, to), Tree(os),
         to \notin Down(os, i)
  PROVE  Tree(ot)
<1>1. PICK M, ord : Listed(os) /\ Ordered(os, M, ord)
  BY DEF Tree
<1> DEFINE D == Down(os, i)
           s == os[to].sub
           t == ot[to].sub
           anew(j) == IF j \in D THEN ord[to] + 1 + ord[j]
                      ELSE IF ord[j] <= ord[to] THEN ord[j] ELSE ord[j] + M + 1
           new == [j \in DOMAIN ot |-> anew(j)]
           N == M + M + 1
<1>2. /\ ot \in Tables /\ DOMAIN ot = DOMAIN os /\ to \in DOMAIN os \ {i} /\ os[i].link = -1
      /\ ot[i].link = to /\ \A j \in DOMAIN os \ {i} : ot[j].link = os[j].link
      /\ Headed(s, t, i) /\ \A j \in DOMAIN os \ {to} : ot[j].sub = os[j].sub
  BY DEF Linked
<1>3. /\ Len(s) \in Nat /\ Len(t) = Len(s) + 1 /\ t[1] = i
      /\ \A k \in 1 .. Len(s) : t[k + 1] = s[k]
  BY <1>2 DEF Headed
<1>4. M \in Nat /\ \A j \in DOMAIN os : ord[j] \in 0 .. M
  BY <1>1, LinkAt
<1>5. i \in D /\ \A j \in DOMAIN os : os[j].link # -1 /\ os[j].link \in D => j \in D
  BY DownHolds
<1>6. \A j \in D : j \in DOMAIN os /\ (j # i => os[j].link # -1 /\ os[j].link \in D)
  BY <1>1, DownOnly DEF Down
<1> HIDE DEF D, s, t
<1>7. ASSUME NEW j \in DOMAIN ot, ot[j].link # -1 PROVE ot[j].link \in DOMAIN ot
  BY <1>1, <1>2, <1>7 DEF Listed
<1>8. ASSUME NEW q \in DOMAIN ot, NEW k \in 1 .. Len(ot[q].sub)
      PROVE  ot[q].sub[k] \in DOMAIN ot /\ ot[ot[q].sub[k]].link = q
  <2>0. i # -1 /\ q # -1
    BY <1>2, ObjectAt DEF Oids
  <2>1. \A l \in 1 .. Len(os[q].sub) : os[q].sub[l] \in DOMAIN os \ {i} /\ os[os[q].sub[l]].link = q
    BY <1>1, <1>2, <2>0 DEF Listed
  <2>2. CASE q = to /\ k = 1
    BY <1>2, <1>3, <2>2 DEF t
  <2>3. CASE q = to /\ k # 1
    <3>1. k - 1 \in 1 .. Len(s) /\ (k - 1) + 1 = k
      BY <1>3, <2>3 DEF t
    <3>2. t[k] = s[k - 1]
      BY <1>3, <3>1
    <3> QED
      BY <1>2, <2>1, <2>3, <3>1, <3>2 DEF s, t
  <2>4. CASE q # to
    BY <1>2, <2>1, <2>4
  <2> QED
    BY <2>2, <2>3, <2>4
<1>9. ASSUME NEW j \in DOMAIN ot, ot[j].link # -1
      PROVE  \E k \in 1 .. Len(ot[ot[j].link].sub) : ot[ot[j].link].sub[k] = j
  <2>1. CASE j = i
    <3>1. 1 \in 1 .. Len(t) /\ t[1] = j
      BY <1>3, <2>1
    <3> QED
      BY <1>2, <2>1, <3>1 DEF t
  <2>2. CASE j # i
    <3>1. ot[j].link = os[j].link /\ os[j].link \in DOMAIN os
      BY <1>1, <1>2, <1>9, <2>2 DEF Listed
    <3>2. PICK l \in 1 .. Len(os[os[j].link].sub) : os[os[j].link].sub[l] = j
      BY <1>1, <1>2, <1>9, <3>1 DEF Listed
    <3>3. CASE os[j].link = to
      <4>1. l \in 1 .. Len(s) /\ s[l] = j
        BY <3>2, <3>3 DEF s
      <4>2. l + 1 \in 1 .. Len(t) /\ t[l + 1] = j
        BY <1>3, <4>1
      <4> QED
        BY <3>1, <3>3, <4>2 DEF t
    <3>4. CASE os[j].link # to
      BY <1>2, <3>1, <3>2, <3>4
    <3> QED
      BY <3>3, <3>4
  <2> QED
    BY <2>1, <2>2
<1>10. Listed(ot)
  BY <1>7, <1>8, <1>9 DEF Listed
<1>11. N \in Nat /\ new \in [DOMAIN ot -> 0 .. N] /\ \A j \in DOMAIN os : new[j] = anew(j)
  <2>1. ASSUME NEW j \in DOMAIN ot PROVE anew(j) \in 0 .. N
    <3>1. ord[j] \in 0 .. M /\ ord[to] \in 0 .. M
      BY <1>2, <1>4
    <3>2. CASE j \in D
      BY <1>4, <3>1, <3>2
    <3>3. CASE j \notin D
      BY <1>4, <3>1, <3>3
    <3> QED
      BY <3>2, <3>3
  <2>2. N \in Nat
    BY <1>4
  <2> QED
    BY <1>2, <2>1, <2>2
<1> HIDE DEF new
(* Those of which both or neither hang on the object stay in order.        *)
<1>12. ASSUME NEW j \in DOMAIN os, NEW k \in DOMAIN os, ord[j] < ord[k], j \in D <=> k \in D
       PROVE  new[j] < new[k]
  <2>1. ord[j] \in 0 .. M /\ ord[k] \in 0 .. M /\ ord[to] \in 0 .. M
    BY <1>2, <1>4
  <2>2. CASE j \in D
    BY <1>4, <1>11, <1>12, <2>1, <2>2
  <2>3. CASE j \notin D
    <3>1. new[j] = (IF ord[j] <= ord[to] THEN ord[j] ELSE ord[j] + M + 1)
          /\ new[k] = (IF ord[k] <= ord[to] THEN ord[k] ELSE ord[k] + M + 1)
      BY <1>11, <1>12, <2>3
    <3> QED
      BY <1>4, <1>12, <2>1, <3>1
  <2> QED
    BY <2>2, <2>3
<1>13. ASSUME NEW j \in DOMAIN ot, ot[j].link # -1 PROVE new[ot[j].link] < new[j]
  <2>1. CASE j = i
    <3>1. ord[to] \in 0 .. M /\ ord[i] \in 0 .. M /\ to \notin D /\ ord[to] <= ord[to]
      BY <1>2, <1>4 DEF D
    <3>2. new[to] = ord[to] /\ new[i] = ord[to] + 1 + ord[i]
      BY <1>2, <1>5, <1>11, <3>1
    <3> QED
      BY <1>2, <2>1, <3>1, <3>2
  <2>2. CASE j # i
    <3>1. j \in DOMAIN os /\ ot[j].link = os[j].link /\ os[j].link # -1
      BY <1>2, <1>13, <2>2
    <3>2. os[j].link \in DOMAIN os /\ ord[os[j].link] < ord[j]
      BY <1>1, <3>1, LinkAt
    <3>3. os[j].link \in D <=> j \in D
      BY <1>5, <1>6, <2>2, <3>1
    <3> QED
      BY <1>12, <3>1, <3>2, <3>3
  <2> QED
    BY <2>1, <2>2
<1>14. \A q \in DOMAIN os : \A l \in 1 .. Len(os[q].sub) :
         /\ os[q].sub[l] \in DOMAIN os /\ os[os[q].sub[l]].link = q
         /\ os[q].sub[l] \in D <=> q \in D
  <2> TAKE q \in DOMAIN os
  <2> TAKE l \in 1 .. Len(os[q].sub)
  <2> DEFINE j == os[q].sub[l]
  <2>1. j \in DOMAIN os /\ os[j].link = q /\ q # -1
    BY <1>1, ObjectAt DEF Listed, Oids
  <2>2. j # i
    BY <1>2, <2>1
  <2> HIDE DEF j
  <2>3. j \in D <=> q \in D
    BY <1>5, <1>6, <2>1, <2>2
  <2> QED
    BY <2>1, <2>3 DEF j
<1>15. ASSUME NEW q \in DOMAIN os, NEW k \in 1 .. Len(os[q].sub), NEW l \in 1 .. Len(os[q].sub), k < l
       PROVE  new[os[q].sub[k]] < new[os[q].sub[l]]
  <2>1. ord[os[q].sub[k]] < ord[os[q].sub[l]]
    BY <1>1, <1>15 DEF Ordered
  <2> QED
    BY <1>12, <1>14, <2>1
<1>16. ASSUME NEW l \in 1 .. Len(s) PROVE new[i] < new[s[l]]
  <2>1. s[l] \in DOMAIN os /\ os[s[l]].link = to /\ s[l] \notin D
    BY <1>2, <1>14 DEF s, D
  <2>2. ord[to] < ord[s[l]]
    <3>1. to # -1
      BY <1>2, ObjectAt DEF Oids
    <3> QED
      BY <1>1, <2>1, <3>1, LinkAt
  <2>3. ord[i] \in 0 .. M /\ ord[to] \in 0 .. M /\ ord[s[l]] \in 0 .. M
    BY <1>2, <1>4, <2>1
  <2>4. ~ (ord[s[l]] <= ord[to])
    BY <2>2, <2>3
  <2>5. new[i] = ord[to] + 1 + ord[i] /\ new[s[l]] = ord[s[l]] + M + 1
    BY <1>5, <1>11, <2>1, <2>4
  <2> QED
    BY <1>4, <2>2, <2>3, <2>5
<1>17. ASSUME NEW q \in DOMAIN ot, NEW k \in 1 .. Len(ot[q].sub), NEW l \in 1 .. Len(ot[q].sub), k < l
       PROVE  new[ot[q].sub[k]] < new[ot[q].sub[l]]
  <2>1. CASE q # to
    BY <1>2, <1>15, <1>17, <2>1
  <2>2. CASE q = to
    <3>1. l - 1 \in 1 .. Len(s) /\ (l - 1) + 1 = l
      BY <1>3, <1>17, <2>2 DEF t
    <3>2. t[l] = s[l - 1]
      BY <1>3, <3>1
    <3>3. CASE k = 1
      BY <1>3, <1>16, <2>2, <3>1, <3>2, <3>3 DEF t
    <3>4. CASE k # 1
      <4>1. k - 1 \in 1 .. Len(s) /\ (k - 1) + 1 = k /\ k - 1 < l - 1
        BY <1>3, <1>17, <2>2, <3>4 DEF t
      <4>2. t[k] = s[k - 1]
        BY <1>3, <4>1
      <4>3. new[s[k - 1]] < new[s[l - 1]]
        BY <1>2, <1>15, <3>1, <4>1 DEF s
      <4> QED
        BY <2>2, <3>2, <4>2, <4>3 DEF t
    <3> QED
      BY <3>3, <3>4
  <2> QED
    BY <2>1, <2>2
<1>18. Ordered(ot, N, new)
  BY <1>11, <1>13, <1>17 DEF Ordered
<1> QED
  BY <1>10, <1>18 DEF Tree

LEMMA ApartStays ==
  ASSUME NEW os, NEW i, NEW ot, Unlinked(os, ot, i), NEW to, ~ Circular(os, i, to)
  PROVE  ~ Circular(ot, i, to)
<1>1. PICK S \in SUBSET DOMAIN os :
        to \in S /\ (\A j \in S : os[j].link # -1 => os[j].link \in S) /\ i \notin S
  BY DEF Circular
<1>2. DOMAIN ot = DOMAIN os /\ \A j \in DOMAIN os \ {i} : ot[j].link = os[j].link
  BY DEF Unlinked
<1>3. S \in SUBSET DOMAIN ot /\ \A j \in S : ot[j].link # -1 => ot[j].link \in S
  BY <1>1, <1>2
<1> QED
  BY <1>1, <1>3 DEF Circular

(* What others link to has its own size: every object is drawn in its own. *)
LEMMA FactorIs ==
  ASSUME NEW os \in Tables, Tree(os), Sized(os), NEW i \in DOMAIN os
  PROVE  Position(os, i).b \in {os[i].scale, -os[i].scale}
<1>1. PICK M, ord : Listed(os) /\ Ordered(os, M, ord)
  BY DEF Tree
<1> DEFINE f == Positions(os)
           Own(j) == f[j].b \in {os[j].scale, -os[j].scale}
           T == {n \in Nat : \A j \in DOMAIN os : ord[j] < n => Own(j)}
<1>2. 0 \in T
  BY <1>1, LinkAt
<1>3. ASSUME NEW n \in Nat, n \in T PROVE n + 1 \in T
  <2> SUFFICES ASSUME NEW j \in DOMAIN os, ord[j] < n + 1 PROVE Own(j)
    OBVIOUS
  <2>1. f[j] = Climb(os, j, f)
    BY PositionsIs
  <2>2. os[j].scale \in Int /\ os[j].rotate \in {1, -1}
    <3>1. os[j] \in Object
      BY ObjectAt
    <3> HIDE DEF f, T
    <3> QED
      BY <3>1 DEF Object
  <2> HIDE DEF f
  <2>3. CASE os[j].link = -1
    <3>1. f[j].b = 1 * os[j].scale * os[j].rotate
      BY <2>1, <2>3 DEF Climb, Identity
    <3> QED
      BY <2>2, <3>1
  <2>4. CASE os[j].link # -1
    <3> DEFINE p == os[j].link
    <3>1. p \in DOMAIN os /\ ord[p] < ord[j] /\ ord[j] \in Nat /\ ord[p] \in Nat
      BY <1>1, <2>4, LinkAt
    <3>2. Own(p)
      BY <1>3, <3>1
    <3>3. os[p].sub # <<>>
      <4>1. PICK k \in 1 .. Len(os[p].sub) : os[p].sub[k] = j
        BY <1>1, <2>4 DEF Listed
      <4>2. Len(<<>>) = 0
        BY EmptySeq
      <4> QED
        BY <4>1, <4>2
    <3>4. os[p].scale = 1
      BY <3>1, <3>3 DEF Sized
    <3>5. f[p].b \in {1, -1}
      BY <3>2, <3>4
    <3>6. f[j].b = f[p].b * os[j].scale * os[j].rotate
      BY <2>1, <2>4 DEF Climb
    <3> QED
      BY <2>2, <3>5, <3>6
  <2> QED
    BY <2>3, <2>4
<1>4. M + 1 \in T
  <2> HIDE DEF T
  <2>1. Nat \subseteq T
    BY <1>2, <1>3, SetInduction
  <2> QED
    BY <1>1, <2>1 DEF Ordered
<1>5. Own(i)
  BY <1>1, <1>4, LinkAt
<1> QED
  BY <1>5 DEF Position

LEMMA FactorAbs ==
  ASSUME NEW os \in Tables, Tree(os), Sized(os), NEW i \in DOMAIN os
  PROVE  Abs(Position(os, i).b) = os[i].scale
<1>1. os[i].scale \in Nat
  BY ObjectAt DEF Object
<1> QED
  BY <1>1, FactorIs DEF Abs

LEMMA Relinked ==
  ASSUME MaxOid \in Nat, NEW st, Sound(st), NEW i \in DOMAIN st.obj,
         NEW ot \in Tables, Tree(ot), DOMAIN ot = DOMAIN st.obj,
         \A j \in DOMAIN ot : ButLinks(st.obj[j], ot[j]),
         \A j \in DOMAIN ot \ {i} : ot[j].link = st.obj[j].link,
         \A j \in DOMAIN ot : ot[j].sub # <<>> => ot[j].scale = 1,
         NEW sn, sn = [st EXCEPT !.obj = ot]
  PROVE  Sound(obj_pos_update(sn, i))
<1> DEFINE os == st.obj
<1>1. st \in States /\ os \in Tables /\ Tree(os) /\ \A j \in DOMAIN os : Current(os, j)
  BY DEF Sound, States
<1>2. TableKept(st, sn, ot)
  BY <1>1, SetTable
<1>3. sn \in States /\ sn.obj = ot /\ sn.mcp_r = st.mcp_r /\ sn.told = st.told
      /\ sn.biggest = st.biggest
  BY <1>2 DEF TableKept
<1>4. Sized(ot)
  <2>1. \A j \in DOMAIN os : Furthest(ot[j]) = Furthest(os[j])
    BY DEF Furthest, ButLinks
  <2> QED
    BY <2>1 DEF Sized, Sound, ButLinks
<1>5. Told(sn) /\ Inside(sn, {})
  <2>1. \A j \in DOMAIN os : Reach(ot[j]) = Reach(os[j])
    BY DEF Reach, ButLinks
  <2> QED
    BY <1>3, <2>1 DEF Told, Inside, Sound
<1>6. \A j \in DOMAIN os \ {i} : /\ PlacedAlike(os, ot, j)
                                 /\ ot[j].m = os[j].m /\ ot[j].o_r = os[j].o_r
  BY DEF PlacedAlike, ButLinks
<1>7. \A j \in DOMAIN ot \ Down(ot, i) : Current(ot, j)
  BY <1>1, <1>6, OutsideStays
<1> QED
  BY <1>3, <1>4, <1>5, <1>7, PlacedAnew

LEMMA UnlinkedSub ==
  ASSUME NEW os \in Tables, NEW i \in DOMAIN os, NEW ot, Unlinked(os, ot, i), NEW j \in DOMAIN os,
         ot[j].sub # <<>>
  PROVE  os[j].sub # <<>>
<1> DEFINE p == os[i].link
           n == Place(os[p].sub, i)
<1>1. Removed(os[p].sub, ot[p].sub, n) /\ \A k \in DOMAIN os \ {p} : ot[k].sub = os[k].sub
  BY DEF Unlinked
<1> HIDE DEF p, n
<1>2. CASE j # p
  <2>1. ot[j].sub = os[j].sub
    BY <1>1, <1>2
  <2> QED
    BY <2>1
<1>3. CASE j = p
  <2>1. Len(os[p].sub) # 0
    BY <1>1 DEF Removed
  <2> QED
    BY <1>3, <2>1, EmptySeq
<1> QED
  BY <1>2, <1>3

(* The table after link_delete(), also of an object that was not linked.   *)
LEMMA DeletedIs ==
  ASSUME SizeInv, NEW i \in DOMAIN object, NEW ot, ot = link_delete(object, i)
  PROVE  /\ ot \in Tables /\ Tree(ot) /\ DOMAIN ot = DOMAIN object /\ ot[i].link = -1
         /\ \A j \in DOMAIN object : ButLinks(object[j], ot[j])
         /\ \A j \in DOMAIN object \ {i} : ot[j].link = object[j].link
         /\ \A j \in DOMAIN object : ot[j].sub # <<>> => ot[j].scale = 1
         /\ \A j \in DOMAIN object : object[j].sub = <<>> => ot[j].sub = <<>>
         /\ \A to \in DOMAIN object : ~ Circular(object, i, to) => ~ Circular(ot, i, to)
<1>1. object \in Tables /\ Tree(object) /\ Sized(object)
  BY StateIs
<1>2. CASE object[i].link = -1
  <2>1. ot = object
    BY <1>2 DEF link_delete
  <2> QED
    BY <1>1, <1>2, <2>1 DEF Sized, ButLinks
<1>3. CASE object[i].link # -1
  <2>1. Unlinked(object, ot, i)
    BY <1>1, <1>3, UnlinkedIs
  <2>2. Tree(ot)
    BY <1>1, <2>1, UnlinkedTree
  <2>3. /\ ot \in Tables /\ DOMAIN ot = DOMAIN object /\ ot[i].link = -1
        /\ \A j \in DOMAIN object : ButLinks(object[j], ot[j])
        /\ \A j \in DOMAIN object \ {i} : ot[j].link = object[j].link
    BY <2>1 DEF Unlinked
  <2>4. \A j \in DOMAIN object : ot[j].sub # <<>> => object[j].sub # <<>>
    BY <1>1, <2>1, UnlinkedSub
  <2>5. \A j \in DOMAIN object : ot[j].sub # <<>> => ot[j].scale = 1
    BY <1>1, <2>3, <2>4 DEF Sized, ButLinks
  <2>6. \A to \in DOMAIN object : ~ Circular(object, i, to) => ~ Circular(ot, i, to)
    BY <2>1, ApartStays
  <2> QED
    BY <2>2, <2>3, <2>4, <2>5, <2>6
<1> QED
  BY <1>2, <1>3

LEMMA UnlinkKeeps ==
  ASSUME Tame, SizeInv, NEW i \in DOMAIN object, Unlink(i)
  PROVE  SizeInv'
<1> DEFINE ot == link_delete(object, i)
           sn == [State EXCEPT !.obj = ot]
<1>1. Carry(obj_pos_update(sn, i))
  BY DEF Unlink
<1>2. State.obj = object /\ Sound(State) /\ MaxOid \in Nat
  BY StateIs DEF Tame
<1>3. /\ ot \in Tables /\ Tree(ot) /\ DOMAIN ot = DOMAIN object
      /\ \A j \in DOMAIN object : ButLinks(object[j], ot[j])
      /\ \A j \in DOMAIN object \ {i} : ot[j].link = object[j].link
      /\ \A j \in DOMAIN object : ot[j].sub # <<>> => ot[j].scale = 1
  BY DeletedIs
<1> HIDE DEF ot, State
<1>4. Sound(obj_pos_update(sn, i))
  BY <1>2, <1>3, Relinked
<1> QED
  BY <1>1, <1>4, Carried

LEMMA LinkKeeps ==
  ASSUME Tame, SizeInv, NEW i \in DOMAIN object, Link(i)
  PROVE  SizeInv'
<1>1. PICK to \in DOMAIN object \ {i} :
        /\ ~Circular(object, i, to) /\ Plain(to)
        /\ LET os == link_insert(link_delete(object, i), i, to)
           IN  Carry(obj_pos_update([State EXCEPT !.obj = os], i))
  BY DEF Link
<1> DEFINE om == link_delete(object, i)
           ot == link_insert(om, i, to)
           sn == [State EXCEPT !.obj = ot]
<1>2. Carry(obj_pos_update(sn, i))
  BY <1>1
<1>3. State.obj = object /\ Sound(State) /\ MaxOid \in Nat /\ object \in Tables /\ Tree(object) /\ Sized(object)
  BY StateIs DEF Tame
<1>4. /\ om \in Tables /\ Tree(om) /\ DOMAIN om = DOMAIN object /\ om[i].link = -1
      /\ \A j \in DOMAIN object : ButLinks(object[j], om[j])
      /\ \A j \in DOMAIN object \ {i} : om[j].link = object[j].link
      /\ \A j \in DOMAIN object : om[j].sub # <<>> => om[j].scale = 1
      /\ ~ Circular(om, i, to)
  BY <1>1, DeletedIs
<1> HIDE DEF om
<1>5. Linked(om, ot, i, to)
  BY <1>4, LinkedIs
<1>6. to \notin Down(om, i)
  BY <1>4 DEF Down
<1> HIDE DEF ot
<1>7. Tree(ot)
  BY <1>4, <1>5, <1>6, LinkedTree
<1>8. /\ ot \in Tables /\ DOMAIN ot = DOMAIN object
      /\ \A j \in DOMAIN object : ButLinks(om[j], ot[j])
      /\ \A j \in DOMAIN object \ {i} : ot[j].link = om[j].link
      /\ \A j \in DOMAIN object \ {to} : ot[j].sub = om[j].sub
  BY <1>4, <1>5 DEF Linked
<1>9. \A j \in DOMAIN ot : ButLinks(object[j], ot[j])
  BY <1>4, <1>8 DEF ButLinks
<1>10. object[to].scale = 1
  BY <1>1, <1>3, FactorAbs DEF Plain, Tame
<1>11. \A j \in DOMAIN ot : ot[j].sub # <<>> => ot[j].scale = 1
  BY <1>4, <1>8, <1>9, <1>10 DEF ButLinks
<1> HIDE DEF State
<1>12. Sound(obj_pos_update(sn, i))
  BY <1>3, <1>4, <1>7, <1>8, <1>9, <1>11, Relinked
<1> QED
  BY <1>2, <1>12, Carried

-----------------------------------------------------------------------------
(* A new object.                                                           *)
Fresh == [translate |-> 0, rotate |-> 1, scale |-> 1, m |-> Identity, o_r |-> 0, r |-> 0,
          points |-> <<>>, link |-> -1, sub |-> <<>>, clone |-> -1, clone_src |-> FALSE]
Grown(os, i) == [j \in DOMAIN os \cup {i} |-> IF j # i THEN os[j] ELSE Fresh]

LEMMA FreshIs == Fresh \in Object /\ Furthest(Fresh) = 0 /\ Reach(Fresh) = 0
<1>1. <<>> \in Seq(Int) /\ Identity \in Matrix
  BY EmptySeq DEF Identity, Matrix
<1>2. Fresh \in Object
  BY <1>1 DEF Fresh, Object
<1> QED
  BY <1>2 DEF Fresh, Furthest, Reach

LEMMA GrownIs ==
  ASSUME NEW os \in Tables, NEW i \in Oids \ DOMAIN os, NEW ot, ot = Grown(os, i)
  PROVE  /\ ot \in Tables /\ DOMAIN ot = DOMAIN os \cup {i} /\ ot[i] = Fresh
         /\ \A j \in DOMAIN os : ot[j] = os[j]
BY FreshIs DEF Tables, Grown

LEMMA GrownTree ==
  ASSUME NEW os \in Tables, Tree(os), NEW i \in Oids \ DOMAIN os, NEW ot \in Tables,
         DOMAIN ot = DOMAIN os \cup {i}, ot[i] = Fresh, \A j \in DOMAIN os : ot[j] = os[j]
  PROVE  Tree(ot)
<1>1. PICK M, ord : Listed(os) /\ Ordered(os, M, ord)
  BY DEF Tree
<1>2. ot[i].link = -1 /\ Len(ot[i].sub) = 0
  BY EmptySeq DEF Fresh
<1>3. Listed(ot)
  <2>1. ASSUME NEW j \in DOMAIN ot, ot[j].link # -1
        PROVE  ot[j].link \in DOMAIN ot /\ \E n \in 1 .. Len(ot[ot[j].link].sub) : ot[ot[j].link].sub[n] = j
    <3>1. j \in DOMAIN os /\ ot[j] = os[j]
      BY <1>2, <2>1
    <3>2. os[j].link \in DOMAIN os /\ \E n \in 1 .. Len(os[os[j].link].sub) : os[os[j].link].sub[n] = j
      BY <1>1, <2>1, <3>1 DEF Listed
    <3> QED
      BY <3>1, <3>2
  <2>2. ASSUME NEW p \in DOMAIN ot, NEW n \in 1 .. Len(ot[p].sub)
        PROVE  ot[p].sub[n] \in DOMAIN ot /\ ot[ot[p].sub[n]].link = p
    <3>1. p \in DOMAIN os /\ ot[p] = os[p]
      BY <1>2, <2>2
    <3>2. os[p].sub[n] \in DOMAIN os /\ os[os[p].sub[n]].link = p
      BY <1>1, <2>2, <3>1 DEF Listed
    <3> QED
      BY <3>1, <3>2
  <2> QED
    BY <2>1, <2>2 DEF Listed
<1> DEFINE new == [j \in DOMAIN ot |-> IF j = i THEN 0 ELSE ord[j]]
<1>4. M \in Nat /\ new \in [DOMAIN ot -> 0 .. M] /\ \A j \in DOMAIN os : new[j] = ord[j]
  BY <1>1, LinkAt DEF Ordered
<1> HIDE DEF new
<1>5. ASSUME NEW j \in DOMAIN ot, ot[j].link # -1 PROVE new[ot[j].link] < new[j]
  <2>1. j \in DOMAIN os /\ ot[j] = os[j]
    BY <1>2, <1>5
  <2>2. os[j].link \in DOMAIN os /\ ord[os[j].link] < ord[j]
    BY <1>1, <1>5, <2>1, LinkAt
  <2> QED
    BY <1>4, <2>1, <2>2
<1>6. ASSUME NEW p \in DOMAIN ot, NEW n \in 1 .. Len(ot[p].sub), NEW k \in 1 .. Len(ot[p].sub), n < k
      PROVE  new[ot[p].sub[n]] < new[ot[p].sub[k]]
  <2>1. p \in DOMAIN os /\ ot[p] = os[p]
    BY <1>2, <1>6
  <2>2. os[p].sub[n] \in DOMAIN os /\ os[p].sub[k] \in DOMAIN os
        /\ ord[os[p].sub[n]] < ord[os[p].sub[k]]
    BY <1>1, <1>6, <2>1 DEF Listed, Ordered
  <2> QED
    BY <1>4, <2>1, <2>2
<1>7. Ordered(ot, M, new)
  BY <1>4, <1>5, <1>6 DEF Ordered
<1> QED
  BY <1>3, <1>7 DEF Tree

LEMMA NewKeeps ==
  ASSUME Tame, SizeInv, New
  PROVE  SizeInv'
<1> DEFINE i == Min(Oids \ DOMAIN object)
           ot == Grown(object, i)
           sn == [State EXCEPT !.obj = ot]
<1>1. MaxOid \in Nat /\ State.obj = object /\ State \in States /\ object \in Tables /\ Tree(object) /\ Sized(object)
      /\ Told(State) /\ Inside(State, {}) /\ \A j \in DOMAIN object : Current(object, j) /\ object[j] \in Object
  BY StateIs DEF Tame
<1>2. i \in Oids \ DOMAIN object
  <2>1. Oids \ DOMAIN object \in SUBSET Nat
    BY <1>1 DEF Oids
  <2>2. Oids \ DOMAIN object # {}
    <3>1. DOMAIN object \in SUBSET Oids
      BY <1>1 DEF Tables
    <3> QED
      BY <3>1 DEF New
  <2> QED
    BY <2>1, <2>2, MinIs
<1>3. Carry(sn)
  BY DEF New, Grown, Fresh
<1> HIDE DEF i
<1>4. /\ ot \in Tables /\ DOMAIN ot = DOMAIN object \cup {i} /\ ot[i] = Fresh
      /\ \A j \in DOMAIN object : ot[j] = object[j]
  BY <1>1, <1>2, GrownIs
<1> HIDE DEF ot, State
<1>5. Tree(ot)
  BY <1>1, <1>2, <1>4, GrownTree
<1>6. TableKept(State, sn, ot)
  BY <1>1, <1>4, SetTable
<1> HIDE DEF sn
<1>7. sn \in States /\ sn.obj = ot /\ sn.mcp_r = State.mcp_r /\ sn.told = State.told
      /\ sn.biggest = State.biggest
  BY <1>6 DEF TableKept
<1>8. Told(sn) /\ Inside(sn, {})
  BY <1>1, <1>4, <1>7, FreshIs DEF Told, Inside
<1>9. Sized(ot)
  <2> SUFFICES ASSUME NEW j \in DOMAIN ot PROVE SizedAt(ot, j)
    BY SizedIs
  <2>1. CASE j = i
    <3>1. ot[j].clone = -1 /\ ot[j].scale = 1 /\ ot[j].r = 0
      BY <1>4, <2>1 DEF Fresh
    <3>2. Furthest(ot[j]) = 0
      BY <1>4, <2>1, FreshIs
    <3> QED
      BY <3>1, <3>2 DEF SizedAt, Seen
  <2>2. CASE j # i
    <3>1. SizedAt(object, j) /\ ot[j] = object[j] /\ j \in DOMAIN object
      BY <1>1, <1>4, <2>2, SizedIs
    <3>2. object[j].clone # -1 => ot[object[j].clone] = object[object[j].clone] /\ object[j].clone \in DOMAIN ot
      BY <1>4, <3>1 DEF SizedAt
    <3> QED
      BY <3>1, <3>2 DEF SizedAt, Seen
  <2> QED
    BY <2>1, <2>2
<1>10. ASSUME NEW j \in DOMAIN ot PROVE Current(ot, j)
  <2>1. CASE j = i
    <3>1. Position(ot, i) = Climb(ot, i, Positions(ot))
      BY <1>4, <1>5, PositionsIs DEF Position
    <3>2. ot[i].link = -1 /\ ot[i].translate = 0 /\ ot[i].scale = 1 /\ ot[i].rotate = 1
          /\ ot[i].m = Identity /\ ot[i].o_r = 0
      BY <1>4 DEF Fresh
    <3>3. Position(ot, i) = Identity
      BY <3>1, <3>2 DEF Climb, Identity
    <3> QED
      BY <2>1, <3>2, <3>3 DEF Current, Identity, Abs
  <2>2. CASE j # i
    <3>1. Closed(object, DOMAIN object)
      BY <1>1 DEF Closed, Tree, Listed
    <3>2. \A k \in DOMAIN object : PlacedAlike(object, ot, k)
      BY <1>4 DEF PlacedAlike
    <3>3. DOMAIN object \in SUBSET (DOMAIN object \cap DOMAIN ot) /\ j \in DOMAIN object
      BY <1>4, <2>2
    <3>4. Position(object, j) = Position(ot, j)
      BY <1>1, <1>4, <1>5, <3>1, <3>2, <3>3, PositionsAgree
    <3> QED
      BY <1>1, <1>4, <3>3, <3>4 DEF Current
  <2> QED
    BY <2>1, <2>2
<1>11. Sound(sn)
  BY <1>5, <1>7, <1>8, <1>9, <1>10 DEF Sound
<1> QED
  BY <1>3, <1>11, Carried

-----------------------------------------------------------------------------
(* An object is removed: its clones are emptied, one after the other.      *)
Showing(o, c, z) == [o EXCEPT !.clone = c, !.r = z]
Emptied(o) == Showing(o, -1, 0)
Emptying(C, e, k) ==
  IF k \notin C THEN e
  ELSE obj_check_biggest_object([e EXCEPT !.obj[k].clone = -1, !.obj[k].r = 0], k)
EmptyRun(st, C, n, f) ==
  f = [k \in 0 .. n |-> IF k = 0 THEN st ELSE Emptying(C, f[k - 1], k - 1)]

LEMMA EmptyRunExists ==
  ASSUME NEW st, NEW C, NEW n \in Nat
  PROVE  \E f : EmptyRun(st, C, n, f)
<1> DEFINE T == {k \in Nat : \E f : EmptyRun(st, C, k, f)}
<1>1. 0 \in T
  <2> DEFINE f == [i \in 0 .. 0 |-> st]
  <2>1. f = [i \in 0 .. 0 |-> IF i = 0 THEN st ELSE Emptying(C, f[i - 1], i - 1)]
    OBVIOUS
  <2> HIDE DEF f
  <2>2. EmptyRun(st, C, 0, f)
    BY <2>1 DEF EmptyRun
  <2> QED
    BY <2>2
<1>2. ASSUME NEW k \in Nat, k \in T PROVE k + 1 \in T
  <2>1. PICK f : EmptyRun(st, C, k, f)
    BY <1>2
  <2> DEFINE g == [i \in 0 .. k + 1 |-> IF i = k + 1 THEN Emptying(C, f[k], k) ELSE f[i]]
  <2>2. \A i \in 0 .. k : f[i] = IF i = 0 THEN st ELSE Emptying(C, f[i - 1], i - 1)
    BY <2>1 DEF EmptyRun
  <2>3. ASSUME NEW i \in 0 .. k + 1
        PROVE  g[i] = IF i = 0 THEN st ELSE Emptying(C, g[i - 1], i - 1)
    <3>1. CASE i = k + 1
      <4>1. i # 0 /\ i - 1 = k /\ k \in 0 .. k + 1 /\ k # k + 1
        BY <3>1
      <4> QED
        BY <3>1, <4>1
    <3>2. CASE i # k + 1 /\ i # 0
      <4>1. i \in 0 .. k /\ i - 1 \in 0 .. k + 1 /\ i - 1 # k + 1
        BY <3>2
      <4> QED
        BY <2>2, <3>2, <4>1
    <3>3. CASE i # k + 1 /\ i = 0
      BY <2>2, <3>3
    <3> QED
      BY <3>1, <3>2, <3>3
  <2>4. EmptyRun(st, C, k + 1, g)
    <3> DEFINE h == [i \in 0 .. k + 1 |-> IF i = 0 THEN st ELSE Emptying(C, g[i - 1], i - 1)]
    <3>1. \A i \in 0 .. k + 1 : g[i] = h[i]
      BY <2>3
    <3>2. g = h
      BY <3>1
    <3> HIDE DEF g
    <3> QED
      BY <3>2 DEF EmptyRun
  <2> HIDE DEF g
  <2> QED
    BY <2>4
<1>3. n \in T
  <2> HIDE DEF T
  <2>1. Nat \subseteq T
    BY <1>1, <1>2, SetInduction
  <2> QED
    BY <2>1
<1> QED
  BY <1>3

LEMMA ShowingIs ==
  ASSUME NEW o \in Object, NEW c \in Int, NEW z \in Nat
  PROVE  /\ Showing(o, c, z) \in Object /\ StaysAt(o, Showing(o, c, z))
         /\ Showing(o, c, z).points = o.points /\ Showing(o, c, z).clone = c
         /\ Showing(o, c, z).r = z /\ Showing(o, c, z).clone_src = o.clone_src
BY DEF Showing, Object, StaysAt

LEMMA EmptiedIs ==
  ASSUME NEW o \in Object
  PROVE  /\ Emptied(o) \in Object /\ StaysAt(o, Emptied(o)) /\ Emptied(o).points = o.points
         /\ Emptied(o).clone = -1 /\ Emptied(o).r = 0 /\ Emptied(o).clone_src = o.clone_src
<1>1. -1 \in Int /\ 0 \in Nat
  OBVIOUS
<1> QED
  BY <1>1, ShowingIs DEF Emptied

OneEmptied(e, C, sn, k) ==
  /\ sn \in States /\ Told(sn) /\ Inside(sn, {}) /\ DOMAIN sn.obj = DOMAIN e.obj
  /\ \A j \in DOMAIN e.obj : sn.obj[j] = IF j = k /\ k \in C THEN Emptied(e.obj[j]) ELSE e.obj[j]

LEMMA EmptyingIs ==
  ASSUME MaxOid \in Nat, NEW e \in States, Told(e), Inside(e, {}), NEW C \in SUBSET DOMAIN e.obj,
         NEW k, NEW sn, sn = Emptying(C, e, k)
  PROVE  OneEmptied(e, C, sn, k)
<1>1. CASE k \notin C
  BY <1>1 DEF Emptying, OneEmptied
<1>2. CASE k \in C
  <2> DEFINE o == Emptied(e.obj[k])
             sm == [e EXCEPT !.obj[k].clone = -1, !.obj[k].r = 0]
  <2>1. e.obj \in Tables /\ k \in DOMAIN e.obj /\ e.obj[k] \in Object
    BY <1>2, ObjectAt DEF States
  <2>2. sm = [e EXCEPT !.obj[k] = o]
    BY <2>1 DEF Emptied, Showing, States, Tables, Object
  <2>3. o \in Object
    BY <2>1, EmptiedIs
  <2>4. sn = obj_check_biggest_object(sm, k)
    BY <1>2 DEF Emptying
  <2> HIDE DEF sm, o
  <2>5. Changed(e, sm, k, o)
    BY <2>1, <2>2, <2>3, ChangeIs
  <2>6. /\ sn \in States /\ Told(sn) /\ Inside(sn, {})
        /\ OthersStay(e.obj, sn.obj, k) /\ sn.obj[k] = o
    BY <2>1, <2>4, <2>5, CheckedOne
  <2> QED
    BY <1>2, <2>6 DEF OthersStay, OneEmptied, o
<1> QED
  BY <1>1, <1>2

AllEmptied(st, C, sn, n) ==
  /\ sn \in States /\ Told(sn) /\ Inside(sn, {}) /\ DOMAIN sn.obj = DOMAIN st.obj
  /\ \A j \in DOMAIN st.obj : sn.obj[j] = IF j \in C /\ j < n THEN Emptied(st.obj[j]) ELSE st.obj[j]

LEMMA EmptyRunIs ==
  ASSUME MaxOid \in Nat, NEW st \in States, Told(st), Inside(st, {}), NEW C \in SUBSET DOMAIN st.obj,
         NEW f, EmptyRun(st, C, MaxOid + 1, f)
  PROVE  AllEmptied(st, C, f[MaxOid + 1], MaxOid + 1)
<1> DEFINE N == MaxOid + 1
           T == {n \in Nat : n <= N => AllEmptied(st, C, f[n], n)}
<1>1. N \in Nat /\ \A n \in 0 .. N : f[n] = IF n = 0 THEN st ELSE Emptying(C, f[n - 1], n - 1)
  BY DEF EmptyRun
<1>2. \A j \in DOMAIN st.obj : j \in Nat /\ j < N
  BY ObjectAt DEF States, Oids
<1> HIDE DEF N
<1>3. 0 \in T
  <2>1. f[0] = st
    BY <1>1
  <2> QED
    BY <1>2, <2>1 DEF AllEmptied
<1>4. ASSUME NEW n \in Nat, n \in T PROVE n + 1 \in T
  <2> SUFFICES ASSUME n + 1 <= N PROVE AllEmptied(st, C, f[n + 1], n + 1)
    OBVIOUS
  <2> DEFINE e == f[n]
             sn == f[n + 1]
  <2>1. n + 1 \in 0 .. N /\ n + 1 # 0 /\ (n + 1) - 1 = n /\ n <= N
    BY <1>1
  <2>2. AllEmptied(st, C, e, n)
    BY <1>4, <2>1
  <2>3. sn = Emptying(C, e, n)
    BY <1>1, <2>1
  <2> HIDE DEF e, sn
  <2>4. C \in SUBSET DOMAIN e.obj /\ e \in States /\ Told(e) /\ Inside(e, {})
    BY <2>2 DEF AllEmptied
  <2>5. OneEmptied(e, C, sn, n)
    BY <2>3, <2>4, EmptyingIs
  <2>6. ASSUME NEW j \in DOMAIN st.obj
        PROVE  sn.obj[j] = IF j \in C /\ j < n + 1 THEN Emptied(st.obj[j]) ELSE st.obj[j]
    <3>1. e.obj[j] = IF j \in C /\ j < n THEN Emptied(st.obj[j]) ELSE st.obj[j]
      BY <2>2 DEF AllEmptied
    <3>2. sn.obj[j] = IF j = n /\ n \in C THEN Emptied(e.obj[j]) ELSE e.obj[j]
      BY <2>2, <2>5 DEF AllEmptied, OneEmptied
    <3>3. j < n + 1 <=> j < n \/ j = n
      BY <1>2
    <3>4. j = n => ~ (j < n)
      BY <1>2
    <3> QED
      BY <3>1, <3>2, <3>3, <3>4
  <2>7. AllEmptied(st, C, sn, n + 1)
    BY <2>2, <2>5, <2>6 DEF AllEmptied, OneEmptied
  <2> QED
    BY <2>7 DEF sn
<1>5. N \in T
  <2> HIDE DEF T
  <2>1. Nat \subseteq T
    BY <1>3, <1>4, SetInduction
  <2> QED
    BY <1>1, <2>1
<1> QED
  BY <1>1, <1>5 DEF N

(* The table without a removed object, to which no other one links.        *)
Without(os, ot, i) ==
  /\ ot \in Tables /\ DOMAIN ot = DOMAIN os \ {i} /\ \A j \in DOMAIN ot : ot[j] = os[j]

LEMMA WithoutTree ==
  ASSUME NEW os \in Tables, Tree(os), NEW i \in DOMAIN os, os[i].link = -1, os[i].sub = <<>>,
         NEW ot, Without(os, ot, i)
  PROVE  Tree(ot) /\ \A j \in DOMAIN ot : os[j].link # i
<1>1. PICK M, ord : Listed(os) /\ Ordered(os, M, ord)
  BY DEF Tree
<1>2. /\ ot \in Tables /\ DOMAIN ot = DOMAIN os \ {i} /\ \A j \in DOMAIN ot : ot[j] = os[j]
      /\ Len(<<>>) = 0 /\ i # -1
  BY EmptySeq, ObjectAt DEF Without, Oids
<1>3. \A j \in DOMAIN os : os[j].link # i
  BY <1>1, <1>2 DEF Listed
<1>4. \A p \in DOMAIN os : \A n \in 1 .. Len(os[p].sub) :
        os[p].sub[n] \in DOMAIN os /\ os[os[p].sub[n]].link = p /\ os[p].sub[n] # i
  <2> TAKE p \in DOMAIN os
  <2> TAKE n \in 1 .. Len(os[p].sub)
  <2>1. os[p].sub[n] \in DOMAIN os /\ os[os[p].sub[n]].link = p /\ p # -1
    BY <1>1, ObjectAt DEF Listed, Oids
  <2> QED
    BY <2>1
<1>5. Listed(ot)
  BY <1>1, <1>2, <1>3, <1>4 DEF Listed
<1> DEFINE new == [j \in DOMAIN ot |-> ord[j]]
<1>6. M \in Nat /\ new \in [DOMAIN ot -> 0 .. M] /\ \A j \in DOMAIN ot : new[j] = ord[j]
  BY <1>1, <1>2, LinkAt DEF Ordered
<1> HIDE DEF new
<1>7. \A j \in DOMAIN ot : ot[j].link # -1 => new[ot[j].link] < new[j]
  <2> TAKE j \in DOMAIN ot
  <2> HAVE ot[j].link # -1
  <2>1. j \in DOMAIN os /\ ot[j] = os[j] /\ os[j].link \in DOMAIN ot /\ ord[os[j].link] < ord[j]
    BY <1>1, <1>2, <1>3, LinkAt
  <2> QED
    BY <1>6, <2>1
<1>8. \A p \in DOMAIN ot : \A n, k \in 1 .. Len(ot[p].sub) :
        n < k => new[ot[p].sub[n]] < new[ot[p].sub[k]]
  <2> TAKE p \in DOMAIN ot
  <2> TAKE n, k \in 1 .. Len(ot[p].sub)
  <2> HAVE n < k
  <2>1. p \in DOMAIN os /\ ot[p] = os[p]
    BY <1>2
  <2>2. os[p].sub[n] \in DOMAIN ot /\ os[p].sub[k] \in DOMAIN ot
    BY <1>2, <1>4, <2>1
  <2>3. ord[os[p].sub[n]] < ord[os[p].sub[k]]
    BY <1>1, <2>1 DEF Ordered
  <2> QED
    BY <1>6, <2>1, <2>2, <2>3
<1>9. Ordered(ot, M, new)
  BY <1>6, <1>7, <1>8 DEF Ordered
<1> QED
  BY <1>3, <1>5, <1>9, <1>2 DEF Tree

(* The biggest of those that are left.                                     *)
Top(os) == {j \in DOMAIN os : \A k \in DOMAIN os : Reach(os[j]) >= Reach(os[k])}
LEMMA TopIs ==
  ASSUME MaxOid \in Nat, NEW os \in Tables
  PROVE  /\ Top(os) = {} => DOMAIN os = {}
         /\ Top(os) # {} => /\ Min(Top(os)) \in DOMAIN os
                            /\ \A k \in DOMAIN os : Reach(os[k]) <= Reach(os[Min(Top(os))])
<1>1. DOMAIN os \in SUBSET (0 .. MaxOid) /\ \A j \in DOMAIN os : Reach(os[j]) \in Nat
  BY ReachIs DEF Tables, Oids
<1>2. ASSUME DOMAIN os # {} PROVE Top(os) # {}
  <2> DEFINE J == DOMAIN os
             F == [j \in J |-> Reach(os[j])]
  <2>1. F \in [J -> Int] /\ J # {} /\ J \in SUBSET (0 .. MaxOid) /\ \A j \in J : F[j] = Reach(os[j])
    BY <1>1, <1>2
  <2> HIDE DEF F, J
  <2>2. PICK j \in J : \A k \in J : F[k] <= F[j]
    BY <2>1, GreatestAt
  <2>3. j \in Top(os)
    BY <1>1, <2>1, <2>2 DEF Top, J
  <2> QED
    BY <2>3
<1>3. ASSUME Top(os) # {} PROVE Min(Top(os)) \in Top(os)
  <2>1. Top(os) \in SUBSET Nat
    BY <1>1 DEF Top
  <2> QED
    BY <1>3, <2>1, MinIs
<1> QED
  BY <1>1, <1>2, <1>3 DEF Top

(* What is left by Del() before the clones are emptied.                    *)
Left(os, i) ==
  IF biggest # i THEN [State EXCEPT !.obj = os]
  ELSE [State EXCEPT !.obj = os, !.biggest = IF Top(os) = {} THEN -1 ELSE Min(Top(os)),
                     !.mcp_r = IF Top(os) = {} THEN -1 ELSE Reach(os[Min(Top(os))])]

Counted(st, os, b, r) == [st EXCEPT !.obj = os, !.biggest = b, !.mcp_r = r]
LEMMA CountedIs ==
  ASSUME NEW st \in States, NEW os \in Tables, NEW b \in Int, NEW r \in Int
  PROVE  /\ Counted(st, os, b, r) \in States /\ Counted(st, os, b, r).obj = os
         /\ Counted(st, os, b, r).biggest = b /\ Counted(st, os, b, r).mcp_r = r
         /\ Counted(st, os, b, r).told = st.told
BY DEF States, Counted

LEMMA LeftIs ==
  ASSUME SizeInv, MaxOid \in Nat, NEW i \in DOMAIN object, NEW os \in Tables,
         DOMAIN os = DOMAIN object \ {i}, \A j \in DOMAIN os : Reach(os[j]) = Reach(object[j]),
         NEW st, st = Left(os, i)
  PROVE  st \in States /\ st.obj = os /\ Told(st) /\ Inside(st, {})
<1>1. State.obj = object /\ State \in States /\ Told(State) /\ Inside(State, {}) /\ State.biggest = biggest
      /\ State.mcp_r \in Int /\ State.told \in Int
  BY StateIs DEF State, States
<1>2. \A j \in DOMAIN os : Reach(os[j]) <= State.mcp_r \/ Reach(os[j]) = 0
  BY <1>1 DEF Inside
<1>3. CASE biggest # i
  <2>1. st = [State EXCEPT !.obj = os]
    BY <1>3 DEF Left
  <2>2. TableKept(State, st, os)
    BY <1>1, <2>1, SetTable
  <2> HIDE DEF State
  <2>3. st \in States /\ st.obj = os /\ st.biggest = State.biggest /\ st.mcp_r = State.mcp_r
        /\ st.told = State.told
    BY <2>2 DEF TableKept
  <2> QED
    BY <1>1, <1>2, <2>3 DEF Told, Inside
<1>4. CASE biggest = i
  <2> DEFINE t == IF Top(os) = {} THEN -1 ELSE Min(Top(os))
             r == IF Top(os) = {} THEN -1 ELSE Reach(os[Min(Top(os))])
  <2>1. st = Counted(State, os, t, r)
    BY <1>4 DEF Left, Counted
  <2>2. CASE Top(os) = {}
    <3>1. t = -1 /\ r = -1 /\ t \in Int /\ r \in Int /\ DOMAIN os = {}
      BY <2>2, TopIs
    <3> HIDE DEF t, r, State
    <3>2. st \in States /\ st.obj = os /\ st.biggest = -1 /\ st.mcp_r = -1 /\ st.told = State.told
      BY <1>1, <2>1, <3>1, CountedIs
    <3> QED
      BY <1>1, <3>1, <3>2 DEF Told, Inside
  <2>3. CASE Top(os) # {}
    <3> DEFINE m == Min(Top(os))
    <3>1. m \in DOMAIN os /\ \A k \in DOMAIN os : Reach(os[k]) <= Reach(os[m])
      BY <2>3, TopIs
    <3>2. t = m /\ r = Reach(os[m])
      BY <2>3
    <3> HIDE DEF m, t, r, State
    <3>3. r \in Nat /\ r \in Int /\ t \in Int
      BY <3>1, <3>2, ReachIs, ObjectAt DEF Oids
    <3>4. st \in States /\ st.obj = os /\ st.mcp_r = r /\ st.told = State.told
      BY <1>1, <2>1, <3>3, CountedIs
    <3>5. r <= State.told
      BY <1>1, <1>2, <3>1, <3>2, <3>3 DEF Told
    <3> QED
      BY <1>1, <3>1, <3>2, <3>3, <3>4, <3>5 DEF Told, Inside
  <2> QED
    BY <2>2, <2>3
<1> QED
  BY <1>3, <1>4

LEMMA DelIs ==
  ASSUME Tame, SizeInv, NEW i \in DOMAIN object, Del(i)
  PROVE  \E os : /\ object[i].sub = <<>>
                 /\ os = [j \in DOMAIN object \ {i} |->
                            IF link_delete(object, i)[j].link = i THEN [link_delete(object, i)[j] EXCEPT !.link = -1]
                            ELSE link_delete(object, i)[j]]
                 /\ ~object[i].clone_src => Carry(Left(os, i))
                 /\ object[i].clone_src =>
                      \E f : EmptyRun(Left(os, i), Clones(os, i), MaxOid + 1, f) /\ Carry(f[MaxOid + 1])
<1> DEFINE up == link_delete(object, i)
           os == [j \in DOMAIN object \ {i} |-> IF up[j].link = i THEN [up[j] EXCEPT !.link = -1] ELSE up[j]]
           st == Left(os, i)
           c  == CHOOSE f : EmptyRun(st, Clones(os, i), MaxOid + 1, f)
<1>1. object[i].sub = <<>>
  BY DEF Del, Tame
<1>2. Carry(IF object[i].clone_src THEN c[MaxOid + 1] ELSE st)
  BY DEF Del, EmptyRun, Emptying, Left, Top
<1>3. EmptyRun(st, Clones(os, i), MaxOid + 1, c)
  <2>1. MaxOid + 1 \in Nat
    BY DEF Tame
  <2> HIDE DEF st, os
  <2> QED
    BY <2>1, EmptyRunExists
<1> HIDE DEF c
<1>4. ~object[i].clone_src => Carry(st)
  <2> HIDE DEF st, os
  <2> QED
    BY <1>2
<1>5. object[i].clone_src => Carry(c[MaxOid + 1])
  <2> HIDE DEF st, os
  <2> QED
    BY <1>2
<1> QED
  BY <1>1, <1>3, <1>4, <1>5

LEMMA DelKeeps ==
  ASSUME Tame, SizeInv, NEW i \in DOMAIN object, Del(i)
  PROVE  SizeInv'
<1> DEFINE up == link_delete(object, i)
<1>1. PICK os : /\ object[i].sub = <<>>
                /\ os = [j \in DOMAIN object \ {i} |->
                           IF up[j].link = i THEN [up[j] EXCEPT !.link = -1] ELSE up[j]]
                /\ ~object[i].clone_src => Carry(Left(os, i))
                /\ object[i].clone_src =>
                     \E f : EmptyRun(Left(os, i), Clones(os, i), MaxOid + 1, f) /\ Carry(f[MaxOid + 1])
  BY DelIs
<1>2. MaxOid \in Nat /\ object \in Tables /\ Tree(object) /\ Sized(object) /\ i \in Oids
      /\ \A j \in DOMAIN object : Current(object, j) /\ object[j] \in Object
  BY StateIs DEF Tame
<1>3. /\ up \in Tables /\ Tree(up) /\ DOMAIN up = DOMAIN object /\ up[i].link = -1 /\ up[i].sub = <<>>
      /\ \A j \in DOMAIN object : ButLinks(object[j], up[j])
      /\ \A j \in DOMAIN object \ {i} : up[j].link = object[j].link
      /\ \A j \in DOMAIN object : up[j].sub # <<>> => up[j].scale = 1
  BY <1>1, DeletedIs
<1> HIDE DEF up
<1> DEFINE ow == [j \in DOMAIN up \ {i} |-> up[j]]
<1>4. Without(up, ow, i)
  <2>1. up \in [DOMAIN up -> Object] /\ DOMAIN up \subseteq Oids
    BY <1>2, <1>3, ObjectAt
  <2>2. ow \in [DOMAIN up \ {i} -> Object] /\ DOMAIN up \ {i} \in SUBSET Oids
    BY <2>1
  <2>3. DOMAIN ow = DOMAIN up \ {i} /\ \A j \in DOMAIN ow : ow[j] = up[j]
    OBVIOUS
  <2> HIDE DEF ow
  <2>4. ow \in Tables
    BY <2>2 DEF Tables
  <2> QED
    BY <2>3, <2>4 DEF Without
<1>5. Tree(ow) /\ \A j \in DOMAIN ow : up[j].link # i
  BY <1>3, <1>4, WithoutTree
<1>6. os = ow
  BY <1>1, <1>3, <1>5
<1>7. Without(up, os, i) /\ Tree(os) /\ \A j \in DOMAIN os : up[j].link # i
  BY <1>4, <1>5, <1>6
<1> HIDE DEF ow
<1>8. os \in Tables /\ DOMAIN os = DOMAIN object \ {i} /\ \A j \in DOMAIN os : os[j] = up[j]
  BY <1>3, <1>7 DEF Without
<1>9. \A j \in DOMAIN os : ButLinks(object[j], os[j]) /\ os[j].link = object[j].link
                           /\ (os[j].sub # <<>> => os[j].scale = 1)
  BY <1>3, <1>8
<1>10. \A j \in DOMAIN os : Current(os, j)
  <2>1. Closed(os, DOMAIN os)
    BY <1>7 DEF Closed, Tree, Listed
  <2>2. \A j \in DOMAIN os : PlacedAlike(os, object, j)
    BY <1>9 DEF PlacedAlike, ButLinks
  <2>3. DOMAIN os \in SUBSET (DOMAIN os \cap DOMAIN object)
    BY <1>8
  <2>4. \A j \in DOMAIN os : Position(os, j) = Position(object, j)
    BY <1>2, <1>7, <1>8, <2>1, <2>2, <2>3, PositionsAgree
  <2> QED
    BY <1>2, <1>8, <1>9, <2>4 DEF Current, ButLinks
<1> DEFINE st == Left(os, i)
           C == Clones(os, i)
<1>11. st \in States /\ st.obj = os /\ Told(st) /\ Inside(st, {})
  <2>1. \A j \in DOMAIN os : Reach(os[j]) = Reach(object[j])
    BY <1>9 DEF Reach, ButLinks
  <2> QED
    BY <1>2, <1>8, <2>1, LeftIs
<1> HIDE DEF st
(* Clones of others are sized as before.                                   *)
<1>12. \A j \in DOMAIN os : SizedAt(object, j) /\ Furthest(os[j]) = Furthest(object[j]) /\ i # -1
  <2> TAKE j \in DOMAIN os
  <2>1. SizedAt(object, j) /\ i # -1
    BY <1>2, <1>8, SizedIs DEF Oids
  <2>2. os[j].points = object[j].points
    BY <1>9 DEF ButLinks
  <2>3. Furthest(os[j]) = Furthest(object[j])
    BY <2>2 DEF Furthest
  <2> QED
    BY <2>1, <2>3
<1>13. ASSUME NEW j \in DOMAIN os, os[j].clone # i PROVE SizedAt(os, j)
  <2>1. /\ os[j].clone = object[j].clone /\ os[j].scale = object[j].scale /\ os[j].r = object[j].r
        /\ os[j].points = object[j].points /\ (os[j].sub # <<>> => os[j].scale = 1)
    BY <1>9 DEF ButLinks
  <2> DEFINE k == os[j].clone
  <2>2. k # -1 => /\ k \in DOMAIN os /\ os[k].clone = -1 /\ os[k].clone_src
                  /\ os[j].points = <<>> /\ Furthest(os[k]) = Furthest(object[k])
    <3> SUFFICES ASSUME k # -1 PROVE /\ k \in DOMAIN os /\ os[k].clone = -1 /\ os[k].clone_src
                                     /\ os[j].points = <<>> /\ Furthest(os[k]) = Furthest(object[k])
      OBVIOUS
    <3>1. k \in DOMAIN object /\ object[k].clone = -1 /\ object[k].clone_src /\ object[j].points = <<>>
      BY <1>12, <2>1 DEF SizedAt
    <3> HIDE DEF k
    <3>2. k \in DOMAIN os
      BY <1>8, <1>13, <3>1 DEF k
    <3> QED
      BY <1>9, <1>12, <2>1, <3>1, <3>2 DEF ButLinks
  <2>3. Seen(os, j) = Seen(object, j)
    BY <1>12, <2>1, <2>2 DEF Seen
  <2> QED
    BY <1>12, <2>1, <2>2, <2>3 DEF SizedAt
<1>14. CASE ~object[i].clone_src
  <2>1. \A j \in DOMAIN os : os[j].clone # i
    <3> TAKE j \in DOMAIN os
    <3>1. SizedAt(object, j) /\ os[j].clone = object[j].clone /\ i # -1
      BY <1>9, <1>12 DEF ButLinks
    <3> QED
      BY <1>14, <3>1 DEF SizedAt
  <2>2. Sized(os)
    BY <1>13, <2>1, SizedIs
  <2>3. Sound(st)
    BY <1>7, <1>10, <1>11, <2>2 DEF Sound
  <2> QED
    BY <1>1, <1>14, <2>3, Carried DEF st
<1>15. CASE object[i].clone_src
  <2>1. PICK f : EmptyRun(st, C, MaxOid + 1, f) /\ Carry(f[MaxOid + 1])
    BY <1>1, <1>15 DEF st
  <2> DEFINE sn == f[MaxOid + 1]
             ot == sn.obj
  <2>2. C \in SUBSET DOMAIN st.obj
    BY <1>11 DEF Clones
  <2>3. AllEmptied(st, C, sn, MaxOid + 1)
    <3> HIDE DEF C, sn
    <3> QED
      BY <1>2, <1>11, <2>1, <2>2, EmptyRunIs DEF sn
  <2> HIDE DEF sn
  <2>4. sn \in States /\ Told(sn) /\ Inside(sn, {}) /\ ot \in Tables /\ DOMAIN ot = DOMAIN os
    BY <1>11, <2>3 DEF AllEmptied, States
  <2>5. \A j \in DOMAIN os : j < MaxOid + 1
    BY <1>2, <1>8, ObjectAt DEF Oids
  <2>6. \A j \in DOMAIN os : ot[j] = IF j \in C THEN Emptied(os[j]) ELSE os[j]
    BY <1>11, <2>3, <2>5 DEF AllEmptied
  <2> HIDE DEF ot
  <2>7. \A j \in DOMAIN os : os[j] \in Object
    BY <1>8, ObjectAt
  <2>8. \A j \in DOMAIN os : StaysAt(os[j], ot[j])
    <3> TAKE j \in DOMAIN os
    <3>1. CASE j \in C
      BY <2>6, <2>7, <3>1, EmptiedIs
    <3>2. CASE j \notin C
      BY <2>6, <3>2 DEF StaysAt
    <3> QED
      BY <3>1, <3>2
  <2>9. Tree(ot) /\ \A j \in DOMAIN ot : Current(ot, j)
    BY <1>7, <1>8, <1>10, <2>4, <2>8, PlacedAgain
  <2>10. Sized(ot)
    <3> SUFFICES ASSUME NEW j \in DOMAIN os PROVE SizedAt(ot, j)
      BY <2>4, SizedIs
    <3>1. CASE j \in C
      <4>1. /\ ot[j].clone = -1 /\ ot[j].r = 0 /\ ot[j].points = os[j].points
            /\ ot[j].scale = os[j].scale /\ ot[j].sub = os[j].sub
        BY <2>6, <2>7, <3>1, EmptiedIs DEF StaysAt
      <4>2. os[j].clone = i
        BY <3>1 DEF Clones
      <4>3. os[j].points = <<>>
        BY <1>9, <1>12, <4>2 DEF SizedAt, ButLinks
      <4>4. Seen(ot, j) = 0 /\ ot[j].scale \in Nat
        BY <2>7, <4>1, <4>3 DEF Seen, Furthest, Object
      <4> QED
        BY <1>9, <4>1, <4>4 DEF SizedAt
    <3>2. CASE j \notin C
      <4>1. os[j].clone # i /\ ot[j] = os[j]
        BY <2>6, <3>2 DEF Clones
      <4>2. SizedAt(os, j)
        BY <1>13, <4>1
      <4> DEFINE k == os[j].clone
      <4>3. k # -1 => k \in DOMAIN os /\ os[k].clone = -1 /\ ot[k] = os[k]
        <5>1. k # -1 => k \in DOMAIN os /\ os[k].clone = -1
          BY <4>2 DEF SizedAt
        <5>2. \A l \in DOMAIN os : os[l].clone = -1 => l \notin C
          BY <1>12 DEF Clones
        <5> HIDE DEF C
        <5> QED
          BY <2>6, <5>1, <5>2
      <4> QED
        BY <2>4, <4>1, <4>2, <4>3 DEF SizedAt, Seen
    <3> QED
      BY <3>1, <3>2
  <2>11. Sound(sn)
    BY <2>4, <2>9, <2>10 DEF Sound, ot
  <2> QED
    BY <2>1, <2>11, Carried DEF sn
<1> QED
  BY <1>14, <1>15

-----------------------------------------------------------------------------
LEMMA InitSound == Tame /\ Init => SizeInv
<1> SUFFICES ASSUME Tame, Init PROVE SizeInv
  OBVIOUS
<1>1. DOMAIN object = {} /\ object \in [{} -> Object]
  BY DEF Init
<1>2. object \in Tables
  BY <1>1 DEF Tables
<1>3. Tree(object)
  <2> DEFINE ord == [j \in DOMAIN object |-> 0]
  <2>1. Ordered(object, 0, ord) /\ Listed(object)
    BY <1>1 DEF Ordered, Listed
  <2> QED
    BY <2>1 DEF Tree
<1>4. Sized(object)
  BY <1>1 DEF Sized
<1>5. State.obj = object /\ State.biggest = -1 /\ State.mcp_r = 0 /\ State.told = 0 /\ State \in States
  BY <1>2 DEF State, States, Init
<1> HIDE DEF State
<1> QED
  BY <1>1, <1>3, <1>4, <1>5 DEF SizeInv, Sound, Told, Inside

LEMMA StepSound ==
  ASSUME Tame, SizeInv, [Next]_vars
  PROVE  SizeInv'
<1>1. CASE New
  BY <1>1, NewKeeps
<1>2. ASSUME NEW i \in DOMAIN object,
             \/ Translate(i) \/ Rotate(i) \/ Scale(i) \/ Link(i) \/ Unlink(i)
             \/ PushVertex(i) \/ PepVertex(i) \/ DelVertex(i) \/ Clone(i) \/ Del(i)
      PROVE  SizeInv'
  BY <1>2, TranslateKeeps, RotateKeeps, ScaleKeeps, LinkKeeps, UnlinkKeeps, PushVertexKeeps,
     PepVertexKeeps, DelVertexKeeps, CloneKeeps, DelKeeps
<1>3. CASE UNCHANGED vars
  BY <1>3 DEF vars, SizeInv, State
<1> QED
  BY <1>1, <1>2, <1>3 DEF Next

LEMMA SoundIsCurrent ==
  ASSUME MaxOid \in Nat, SizeInv
  PROVE  SizesAreCurrent
<1>1. /\ State.mcp_r = mcp_r /\ State.told = told /\ State.obj = object
  BY DEF State
<1>2. /\ object \in Tables /\ Tree(object) /\ Sized(object) /\ Told(State) /\ Inside(State, {})
      /\ State \in States /\ \A i \in DOMAIN object : Current(object, i) /\ object[i] \in Object
  BY StateIs
<1> HIDE DEF State
<1>3. MatricesAreCurrent
  BY <1>2 DEF MatricesAreCurrent, Current
<1>4. ASSUME NEW i \in DOMAIN object, Shown(i) > 0
      PROVE  Abs(object[i].m.a) + Abs(object[i].m.b) * Shown(i) <= mcp_r /\ mcp_r <= told
  <2>1. SizedAt(object, i) /\ Shown(i) = Seen(object, i)
    BY <1>2, SizedIs DEF Seen, Shown
  <2>2. object[i].o_r = Abs(object[i].m.a) /\ Abs(object[i].m.b) = object[i].scale
    BY <1>2, FactorAbs DEF Current
  <2>3. object[i].o_r \in Nat /\ object[i].r \in Nat /\ object[i].scale \in Nat /\ object[i].scale # 0
    BY <1>2 DEF Object
  <2> DEFINE f == Shown(i)
             g == object[i].scale * f
  <2>4. f \in Nat
    <3>1. object[i].clone # -1 => object[i].clone \in DOMAIN object
      BY <2>1 DEF SizedAt
    <3> QED
      BY <1>2, <3>1, FurthestIs DEF Shown
  <2>5. g <= object[i].r
    BY <2>1 DEF SizedAt
  <2>6. g \in Nat /\ g # 0
    <3> DEFINE z == object[i].scale
    <3>1. 1 <= f /\ z \in Nat /\ z # 0
      BY <1>4, <2>3, <2>4
    <3> HIDE DEF f, z
    <3>2. z * 1 <= z * f /\ z * f \in Nat
      BY <2>4, <3>1, Product
    <3>3. z * 1 = z
      BY <3>1
    <3> QED
      BY <3>1, <3>2, <3>3 DEF z
  <2>7. Reach(object[i]) = object[i].r + object[i].o_r
    BY DEF Reach
  <2>8. Reach(object[i]) <= mcp_r \/ Reach(object[i]) = 0
    BY <1>1, <1>2 DEF Inside
  <2>9. mcp_r \in Int /\ mcp_r <= told
    BY <1>1, <1>2 DEF States, Told
  <2> HIDE DEF g
  <2>10. object[i].o_r + g <= mcp_r
    BY <2>3, <2>5, <2>6, <2>7, <2>8, <2>9
  <2> QED
    BY <2>2, <2>9, <2>10 DEF g
<1>5. SphereCovers
  BY <1>4 DEF SphereCovers
<1> QED
  BY <1>3, <1>5 DEF SizesAreCurrent

(* The matrix of every object is the one its place and its links make, and *)
(* the sphere the program is drawn in holds what its objects show, however *)
(* many there are and wherever they are put: while programs scale by       *)
(* positive factors, do not change what others clone or are linked to, and *)
(* remove nothing that others link to.                                     *)
THEOREM SizesStayCurrent ==
  ASSUME Tame
  PROVE  Spec => []SizesAreCurrent
<1>1. Init => SizeInv
  BY InitSound
<1>2. SizeInv /\ [Next]_vars => SizeInv'
  BY StepSound
<1>3. SizeInv => SizesAreCurrent
  BY SoundIsCurrent DEF Tame
<1> QED
  BY <1>1, <1>2, <1>3, PTL DEF Spec
=============================================================================
