--------------------------- MODULE ClientsProofs ---------------------------
(***************************************************************************)
(* Proofs about what two sides use without a lock: a texture's segment,    *)
(* the list of a job of the file manager, the lines of the terminal, the   *)
(* object numbers a program gets in advance, the list of programs of the   *)
(* window manager.                                                         *)
(***************************************************************************)
EXTENDS Clients, SequenceTheorems, FiniteSetTheorems, WellFoundedInduction, TLAPS

-----------------------------------------------------------------------------
(* Sequences                                                               *)

LEMMA AppendAt ==
  ASSUME NEW S, NEW q \in Seq(S), NEW m \in S
  PROVE  /\ Append(q, m) \in Seq(S) /\ Len(q) \in Nat /\ Len(Append(q, m)) = Len(q) + 1
         /\ \A i \in 1 .. Len(q) : Append(q, m)[i] = q[i]
         /\ Append(q, m)[Len(q) + 1] = m
BY AppendProperties, LenProperties

LEMMA TailAt ==
  ASSUME NEW S, NEW q \in Seq(S), q # <<>>
  PROVE  /\ Tail(q) \in Seq(S) /\ Len(q) \in Nat \ {0} /\ Len(Tail(q)) = Len(q) - 1
         /\ \A i \in 1 .. Len(q) - 1 : Tail(q)[i] = q[i + 1]
         /\ Head(q) = q[1]
BY HeadTailProperties, EmptySeq, LenProperties

-----------------------------------------------------------------------------
(* Induction, over a set of numbers.                                       *)
Below == {p \in Nat \X Nat : p[1] < p[2]}
LEMMA BelowWF == IsWellFoundedOn(Below, Nat)
BY NatLessThanWellFounded DEF OpToRel, Below

LEMMA SetInduction ==
  ASSUME NEW T, 0 \in T, \A k \in Nat : k \in T => k + 1 \in T
  PROVE  Nat \subseteq T
<1> DEFINE U == Nat \ T
<1> SUFFICES ASSUME U # {} PROVE FALSE
  OBVIOUS
<1>1. PICK x \in U : \A y \in U : ~ (<<y, x>> \in Below)
  BY BelowWF, WFMin
<1>2. x # 0 /\ x - 1 \in Nat
  OBVIOUS
<1>3. x - 1 \in U
  <2>1. x - 1 \in T => (x - 1) + 1 \in T
    BY <1>2
  <2> QED
    BY <1>2, <2>1
<1>4. <<x - 1, x>> \in Below
  BY <1>2 DEF Below
<1> QED
  BY <1>1, <1>3, <1>4

(* A function that is defined by what it makes of its last value exists.   *)
Walks(S, G, a) ==
  \A n \in Nat : \E f \in [0 .. n -> S] : f[0] = a /\ \A k \in 1 .. n : f[k] = G[f[k - 1]]
LEMMA Walk ==
  ASSUME NEW S, NEW G \in [S -> S], NEW a \in S
  PROVE  Walks(S, G, a)
<1> DEFINE W(n, f) == f[0] = a /\ \A k \in 1 .. n : f[k] = G[f[k - 1]]
           T == {n \in Nat : \E f \in [0 .. n -> S] : W(n, f)}
<1>1. 0 \in T
  <2> DEFINE f == [k \in 0 .. 0 |-> a]
  <2>1. f \in [0 .. 0 -> S] /\ W(0, f)
    OBVIOUS
  <2> HIDE DEF f, W
  <2> QED
    BY <2>1
<1>2. ASSUME NEW n \in Nat, n \in T PROVE n + 1 \in T
  <2>1. PICK f \in [0 .. n -> S] : W(n, f)
    BY <1>2
  <2> DEFINE g == [k \in 0 .. n + 1 |-> IF k = n + 1 THEN G[f[n]] ELSE f[k]]
  <2>2. g \in [0 .. n + 1 -> S]
    OBVIOUS
  <2>3. W(n + 1, g)
    BY <2>1
  <2> HIDE DEF g, W
  <2> QED
    BY <2>2, <2>3
<1>3. Nat \subseteq T
  <2> HIDE DEF T
  <2> QED
    BY <1>1, <1>2, SetInduction
<1> QED
  BY <1>3 DEF Walks

(* ... also when it counts its steps.                                      *)
Ticks(S, G, n) == \A t \in S : t[2] \in Nat /\ (t[2] < n => G[t][2] = t[2] + 1)
Steps(S, G, a, n) ==
  \E g \in [0 .. n -> S] : /\ g[0] = a
                           /\ \A k \in 1 .. n : g[k] = G[g[k - 1]]
                           /\ \A k \in 0 .. n : g[k][2] = k
LEMMA WalkCounts ==
  ASSUME NEW S, NEW G \in [S -> S], NEW a \in S, NEW n \in Nat, a[2] = 0, Ticks(S, G, n)
  PROVE  Steps(S, G, a, n)
<1>1. PICK g \in [0 .. n -> S] : g[0] = a /\ \A k \in 1 .. n : g[k] = G[g[k - 1]]
  <2>1. Walks(S, G, a)
    BY Walk
  <2> QED
    BY <2>1 DEF Walks
<1> DEFINE T == {k \in Nat : k <= n => g[k][2] = k}
<1>2. 0 \in T
  BY <1>1
<1>3. ASSUME NEW k \in Nat, k \in T PROVE k + 1 \in T
  <2> SUFFICES ASSUME k + 1 <= n PROVE g[k + 1][2] = k + 1
    OBVIOUS
  <2>1. g[k] \in S /\ g[k][2] = k /\ k < n /\ g[k + 1] = G[g[k]]
    BY <1>1, <1>3
  <2> QED
    BY <2>1 DEF Ticks
<1>4. Nat \subseteq T
  <2> HIDE DEF T
  <2> QED
    BY <1>2, <1>3, SetInduction
<1> QED
  BY <1>1, <1>4 DEF Steps

-----------------------------------------------------------------------------
(* TexShm: a texture in shared memory.                                     *)
Msg == [op : {"push", "pop", "update", "load"}, n : Nat]

(* The textures that were pushed are numbered along the ring: from a, that *)
(* the server has a buffer for, to b, that the program has pushed.         *)
Numbers(q, a, b, d) ==
  /\ d[0] = a /\ d[Len(q)] <= b
  /\ \A i, j \in 0 .. Len(q) : i <= j => d[i] <= d[j]
  /\ \A i \in 1 .. Len(q) : q[i].op = "push" => d[i - 1] < d[i]
Counted(q, a, b) == \E d \in [0 .. Len(q) -> Nat] : Numbers(q, a, b, d)

LEMMA CountSend ==
  ASSUME NEW q \in Seq(Msg), NEW m \in Msg, NEW a \in Nat, NEW b \in Nat, NEW c \in Nat,
         Counted(q, a, b), b <= c, m.op = "push" => b < c
  PROVE  Counted(Append(q, m), a, c)
<1> DEFINE new == Append(q, m)
<1>1. /\ Len(q) \in Nat /\ Len(new) = Len(q) + 1 /\ new[Len(q) + 1] = m
      /\ \A i \in 1 .. Len(q) : new[i] = q[i]
  BY AppendAt
<1> HIDE DEF new
<1>2. PICK d \in [0 .. Len(q) -> Nat] : Numbers(q, a, b, d)
  BY DEF Counted
<1> DEFINE e == [i \in 0 .. Len(new) |-> IF i = Len(q) + 1 THEN c ELSE d[i]]
<1>3. e \in [0 .. Len(new) -> Nat]
  BY <1>1
<1>4. /\ e[Len(q) + 1] = c /\ \A i \in 0 .. Len(q) : e[i] = d[i] /\ d[i] \in Nat
  BY <1>1
<1> HIDE DEF e
<1>5. e[0] = a /\ e[Len(new)] <= c
  BY <1>1, <1>2, <1>4 DEF Numbers
<1>6. ASSUME NEW i \in 0 .. Len(new), NEW j \in 0 .. Len(new), i <= j
      PROVE  e[i] <= e[j]
  <2>1. CASE j \in 0 .. Len(q)
    <3>1. i \in 0 .. Len(q)
      BY <1>6, <2>1
    <3> QED
      BY <1>2, <1>4, <1>6, <2>1, <3>1 DEF Numbers
  <2>2. CASE i \in 0 .. Len(q) /\ j = Len(q) + 1
    <3>1. d[i] <= b /\ d[i] \in Nat
      BY <1>1, <1>2, <1>4, <2>2 DEF Numbers
    <3> QED
      BY <1>4, <2>2, <3>1
  <2>3. CASE i = Len(q) + 1 /\ j = Len(q) + 1
    BY <1>4, <2>3
  <2> QED
    BY <1>1, <1>6, <2>1, <2>2, <2>3
<1>7. ASSUME NEW i \in 1 .. Len(new), new[i].op = "push"
      PROVE  e[i - 1] < e[i]
  <2>1. CASE i \in 1 .. Len(q)
    <3>1. i - 1 \in 0 .. Len(q) /\ i \in 0 .. Len(q) /\ q[i].op = "push"
      BY <1>1, <1>7, <2>1
    <3> QED
      BY <1>2, <1>4, <2>1, <3>1 DEF Numbers
  <2>2. CASE i = Len(q) + 1
    <3>1. e[i - 1] <= b /\ e[i - 1] \in Nat /\ b < c
      BY <1>1, <1>2, <1>4, <1>7, <2>2 DEF Numbers
    <3> QED
      BY <1>4, <2>2, <3>1
  <2> QED
    BY <1>1, <2>1, <2>2
<1>8. Numbers(new, a, c, e)
  BY <1>5, <1>6, <1>7 DEF Numbers
<1> QED
  BY <1>3, <1>8 DEF Counted, new

LEMMA CountTake ==
  ASSUME NEW q \in Seq(Msg), q # <<>>, NEW a \in Nat, NEW b \in Nat, Counted(q, a, b)
  PROVE  Counted(Tail(q), IF q[1].op = "push" THEN a + 1 ELSE a, b)
<1> DEFINE new == Tail(q)
           c == IF q[1].op = "push" THEN a + 1 ELSE a
<1>1. /\ Len(q) \in Nat \ {0} /\ Len(new) = Len(q) - 1
      /\ \A i \in 1 .. Len(q) - 1 : new[i] = q[i + 1]
  BY TailAt
<1> HIDE DEF new
<1>2. PICK d \in [0 .. Len(q) -> Nat] : Numbers(q, a, b, d)
  BY DEF Counted
<1>3. c \in Nat /\ c <= d[1] /\ d[0] = a
  <2>1. d[0] = a /\ d[0] <= d[1] /\ (q[1].op = "push" => d[0] < d[1]) /\ d[1] \in Nat
    <3>1. 0 \in 0 .. Len(q) /\ 1 \in 0 .. Len(q) /\ 1 \in 1 .. Len(q) /\ 1 - 1 = 0
      BY <1>1
    <3> QED
      BY <1>2, <3>1 DEF Numbers
  <2> QED
    BY <2>1
<1> HIDE DEF c
<1> DEFINE e == [i \in 0 .. Len(new) |-> IF i = 0 THEN c ELSE d[i + 1]]
<1>4. e \in [0 .. Len(new) -> Nat]
  BY <1>1, <1>3
<1>5. e[0] = c /\ \A i \in 1 .. Len(new) : e[i] = d[i + 1] /\ i + 1 \in 0 .. Len(q)
  BY <1>1
<1> HIDE DEF e
<1>6. \A i \in 0 .. Len(new) : e[i] <= d[i + 1] /\ i + 1 \in 1 .. Len(q) /\ d[i + 1] \in Nat /\ e[i] \in Nat
  BY <1>1, <1>3, <1>4, <1>5
<1>7. e[Len(new)] <= b
  <2>1. e[Len(new)] <= d[Len(q)] /\ d[Len(q)] \in Nat
    BY <1>1, <1>6
  <2> QED
    BY <1>1, <1>2, <1>6, <2>1 DEF Numbers
<1>8. ASSUME NEW i \in 0 .. Len(new), NEW j \in 0 .. Len(new), i <= j
      PROVE  e[i] <= e[j]
  <2>1. CASE j = 0
    BY <1>6, <1>8, <2>1
  <2>2. CASE j # 0
    <3>1. e[i] <= d[i + 1] /\ e[j] = d[j + 1] /\ i + 1 <= j + 1
      BY <1>5, <1>6, <1>8, <2>2
    <3>2. d[i + 1] <= d[j + 1]
      BY <1>2, <1>6, <3>1 DEF Numbers
    <3> QED
      BY <1>6, <3>1, <3>2
  <2> QED
    BY <2>1, <2>2
<1>9. ASSUME NEW i \in 1 .. Len(new), new[i].op = "push"
      PROVE  e[i - 1] < e[i]
  <2>1. e[i - 1] <= d[i] /\ e[i] = d[i + 1] /\ i + 1 \in 1 .. Len(q) /\ q[i + 1].op = "push"
    BY <1>1, <1>5, <1>6, <1>9
  <2>2. d[i] < d[i + 1]
    BY <1>2, <2>1 DEF Numbers
  <2>3. i - 1 \in 0 .. Len(new) /\ i \in 0 .. Len(new)
    BY <1>1
  <2>4. e[i - 1] \in Nat /\ d[i] \in Nat /\ d[i + 1] \in Nat
    BY <1>6, <2>1, <2>3
  <2> QED
    BY <2>1, <2>2, <2>4
<1>10. Numbers(new, c, b, e)
  BY <1>5, <1>7, <1>8, <1>9 DEF Numbers
<1> QED
  BY <1>4, <1>10 DEF Counted, new, c

LEMMA CountBound ==
  ASSUME NEW q \in Seq(Msg), NEW a \in Nat, NEW b \in Nat, Counted(q, a, b)
  PROVE  a <= b /\ \A i \in 1 .. Len(q) : q[i].op = "push" => a < b
<1>1. PICK d \in [0 .. Len(q) -> Nat] : Numbers(q, a, b, d)
  BY DEF Counted
<1>2. Len(q) \in Nat /\ d[0] = a /\ d[Len(q)] <= b /\ d[Len(q)] \in Nat
  BY <1>1, LenProperties DEF Numbers
<1>3. \A i \in 0 .. Len(q) : a <= d[i] /\ d[i] <= b /\ d[i] \in Nat
  <2> TAKE i \in 0 .. Len(q)
  <2>1. d[0] <= d[i] /\ d[i] <= d[Len(q)]
    BY <1>1, <1>2 DEF Numbers
  <2> QED
    BY <1>2, <2>1
<1>4. ASSUME NEW i \in 1 .. Len(q), q[i].op = "push"
      PROVE  a < b
  <2>1. d[i - 1] < d[i] /\ i - 1 \in 0 .. Len(q) /\ i \in 0 .. Len(q)
    BY <1>1, <1>2, <1>4 DEF Numbers
  <2> QED
    BY <1>3, <2>1
<1> QED
  BY <1>2, <1>3, <1>4

(* The texture that the program has is the i-th packet under way or, for   *)
(* i = 0, in the server's buffer. Only its drawings follow. The last of    *)
(* them is the last drawing that is sent, or there is none, all that was   *)
(* drawn is in the buffer, but for what the server has cleared or is going *)
(* to clear, and an UPDATE_TEX follows when OpenGL has less. A drawing     *)
(* that is sent is not one that the server clears.                         *)
Drawings(i) ==
  \A j \in i + 1 .. Len(toServer) :
    toServer[j].op = "load" \/ (i = 0 /\ toServer[j].op = "update")
IsLast(j) ==
  /\ toServer[j].op = "load" /\ toServer[j].n = last
  /\ \A k \in j + 1 .. Len(toServer) : toServer[k].op # "load"
LastSent(i) == \E j \in i + 1 .. Len(toServer) : IsLast(j)
Kept == last # 0 /\ wiped # last /\ (clearing => buf[p_tex] # last)
AllDrawn(i) ==
  /\ \A j \in i + 1 .. Len(toServer) : toServer[j].op # "load"
  /\ i > 0 => last = 0
  /\ i = 0 => /\ buf[p_tex] = IF ~clearing /\ wiped = last THEN 0 ELSE last
              /\ bound => texture = buf[p_tex] \/ \E j \in 1 .. Len(toServer) : toServer[j].op = "update"
Current(i) ==
  /\ IF i = 0 THEN p_tex = buffers /\ p_tex # 0 ELSE toServer[i].op = "push"
  /\ Drawings(i)
  /\ (LastSent(i) /\ Kept) \/ AllDrawn(i)

TexTypes ==
  /\ toServer \in Seq(Msg) /\ has \in BOOLEAN /\ bound \in BOOLEAN
  /\ pushes \in 0 .. MaxPushes /\ loads \in Nat /\ last \in Nat
  /\ buffers \in Nat /\ p_tex \in 0 .. buffers /\ tex_hash \in 0 .. buffers
  /\ buf \in [1 .. MaxPushes -> Nat] /\ clearing \in BOOLEAN /\ wiped \in Nat /\ wiped <= loads
(* Before the server clears a segment nothing is in it but drawings.       *)
Clearing ==
  clearing => p_tex = buffers /\ p_tex \in 1 .. MaxPushes /\ bound = FALSE /\ buf[p_tex] <= loads
TexInv ==
  /\ TexTypes /\ Clearing
  /\ \A b \in 1 .. MaxPushes : b > buffers => buf[b] = 0
  /\ Counted(toServer, buffers, pushes)
  /\ has => \E i \in 0 .. Len(toServer) : Current(i)

LEMMA TexInit == Textures!Init => TexInv
<1> SUFFICES ASSUME Textures!Init PROVE TexInv
  OBVIOUS
<1> USE TextureAssumption DEF Textures!Init
<1>1. toServer \in Seq(Msg) /\ Len(toServer) = 0
  BY EmptySeq
<1>2. TexTypes
  <2>1. buf \in [1 .. MaxPushes -> Nat] /\ has \in BOOLEAN /\ bound \in BOOLEAN /\ clearing \in BOOLEAN
    OBVIOUS
  <2> QED
    BY <1>1, <2>1 DEF TexTypes
<1>3. Counted(toServer, buffers, pushes)
  <2> DEFINE d == [i \in 0 .. Len(toServer) |-> 0]
  <2>1. d \in [0 .. Len(toServer) -> Nat] /\ Numbers(toServer, 0, 0, d)
    BY <1>1 DEF Numbers
  <2> QED
    BY <2>1 DEF Counted
<1> QED
  BY <1>2, <1>3 DEF TexInv, Clearing

(* A packet that is sent behind the texture.                               *)
LEMMA SendBehind ==
  ASSUME NEW m \in Msg, TexTypes, toServer' = Append(toServer, m),
         NEW i \in 0 .. Len(toServer), Drawings(i),
         m.op = "load" \/ (i = 0 /\ m.op = "update")
  PROVE  Drawings(i)'
<1>1. /\ Len(toServer) \in Nat /\ Len(toServer') = Len(toServer) + 1
      /\ toServer'[Len(toServer) + 1] = m
      /\ \A j \in 1 .. Len(toServer) : toServer'[j] = toServer[j]
  BY AppendAt DEF TexTypes
<1> SUFFICES ASSUME NEW j \in i + 1 .. Len(toServer')
             PROVE  toServer'[j].op = "load" \/ (i = 0 /\ toServer'[j].op = "update")
  BY DEF Drawings
<1>2. CASE j = Len(toServer) + 1
  BY <1>1, <1>2
<1>3. CASE j # Len(toServer) + 1
  <2>1. j \in i + 1 .. Len(toServer) /\ toServer'[j] = toServer[j]
    BY <1>1, <1>3
  <2> QED
    BY <2>1 DEF Drawings
<1> QED
  BY <1>2, <1>3

LEMMA PushInv == TexInv /\ Textures!s3d_push_texture => TexInv'
<1> SUFFICES ASSUME TexInv, Textures!s3d_push_texture PROVE TexInv'
  OBVIOUS
<1> DEFINE m == [op |-> "push", n |-> 0]
<1>1. /\ pushes < MaxPushes /\ has' = TRUE /\ pushes' = pushes + 1 /\ last' = 0
      /\ toServer' = Append(toServer, m)
      /\ UNCHANGED <<toClient, loads, tex_hash, p_tex, buffers, buf, clearing, wiped, bound, texture>>
  BY DEF Textures!s3d_push_texture, Textures!Send, Textures!server
<1>2. m \in Msg /\ m.op = "push" /\ pushes \in Nat /\ MaxPushes \in Nat
  BY TextureAssumption DEF Msg, TexInv, TexTypes
<1> HIDE DEF m
<1>3. /\ toServer' \in Seq(Msg) /\ Len(toServer') = Len(toServer) + 1
      /\ Len(toServer) \in Nat /\ toServer'[Len(toServer) + 1] = m
  BY <1>1, <1>2, AppendAt DEF TexInv, TexTypes
<1>4. Counted(toServer', buffers', pushes')
  BY <1>1, <1>2, CountSend DEF TexInv, TexTypes
<1>5. TexTypes'
  BY <1>1, <1>2, <1>3 DEF TexInv, TexTypes
<1>6. Current(Len(toServer))'
  <2>1. Drawings(Len(toServer))'
    BY <1>3 DEF Drawings
  <2>2. AllDrawn(Len(toServer))'
    BY <1>1, <1>3 DEF AllDrawn
  <2> QED
    BY <1>2, <1>3, <2>1, <2>2 DEF Current
<1>7. Clearing'
  BY <1>1 DEF TexInv, Clearing
<1> QED
  BY <1>1, <1>3, <1>4, <1>5, <1>6, <1>7 DEF TexInv

LEMMA PopInv == TexInv /\ Textures!s3d_pop_texture => TexInv'
<1> SUFFICES ASSUME TexInv, Textures!s3d_pop_texture PROVE TexInv'
  OBVIOUS
<1> DEFINE m == [op |-> "pop", n |-> 0]
<1>1. /\ has' = FALSE /\ toServer' = Append(toServer, m)
      /\ UNCHANGED <<toClient, pushes, loads, last, tex_hash, p_tex, buffers, buf, clearing, wiped, bound, texture>>
  BY DEF Textures!s3d_pop_texture, Textures!Send, Textures!server
<1>2. m \in Msg /\ m.op = "pop"
  BY DEF Msg
<1> HIDE DEF m
<1>3. toServer' \in Seq(Msg)
  BY <1>1, <1>2, AppendAt DEF TexInv, TexTypes
<1>4. Counted(toServer', buffers', pushes')
  BY <1>1, <1>2, CountSend DEF TexInv, TexTypes
<1>5. TexTypes'
  BY <1>1, <1>3 DEF TexInv, TexTypes
<1>6. Clearing'
  BY <1>1 DEF TexInv, Clearing
<1> QED
  BY <1>1, <1>4, <1>5, <1>6 DEF TexInv

(* A packet of a drawing, and the picture when it was loaded by itself.    *)
LEMMA LoadInv == TexInv /\ Textures!s3d_load_texture => TexInv'
<1> SUFFICES ASSUME TexInv, Textures!s3d_load_texture PROVE TexInv'
  OBVIOUS
<1>1. /\ has /\ loads' = loads + 1 /\ last' = loads' /\ loads' \in Nat
      /\ UNCHANGED <<toClient, pushes, has, tex_hash, p_tex, buffers, clearing, wiped, bound, texture>>
      /\ wiped # last' /\ loads \in Nat /\ wiped' \in Nat /\ wiped' <= loads'
      /\ tex_hash # 0 => ~Textures!Loading /\ tex_hash = pushes
      /\ TexTypes /\ Len(toServer) \in Nat /\ pushes \in Nat
  BY LenProperties DEF Textures!s3d_load_texture, TexInv, TexTypes
<1>2. PICK i \in 0 .. Len(toServer) : Current(i)
  BY <1>1 DEF TexInv
<1>3. buffers \in Nat /\ Counted(toServer, buffers, pushes) /\ toServer \in Seq(Msg)
  BY DEF TexInv, TexTypes
<1>4. ASSUME NEW m \in Msg, m.op # "push", toServer' = Append(toServer, m)
      PROVE  /\ Counted(toServer, buffers, pushes)' /\ toServer' \in Seq(Msg)
             /\ Len(toServer') = Len(toServer) + 1 /\ toServer'[Len(toServer) + 1] = m
             /\ \A j \in 1 .. Len(toServer) : toServer'[j] = toServer[j]
  BY <1>1, <1>3, <1>4, CountSend, AppendAt
<1>5. CASE tex_hash # 0 /\ buf' = [buf EXCEPT ![tex_hash] = loads']
           /\ toServer' = Append(toServer, [op |-> "update", n |-> 0])
  <2> DEFINE m == [op |-> "update", n |-> 0]
  <2>1. m \in Msg /\ m.op = "update"
    BY DEF Msg
  <2> HIDE DEF m
  <2>2. /\ Counted(toServer, buffers, pushes)' /\ toServer' \in Seq(Msg)
        /\ Len(toServer') = Len(toServer) + 1 /\ toServer'[Len(toServer) + 1] = m
        /\ \A j \in 1 .. Len(toServer) : toServer'[j] = toServer[j]
    BY <1>4, <1>5, <2>1 DEF m
  <2>3. buffers = pushes /\ tex_hash = buffers
    BY <1>1, <1>3, <1>5, CountBound DEF TexTypes
  <2>4. i = 0
    BY <1>1, <1>2, <1>3, <2>3, CountBound DEF Current
  <2>5. p_tex = buffers /\ p_tex \in 1 .. MaxPushes
    BY <1>1, <1>2, <2>3, <2>4 DEF Current, TexTypes
  <2>6. TexTypes'
    BY <1>1, <1>5, <2>2 DEF TexTypes
  <2>7. buf'[p_tex] = last' /\ \A b \in 1 .. MaxPushes : b # p_tex => buf'[b] = buf[b]
    BY <1>1, <1>5, <2>3, <2>5 DEF TexTypes
  <2>8. \A j \in 1 .. Len(toServer') : toServer'[j].op # "load"
    <3>1. \A j \in 1 .. Len(toServer) : toServer[j].op # "load"
      BY <1>1, <1>3, <1>5 DEF Textures!Loading
    <3> QED
      BY <1>1, <2>1, <2>2, <3>1
  <2>9. Drawings(0)'
    BY <1>1, <1>2, <1>5, <2>1, <2>4, SendBehind DEF Current, m
  <2>10. Current(0)'
    <3>1. Len(toServer) + 1 \in 1 .. Len(toServer') /\ toServer'[Len(toServer) + 1].op = "update"
      BY <1>1, <2>1, <2>2
    <3>2. AllDrawn(0)'
      BY <1>1, <2>2, <2>7, <2>8, <3>1 DEF AllDrawn
    <3> QED
      BY <1>1, <2>5, <2>9, <3>2 DEF Current
  <2>11. (\A b \in 1 .. MaxPushes : b > buffers => buf[b] = 0)'
    BY <1>1, <2>5, <2>7 DEF TexInv
  <2>12. Clearing'
    BY <1>1, <2>5, <2>7 DEF TexInv, Clearing
  <2> QED
    BY <1>1, <2>2, <2>6, <2>10, <2>11, <2>12 DEF TexInv
<1>6. CASE tex_hash = 0 /\ UNCHANGED buf
           /\ toServer' = Append(toServer, [op |-> "load", n |-> loads'])
  <2> DEFINE m == [op |-> "load", n |-> loads']
  <2>1. m \in Msg /\ m.op = "load" /\ m.n = last'
    BY <1>1 DEF Msg
  <2> HIDE DEF m
  <2>2. /\ Counted(toServer, buffers, pushes)' /\ toServer' \in Seq(Msg)
        /\ Len(toServer') = Len(toServer) + 1 /\ toServer'[Len(toServer) + 1] = m
        /\ \A j \in 1 .. Len(toServer) : toServer'[j] = toServer[j]
    BY <1>4, <1>6, <2>1 DEF m
  <2>3. TexTypes'
    BY <1>1, <1>6, <2>2 DEF TexTypes
  <2>4. Drawings(i)'
    BY <1>1, <1>2, <1>6, <2>1, SendBehind DEF Current, m
  <2>5. LastSent(i)'
    <3>1. IsLast(Len(toServer))'
      BY <1>1, <2>1, <2>2 DEF IsLast
    <3>2. Len(toServer') \in i + 1 .. Len(toServer')
      BY <1>1, <2>2
    <3> QED
      BY <3>1, <3>2 DEF LastSent
  <2>6. Clearing' /\ Kept'
    <3>1. clearing => buf[p_tex] \in Nat /\ buf[p_tex] <= loads
      BY <1>1 DEF TexInv, TexTypes, Clearing
    <3> QED
      BY <1>1, <1>6, <3>1 DEF TexInv, Clearing, Kept
  <2>7. Current(i)'
    BY <1>1, <1>2, <2>2, <2>4, <2>5, <2>6 DEF Current
  <2>8. i \in 0 .. Len(toServer')
    BY <1>1, <2>2
  <2> QED
    BY <1>1, <1>6, <2>2, <2>3, <2>6, <2>7, <2>8 DEF TexInv
<1> QED
  BY <1>5, <1>6 DEF Textures!s3d_load_texture, Textures!load_texture_shm, Textures!update_texture,
                    Textures!Send

(* The segment of a texture is told.                                       *)
LEMMA HandleInv == TexInv /\ Textures!s3d_handle_texshm => TexInv'
<1> SUFFICES ASSUME TexInv, Textures!s3d_handle_texshm PROVE TexInv'
  OBVIOUS
<1>1. /\ tex_hash' \in {p_tex, 0}
      /\ UNCHANGED <<toServer, pushes, has, loads, last, p_tex, buffers, buf, clearing, wiped, bound, texture>>
  BY DEF Textures!s3d_handle_texshm, Textures!program, Textures!server
<1>2. TexTypes'
  BY <1>1 DEF TexInv, TexTypes
<1>3. \A i \in 0 .. Len(toServer) : Current(i) => Current(i)'
  BY <1>1 DEF Current, Drawings, LastSent, IsLast, AllDrawn, Kept
<1> QED
  BY <1>1, <1>2, <1>3 DEF TexInv, Clearing

(* The server takes a packet: the others are one nearer.                   *)
LEMMA TakeShifts ==
  ASSUME TexTypes, toServer # <<>>, toServer' = Tail(toServer), last' = last
  PROVE  /\ Len(toServer) \in Nat \ {0} /\ Len(toServer') = Len(toServer) - 1
         /\ toServer' \in Seq(Msg) /\ toServer[1] \in Msg /\ toServer[1] = Head(toServer)
         /\ \A j \in 1 .. Len(toServer) - 1 : toServer'[j] = toServer[j + 1]
         /\ \A j \in 2 .. Len(toServer) : IsLast(j) => IsLast(j - 1)'
         /\ Drawings(0) => Drawings(0)'
         /\ \A i \in 1 .. Len(toServer) : Drawings(i) => Drawings(i - 1)'
<1>1. /\ Len(toServer) \in Nat \ {0} /\ Len(toServer') = Len(toServer) - 1
      /\ toServer' \in Seq(Msg) /\ toServer[1] = Head(toServer)
      /\ \A j \in 1 .. Len(toServer) - 1 : toServer'[j] = toServer[j + 1]
  BY TailAt DEF TexTypes
<1>2. toServer[1] \in Msg
  BY <1>1, ElementOfSeq DEF TexTypes
<1>3. ASSUME NEW j \in 2 .. Len(toServer), IsLast(j)
      PROVE  IsLast(j - 1)'
  <2>1. j - 1 \in 1 .. Len(toServer) - 1 /\ toServer'[j - 1] = toServer[j]
    BY <1>1
  <2>2. ASSUME NEW k \in j - 1 + 1 .. Len(toServer')
        PROVE  toServer'[k].op # "load"
    <3>1. k + 1 \in j + 1 .. Len(toServer) /\ toServer'[k] = toServer[k + 1]
      BY <1>1
    <3> QED
      BY <1>3, <3>1 DEF IsLast
  <2> QED
    BY <1>3, <2>1, <2>2 DEF IsLast
<1>4. ASSUME Drawings(0)
      PROVE  Drawings(0)'
  <2> SUFFICES ASSUME NEW j \in 0 + 1 .. Len(toServer')
               PROVE  toServer'[j].op \in {"load", "update"}
    BY DEF Drawings
  <2>1. j + 1 \in 0 + 1 .. Len(toServer) /\ toServer'[j] = toServer[j + 1]
    BY <1>1
  <2> QED
    BY <1>4, <2>1 DEF Drawings
<1>5. ASSUME NEW i \in 1 .. Len(toServer), Drawings(i)
      PROVE  Drawings(i - 1)'
  <2> SUFFICES ASSUME NEW j \in i - 1 + 1 .. Len(toServer')
               PROVE  toServer'[j].op = "load"
    BY DEF Drawings
  <2>1. j + 1 \in i + 1 .. Len(toServer) /\ toServer'[j] = toServer[j + 1]
    BY <1>1
  <2> QED
    BY <1>5, <2>1 DEF Drawings
<1> QED
  BY <1>1, <1>2, <1>3, <1>4, <1>5

LEMMA TakeAhead ==
  ASSUME TexTypes, toServer # <<>>, toServer' = Tail(toServer), last' = last, Kept => Kept',
         NEW i \in 2 .. Len(toServer), Current(i)
  PROVE  Current(i - 1)' /\ i - 1 \in 0 .. Len(toServer')
<1> USE TakeShifts
<1>1. toServer'[i - 1].op = "push" /\ Drawings(i - 1)'
  BY DEF Current
<1>2. CASE LastSent(i) /\ Kept
  <2>1. PICK j \in i + 1 .. Len(toServer) : IsLast(j)
    BY <1>2 DEF LastSent
  <2>2. j - 1 \in i - 1 + 1 .. Len(toServer') /\ IsLast(j - 1)'
    BY <2>1
  <2>3. LastSent(i - 1)'
    BY <2>2 DEF LastSent
  <2> QED
    BY <1>1, <1>2, <2>3 DEF Current
<1>3. CASE AllDrawn(i)
  <2>1. ASSUME NEW j \in i - 1 + 1 .. Len(toServer')
        PROVE  toServer'[j].op # "load"
    <3>1. j + 1 \in i + 1 .. Len(toServer) /\ toServer'[j] = toServer[j + 1]
      OBVIOUS
    <3> QED
      BY <1>3, <3>1 DEF AllDrawn
  <2>2. AllDrawn(i - 1)'
    BY <1>3, <2>1 DEF AllDrawn
  <2> QED
    BY <1>1, <2>2 DEF Current
<1> QED
  BY <1>2, <1>3 DEF Current

(* What every packet that the server takes leaves to be shown.             *)
LEMMA TakeInv ==
  ASSUME NEW op, TexInv, Textures!Take(op)
  PROVE  /\ toServer # <<>> /\ toServer' = Tail(toServer) /\ toServer[1].op = op
         /\ UNCHANGED <<tex_hash, pushes, has, loads, last>> /\ clearing = FALSE
         /\ TexTypes /\ toServer' \in Seq(Msg) /\ toServer[1] \in Msg
         /\ toServer[1] = Head(toServer)
         /\ op # "push" => Counted(toServer', buffers, pushes)
         /\ op = "push" => Counted(toServer', buffers + 1, pushes) /\ buffers < pushes
         /\ buffers <= pushes
         /\ has => \E i \in 0 .. Len(toServer) : Current(i)
<1>1. /\ toServer # <<>> /\ toServer' = Tail(toServer) /\ Head(toServer).op = op
      /\ UNCHANGED <<tex_hash, pushes, has, loads, last>> /\ clearing = FALSE
      /\ TexTypes /\ toServer \in Seq(Msg) /\ buffers \in Nat /\ pushes \in Nat
  BY DEF Textures!Take, Textures!program, TexInv, TexTypes
<1>2. /\ toServer' \in Seq(Msg) /\ toServer[1] \in Msg /\ toServer[1] = Head(toServer)
      /\ 1 \in 1 .. Len(toServer)
  BY <1>1, TakeShifts
<1>3. Counted(toServer, buffers, pushes)
  BY DEF TexInv
<1>4. Counted(toServer', IF op = "push" THEN buffers + 1 ELSE buffers, pushes)
  BY <1>1, <1>2, <1>3, CountTake
<1>5. buffers <= pushes /\ (op = "push" => buffers < pushes)
  BY <1>1, <1>2, <1>3, CountBound
<1>6. has => \E i \in 0 .. Len(toServer) : Current(i)
  BY DEF TexInv
<1>7. op # "push" => Counted(toServer', buffers, pushes)
  BY <1>4
<1>8. op = "push" => Counted(toServer', buffers + 1, pushes)
  BY <1>4
<1> QED
  BY <1>1, <1>2, <1>5, <1>6, <1>7, <1>8

(* An object's texture gets a buffer, empty, ...                           *)
LEMMA PushTexInv == TexInv /\ Textures!obj_push_tex => TexInv'
<1> SUFFICES ASSUME TexInv, Textures!obj_push_tex PROVE TexInv'
  OBVIOUS
<1>1. Textures!Take("push")
  BY DEF Textures!obj_push_tex
<1>2. /\ buffers' = buffers + 1 /\ p_tex' = buffers' /\ bound' = FALSE /\ texture' = 0
      /\ clearing' = TRUE /\ UNCHANGED <<buf, wiped>>
  BY DEF Textures!obj_push_tex
<1>3. /\ TexTypes /\ toServer # <<>> /\ toServer' = Tail(toServer) /\ toServer[1].op = "push"
      /\ UNCHANGED <<tex_hash, pushes, has, loads, last>> /\ toServer' \in Seq(Msg)
      /\ clearing = FALSE /\ Counted(toServer', buffers', pushes')
      /\ has => \E i \in 0 .. Len(toServer) : Current(i)
  BY <1>1, <1>2, TakeInv
<1>4. buffers \in Nat /\ buffers' \in 1 .. MaxPushes /\ buf[buffers'] = 0
  <2>1. buffers \in Nat /\ Counted(toServer', buffers', pushes')
    BY <1>3 DEF TexTypes
  <2>2. buffers < pushes /\ pushes \in 0 .. MaxPushes
    BY <1>1, TakeInv DEF TexTypes
  <2>3. buffers' \in 1 .. MaxPushes
    BY <1>2, <2>1, <2>2, TextureAssumption
  <2> QED
    BY <1>2, <2>1, <2>3 DEF TexInv, TexTypes
<1>5. TexTypes'
  <2>1. bound' \in BOOLEAN /\ has' \in BOOLEAN /\ clearing' \in BOOLEAN
    BY <1>2, <1>3 DEF TexTypes
  <2>2. p_tex' \in 0 .. buffers' /\ tex_hash' \in 0 .. buffers' /\ buffers' \in Nat
    BY <1>2, <1>3, <1>4 DEF TexTypes
  <2> QED
    BY <1>2, <1>3, <2>1, <2>2 DEF TexTypes
<1>6. (\A b \in 1 .. MaxPushes : b > buffers => buf[b] = 0)'
  BY <1>2, <1>4, TextureAssumption DEF TexInv
<1>8. Clearing' /\ (Kept => Kept')
  BY <1>2, <1>3, <1>4 DEF Clearing, Kept, TexTypes
<1>7. ASSUME has
      PROVE  \E i \in 0 .. Len(toServer') : Current(i)'
  <2>1. PICK i \in 0 .. Len(toServer) : Current(i)
    BY <1>3, <1>7
  <2>2. i # 0
    <3>1. 1 \in 0 + 1 .. Len(toServer)
      BY <1>3, TakeShifts
    <3> QED
      BY <1>3, <2>1, <3>1 DEF Current, Drawings
  <2>3. CASE i = 1
    <3>1. Drawings(0)'
      BY <1>3, <2>1, <2>3, TakeShifts DEF Current
    <3>2. (LastSent(0)' /\ Kept') \/ AllDrawn(0)'
      <4>1. CASE LastSent(1) /\ Kept
        <5>1. PICK j \in 2 .. Len(toServer) : IsLast(j)
          BY <4>1 DEF LastSent
        <5>2. j - 1 \in 0 + 1 .. Len(toServer') /\ IsLast(j - 1)'
          BY <1>3, <5>1, TakeShifts
        <5> QED
          BY <1>8, <4>1, <5>2 DEF LastSent
      <4>2. CASE AllDrawn(1)
        <5>1. ASSUME NEW j \in 0 + 1 .. Len(toServer')
              PROVE  toServer'[j].op # "load"
          <6>1. j + 1 \in 1 + 1 .. Len(toServer) /\ toServer'[j] = toServer[j + 1]
            BY <1>3, TakeShifts
          <6> QED
            BY <4>2, <6>1 DEF AllDrawn
        <5> QED
          BY <1>2, <1>3, <1>4, <4>2, <5>1 DEF AllDrawn
      <4> QED
        BY <2>1, <2>3, <4>1, <4>2 DEF Current
    <3>3. Current(0)'
      BY <1>2, <1>4, <3>1, <3>2 DEF Current
    <3>4. 0 \in 0 .. Len(toServer')
      BY <1>3, TakeShifts
    <3> QED
      BY <3>3, <3>4
  <2>4. CASE i \in 2 .. Len(toServer)
    <3>1. Current(i - 1)' /\ i - 1 \in 0 .. Len(toServer')
      BY <1>3, <1>8, <2>1, <2>4, TakeAhead
    <3> QED
      BY <3>1
  <2> QED
    BY <2>1, <2>2, <2>3, <2>4
<1> QED
  BY <1>3, <1>5, <1>6, <1>7, <1>8 DEF TexInv

(* ... and is cleared, with what the program has drawn meanwhile, ...      *)
LEMMA ClearInv == TexInv /\ Textures!Clear => TexInv'
<1> SUFFICES ASSUME TexInv, Textures!Clear PROVE TexInv'
  OBVIOUS
<1>1. /\ clearing = TRUE /\ clearing' = FALSE /\ buf' = [buf EXCEPT ![p_tex] = 0]
      /\ wiped' = IF buf[p_tex] = 0 THEN wiped ELSE buf[p_tex]
      /\ UNCHANGED <<toServer, pushes, has, loads, last, tex_hash, p_tex, buffers, bound, texture>>
  BY DEF Textures!Clear, Textures!program, TexInv, TexTypes
<1>2. /\ p_tex \in 1 .. MaxPushes /\ bound = FALSE /\ buf[p_tex] \in Nat /\ buf[p_tex] <= loads
      /\ p_tex = buffers /\ TexTypes
  BY <1>1 DEF TexInv, Clearing, TexTypes
<1>3. buf'[p_tex] = 0 /\ \A b \in 1 .. MaxPushes : b # p_tex => buf'[b] = buf[b]
  BY <1>1, <1>2 DEF TexTypes
<1>4. buf' \in [1 .. MaxPushes -> Nat] /\ wiped' \in Nat /\ wiped' <= loads
  BY <1>1, <1>2 DEF TexTypes
<1>5. TexTypes' /\ Clearing'
  BY <1>1, <1>2, <1>4 DEF TexTypes, Clearing
<1>6. Kept => Kept'
  BY <1>1 DEF Kept
<1>7. ASSUME NEW i \in 0 .. Len(toServer), AllDrawn(i)
      PROVE  AllDrawn(i)'
  <2>1. buf[p_tex] = last => IF wiped' = last THEN TRUE ELSE last = 0
    BY <1>1
  <2> QED
    BY <1>1, <1>2, <1>3, <1>7, <2>1 DEF AllDrawn
<1>8. \A i \in 0 .. Len(toServer) : Current(i) => Current(i)'
  BY <1>1, <1>6, <1>7 DEF Current, Drawings, LastSent, IsLast
<1>9. (\A b \in 1 .. MaxPushes : b > buffers => buf[b] = 0)'
  BY <1>1, <1>3 DEF TexInv
<1>10. (Counted(toServer, buffers, pushes))'
  BY <1>1 DEF TexInv
<1> QED
  BY <1>1, <1>5, <1>8, <1>9, <1>10 DEF TexInv

(* ... loses it, ...                                                       *)
LEMMA DeleteInv == TexInv /\ Textures!texture_delete => TexInv'
<1> SUFFICES ASSUME TexInv, Textures!texture_delete PROVE TexInv'
  OBVIOUS
<1>1. Textures!Take("pop") /\ p_tex' = 0 /\ UNCHANGED <<buffers, buf, clearing, wiped, bound, texture>>
  BY DEF Textures!texture_delete
<1>2. /\ TexTypes /\ toServer # <<>> /\ toServer' = Tail(toServer) /\ toServer[1].op = "pop"
      /\ UNCHANGED <<tex_hash, pushes, has, loads, last>> /\ toServer' \in Seq(Msg)
      /\ clearing = FALSE /\ Counted(toServer', buffers', pushes')
      /\ has => \E i \in 0 .. Len(toServer) : Current(i)
  <2>1. "pop" # "push"
    OBVIOUS
  <2>2. Counted(toServer', buffers, pushes) /\ pushes' = pushes
    BY <1>1, <2>1, TakeInv, Zenon
  <2> QED
    BY <1>1, <2>2, TakeInv
<1>3. TexTypes' /\ Clearing' /\ (Kept => Kept')
  BY <1>1, <1>2 DEF TexTypes, Clearing, Kept
<1>4. ASSUME has
      PROVE  \E i \in 0 .. Len(toServer') : Current(i)'
  <2>1. PICK i \in 0 .. Len(toServer) : Current(i)
    BY <1>2, <1>4
  <2>2. Len(toServer) \in Nat \ {0}
    BY <1>2, TakeShifts
  <2>3. i \in 2 .. Len(toServer)
    <3>1. i # 0
      BY <1>2, <2>1, <2>2 DEF Current, Drawings
    <3>2. i # 1
      BY <1>2, <2>1 DEF Current
    <3> QED
      BY <2>2, <3>1, <3>2
  <2>4. Current(i - 1)' /\ i - 1 \in 0 .. Len(toServer')
    BY <1>2, <1>3, <2>1, <2>3, TakeAhead
  <2> QED
    BY <2>4
<1> QED
  BY <1>1, <1>2, <1>3, <1>4 DEF TexInv

(* ... shows what the program has drawn into the segment, ...              *)
LEMMA UpdateInv == TexInv /\ Textures!obj_update_tex => TexInv'
<1> SUFFICES ASSUME TexInv, Textures!obj_update_tex PROVE TexInv'
  OBVIOUS
<1>1. /\ Textures!Take("update") /\ UNCHANGED <<p_tex, buffers, buf, clearing, wiped, bound>>
      /\ texture' = IF bound /\ p_tex # 0 THEN buf[p_tex] ELSE texture
  BY DEF Textures!obj_update_tex
<1>2. /\ TexTypes /\ toServer # <<>> /\ toServer' = Tail(toServer) /\ toServer[1].op = "update"
      /\ UNCHANGED <<tex_hash, pushes, has, loads, last>> /\ toServer' \in Seq(Msg)
      /\ clearing = FALSE /\ Counted(toServer', buffers', pushes')
      /\ has => \E i \in 0 .. Len(toServer) : Current(i)
  <2>1. "update" # "push"
    OBVIOUS
  <2>2. Counted(toServer', buffers, pushes) /\ pushes' = pushes
    BY <1>1, <2>1, TakeInv, Zenon
  <2> QED
    BY <1>1, <2>2, TakeInv
<1>3. TexTypes' /\ Clearing' /\ (Kept => Kept')
  BY <1>1, <1>2 DEF TexTypes, Clearing, Kept
<1>4. ASSUME has
      PROVE  \E i \in 0 .. Len(toServer') : Current(i)'
  <2>1. PICK i \in 0 .. Len(toServer) : Current(i)
    BY <1>2, <1>4
  <2>2. Len(toServer) \in Nat \ {0} /\ Len(toServer') = Len(toServer) - 1
    BY <1>2, TakeShifts
  <2>3. i # 1
    BY <1>2, <2>1 DEF Current
  <2>4. CASE i = 0
    <3>1. p_tex = buffers /\ p_tex # 0 /\ Drawings(0)'
      BY <1>2, <2>1, <2>4, TakeShifts DEF Current
    <3>2. (LastSent(0)' /\ Kept') \/ AllDrawn(0)'
      <4>1. CASE LastSent(0) /\ Kept
        <5>1. PICK j \in 1 .. Len(toServer) : IsLast(j)
          BY <4>1 DEF LastSent
        <5>2. j \in 2 .. Len(toServer)
          BY <1>2, <5>1 DEF IsLast
        <5>3. j - 1 \in 0 + 1 .. Len(toServer') /\ IsLast(j - 1)'
          BY <1>2, <2>2, <5>1, <5>2, TakeShifts
        <5> QED
          BY <1>3, <4>1, <5>3 DEF LastSent
      <4>2. CASE AllDrawn(0)
        <5>1. ASSUME NEW j \in 0 + 1 .. Len(toServer')
              PROVE  toServer'[j].op # "load"
          <6>1. j + 1 \in 0 + 1 .. Len(toServer) /\ toServer'[j] = toServer[j + 1]
            BY <1>2, <2>2, TakeShifts
          <6> QED
            BY <4>2, <6>1 DEF AllDrawn
        <5>2. /\ buf[p_tex] = IF wiped = last THEN 0 ELSE last
              /\ bound' => texture' = buf[p_tex]
          BY <1>1, <1>2, <3>1, <4>2 DEF AllDrawn
        <5> QED
          BY <1>1, <1>2, <5>1, <5>2 DEF AllDrawn
      <4> QED
        BY <2>1, <2>4, <4>1, <4>2 DEF Current
    <3>3. Current(0)' /\ 0 \in 0 .. Len(toServer')
      BY <1>1, <2>2, <3>1, <3>2 DEF Current
    <3> QED
      BY <3>3
  <2>5. CASE i \in 2 .. Len(toServer)
    <3>1. Current(i - 1)' /\ i - 1 \in 0 .. Len(toServer')
      BY <1>2, <1>3, <2>1, <2>5, TakeAhead
    <3> QED
      BY <3>1
  <2> QED
    BY <2>1, <2>3, <2>4, <2>5
<1> QED
  BY <1>1, <1>2, <1>3, <1>4 DEF TexInv

(* ... or what it has sent, ...                                            *)
LEMMA LoadTexInv == TexInv /\ Textures!obj_load_tex => TexInv'
<1> SUFFICES ASSUME TexInv, Textures!obj_load_tex PROVE TexInv'
  OBVIOUS
<1>1. /\ Textures!Take("load") /\ UNCHANGED <<p_tex, buffers, clearing, wiped, bound>>
      /\ IF p_tex = 0 THEN UNCHANGED <<buf, texture>>
         ELSE /\ buf' = [buf EXCEPT ![p_tex] = Head(toServer).n]
              /\ texture' = IF bound THEN Head(toServer).n ELSE texture
  BY DEF Textures!obj_load_tex
<1>2. /\ TexTypes /\ toServer # <<>> /\ toServer' = Tail(toServer) /\ toServer[1].op = "load"
      /\ UNCHANGED <<tex_hash, pushes, has, loads, last>> /\ toServer' \in Seq(Msg)
      /\ clearing = FALSE /\ Counted(toServer', buffers', pushes') /\ toServer[1].n \in Nat
      /\ Head(toServer) = toServer[1] /\ buffers <= pushes
      /\ has => \E i \in 0 .. Len(toServer) : Current(i)
  BY <1>1, TakeInv DEF Msg
<1>3. p_tex # 0 => p_tex \in 1 .. MaxPushes
  BY <1>2, TextureAssumption DEF TexTypes
<1>4. TexTypes'
  <2>1. buf' \in [1 .. MaxPushes -> Nat]
    BY <1>1, <1>2 DEF TexTypes
  <2> QED
    BY <1>1, <1>2, <2>1 DEF TexTypes
<1>5. (\A b \in 1 .. MaxPushes : b > buffers => buf[b] = 0)'
  <2> SUFFICES ASSUME NEW b \in 1 .. MaxPushes, b > buffers
               PROVE  buf'[b] = 0
    BY <1>1
  <2>1. b # p_tex /\ buf[b] = 0
    BY <1>2, TextureAssumption DEF TexInv, TexTypes
  <2> QED
    BY <1>1, <1>2, <2>1 DEF TexTypes
<1>7. Clearing' /\ (Kept => Kept')
  BY <1>1, <1>2 DEF Clearing, Kept
<1>6. ASSUME has
      PROVE  \E i \in 0 .. Len(toServer') : Current(i)'
  <2>1. PICK i \in 0 .. Len(toServer) : Current(i)
    BY <1>2, <1>6
  <2>2. Len(toServer) \in Nat \ {0} /\ Len(toServer') = Len(toServer) - 1
    BY <1>2, TakeShifts
  <2>3. i # 1
    BY <1>2, <2>1 DEF Current
  <2>4. CASE i = 0
    <3>1. p_tex = buffers /\ p_tex # 0 /\ Drawings(0)'
      BY <1>2, <2>1, <2>4, TakeShifts DEF Current
    <3>2. Kept /\ \E j \in 1 .. Len(toServer) : IsLast(j)
      <4>1. ~AllDrawn(0)
        BY <1>2, <2>2 DEF AllDrawn
      <4> QED
        BY <2>1, <2>4, <4>1 DEF Current, LastSent
    <3>5. PICK j \in 1 .. Len(toServer) : IsLast(j)
      BY <3>2
    <3>3. CASE j = 1
      <4>1. buf'[p_tex] = last' /\ (bound' => texture' = last')
        BY <1>1, <1>2, <1>3, <3>1, <3>3, <3>5 DEF IsLast, TexTypes
      <4>2. ASSUME NEW k \in 0 + 1 .. Len(toServer')
            PROVE  toServer'[k].op # "load"
        <5>1. k + 1 \in 1 + 1 .. Len(toServer) /\ toServer'[k] = toServer[k + 1]
          BY <1>2, <2>2, TakeShifts
        <5> QED
          BY <3>3, <3>5, <5>1 DEF IsLast
      <4>3. wiped' # last'
        BY <1>1, <1>2, <3>2 DEF Kept
      <4> QED
        BY <1>1, <2>2, <3>1, <4>1, <4>2, <4>3 DEF Current, AllDrawn
    <3>4. CASE j # 1
      <4>1. j - 1 \in 0 + 1 .. Len(toServer') /\ IsLast(j - 1)'
        BY <1>2, <2>2, <3>4, <3>5, TakeShifts
      <4>2. LastSent(0)'
        BY <4>1 DEF LastSent
      <4> QED
        BY <1>1, <1>7, <2>2, <3>1, <3>2, <4>2 DEF Current
    <3> QED
      BY <3>3, <3>4
  <2>5. CASE i \in 2 .. Len(toServer)
    <3>1. Current(i - 1)' /\ i - 1 \in 0 .. Len(toServer')
      BY <1>2, <1>7, <2>1, <2>5, TakeAhead
    <3> QED
      BY <3>1
  <2> QED
    BY <2>1, <2>3, <2>4, <2>5
<1> QED
  BY <1>2, <1>4, <1>5, <1>6, <1>7 DEF TexInv

(* ... and is given to OpenGL as it is.                                    *)
LEMMA RenderInv == TexInv /\ Textures!obj_render => TexInv'
<1> SUFFICES ASSUME TexInv, Textures!obj_render PROVE TexInv'
  OBVIOUS
<1>1. /\ bound' = TRUE /\ texture' = buf[p_tex]
      /\ clearing = FALSE
      /\ UNCHANGED <<toServer, tex_hash, pushes, has, loads, last, p_tex, buffers, buf, clearing, wiped>>
  BY DEF Textures!obj_render, Textures!program, TexInv, TexTypes
<1>2. TexTypes'
  BY <1>1 DEF TexInv, TexTypes
<1>3. \A i \in 0 .. Len(toServer) : Current(i) => Current(i)'
  BY <1>1 DEF Current, Drawings, LastSent, IsLast, AllDrawn, Kept
<1> QED
  BY <1>1, <1>2, <1>3 DEF TexInv, Clearing

LEMMA TexNextInv == TexInv /\ [Textures!Next]_Textures!vars => TexInv'
<1>1. ASSUME TexInv, UNCHANGED Textures!vars
      PROVE  TexInv'
  <2> USE <1>1 DEF Textures!vars
  <2>1. TexTypes'
    BY DEF TexInv, TexTypes
  <2>2. \A i \in 0 .. Len(toServer) : Current(i) => Current(i)'
    BY DEF Current, Drawings, LastSent, IsLast, AllDrawn, Kept
  <2> QED
    BY <2>1, <2>2 DEF TexInv, Clearing
<1> QED
  BY <1>1, PushInv, PopInv, LoadInv, HandleInv, PushTexInv, ClearInv, DeleteInv, UpdateInv, LoadTexInv,
     RenderInv DEF Textures!Next

(* Whether drawn into its segment or sent, the last picture is the one a   *)
(* texture shows, however often textures are pushed and popped and however *)
(* late the two sides hear of each other, but for a drawing that a server  *)
(* that has told of the segment before it clears it (src/server/object.c,  *)
(* 339-344) has wiped out: then the texture is empty until the next one.   *)
(* The program draws into a segment only when no LOAD_TEX is under way and *)
(* the segment is that of the texture it has (Uses <- {}).                 *)
THEOREM TextureShowsTheLast == Textures!Spec => []TexturesShowTheLast
<1>1. TexInv => TexturesShowTheLast
  <2> SUFFICES ASSUME TexInv, has, toServer = <<>>, ~clearing
               PROVE  /\ buf[p_tex] = IF wiped = last THEN 0 ELSE last
                      /\ bound => texture = buf[p_tex]
    BY DEF TexturesShowTheLast, Textures!LastLoadShows
  <2>1. Len(toServer) = 0
    BY EmptySeq
  <2>2. Current(0)
    BY <2>1 DEF TexInv
  <2> QED
    BY <2>1, <2>2 DEF Current, LastSent, AllDrawn
<1> QED
  BY <1>1, TexInit, TexNextInv, PTL DEF Textures!Spec

-----------------------------------------------------------------------------
(* FileJobs: the list of a job.                                            *)
States == {"NONE", "INUSE", "FINISHED", "CLEANED"}
Entry == [name : Files, state : States]
Asked == {"job", "mkdir"}

JobTypes ==
  /\ fs_lock \in {"NONE", "COPY", "UNLINK", "FINISHED"} /\ fp \in Seq(Entry)
  /\ pos \in Nat /\ at \in Nat /\ worker \in {"none", "at", "in", "waits"}
  /\ detached \subseteq Files /\ tree \subseteq Files

(* A list that nobody has begun, one that the thread is at, and one that   *)
(* is done. A file is in it once.                                          *)
Fresh == \A i \in 1 .. Len(fp) : fp[i].state = "NONE"
AtWork ==
  /\ at \in 1 .. Len(fp) + 1 /\ (worker \in {"in", "waits"} => at \in 1 .. Len(fp))
  /\ \A i \in 1 .. Len(fp) :
       fp[i].state \in IF i < at THEN {"FINISHED", "CLEANED"}
                       ELSE IF i = at /\ worker # "at" THEN {"INUSE"} ELSE {"NONE"}
Done == \A i \in 1 .. Len(fp) : fp[i].state \in {"FINISHED", "CLEANED"}
EachOnce(p) == \A i, j \in 1 .. Len(p) : p[i].name = p[j].name => i = j

JobFree == fs_lock = "NONE" => /\ pos = 0 /\ fp = <<>> /\ worker = "none" /\ windows \cap Asked = {}
JobDone == fs_lock = "FINISHED" => Done /\ worker = "none" /\ windows \cap Asked = {}
JobTaken ==
  fs_lock \in {"COPY", "UNLINK"} =>
    IF worker = "none"
    THEN Fresh /\ windows \cap Asked \in IF fp = <<>> THEN {{}, {"mkdir"}} ELSE {{"job"}}
    ELSE AtWork /\ windows \cap Asked = {}
(* A node is shown of a file that is gone only until its entry is passed,  *)
(* and longer when the thread was done with it after that.                 *)
PassedIsMissed == \A i \in 1 .. Len(fp) : i < pos /\ fp[i].state = "FINISHED" => fp[i].name \in missed
GoneIsListed ==
  \A f \in tree \ files : f \in missed \/ \E i \in 1 .. Len(fp) : fp[i] = [name |-> f, state |-> "FINISHED"]
Shows == GoneIsListed /\ PassedIsMissed /\ EachOnce(fp)
JobInv == JobTypes /\ JobFree /\ JobDone /\ JobTaken /\ Shows

LEMMA SetState ==
  ASSUME NEW p \in Seq(Entry), NEW k \in 1 .. Len(p), NEW st \in States
  PROVE  LET r == [p EXCEPT ![k].state = st]
         IN  /\ r \in Seq(Entry) /\ Len(r) = Len(p)
             /\ r[k] = [name |-> p[k].name, state |-> st]
             /\ \A i \in 1 .. Len(p) : i # k => r[i] = p[i]
<1>1. p[k] \in Entry /\ Len(p) \in Nat
  BY ElementOfSeq, LenProperties
<1>2. [p[k] EXCEPT !.state = st] = [name |-> p[k].name, state |-> st]
  BY <1>1 DEF Entry
<1>3. [name |-> p[k].name, state |-> st] \in Entry
  BY <1>1 DEF Entry
<1> QED
  BY <1>1, <1>2, <1>3

LEMMA Selected ==
  ASSUME detached \subseteq Files
  PROVE  /\ Jobs!get_selected \in Seq(Entry) /\ EachOnce(Jobs!get_selected)
         /\ \A i \in 1 .. Len(Jobs!get_selected) : Jobs!get_selected[i].state = "NONE"
         /\ detached = {} <=> Jobs!get_selected = <<>>
<1>1. IsFiniteSet(detached) /\ Cardinality(detached) \in Nat
  BY FilesAssumption, FS_Subset, FS_CardinalityType
<1>2. Jobs!Cardinality(detached) = Cardinality(detached)
  BY DEF Jobs!Cardinality, Cardinality
<1>3. /\ Jobs!SetToSeq(detached) \in [1 .. Jobs!Cardinality(detached) -> detached]
      /\ Jobs!IsInjective(Jobs!SetToSeq(detached))
  <2>1. ExistsBijection(1 .. Cardinality(detached), detached)
    BY <1>1, FS_CardinalityType
  <2>2. \E f \in [1 .. Cardinality(detached) -> detached] : Jobs!IsInjective(f)
    BY <2>1 DEF ExistsBijection, Bijection, Injection, IsInjective, Jobs!IsInjective
  <2> QED
    BY <1>2, <2>2 DEF Jobs!SetToSeq
<1> DEFINE c == Jobs!Cardinality(detached)
           sel == Jobs!SetToSeq(detached)
<1>4. Jobs!get_selected = [i \in 1 .. c |-> [name |-> sel[i], state |-> "NONE"]]
  BY DEF Jobs!get_selected
<1>5. c \in Nat /\ (\A i \in 1 .. c : sel[i] \in Files) /\ (c = 0 <=> detached = {})
  BY <1>1, <1>2, <1>3, FS_EmptySet
<1>8. \A i, j \in 1 .. c : sel[i] = sel[j] => i = j
  BY <1>3 DEF Jobs!IsInjective
<1> HIDE DEF c, sel
<1>6. Jobs!get_selected \in [1 .. c -> Entry]
  BY <1>4, <1>5 DEF Entry, States
<1>7. \A i \in 1 .. c : Jobs!get_selected[i].state = "NONE" /\ Jobs!get_selected[i].name = sel[i]
  BY <1>4
<1>9. Jobs!get_selected \in Seq(Entry) /\ Len(Jobs!get_selected) = c
  BY <1>5, <1>6
<1>10. Jobs!get_selected = <<>> <=> c = 0
  BY <1>5, <1>9, EmptySeq
<1> QED
  BY <1>5, <1>7, <1>8, <1>9, <1>10 DEF EachOnce

LEMMA JobInit == Jobs!Init => JobInv
<1> SUFFICES ASSUME Jobs!Init PROVE JobInv
  OBVIOUS
<1> USE DEF Jobs!Init, Jobs!NoList
<1>1. JobTypes
  BY DEF JobTypes
<1>2. JobFree /\ JobDone /\ JobTaken
  BY DEF JobFree, JobDone, JobTaken
<1>3. Shows
  BY DEF Shows, GoneIsListed, PassedIsMissed, EachOnce
<1> QED
  BY <1>1, <1>2, <1>3 DEF JobInv

LEMMA JobRest ==
  ASSUME JobInv,
         \/ UNCHANGED Jobs!vars
         \/ \E f \in Files : Jobs!Select(f)
         \/ Jobs!window_fs_confirm_error
  PROVE  JobInv'
<1>1. JobTypes /\ JobFree /\ JobDone /\ JobTaken /\ Shows
  BY DEF JobInv
<1>2. /\ UNCHANGED <<fs_lock, fp, pos, worker, at, tree, files, missed>>
      /\ windows' \cap Asked = windows \cap Asked
  BY DEF Asked, Jobs!vars, Jobs!Select, Jobs!job, Jobs!window_fs_confirm_error, Jobs!Confirmed
<1>3. detached' \subseteq Files
  BY <1>1 DEF JobTypes, Jobs!vars, Jobs!Select, Jobs!window_fs_confirm_error
<1> QED
  BY <1>1, <1>2, <1>3 DEF JobInv, JobTypes, JobFree, JobDone, JobTaken, Shows, GoneIsListed, PassedIsMissed, Done, Fresh, AtWork

LEMMA JobWindow ==
  ASSUME JobInv, NEW type \in {"COPY", "UNLINK"}, Jobs!window_job(type) PROVE JobInv'
<1> USE DEF Jobs!window_job, Jobs!Ask
<1>1. CASE fs_lock # "NONE"
  <2>1. UNCHANGED <<fs_lock, fp, pos, worker, at, windows, detached, tree, files, missed>>
    BY <1>1
  <2> QED
    BY <2>1 DEF JobInv, JobTypes, JobFree, JobDone, JobTaken, Shows, GoneIsListed, PassedIsMissed, Done, Fresh, AtWork
<1>2. CASE fs_lock = "NONE"
  <2>1. /\ JobTypes /\ pos = 0 /\ fp = <<>> /\ worker = "none" /\ windows \cap Asked = {}
        /\ tree \ files \subseteq missed
    BY <1>2 DEF JobInv, JobFree, Shows, GoneIsListed
  <2>2. /\ fs_lock' = type /\ fp' = Jobs!get_selected
        /\ windows' = (IF detached = {} THEN windows ELSE windows \cup {"job"})
        /\ UNCHANGED <<pos, worker, at, detached, tree, files, missed>>
    BY <1>2
  <2>3. /\ fp' \in Seq(Entry) /\ \A i \in 1 .. Len(fp') : fp'[i].state = "NONE"
        /\ EachOnce(fp') /\ (detached = {} <=> fp' = <<>>)
    BY <2>1, <2>2, Selected DEF JobTypes
  <2>4. windows' \cap Asked = IF fp' = <<>> THEN {} ELSE {"job"}
    BY <2>1, <2>2, <2>3 DEF Asked
  <2>5. JobTypes'
    BY <2>1, <2>2, <2>3 DEF JobTypes
  <2>6. (JobFree /\ JobDone /\ JobTaken)'
    BY <2>1, <2>2, <2>3, <2>4 DEF JobFree, JobDone, JobTaken, Fresh, Asked
  <2>7. Shows'
    BY <2>1, <2>2, <2>3 DEF Shows, GoneIsListed, PassedIsMissed
  <2> QED
    BY <2>5, <2>6, <2>7 DEF JobInv
<1> QED
  BY <1>1, <1>2

LEMMA JobMkdir == ASSUME JobInv, Jobs!window_mkdir PROVE JobInv'
<1> USE DEF Jobs!window_mkdir
<1>1. /\ JobTypes /\ pos = 0 /\ fp = <<>> /\ worker = "none" /\ windows \cap Asked = {}
      /\ Shows
  BY DEF JobInv, JobFree
<1>2. windows' \cap Asked = {"mkdir"}
  BY <1>1 DEF Asked
<1>3. (JobFree /\ JobDone /\ JobTaken)'
  BY <1>1, <1>2 DEF JobFree, JobDone, JobTaken, Fresh, Asked
<1> QED
  BY <1>1, <1>3 DEF JobInv, JobTypes, Shows, GoneIsListed, PassedIsMissed

LEMMA JobFs == ASSUME JobInv, Jobs!window_fs PROVE JobInv'
<1> USE DEF Jobs!window_fs
<1>1. JobTypes /\ JobFree /\ JobDone /\ JobTaken /\ Shows
  BY DEF JobInv
<1>2. "job" \in windows \cap Asked
  BY DEF Asked
<1>3. fs_lock \in {"COPY", "UNLINK"} /\ worker = "none" /\ Fresh /\ windows \cap Asked = {"job"}
  BY <1>1, <1>2 DEF JobTypes, JobFree, JobDone, JobTaken
<1>4. windows' \cap Asked = {}
  BY <1>3
<1>5. AtWork'
  BY <1>1, <1>3 DEF AtWork, Fresh, JobTypes
<1> QED
  BY <1>1, <1>3, <1>4, <1>5 DEF JobInv, JobTypes, JobFree, JobDone, JobTaken, Shows, GoneIsListed, PassedIsMissed

LEMMA NoneGone ==
  ASSUME Shows, \A i \in 1 .. Len(fp) : i < pos \/ fp[i].state # "FINISHED"
  PROVE  tree \ files \subseteq missed
<1> SUFFICES ASSUME NEW f \in tree \ files, f \notin missed PROVE FALSE
  OBVIOUS
<1>1. PICK i \in 1 .. Len(fp) : fp[i] = [name |-> f, state |-> "FINISHED"]
  BY DEF Shows, GoneIsListed
<1>2. fp[i].state = "FINISHED" /\ fp[i].name = f
  BY <1>1
<1> QED
  BY <1>2 DEF Shows, PassedIsMissed

LEMMA JobAbort == ASSUME JobInv, Jobs!window_fs_abort PROVE JobInv'
<1> USE DEF Jobs!window_fs_abort
<1>1. JobTypes /\ JobFree /\ JobDone /\ JobTaken /\ Shows
  BY DEF JobInv
<1>2. PICK w \in windows \cap {"job", "mkdir"} :
        /\ fp' = <<>> /\ fs_lock' = "NONE" /\ windows' = windows \ {w} /\ pos = 0
        /\ UNCHANGED <<pos, worker, at, detached, tree, files, missed>>
  BY DEF Jobs!NoList, Jobs!Idle
<1>3. w \in windows \cap Asked
  BY DEF Asked
<1>4. worker = "none" /\ Fresh /\ windows \cap Asked = {w}
  BY <1>1, <1>3 DEF JobTypes, JobFree, JobDone, JobTaken
<1>5. tree \ files \subseteq missed
  BY <1>1, <1>4, NoneGone DEF Fresh
<1>6. windows' \cap Asked = {}
  BY <1>2, <1>4
<1>7. Shows'
  BY <1>2, <1>5 DEF Shows, GoneIsListed, PassedIsMissed, EachOnce
<1> QED
  BY <1>1, <1>2, <1>4, <1>6, <1>7 DEF JobInv, JobTypes, JobFree, JobDone, JobTaken

LEMMA JobFsani == ASSUME JobInv, Jobs!Start \/ Jobs!Rest PROVE JobInv'
<1>1. JobTypes /\ JobFree /\ JobDone /\ JobTaken /\ Shows
  BY DEF JobInv
<1>2. CASE Jobs!Start
  <2>1. fs_lock # "NONE" /\ pos' = 1 /\ UNCHANGED <<fs_lock, fp, worker, at, windows, detached, tree, files, missed>>
    BY <1>2 DEF Jobs!Start
  <2>2. JobDone'
    BY <1>1, <2>1 DEF JobDone, Done
  <2> QED
    BY <1>1, <2>1, <2>2 DEF JobInv, JobTypes, JobFree, JobTaken, Shows, GoneIsListed, PassedIsMissed, Fresh, AtWork
<1>3. CASE Jobs!Rest
  <2> USE DEF Jobs!Rest, Jobs!EndSeen, Jobs!NoList
  <2>1. /\ pos > Len(fp) /\ pos' = 0 /\ windows' \cap Asked = windows \cap Asked
        /\ UNCHANGED <<worker, at, detached, tree, files, missed>>
    BY <1>3 DEF Asked
  <2>2. CASE fs_lock = "FINISHED"
    <3>1. fp' = <<>> /\ fs_lock' = "NONE"
      BY <1>3, <2>2
    <3>2. worker = "none" /\ windows \cap Asked = {} /\ \A i \in 1 .. Len(fp) : i < pos
      BY <1>1, <2>1, <2>2, LenProperties DEF JobDone, JobTypes
    <3>3. tree \ files \subseteq missed
      BY <1>1, <3>2, NoneGone
    <3>4. Shows'
      BY <2>1, <3>1, <3>3 DEF Shows, GoneIsListed, PassedIsMissed, EachOnce
    <3> QED
      BY <1>1, <2>1, <3>1, <3>2, <3>4 DEF JobInv, JobTypes, JobFree, JobDone, JobTaken
  <2>3. CASE fs_lock # "FINISHED"
    <3>1. UNCHANGED <<fp, fs_lock>>
      BY <1>3, <2>3
    <3> QED
      BY <1>1, <2>1, <2>3, <3>1
      DEF JobInv, JobTypes, JobFree, JobDone, JobTaken, Shows, GoneIsListed, PassedIsMissed, Fresh, AtWork
  <2> QED
    BY <2>2, <2>3
<1> QED
  BY <1>2, <1>3

LEMMA JobCleanUp == ASSUME JobInv, Jobs!CleanUp PROVE JobInv'
<1> USE DEF Jobs!CleanUp
<1>1. JobTypes /\ JobFree /\ JobDone /\ JobTaken /\ Shows
  BY DEF JobInv
<1>2. /\ pos \in 1 .. Len(fp) /\ pos' = pos + 1
      /\ UNCHANGED <<fs_lock, worker, at, windows, files>>
  BY <1>1, LenProperties DEF JobTypes
<1>3. fs_lock # "NONE" /\ Len(fp) \in Nat
  BY <1>1, <1>2, LenProperties DEF JobFree, JobTypes
<1>4. CASE fp[pos].state = "FINISHED"
  <2>1. /\ fp' = [fp EXCEPT ![pos].state = "CLEANED"]
        /\ missed' = missed \ {fp[pos].name} /\ detached' \subseteq detached
        /\ tree' = IF fp[pos].name \in tree THEN tree \cap files ELSE tree
    BY <1>4
  <2>2. /\ fp' \in Seq(Entry) /\ Len(fp') = Len(fp)
        /\ fp'[pos] = [name |-> fp[pos].name, state |-> "CLEANED"]
        /\ \A i \in 1 .. Len(fp) : i # pos => fp'[i] = fp[i]
    BY <1>1, <1>2, <2>1, SetState DEF JobTypes, States
  <2> HIDE DEF Jobs!CleanUp
  <2>3. JobTypes'
    BY <1>1, <1>2, <2>1, <2>2 DEF JobTypes
  <2>4. JobDone'
    BY <1>1, <1>2, <2>2 DEF JobDone, Done, JobTypes
  <2>5. JobTaken'
    <3>1. CASE fs_lock \in {"COPY", "UNLINK"}
      <4>1. AtWork /\ windows \cap Asked = {} /\ worker # "none"
        <5>1. worker # "none"
          BY <1>1, <1>2, <1>4, <3>1 DEF JobTaken, Fresh
        <5> QED
          BY <1>1, <3>1, <5>1 DEF JobTaken
      <4>2. fp'[pos].state = "CLEANED"
        BY <2>2
      <4>3. AtWork'
        BY <1>2, <1>4, <2>2, <4>1, <4>2 DEF AtWork
      <4> QED
        BY <1>2, <4>1, <4>3 DEF JobTaken
    <3>2. CASE fs_lock \notin {"COPY", "UNLINK"}
      BY <1>2, <3>2 DEF JobTaken
    <3> QED
      BY <3>1, <3>2
  <2>6. GoneIsListed'
    <3> SUFFICES ASSUME NEW f \in tree', f \notin files
                 PROVE  f \in missed' \/ \E i \in 1 .. Len(fp') : fp'[i] = [name |-> f, state |-> "FINISHED"]
      BY <1>2 DEF GoneIsListed
    <3>1. fp[pos].name \notin tree /\ f \in tree
      BY <2>1
    <3>2. CASE f \in missed
      BY <2>1, <3>1, <3>2
    <3>3. CASE f \notin missed
      <4>1. PICK i \in 1 .. Len(fp) : fp[i] = [name |-> f, state |-> "FINISHED"]
        BY <1>1, <3>1, <3>3 DEF Shows, GoneIsListed
      <4>2. i # pos
        BY <3>1, <4>1
      <4> QED
        BY <2>2, <4>1, <4>2
    <3> QED
      BY <3>2, <3>3
  <2>7. PassedIsMissed'
    <3> SUFFICES ASSUME NEW i \in 1 .. Len(fp'), i < pos', fp'[i].state = "FINISHED"
                 PROVE  fp'[i].name \in missed'
      BY DEF PassedIsMissed
    <3>1. i # pos /\ i < pos /\ fp'[i] = fp[i] /\ i \in 1 .. Len(fp)
      BY <1>2, <1>3, <2>2
    <3>2. fp[i].name \in missed /\ fp[i].name # fp[pos].name
      BY <1>1, <1>2, <3>1 DEF Shows, PassedIsMissed, EachOnce
    <3> QED
      BY <2>1, <3>1, <3>2
  <2>8. EachOnce(fp')
    <3>1. \A i \in 1 .. Len(fp) : fp'[i].name = fp[i].name
      BY <2>2
    <3> QED
      BY <1>1, <2>2, <3>1 DEF Shows, EachOnce
  <2> QED
    BY <1>2, <1>3, <2>3, <2>4, <2>5, <2>6, <2>7, <2>8 DEF JobInv, JobFree, Shows
<1>5. CASE fp[pos].state # "FINISHED"
  <2>1. UNCHANGED <<fp, detached, tree, missed>>
    BY <1>5
  <2> HIDE DEF Jobs!CleanUp
  <2>2. JobDone'
    BY <1>1, <1>2, <1>5, <2>1 DEF JobDone, Done, JobTypes
  <2>3. JobTypes' /\ JobFree' /\ JobTaken'
    BY <1>1, <1>2, <1>3, <2>1 DEF JobTypes, JobFree, JobTaken, Fresh, AtWork
  <2>4. PassedIsMissed'
    BY <1>1, <1>2, <1>3, <1>5, <2>1 DEF Shows, PassedIsMissed
  <2>5. GoneIsListed' /\ EachOnce(fp')
    BY <1>1, <1>2, <2>1 DEF Shows, GoneIsListed
  <2> QED
    BY <2>2, <2>3, <2>4, <2>5 DEF JobInv, Shows
<1> QED
  BY <1>4, <1>5

(* Whatever the thread does, a job is under way and none is asked for.     *)
LEMMA Working ==
  ASSUME JobInv, worker # "none"
  PROVE  fs_lock \in {"COPY", "UNLINK"} /\ AtWork /\ windows \cap Asked = {} /\ Len(fp) \in Nat
BY LenProperties DEF JobInv, JobTypes, JobFree, JobDone, JobTaken

LEMMA JobTake == ASSUME JobInv, Jobs!Take PROVE JobInv'
<1> USE DEF Jobs!Take, Jobs!State
<1>1. JobTypes /\ Shows
  BY DEF JobInv
<1>2. fs_lock \in {"COPY", "UNLINK"} /\ AtWork /\ windows \cap Asked = {} /\ Len(fp) \in Nat
  BY Working
<1>3. worker = "at" /\ at \in 1 .. Len(fp) /\ fp[at].state = "NONE"
  BY <1>2 DEF AtWork
<1>4. /\ fp' = [fp EXCEPT ![at].state = "INUSE"] /\ worker' = "in"
      /\ UNCHANGED <<fs_lock, pos, windows, at, detached, tree, files, missed>>
  OBVIOUS
<1>5. /\ fp' \in Seq(Entry) /\ Len(fp') = Len(fp)
      /\ fp'[at] = [name |-> fp[at].name, state |-> "INUSE"]
      /\ \A i \in 1 .. Len(fp) : i # at => fp'[i] = fp[i]
  <2>1. fp \in Seq(Entry) /\ "INUSE" \in States
    BY <1>1 DEF JobTypes, States
  <2> HIDE DEF Jobs!Take, Jobs!State
  <2> QED
    BY <1>3, <1>4, <2>1, SetState
<1> HIDE DEF Jobs!Take, Jobs!State
<1>6. JobTypes'
  BY <1>1, <1>4, <1>5 DEF JobTypes
<1>7. AtWork'
  BY <1>2, <1>3, <1>4, <1>5 DEF AtWork
<1>8. GoneIsListed'
  <2> SUFFICES ASSUME NEW f \in tree \ files
               PROVE  f \in missed \/ \E i \in 1 .. Len(fp') : fp'[i] = [name |-> f, state |-> "FINISHED"]
    BY <1>4 DEF GoneIsListed
  <2>1. CASE f \notin missed
    <3>1. PICK i \in 1 .. Len(fp) : fp[i] = [name |-> f, state |-> "FINISHED"]
      BY <1>1, <2>1 DEF Shows, GoneIsListed
    <3>2. i # at
      BY <1>3, <3>1
    <3> QED
      BY <1>5, <3>1, <3>2
  <2> QED
    BY <2>1
<1>9. \A i \in 1 .. Len(fp) : fp'[i].name = fp[i].name /\ (fp'[i].state = "FINISHED" => fp[i].state = "FINISHED")
  BY <1>5
<1>10. PassedIsMissed' /\ EachOnce(fp')
  BY <1>1, <1>4, <1>5, <1>9 DEF Shows, PassedIsMissed, EachOnce
<1> QED
  BY <1>2, <1>4, <1>6, <1>7, <1>8, <1>10 DEF JobInv, JobFree, JobDone, JobTaken, Shows

(* An entry is finished, whether its file was done or an error confirmed.  *)
LEMMA JobFinished ==
  ASSUME JobInv, worker \in {"in", "waits"}, Jobs!Finished,
         UNCHANGED <<fs_lock, pos, windows, detached, tree>>,
         files' = files \/ files' = files \ {fp[at].name}
  PROVE  JobInv'
<1> USE DEF Jobs!Finished, Jobs!State
<1>1. JobTypes /\ Shows
  BY DEF JobInv
<1>2. fs_lock \in {"COPY", "UNLINK"} /\ AtWork /\ windows \cap Asked = {} /\ Len(fp) \in Nat
  BY Working
<1>3. at \in 1 .. Len(fp)
  BY <1>2 DEF AtWork
<1>4. /\ fp' = [fp EXCEPT ![at].state = "FINISHED"] /\ worker' = "at" /\ at' = at + 1
      /\ missed' = IF pos > at THEN missed \cup {fp[at].name} ELSE missed
  OBVIOUS
<1>5. /\ fp' \in Seq(Entry) /\ Len(fp') = Len(fp)
      /\ fp'[at] = [name |-> fp[at].name, state |-> "FINISHED"]
      /\ \A i \in 1 .. Len(fp) : i # at => fp'[i] = fp[i]
  <2>1. fp \in Seq(Entry) /\ "FINISHED" \in States
    BY <1>1 DEF JobTypes, States
  <2> HIDE DEF Jobs!Finished, Jobs!State
  <2> QED
    BY <1>3, <1>4, <2>1, SetState
<1> HIDE DEF Jobs!Finished, Jobs!State
<1>6. JobTypes'
  BY <1>1, <1>3, <1>4, <1>5 DEF JobTypes
<1>7. AtWork'
  BY <1>2, <1>3, <1>4, <1>5 DEF AtWork
<1>8. GoneIsListed'
  <2> SUFFICES ASSUME NEW f \in tree, f \notin files'
               PROVE  f \in missed' \/ \E i \in 1 .. Len(fp') : fp'[i] = [name |-> f, state |-> "FINISHED"]
    BY DEF GoneIsListed
  <2>1. CASE f = fp[at].name
    BY <1>3, <1>5, <2>1
  <2>2. CASE f \in missed
    BY <1>4, <2>2
  <2>3. CASE f # fp[at].name /\ f \notin missed
    <3>1. f \in tree \ files
      BY <2>3
    <3>2. PICK i \in 1 .. Len(fp) : fp[i] = [name |-> f, state |-> "FINISHED"]
      BY <1>1, <2>3, <3>1 DEF Shows, GoneIsListed
    <3>3. i # at
      BY <2>3, <3>2
    <3> QED
      BY <1>5, <3>2, <3>3
  <2> QED
    BY <2>1, <2>2, <2>3
<1>9. \A i \in 1 .. Len(fp) : fp'[i].name = fp[i].name
  BY <1>5
<1>10. EachOnce(fp')
  BY <1>1, <1>5, <1>9 DEF Shows, EachOnce
<1>11. PassedIsMissed'
  <2> SUFFICES ASSUME NEW i \in 1 .. Len(fp), i < pos, fp'[i].state = "FINISHED"
               PROVE  fp[i].name \in missed'
    BY <1>5, <1>9 DEF PassedIsMissed
  <2>1. CASE i = at
    BY <1>3, <1>4, <2>1
  <2>2. CASE i # at
    <3>1. fp[i].name \in missed
      BY <1>1, <1>5, <2>2 DEF Shows, PassedIsMissed
    <3> QED
      BY <1>4, <3>1
  <2> QED
    BY <2>1, <2>2
<1> QED
  BY <1>2, <1>4, <1>6, <1>7, <1>8, <1>10, <1>11 DEF JobInv, JobFree, JobDone, JobTaken, Shows

LEMMA JobThread == ASSUME JobInv, Jobs!thread_start PROVE JobInv'
<1>1. CASE Jobs!Take
  BY <1>1, JobTake
<1>2. CASE Jobs!Works
  BY <1>2, JobFinished DEF Jobs!Works
<1>3. CASE Jobs!fs_error
  <2>1. worker = "in" /\ worker' = "waits" /\ UNCHANGED <<fs_lock, fp, pos, at, windows, detached, tree, files, missed>>
    BY <1>3 DEF Jobs!fs_error
  <2> QED
    BY <2>1 DEF JobInv, JobTypes, JobFree, JobDone, JobTaken, Shows, GoneIsListed, PassedIsMissed, Done, Fresh, AtWork
<1>4. CASE Jobs!Clear
  <2>1. CASE Jobs!Finished
    BY <1>4, <2>1, JobFinished DEF Jobs!Clear
  <2>2. CASE worker' = "in" /\ UNCHANGED <<fp, at, missed>>
    <3>1. worker = "waits" /\ UNCHANGED <<fs_lock, pos, windows, detached, tree, files>>
      BY <1>4 DEF Jobs!Clear
    <3> QED
      BY <2>2, <3>1 DEF JobInv, JobTypes, JobFree, JobDone, JobTaken, Shows, GoneIsListed, PassedIsMissed, Done, Fresh, AtWork
  <2> QED
    BY <1>4, <2>1, <2>2 DEF Jobs!Clear
<1>5. CASE Jobs!End
  <2>1. /\ worker = "at" /\ at > Len(fp)
        /\ fs_lock' = "FINISHED" /\ worker' = "none"
        /\ UNCHANGED <<fp, pos, at, windows, detached, tree, files, missed>>
    BY <1>5 DEF Jobs!End
  <2>2. AtWork /\ windows \cap Asked = {} /\ Len(fp) \in Nat
    BY <2>1, Working
  <2>3. Done'
    BY <2>1, <2>2 DEF Done, AtWork, JobInv, JobTypes
  <2> QED
    BY <2>1, <2>2, <2>3 DEF JobInv, JobTypes, JobFree, JobDone, JobTaken, Shows, GoneIsListed, PassedIsMissed
<1> QED
  BY <1>1, <1>2, <1>3, <1>4, <1>5 DEF Jobs!thread_start

LEMMA JobNextInv == JobInv /\ [Jobs!Next]_(Jobs!vars) => JobInv'
<1> SUFFICES ASSUME JobInv, [Jobs!Next]_(Jobs!vars) PROVE JobInv'
  OBVIOUS
<1> QED
  BY JobRest, JobWindow, JobMkdir, JobFs, JobAbort, JobFsani, JobCleanUp, JobThread
  DEF Jobs!Next, Jobs!window_fsani

(* s3dfm: nobody frees or replaces the list of a job while its thread      *)
(* works on it; a list has one owner at a time, the window that asks, the  *)
(* thread, or the main loop that frees it; and when no job is under way no *)
(* node is left of a file that is gone, but of those the thread was done   *)
(* with when the main loop had passed their entries. The thread takes the  *)
(* main loop at any place of its round, and a job may be asked for with    *)
(* nothing selected (src/apps/s3dfm/dialog.c and fs.c).                    *)
THEOREM JobsApart == Jobs!Spec => []JobsRunAlone
<1>1. JobInv => JobsRunAlone
  <2> SUFFICES ASSUME JobInv PROVE Jobs!JobsAreApart /\ Jobs!ListHasOwner
    BY DEF JobsRunAlone
  <2>1. JobTypes /\ JobFree /\ JobDone /\ JobTaken /\ Shows
    BY DEF JobInv
  <2>2. ASSUME fp # <<>> PROVE Jobs!ListHasOwner
    <3>1. CASE fs_lock = "FINISHED"
      BY <2>1, <3>1 DEF Jobs!ListHasOwner, JobDone, Asked
    <3>2. CASE fs_lock \in {"COPY", "UNLINK"} /\ worker = "none"
      <4>1. windows \cap Asked = {"job"}
        BY <2>1, <2>2, <3>2 DEF JobTaken
      <4> QED
        BY <3>2, <4>1 DEF Jobs!ListHasOwner
    <3>3. CASE fs_lock \in {"COPY", "UNLINK"} /\ worker # "none"
      BY <2>1, <3>3 DEF Jobs!ListHasOwner, JobTaken, Asked
    <3> QED
      BY <2>1, <2>2, <3>1, <3>2, <3>3 DEF JobTypes, JobFree
  <2>3. Jobs!ListHasOwner
    BY <2>2 DEF Jobs!ListHasOwner, Jobs!NoList
  <2>4. ASSUME worker \in {"in", "waits"} PROVE at \in DOMAIN fp /\ fp[at].state = "INUSE"
    BY <2>1, <2>4, Working DEF AtWork, JobTypes
  <2>5. ASSUME fs_lock = "NONE" PROVE worker = "none" /\ tree \subseteq files \cup missed
    BY <2>1, <2>5 DEF JobFree, Shows, GoneIsListed
  <2> QED
    BY <2>3, <2>4, <2>5 DEF Jobs!JobsAreApart
<1> QED
  BY <1>1, JobInit, JobNextInv, PTL DEF Jobs!Spec

-----------------------------------------------------------------------------
(* Terminal: what a character does keeps the cursor on the screen, and the *)
(* painter shows what the thread writes.                                   *)
Screen == [Vt!Rows -> [Vt!Cols -> Nat]]
St == [l : Screen, x : Vt!Cols, y : Vt!Rows, top : Vt!Rows, bottom : Vt!Rows, new : BOOLEAN]

LEMMA Sizes ==
  /\ MAX_LINES \in Nat \ {0} /\ MAX_CHARS \in Nat \ {0}
  /\ \A r : r \in Vt!Rows <=> r \in Nat /\ r < MAX_LINES
  /\ \A c : c \in Vt!Cols <=> c \in Nat /\ c < MAX_CHARS
BY ScreenAssumption DEF Vt!Rows, Vt!Cols

(* A state with other lines or another cursor.                             *)
LEMMA Placed ==
  ASSUME NEW st \in St
  PROVE  /\ \A m \in Screen : [st EXCEPT !.l = m] \in St
         /\ \A c \in Vt!Cols : [st EXCEPT !.x = c] \in St
         /\ \A r \in Vt!Rows : [st EXCEPT !.y = r] \in St
         /\ \A r \in Vt!Rows, c \in Vt!Cols : [st EXCEPT !.y = r, !.x = c] \in St
         /\ \A m \in Screen, r \in Vt!Rows, c \in Vt!Cols, b \in BOOLEAN :
              [st EXCEPT !.y = r, !.x = c, !.l = m, !.new = b] \in St
         /\ \A b \in BOOLEAN : [st EXCEPT !.new = b] \in St
BY DEF St

LEMMA Times == ASSUME NEW a \in Int, NEW m \in Int PROVE (a - 1) * m = a * m - m /\ a * m \in Int
OBVIOUS

LEMMA LineFullIn ==
  ASSUME NEW st \in St PROVE Vt!line_is_full(st) \in St
<1>1. st.l \in Screen /\ st.y \in Vt!Rows
  BY DEF St
<1>2. Vt!move_all_lines_up(st.l) \in Screen
  <2>1. ASSUME NEW r \in Vt!Rows, r < MAX_LINES - 1 PROVE st.l[r + 1] \in [Vt!Cols -> Nat]
    <3>1. r + 1 \in Vt!Rows
      BY <2>1, Sizes
    <3> QED
      BY <1>1, <3>1 DEF Screen
  <2>2. [c \in Vt!Cols |-> 0] \in [Vt!Cols -> Nat]
    OBVIOUS
  <2> QED
    BY <2>1, <2>2 DEF Vt!move_all_lines_up, Screen
<1>3. 0 \in Vt!Cols /\ MAX_LINES - 1 \in Vt!Rows
  BY Sizes
<1>4. CASE st.y + 1 >= MAX_LINES
  BY <1>2, <1>3, <1>4, Placed DEF Vt!line_is_full
<1>5. CASE ~ (st.y + 1 >= MAX_LINES)
  <2>1. st.y + 1 \in Vt!Rows
    BY <1>1, <1>5, Sizes
  <2> QED
    BY <1>1, <1>3, <1>5, <2>1, Placed DEF Vt!line_is_full
<1> QED
  BY <1>4, <1>5

LEMMA AppendIn ==
  ASSUME NEW st \in St, NEW toappend \in Chars PROVE Vt!add_char_append(st, toappend) \in St
<1> DEFINE d == Vt!line_is_full(st)
<1>1. d \in St /\ toappend \in Nat
  BY LineFullIn, ScreenAssumption
<1> HIDE DEF d
<1>2. CASE st.x = MAX_CHARS - 1
  <2>1. [d EXCEPT !.l[d.y][0] = toappend] \in St
    BY <1>1, Sizes DEF St, Screen
  <2> QED
    BY <1>2, <2>1 DEF d, Vt!add_char_append
<1>3. CASE st.x # MAX_CHARS - 1
  <2> DEFINE e == [st EXCEPT !.l[st.y][st.x] = toappend]
  <2>1. e \in St /\ e.x = st.x
    BY <1>1 DEF St, Screen
  <2>2. st.x + 1 \in Vt!Cols
    BY <1>3, Sizes DEF St
  <2>3. [e EXCEPT !.x = st.x + 1] \in St
    <3> HIDE DEF e
    <3> QED
      BY <2>1, <2>2, Placed DEF St
  <2> QED
    BY <1>3, <2>3 DEF d, Vt!add_char_append
<1> QED
  BY <1>2, <1>3

LEMMA RightIn ==
  ASSUME NEW st \in St, NEW n \in Nat PROVE Vt!Right(st, n) \in St
<1> DEFINE R(t) == IF t.x + 1 = MAX_CHARS THEN Vt!line_is_full(t) ELSE [t EXCEPT !.x = @ + 1]
           G == [t \in St |-> R(t)]
           walk == CHOOSE walk : walk = [k \in 0 .. n |->
                   IF k = 0 THEN st
                   ELSE IF walk[k - 1].x + 1 = MAX_CHARS THEN Vt!line_is_full(walk[k - 1])
                   ELSE [walk[k - 1] EXCEPT !.x = @ + 1]]
<1>1. Vt!Right(st, n) = walk[n]
  BY DEF Vt!Right
<1>2. \A t \in St : R(t) \in St
  <2> SUFFICES ASSUME NEW t \in St, t.x + 1 # MAX_CHARS PROVE [t EXCEPT !.x = @ + 1] \in St
    BY LineFullIn
  <2>1. t.x + 1 \in Vt!Cols
    BY Sizes DEF St
  <2> QED
    BY <2>1, Placed
<1>3. walk = [k \in 0 .. n |-> IF k = 0 THEN st ELSE R(walk[k - 1])]
  <2> HIDE DEF R
  <2>1. G \in [St -> St]
    BY <1>2
  <2>2. \A t \in St : G[t] = R(t)
    OBVIOUS
  <2> HIDE DEF G
  <2>7. Walks(St, G, st)
    BY <2>1, Walk
  <2>3. PICK f \in [0 .. n -> St] : f[0] = st /\ \A k \in 1 .. n : f[k] = G[f[k - 1]]
    BY <2>7 DEF Walks
  <2>4. \A k \in 1 .. n : f[k] = R(f[k - 1])
    BY <2>2, <2>3
  <2>5. f = [k \in 0 .. n |-> IF k = 0 THEN st ELSE R(f[k - 1])]
    BY <2>3, <2>4
  <2> USE DEF R
  <2>6. \E g : g = [k \in 0 .. n |->
                   IF k = 0 THEN st
                   ELSE IF g[k - 1].x + 1 = MAX_CHARS THEN Vt!line_is_full(g[k - 1])
                   ELSE [g[k - 1] EXCEPT !.x = @ + 1]]
    BY <2>5
  <2> QED
    BY <2>6, Zenon
<1> HIDE DEF walk, R
<1> DEFINE T == {k \in Nat : k <= n => walk[k] \in St}
<1>4. 0 \in T
  BY <1>3
<1>5. ASSUME NEW k \in Nat, k \in T PROVE k + 1 \in T
  BY <1>2, <1>3, <1>5
<1>6. Nat \subseteq T
  <2> HIDE DEF T
  <2> QED
    BY <1>4, <1>5, SetInduction
<1> QED
  BY <1>1, <1>6

(* To the left over the beginning of a line: as far as the cursor has come *)
(* from the first one.                                                     *)
LEMMA LeftIn ==
  ASSUME NEW st \in St, NEW n \in Nat, n <= st.x + st.y * MAX_CHARS PROVE Vt!Left(st, n) \in St
<1> DEFINE Out == [l : Screen, x : Vt!Cols, y : Int, top : Vt!Rows, bottom : Vt!Rows, new : BOOLEAN]
           R(t) == IF t.x = 0 THEN [t EXCEPT !.x = MAX_CHARS - 1, !.y = @ - 1]
                   ELSE [t EXCEPT !.x = @ - 1]
           G == [t \in Out |-> R(t)]
           walk == CHOOSE walk : walk = [k \in 0 .. n |->
                   IF k = 0 THEN st
                   ELSE IF walk[k - 1].x = 0 THEN [walk[k - 1] EXCEPT !.x = MAX_CHARS - 1, !.y = @ - 1]
                   ELSE [walk[k - 1] EXCEPT !.x = @ - 1]]
           Far(t) == t.x + t.y * MAX_CHARS
<1>1. Vt!Left(st, n) = walk[n]
  BY DEF Vt!Left
<1>2. \A t \in Out : R(t) \in Out /\ Far(R(t)) = Far(t) - 1 /\ R(t).y <= t.y
  <2> SUFFICES ASSUME NEW t \in Out PROVE R(t) \in Out /\ Far(R(t)) = Far(t) - 1 /\ R(t).y <= t.y
    OBVIOUS
  <2>1. CASE t.x = 0
    <3>1. MAX_CHARS - 1 \in Vt!Cols /\ t.y - 1 \in Int
      BY Sizes
    <3>2. [t EXCEPT !.x = MAX_CHARS - 1, !.y = @ - 1] \in Out
      BY <3>1
    <3>3. R(t).x = MAX_CHARS - 1 /\ R(t).y = t.y - 1 /\ R(t) \in Out
      BY <2>1, <3>2
    <3> HIDE DEF R
    <3>4. (t.y - 1) * MAX_CHARS = t.y * MAX_CHARS - MAX_CHARS /\ t.y * MAX_CHARS \in Int /\ MAX_CHARS \in Int /\ t.y \in Int
      BY Times, Sizes
    <3> HIDE DEF Out
    <3> QED
      BY <2>1, <3>3, <3>4
  <2>2. CASE t.x # 0
    <3>1. R(t).x = t.x - 1 /\ R(t).y = t.y /\ R(t) \in Out
      BY <2>2, Sizes
    <3> QED
      BY <2>2, <3>1, Sizes
  <2> QED
    BY <2>1, <2>2
<1>3. st \in Out
  BY Sizes DEF St
<1>4. walk = [k \in 0 .. n |-> IF k = 0 THEN st ELSE R(walk[k - 1])]
  <2> HIDE DEF R, Out, Far
  <2>1. G \in [Out -> Out]
    BY <1>2
  <2>2. \A t \in Out : G[t] = R(t)
    OBVIOUS
  <2> HIDE DEF G
  <2>7. Walks(Out, G, st)
    BY <1>3, <2>1, Walk
  <2>3. PICK f \in [0 .. n -> Out] : f[0] = st /\ \A k \in 1 .. n : f[k] = G[f[k - 1]]
    BY <2>7 DEF Walks
  <2>4. \A k \in 1 .. n : f[k] = R(f[k - 1])
    BY <2>2, <2>3
  <2>5. f = [k \in 0 .. n |-> IF k = 0 THEN st ELSE R(f[k - 1])]
    BY <2>3, <2>4
  <2> USE DEF R
  <2>6. \E g : g = [k \in 0 .. n |->
                   IF k = 0 THEN st
                   ELSE IF g[k - 1].x = 0 THEN [g[k - 1] EXCEPT !.x = MAX_CHARS - 1, !.y = @ - 1]
                   ELSE [g[k - 1] EXCEPT !.x = @ - 1]]
    BY <2>5
  <2> QED
    BY <2>6, Zenon
<1> HIDE DEF walk, R, Out
<1> DEFINE T == {k \in Nat : k <= n => walk[k] \in Out /\ Far(walk[k]) = Far(st) - k /\ walk[k].y <= st.y}
<1>5. st.y \in Nat /\ Far(st) \in Nat
  BY Sizes DEF St
<1> HIDE DEF Far
<1>6. 0 \in T
  BY <1>3, <1>4, <1>5
<1>7. ASSUME NEW k \in Nat, k \in T PROVE k + 1 \in T
  <2> SUFFICES ASSUME k + 1 <= n
               PROVE  walk[k + 1] \in Out /\ Far(walk[k + 1]) = Far(st) - (k + 1) /\ walk[k + 1].y <= st.y
    OBVIOUS
  <2>1. walk[k] \in Out /\ Far(walk[k]) = Far(st) - k /\ walk[k].y <= st.y
    BY <1>7
  <2>2. walk[k + 1] = R(walk[k])
    BY <1>4
  <2>3. walk[k].y \in Int /\ walk[k + 1].y \in Int
    BY <1>2, <2>1, <2>2 DEF Out
  <2> QED
    BY <1>2, <1>5, <2>1, <2>2, <2>3
<1>8. Nat \subseteq T
  <2> HIDE DEF T
  <2> QED
    BY <1>6, <1>7, SetInduction
<1>9. walk[n] \in Out /\ Far(walk[n]) \in Nat /\ walk[n].y <= st.y
  <2>1. n \in T
    BY <1>8
  <2>2. Far(st) - n \in Nat
    BY <1>5 DEF Far
  <2> QED
    BY <2>1, <2>2
<1>10. walk[n].y \in Vt!Rows
  <2>1. walk[n].x \in Nat /\ walk[n].x < MAX_CHARS /\ walk[n].y \in Int
    BY <1>9, Sizes DEF Out
  <2>2. walk[n].y < 0 => walk[n].y * MAX_CHARS <= -MAX_CHARS
    BY <2>1, Sizes
  <2>3. walk[n].y >= 0
    BY <1>9, <2>1, <2>2, Sizes DEF Far
  <2>4. st.y < MAX_LINES
    BY Sizes DEF St
  <2> QED
    BY <1>5, <1>9, <2>1, <2>3, <2>4, Sizes
<1> QED
  BY <1>1, <1>9, <1>10 DEF Out, St
LEMMA ClearedIn == ASSUME NEW st \in St, NEW cells PROVE Vt!Cleared(st, cells) \in St
<1>1. [r \in Vt!Rows |-> [c \in Vt!Cols |-> IF <<r, c>> \in cells THEN 0 ELSE st.l[r][c]]] \in Screen
  BY DEF St, Screen
<1> QED
  BY <1>1, Placed DEF Vt!Cleared

LEMMA LinesIn ==
  ASSUME NEW st \in St, NEW n \in Nat, st.y + st.bottom - st.top < MAX_LINES
  PROVE  Vt!LinesUp(st, n) \in St /\ Vt!LinesDown(st, n) \in St
<1> DEFINE e == st.y + st.bottom - st.top
<1>1. st.l \in Screen /\ st.y \in Nat /\ e \in Int /\ e < MAX_LINES
  BY Sizes DEF St
<1>2. [r \in Vt!Rows |-> IF r < st.y \/ r >= e THEN st.l[r]
                        ELSE st.l[IF r + n <= e THEN r + n ELSE e]] \in Screen
  <2>1. ASSUME NEW r \in Vt!Rows, ~ (r < st.y \/ r >= e)
        PROVE  (IF r + n <= e THEN r + n ELSE e) \in Vt!Rows
    <3> HIDE DEF e
    <3> QED
      BY <1>1, <2>1, Sizes
  <2> HIDE DEF e
  <2> QED
    BY <1>1, <2>1 DEF Screen
<1>3. [r \in Vt!Rows |-> IF r <= st.y \/ r > e THEN st.l[r]
                        ELSE st.l[IF r - n >= st.y THEN r - n ELSE st.y]] \in Screen
  <2>1. ASSUME NEW r \in Vt!Rows, ~ (r <= st.y \/ r > e)
        PROVE  (IF r - n >= st.y THEN r - n ELSE st.y) \in Vt!Rows
    <3> HIDE DEF e
    <3> QED
      BY <1>1, <2>1, Sizes
  <2> HIDE DEF e
  <2> QED
    BY <1>1, <2>1 DEF Screen
<1>4. Vt!LinesUp(st, n) \in St
  BY <1>2, Placed DEF Vt!LinesUp
<1> QED
  BY <1>3, <1>4, Placed DEF Vt!LinesDown

(* What a program that knows the size of the screen may send.              *)
LEMMA FinalIn ==
  ASSUME s \in St, args \in Nat \X Nat, NEW b \in Vt!Finals, Vt!Sane(b)
  PROVE  Vt!Final(s, b, args) \in St
<1>1. /\ s.x \in Nat /\ s.y \in Nat /\ s.top \in Nat /\ s.bottom \in Nat
      /\ s.x < MAX_CHARS /\ s.y < MAX_LINES /\ s.top < MAX_LINES /\ s.bottom < MAX_LINES
      /\ args[1] \in Nat /\ args[2] \in Nat
  BY Sizes DEF St
<1> DEFINE n == Vt!Or(args[1], 1)
<1>2. n \in Nat \ {0} /\ Vt!Or(args[2], 1) \in Nat \ {0} /\ (n = args[1] \/ n = 1)
      /\ (Vt!Or(args[2], 1) = args[2] \/ Vt!Or(args[2], 1) = 1)
  BY <1>1 DEF Vt!Or
<1> HIDE DEF n
<1>3. CASE b \in {"K", "P"}
  BY <1>3, ClearedIn DEF Vt!Final
<1>13. CASE b = "J"
  <2> DEFINE d == Vt!Cleared(s, {rc \in Vt!Rows \X Vt!Cols : rc[1] > s.y \/ (rc[1] = s.y /\ rc[2] >= s.x)})
  <2>1. d \in St
    BY ClearedIn
  <2>2. Vt!Final(s, b, args) = [d EXCEPT !.new = TRUE]
    BY <1>13 DEF Vt!Final
  <2> HIDE DEF d
  <2> QED
    BY <2>1, <2>2, Placed
<1>4. CASE b = "H"
  <2>1. n - 1 \in Vt!Rows /\ Vt!Or(args[2], 1) - 1 \in Vt!Cols
    BY <1>1, <1>2, <1>4, Sizes DEF Vt!Sane
  <2> QED
    BY <1>4, <2>1, Placed DEF Vt!Final, n
<1>5. CASE b = "G"
  <2>1. args[1] - 1 \in Vt!Cols /\ s.bottom - 1 \in Vt!Rows
    BY <1>1, <1>5, Sizes DEF Vt!Sane
  <2>2. Vt!Final(s, b, args) = [s EXCEPT !.x = args[1] - 1, !.y = s.bottom - 1]
    BY <1>5 DEF Vt!Final
  <2> QED
    BY <2>1, <2>2 DEF St
<1>6. CASE b = "d"
  <2>1. s.top + n - 1 \in Vt!Rows /\ MAX_CHARS - 1 \in Vt!Cols
    BY <1>1, <1>2, <1>6, Sizes DEF Vt!Sane, n
  <2> QED
    BY <1>6, <2>1, Placed DEF Vt!Final, n
<1>7. CASE b = "r"
  <2>1. args[1] \in Vt!Rows /\ args[2] \in Vt!Rows /\ 0 \in Vt!Rows /\ 0 \in Vt!Cols
    BY <1>1, <1>7, Sizes DEF Vt!Sane
  <2>2. Vt!Final(s, b, args) = [s EXCEPT !.top = args[1], !.bottom = args[2], !.x = 0, !.y = 0]
    BY <1>7 DEF Vt!Final
  <2> QED
    BY <2>1, <2>2 DEF St
<1>8. CASE b \in {"M", "L"}
  BY <1>1, <1>8, LinesIn DEF Vt!Final, Vt!Sane
<1>9. CASE b = "A"
  <2>1. s.y - 1 \in Vt!Rows
    BY <1>1, <1>9, Sizes DEF Vt!Sane
  <2> QED
    BY <1>9, <2>1, Placed DEF Vt!Final
<1>10. CASE b \in {"B", "m"}
  BY <1>10, LineFullIn DEF Vt!Final
<1>11. CASE b = "C"
  BY <1>2, <1>11, RightIn DEF Vt!Final, n
<1>12. CASE b = "D"
  BY <1>2, <1>12, LeftIn DEF Vt!Final, Vt!Sane, n
<1> QED
  BY <1>3, <1>4, <1>5, <1>6, <1>7, <1>8, <1>9, <1>10, <1>11, <1>12, <1>13 DEF Vt!Finals

(* A cell is shown as it was compared, or it was erased.                   *)
VtTypes ==
  /\ s \in St /\ args \in Nat \X Nat /\ shown \in Screen /\ last_c \in Screen
  /\ row \in -1 .. MAX_LINES /\ col \in Vt!Cols /\ ch \in Nat \union {-1}
  /\ row \notin Vt!Rows => col = 0 /\ ch = -1
Compared == \A r \in Vt!Rows, c \in Vt!Cols : shown[r][c] = last_c[r][c] \/ shown[r][c] = 0

(* The cells that the painter has passed agree with the lines, unless the  *)
(* thread came behind it, and so does what it has read of the next one.    *)
Agrees(r, c) == shown[r][c] = s.l[r][c] \/ (shown[r][c] = 0 /\ last_c[r][c] = s.l[r][c])
Stored(r, c) == r < row \/ (r = row /\ c < col)
Passed ==
  /\ \A r \in Vt!Rows, c \in Vt!Cols : Stored(r, c) => <<r, c>> \in late \/ Agrees(r, c)
  /\ ch # -1 => <<row, col>> \in late \/ s.l[row][col] = ch
AtRest ==
  thread = "read" /\ ~s.new /\ row = -1 =>
    \A r \in Vt!Rows, c \in Vt!Cols : <<r, c>> \in late \/ Agrees(r, c)
VtInv == VtTypes /\ Compared /\ Passed /\ AtRest

LEMMA VtInit == Vt!Init => VtInv
<1> SUFFICES ASSUME Vt!Init PROVE VtInv
  OBVIOUS
<1> USE DEF Vt!Init
<1>1. Vt!Blank \in Screen
  BY Sizes DEF Vt!Blank, Screen
<1>2. s \in St
  BY <1>1, Sizes DEF St
<1>3. VtTypes
  BY <1>1, <1>2, Sizes DEF VtTypes
<1>4. Compared /\ AtRest
  BY DEF Compared, AtRest
<1>5. Passed
  BY Sizes DEF Passed, Stored
<1> QED
  BY <1>3, <1>4, <1>5 DEF VtInv

LEMMA VtAdds == ASSUME VtInv, Vt!AddChar PROVE VtInv'
<1>1. /\ thread = "add" /\ (Vt!Plain \/ Vt!Sequence)
      /\ late' = late \cup {rc \in Vt!Rows \X Vt!Cols :
                              Vt!Behind(rc[1], rc[2]) /\ s'.l[rc[1]][rc[2]] # s.l[rc[1]][rc[2]]}
      /\ UNCHANGED <<thread, row, col, ch, last_c, shown>>
  BY DEF Vt!AddChar, Vt!painter
<1>2. s \in St /\ args \in Nat \X Nat /\ VtTypes
  BY DEF VtInv, VtTypes
<1>3. s' \in St /\ args' \in Nat \X Nat
  <2>1. CASE Vt!Plain
    <3>1. ASSUME NEW st, NEW e, Vt!Becomes(st, e, args), st \in St PROVE s' \in St /\ args' \in Nat \X Nat
      BY <1>2, <3>1 DEF Vt!Becomes
    <3>2. [s EXCEPT !.x = IF @ > 0 THEN @ - 1 ELSE 0] \in St
      <4>1. (IF s.x > 0 THEN s.x - 1 ELSE 0) \in Vt!Cols
        BY <1>2, Sizes DEF St
      <4> QED
        BY <1>2, <4>1, Placed
    <3>3. [s EXCEPT !.x = 0] \in St
      <4>1. 0 \in Vt!Cols
        BY Sizes
      <4> QED
        BY <1>2, <4>1, Placed
    <3>4. (IF s.x = MAX_CHARS - 1 THEN Vt!line_is_full(s) ELSE [s EXCEPT !.x = 0]) \in St
      BY <1>2, <3>3, LineFullIn
    <3> QED
      BY <1>2, <2>1, <3>1, <3>2, <3>4, LineFullIn, AppendIn DEF Vt!Plain
  <2>2. CASE Vt!Sequence
    <3>1. ASSUME NEW st, NEW e, NEW a, Vt!Becomes(st, e, a), st \in St, a \in Nat \X Nat
          PROVE  s' \in St /\ args' \in Nat \X Nat
      BY <3>1 DEF Vt!Becomes
    <3>2. \A d \in Digits : <<d, 0>> \in Nat \X Nat /\ <<args[1], d>> \in Nat \X Nat
      BY <1>2, ScreenAssumption
    <3>3. \A b \in Vt!Finals : Vt!Sane(b) => Vt!Final(s, b, args) \in St
      BY <1>2, FinalIn
    <3>4. <<0, 0>> \in Nat \X Nat
      OBVIOUS
    <3> QED
      BY <1>2, <2>2, <3>1, <3>2, <3>3, <3>4 DEF Vt!Sequence
  <2> QED
    BY <1>1, <2>1, <2>2
<1>4. VtTypes' /\ Compared' /\ AtRest'
  BY <1>1, <1>2, <1>3 DEF VtInv, VtTypes, Compared, AtRest
<1>5. ASSUME NEW r \in Vt!Rows, NEW c \in Vt!Cols, Vt!Behind(r, c), <<r, c>> \notin late'
      PROVE  s'.l[r][c] = s.l[r][c] /\ <<r, c>> \notin late
  BY <1>1, <1>5
<1>6. ASSUME NEW r \in Vt!Rows, NEW c \in Vt!Cols, Stored(r, c)
      PROVE  <<r, c>> \in late' \/ Agrees(r, c)'
  <2>1. Vt!Behind(r, c)
    BY <1>6 DEF Stored, Vt!Behind
  <2>2. CASE <<r, c>> \notin late'
    <3>1. s'.l[r][c] = s.l[r][c] /\ <<r, c>> \notin late
      BY <1>5, <2>1, <2>2
    <3> QED
      BY <1>1, <1>6, <3>1 DEF VtInv, Passed, Agrees
  <2> QED
    BY <2>2
<1>7. ASSUME ch # -1
      PROVE  <<row, col>> \in late' \/ s'.l[row][col] = ch
  <2>1. row \in Vt!Rows /\ col \in Vt!Cols
    BY <1>2, <1>7 DEF VtTypes
  <2>2. Vt!Behind(row, col)
    BY <1>7 DEF Vt!Behind
  <2> QED
    BY <1>5, <1>7, <2>1, <2>2 DEF VtInv, Passed
<1>8. Passed'
  BY <1>1, <1>6, <1>7 DEF Passed, Stored
<1> QED
  BY <1>4, <1>8 DEF VtInv

(* The painter reads a cell ...                                            *)
LEMMA VtCompares == ASSUME VtInv, Vt!Compare PROVE VtInv'
<1>1. /\ row \in Vt!Rows /\ ch' = s.l[row][col]
      /\ UNCHANGED <<s, args, thread, row, col, last_c, shown, late>>
  BY DEF Vt!Compare, Vt!reader
<1>2. VtTypes /\ Compared /\ Passed /\ AtRest
  BY DEF VtInv
<1>3. s.l[row][col] \in Nat
  BY <1>1, <1>2 DEF VtTypes, St, Screen
<1>4. VtTypes'
  BY <1>1, <1>2, <1>3 DEF VtTypes
<1>5. Compared' /\ AtRest'
  BY <1>1, <1>2 DEF Compared, AtRest, Agrees
<1>6. Passed'
  BY <1>1, <1>2 DEF Passed, Agrees, Stored
<1> QED
  BY <1>4, <1>5, <1>6 DEF VtInv

(* ... and shows it, or erases it where the line has become shorter.       *)
LEMMA VtStores == ASSUME VtInv, Vt!Store PROVE VtInv'
<1>1. VtTypes /\ Compared /\ Passed /\ ch # -1
  BY DEF VtInv, Vt!Store
<1>2. row \in Vt!Rows /\ col \in Vt!Cols /\ ch \in Nat
  BY <1>1 DEF VtTypes
<1>3. /\ s' = IF Vt!Erased THEN [s EXCEPT !.l[row][col] = 0] ELSE s
      /\ shown' = IF Vt!Changed THEN [shown EXCEPT ![row][col] = IF Vt!Erased THEN 0 ELSE ch] ELSE shown
      /\ last_c' = [last_c EXCEPT ![row][col] = ch]
      /\ UNCHANGED <<thread, args, late>>
      /\ Vt!NextCell
  BY DEF Vt!Store
<1>4. ch' = -1 /\ row' \in -1 .. MAX_LINES /\ row' # -1 /\ col' \in Vt!Cols /\ (row' \notin Vt!Rows => col' = 0)
  BY <1>2, <1>3, Sizes DEF Vt!NextCell
<1>5. \A r \in Vt!Rows, c \in Vt!Cols : Stored(r, c)' => Stored(r, c) \/ (r = row /\ c = col)
  BY <1>2, <1>3, Sizes DEF Vt!NextCell, Stored
<1>6. s.l \in Screen /\ shown \in Screen /\ last_c \in Screen
  BY <1>1 DEF VtTypes, St
<1>7. /\ s'.l \in Screen /\ s' \in St
      /\ s'.l[row][col] = IF Vt!Erased THEN 0 ELSE s.l[row][col]
      /\ \A r \in Vt!Rows, c \in Vt!Cols : r # row \/ c # col => s'.l[r][c] = s.l[r][c]
  <2>1. CASE Vt!Erased
    <3> DEFINE m == [s.l EXCEPT ![row] = [s.l[row] EXCEPT ![col] = 0]]
    <3>1. /\ m \in Screen /\ m[row][col] = 0
          /\ \A r \in Vt!Rows, c \in Vt!Cols : r # row \/ c # col => m[r][c] = s.l[r][c]
      BY <1>2, <1>6 DEF Screen
    <3>2. s' = [s EXCEPT !.l = m]
      BY <1>3, <2>1
    <3>3. s'.l = m
      BY <1>1, <3>2 DEF VtTypes, St
    <3> HIDE DEF m
    <3>4. s \in St /\ s'.l \in Screen
      BY <1>1, <3>1, <3>3 DEF VtTypes
    <3>5. s' \in St
      BY <3>1, <3>2, <3>4 DEF St
    <3>6. s'.l[row][col] = 0
      BY <3>1, <3>3
    <3>7. \A r \in Vt!Rows, c \in Vt!Cols : r # row \/ c # col => s'.l[r][c] = s.l[r][c]
      BY <3>1, <3>3
    <3> QED
      BY <2>1, <3>4, <3>5, <3>6, <3>7
  <2>2. CASE ~Vt!Erased
    BY <1>1, <1>3, <1>6, <2>2 DEF VtTypes
  <2> QED
    BY <2>1, <2>2
<1>8. /\ shown' \in Screen
      /\ shown'[row][col] = IF Vt!Erased THEN 0 ELSE IF Vt!Changed THEN ch ELSE shown[row][col]
      /\ \A r \in Vt!Rows, c \in Vt!Cols : r # row \/ c # col => shown'[r][c] = shown[r][c]
  <2>1. CASE Vt!Changed
    <3> DEFINE v == IF Vt!Erased THEN 0 ELSE ch
    <3>1. v \in Nat /\ shown' = [shown EXCEPT ![row][col] = v]
      BY <1>2, <1>3, <2>1
    <3> HIDE DEF v
    <3>2. /\ shown' \in Screen /\ shown'[row][col] = v
          /\ \A r \in Vt!Rows, c \in Vt!Cols : r # row \/ c # col => shown'[r][c] = shown[r][c]
      BY <1>2, <1>6, <3>1 DEF Screen
    <3> QED
      BY <2>1, <3>2 DEF v
  <2>2. CASE ~Vt!Changed
    BY <1>3, <1>6, <2>2 DEF Vt!Erased
  <2> QED
    BY <2>1, <2>2
<1>9. /\ last_c' \in Screen /\ last_c'[row][col] = ch
      /\ \A r \in Vt!Rows, c \in Vt!Cols : r # row \/ c # col => last_c'[r][c] = last_c[r][c]
  BY <1>2, <1>3, <1>6 DEF Screen
<1>10. VtTypes'
  BY <1>1, <1>3, <1>4, <1>7, <1>8, <1>9 DEF VtTypes
<1>11. shown[row][col] = last_c[row][col] \/ shown[row][col] = 0
  BY <1>1, <1>2 DEF Compared
<1>12. Compared'
  <2> SUFFICES ASSUME NEW r \in Vt!Rows, NEW c \in Vt!Cols
               PROVE  shown'[r][c] = last_c'[r][c] \/ shown'[r][c] = 0
    BY DEF Compared
  <2>1. CASE r = row /\ c = col
    BY <1>8, <1>9, <1>11, <2>1 DEF Vt!Changed
  <2>2. CASE r # row \/ c # col
    BY <1>1, <1>8, <1>9, <2>2 DEF Compared
  <2> QED
    BY <2>1, <2>2
<1>13. ASSUME NEW r \in Vt!Rows, NEW c \in Vt!Cols, Stored(r, c)', <<r, c>> \notin late
       PROVE  Agrees(r, c)'
  <2>1. CASE r = row /\ c = col
    <3>1. s.l[row][col] = ch
      BY <1>1, <1>13, <2>1 DEF Passed
    <3> QED
      BY <1>7, <1>8, <1>9, <1>11, <2>1, <3>1 DEF Agrees, Vt!Changed
  <2>2. CASE r # row \/ c # col
    <3>1. Stored(r, c)
      BY <1>5, <1>13, <2>2
    <3>2. Agrees(r, c)
      BY <1>1, <1>13, <3>1 DEF Passed
    <3>3. s'.l[r][c] = s.l[r][c] /\ shown'[r][c] = shown[r][c] /\ last_c'[r][c] = last_c[r][c]
      BY <1>7, <1>8, <1>9, <2>2
    <3> QED
      BY <3>2, <3>3 DEF Agrees
  <2> QED
    BY <2>1, <2>2
<1>14. Passed' /\ AtRest'
  BY <1>3, <1>4, <1>13 DEF Passed, AtRest
<1> QED
  BY <1>10, <1>12, <1>14 DEF VtInv

(* A pass begins with no cell stored, and ends with all of them.           *)
LEMMA VtPaint == ASSUME VtInv, Vt!Paint \/ Vt!Painted PROVE VtInv'
<1>1. VtTypes /\ Compared /\ Passed
  BY DEF VtInv
<1>2. CASE Vt!Paint
  <2>1. row = -1 /\ row' = 0 /\ UNCHANGED <<s, args, thread, col, ch, last_c, shown>>
    BY <1>2 DEF Vt!Paint, Vt!reader
  <2>2. col = 0 /\ ch = -1
    BY <1>1, <2>1, Sizes DEF VtTypes
  <2>3. VtTypes'
    BY <1>1, <2>1, <2>2, Sizes DEF VtTypes
  <2>4. Compared'
    BY <1>1, <2>1 DEF Compared
  <2>5. Passed' /\ AtRest'
    BY <2>1, <2>2, Sizes DEF Passed, Stored, AtRest
  <2> QED
    BY <2>3, <2>4, <2>5 DEF VtInv
<1>3. CASE Vt!Painted
  <2>1. /\ row = MAX_LINES /\ row' = -1 /\ s' = [s EXCEPT !.new = FALSE]
        /\ UNCHANGED <<args, thread, col, ch, last_c, shown, late>>
    BY <1>3 DEF Vt!Painted
  <2>2. col = 0 /\ ch = -1
    BY <1>1, <2>1, Sizes DEF VtTypes
  <2>3. s' \in St /\ s'.l = s.l
    BY <1>1, <2>1, Placed DEF VtTypes, St
  <2>4. VtTypes'
    BY <1>1, <2>1, <2>2, <2>3, Sizes DEF VtTypes
  <2>5. Compared'
    BY <1>1, <2>1 DEF Compared
  <2>6. \A r \in Vt!Rows, c \in Vt!Cols : <<r, c>> \in late \/ Agrees(r, c)
    BY <1>1, <2>1, Sizes DEF Passed, Stored
  <2>7. Passed' /\ AtRest'
    BY <2>1, <2>2, <2>3, <2>6, Sizes DEF Passed, Stored, AtRest, Agrees
  <2> QED
    BY <2>4, <2>5, <2>7 DEF VtInv
<1> QED
  BY <1>2, <1>3

(* There is no thread before there is a terminal, and the first pass is    *)
(* always made.                                                            *)
VtStarted == main = "start" => thread = "none" /\ s.new

LEMMA VtStarts == ASSUME VtStarted, [Vt!Next]_(Vt!vars) PROVE VtStarted'
<1> USE DEF VtStarted
<1>1. CASE Vt!Read \/ Vt!AddChar \/ Vt!Added \/ Vt!Lost \/ Vt!init_terminal
  BY <1>1 DEF Vt!Read, Vt!AddChar, Vt!Added, Vt!Lost, Vt!init_terminal, Vt!tty
<1>2. CASE Vt!keypress \/ Vt!Paint \/ Vt!Compare \/ Vt!Store \/ Vt!Painted \/ Vt!Stop
  BY <1>2 DEF Vt!keypress, Vt!Paint, Vt!Compare, Vt!Store, Vt!Painted, Vt!Stop, Vt!tty, Vt!reader
<1>3. CASE Vt!ShellPrints \/ Vt!ShellEnds \/ UNCHANGED Vt!vars
  BY <1>3 DEF Vt!ShellPrints, Vt!ShellEnds, Vt!vars, Vt!reader
<1> QED
  BY <1>1, <1>2, <1>3 DEF Vt!Next

LEMMA VtNextInv == ASSUME VtInv, VtStarted, [Vt!Next]_(Vt!vars) PROVE VtInv'
<1>1. VtTypes /\ Compared /\ Passed /\ AtRest
  BY DEF VtInv
<1>2. ASSUME UNCHANGED <<s, args, shown, last_c, row, col, ch, late>>,
             thread' = "read" => thread = "read" \/ s.new
      PROVE  VtInv'
  BY <1>1, <1>2 DEF VtInv, VtTypes, Compared, Passed, Stored, Agrees, AtRest
<1>3. CASE Vt!Added
  <2>1. s' = [s EXCEPT !.new = TRUE] /\ UNCHANGED <<args, shown, last_c, row, col, ch, late>>
    BY <1>3 DEF Vt!Added, Vt!screen, Vt!painter
  <2>2. s' \in St /\ s'.l = s.l /\ s'.new = TRUE
    BY <1>1, <2>1, Placed DEF VtTypes, St
  <2> QED
    BY <1>1, <2>1, <2>2 DEF VtInv, VtTypes, Compared, Passed, Stored, Agrees, AtRest
<1>4. CASE Vt!Read \/ Vt!Lost \/ Vt!init_terminal
  BY <1>2, <1>4 DEF VtStarted, Vt!Read, Vt!Lost, Vt!init_terminal, Vt!screen, Vt!painter
<1>5. CASE Vt!keypress \/ Vt!Stop
  BY <1>2, <1>5 DEF Vt!keypress, Vt!Stop, Vt!screen, Vt!painter, Vt!reader
<1>6. CASE Vt!ShellPrints \/ Vt!ShellEnds
  BY <1>2, <1>6 DEF Vt!ShellPrints, Vt!ShellEnds, Vt!screen, Vt!painter, Vt!reader
<1>7. CASE UNCHANGED Vt!vars
  BY <1>2, <1>7 DEF Vt!vars
<1> QED
  BY <1>3, <1>4, <1>5, <1>6, <1>7, VtAdds, VtCompares, VtStores, VtPaint DEF Vt!Next

(* s3dvt: the thread adds whenever it likes, also between two steps of the *)
(* painter on one cell, and may raise the flag just before the painter     *)
(* takes it back. When both rest the screen still shows the lines, but for *)
(* the cells that the thread changed behind the painter in its last pass   *)
(* and those that hold again what the painter has erased; and no wrap,     *)
(* scrolling or sequence of a program that knows the screen moves the      *)
(* cursor off it, with which the arrays are indexed                        *)
(* (src/apps/s3dvt/terminal.c and main.c).                                 *)
THEOREM ScreenShowsTheLines == Vt!Spec => []TerminalShows
<1>1. VtInv => TerminalShows
  BY DEF VtInv, VtTypes, AtRest, Agrees, TerminalShows, Vt!ShownAtRest, Vt!CursorInside, St
<1>2. Vt!Init => VtInv /\ VtStarted
  BY VtInit DEF Vt!Init, VtStarted
<1>3. VtInv /\ VtStarted /\ [Vt!Next]_(Vt!vars) => (VtInv /\ VtStarted)'
  BY VtNextInv, VtStarts
<1> QED
  BY <1>1, <1>2, <1>3, PTL DEF Vt!Spec

-----------------------------------------------------------------------------
(* Object numbers                                                          *)

(* What is under way to the server, and where a number can be.             *)
Del(o) == [op |-> "DEL_OBJ", oid |-> o]
Requests == {Queue!NewObj} \union {Del(o) : o \in Nat}
Slots(q) == {q[i] : i \in Queue!Used(q)}
Unread(f, k) == {f[i] : i \in k + 1 .. Len(f)}
Deleted(r) == {o \in Nat : \E i \in 1 .. Len(r) : r[i] = Del(o)}
Once(f, D) == \A i, j \in D : f[i] = f[j] => i = j
DelsOnce(r) == \A i, j \in 1 .. Len(r) : r[i] = r[j] /\ r[i] # Queue!NewObj => i = j

(* With the slots q, k answers read and the requests r, every number in    *)
(* use is in one place.                                                    *)
Apart(q, f, k, h, r, m) ==
  /\ Once(q, Queue!Used(q)) /\ Once(f, k + 1 .. Len(f)) /\ DelsOnce(r)
  /\ m = h \union Slots(q) \union Unread(f, k) \union Deleted(r)
  /\ h \intersect Slots(q) = {} /\ h \intersect Unread(f, k) = {} /\ h \intersect Deleted(r) = {}
  /\ Slots(q) \intersect Unread(f, k) = {} /\ Slots(q) \intersect Deleted(r) = {}
  /\ Unread(f, k) \intersect Deleted(r) = {}

Goes(q, f, k, h, r, m) ==
  q # <<>> /\ Queue!QUIT \notin Unread(f, k) => Apart(q, f, k, h, r, m)

QueueTypes ==
  /\ queue \in Seq(Nat \union {-1}) /\ fromServer \in Seq(Nat \union {-2})
  /\ requests \in Seq(Requests)
  /\ held \subseteq Nat /\ made \subseteq Nat /\ IsFiniteSet(made)
QueueInv == QueueTypes /\ Goes(queue, fromServer, 0, held, requests, made)

LEMMA Counted1 == \A S : Queue!Cardinality(S) = Cardinality(S)
BY DEF Queue!Cardinality, Cardinality

LEMMA Smallest ==
  ASSUME NEW S \in SUBSET Nat, S # {}
  PROVE  \E x \in S : \A y \in S : x <= y
<1>1. PICK x \in S : \A y \in S : ~ (<<y, x>> \in Below)
  BY BelowWF, WFMin
<1>2. \A y \in S : x <= y
  <2> SUFFICES ASSUME NEW y \in S, y < x PROVE FALSE
    BY <1>1
  <2>1. <<y, x>> \in Nat \X Nat /\ <<y, x>>[1] = y /\ <<y, x>>[2] = x
    OBVIOUS
  <2> QED
    BY <1>1, <2>1 DEF Below
<1> QED
  BY <1>2

LEMMA Least ==
  ASSUME NEW S \in SUBSET Nat, S # {}
  PROVE  Queue!Min(S) \in S
BY Smallest DEF Queue!Min

(* Distinct values are as many as their places.                            *)
LEMMA ImageSize ==
  ASSUME NEW f, NEW D, IsFiniteSet(D), Once(f, D)
  PROVE  /\ IsFiniteSet({f[i] : i \in D})
         /\ Cardinality({f[i] : i \in D}) = Cardinality(D)
<1> DEFINE T == {f[i] : i \in D}
           g == [i \in D |-> f[i]]
<1>1. g \in Bijection(D, T)
  BY DEF Once, Bijection, Injection, Surjection, IsInjective
<1>2. ExistsBijection(D, T)
  BY <1>1 DEF ExistsBijection
<1> HIDE DEF T, g
<1>3. IsFiniteSet(T) /\ Cardinality(T) = Cardinality(D)
  BY <1>2, FS_Bijection
<1> QED
  BY <1>3 DEF T

LEMMA UsedIn ==
  ASSUME NEW q \in Seq(Nat \union {-1})
  PROVE  /\ DOMAIN q = 1 .. Len(q) /\ Len(q) \in Nat
         /\ \A i \in 1 .. Len(q) : q[i] \in Nat \union {-1}
         /\ Queue!Used(q) = {i \in 1 .. Len(q) : q[i] # -1}
         /\ Queue!Unused(q) = {i \in 1 .. Len(q) : q[i] = -1}
         /\ Slots(q) \subseteq Nat
         /\ Queue!Unused(q) # {} =>
              /\ Queue!Min(Queue!Unused(q)) \in Queue!Unused(q)
         /\ Queue!Used(q) # {} =>
              /\ Queue!Min(Queue!Used(q)) \in Queue!Used(q)
<1>1. /\ DOMAIN q = 1 .. Len(q) /\ Len(q) \in Nat
      /\ \A i \in 1 .. Len(q) : q[i] \in Nat \union {-1}
  OBVIOUS
<1>2. /\ Queue!Used(q) = {i \in 1 .. Len(q) : q[i] # -1}
      /\ Queue!Unused(q) = {i \in 1 .. Len(q) : q[i] = -1}
  BY <1>1 DEF Queue!Used, Queue!Unused, Queue!Q_UNUSED
<1>3. Slots(q) \subseteq Nat
  BY <1>1, <1>2 DEF Slots
<1>4. Queue!Used(q) \in SUBSET Nat /\ Queue!Unused(q) \in SUBSET Nat
  BY <1>1, <1>2
<1> QED
  BY <1>1, <1>2, <1>3, <1>4, Least

(* _queue_new_object(): the number gets a slot of its own.                 *)
LEMMA SlotFound ==
  ASSUME NEW q \in Seq(Nat \union {-1}), q # <<>>, NEW a \in Nat
  PROVE  LET p == Queue!queue_new_object(q, a)
         IN  /\ p \in Seq(Nat \union {-1}) /\ p # <<>>
             /\ Slots(p) = Slots(q) \union {a}
             /\ a \notin Slots(q) /\ Once(q, Queue!Used(q)) => Once(p, Queue!Used(p))
<1> DEFINE p == Queue!queue_new_object(q, a)
<1>1. CASE Queue!Unused(q) # {}
  <2> DEFINE m == Queue!Min(Queue!Unused(q))
  <2>1. p = [q EXCEPT ![m] = a]
    BY <1>1 DEF Queue!queue_new_object
  <2>2. m \in 1 .. Len(q) /\ q[m] = -1
    BY <1>1, UsedIn
  <2> HIDE DEF p, m
  <2>3. p \in Seq(Nat \union {-1}) /\ Len(p) = Len(q)
    BY <2>1, <2>2
  <2>4. \A i \in 1 .. Len(q) : p[i] = IF i = m THEN a ELSE q[i]
    BY <2>1, <2>2
  <2>5. Queue!Used(p) = Queue!Used(q) \union {m}
    BY <2>2, <2>3, <2>4, UsedIn
  <2>6. \A i \in Queue!Used(q) : p[i] = q[i] /\ i \in 1 .. Len(q)
    BY <2>2, <2>4, UsedIn
  <2>7. p[m] = a
    BY <2>2, <2>4
  <2>8. p # <<>>
    BY <2>2, <2>3
  <2>9. Slots(p) = Slots(q) \union {a}
    BY <2>5, <2>6, <2>7 DEF Slots
  <2>10. a \notin Slots(q) /\ Once(q, Queue!Used(q)) => Once(p, Queue!Used(p))
    BY <2>5, <2>6, <2>7 DEF Slots, Once
  <2> QED
    BY <2>3, <2>8, <2>9, <2>10 DEF p
<1>2. CASE Queue!Unused(q) = {}
  <2> DEFINE m == Len(q) + 1
  <2>1. p = Append(q, a)
    BY <1>2 DEF Queue!queue_new_object
  <2> HIDE DEF p
  <2>2. /\ p \in Seq(Nat \union {-1}) /\ Len(q) \in Nat /\ Len(p) = m
        /\ \A i \in 1 .. Len(q) : p[i] = q[i]
        /\ p[m] = a
    BY <2>1, AppendAt
  <2>3. Queue!Used(p) = Queue!Used(q) \union {m}
    <3>1. /\ Queue!Used(p) = {i \in 1 .. Len(p) : p[i] # -1}
          /\ Queue!Used(q) = {i \in 1 .. Len(q) : q[i] # -1}
      BY <2>2, UsedIn
    <3>2. \A i \in 1 .. Len(p) : i \in 1 .. Len(q) \/ i = m
      BY <2>2
    <3>3. \A i \in 1 .. Len(q) : i \in 1 .. Len(p)
      BY <2>2
    <3>4. m \in 1 .. Len(p) /\ a # -1
      BY <2>2
    <3> HIDE DEF m
    <3> QED
      BY <2>2, <3>1, <3>2, <3>3, <3>4
  <2>4. \A i \in Queue!Used(q) : p[i] = q[i]
    BY <2>2, UsedIn
  <2>5. p # <<>>
    BY <2>2
  <2>6. Slots(p) = Slots(q) \union {a}
    BY <2>2, <2>3, <2>4 DEF Slots
  <2>7. a \notin Slots(q) /\ Once(q, Queue!Used(q)) => Once(p, Queue!Used(p))
    BY <2>2, <2>3, <2>4 DEF Slots, Once
  <2> QED
    BY <2>2, <2>5, <2>6, <2>7 DEF p
<1> QED
  BY <1>1, <1>2

(* A number goes from the answers into a slot.                             *)
LEMMA OneRead ==
  ASSUME NEW q \in Seq(Nat \union {-1}), NEW f \in Seq(Nat \union {-2}),
         NEW k \in 1 .. Len(f), NEW h, NEW r, NEW m, Goes(q, f, k - 1, h, r, m)
  PROVE  LET p == IF f[k] = Queue!QUIT THEN <<>> ELSE Queue!queue_new_object(q, f[k])
         IN  p \in Seq(Nat \union {-1}) /\ Goes(p, f, k, h, r, m)
<1> DEFINE p == IF f[k] = Queue!QUIT THEN <<>> ELSE Queue!queue_new_object(q, f[k])
<1>1. k \in Nat \ {0} /\ Len(f) \in Nat /\ f[k] \in Nat \union {-2}
  OBVIOUS
<1>2. Unread(f, k - 1) = Unread(f, k) \union {f[k]}
  BY <1>1 DEF Unread
<1>3. CASE f[k] = Queue!QUIT \/ q = <<>>
  BY <1>3 DEF Goes, Queue!queue_new_object
<1>4. CASE f[k] # Queue!QUIT /\ q # <<>>
  <2>1. f[k] \in Nat /\ p = Queue!queue_new_object(q, f[k])
    BY <1>1, <1>4 DEF Queue!QUIT
  <2> HIDE DEF p
  <2>2. /\ p \in Seq(Nat \union {-1})
        /\ Slots(p) = Slots(q) \union {f[k]}
        /\ f[k] \notin Slots(q) /\ Once(q, Queue!Used(q)) => Once(p, Queue!Used(p))
    BY <1>4, <2>1, SlotFound
  <2>3. ASSUME Queue!QUIT \notin Unread(f, k)
        PROVE  Apart(p, f, k, h, r, m)
    <3>1. Apart(q, f, k - 1, h, r, m)
      BY <1>2, <1>4, <2>3 DEF Goes
    <3>2. f[k] \notin Unread(f, k)
      <4>1. \A i \in k + 1 .. Len(f) : i \in (k - 1) + 1 .. Len(f) /\ i # k
        BY <1>1
      <4>2. k \in (k - 1) + 1 .. Len(f)
        BY <1>1
      <4> QED
        BY <3>1, <4>1, <4>2 DEF Apart, Once, Unread
    <3>3. Once(f, k + 1 .. Len(f))
      <4>1. \A i \in k + 1 .. Len(f) : i \in (k - 1) + 1 .. Len(f)
        BY <1>1
      <4> QED
        BY <3>1, <4>1 DEF Apart, Once
    <3> QED
      BY <1>2, <2>2, <3>1, <3>2, <3>3 DEF Apart
  <2> QED
    BY <2>2, <2>3 DEF Goes, p
<1> QED
  BY <1>3, <1>4

LEMMA AllRead ==
  ASSUME QueueInv, NEW n \in 0 .. Len(fromServer)
  PROVE  /\ Queue!NetProtIn(n) \in Seq(Nat \union {-1})
         /\ Goes(Queue!NetProtIn(n), fromServer, n, held, requests, made)
<1> DEFINE Q == Seq(Nat \union {-1})
           F(q, k) == IF fromServer[k] = Queue!QUIT THEN <<>> ELSE Queue!queue_new_object(q, fromServer[k])
           in == CHOOSE in : in = [k \in 0 .. n |-> IF k = 0 THEN queue
                   ELSE IF fromServer[k] = Queue!QUIT THEN <<>>
                   ELSE Queue!queue_new_object(in[k - 1], fromServer[k])]
<1>1. Queue!NetProtIn(n) = in[n]
  BY DEF Queue!NetProtIn
<1>2. /\ queue \in Q /\ fromServer \in Seq(Nat \union {-2})
      /\ Goes(queue, fromServer, 0, held, requests, made)
  BY DEF QueueInv, QueueTypes
<1>3. n \in Nat /\ n <= Len(fromServer) /\ Len(fromServer) \in Nat
  BY <1>2
<1>4. in = [k \in 0 .. n |-> IF k = 0 THEN queue ELSE F(in[k - 1], k)]
  <2> DEFINE S == Q \X Nat
             G == [t \in S |-> IF t[2] < Len(fromServer) THEN <<F(t[1], t[2] + 1), t[2] + 1>> ELSE t]
  <2>1. G \in [S -> S]
    <3>1. \A q \in Q, k \in 1 .. Len(fromServer) : F(q, k) \in Q
      <4> SUFFICES ASSUME NEW q \in Q, NEW k \in 1 .. Len(fromServer)
                   PROVE  F(q, k) \in Q
        OBVIOUS
      <4>1. fromServer[k] \in Nat \union {-2}
        BY <1>2
      <4>2. fromServer[k] # Queue!QUIT => fromServer[k] \in Nat
        BY <4>1 DEF Queue!QUIT
      <4>3. q = <<>> => Queue!queue_new_object(q, fromServer[k]) \in Q
        BY DEF Queue!queue_new_object
      <4>4. ASSUME fromServer[k] # Queue!QUIT, q # <<>>
            PROVE  Queue!queue_new_object(q, fromServer[k]) \in Q
        BY <4>2, <4>4, SlotFound
      <4> QED
        BY <4>3, <4>4
    <3> HIDE DEF F, Q
    <3>2. \A t \in S : t[1] \in Q /\ t[2] \in Nat /\ (t[2] < Len(fromServer) => t[2] + 1 \in 1 .. Len(fromServer))
      BY <1>3
    <3>3. \A t \in S : (IF t[2] < Len(fromServer) THEN <<F(t[1], t[2] + 1), t[2] + 1>> ELSE t) \in S
      BY <3>1, <3>2
    <3> QED
      BY <3>3
  <2> HIDE DEF F, Q
  <2>2. \A t \in S : t[2] < Len(fromServer) => G[t][1] = F(t[1], t[2] + 1) /\ G[t][2] = t[2] + 1
    OBVIOUS
  <2>3. <<queue, 0>> \in S
    BY <1>2
  <2>a. \A t \in S : t[2] \in Nat
    OBVIOUS
  <2> HIDE DEF G, S
  <2>4. PICK g \in [0 .. n -> S] :
           /\ g[0] = <<queue, 0>>
           /\ \A k \in 1 .. n : g[k] = G[g[k - 1]]
           /\ \A k \in 0 .. n : g[k][2] = k
    <3>1. Ticks(S, G, n)
      BY <1>3, <2>2, <2>a DEF Ticks
    <3>2. <<queue, 0>>[2] = 0 /\ n \in Nat
      BY <1>3
    <3>3. Steps(S, G, <<queue, 0>>, n)
      BY <2>1, <2>3, <3>1, <3>2, WalkCounts
    <3> QED
      BY <3>3 DEF Steps
  <2> DEFINE f == [k \in 0 .. n |-> g[k][1]]
  <2>7. \A k \in 1 .. n : f[k] = F(f[k - 1], k)
    <3> SUFFICES ASSUME NEW k \in 1 .. n PROVE g[k][1] = F(g[k - 1][1], k)
      BY <1>3
    <3>2. g[k - 1] \in S /\ g[k - 1][2] = k - 1 /\ k - 1 < Len(fromServer) /\ (k - 1) + 1 = k /\ g[k] = G[g[k - 1]]
      BY <1>3, <2>4
    <3>3. G[g[k - 1]][1] = F(g[k - 1][1], g[k - 1][2] + 1)
      BY <2>2, <3>2
    <3> QED
      BY <3>2, <3>3
  <2>8. f = [k \in 0 .. n |-> IF k = 0 THEN queue ELSE F(f[k - 1], k)]
    <3>1. f[0] = queue /\ f = [k \in 0 .. n |-> f[k]]
      BY <1>3, <2>4
    <3> HIDE DEF f
    <3>2. ASSUME NEW k \in 0 .. n PROVE f[k] = IF k = 0 THEN queue ELSE F(f[k - 1], k)
      <4>1. CASE k = 0
        BY <3>1, <4>1
      <4>2. CASE k # 0
        <5>1. k \in 1 .. n
          BY <1>3, <4>2
        <5>2. f[k] = F(f[k - 1], k)
          BY <2>7, <5>1
        <5> HIDE DEF F
        <5> QED
          BY <4>2, <5>2
      <4> QED
        BY <4>1, <4>2
    <3> QED
      BY <3>1, <3>2
  <2> HIDE DEF f
  <2> USE DEF F
  <2>9. \E x : x = [k \in 0 .. n |-> IF k = 0 THEN queue
                   ELSE IF fromServer[k] = Queue!QUIT THEN <<>>
                   ELSE Queue!queue_new_object(x[k - 1], fromServer[k])]
    BY <2>8
  <2> QED
    BY <2>9, Zenon
<1> HIDE DEF in
<1> DEFINE T == {k \in Nat : k <= n => in[k] \in Q /\ Goes(in[k], fromServer, k, held, requests, made)}
<1>5. 0 \in T
  BY <1>2, <1>3, <1>4
<1>6. ASSUME NEW k \in Nat, k \in T PROVE k + 1 \in T
  <2> SUFFICES ASSUME k + 1 <= n
               PROVE  in[k + 1] \in Q /\ Goes(in[k + 1], fromServer, k + 1, held, requests, made)
    OBVIOUS
  <2>1. in[k] \in Q /\ Goes(in[k], fromServer, k, held, requests, made)
    BY <1>3, <1>6
  <2>2. in[k + 1] = F(in[k], k + 1)
    BY <1>3, <1>4
  <2>3. k + 1 \in 1 .. Len(fromServer) /\ (k + 1) - 1 = k
    BY <1>3
  <2> HIDE DEF F
  <2>4. Goes(in[k], fromServer, (k + 1) - 1, held, requests, made)
    BY <2>1, <2>3
  <2>5. F(in[k], k + 1) \in Q /\ Goes(F(in[k], k + 1), fromServer, k + 1, held, requests, made)
    BY <1>2, <2>1, <2>3, <2>4, OneRead DEF F
  <2> QED
    BY <2>2, <2>5
<1>7. Nat \subseteq T
  <2> HIDE DEF T
  <2> QED
    BY <1>5, <1>6, SetInduction
<1>8. n \in T
  BY <1>3, <1>7
<1> QED
  BY <1>1, <1>3, <1>8

(* What is read goes, the rest moves up.                                   *)
LEMMA ReadRest ==
  ASSUME QueueInv, NEW n \in 0 .. Len(fromServer), Queue!NetCheck(n)
  PROVE  /\ queue' \in Seq(Nat \union {-1}) /\ fromServer' \in Seq(Nat \union {-2})
         /\ Goes(queue', fromServer', 0, held, requests, made)
<1>1. /\ queue' = Queue!NetProtIn(n)
      /\ fromServer' = SubSeq(fromServer, n + 1, Len(fromServer))
  BY DEF Queue!NetCheck
<1>2. fromServer \in Seq(Nat \union {-2}) /\ Len(fromServer) \in Nat /\ n \in Nat /\ n <= Len(fromServer)
  BY DEF QueueInv, QueueTypes
<1>3. /\ fromServer' \in Seq(Nat \union {-2}) /\ Len(fromServer') = Len(fromServer) - n
      /\ \A i \in 1 .. Len(fromServer) - n : fromServer'[i] = fromServer[i + n]
  BY <1>1, <1>2
<1>4. queue' \in Seq(Nat \union {-1}) /\ Goes(queue', fromServer, n, held, requests, made)
  BY <1>1, AllRead
<1>5. Unread(fromServer', 0) = Unread(fromServer, n)
  <2>1. ASSUME NEW x \in Unread(fromServer, n) PROVE x \in Unread(fromServer', 0)
    <3>1. PICK i \in n + 1 .. Len(fromServer) : x = fromServer[i]
      BY DEF Unread
    <3>2. i - n \in 0 + 1 .. Len(fromServer') /\ fromServer'[i - n] = fromServer[i]
      BY <1>2, <1>3
    <3> QED
      BY <3>1, <3>2 DEF Unread
  <2>2. ASSUME NEW x \in Unread(fromServer', 0) PROVE x \in Unread(fromServer, n)
    <3>1. PICK i \in 0 + 1 .. Len(fromServer') : x = fromServer'[i]
      BY DEF Unread
    <3>2. i + n \in n + 1 .. Len(fromServer) /\ fromServer'[i] = fromServer[i + n]
      BY <1>2, <1>3
    <3> QED
      BY <3>1, <3>2 DEF Unread
  <2> QED
    BY <2>1, <2>2
<1>6. Once(fromServer, n + 1 .. Len(fromServer)) => Once(fromServer', 0 + 1 .. Len(fromServer'))
  <2> SUFFICES ASSUME Once(fromServer, n + 1 .. Len(fromServer)),
                      NEW i \in 1 .. Len(fromServer'), NEW j \in 1 .. Len(fromServer'),
                      fromServer'[i] = fromServer'[j]
               PROVE  i = j
    BY DEF Once
  <2>1. /\ i + n \in n + 1 .. Len(fromServer) /\ j + n \in n + 1 .. Len(fromServer)
        /\ fromServer'[i] = fromServer[i + n] /\ fromServer'[j] = fromServer[j + n]
    BY <1>2, <1>3
  <2>2. i + n = j + n
    BY <2>1 DEF Once
  <2> QED
    BY <1>2, <1>3, <2>2
<1> QED
  BY <1>3, <1>4, <1>5, <1>6 DEF Goes, Apart

(* A request for an object deletes nothing.                                *)
LEMMA AskMore ==
  ASSUME NEW r \in Seq(Requests)
  PROVE  LET p == Append(r, Queue!NewObj)
         IN  /\ p \in Seq(Requests) /\ Deleted(p) = Deleted(r)
             /\ DelsOnce(r) => DelsOnce(p)
<1> DEFINE p == Append(r, Queue!NewObj)
<1>1. /\ p \in Seq(Requests) /\ Len(r) \in Nat /\ Len(p) = Len(r) + 1
      /\ \A i \in 1 .. Len(r) : p[i] = r[i]
      /\ p[Len(r) + 1] = Queue!NewObj
  BY AppendAt DEF Requests
<1>2. \A o \in Nat : Del(o) # Queue!NewObj
  BY DEF Del, Queue!NewObj
<1> HIDE DEF p
<1>3. \A i \in 1 .. Len(p) : i \in 1 .. Len(r) \/ p[i] = Queue!NewObj
  BY <1>1
<1>4. \A i \in 1 .. Len(r) : i \in 1 .. Len(p)
  BY <1>1
<1>5. Deleted(p) = Deleted(r)
  BY <1>1, <1>2, <1>3, <1>4 DEF Deleted
<1>6. DelsOnce(r) => DelsOnce(p)
  BY <1>1, <1>3 DEF DelsOnce
<1> QED
  BY <1>1, <1>5, <1>6 DEF p

LEMMA QueueInit == Queue!Init => QueueInv
<1> SUFFICES ASSUME Queue!Init PROVE QueueInv
  OBVIOUS
<1>1. /\ queue = <<-1>> /\ fromServer = <<>> /\ held = {} /\ made = {}
      /\ requests = Queue!queue_fill(<<-1>>)
  BY DEF Queue!Init, Queue!queue_init, Queue!Q_UNUSED
<1>2. Queue!Unused(<<-1>>) = {1} /\ Queue!Used(<<-1>>) = {}
  BY DEF Queue!Unused, Queue!Used, Queue!Q_UNUSED
<1>3. requests = <<Queue!NewObj>>
  <2>1. Cardinality({1}) = 1
    BY FS_Singleton
  <2>2. requests = [i \in 1 .. 1 |-> Queue!NewObj]
    BY <1>1, <1>2, <2>1, Counted1 DEF Queue!queue_fill
  <2> QED
    BY <2>2
<1>4. QueueTypes
  <2>1. queue \in Seq(Nat \union {-1}) /\ fromServer \in Seq(Nat \union {-2})
    BY <1>1
  <2>2. Queue!NewObj \in Requests
    BY DEF Requests
  <2>3. requests \in Seq(Requests)
    BY <1>3, <2>2
  <2> QED
    BY <1>1, <2>1, <2>3, FS_EmptySet DEF QueueTypes
<1>5. \A o \in Nat : Del(o) # Queue!NewObj
  BY DEF Del, Queue!NewObj
<1>6. Len(requests) = 1 /\ requests[1] = Queue!NewObj /\ Len(fromServer) = 0
  BY <1>1, <1>3
<1>7. Deleted(requests) = {} /\ DelsOnce(requests)
  BY <1>5, <1>6 DEF Deleted, DelsOnce
<1>8. Unread(fromServer, 0) = {} /\ Once(fromServer, 0 + 1 .. Len(fromServer))
  BY <1>6 DEF Unread, Once
<1>9. Slots(queue) = {} /\ Once(queue, Queue!Used(queue))
  BY <1>1, <1>2 DEF Slots, Once
<1> QED
  BY <1>1, <1>4, <1>7, <1>8, <1>9 DEF QueueInv, Goes, Apart

(* _queue_want_object() takes what is in a slot.                           *)
LEMMA TakenInv == ASSUME QueueInv, Queue!WantTake PROVE QueueInv'
<1> DEFINE i == Queue!Min(Queue!Used(queue))
           a == queue[i]
<1>1. /\ queue' = [queue EXCEPT ![i] = -1]
      /\ held' = held \union {a}
      /\ requests' = Append(requests, Queue!NewObj)
      /\ fromServer' = fromServer /\ made' = made /\ Queue!Used(queue) # {}
  BY DEF Queue!WantTake, Queue!Take, Queue!Q_UNUSED
<1>2. /\ queue \in Seq(Nat \union {-1}) /\ fromServer \in Seq(Nat \union {-2})
      /\ requests \in Seq(Requests)
      /\ held \subseteq Nat /\ made \subseteq Nat /\ IsFiniteSet(made)
  BY DEF QueueInv, QueueTypes
<1>3. i \in Queue!Used(queue) /\ i \in 1 .. Len(queue) /\ a \in Nat
  BY <1>1, <1>2, UsedIn
<1> HIDE DEF i
<1>4. queue' \in Seq(Nat \union {-1}) /\ Len(queue') = Len(queue)
  BY <1>1, <1>2, <1>3
<1>5. \A j \in 1 .. Len(queue) : queue'[j] = IF j = i THEN -1 ELSE queue[j]
  BY <1>1, <1>2, <1>3
<1>6. Queue!Used(queue') = Queue!Used(queue) \ {i}
  <2>1. /\ Queue!Used(queue') = {j \in 1 .. Len(queue) : queue'[j] # -1}
        /\ Queue!Used(queue) = {j \in 1 .. Len(queue) : queue[j] # -1}
    BY <1>2, <1>4, UsedIn
  <2> QED
    BY <1>3, <1>5, <2>1
<1>7. \A j \in Queue!Used(queue') : queue'[j] = queue[j] /\ j \in Queue!Used(queue) /\ j # i
  BY <1>2, <1>5, <1>6, UsedIn
<1>8. ASSUME Once(queue, Queue!Used(queue))
      PROVE  Once(queue', Queue!Used(queue')) /\ Slots(queue') = Slots(queue) \ {a}
  BY <1>3, <1>6, <1>7, <1>8 DEF Once, Slots
<1>9. a \in Slots(queue) /\ queue # <<>>
  BY <1>2, <1>3 DEF Slots
<1>10. /\ requests' \in Seq(Requests) /\ Deleted(requests') = Deleted(requests)
       /\ DelsOnce(requests) => DelsOnce(requests')
  BY <1>1, <1>2, AskMore
<1>11. QueueTypes'
  BY <1>1, <1>2, <1>3, <1>4, <1>10 DEF QueueTypes
<1>12. ASSUME Apart(queue, fromServer, 0, held, requests, made)
       PROVE  Apart(queue', fromServer, 0, held', requests', made)
  BY <1>1, <1>8, <1>9, <1>10, <1>12 DEF Apart
<1> QED
  BY <1>1, <1>9, <1>11, <1>12 DEF QueueInv, Goes

(* A round of the main loop, or of the wait, reads answers.                *)
LEMMA LookInv == ASSUME QueueInv, Queue!MainLoop \/ Queue!WantLook PROVE QueueInv'
<1>1. PICK n \in 0 .. Len(fromServer) : Queue!NetCheck(n)
  <2>1. Len(fromServer) \in Nat
    BY DEF QueueInv, QueueTypes
  <2> QED
    BY <2>1 DEF Queue!MainLoop, Queue!WantLook
<1>2. /\ requests' = requests \/ requests' = Append(requests, Queue!NewObj)
      /\ held' = held /\ made' = made
  BY DEF Queue!MainLoop, Queue!WantLook
<1>3. /\ queue' \in Seq(Nat \union {-1}) /\ fromServer' \in Seq(Nat \union {-2})
      /\ Goes(queue', fromServer', 0, held, requests, made)
  BY <1>1, ReadRest
<1>4. requests \in Seq(Requests) /\ held \subseteq Nat /\ made \subseteq Nat /\ IsFiniteSet(made)
  BY DEF QueueInv, QueueTypes
<1>5. /\ requests' \in Seq(Requests) /\ Deleted(requests') = Deleted(requests)
      /\ DelsOnce(requests) => DelsOnce(requests')
  BY <1>2, <1>4, AskMore
<1> QED
  BY <1>2, <1>3, <1>4, <1>5 DEF QueueInv, QueueTypes, Goes, Apart

(* s3d_del_object(): the number is on its way back.                        *)
LEMMA DelInv == ASSUME QueueInv, Queue!DelObject PROVE QueueInv'
<1>1. PICK o \in held : /\ held' = held \ {o} /\ requests' = Append(requests, Del(o))
                        /\ queue' = queue /\ fromServer' = fromServer /\ made' = made
                        /\ queue # <<>>
  BY DEF Queue!DelObject, Del
<1>2. /\ queue \in Seq(Nat \union {-1}) /\ fromServer \in Seq(Nat \union {-2})
      /\ requests \in Seq(Requests)
      /\ held \subseteq Nat /\ made \subseteq Nat /\ IsFiniteSet(made)
  BY DEF QueueInv, QueueTypes
<1>3. o \in Nat /\ Del(o) \in Requests /\ Del(o) # Queue!NewObj
  BY <1>1, <1>2 DEF Requests, Del, Queue!NewObj
<1>4. /\ requests' \in Seq(Requests) /\ Len(requests) \in Nat /\ Len(requests') = Len(requests) + 1
      /\ \A i \in 1 .. Len(requests) : requests'[i] = requests[i]
      /\ requests'[Len(requests) + 1] = Del(o)
  BY <1>1, <1>2, <1>3, AppendAt
<1>5. \A i \in 1 .. Len(requests') : i \in 1 .. Len(requests) \/ i = Len(requests) + 1
  BY <1>4
<1>6. \A i \in 1 .. Len(requests) : i \in 1 .. Len(requests')
  BY <1>4
<1>7. Len(requests) + 1 \in 1 .. Len(requests')
  BY <1>4
<1>8. \A x \in Nat : Del(x) = Del(o) => x = o
  BY DEF Del
<1>9. Deleted(requests') = Deleted(requests) \union {o}
  BY <1>3, <1>4, <1>5, <1>6, <1>7, <1>8 DEF Deleted
<1>10. o \notin Deleted(requests) /\ DelsOnce(requests) => DelsOnce(requests')
  <2> SUFFICES ASSUME o \notin Deleted(requests), DelsOnce(requests),
                      NEW i \in 1 .. Len(requests'), NEW j \in 1 .. Len(requests'),
                      requests'[i] = requests'[j], requests'[i] # Queue!NewObj
               PROVE  i = j
    BY DEF DelsOnce
  <2>1. \A x \in 1 .. Len(requests) : requests[x] # Del(o)
    BY <1>3 DEF Deleted
  <2> QED
    BY <1>4, <1>5, <2>1 DEF DelsOnce
<1>11. QueueTypes'
  BY <1>1, <1>2, <1>4 DEF QueueTypes
<1>12. ASSUME Apart(queue, fromServer, 0, held, requests, made)
       PROVE  Apart(queue, fromServer, 0, held', requests', made)
  BY <1>1, <1>9, <1>10, <1>12 DEF Apart
<1> QED
  BY <1>1, <1>11, <1>12 DEF QueueInv, Goes

(* obj_new() gives out the first number that is free.                      *)
LEMMA FreeNumber ==
  ASSUME made \subseteq Nat, IsFiniteSet(made)
  PROVE  Queue!FirstFree \in Nat \ made
<1> DEFINE c == Cardinality(made)
           S == (0 .. c) \ made
<1>1. c \in Nat
  BY FS_CardinalityType
<1>2. IsFiniteSet(0 .. c) /\ Cardinality(0 .. c) = c + 1
  BY <1>1, FS_Interval
<1>3. S # {}
  <2> SUFFICES ASSUME 0 .. c \in SUBSET made PROVE FALSE
    OBVIOUS
  <2>1. Cardinality(0 .. c) <= Cardinality(made)
    BY FS_Subset
  <2> QED
    BY <1>1, <1>2, <2>1
<1>4. S \in SUBSET Nat
  BY <1>1
<1>5. Queue!Min(S) \in S
  BY <1>3, <1>4, Least
<1> QED
  BY <1>4, <1>5, Counted1 DEF Queue!FirstFree

(* The server takes a request.                                             *)
LEMMA ServedInv == ASSUME QueueInv, Queue!Server PROVE QueueInv'
<1>1. /\ requests # <<>> /\ requests' = Tail(requests)
      /\ queue' = queue /\ held' = held
  BY DEF Queue!Server
<1>2. /\ queue \in Seq(Nat \union {-1}) /\ fromServer \in Seq(Nat \union {-2})
      /\ requests \in Seq(Requests)
      /\ held \subseteq Nat /\ made \subseteq Nat /\ IsFiniteSet(made)
      /\ Goes(queue, fromServer, 0, held, requests, made)
  BY DEF QueueInv, QueueTypes
<1>3. /\ requests' \in Seq(Requests) /\ Len(requests) \in Nat \ {0}
      /\ Len(requests') = Len(requests) - 1
      /\ \A i \in 1 .. Len(requests) - 1 : requests'[i] = requests[i + 1]
      /\ Head(requests) = requests[1]
  BY <1>1, <1>2, TailAt
<1>4. DelsOnce(requests) => DelsOnce(requests')
  <2> SUFFICES ASSUME DelsOnce(requests),
                      NEW i \in 1 .. Len(requests'), NEW j \in 1 .. Len(requests'),
                      requests'[i] = requests'[j], requests'[i] # Queue!NewObj
               PROVE  i = j
    BY DEF DelsOnce
  <2>1. /\ i + 1 \in 1 .. Len(requests) /\ j + 1 \in 1 .. Len(requests)
        /\ requests'[i] = requests[i + 1] /\ requests'[j] = requests[j + 1]
    BY <1>3
  <2>2. i + 1 = j + 1
    BY <2>1 DEF DelsOnce
  <2> QED
    BY <1>3, <2>2
<1>5. \A o \in Nat : o \in Deleted(requests) <=> requests[1] = Del(o) \/ o \in Deleted(requests')
  <2> SUFFICES ASSUME NEW o \in Nat
               PROVE  o \in Deleted(requests) <=> requests[1] = Del(o) \/ o \in Deleted(requests')
    OBVIOUS
  <2>1. ASSUME NEW i \in 1 .. Len(requests), requests[i] = Del(o), i # 1
        PROVE  \E j \in 1 .. Len(requests') : requests'[j] = Del(o)
    <3>1. i - 1 \in 1 .. Len(requests') /\ requests'[i - 1] = requests[i]
      BY <1>3, <2>1
    <3> QED
      BY <2>1, <3>1
  <2>2. ASSUME NEW j \in 1 .. Len(requests'), requests'[j] = Del(o)
        PROVE  \E i \in 1 .. Len(requests) : requests[i] = Del(o)
    <3>1. j + 1 \in 1 .. Len(requests) /\ requests'[j] = requests[j + 1]
      BY <1>3
    <3> QED
      BY <2>2, <3>1
  <2>3. 1 \in 1 .. Len(requests)
    BY <1>3
  <2> QED
    BY <2>1, <2>2, <2>3 DEF Deleted
<1>6. requests[1] \in Requests
  BY <1>2, <1>3
<1>7. CASE requests[1] = Queue!NewObj
  <2> DEFINE F == Queue!FirstFree
  <2>1. /\ made' = made \union {F}
        /\ fromServer' = IF Queue!QUIT \in Queue!ToSet(fromServer) THEN fromServer
                         ELSE Append(fromServer, F)
    BY <1>3, <1>7 DEF Queue!Server
  <2>2. F \in Nat /\ F \notin made
    BY <1>2, FreeNumber
  <2> HIDE DEF F
  <2>3. Queue!ToSet(fromServer) = Unread(fromServer, 0)
    BY <1>2 DEF Queue!ToSet, Unread
  <2>4. IsFiniteSet(made')
    BY <1>2, <2>1, FS_AddElement
  <2>5. Deleted(requests') = Deleted(requests)
    <3>1. \A o \in Nat : requests[1] # Del(o)
      BY <1>7 DEF Del, Queue!NewObj
    <3>2. Deleted(requests') \subseteq Nat /\ Deleted(requests) \subseteq Nat
      BY DEF Deleted
    <3> QED
      BY <1>5, <3>1, <3>2
  <2>6. CASE Queue!QUIT \in Unread(fromServer, 0)
    <3>1. fromServer' = fromServer
      BY <2>1, <2>3, <2>6
    <3>2. QueueTypes'
      BY <1>1, <1>2, <1>3, <2>1, <2>2, <2>4, <3>1 DEF QueueTypes
    <3> QED
      BY <2>6, <3>1, <3>2 DEF QueueInv, Goes
  <2>7. CASE Queue!QUIT \notin Unread(fromServer, 0)
    <3>1. fromServer' = Append(fromServer, F)
      BY <2>1, <2>3, <2>7
    <3>2. /\ fromServer' \in Seq(Nat \union {-2}) /\ Len(fromServer) \in Nat
          /\ Len(fromServer') = Len(fromServer) + 1
          /\ \A i \in 1 .. Len(fromServer) : fromServer'[i] = fromServer[i]
          /\ fromServer'[Len(fromServer) + 1] = F
      BY <1>2, <2>2, <3>1, AppendAt
    <3>3. Unread(fromServer', 0) = Unread(fromServer, 0) \union {F}
      BY <3>2 DEF Unread
    <3>4. F \notin Unread(fromServer, 0) /\ Once(fromServer, 0 + 1 .. Len(fromServer))
            => Once(fromServer', 0 + 1 .. Len(fromServer'))
      BY <3>2 DEF Unread, Once
    <3>5. QueueTypes'
      BY <1>1, <1>2, <1>3, <2>1, <2>2, <2>4, <3>2 DEF QueueTypes
    <3>6. ASSUME Apart(queue, fromServer, 0, held, requests, made)
          PROVE  Apart(queue, fromServer', 0, held, requests', made')
      BY <1>4, <2>1, <2>2, <2>5, <3>3, <3>4, <3>6 DEF Apart
    <3> QED
      BY <1>1, <1>2, <2>7, <3>5, <3>6 DEF QueueInv, Goes
  <2> QED
    BY <2>6, <2>7
<1>8. CASE requests[1] # Queue!NewObj
  <2>1. PICK o \in Nat : requests[1] = Del(o)
    BY <1>6, <1>8 DEF Requests
  <2>2. /\ made' = made \ {o} /\ fromServer' = fromServer
    BY <1>3, <1>8, <2>1 DEF Queue!Server, Del
  <2>3. IsFiniteSet(made')
    BY <1>2, <2>2, FS_RemoveElement
  <2>4. QueueTypes'
    BY <1>1, <1>2, <1>3, <2>2, <2>3 DEF QueueTypes
  <2>5. ASSUME DelsOnce(requests) PROVE o \in Deleted(requests) /\ Deleted(requests') = Deleted(requests) \ {o}
    <3>1. \A x \in Nat : Del(x) = Del(o) => x = o
      BY DEF Del
    <3>2. o \notin Deleted(requests')
      <4> SUFFICES ASSUME NEW j \in 1 .. Len(requests'), requests'[j] = Del(o) PROVE FALSE
        BY DEF Deleted
      <4>1. j + 1 \in 1 .. Len(requests) /\ requests[j + 1] = requests[1] /\ 1 \in 1 .. Len(requests) /\ j + 1 # 1
        BY <1>3, <2>1
      <4> QED
        BY <1>8, <2>5, <4>1 DEF DelsOnce
    <3>3. Deleted(requests') \subseteq Nat /\ Deleted(requests) \subseteq Nat
      BY DEF Deleted
    <3> QED
      BY <1>5, <2>1, <3>1, <3>2, <3>3
  <2>6. ASSUME Apart(queue, fromServer, 0, held, requests, made)
        PROVE  Apart(queue, fromServer, 0, held, requests', made')
    <3>1. DelsOnce(requests)
      BY <2>6 DEF Apart
    <3>2. o \in Deleted(requests) /\ Deleted(requests') = Deleted(requests) \ {o}
      BY <2>5, <3>1
    <3> QED
      BY <1>4, <2>2, <2>6, <3>2 DEF Apart
  <2> QED
    BY <1>1, <1>2, <2>2, <2>4, <2>6 DEF QueueInv, Goes
<1> QED
  BY <1>7, <1>8

LEMMA QueueNext == QueueInv /\ [Queue!Next]_(Queue!vars) => QueueInv'
<1> SUFFICES ASSUME QueueInv, [Queue!Next]_(Queue!vars) PROVE QueueInv'
  OBVIOUS
<1>1. CASE Queue!Call \/ Queue!WantFail \/ UNCHANGED Queue!vars
  <2>1. UNCHANGED <<queue, held, requests, fromServer, made>>
    BY <1>1 DEF Queue!Call, Queue!WantFail, Queue!vars
  <2> QED
    BY <2>1 DEF QueueInv, QueueTypes
<1>2. CASE Queue!ServerQuit
  <2>1. /\ fromServer' = Append(fromServer, -2)
        /\ UNCHANGED <<queue, held, requests, made>>
    BY <1>2 DEF Queue!ServerQuit, Queue!QUIT
  <2>2. QueueTypes /\ fromServer \in Seq(Nat \union {-2})
    BY DEF QueueInv, QueueTypes
  <2>3. /\ fromServer' \in Seq(Nat \union {-2}) /\ Len(fromServer) \in Nat
        /\ Len(fromServer') = Len(fromServer) + 1
        /\ fromServer'[Len(fromServer) + 1] = -2
    BY <2>1, <2>2, AppendAt
  <2>4. QueueTypes'
    BY <2>1, <2>2, <2>3 DEF QueueTypes
  <2>5. -2 \in Unread(fromServer', 0)
    BY <2>3 DEF Unread
  <2> QED
    BY <2>4, <2>5 DEF QueueInv, Goes, Queue!QUIT
<1> QED
  BY <1>1, <1>2, TakenInv, LookInv, DelInv, ServedInv DEF Queue!Next

(* Four sets apart have as many members together as each for itself.       *)
LEMMA FourApart ==
  ASSUME NEW A, NEW B, NEW C, NEW D,
         IsFiniteSet(A \union B \union C \union D),
         A \intersect B = {}, A \intersect C = {}, A \intersect D = {},
         B \intersect C = {}, B \intersect D = {}, C \intersect D = {}
  PROVE  /\ IsFiniteSet(A) /\ IsFiniteSet(B) /\ IsFiniteSet(C) /\ IsFiniteSet(D)
         /\ Cardinality(A \union B \union C \union D)
              = Cardinality(A) + Cardinality(B) + Cardinality(C) + Cardinality(D)
<1>1. IsFiniteSet(A) /\ IsFiniteSet(B) /\ IsFiniteSet(C) /\ IsFiniteSet(D)
  BY FS_Subset
<1>2. /\ Cardinality(A) \in Nat /\ Cardinality(B) \in Nat
      /\ Cardinality(C) \in Nat /\ Cardinality(D) \in Nat
  BY <1>1, FS_CardinalityType
<1>3. Cardinality({}) = 0
  BY FS_EmptySet
<1>4. /\ IsFiniteSet(A \union B)
      /\ Cardinality(A \union B) = Cardinality(A) + Cardinality(B) - Cardinality(A \intersect B)
  BY <1>1, FS_Union
<1>5. /\ IsFiniteSet(C \union D)
      /\ Cardinality(C \union D) = Cardinality(C) + Cardinality(D) - Cardinality(C \intersect D)
  BY <1>1, FS_Union
<1>6. Cardinality((A \union B) \union (C \union D))
        = Cardinality(A \union B) + Cardinality(C \union D) - Cardinality((A \union B) \intersect (C \union D))
  BY <1>4, <1>5, FS_Union
<1>7. /\ (A \union B) \union (C \union D) = A \union B \union C \union D
      /\ (A \union B) \intersect (C \union D) = {}
  OBVIOUS
<1>8. /\ Cardinality(A \union B) = Cardinality(A) + Cardinality(B)
      /\ Cardinality(C \union D) = Cardinality(C) + Cardinality(D)
  <2>1. Cardinality(A \intersect B) = 0 /\ Cardinality(C \intersect D) = 0
    BY <1>3, Zenon
  <2> QED
    BY <1>2, <1>4, <1>5, <2>1
<1>9. Cardinality(A \union B \union C \union D) = Cardinality(A \union B) + Cardinality(C \union D)
  <2> DEFINE ab  == Cardinality(A \union B)
             cd  == Cardinality(C \union D)
             cut == Cardinality((A \union B) \intersect (C \union D))
             all == Cardinality((A \union B) \union (C \union D))
  <2>1. ab \in Nat /\ cd \in Nat
    BY <1>4, <1>5, FS_CardinalityType, Zenon
  <2>2. cut = 0
    BY <1>3, <1>7, Zenon
  <2>3. all = Cardinality(A \union B \union C \union D)
    BY <1>7, Zenon
  <2>4. all = ab + cd - cut
    BY <1>6
  <2> HIDE DEF ab, cd, cut, all
  <2>5. all = ab + cd
    BY <2>1, <2>2, <2>4
  <2> QED
    BY <2>3, <2>5, Zenon DEF ab, cd
<1> HIDE DEF IsFiniteSet, Cardinality
<1> QED
  BY <1>1, <1>2, <1>8, <1>9

LEMMA QueueCounts == QueueInv => NumbersAreGiven
<1> SUFFICES ASSUME QueueInv, queue # <<>>, Queue!QUIT \notin Queue!ToSet(fromServer)
             PROVE  LET dels == {requests[i].oid : i \in {j \in DOMAIN requests : requests[j] # Queue!NewObj}}
                        slot == {queue[i] : i \in Queue!Used(queue)}
                        all  == <<held, dels, Queue!ToSet(fromServer), slot>>
                    IN  /\ made = UNION Queue!ToSet(all)
                        /\ Cardinality(made) = Cardinality(held) + Cardinality(dels) + Len(fromServer)
                                               + Cardinality(Queue!Used(queue))
  BY Counted1 DEF NumbersAreGiven, Queue!OneHolder
<1> DEFINE dels == {requests[i].oid : i \in {j \in DOMAIN requests : requests[j] # Queue!NewObj}}
           all == <<held, dels, Queue!ToSet(fromServer), Slots(queue)>>
<1>1. /\ queue \in Seq(Nat \union {-1}) /\ fromServer \in Seq(Nat \union {-2})
      /\ requests \in Seq(Requests)
      /\ held \subseteq Nat /\ made \subseteq Nat /\ IsFiniteSet(made)
      /\ Goes(queue, fromServer, 0, held, requests, made)
  BY DEF QueueInv, QueueTypes
<1>2. Queue!ToSet(fromServer) = Unread(fromServer, 0)
  BY <1>1 DEF Queue!ToSet, Unread
<1>3. Apart(queue, fromServer, 0, held, requests, made)
  BY <1>1, <1>2 DEF Goes
<1>4. dels = Deleted(requests)
  <2>1. DOMAIN requests = 1 .. Len(requests) /\ \A i \in 1 .. Len(requests) : requests[i] \in Requests
    BY <1>1
  <2>2. \A o \in Nat : Del(o).oid = o /\ Del(o) # Queue!NewObj
    BY DEF Del, Queue!NewObj
  <2>3. ASSUME NEW x \in dels PROVE x \in Deleted(requests)
    <3>1. PICK i \in 1 .. Len(requests) : requests[i] # Queue!NewObj /\ x = requests[i].oid
      BY <2>1
    <3>2. PICK o \in Nat : requests[i] = Del(o)
      BY <2>1, <3>1 DEF Requests
    <3> QED
      BY <2>2, <3>1, <3>2 DEF Deleted
  <2>4. ASSUME NEW x \in Deleted(requests) PROVE x \in dels
    <3>1. PICK i \in 1 .. Len(requests) : requests[i] = Del(x) /\ x \in Nat
      BY DEF Deleted
    <3> QED
      BY <2>1, <2>2, <3>1
  <2> QED
    BY <2>3, <2>4
<1> HIDE DEF dels
<1>5. UNION Queue!ToSet(all) = held \union Slots(queue) \union Unread(fromServer, 0) \union Deleted(requests)
  <2> DEFINE f == Queue!ToSet(fromServer)
  <2>3. \A x1, x2, x3, x4 : Queue!ToSet(<<x1, x2, x3, x4>>) = {x1, x2, x3, x4}
    BY DEF Queue!ToSet
  <2>1. Queue!ToSet(all) = {held, dels, Queue!ToSet(fromServer), Slots(queue)}
    BY <2>3
  <2> QED
    BY <1>2, <1>4, <2>1
<1>6. Cardinality(Slots(queue)) = Cardinality(Queue!Used(queue))
  <2>1. IsFiniteSet(1 .. Len(queue)) /\ Queue!Used(queue) \in SUBSET (1 .. Len(queue))
    BY <1>1, UsedIn, FS_Interval
  <2>2. IsFiniteSet(Queue!Used(queue))
    BY <2>1, FS_Subset
  <2>3. Once(queue, Queue!Used(queue))
    BY <1>3 DEF Apart
  <2> QED
    BY <2>2, <2>3, ImageSize DEF Slots
<1>7. Cardinality(Unread(fromServer, 0)) = Len(fromServer)
  <2>1. Len(fromServer) \in Nat
    BY <1>1
  <2>4. IsFiniteSet(1 .. Len(fromServer)) /\ Cardinality(1 .. Len(fromServer)) = Len(fromServer)
    <3> DEFINE m == Len(fromServer)
    <3>1. m \in Nat
      BY <2>1
    <3> HIDE DEF m
    <3>2. IsFiniteSet(1 .. m) /\ Cardinality(1 .. m) = m
      <4>1. 1 \in Int /\ m \in Int /\ m - 1 + 1 = m /\ (1 > m => m = 0)
        BY <3>1
      <4> QED
        BY <3>1, <4>1, FS_Interval
    <3> QED
      BY <3>2 DEF m
  <2>2. IsFiniteSet(0 + 1 .. Len(fromServer)) /\ Cardinality(0 + 1 .. Len(fromServer)) = Len(fromServer)
    <3>1. 0 + 1 .. Len(fromServer) = 1 .. Len(fromServer)
      OBVIOUS
    <3> QED
      BY <2>4, <3>1, Zenon
  <2>3. Once(fromServer, 0 + 1 .. Len(fromServer))
    BY <1>3 DEF Apart
  <2> QED
    BY <2>2, <2>3, ImageSize DEF Unread
<1>8. /\ made = held \union Slots(queue) \union Unread(fromServer, 0) \union Deleted(requests)
      /\ held \intersect Slots(queue) = {} /\ held \intersect Unread(fromServer, 0) = {}
      /\ held \intersect Deleted(requests) = {} /\ Slots(queue) \intersect Unread(fromServer, 0) = {}
      /\ Slots(queue) \intersect Deleted(requests) = {} /\ Unread(fromServer, 0) \intersect Deleted(requests) = {}
  BY <1>3 DEF Apart
<1>9. Cardinality(made) = Cardinality(held) + Cardinality(Slots(queue))
                            + Cardinality(Unread(fromServer, 0)) + Cardinality(Deleted(requests))
  BY <1>1, <1>8, FourApart
<1>10. /\ Cardinality(held) \in Nat /\ Cardinality(Slots(queue)) \in Nat
       /\ Cardinality(Unread(fromServer, 0)) \in Nat /\ Cardinality(Deleted(requests)) \in Nat
  <2>1. /\ IsFiniteSet(held) /\ IsFiniteSet(Slots(queue))
        /\ IsFiniteSet(Unread(fromServer, 0)) /\ IsFiniteSet(Deleted(requests))
    BY <1>1, <1>8, FS_Subset
  <2> QED
    BY <2>1, FS_CardinalityType
<1>11. /\ made = UNION Queue!ToSet(all)
       /\ Cardinality(made) = Cardinality(held) + Cardinality(dels) + Len(fromServer)
                              + Cardinality(Queue!Used(queue))
  <2>1. made = UNION Queue!ToSet(all)
    BY <1>5, <1>8, Zenon
  <2> HIDE DEF all
  <2>2. Cardinality(dels) = Cardinality(Deleted(requests))
    BY <1>4, Zenon
  <2> QED
    BY <1>6, <1>7, <1>9, <1>10, <2>1, <2>2
<1> QED
  BY <1>11 DEF dels, Slots

(* libs3d: however many answers come before or after they are waited for,  *)
(* whatever is deleted meanwhile, and though slots are reused and added, a *)
(* number that the server has in use is in one slot, or the program has    *)
(* it, or it is under way, once (src/libs3d/object_queue.c).               *)
THEOREM NumbersGivenOnce == Queue!Spec => []NumbersAreGiven
<1>1. Queue!Init => QueueInv
  BY QueueInit
<1>2. QueueInv /\ [Queue!Next]_(Queue!vars) => QueueInv'
  BY QueueNext
<1>3. QueueInv => NumbersAreGiven
  BY QueueCounts
<1> QED
  BY <1>1, <1>2, <1>3, PTL DEF Queue!Spec

-----------------------------------------------------------------------------
(* DotMcp: the list of programs of the window manager and the objects that *)
(* the server has, with events and requests under way.                     *)
Note(op, oid) == [op |-> op, oid |-> oid]
OnTheWay(q, m) == \E i \in 1 .. Len(q) : q[i] = m
Seated == {apps[k].oid : k \in 1 .. Len(apps)}      \* the programs in the list

App == [oid : Mcp!Oids, init : BOOLEAN, close_but : Mcp!Oids \union {-1},
        min_but : Mcp!Oids \union {-1}, sphere : Mcp!Oids \union {-1}]
Events == [op : {"OBJ", "DEL", "CLICK"}, oid : Mcp!Oids]
Orders == [op : {"DEL", "FOCUS"}, oid : Mcp!Oids \union {-1}]
McpTypes ==
  /\ \A o \in DOMAIN objects : o \in Mcp!Oids /\ objects[o] \in {"virtual", "own"}
  /\ toMcp \in Seq(Events) /\ orders \in Seq(Orders) /\ starts \in Nat
  /\ apps \in Seq(App)
  /\ focus \in Mcp!Oids \union {-1}

(* Whoever is announced is there, or its end is announced later.           *)
Announced(q, programs) ==
  \A i \in 1 .. Len(q) : q[i].op = "OBJ" =>
     q[i].oid \in programs \/ \E j \in i + 1 .. Len(q) : q[j] = Note("DEL", q[i].oid)

(* No two entries are of one program, or share a decoration; decorations   *)
(* are objects, and nobody deletes those of an entry in the list.          *)
Dressed(tab, list, q) ==
  /\ \A i, j \in 1 .. Len(list) : i # j =>
        list[i].oid # list[j].oid /\ Mcp!Decor(list[i]) \intersect Mcp!Decor(list[j]) = {}
  /\ \A k \in 1 .. Len(list) :
        IF list[k].init
        THEN \A w \in Mcp!Decor(list[k]) :
                w \in DOMAIN tab /\ tab[w] = "own" /\ ~ OnTheWay(q, Note("DEL", w))
        ELSE list[k].close_but = -1 /\ list[k].min_but = -1 /\ list[k].sphere = -1
  /\ \A w \in DOMAIN tab : tab[w] = "own" =>
        OnTheWay(q, Note("DEL", w)) \/ \E k \in 1 .. Len(list) : w \in Mcp!Decor(list[k])

(* The last word about the focus is what dot_mcp has, or the server has    *)
(* had it, and knows that the program is gone.                             *)
LastFocus(q, f) ==
  \E i \in 1 .. Len(q) : q[i] = Note("FOCUS", f) /\ \A j \in i + 1 .. Len(q) : q[j].op # "FOCUS"
NoFocus(q) == \A i \in 1 .. Len(q) : q[i].op # "FOCUS"
FocusTold == \/ LastFocus(orders, focus)
             \/ NoFocus(orders) /\ (srvFocus = focus \/ (srvFocus = -1 /\ OnTheWay(toMcp, Note("DEL", focus))))

McpKnows ==
  /\ \A o \in Mcp!Oids : OnTheWay(toMcp, Note("DEL", o)) => o \notin DOMAIN objects
  /\ \A o \in Mcp!OfKind("virtual") :
        o \in Seated \/ OnTheWay(toMcp, Note("OBJ", o)) \/ OnTheWay(orders, Note("DEL", o))
  /\ \A o \in Seated : o \in Mcp!OfKind("virtual") \/ OnTheWay(toMcp, Note("DEL", o))
  /\ Announced(toMcp, Mcp!OfKind("virtual"))

(* Who is closed was told to.                                              *)
Closing ==
  /\ \A k \in 1 .. Len(apps) :
        OnTheWay(toMcp, Note("CLICK", apps[k].close_but)) => apps[k].oid \in closed
  /\ \A o \in Mcp!OfKind("virtual") : OnTheWay(orders, Note("DEL", o)) => o \in closed
  /\ killed \subseteq closed

McpInv == /\ McpTypes
          /\ McpKnows
          /\ Dressed(objects, apps, orders)
          /\ focus \in Seated \union {-1}
          /\ FocusTold
          /\ Closing

LEMMA WayAppend ==
  ASSUME NEW S, NEW q \in Seq(S), NEW m \in S, NEW x
  PROVE  OnTheWay(Append(q, m), x) <=> OnTheWay(q, x) \/ x = m
<1> DEFINE new == Append(q, m)
<1>1. /\ Len(q) \in Nat /\ Len(new) = Len(q) + 1 /\ new[Len(q) + 1] = m
      /\ \A i \in 1 .. Len(q) : new[i] = q[i]
  BY AppendAt
<1> HIDE DEF new
<1>2. OnTheWay(new, x) => OnTheWay(q, x) \/ x = m
  BY <1>1 DEF OnTheWay
<1>3. OnTheWay(q, x) => OnTheWay(new, x)
  BY <1>1 DEF OnTheWay
<1>4. x = m => OnTheWay(new, x)
  <2>1. Len(q) + 1 \in 1 .. Len(new)
    BY <1>1
  <2> QED
    BY <1>1, <2>1 DEF OnTheWay
<1> QED
  BY <1>2, <1>3, <1>4 DEF new

LEMMA WayTail ==
  ASSUME NEW S, NEW q \in Seq(S), q # <<>>, NEW x
  PROVE  OnTheWay(q, x) <=> q[1] = x \/ OnTheWay(Tail(q), x)
<1> DEFINE new == Tail(q)
<1>1. /\ Len(q) \in Nat \ {0} /\ Len(new) = Len(q) - 1
      /\ \A i \in 1 .. Len(q) - 1 : new[i] = q[i + 1]
  BY TailAt
<1> HIDE DEF new
<1>2. ASSUME NEW i \in 1 .. Len(q), q[i] = x, i # 1 PROVE OnTheWay(new, x)
  <2>1. i - 1 \in 1 .. Len(new) /\ new[i - 1] = q[i]
    BY <1>1, <1>2
  <2> QED
    BY <1>2, <2>1 DEF OnTheWay
<1>3. ASSUME NEW i \in 1 .. Len(new), new[i] = x PROVE OnTheWay(q, x)
  <2>1. i + 1 \in 1 .. Len(q) /\ new[i] = q[i + 1]
    BY <1>1
  <2> QED
    BY <1>3, <2>1 DEF OnTheWay
<1>4. 1 \in 1 .. Len(q)
  BY <1>1
<1> QED
  BY <1>2, <1>3, <1>4 DEF OnTheWay, new

LEMMA ConcatAt ==
  ASSUME NEW S, NEW q \in Seq(S), NEW r \in Seq(S)
  PROVE  /\ q \o r \in Seq(S) /\ Len(q) \in Nat /\ Len(r) \in Nat /\ Len(q \o r) = Len(q) + Len(r)
         /\ \A i \in 1 .. Len(q) : (q \o r)[i] = q[i]
         /\ \A i \in 1 .. Len(r) : (q \o r)[Len(q) + i] = r[i]
<1>1. Len(q) \in Nat /\ Len(r) \in Nat
  OBVIOUS
<1>2. /\ q \o r \in Seq(S) /\ Len(q \o r) = Len(q) + Len(r)
      /\ \A i \in 1 .. Len(q) + Len(r) : (q \o r)[i] = IF i <= Len(q) THEN q[i] ELSE r[i - Len(q)]
  BY ConcatProperties
<1>3. ASSUME NEW i \in 1 .. Len(r) PROVE (q \o r)[Len(q) + i] = r[i]
  <2>1. Len(q) + i \in 1 .. Len(q) + Len(r) /\ ~ (Len(q) + i <= Len(q)) /\ Len(q) + i - Len(q) = i
    BY <1>1
  <2> QED
    BY <1>2, <2>1
<1> QED
  BY <1>1, <1>2, <1>3

LEMMA WayConcat ==
  ASSUME NEW S, NEW q \in Seq(S), NEW r \in Seq(S), NEW x
  PROVE  OnTheWay(q \o r, x) <=> OnTheWay(q, x) \/ OnTheWay(r, x)
<1> DEFINE new == q \o r
<1>1. /\ Len(q) \in Nat /\ Len(r) \in Nat /\ Len(new) = Len(q) + Len(r)
      /\ \A i \in 1 .. Len(q) : new[i] = q[i]
      /\ \A i \in 1 .. Len(r) : new[Len(q) + i] = r[i]
  BY ConcatAt
<1> HIDE DEF new
<1>2. ASSUME NEW i \in 1 .. Len(new), new[i] = x PROVE OnTheWay(q, x) \/ OnTheWay(r, x)
  <2>1. CASE i <= Len(q)
    BY <1>1, <1>2, <2>1 DEF OnTheWay
  <2>2. CASE i > Len(q)
    <3>1. i - Len(q) \in 1 .. Len(r) /\ Len(q) + (i - Len(q)) = i
      BY <1>1, <2>2
    <3>2. r[i - Len(q)] = x
      BY <1>1, <1>2, <3>1
    <3> QED
      BY <3>1, <3>2 DEF OnTheWay
  <2> QED
    BY <1>1, <2>1, <2>2
<1>3. OnTheWay(q, x) => OnTheWay(new, x)
  BY <1>1 DEF OnTheWay
<1>4. ASSUME NEW i \in 1 .. Len(r), r[i] = x PROVE OnTheWay(new, x)
  <2>1. Len(q) + i \in 1 .. Len(new) /\ new[Len(q) + i] = x
    BY <1>1, <1>4
  <2> QED
    BY <2>1 DEF OnTheWay
<1> QED
  BY <1>2, <1>3, <1>4 DEF OnTheWay, new

LEMMA RemoveAtIn ==
  ASSUME NEW S, NEW q \in Seq(S), NEW k \in 1 .. Len(q)
  PROVE  /\ Mcp!RemoveAt(q, k) \in Seq(S) /\ Len(Mcp!RemoveAt(q, k)) = Len(q) - 1
         /\ \A i \in 1 .. Len(q) - 1 : Mcp!RemoveAt(q, k)[i] = q[IF i < k THEN i ELSE i + 1]
<1> DEFINE a == SubSeq(q, 1, k - 1)
           b == SubSeq(q, k + 1, Len(q))
<1>1. Len(q) \in Nat /\ k \in Nat /\ k # 0 /\ k <= Len(q)
  OBVIOUS
<1>2. a \in Seq(S) /\ Len(a) = k - 1 /\ \A i \in 1 .. k - 1 : a[i] = q[i]
  OBVIOUS
<1>3. b \in Seq(S) /\ Len(b) = Len(q) - k /\ \A i \in 1 .. Len(q) - k : b[i] = q[k + i]
  OBVIOUS
<1>4. Mcp!RemoveAt(q, k) = a \o b
  BY DEF Mcp!RemoveAt
<1> HIDE DEF a, b
<1>5. /\ a \o b \in Seq(S) /\ Len(a \o b) = Len(a) + Len(b)
      /\ \A i \in 1 .. Len(a) : (a \o b)[i] = a[i]
      /\ \A i \in 1 .. Len(b) : (a \o b)[Len(a) + i] = b[i]
  <2>1. a \in Seq(S) /\ b \in Seq(S)
    BY <1>2, <1>3
  <2> QED
    BY ONLY <2>1, ConcatAt
<1>6. ASSUME NEW i \in 1 .. Len(q) - 1 PROVE (a \o b)[i] = q[IF i < k THEN i ELSE i + 1]
  <2>1. CASE i < k
    BY <1>1, <1>2, <1>5, <2>1
  <2>2. CASE ~ (i < k)
    <3>1. i - (k - 1) \in 1 .. Len(b) /\ Len(a) + (i - (k - 1)) = i /\ k + (i - (k - 1)) = i + 1
      BY <1>1, <1>2, <1>3, <2>2
    <3> QED
      BY <1>3, <1>5, <2>2, <3>1
  <2> QED
    BY <2>1, <2>2
<1> QED
  BY <1>1, <1>2, <1>3, <1>4, <1>5, <1>6

LEMMA AnnounceAppend ==
  ASSUME NEW q \in Seq(Events), NEW P, NEW R,
         NEW m \in Events,
         Announced(q, P), \A o \in P : o \in R \/ m = Note("DEL", o), m.op = "OBJ" => m.oid \in R
  PROVE  Announced(Append(q, m), R)
<1> DEFINE new == Append(q, m)
<1>1. /\ Len(q) \in Nat /\ Len(new) = Len(q) + 1 /\ new[Len(q) + 1] = m
      /\ \A i \in 1 .. Len(q) : new[i] = q[i]
  BY AppendAt
<1> HIDE DEF new
<1> SUFFICES ASSUME NEW i \in 1 .. Len(new), new[i].op = "OBJ", new[i].oid \notin R
             PROVE  \E j \in i + 1 .. Len(new) : new[j] = Note("DEL", new[i].oid)
  BY DEF Announced, new
<1>2. i \in 1 .. Len(q) /\ new[i] = q[i]
  BY <1>1
<1>3. CASE q[i].oid \in P
  <2>1. m = Note("DEL", q[i].oid)
    BY <1>2, <1>3
  <2>2. Len(q) + 1 \in i + 1 .. Len(new)
    BY <1>1, <1>2
  <2> QED
    BY <1>1, <1>2, <2>1, <2>2
<1>4. CASE q[i].oid \notin P
  <2>1. PICK j \in i + 1 .. Len(q) : q[j] = Note("DEL", q[i].oid)
    BY <1>2, <1>4 DEF Announced
  <2>2. j \in i + 1 .. Len(new) /\ new[j] = q[j]
    BY <1>1, <1>2, <2>1
  <2> QED
    BY <1>2, <2>1, <2>2
<1> QED
  BY <1>3, <1>4

LEMMA AnnounceTail ==
  ASSUME NEW q \in Seq(Events), NEW P,
         Announced(q, P), q # <<>>
  PROVE  /\ Announced(Tail(q), P)
         /\ q[1].op = "OBJ" => q[1].oid \in P \/ OnTheWay(Tail(q), Note("DEL", q[1].oid))
<1> DEFINE new == Tail(q)
<1>1. /\ Len(q) \in Nat \ {0} /\ Len(new) = Len(q) - 1
      /\ \A i \in 1 .. Len(q) - 1 : new[i] = q[i + 1]
  BY TailAt
<1> HIDE DEF new
<1>2. ASSUME NEW j \in 2 .. Len(q) PROVE j - 1 \in 1 .. Len(new) /\ new[j - 1] = q[j]
  BY <1>1
<1>3. ASSUME NEW i \in 1 .. Len(new), new[i].op = "OBJ", new[i].oid \notin P
      PROVE  \E j \in i + 1 .. Len(new) : new[j] = Note("DEL", new[i].oid)
  <2>1. i + 1 \in 1 .. Len(q) /\ new[i] = q[i + 1]
    BY <1>1
  <2>2. PICK j \in (i + 1) + 1 .. Len(q) : q[j] = Note("DEL", q[i + 1].oid)
    BY <1>3, <2>1 DEF Announced
  <2>3. j \in 2 .. Len(q) /\ j - 1 \in i + 1 .. Len(new)
    BY <1>1
  <2> QED
    BY <1>2, <2>1, <2>2, <2>3
<1>4. ASSUME q[1].op = "OBJ", q[1].oid \notin P PROVE OnTheWay(new, Note("DEL", q[1].oid))
  <2>1. 1 \in 1 .. Len(q)
    BY <1>1
  <2>2. PICK j \in 1 + 1 .. Len(q) : q[j] = Note("DEL", q[1].oid)
    BY <1>4, <2>1 DEF Announced
  <2> QED
    BY <1>2, <2>2 DEF OnTheWay
<1> QED
  BY <1>3, <1>4 DEF Announced, new

LEMMA FocusBehind ==
  ASSUME NEW S, NEW q \in Seq(S), NEW r \in Seq(S), \A i \in 1 .. Len(r) : r[i].op # "FOCUS", NEW f
  PROVE  /\ LastFocus(q, f) => LastFocus(q \o r, f)
         /\ NoFocus(q) => NoFocus(q \o r)
<1> DEFINE new == q \o r
<1>1. /\ Len(q) \in Nat /\ Len(r) \in Nat /\ Len(new) = Len(q) + Len(r)
      /\ \A i \in 1 .. Len(q) : new[i] = q[i]
      /\ \A i \in 1 .. Len(r) : new[Len(q) + i] = r[i]
  BY ConcatAt
<1> HIDE DEF new
<1>2. ASSUME NEW i \in 1 .. Len(new), i \notin 1 .. Len(q) PROVE new[i].op # "FOCUS"
  <2>1. i - Len(q) \in 1 .. Len(r) /\ Len(q) + (i - Len(q)) = i
    BY <1>1, <1>2
  <2>2. new[i] = r[i - Len(q)]
    BY <1>1, <2>1
  <2> QED
    BY <2>1, <2>2
<1>3. NoFocus(q) => NoFocus(new)
  BY <1>1, <1>2 DEF NoFocus
<1>4. ASSUME LastFocus(q, f) PROVE LastFocus(new, f)
  <2>1. PICK i \in 1 .. Len(q) : q[i] = Note("FOCUS", f) /\ \A j \in i + 1 .. Len(q) : q[j].op # "FOCUS"
    BY <1>4 DEF LastFocus
  <2>2. i \in 1 .. Len(new) /\ new[i] = Note("FOCUS", f)
    BY <1>1, <2>1
  <2>3. ASSUME NEW j \in i + 1 .. Len(new) PROVE new[j].op # "FOCUS"
    <3>1. j \in 1 .. Len(new)
      BY <1>1
    <3>2. CASE j \in 1 .. Len(q)
      <4>1. j \in i + 1 .. Len(q)
        BY <1>1, <3>2
      <4> QED
        BY <1>1, <2>1, <3>2, <4>1
    <3> QED
      BY <1>2, <3>1, <3>2
  <2> QED
    BY <2>2, <2>3 DEF LastFocus
<1> QED
  BY <1>3, <1>4 DEF new

LEMMA FocusAppend ==
  ASSUME NEW S, NEW q \in Seq(S), NEW f, Note("FOCUS", f) \in S
  PROVE  LastFocus(Append(q, Note("FOCUS", f)), f)
<1> DEFINE new == Append(q, Note("FOCUS", f))
<1>1. Len(q) \in Nat /\ Len(new) = Len(q) + 1 /\ new[Len(q) + 1] = Note("FOCUS", f)
  BY AppendAt
<1> HIDE DEF new
<1>2. Len(q) + 1 \in 1 .. Len(new) /\ (Len(q) + 1) + 1 .. Len(new) = {}
  BY <1>1
<1> QED
  BY <1>1, <1>2 DEF LastFocus, new

LEMMA FocusTail ==
  ASSUME NEW S, NEW q \in Seq(S), q # <<>>, NEW f
  PROVE  /\ NoFocus(q) => NoFocus(Tail(q))
         /\ LastFocus(q, f) => \/ LastFocus(Tail(q), f)
                               \/ q[1] = Note("FOCUS", f) /\ NoFocus(Tail(q))
<1> DEFINE new == Tail(q)
<1>1. /\ Len(q) \in Nat \ {0} /\ Len(new) = Len(q) - 1
      /\ \A i \in 1 .. Len(q) - 1 : new[i] = q[i + 1]
  BY TailAt
<1> HIDE DEF new
<1>2. ASSUME NEW i \in 1 .. Len(new) PROVE i + 1 \in 1 .. Len(q) /\ new[i] = q[i + 1]
  BY <1>1
<1>3. NoFocus(q) => NoFocus(new)
  BY <1>2 DEF NoFocus
<1>4. ASSUME LastFocus(q, f) PROVE LastFocus(new, f) \/ (q[1] = Note("FOCUS", f) /\ NoFocus(new))
  <2>1. PICK i \in 1 .. Len(q) : q[i] = Note("FOCUS", f) /\ \A j \in i + 1 .. Len(q) : q[j].op # "FOCUS"
    BY <1>4 DEF LastFocus
  <2>2. CASE i = 1
    <3>1. ASSUME NEW j \in 1 .. Len(new) PROVE new[j].op # "FOCUS"
      <4>1. j + 1 \in i + 1 .. Len(q)
        BY <1>1, <2>2
      <4> QED
        BY <1>2, <2>1, <4>1
    <3> QED
      BY <2>1, <2>2, <3>1 DEF NoFocus
  <2>3. CASE i # 1
    <3>1. i - 1 \in 1 .. Len(new) /\ new[i - 1] = q[i]
      BY <1>1, <2>3
    <3>2. ASSUME NEW j \in (i - 1) + 1 .. Len(new) PROVE new[j].op # "FOCUS"
      <4>1. j + 1 \in i + 1 .. Len(q) /\ j \in 1 .. Len(new)
        BY <1>1
      <4> QED
        BY <1>2, <2>1, <4>1
    <3> QED
      BY <2>1, <3>1, <3>2 DEF LastFocus
  <2> QED
    BY <2>2, <2>3
<1> QED
  BY <1>3, <1>4 DEF new

Bare(o) == [oid |-> o, init |-> FALSE, close_but |-> -1, min_but |-> -1, sphere |-> -1]
(* What dot_mcp makes of an event: an entry more, an entry less, or        *)
(* another focus.                                                          *)
Focuses(f) == /\ apps' = apps /\ focus' = f
              /\ orders' = Append(orders, Note("FOCUS", f))
Drops(k) == /\ apps' = Mcp!RemoveAt(apps, k)
            /\ LET d == orders \o Mcp!Deletions(apps[k])
               IN  IF focus = apps[k].oid THEN focus' = -1 /\ orders' = Append(d, Note("FOCUS", -1))
                   ELSE focus' = focus /\ orders' = d

LEMMA DeletionsIn ==
  ASSUME NEW a \in App, a.init => Mcp!Decor(a) \subseteq Mcp!Oids
  PROVE  /\ Mcp!Deletions(a) \in Seq(Orders)
         /\ \A i \in 1 .. Len(Mcp!Deletions(a)) : Mcp!Deletions(a)[i].op = "DEL"
         /\ \A o : OnTheWay(Mcp!Deletions(a), Note("DEL", o)) <=> a.init /\ o \in Mcp!Decor(a) \union {a.oid}
<1>1. CASE ~ a.init
  <2>1. Mcp!Deletions(a) = <<>>
    BY <1>1 DEF Mcp!Deletions
  <2>2. Len(<<>>) = 0 /\ <<>> \in Seq(Orders)
    OBVIOUS
  <2> QED
    BY <1>1, <2>1, <2>2 DEF OnTheWay
<1>2. CASE a.init
  <2> DEFINE t == <<a.close_but, a.min_but, a.sphere, a.oid>>
             d == [i \in 1 .. 4 |-> [op |-> "DEL", oid |-> t[i]]]
  <2>1. Mcp!Deletions(a) = d
    BY <1>2 DEF Mcp!Deletions
  <2>2. a.oid \in Mcp!Oids /\ a.close_but \in Mcp!Oids /\ a.min_but \in Mcp!Oids /\ a.sphere \in Mcp!Oids
    BY <1>2 DEF App, Mcp!Decor
  <2>3. /\ t[1] = a.close_but /\ t[2] = a.min_but /\ t[3] = a.sphere /\ t[4] = a.oid
        /\ \A i \in 1 .. 4 : t[i] \in Mcp!Oids
    BY <2>2
  <2> HIDE DEF t
  <2>4. d \in Seq(Orders) /\ Len(d) = 4
    <3>1. \A i \in 1 .. 4 : [op |-> "DEL", oid |-> t[i]] \in Orders
      BY <2>3 DEF Orders
    <3>2. d \in [1 .. 4 -> Orders]
      BY <3>1
    <3> HIDE DEF d
    <3>3. 4 \in Nat
      OBVIOUS
    <3>4. d \in Seq(Orders)
      <4> DEFINE T == {[1 .. n -> Orders] : n \in Nat}
      <4>1. [1 .. 4 -> Orders] \in T
        BY <3>3, Zenon
      <4>2. Seq(Orders) = UNION T
        BY SeqDef, Zenon
      <4> HIDE DEF T
      <4> QED
        BY <3>2, <4>1, <4>2, Zenon
    <3> QED
      BY <3>2, <3>3, <3>4
  <2>5. \A i \in 1 .. 4 : d[i] = Note("DEL", t[i])
    BY DEF Note
  <2> HIDE DEF d
  <2>6. \A i \in 1 .. 4 : \A o : d[i] = Note("DEL", o) <=> t[i] = o
    BY <2>5 DEF Note
  <2>7. \A o : o \in Mcp!Decor(a) \union {a.oid} <=> o = t[1] \/ o = t[2] \/ o = t[3] \/ o = t[4]
    BY <1>2, <2>3 DEF Mcp!Decor
  <2>8. \A o : OnTheWay(d, Note("DEL", o)) <=> o = t[1] \/ o = t[2] \/ o = t[3] \/ o = t[4]
    <3> SUFFICES ASSUME NEW o
                 PROVE  (\E i \in 1 .. 4 : d[i] = Note("DEL", o)) <=> o = t[1] \/ o = t[2] \/ o = t[3] \/ o = t[4]
      BY <2>4 DEF OnTheWay
    <3>1. 1 \in 1 .. 4 /\ 2 \in 1 .. 4 /\ 3 \in 1 .. 4 /\ 4 \in 1 .. 4
          /\ \A i \in 1 .. 4 : i = 1 \/ i = 2 \/ i = 3 \/ i = 4
      OBVIOUS
    <3> QED
      BY <2>6, <3>1
  <2>9. \A i \in 1 .. 4 : d[i].op = "DEL"
    BY <2>5 DEF Note
  <2> QED
    BY <1>2, <2>1, <2>4, <2>7, <2>8, <2>9
<1> QED
  BY <1>1, <1>2

LEMMA Sent ==
  ASSUME NEW d \in Seq(Orders), NEW m \in Orders, NEW q \in Seq(Orders)
  PROVE  q \o (<<>> \o d) = q \o d /\ q \o Append(<<>> \o d, m) = Append(q \o d, m)
<1>1. <<>> \o d = d
  BY ConcatEmptySeq
<1>2. q \o Append(d, m) = Append(q \o d, m)
  BY AppendIsConcat, ConcatAssociative
<1> QED
  BY <1>1, <1>2

(* What is left of a state when an entry is taken out, ...                 *)
LEMMA TakenOut ==
  ASSUME NEW st, NEW k,
         st = [table |-> objects, apps |-> apps, focus |-> focus, out |-> <<>>]
  PROVE  [st EXCEPT !.apps = Mcp!RemoveAt(@, k), !.out = @ \o Mcp!Deletions(st.apps[k])]
           = [table |-> objects, apps |-> Mcp!RemoveAt(apps, k), focus |-> focus,
              out |-> <<>> \o Mcp!Deletions(apps[k])]
<1> DEFINE x == Mcp!RemoveAt(apps, k)
           s1 == [st EXCEPT !.apps = x]
<1>1. st.apps = apps /\ st.out = <<>>
  OBVIOUS
<1> HIDE DEF x
<1>2. s1 = [table |-> objects, apps |-> x, focus |-> focus, out |-> <<>>]
  OBVIOUS
<1> HIDE DEF s1
<1>3. ASSUME NEW y
      PROVE  [s1 EXCEPT !.out = y] = [table |-> objects, apps |-> x, focus |-> focus, out |-> y]
  BY <1>2
<1>4. s1.out = <<>>
  BY <1>2
<1> QED
  BY <1>1, <1>3, <1>4 DEF s1, x

(* ... and when the focus is set.                                          *)
LEMMA FocusSet ==
  ASSUME NEW st, NEW a, NEW b, NEW c, NEW d, NEW f,
         st = [table |-> a, apps |-> b, focus |-> c, out |-> d]
  PROVE  Mcp!set_focus(st, f) = [table |-> a, apps |-> b, focus |-> f, out |-> Append(d, Note("FOCUS", f))]
<1> DEFINE s1 == [st EXCEPT !.focus = f]
<1>1. s1 = [table |-> a, apps |-> b, focus |-> f, out |-> d]
  OBVIOUS
<1>2. Mcp!set_focus(st, f) = [s1 EXCEPT !.out = Append(s1.out, Note("FOCUS", f))]
  BY DEF Mcp!set_focus, Mcp!Send, Note
<1> HIDE DEF s1
<1>3. s1.out = d
  BY <1>1
<1>4. ASSUME NEW y
      PROVE  [s1 EXCEPT !.out = y] = [table |-> a, apps |-> b, focus |-> f, out |-> y]
  BY <1>1
<1> QED
  BY <1>2, <1>3, <1>4

LEMMA Turned ==
  ASSUME NEW st, NEW a, NEW b, NEW c, NEW d,
         st = [table |-> a, apps |-> b, focus |-> c, out |-> d], Mcp!Callback(st)
  PROVE  objects' = a /\ apps' = b /\ focus' = c /\ orders' = orders \o d
BY DEF Mcp!Callback

LEMMA DelAppDrops ==
  ASSUME McpInv, NEW o, Mcp!Callback(Mcp!del_app(Mcp!State, o))
  PROVE  /\ objects' = objects
         /\ \/ o \notin Seated /\ UNCHANGED <<apps, focus, orders>>
            \/ \E k \in 1 .. Len(apps) : apps[k].oid = o /\ Drops(k)
<1> DEFINE st == Mcp!State
           k == CHOOSE x \in Mcp!find_app(st, o) : TRUE
<1>1. apps \in Seq(App) /\ orders \in Seq(Orders) /\ Dressed(objects, apps, orders)
  BY DEF McpInv, McpTypes
<1>2. st = [table |-> objects, apps |-> apps, focus |-> focus, out |-> <<>>]
  BY DEF Mcp!State
<1>3. Mcp!find_app(st, o) = {x \in 1 .. Len(apps) : apps[x].oid = o}
  BY <1>1, <1>2 DEF Mcp!find_app
<1>4. CASE Mcp!find_app(st, o) = {}
  <2>1. Mcp!del_app(st, o) = st
    BY <1>4 DEF Mcp!del_app
  <2>2. orders \o <<>> = orders
    BY <1>1, ConcatEmptySeq
  <2>3. o \notin Seated
    BY <1>3, <1>4 DEF Seated
  <2> HIDE DEF st
  <2>4. Mcp!Callback(st)
    BY <2>1 DEF st
  <2>5. objects' = objects /\ apps' = apps /\ focus' = focus /\ orders' = orders \o <<>>
    BY <1>2, <2>4, Turned
  <2> QED
    BY <2>2, <2>3, <2>5
<1>5. CASE Mcp!find_app(st, o) # {}
  <2>1. k \in 1 .. Len(apps) /\ apps[k].oid = o
    BY <1>3, <1>5
  <2> HIDE DEF k
  <2> DEFINE d == Mcp!Deletions(apps[k])
             s2 == [st EXCEPT !.apps = Mcp!RemoveAt(@, k), !.out = @ \o Mcp!Deletions(st.apps[k])]
  <2>2. Mcp!del_app(st, o) = IF st.focus = o THEN Mcp!set_focus(s2, -1) ELSE s2
    BY <1>5 DEF Mcp!del_app, k
  <2> HIDE DEF st
  <2>3. s2 = [table |-> objects, apps |-> Mcp!RemoveAt(apps, k), focus |-> focus, out |-> <<>> \o d]
    BY <1>2, TakenOut
  <2>4. d \in Seq(Orders)
    <3>1. apps[k] \in App
      BY <1>1, <2>1
    <3>2. apps[k].init => Mcp!Decor(apps[k]) \subseteq Mcp!Oids
      BY <1>1, <2>1 DEF Dressed, McpInv, McpTypes
    <3> QED
      BY <3>1, <3>2, DeletionsIn
  <2>7. st.focus = focus /\ Mcp!Callback(Mcp!del_app(st, o))
    BY <1>2 DEF st
  <2> HIDE DEF s2, d
  <2>5. CASE focus = o
    <3>1. Mcp!set_focus(s2, -1) = [table |-> objects, apps |-> Mcp!RemoveAt(apps, k), focus |-> -1,
                                   out |-> Append(<<>> \o d, Note("FOCUS", -1))]
      BY <2>3, FocusSet, SMTT(20)
    <3>2. Mcp!Callback(Mcp!set_focus(s2, -1))
      BY <2>2, <2>5, <2>7
    <3>3. /\ objects' = objects /\ apps' = Mcp!RemoveAt(apps, k) /\ focus' = -1
          /\ orders' = orders \o Append(<<>> \o d, Note("FOCUS", -1))
      BY <3>1, <3>2, Turned
    <3>4. Note("FOCUS", -1) \in Orders
      BY DEF Note, Orders
    <3>5. orders' = Append(orders \o d, Note("FOCUS", -1))
      BY <1>1, <2>4, <3>3, <3>4, Sent
    <3>6. Drops(k)
      BY <2>1, <2>5, <3>3, <3>5 DEF Drops, d
    <3> QED
      BY <2>1, <3>3, <3>6
  <2>6. CASE focus # o
    <3>1. Mcp!Callback(s2)
      BY <2>2, <2>6, <2>7
    <3>2. /\ objects' = objects /\ apps' = Mcp!RemoveAt(apps, k) /\ focus' = focus
          /\ orders' = orders \o (<<>> \o d)
      BY <2>3, <3>1, Turned
    <3>3. <<>> \o d = d
      BY <2>4, ConcatEmptySeq
    <3>4. Drops(k)
      BY <2>1, <2>6, <3>2, <3>3 DEF Drops, d
    <3> QED
      BY <2>1, <3>2, <3>4
  <2> QED
    BY <2>5, <2>6
<1> QED
  BY <1>4, <1>5

LEMMA ClickDoes ==
  ASSUME McpInv, NEW o \in Mcp!Oids, Mcp!Callback(Mcp!object_click(Mcp!State, o))
  PROVE  /\ objects' = objects
         /\ \/ UNCHANGED <<apps, focus, orders>>
            \/ \E k \in 1 .. Len(apps) : apps[k].close_but = o /\ Drops(k)
            \/ \E f \in Seated \union {-1} : Focuses(f)
<1> DEFINE st  == Mcp!State
           hit == {k \in DOMAIN st.apps : o \in Mcp!Decor(st.apps[k]) \cup {st.apps[k].oid}}
           k   == CHOOSE x \in hit : \A y \in hit : x <= y
<1>1. apps \in Seq(App) /\ orders \in Seq(Orders) /\ Dressed(objects, apps, orders)
  BY DEF McpInv, McpTypes
<1>2. st = [table |-> objects, apps |-> apps, focus |-> focus, out |-> <<>>]
  BY DEF Mcp!State
<1>a. st.apps = apps /\ st.focus = focus
  BY <1>2
<1>3. hit = {x \in 1 .. Len(apps) : o \in Mcp!Decor(apps[x]) \cup {apps[x].oid}}
  BY <1>1, <1>a
<1>4. ASSUME Mcp!Callback(st) PROVE UNCHANGED <<objects, apps, focus, orders>>
  <2> HIDE DEF st
  <2>1. objects' = objects /\ apps' = apps /\ focus' = focus /\ orders' = orders \o <<>>
    BY <1>2, <1>4, Turned
  <2>2. orders \o <<>> = orders
    BY <1>1, ConcatEmptySeq
  <2> QED
    BY <2>1, <2>2
<1>5. ASSUME NEW f \in Seated \union {-1}, Mcp!Callback(Mcp!set_focus(st, f)) PROVE objects' = objects /\ Focuses(f)
  <2> HIDE DEF st
  <2>1. Mcp!set_focus(st, f) = [table |-> objects, apps |-> apps, focus |-> f, out |-> Append(<<>>, Note("FOCUS", f))]
    BY <1>2, FocusSet
  <2>2. objects' = objects /\ apps' = apps /\ focus' = f /\ orders' = orders \o Append(<<>>, Note("FOCUS", f))
    BY <1>5, <2>1, Turned
  <2>3. Note("FOCUS", f) \in Orders
    <3>1. f \in Mcp!Oids \union {-1}
      <4>1. \A x \in 1 .. Len(apps) : apps[x] \in App
        BY <1>1
      <4>2. \A x \in 1 .. Len(apps) : apps[x].oid \in Mcp!Oids
        BY <4>1 DEF App
      <4> QED
        BY <4>2 DEF Seated
    <3> QED
      BY <3>1 DEF Note, Orders
  <2>4. orders \o Append(<<>>, Note("FOCUS", f)) = Append(orders, Note("FOCUS", f))
    <3>1. <<>> \in Seq(Orders) /\ <<>> \o <<>> = <<>> /\ orders \o <<>> = orders
      BY <1>1, ConcatEmptySeq
    <3> QED
      BY <1>1, <2>3, <3>1, Sent
  <2> QED
    BY <2>2, <2>4 DEF Focuses
<1>6. CASE hit = {}
  <2>1. Mcp!object_click(st, o) = st
    BY <1>6 DEF Mcp!object_click
  <2> QED
    BY <1>4, <2>1
<1>7. CASE hit # {}
  <2>1. k \in hit
    <3>1. hit \in SUBSET Nat
      BY <1>1, <1>3
    <3> HIDE DEF hit
    <3>2. \E x \in hit : \A y \in hit : x <= y
      BY <1>7, <3>1, Smallest
    <3> QED
      BY <3>2
  <2>2. k \in 1 .. Len(apps) /\ apps[k].oid \in Seated
    BY <1>3, <2>1 DEF Seated
  <2>3. Mcp!object_click(st, o) =
          IF o = apps[k].close_but THEN Mcp!del_app(st, apps[k].oid)
          ELSE IF o = apps[k].min_but THEN (IF focus = apps[k].oid THEN Mcp!set_focus(st, -1) ELSE st)
          ELSE Mcp!set_focus(st, apps[k].oid)
    BY <1>7, <1>a DEF Mcp!object_click
  <2> HIDE DEF k, hit, st
  <2>4. Mcp!Callback(Mcp!object_click(st, o))
    BY DEF st
  <2>5. CASE o = apps[k].close_but
    <3>1. Mcp!Callback(Mcp!del_app(Mcp!State, apps[k].oid))
      BY <2>3, <2>4, <2>5 DEF st
    <3>2. /\ objects' = objects
          /\ \/ UNCHANGED <<apps, focus, orders>>
             \/ \E j \in 1 .. Len(apps) : apps[j].oid = apps[k].oid /\ Drops(j)
      BY <3>1, DelAppDrops
    <3>3. \A j \in 1 .. Len(apps) : apps[j].oid = apps[k].oid => j = k
      BY <1>1, <2>2 DEF Dressed
    <3> QED
      BY <2>2, <2>5, <3>2, <3>3
  <2>6. CASE o # apps[k].close_but /\ o = apps[k].min_but
    <3>1. CASE focus = apps[k].oid
      BY <1>5, <2>3, <2>4, <2>6, <3>1
    <3>2. CASE focus # apps[k].oid
      BY <1>4, <2>3, <2>4, <2>6, <3>2
    <3> QED
      BY <3>1, <3>2
  <2>7. CASE o # apps[k].close_but /\ o # apps[k].min_but
    BY <1>5, <2>2, <2>3, <2>4, <2>7
  <2> QED
    BY <2>5, <2>6, <2>7
<1> QED
  BY <1>6, <1>7

LEMMA ObjectAdds ==
  ASSUME McpInv, NEW o, Mcp!Callback(Mcp!mcp_object(Mcp!State, o))
  PROVE  /\ objects' = objects
         /\ \/ o \in Seated /\ UNCHANGED <<apps, focus, orders>>
            \/ o \notin Seated /\ apps' = Append(apps, Bare(o)) /\ UNCHANGED <<focus, orders>>
<1> DEFINE st == Mcp!State
<1>1. apps \in Seq(App) /\ orders \in Seq(Orders)
  BY DEF McpInv, McpTypes
<1>2. st = [table |-> objects, apps |-> apps, focus |-> focus, out |-> <<>>]
  BY DEF Mcp!State
<1>3. Mcp!find_app(st, o) = {x \in 1 .. Len(apps) : apps[x].oid = o}
  BY <1>1, <1>2 DEF Mcp!find_app
<1>4. orders \o <<>> = orders
  BY <1>1, ConcatEmptySeq
<1>5. Mcp!mcp_object(st, o) = IF Mcp!find_app(st, o) # {} THEN st ELSE [st EXCEPT !.apps = Append(st.apps, Bare(o))]
  BY DEF Mcp!mcp_object, Mcp!add_app, Bare
<1>6. Mcp!Callback(Mcp!mcp_object(st, o))
  OBVIOUS
<1>7. st.apps = apps
  BY <1>2
<1> HIDE DEF st
<1>8. CASE Mcp!find_app(st, o) # {}
  <2>1. objects' = objects /\ apps' = apps /\ focus' = focus /\ orders' = orders \o <<>>
    BY <1>2, <1>5, <1>6, <1>8, Turned
  <2> QED
    BY <1>3, <1>4, <1>8, <2>1 DEF Seated
<1>9. CASE Mcp!find_app(st, o) = {}
  <2> DEFINE x  == Append(apps, Bare(o))
             s1 == [st EXCEPT !.apps = x]
  <2>a. Mcp!Callback(s1)
    BY <1>5, <1>6, <1>7, <1>9
  <2> HIDE DEF x
  <2>1. s1 = [table |-> objects, apps |-> x, focus |-> focus, out |-> <<>>]
    BY <1>2
  <2> HIDE DEF s1
  <2>2. objects' = objects /\ apps' = Append(apps, Bare(o)) /\ focus' = focus /\ orders' = orders \o <<>>
    BY <2>a, <2>1, Turned DEF x
  <2> QED
    BY <1>3, <1>4, <1>9, <2>2 DEF Seated
<1> QED
  BY <1>8, <1>9

LEMMA EventDoes ==
  ASSUME McpInv, Mcp!McpEvent
  PROVE  /\ toMcp # <<>> /\ toMcp' = Tail(toMcp)
         /\ UNCHANGED <<objects, srvFocus, closed, killed>>
         /\ \/ /\ UNCHANGED <<apps, focus, orders>>
               /\ toMcp[1].op = "OBJ" => toMcp[1].oid \in Seated
               /\ toMcp[1].op = "DEL" => toMcp[1].oid \notin Seated
            \/ /\ toMcp[1].op = "OBJ" /\ toMcp[1].oid \notin Seated
               /\ apps' = Append(apps, Bare(toMcp[1].oid)) /\ UNCHANGED <<focus, orders>>
            \/ \E k \in 1 .. Len(apps) :
                  Drops(k) /\ toMcp[1] \in {Note("DEL", apps[k].oid), Note("CLICK", apps[k].close_but)}
            \/ toMcp[1].op = "CLICK" /\ \E f \in Seated \union {-1} : Focuses(f)
<1> DEFINE e == toMcp[1]
<1>1. toMcp \in Seq(Events) /\ toMcp # <<>>
  BY DEF McpInv, McpTypes, Mcp!McpEvent
<1>2. Head(toMcp) = e /\ e \in Events
  <2>1. Len(toMcp) \in Nat \ {0} /\ Head(toMcp) = toMcp[1]
    BY <1>1, TailAt
  <2> QED
    BY <1>1, <2>1, ElementOfSeq
<1>3. /\ toMcp' = Tail(toMcp) /\ srvFocus' = srvFocus /\ closed' = closed /\ killed' = killed
      /\ \/ e.op = "OBJ" /\ Mcp!Callback(Mcp!mcp_object(Mcp!State, e.oid))
         \/ e.op = "DEL" /\ Mcp!Callback(Mcp!mcp_del_object(Mcp!State, e.oid))
         \/ e.op = "CLICK" /\ Mcp!Callback(Mcp!object_click(Mcp!State, e.oid))
  BY <1>2 DEF Mcp!McpEvent
<1>4. \A op, oid : e = Note(op, oid) <=> e.op = op /\ e.oid = oid
  BY <1>2 DEF Note, Events
<1> HIDE DEF e
<1>5. CASE e.op = "OBJ" /\ Mcp!Callback(Mcp!mcp_object(Mcp!State, e.oid))
  BY <1>1, <1>3, <1>5, ObjectAdds DEF e
<1>6. CASE e.op = "DEL" /\ Mcp!Callback(Mcp!mcp_del_object(Mcp!State, e.oid))
  <2>1. Mcp!Callback(Mcp!del_app(Mcp!State, e.oid))
    BY <1>6 DEF Mcp!mcp_del_object
  <2>2. /\ objects' = objects
        /\ \/ e.oid \notin Seated /\ UNCHANGED <<apps, focus, orders>>
           \/ \E k \in 1 .. Len(apps) : apps[k].oid = e.oid /\ Drops(k)
    BY <2>1, DelAppDrops
  <2>3. \A k : apps[k].oid = e.oid => e = Note("DEL", apps[k].oid)
    BY <1>4, <1>6
  <2> QED
    BY <1>1, <1>3, <1>6, <2>2, <2>3 DEF e
<1>7. CASE e.op = "CLICK" /\ Mcp!Callback(Mcp!object_click(Mcp!State, e.oid))
  <2>1. e.oid \in Mcp!Oids
    BY <1>2 DEF Events
  <2>2. /\ objects' = objects
        /\ \/ UNCHANGED <<apps, focus, orders>>
           \/ \E k \in 1 .. Len(apps) : apps[k].close_but = e.oid /\ Drops(k)
           \/ \E f \in Seated \union {-1} : Focuses(f)
    BY <1>7, <2>1, ClickDoes
  <2>3. \A k : apps[k].close_but = e.oid => e = Note("CLICK", apps[k].close_but)
    BY <1>4, <1>7
  <2> QED
    BY <1>1, <1>3, <1>7, <2>2, <2>3 DEF e
<1> QED
  BY <1>3, <1>5, <1>6, <1>7

LEMMA Named ==
  ASSUME NEW m, m \in Events \/ m \in Orders
  PROVE  \A op, oid : m = Note(op, oid) <=> m.op = op /\ m.oid = oid
BY DEF Note, Events, Orders

LEMMA CountedMcp == \A S : Mcp!Cardinality(S) = Cardinality(S)
BY DEF Mcp!Cardinality, Cardinality

LEMMA SettledMeans ==
  ASSUME Mcp!Settled, McpInv
  PROVE  \A o : /\ ~ OnTheWay(toMcp, Note("DEL", o)) /\ ~ OnTheWay(toMcp, Note("CLICK", o))
                /\ ~ OnTheWay(orders, Note("DEL", o))
<1>1. /\ \A i \in DOMAIN toMcp : toMcp[i].op \notin {"DEL", "CLICK"}
      /\ \A i \in DOMAIN orders : orders[i].op \notin {"DEL", "CLICK"}
  BY DEF Mcp!Settled
<1>2. DOMAIN toMcp = 1 .. Len(toMcp) /\ DOMAIN orders = 1 .. Len(orders)
  BY DEF McpInv, McpTypes
<1>3. \A o : Note("DEL", o).op = "DEL" /\ Note("CLICK", o).op = "CLICK"
  BY DEF Note
<1> QED
  BY <1>1, <1>2, <1>3 DEF OnTheWay

(* An object of the server goes, and if it is a program dot_mcp is told.   *)
LEMMA GoneInv ==
  ASSUME McpInv, NEW o \in DOMAIN objects, Mcp!Gone(o),
         UNCHANGED <<apps, focus, closed, starts>>, killed' \subseteq closed,
         \/ orders' = orders /\ objects[o] = "virtual"
         \/ orders # <<>> /\ orders[1] = Note("DEL", o) /\ orders' = Tail(orders)
  PROVE  McpInv'
<1> DEFINE m == Note("DEL", o)
           V == Mcp!OfKind("virtual")
<1>1. /\ McpTypes /\ McpKnows /\ Dressed(objects, apps, orders) /\ focus \in Seated \union {-1}
      /\ FocusTold /\ Closing
  BY DEF McpInv
<1>2. toMcp \in Seq(Events) /\ orders \in Seq(Orders) /\ o \in Mcp!Oids /\ m \in Events
  BY <1>1 DEF McpTypes, Events, Note
<1>3. /\ DOMAIN objects' = DOMAIN objects \ {o}
      /\ \A x \in DOMAIN objects \ {o} : objects'[x] = objects[x]
      /\ toMcp' = IF objects[o] = "virtual" THEN Append(toMcp, m) ELSE toMcp
      /\ srvFocus' = IF srvFocus = o THEN -1 ELSE srvFocus
  BY DEF Mcp!Gone, Note
<1>4. V' = V \ {o}
  BY <1>3 DEF Mcp!OfKind
<1>5. objects[o] = "virtual" <=> o \in V
  BY DEF Mcp!OfKind
<1>6. \A x : OnTheWay(toMcp', x) <=> OnTheWay(toMcp, x) \/ (o \in V /\ x = m)
  BY <1>2, <1>3, <1>5, WayAppend
<1>7. \A x : /\ OnTheWay(orders', x) => OnTheWay(orders, x)
             /\ OnTheWay(orders, x) => OnTheWay(orders', x) \/ (x = m /\ OnTheWay(orders, m))
  <2>1. CASE orders' = orders
    BY <2>1
  <2>2. CASE orders # <<>> /\ orders[1] = Note("DEL", o) /\ orders' = Tail(orders)
    BY <1>2, <2>2, WayTail
  <2> QED
    BY <2>1, <2>2
<1>8. \A x, y : Note("DEL", x) = Note("DEL", y) => x = y
  BY DEF Note
<1>9. \A x, y : Note("CLICK", x) # Note("DEL", y) /\ Note("OBJ", x) # Note("DEL", y)
  BY DEF Note
<1>10. Seated' = Seated
  BY DEF Seated
<1>11. orders' \in Seq(Orders) /\ toMcp' \in Seq(Events)
  <2>1. orders # <<>> => Tail(orders) \in Seq(Orders)
    BY <1>2, TailAt
  <2>2. Append(toMcp, m) \in Seq(Events)
    BY <1>2, AppendAt
  <2> QED
    BY <1>2, <1>3, <2>1, <2>2
<1> HIDE DEF m, V
<1>12. McpTypes'
  BY <1>1, <1>3, <1>11 DEF McpTypes
<1>13. McpKnows'
  <2>1. \A x \in Mcp!Oids : OnTheWay(toMcp', Note("DEL", x)) => x \notin DOMAIN objects'
    BY <1>1, <1>3, <1>6, <1>8 DEF McpKnows, m
  <2>2. \A x \in V' : x \in Seated' \/ OnTheWay(toMcp', Note("OBJ", x)) \/ OnTheWay(orders', Note("DEL", x))
    BY <1>1, <1>4, <1>6, <1>7, <1>8, <1>10 DEF McpKnows, V, m
  <2>3. \A x \in Seated' : x \in V' \/ OnTheWay(toMcp', Note("DEL", x))
    BY <1>1, <1>4, <1>6, <1>10 DEF McpKnows, V, m
  <2>4. Announced(toMcp', V')
    <3>1. Announced(toMcp, V)
      BY <1>1 DEF McpKnows, V
    <3>2. CASE o \in V
      <4>1. \A x \in V : x \in V' \/ m = Note("DEL", x)
        BY <1>4 DEF m
      <4>2. m.op # "OBJ"
        BY DEF m, Note
      <4> QED
        BY <1>2, <1>3, <1>5, <3>1, <3>2, <4>1, <4>2, AnnounceAppend
    <3>3. CASE o \notin V
      BY <1>3, <1>4, <1>5, <3>1, <3>3
    <3> QED
      BY <3>2, <3>3
  <2> QED
    BY <2>1, <2>2, <2>3, <2>4 DEF McpKnows, V
<1>14. Dressed(objects', apps', orders')
  <2>1. \A k \in 1 .. Len(apps) : \A w \in Mcp!Decor(apps[k]) : w \in DOMAIN objects /\ objects[w] = "own" /\ w # o
    BY <1>1, <1>2, WayTail DEF Dressed, Mcp!Decor
  <2>2. \A k \in 1 .. Len(apps) :
           IF apps[k].init
           THEN \A w \in Mcp!Decor(apps[k]) :
                   w \in DOMAIN objects' /\ objects'[w] = "own" /\ ~ OnTheWay(orders', Note("DEL", w))
           ELSE apps[k].close_but = -1 /\ apps[k].min_but = -1 /\ apps[k].sphere = -1
    BY <1>1, <1>3, <1>7, <2>1 DEF Dressed
  <2>3. \A w \in DOMAIN objects' : objects'[w] = "own" =>
           OnTheWay(orders', Note("DEL", w)) \/ \E k \in 1 .. Len(apps) : w \in Mcp!Decor(apps[k])
    BY <1>1, <1>3, <1>7, <1>8 DEF Dressed, m
  <2> QED
    BY <1>1, <2>2, <2>3 DEF Dressed
<1>15. FocusTold'
  <2>1. CASE LastFocus(orders, focus)
    <3>1. LastFocus(orders', focus)
      <4>1. Note("DEL", o) # Note("FOCUS", focus)
        BY DEF Note
      <4> QED
        BY <1>2, <2>1, <4>1, FocusTail
    <3> QED
      BY <3>1 DEF FocusTold
  <2>2. CASE NoFocus(orders) /\ (srvFocus = focus \/ (srvFocus = -1 /\ OnTheWay(toMcp, Note("DEL", focus))))
    <3>1. NoFocus(orders')
      BY <1>2, <2>2, FocusTail
    <3>2. CASE srvFocus # o
      BY <1>3, <1>6, <2>2, <3>1, <3>2 DEF FocusTold
    <3>3. CASE srvFocus = o
      <4>1. srvFocus' = -1 /\ o # -1
        BY <1>2, <1>3, <3>3 DEF Mcp!Oids
      <4>2. focus = o
        BY <2>2, <3>3, <4>1
      <4>3. o \in Seated
        BY <1>1, <4>1, <4>2
      <4>4. o \in V
        BY <1>1, <1>2, <4>3 DEF McpKnows, V
      <4> QED
        BY <1>6, <3>1, <4>1, <4>2, <4>4 DEF FocusTold, m
    <3> QED
      BY <3>2, <3>3
  <2> QED
    BY <1>1, <2>1, <2>2 DEF FocusTold
<1>16. Closing'
  BY <1>1, <1>4, <1>6, <1>7, <1>9 DEF Closing, V, m
<1> QED
  BY <1>1, <1>10, <1>12, <1>13, <1>14, <1>15, <1>16 DEF McpInv

LEMMA QuitsInv == ASSUME McpInv, Mcp!ProgramQuits PROVE McpInv'
<1>1. PICK o \in Mcp!OfKind("virtual") :
         Mcp!Gone(o) /\ UNCHANGED <<orders, apps, focus, closed, killed, starts, inputs>>
  BY DEF Mcp!ProgramQuits
<1>2. o \in DOMAIN objects /\ objects[o] = "virtual"
  BY DEF Mcp!OfKind
<1>3. killed' \subseteq closed
  BY <1>1 DEF McpInv, Closing
<1> QED
  BY <1>1, <1>2, <1>3, GoneInv

LEMMA OrdersTake ==
  ASSUME McpInv, orders # <<>>
  PROVE  /\ Tail(orders) \in Seq(Orders) /\ Head(orders) = orders[1] /\ orders[1] \in Orders
         /\ \A x : OnTheWay(orders, x) <=> orders[1] = x \/ OnTheWay(Tail(orders), x)
<1>1. orders \in Seq(Orders)
  BY DEF McpInv, McpTypes
<1>2. Tail(orders) \in Seq(Orders) /\ Head(orders) = orders[1] /\ Len(orders) \in Nat \ {0}
  BY <1>1, TailAt
<1> QED
  BY <1>1, <1>2, WayTail, ElementOfSeq

LEMMA ServerDelInv == ASSUME McpInv, Mcp!ServerDel PROVE McpInv'
<1> DEFINE o == orders[1].oid
<1>1. /\ orders # <<>> /\ orders[1] \in Orders /\ Head(orders) = orders[1]
      /\ orders[1] = Note("DEL", o) /\ orders' = Tail(orders) /\ Tail(orders) \in Seq(Orders)
      /\ \A x : OnTheWay(orders, x) <=> orders[1] = x \/ OnTheWay(Tail(orders), x)
  BY OrdersTake, Named DEF Mcp!ServerDel
<1>2. UNCHANGED <<apps, focus, closed, starts>>
  BY DEF Mcp!ServerDel
<1>3. CASE o \in DOMAIN objects
  <2>1. Mcp!Gone(o) /\ killed' = IF objects[o] = "virtual" THEN killed \union {o} ELSE killed
    BY <1>1, <1>3 DEF Mcp!ServerDel
  <2>2. killed' \subseteq closed
    <3>1. killed \subseteq closed /\ \A x \in Mcp!OfKind("virtual") : OnTheWay(orders, Note("DEL", x)) => x \in closed
      BY DEF McpInv, Closing
    <3>2. OnTheWay(orders, Note("DEL", o))
      BY <1>1
    <3>3. objects[o] = "virtual" => o \in Mcp!OfKind("virtual")
      BY <1>3 DEF Mcp!OfKind
    <3> QED
      BY <2>1, <3>1, <3>2, <3>3
  <2> HIDE DEF o
  <2> QED
    BY <1>1, <1>2, <1>3, <2>1, <2>2, GoneInv
<1>4. CASE o \notin DOMAIN objects
  <2>1. UNCHANGED <<objects, toMcp, srvFocus, killed>>
    BY <1>1, <1>4 DEF Mcp!ServerDel
  <2> HIDE DEF o
  <2>2. \A x : OnTheWay(orders', x) => OnTheWay(orders, x)
    BY <1>1
  <2>3. \A x \in DOMAIN objects : OnTheWay(orders, Note("DEL", x)) => OnTheWay(orders', Note("DEL", x))
    <3>1. \A x \in DOMAIN objects : Note("DEL", x) # Note("DEL", o)
      BY <1>4 DEF Note
    <3> QED
      BY <1>1, <3>1
  <2>4. Seated' = Seated /\ Mcp!OfKind("virtual")' = Mcp!OfKind("virtual")
    BY <1>2, <2>1 DEF Seated, Mcp!OfKind
  <2>5. \A x \in Mcp!OfKind("virtual") : x \in DOMAIN objects
    BY DEF Mcp!OfKind
  <2>6. McpTypes' /\ McpKnows' /\ Closing'
    BY <1>1, <1>2, <2>1, <2>2, <2>3, <2>4, <2>5 DEF McpInv, McpTypes, McpKnows, Closing
  <2>7. Dressed(objects, apps, orders')
    BY <2>2, <2>3 DEF McpInv, Dressed
  <2>8. FocusTold'
    <3>1. orders \in Seq(Orders) /\ Note("DEL", o) # Note("FOCUS", focus)
      BY DEF McpInv, McpTypes, Note
    <3>2. /\ NoFocus(orders) => NoFocus(orders')
          /\ LastFocus(orders, focus) => LastFocus(orders', focus)
      BY <1>1, <3>1, FocusTail
    <3> QED
      BY <1>2, <2>1, <3>2 DEF McpInv, FocusTold
  <2> QED
    BY <1>2, <2>1, <2>4, <2>6, <2>7, <2>8 DEF McpInv
<1> QED
  BY <1>3, <1>4

LEMMA ServerFocusInv == ASSUME McpInv, Mcp!ServerFocus PROVE McpInv'
<1> DEFINE f == orders[1].oid
<1>1. /\ orders # <<>> /\ orders[1] \in Orders /\ Head(orders) = orders[1]
      /\ orders[1] = Note("FOCUS", f) /\ orders' = Tail(orders) /\ Tail(orders) \in Seq(Orders)
      /\ \A x : OnTheWay(orders, x) <=> orders[1] = x \/ OnTheWay(Tail(orders), x)
  BY OrdersTake, Named DEF Mcp!ServerFocus
<1>2. /\ UNCHANGED <<objects, toMcp, apps, focus, closed, killed, starts>>
      /\ srvFocus' = IF f \in Mcp!OfKind("virtual") THEN f ELSE -1
  BY <1>1 DEF Mcp!ServerFocus
<1> HIDE DEF f
<1>3. \A x : OnTheWay(orders', Note("DEL", x)) <=> OnTheWay(orders, Note("DEL", x))
  <2>1. \A x : Note("FOCUS", f) # Note("DEL", x)
    BY DEF Note
  <2> QED
    BY <1>1, <2>1
<1>4. Seated' = Seated /\ Mcp!OfKind("virtual")' = Mcp!OfKind("virtual")
  BY <1>2 DEF Seated, Mcp!OfKind
<1>5. McpTypes' /\ McpKnows' /\ Closing'
  BY <1>1, <1>2, <1>3, <1>4 DEF McpInv, McpTypes, McpKnows, Closing
<1>6. Dressed(objects, apps, orders')
  BY <1>3 DEF McpInv, Dressed
<1>7. FocusTold'
  <2>1. orders \in Seq(Orders)
    BY DEF McpInv, McpTypes
  <2>2. ~ NoFocus(orders)
    <3>1. 1 \in 1 .. Len(orders) /\ orders[1].op = "FOCUS"
      BY <1>1, <2>1 DEF Note
    <3> QED
      BY <3>1 DEF NoFocus
  <2>3. LastFocus(orders, focus)
    BY <2>2 DEF McpInv, FocusTold
  <2>4. CASE LastFocus(orders', focus)
    BY <1>2, <2>4 DEF FocusTold
  <2>5. CASE orders[1] = Note("FOCUS", focus) /\ NoFocus(orders')
    <3>1. f = focus
      BY <1>1, <2>5 DEF Note
    <3>2. focus = -1 \/ focus \in Mcp!OfKind("virtual") \/ OnTheWay(toMcp, Note("DEL", focus))
      BY DEF McpInv, McpKnows
    <3>3. focus = -1 => srvFocus' = -1
      BY <1>2, <3>1
    <3> QED
      BY <1>2, <2>5, <3>1, <3>2, <3>3 DEF FocusTold
  <2> QED
    BY <1>1, <2>1, <2>3, <2>4, <2>5, FocusTail
<1> QED
  BY <1>2, <1>4, <1>5, <1>6, <1>7 DEF McpInv

(* The user clicks, and a program's radius changes: an event more.         *)
LEMMA NewsInv ==
  ASSUME McpInv, NEW m \in Events, toMcp' = Append(toMcp, m),
         m.op # "DEL", m.op = "OBJ" => m.oid \in Mcp!OfKind("virtual"),
         closed \subseteq closed',
         \A k \in 1 .. Len(apps) : m = Note("CLICK", apps[k].close_but) => apps[k].oid \in closed',
         UNCHANGED <<objects, srvFocus, orders, apps, focus, killed, starts>>
  PROVE  McpInv'
<1>1. toMcp \in Seq(Events) /\ toMcp' \in Seq(Events)
  BY AppendAt DEF McpInv, McpTypes
<1>2. \A x : OnTheWay(toMcp', x) <=> OnTheWay(toMcp, x) \/ x = m
  BY <1>1, WayAppend
<1>3. \A x : Note("DEL", x) # m
  BY DEF Note
<1>4. Seated' = Seated /\ Mcp!OfKind("virtual")' = Mcp!OfKind("virtual")
  BY DEF Seated, Mcp!OfKind
<1>5. Announced(toMcp', Mcp!OfKind("virtual"))
  <2>1. Announced(toMcp, Mcp!OfKind("virtual"))
    BY DEF McpInv, McpKnows
  <2> QED
    BY <1>1, <2>1, AnnounceAppend
<1>6. McpTypes' /\ McpKnows'
  BY <1>1, <1>2, <1>3, <1>4, <1>5 DEF McpInv, McpTypes, McpKnows
<1>7. FocusTold' /\ Closing'
  BY <1>2, <1>3, <1>4 DEF McpInv, FocusTold, Closing
<1> QED
  BY <1>4, <1>6, <1>7 DEF McpInv

LEMMA GrowInv == ASSUME McpInv, Mcp!Grow PROVE McpInv'
<1>1. PICK o \in Mcp!OfKind("virtual") :
         /\ toMcp' = Append(toMcp, Note("OBJ", o))
         /\ UNCHANGED <<objects, srvFocus, orders, apps, focus, closed, killed, starts>>
  BY DEF Mcp!Grow, Note
<1>2. o \in Mcp!Oids
  BY DEF McpInv, McpTypes, Mcp!OfKind
<1>3. Note("OBJ", o) \in Events /\ Note("OBJ", o).op = "OBJ" /\ Note("OBJ", o).oid = o
  BY <1>2 DEF Note, Events
<1>4. \A x : Note("OBJ", o) # Note("CLICK", x)
  BY DEF Note
<1> QED
  BY <1>1, <1>3, <1>4, NewsInv

LEMMA ClicksInv == ASSUME McpInv, Mcp!UserClicks PROVE McpInv'
<1>1. PICK o \in DOMAIN objects :
         /\ toMcp' = Append(toMcp, Note("CLICK", o))
         /\ closed' = closed \union {apps[k].oid : k \in {x \in DOMAIN apps : apps[x].close_but = o}}
         /\ UNCHANGED <<objects, srvFocus, orders, apps, focus, killed, starts>>
  BY DEF Mcp!UserClicks, Note
<1>2. o \in Mcp!Oids /\ DOMAIN apps = 1 .. Len(apps)
  BY DEF McpInv, McpTypes
<1>3. Note("CLICK", o) \in Events /\ Note("CLICK", o).op = "CLICK" /\ \A x : Note("CLICK", o) = Note("CLICK", x) => x = o
  BY <1>2 DEF Note, Events
<1>4. \A k \in 1 .. Len(apps) : Note("CLICK", o) = Note("CLICK", apps[k].close_but) => apps[k].oid \in closed'
  BY <1>1, <1>2, <1>3
<1> QED
  BY <1>1, <1>3, <1>4, NewsInv

LEMMA LowestFree ==
  ASSUME NEW S \in SUBSET Mcp!Oids, S # {}
  PROVE  Mcp!Min(S) \in S
<1>1. S \in SUBSET Nat
  BY DEF Mcp!Oids
<1> QED
  BY <1>1, Smallest DEF Mcp!Min

(* A program connects.                                                     *)
LEMMA StartInv == ASSUME McpInv, Mcp!Start PROVE McpInv'
<1> DEFINE o == Mcp!FirstFree
           m == Note("OBJ", o)
           V == Mcp!OfKind("virtual")
<1>1. /\ McpTypes /\ McpKnows /\ Dressed(objects, apps, orders) /\ focus \in Seated \union {-1}
      /\ FocusTold /\ Closing
  BY DEF McpInv
<1>2. o \in Mcp!Oids /\ o \notin DOMAIN objects
  <2>1. Mcp!Free # {}
    <3>1. Cardinality({}) = 0
      BY FS_EmptySet
    <3>2. MaxStarts - starts > 0 /\ Cardinality(Mcp!Free) >= 4 * (MaxStarts - starts)
      BY <1>1, McpAssumption, CountedMcp DEF Mcp!Start, McpTypes
    <3>3. MaxStarts - starts \in Int
      BY <1>1, McpAssumption DEF McpTypes
    <3> QED
      BY <3>1, <3>2, <3>3
  <2>2. Mcp!Free \in SUBSET Mcp!Oids
    BY DEF Mcp!Free
  <2>3. o \in Mcp!Free
    BY <2>1, <2>2, LowestFree DEF Mcp!FirstFree
  <2> QED
    BY <2>3 DEF Mcp!Free
<1>3. /\ DOMAIN objects' = DOMAIN objects \union {o}
      /\ objects'[o] = "virtual"
      /\ \A x \in DOMAIN objects : objects'[x] = objects[x]
      /\ toMcp' = Append(toMcp, m)
      /\ closed' = closed \ {o} /\ killed' = killed \ {o} /\ starts' = starts + 1
      /\ UNCHANGED <<srvFocus, orders, apps, focus>>
  <2> HIDE DEF o
  <2>1. objects' = [x \in DOMAIN objects \union {o} |-> IF x = o THEN "virtual" ELSE objects[x]]
    BY DEF Mcp!Start, o
  <2> QED
    BY <1>2, <2>1 DEF Mcp!Start, Note, o
<1>4. \A x : /\ ~ OnTheWay(toMcp, Note("DEL", x)) /\ ~ OnTheWay(toMcp, Note("CLICK", x))
             /\ ~ OnTheWay(orders, Note("DEL", x))
  BY SettledMeans DEF Mcp!Start
<1> HIDE DEF o
<1>5. V' = V \union {o}
  BY <1>2, <1>3 DEF Mcp!OfKind
<1>6. toMcp \in Seq(Events) /\ m \in Events /\ m.op = "OBJ" /\ m.oid = o
  BY <1>1, <1>2 DEF McpTypes, Events, Note
<1>7. \A x : /\ Note("OBJ", x) = m <=> x = o
             /\ m # Note("DEL", x) /\ m # Note("CLICK", x)
  BY DEF Note
<1> HIDE DEF V, m
<1>8. \A x : OnTheWay(toMcp', x) <=> OnTheWay(toMcp, x) \/ x = m
  BY <1>3, <1>6, WayAppend
<1>9. Seated' = Seated
  BY <1>3 DEF Seated
<1>10. McpTypes'
  <2>1. toMcp' \in Seq(Events)
    BY <1>3, <1>6, AppendAt
  <2> QED
    BY <1>1, <1>2, <1>3, <2>1 DEF McpTypes
<1>11. McpKnows'
  <2>1. Announced(toMcp', V')
    <3>1. Announced(toMcp, V)
      BY <1>1 DEF McpKnows, V
    <3> QED
      BY <1>3, <1>5, <1>6, <3>1, AnnounceAppend
  <2> QED
    BY <1>1, <1>3, <1>4, <1>5, <1>7, <1>8, <1>9, <2>1 DEF McpKnows, V
<1>12. Dressed(objects', apps, orders)
  <2>1. \A w \in DOMAIN objects' : objects'[w] = "own" => w \in DOMAIN objects /\ objects[w] = "own"
    BY <1>3
  <2>2. \A w \in DOMAIN objects : objects[w] = "own" => w \in DOMAIN objects' /\ objects'[w] = "own"
    BY <1>3
  <2> QED
    BY <1>1, <2>1, <2>2 DEF Dressed
<1>13. FocusTold'
  BY <1>1, <1>3, <1>8 DEF FocusTold
<1>14. Closing'
  <2>1. killed' \subseteq closed'
    BY <1>1, <1>3 DEF Closing
  <2> QED
    BY <1>3, <1>4, <1>7, <1>8, <2>1 DEF Closing
<1> QED
  BY <1>1, <1>3, <1>9, <1>10, <1>11, <1>12, <1>13, <1>14 DEF McpInv

(* dot_mcp reads an event, ...                                             *)
LEMMA EventTaken ==
  ASSUME McpInv, toMcp # <<>>, toMcp' = Tail(toMcp), objects' = objects
  PROVE  /\ toMcp' \in Seq(Events) /\ toMcp[1] \in Events
         /\ \A x : OnTheWay(toMcp, x) <=> toMcp[1] = x \/ OnTheWay(toMcp', x)
         /\ Announced(toMcp', Mcp!OfKind("virtual"))
         /\ toMcp[1].op = "OBJ" => \/ toMcp[1].oid \in Mcp!OfKind("virtual")
                                   \/ OnTheWay(toMcp', Note("DEL", toMcp[1].oid))
         /\ Mcp!OfKind("virtual")' = Mcp!OfKind("virtual")
<1>1. toMcp \in Seq(Events) /\ Announced(toMcp, Mcp!OfKind("virtual"))
  BY DEF McpInv, McpTypes, McpKnows
<1>2. Tail(toMcp) \in Seq(Events) /\ Len(toMcp) \in Nat \ {0}
  BY <1>1, TailAt
<1>3. toMcp[1] \in Events
  BY <1>1, <1>2, ElementOfSeq
<1>4. Mcp!OfKind("virtual")' = Mcp!OfKind("virtual")
  BY DEF Mcp!OfKind
<1> QED
  BY <1>1, <1>2, <1>3, <1>4, WayTail, AnnounceTail

(* ... which changes nothing, ...                                          *)
LEMMA PassedInv ==
  ASSUME McpInv, toMcp # <<>>, toMcp' = Tail(toMcp),
         UNCHANGED <<objects, srvFocus, closed, killed, starts, apps, focus, orders>>,
         toMcp[1].op = "OBJ" => toMcp[1].oid \in Seated,
         toMcp[1].op = "DEL" => toMcp[1].oid \notin Seated
  PROVE  McpInv'
<1>1. /\ toMcp' \in Seq(Events) /\ toMcp[1] \in Events
      /\ \A x : OnTheWay(toMcp, x) <=> toMcp[1] = x \/ OnTheWay(toMcp', x)
      /\ Announced(toMcp', Mcp!OfKind("virtual"))
      /\ Mcp!OfKind("virtual")' = Mcp!OfKind("virtual")
  BY EventTaken
<1>2. \A o : /\ toMcp[1] = Note("OBJ", o) => o \in Seated
             /\ toMcp[1] = Note("DEL", o) => o \notin Seated /\ o # -1
  <2>1. toMcp[1].oid # -1
    BY <1>1 DEF Events, Mcp!Oids
  <2>2. \A op, o : toMcp[1] = Note(op, o) => toMcp[1].op = op /\ toMcp[1].oid = o
    BY DEF Note
  <2> QED
    BY <2>1, <2>2
<1>3. Seated' = Seated
  BY DEF Seated
<1>4. McpTypes' /\ McpKnows'
  BY <1>1, <1>2, <1>3 DEF McpInv, McpTypes, McpKnows
<1>5. FocusTold'
  BY <1>1, <1>2 DEF McpInv, FocusTold
<1>6. Closing'
  BY <1>1 DEF McpInv, Closing
<1> QED
  BY <1>3, <1>4, <1>5, <1>6 DEF McpInv

(* ... sets the focus, ...                                                 *)
LEMMA FocusedInv ==
  ASSUME McpInv, toMcp # <<>>, toMcp' = Tail(toMcp),
         UNCHANGED <<objects, srvFocus, closed, killed, starts>>,
         toMcp[1].op = "CLICK", NEW f \in Seated \union {-1}, Focuses(f)
  PROVE  McpInv'
<1>1. /\ toMcp' \in Seq(Events) /\ toMcp[1] \in Events
      /\ \A x : OnTheWay(toMcp, x) <=> toMcp[1] = x \/ OnTheWay(toMcp', x)
      /\ Announced(toMcp', Mcp!OfKind("virtual"))
      /\ Mcp!OfKind("virtual")' = Mcp!OfKind("virtual")
  BY EventTaken
<1>2. \A o : toMcp[1] # Note("OBJ", o) /\ toMcp[1] # Note("DEL", o)
  BY DEF Note
<1>3. apps' = apps /\ focus' = f /\ orders' = Append(orders, Note("FOCUS", f))
  BY DEF Focuses
<1>4. Seated' = Seated
  BY <1>3 DEF Seated
<1>5. f \in Mcp!Oids \union {-1} /\ Note("FOCUS", f) \in Orders /\ orders \in Seq(Orders)
  <2>1. \A k \in 1 .. Len(apps) : apps[k] \in App
    BY DEF McpInv, McpTypes
  <2>2. \A k \in 1 .. Len(apps) : apps[k].oid \in Mcp!Oids
    BY <2>1 DEF App
  <2>3. f \in Mcp!Oids \union {-1}
    BY <2>2 DEF Seated
  <2> QED
    BY <2>3 DEF Note, Orders, McpInv, McpTypes
<1>6. orders' \in Seq(Orders)
  BY <1>3, <1>5, AppendAt
<1>7. \A o : OnTheWay(orders', Note("DEL", o)) <=> OnTheWay(orders, Note("DEL", o))
  <2>1. \A o : Note("DEL", o) # Note("FOCUS", f)
    BY DEF Note
  <2> QED
    BY <1>3, <1>5, <2>1, WayAppend
<1>8. McpTypes' /\ McpKnows'
  BY <1>1, <1>2, <1>3, <1>4, <1>5, <1>6, <1>7 DEF McpInv, McpTypes, McpKnows
<1>9. Dressed(objects, apps, orders')
  BY <1>7 DEF McpInv, Dressed
<1>10. FocusTold'
  BY <1>3, <1>5, FocusAppend DEF FocusTold
<1>11. Closing'
  BY <1>1, <1>3, <1>7 DEF McpInv, Closing
<1> QED
  BY <1>3, <1>4, <1>8, <1>9, <1>10, <1>11 DEF McpInv

(* ... adds an entry, ...                                                  *)
LEMMA AddedInv ==
  ASSUME McpInv, toMcp # <<>>, toMcp' = Tail(toMcp),
         UNCHANGED <<objects, srvFocus, closed, killed, starts, focus, orders>>,
         toMcp[1].op = "OBJ", toMcp[1].oid \notin Seated, apps' = Append(apps, Bare(toMcp[1].oid))
  PROVE  McpInv'
<1> DEFINE o == toMcp[1].oid
           a == Bare(o)
           n == Len(apps)
<1>1. /\ toMcp' \in Seq(Events) /\ toMcp[1] \in Events
      /\ \A x : OnTheWay(toMcp, x) <=> toMcp[1] = x \/ OnTheWay(toMcp', x)
      /\ Announced(toMcp', Mcp!OfKind("virtual"))
      /\ o \in Mcp!OfKind("virtual") \/ OnTheWay(toMcp', Note("DEL", o))
      /\ Mcp!OfKind("virtual")' = Mcp!OfKind("virtual")
  BY EventTaken
<1>2. o \in Mcp!Oids /\ \A x : /\ toMcp[1] = Note("OBJ", x) => x = o
                               /\ toMcp[1] # Note("DEL", x)
  <2>1. o \in Mcp!Oids
    BY <1>1 DEF Events
  <2> QED
    BY <2>1 DEF Note
<1>3. apps \in Seq(App) /\ a \in App /\ a.oid = o /\ Mcp!Decor(a) = {} /\ ~ a.init
      /\ a.close_but = -1 /\ a.min_but = -1 /\ a.sphere = -1
  BY <1>2 DEF McpInv, McpTypes, App, Bare, Mcp!Decor
<1>4. /\ apps' \in Seq(App) /\ n \in Nat /\ Len(apps') = n + 1 /\ apps'[n + 1] = a
      /\ \A i \in 1 .. n : apps'[i] = apps[i]
  BY <1>3, AppendAt
<1> HIDE DEF o, a
<1>5. Seated' = Seated \union {o}
  <2>1. \A k : k \in 1 .. Len(apps') <=> k \in 1 .. n \/ k = n + 1
    BY <1>4
  <2>2. apps'[n + 1].oid = o /\ \A k \in 1 .. n : apps'[k].oid = apps[k].oid
    BY <1>3, <1>4
  <2>3. Seated = {apps[k].oid : k \in 1 .. n} /\ Seated' = {apps'[k].oid : k \in 1 .. Len(apps')}
    BY DEF Seated
  <2> HIDE DEF n
  <2>4. ASSUME NEW x \in Seated' PROVE x \in Seated \union {o}
    <3>1. PICK k \in 1 .. Len(apps') : x = apps'[k].oid
      BY <2>3
    <3> QED
      BY <2>1, <2>2, <2>3, <3>1
  <2>5. ASSUME NEW x \in Seated PROVE x \in Seated'
    <3>1. PICK k \in 1 .. n : x = apps[k].oid
      BY <2>3
    <3> QED
      BY <2>1, <2>2, <2>3, <3>1
  <2>6. o \in Seated'
    BY <2>1, <2>2, <2>3
  <2> QED
    BY <2>4, <2>5, <2>6
<1>6. McpTypes' /\ McpKnows'
  BY <1>1, <1>2, <1>4, <1>5 DEF McpInv, McpTypes, McpKnows
<1> HIDE DEF n
<1>7. 1 .. Len(apps') = 1 .. n \union {n + 1} /\ n + 1 \notin 1 .. n
  BY <1>4
<1>8. Dressed(objects, apps', orders)
  <2>1. /\ Dressed(objects, apps, orders) /\ \A i \in 1 .. n : apps[i].oid # o
    <3>1. o \notin Seated
      BY DEF o
    <3> QED
      BY <3>1 DEF McpInv, Seated, n
  <2>2. \A i, j \in 1 .. Len(apps') : i # j =>
           apps'[i].oid # apps'[j].oid /\ Mcp!Decor(apps'[i]) \intersect Mcp!Decor(apps'[j]) = {}
    <3>1. \A i, j \in 1 .. n : i # j =>
             apps[i].oid # apps[j].oid /\ Mcp!Decor(apps[i]) \intersect Mcp!Decor(apps[j]) = {}
      BY <2>1 DEF Dressed, n
    <3> SUFFICES ASSUME NEW i \in 1 .. Len(apps'), NEW j \in 1 .. Len(apps'), i # j
                 PROVE  apps'[i].oid # apps'[j].oid /\ Mcp!Decor(apps'[i]) \intersect Mcp!Decor(apps'[j]) = {}
      OBVIOUS
    <3>2. CASE i \in 1 .. n /\ j \in 1 .. n
      BY <1>4, <3>1, <3>2
    <3>3. CASE i = n + 1
      <4>1. j \in 1 .. n
        BY <1>7, <3>3
      <4> QED
        BY <1>3, <1>4, <2>1, <3>3, <4>1
    <3>4. CASE j = n + 1
      <4>1. i \in 1 .. n
        BY <1>7, <3>4
      <4> QED
        BY <1>3, <1>4, <2>1, <3>4, <4>1
    <3> QED
      BY <1>7, <3>2, <3>3, <3>4
  <2>3. \A k \in 1 .. Len(apps') :
           IF apps'[k].init
           THEN \A w \in Mcp!Decor(apps'[k]) :
                   w \in DOMAIN objects /\ objects[w] = "own" /\ ~ OnTheWay(orders, Note("DEL", w))
           ELSE apps'[k].close_but = -1 /\ apps'[k].min_but = -1 /\ apps'[k].sphere = -1
    BY <1>3, <1>4, <1>7, <2>1 DEF Dressed, n
  <2>4. \A w \in DOMAIN objects : objects[w] = "own" =>
           OnTheWay(orders, Note("DEL", w)) \/ \E k \in 1 .. Len(apps') : w \in Mcp!Decor(apps'[k])
    BY <1>4, <1>7, <2>1 DEF Dressed, n
  <2> QED
    BY <2>2, <2>3, <2>4 DEF Dressed
<1>9. FocusTold'
  BY <1>1, <1>2 DEF McpInv, FocusTold
<1>10. Closing'
  <2>1. \A x : Note("CLICK", x) \in Events => x # -1
    BY DEF Note, Events, Mcp!Oids
  <2>2. ~ OnTheWay(toMcp', Note("CLICK", -1))
    BY <1>1, <2>1 DEF OnTheWay
  <2> QED
    BY <1>1, <1>3, <1>4, <1>7, <2>2 DEF McpInv, Closing, n
<1> QED
  BY <1>5, <1>6, <1>8, <1>9, <1>10 DEF McpInv

(* ... or takes one out, with all its objects.                             *)
LEMMA DroppedInv ==
  ASSUME McpInv, toMcp # <<>>, toMcp' = Tail(toMcp),
         UNCHANGED <<objects, srvFocus, closed, killed, starts>>,
         NEW k \in 1 .. Len(apps), Drops(k),
         toMcp[1] \in {Note("DEL", apps[k].oid), Note("CLICK", apps[k].close_but)}
  PROVE  McpInv'
<1> DEFINE a == apps[k]
           n == Len(apps)
           d == Mcp!Deletions(a)
           V == Mcp!OfKind("virtual")
           M == {a.oid} \union Mcp!Decor(a)
           from(i) == IF i < k THEN i ELSE i + 1
<1>1. /\ toMcp' \in Seq(Events) /\ toMcp[1] \in Events
      /\ \A x : OnTheWay(toMcp, x) <=> toMcp[1] = x \/ OnTheWay(toMcp', x)
      /\ Announced(toMcp', V)
      /\ V' = V
  BY EventTaken
<1>2. /\ McpTypes /\ McpKnows /\ Dressed(objects, apps, orders) /\ focus \in Seated \union {-1}
      /\ FocusTold /\ Closing
  BY DEF McpInv
<1>3. apps \in Seq(App) /\ a \in App /\ orders \in Seq(Orders) /\ n \in Nat /\ k \in 1 .. n
  BY <1>2, ElementOfSeq DEF McpTypes
<1>4. a.init => Mcp!Decor(a) \subseteq Mcp!Oids
  BY <1>2 DEF Dressed, McpTypes
<1>5. /\ d \in Seq(Orders) /\ \A i \in 1 .. Len(d) : d[i].op = "DEL"
      /\ \A o : OnTheWay(d, Note("DEL", o)) <=> a.init /\ o \in M
  BY <1>3, <1>4, DeletionsIn
<1>6. /\ apps' \in Seq(App) /\ Len(apps') = n - 1
      /\ \A i \in 1 .. n - 1 : apps'[i] = apps[from(i)]
  BY <1>3, RemoveAtIn DEF Drops
<1>7. /\ 1 .. Len(apps') = 1 .. n - 1
      /\ \A i \in 1 .. n - 1 : from(i) \in 1 .. n /\ from(i) # k
      /\ \A i, j \in 1 .. n - 1 : i # j => from(i) # from(j)
      /\ \A j \in 1 .. n : j # k => \E i \in 1 .. n - 1 : from(i) = j
  <2>1. /\ \A i \in 1 .. n - 1 : from(i) \in 1 .. n /\ from(i) # k
        /\ \A i, j \in 1 .. n - 1 : i # j => from(i) # from(j)
    BY <1>3
  <2>2. ASSUME NEW j \in 1 .. n, j # k PROVE \E i \in 1 .. n - 1 : from(i) = j
    <3>1. CASE j < k
      <4>1. j \in 1 .. n - 1 /\ from(j) = j
        BY <1>3, <3>1
      <4> QED
        BY <4>1
    <3>2. CASE j > k
      <4>1. j - 1 \in 1 .. n - 1 /\ from(j - 1) = j
        BY <1>3, <3>2
      <4> QED
        BY <4>1
    <3> QED
      BY <1>3, <2>2, <3>1, <3>2
  <2> QED
    BY <1>6, <2>1, <2>2
<1>8. Seated' = Seated \ {a.oid}
  <2>1. \A j \in 1 .. n : j # k => apps[j].oid # a.oid
    BY <1>2 DEF Dressed
  <2> HIDE DEF a, n, from
  <2>2. \A x : (\E i \in 1 .. Len(apps') : x = apps'[i].oid) <=> \E j \in 1 .. n : j # k /\ x = apps[j].oid
    BY <1>6, <1>7
  <2>3. Seated = {apps[j].oid : j \in 1 .. n} /\ a.oid = apps[k].oid
    BY DEF Seated, n, a
  <2>4. Seated' = {apps'[i].oid : i \in 1 .. Len(apps')}
    BY DEF Seated
  <2>5. \A x : x \in Seated <=> \E j \in 1 .. n : x = apps[j].oid
    BY <2>3
  <2>6. \A x : x \in Seated' <=> \E i \in 1 .. Len(apps') : x = apps'[i].oid
    BY <2>4
  <2>7. \A x : x \in Seated' <=> x \in Seated /\ x # a.oid
    <3> SUFFICES ASSUME NEW x PROVE x \in Seated' <=> x \in Seated /\ x # a.oid
      OBVIOUS
    <3>1. x \in Seated' <=> \E j \in 1 .. n : j # k /\ x = apps[j].oid
      BY <2>2, <2>6
    <3>2. (\E j \in 1 .. n : j # k /\ x = apps[j].oid) <=> (\E j \in 1 .. n : x = apps[j].oid) /\ x # a.oid
      BY <2>1, <2>3
    <3> QED
      BY <2>5, <3>1, <3>2
  <2> QED
    BY <2>7
<1>9. /\ orders' \in Seq(Orders)
      /\ \A o : OnTheWay(orders', Note("DEL", o)) <=> OnTheWay(orders, Note("DEL", o)) \/ (a.init /\ o \in M)
      /\ focus' = IF focus = a.oid THEN -1 ELSE focus
      /\ IF focus = a.oid THEN LastFocus(orders', -1)
         ELSE /\ LastFocus(orders, focus) => LastFocus(orders', focus)
              /\ NoFocus(orders) => NoFocus(orders')
  <2> DEFINE all == orders \o d
             m == Note("FOCUS", -1)
  <2>1. all \in Seq(Orders)
    BY <1>3, <1>5, ConcatAt
  <2>2. \A o : OnTheWay(all, Note("DEL", o)) <=> OnTheWay(orders, Note("DEL", o)) \/ (a.init /\ o \in M)
    BY <1>3, <1>5, WayConcat
  <2>3. /\ LastFocus(orders, focus) => LastFocus(all, focus)
        /\ NoFocus(orders) => NoFocus(all)
    BY <1>3, <1>5, FocusBehind
  <2>4. IF focus = a.oid THEN focus' = -1 /\ orders' = Append(all, m) ELSE focus' = focus /\ orders' = all
    BY DEF Drops
  <2>5. m \in Orders /\ \A o : Note("DEL", o) # m
    BY DEF Note, Orders
  <2> HIDE DEF all, M
  <2>6. CASE focus = a.oid
    <3>1. orders' = Append(all, m) /\ orders' \in Seq(Orders) /\ LastFocus(orders', -1)
      <4>1. orders' = Append(all, m)
        BY <2>4, <2>6
      <4>2. LastFocus(Append(all, m), -1)
        BY <2>1, <2>5, FocusAppend
      <4> HIDE DEF m
      <4>3. Append(all, m) \in Seq(Orders)
        BY <2>1, <2>5, AppendAt
      <4> QED
        BY <4>1, <4>2, <4>3
    <3>2. \A o : OnTheWay(orders', Note("DEL", o)) <=> OnTheWay(all, Note("DEL", o))
      BY <2>1, <2>5, <3>1, WayAppend
    <3> QED
      BY <2>2, <2>4, <2>6, <3>1, <3>2
  <2>7. CASE focus # a.oid
    BY <2>1, <2>2, <2>3, <2>4, <2>7
  <2> QED
    BY <2>6, <2>7
<1>10. \A x : /\ toMcp[1] # Note("OBJ", x)
              /\ toMcp[1] = Note("DEL", x) => x = a.oid
  BY DEF Note
<1>11. a.oid \in Mcp!Oids /\ (a.init \/ a.close_but = -1)
  BY <1>2, <1>3 DEF App, Dressed
(* Only a click on the button of an entry that has one can take out what   *)
(* is still a program.                                                     *)
<1>12. a.oid \in V => a.init /\ a.oid \in closed
  <2> SUFFICES ASSUME a.oid \in V PROVE a.init /\ a.oid \in closed
    OBVIOUS
  <2>1. toMcp[1] # Note("DEL", a.oid)
    <3>1. a.oid \in DOMAIN objects
      BY DEF Mcp!OfKind
    <3> QED
      BY <1>1, <1>2, <1>11, <3>1 DEF McpKnows
  <2>2. toMcp[1] = Note("CLICK", a.close_but)
    BY <2>1
  <2>3. a.close_but # -1
    <3>1. toMcp[1].oid = a.close_but
      BY <2>2 DEF Note
    <3> QED
      BY <1>1, <3>1 DEF Events, Mcp!Oids
  <2>4. a.oid \in closed
    BY <1>1, <1>2, <2>2 DEF Closing
  <2> QED
    BY <1>11, <2>3, <2>4
<1>13. \A j \in 1 .. n : j # k => M \intersect Mcp!Decor(apps[j]) = {}
  <2> SUFFICES ASSUME NEW j \in 1 .. n, j # k, NEW w \in Mcp!Decor(apps[j]) PROVE w \notin M
    OBVIOUS
  <2>1. w \notin Mcp!Decor(a)
    BY <1>2 DEF Dressed
  <2>2. w \in DOMAIN objects /\ objects[w] = "own"
    BY <1>2 DEF Dressed, Mcp!Decor
  <2>3. a.oid # w
    <3>1. a.oid \in V \/ OnTheWay(toMcp, Note("DEL", a.oid))
      BY <1>2 DEF McpKnows, Seated
    <3> QED
      BY <1>2, <1>11, <2>2, <3>1 DEF McpKnows, Mcp!OfKind
  <2> QED
    BY <2>1, <2>3
<1>14. \A w \in M : objects[w] = "own" /\ w \in DOMAIN objects => a.init
  <2>1. a.oid \in V \/ a.oid \notin DOMAIN objects
    BY <1>2, <1>11 DEF McpKnows, Seated
  <2>2. \A w \in Mcp!Decor(a) : a.init
    BY DEF Mcp!Decor
  <2> QED
    BY <2>1, <2>2 DEF Mcp!OfKind
<1> HIDE DEF a, n, d, V, M, from
<1>15. McpTypes'
  BY <1>1, <1>2, <1>6, <1>9 DEF McpTypes
<1>16. McpKnows'
  <2>1. \A x \in V : x \in Seated' \/ OnTheWay(toMcp', Note("OBJ", x)) \/ OnTheWay(orders', Note("DEL", x))
    <3>1. a.oid \in M
      BY DEF M
    <3> QED
      BY <1>1, <1>2, <1>8, <1>9, <1>10, <1>12, <3>1 DEF McpKnows, V
  <2>2. \A x \in Seated' : x \in V \/ OnTheWay(toMcp', Note("DEL", x))
    BY <1>1, <1>2, <1>8, <1>10 DEF McpKnows, V
  <2> QED
    BY <1>1, <1>2, <2>1, <2>2 DEF McpKnows, V
<1>17. Dressed(objects, apps', orders')
  <2>1. \A i, j \in 1 .. Len(apps') : i # j =>
           apps'[i].oid # apps'[j].oid /\ Mcp!Decor(apps'[i]) \intersect Mcp!Decor(apps'[j]) = {}
    <3>1. \A i, j \in 1 .. n : i # j =>
             apps[i].oid # apps[j].oid /\ Mcp!Decor(apps[i]) \intersect Mcp!Decor(apps[j]) = {}
      BY <1>2 DEF Dressed, n
    <3>2. ASSUME NEW i \in 1 .. n - 1, NEW j \in 1 .. n - 1, i # j
          PROVE  apps'[i].oid # apps'[j].oid /\ Mcp!Decor(apps'[i]) \intersect Mcp!Decor(apps'[j]) = {}
      <4>1. from(i) \in 1 .. n /\ from(j) \in 1 .. n /\ from(i) # from(j)
        BY <1>7, <3>2
      <4>2. apps'[i] = apps[from(i)] /\ apps'[j] = apps[from(j)]
        BY <1>6
      <4> QED
        BY <3>1, <4>1, <4>2
    <3> QED
      BY <1>7, <3>2
  <2>2. \A i \in 1 .. Len(apps') :
           IF apps'[i].init
           THEN \A w \in Mcp!Decor(apps'[i]) :
                   w \in DOMAIN objects /\ objects[w] = "own" /\ ~ OnTheWay(orders', Note("DEL", w))
           ELSE apps'[i].close_but = -1 /\ apps'[i].min_but = -1 /\ apps'[i].sphere = -1
    <3> SUFFICES ASSUME NEW i \in 1 .. n - 1
                 PROVE  IF apps[from(i)].init
                        THEN \A w \in Mcp!Decor(apps[from(i)]) :
                                w \in DOMAIN objects /\ objects[w] = "own" /\ ~ OnTheWay(orders', Note("DEL", w))
                        ELSE apps[from(i)].close_but = -1 /\ apps[from(i)].min_but = -1 /\ apps[from(i)].sphere = -1
      BY <1>6, <1>7
    <3>1. from(i) \in 1 .. Len(apps) /\ M \intersect Mcp!Decor(apps[from(i)]) = {}
      BY <1>7, <1>13 DEF n
    <3> QED
      BY <1>2, <1>9, <3>1 DEF Dressed
  <2>3. ASSUME NEW w \in DOMAIN objects, objects[w] = "own"
        PROVE  OnTheWay(orders', Note("DEL", w)) \/ \E i \in 1 .. Len(apps') : w \in Mcp!Decor(apps'[i])
    <3>1. CASE OnTheWay(orders, Note("DEL", w))
      BY <1>9, <3>1
    <3>2. CASE w \in M
      BY <1>9, <1>14, <2>3, <3>2
    <3>3. CASE w \notin M /\ ~ OnTheWay(orders, Note("DEL", w))
      <4>1. PICK j \in 1 .. n : w \in Mcp!Decor(apps[j])
        BY <1>2, <2>3, <3>3 DEF Dressed, n
      <4>2. j # k
        BY <3>3, <4>1 DEF M, a
      <4>3. PICK i \in 1 .. n - 1 : from(i) = j
        BY <1>7, <4>2
      <4> QED
        BY <1>6, <1>7, <4>1, <4>3
    <3> QED
      BY <3>1, <3>2, <3>3
  <2> QED
    BY <2>1, <2>2, <2>3 DEF Dressed
<1>18. FocusTold'
  <2>1. CASE focus = a.oid
    BY <1>9, <2>1 DEF FocusTold
  <2>2. CASE focus # a.oid
    BY <1>1, <1>2, <1>9, <1>10, <2>2 DEF FocusTold
  <2> QED
    BY <2>1, <2>2
<1>19. focus' \in Seated' \union {-1}
  BY <1>2, <1>8, <1>9
<1>20. Closing'
  <2>1. \A x \in V : OnTheWay(orders', Note("DEL", x)) => x \in closed
    <3>1. \A x \in Mcp!Decor(a) : a.init => x \in DOMAIN objects /\ objects[x] = "own"
      BY <1>2 DEF Dressed, a
    <3>2. \A x \in V : objects[x] = "virtual"
      BY DEF V, Mcp!OfKind
    <3>3. \A x \in V : a.init /\ x \in M => x = a.oid
      BY <3>1, <3>2 DEF M
    <3> QED
      BY <1>2, <1>9, <1>12, <3>3 DEF Closing, V
  <2>2. \A i \in 1 .. Len(apps') : OnTheWay(toMcp', Note("CLICK", apps'[i].close_but)) => apps'[i].oid \in closed
    BY <1>1, <1>2, <1>6, <1>7 DEF Closing, n
  <2> QED
    BY <1>1, <1>2, <2>1, <2>2 DEF Closing, V
<1> QED
  BY <1>15, <1>16, <1>17, <1>18, <1>19, <1>20 DEF McpInv

LEMMA EventInv == ASSUME McpInv, Mcp!McpEvent PROVE McpInv'
<1>1. starts' = starts
  BY DEF Mcp!McpEvent
<1> QED
  BY <1>1, EventDoes, PassedInv, AddedInv, DroppedInv, FocusedInv

(* The main loop makes the decorations: three free oids an entry.          *)
Made(tab, o) == [x \in DOMAIN tab \union {o} |-> IF x = o THEN "own" ELSE tab[x]]
Worn(a, o1, o2, o3) == [oid |-> a.oid, init |-> TRUE, close_but |-> o2, min_but |-> o3, sphere |-> o1]
Looks(tab, list) == [table |-> tab, apps |-> list, focus |-> focus, out |-> <<>>]

LEMMA MadeIs ==
  ASSUME NEW tab, NEW o
  PROVE  /\ DOMAIN Made(tab, o) = DOMAIN tab \union {o}
         /\ Made(tab, o)[o] = "own"
         /\ \A x \in DOMAIN tab \ {o} : Made(tab, o)[x] = tab[x]
         /\ Mcp!Oids \ DOMAIN Made(tab, o) = (Mcp!Oids \ DOMAIN tab) \ {o}
BY DEF Made

LEMMA RoomFor ==
  ASSUME NEW S \in SUBSET Mcp!Oids, NEW m \in Nat, Cardinality(S) >= m + 1
  PROVE  Mcp!Min(S) \in S /\ Cardinality(S \ {Mcp!Min(S)}) >= m
<1>1. IsFiniteSet(S)
  <2>1. IsFiniteSet(Mcp!Oids)
    BY McpAssumption, FS_Interval DEF Mcp!Oids
  <2> QED
    BY <2>1, FS_Subset
<1>2. S # {}
  BY FS_EmptySet
<1>3. Mcp!Min(S) \in S
  BY <1>2, LowestFree
<1>4. Cardinality(S) \in Nat /\ Cardinality(S \ {Mcp!Min(S)}) = Cardinality(S) - 1
  BY <1>1, <1>3, FS_RemoveElement, FS_CardinalityType
<1> QED
  BY <1>3, <1>4

LEMMA OwnDoes ==
  ASSUME NEW tab, NEW list, NEW k, NEW part
  PROVE  LET o == Mcp!Min(Mcp!Oids \ DOMAIN tab)
         IN  Mcp!Own(Looks(tab, list), k, part)
               = Looks(Made(tab, o), [list EXCEPT ![k] = [list[k] EXCEPT ![part] = o]])
<1> DEFINE st == Looks(tab, list)
           o  == Mcp!Min(Mcp!Oids \ DOMAIN tab)
           t2 == Made(tab, o)
           a2 == [list[k] EXCEPT ![part] = o]
           s1 == [st EXCEPT !.table = t2]
<1>1. st = [table |-> tab, apps |-> list, focus |-> focus, out |-> <<>>]
  BY DEF Looks
<1>2. st.table = tab /\ st.apps = list
  BY <1>1
<1>3. Mcp!New(st) = o
  BY <1>2 DEF Mcp!New
<1>4. Mcp!Own(st, k, part) = [st EXCEPT !.table = t2, !.apps[k] = a2]
  <2> HIDE DEF st, o
  <2> QED
    BY <1>2, <1>3 DEF Mcp!Own, Made
<1> HIDE DEF st, o, t2, a2
<1>5. s1 = [table |-> t2, apps |-> list, focus |-> focus, out |-> <<>>]
  BY <1>1
<1>6. [st EXCEPT !.table = t2, !.apps[k] = a2] = [s1 EXCEPT !.apps = [list EXCEPT ![k] = a2]]
  BY <1>1
<1> HIDE DEF s1
<1>7. ASSUME NEW z
      PROVE  [s1 EXCEPT !.apps = z] = [table |-> t2, apps |-> z, focus |-> focus, out |-> <<>>]
  BY <1>5
<1>8. Mcp!Own(st, k, part) = Looks(t2, [list EXCEPT ![k] = a2])
  BY <1>4, <1>6, <1>7 DEF Looks
<1> QED
  BY <1>8 DEF st, o, t2, a2

Dresses(tab, list, k, m) ==
  \E o1, o2, o3 \in Mcp!Oids \ DOMAIN tab :
    LET t == Made(Made(Made(tab, o1), o2), o3)
    IN  /\ o1 # o2 /\ o1 # o3 /\ o2 # o3
        /\ Mcp!app_init(Looks(tab, list), k) = Looks(t, [list EXCEPT ![k] = Worn(list[k], o1, o2, o3)])
        /\ Cardinality(Mcp!Oids \ DOMAIN t) >= m
LEMMA InitDoes ==
  ASSUME NEW tab, NEW list \in Seq(App), NEW k \in 1 .. Len(list), NEW m \in Nat,
         Cardinality(Mcp!Oids \ DOMAIN tab) >= m + 3
  PROVE  Dresses(tab, list, k, m)
<1> DEFINE o1 == Mcp!Min(Mcp!Oids \ DOMAIN tab)
           t1 == Made(tab, o1)
           a1 == [list[k] EXCEPT !["sphere"] = o1]
           l1 == [list EXCEPT ![k] = a1]
           o2 == Mcp!Min(Mcp!Oids \ DOMAIN t1)
           t2 == Made(t1, o2)
           a2 == [l1[k] EXCEPT !["close_but"] = o2]
           l2 == [l1 EXCEPT ![k] = a2]
           o3 == Mcp!Min(Mcp!Oids \ DOMAIN t2)
           t3 == Made(t2, o3)
           a3 == [l2[k] EXCEPT !["min_but"] = o3]
           l3 == [l2 EXCEPT ![k] = a3]
           st == Looks(t3, l3)
           w  == Worn(list[k], o1, o2, o3)
<1>1. o1 \in Mcp!Oids \ DOMAIN tab /\ Cardinality(Mcp!Oids \ DOMAIN t1) >= m + 2
  <2> DEFINE S == Mcp!Oids \ DOMAIN tab
  <2>1. Mcp!Min(S) \in S /\ Cardinality(S \ {Mcp!Min(S)}) >= m + 2
    <3> HIDE DEF S
    <3>1. m + 2 \in Nat /\ m + 3 = (m + 2) + 1
      OBVIOUS
    <3>2. S \in SUBSET Mcp!Oids /\ Cardinality(S) >= (m + 2) + 1
      BY <3>1 DEF S
    <3> QED
      BY <3>1, <3>2, RoomFor
  <2>2. Mcp!Oids \ DOMAIN t1 = S \ {Mcp!Min(S)}
    BY MadeIs
  <2> QED
    BY <2>1, <2>2
<1> HIDE DEF t1
<1>2. o2 \in Mcp!Oids \ DOMAIN t1 /\ Cardinality(Mcp!Oids \ DOMAIN t2) >= m + 1
  <2> DEFINE S == Mcp!Oids \ DOMAIN t1
  <2>1. Mcp!Min(S) \in S /\ Cardinality(S \ {Mcp!Min(S)}) >= m + 1
    <3>1. m + 1 \in Nat /\ m + 2 = (m + 1) + 1
      OBVIOUS
    <3> HIDE DEF S
    <3>2. S \in SUBSET Mcp!Oids /\ Cardinality(S) >= (m + 1) + 1
      BY <1>1, <3>1 DEF S
    <3> QED
      BY <3>1, <3>2, RoomFor
  <2>2. Mcp!Oids \ DOMAIN t2 = S \ {Mcp!Min(S)}
    BY MadeIs
  <2> QED
    BY <2>1, <2>2
<1> HIDE DEF t2
<1>3. o3 \in Mcp!Oids \ DOMAIN t2 /\ Cardinality(Mcp!Oids \ DOMAIN t3) >= m
  <2> DEFINE S == Mcp!Oids \ DOMAIN t2
  <2>1. Mcp!Min(S) \in S /\ Cardinality(S \ {Mcp!Min(S)}) >= m
    <3> HIDE DEF S
    <3>2. S \in SUBSET Mcp!Oids /\ Cardinality(S) >= m + 1
      BY <1>2 DEF S
    <3> QED
      BY <3>2, RoomFor
  <2>2. Mcp!Oids \ DOMAIN t3 = S \ {Mcp!Min(S)}
    BY MadeIs
  <2> QED
    BY <2>1, <2>2
<1> HIDE DEF o1, o2, o3, t3, l1, l2, l3
<1>4. DOMAIN t1 = DOMAIN tab \union {o1} /\ DOMAIN t2 = DOMAIN t1 \union {o2}
  BY MadeIs DEF t1, t2
<1>5. Mcp!Own(Looks(tab, list), k, "sphere") = Looks(t1, l1)
  BY OwnDoes DEF o1, t1, l1
<1>6. Mcp!Own(Looks(t1, l1), k, "close_but") = Looks(t2, l2)
  BY OwnDoes DEF o2, t2, l2
<1>7. Mcp!Own(Looks(t2, l2), k, "min_but") = st
  BY OwnDoes DEF o3, t3, l3
<1>8. Mcp!app_init(Looks(tab, list), k) = [st EXCEPT !.apps[k].init = TRUE]
  BY <1>5, <1>6, <1>7 DEF Mcp!app_init
<1>9. [st EXCEPT !.apps[k].init = TRUE] = Looks(t3, [l3 EXCEPT ![k] = [l3[k] EXCEPT !.init = TRUE]])
  <2> DEFINE z == [l3 EXCEPT ![k] = [l3[k] EXCEPT !.init = TRUE]]
  <2>1. st = [table |-> t3, apps |-> l3, focus |-> focus, out |-> <<>>]
    BY DEF Looks
  <2> HIDE DEF st
  <2>2. [st EXCEPT !.apps[k].init = TRUE] = [st EXCEPT !.apps = z]
    BY <2>1
  <2> HIDE DEF z
  <2>3. [st EXCEPT !.apps = z] = [table |-> t3, apps |-> z, focus |-> focus, out |-> <<>>]
    BY <2>1
  <2> QED
    BY <2>2, <2>3 DEF Looks, z
<1>10. list[k] \in App /\ k \in DOMAIN list
  BY ElementOfSeq
<1>11. /\ l1[k] = a1 /\ l2[k] = a2 /\ l3[k] = a3 /\ k \in DOMAIN l3
       /\ [l3 EXCEPT ![k] = w] = [list EXCEPT ![k] = w]
  <2> HIDE DEF a1, a2, a3, w
  <2>1. l1[k] = a1 /\ k \in DOMAIN l1
    BY <1>10 DEF l1
  <2>2. l2[k] = a2 /\ k \in DOMAIN l2
    BY <2>1 DEF l2
  <2>3. l3[k] = a3 /\ k \in DOMAIN l3
    BY <2>2 DEF l3
  <2>4. [l1 EXCEPT ![k] = w] = [list EXCEPT ![k] = w]
    BY DEF l1
  <2>5. [l2 EXCEPT ![k] = w] = [l1 EXCEPT ![k] = w]
    BY DEF l2
  <2>6. [l3 EXCEPT ![k] = w] = [l2 EXCEPT ![k] = w]
    BY DEF l3
  <2> QED
    BY <2>1, <2>2, <2>3, <2>4, <2>5, <2>6
<1>12. [l3[k] EXCEPT !.init = TRUE] = w
  <2> DEFINE a == list[k]
  <2>1. a = [oid |-> a.oid, init |-> a.init, close_but |-> a.close_but, min_but |-> a.min_but, sphere |-> a.sphere]
    BY <1>10 DEF App
  <2> HIDE DEF a
  <2>2. a1 = [oid |-> a.oid, init |-> a.init, close_but |-> a.close_but, min_but |-> a.min_but, sphere |-> o1]
    BY <2>1 DEF a
  <2> HIDE DEF a1
  <2>3. a2 = [a1 EXCEPT !["close_but"] = o2]
    BY <1>11
  <2>4. a2 = [oid |-> a.oid, init |-> a.init, close_but |-> o2, min_but |-> a.min_but, sphere |-> o1]
    BY <2>2, <2>3
  <2> HIDE DEF a2
  <2>5. a3 = [a2 EXCEPT !["min_but"] = o3]
    BY <1>11
  <2>6. a3 = [oid |-> a.oid, init |-> a.init, close_but |-> o2, min_but |-> o3, sphere |-> o1]
    BY <2>4, <2>5
  <2> HIDE DEF a3
  <2>7. ASSUME NEW y
        PROVE  [a3 EXCEPT !.init = y] = [oid |-> a.oid, init |-> y, close_but |-> o2, min_but |-> o3, sphere |-> o1]
    BY <2>6
  <2> QED
    BY <1>11, <2>7 DEF Worn, a
<1> HIDE DEF w, st
<1>13. Mcp!app_init(Looks(tab, list), k) = Looks(t3, [list EXCEPT ![k] = w])
  BY <1>8, <1>9, <1>11, <1>12
<1>14. o1 \in Mcp!Oids \ DOMAIN tab /\ o2 \in Mcp!Oids \ DOMAIN tab /\ o3 \in Mcp!Oids \ DOMAIN tab
       /\ o1 # o2 /\ o1 # o3 /\ o2 # o3
  BY <1>1, <1>2, <1>3, <1>4
<1>15. t3 = Made(Made(Made(tab, o1), o2), o3) /\ w = Worn(list[k], o1, o2, o3)
  BY DEF t1, t2, t3, w
<1> QED
  BY <1>3, <1>13, <1>14, <1>15 DEF Dresses

Gains(tab, t, S) == /\ DOMAIN t = DOMAIN tab \union S
                    /\ \A x \in S : t[x] = "own"
                    /\ \A x \in DOMAIN tab : t[x] = tab[x]
LEMMA ThreeMade ==
  ASSUME NEW tab, NEW o1, NEW o2, NEW o3, o1 \notin DOMAIN tab, o2 \notin DOMAIN tab, o3 \notin DOMAIN tab,
         o1 # o2, o1 # o3, o2 # o3
  PROVE  Gains(tab, Made(Made(Made(tab, o1), o2), o3), {o1, o2, o3})
<1> DEFINE t1 == Made(tab, o1)
           t2 == Made(t1, o2)
<1>1. DOMAIN t1 = DOMAIN tab \union {o1} /\ t1[o1] = "own" /\ \A x \in DOMAIN tab \ {o1} : t1[x] = tab[x]
  BY MadeIs
<1> HIDE DEF t1
<1>2. DOMAIN t2 = DOMAIN t1 \union {o2} /\ t2[o2] = "own" /\ \A x \in DOMAIN t1 \ {o2} : t2[x] = t1[x]
  BY MadeIs
<1> HIDE DEF t2
<1>3. /\ DOMAIN Made(t2, o3) = DOMAIN t2 \union {o3} /\ Made(t2, o3)[o3] = "own"
      /\ \A x \in DOMAIN t2 \ {o3} : Made(t2, o3)[x] = t2[x]
  BY MadeIs
<1> QED
  <2>1. Gains(tab, Made(t2, o3), {o1, o2, o3})
    BY <1>1, <1>2, <1>3 DEF Gains
  <2> QED
    BY <2>1 DEF t1, t2

(* An entry that had none now wears what nobody had.                       *)
LEMMA DressedMore ==
  ASSUME NEW tab, NEW list \in Seq(App), NEW k \in 1 .. Len(list), ~ list[k].init,
         Dressed(tab, list, orders), \A o : ~ OnTheWay(orders, Note("DEL", o)),
         NEW o1 \in Mcp!Oids \ DOMAIN tab, NEW o2 \in Mcp!Oids \ DOMAIN tab, NEW o3 \in Mcp!Oids \ DOMAIN tab,
         o1 # o2, o1 # o3, o2 # o3
  PROVE  Dressed(Made(Made(Made(tab, o1), o2), o3), [list EXCEPT ![k] = Worn(list[k], o1, o2, o3)], orders)
<1> DEFINE t == Made(Made(Made(tab, o1), o2), o3)
           w == Worn(list[k], o1, o2, o3)
           new == [list EXCEPT ![k] = w]
<1>1. /\ DOMAIN t = DOMAIN tab \union {o1, o2, o3}
      /\ t[o1] = "own" /\ t[o2] = "own" /\ t[o3] = "own"
      /\ \A x \in DOMAIN tab : t[x] = tab[x]
  <2>1. Gains(tab, t, {o1, o2, o3})
    BY ThreeMade
  <2> QED
    BY <2>1 DEF Gains
<1>2. w.oid = list[k].oid /\ w.init /\ Mcp!Decor(w) = {o1, o2, o3}
  BY DEF Worn, Mcp!Decor
<1> HIDE DEF w, t
<1>3. Len(new) = Len(list) /\ new[k] = w /\ \A i \in 1 .. Len(list) : i # k => new[i] = list[i]
  OBVIOUS
<1> HIDE DEF new
<1>4. \A i \in 1 .. Len(list) : \A x \in Mcp!Decor(list[i]) : i # k /\ x \in DOMAIN tab /\ tab[x] = "own"
  BY DEF Dressed, Mcp!Decor
<1>5. \A i, j \in 1 .. Len(new) : i # j =>
         new[i].oid # new[j].oid /\ Mcp!Decor(new[i]) \intersect Mcp!Decor(new[j]) = {}
  <2>1. \A i, j \in 1 .. Len(list) : i # j =>
           list[i].oid # list[j].oid /\ Mcp!Decor(list[i]) \intersect Mcp!Decor(list[j]) = {}
    BY DEF Dressed
  <2>2. \A i \in 1 .. Len(list) : o1 \notin Mcp!Decor(list[i]) /\ o2 \notin Mcp!Decor(list[i]) /\ o3 \notin Mcp!Decor(list[i])
    BY <1>4
  <2>3. ASSUME NEW i \in 1 .. Len(list), NEW j \in 1 .. Len(list), i # j
        PROVE  new[i].oid # new[j].oid /\ Mcp!Decor(new[i]) \intersect Mcp!Decor(new[j]) = {}
    <3>1. CASE i # k /\ j # k
      BY <1>3, <2>1, <2>3, <3>1
    <3>2. CASE i = k
      <4>1. new[i] = w /\ new[j] = list[j] /\ list[i].oid # list[j].oid
        BY <1>3, <2>1, <2>3, <3>2
      <4> QED
        BY <1>2, <2>2, <3>2, <4>1
    <3>3. CASE j = k
      <4>1. new[j] = w /\ new[i] = list[i] /\ list[i].oid # list[j].oid
        BY <1>3, <2>1, <2>3, <3>3
      <4> QED
        BY <1>2, <2>2, <3>3, <4>1
    <3> QED
      BY <3>1, <3>2, <3>3
  <2> QED
    BY <1>3, <2>3
<1>6. \A i \in 1 .. Len(new) :
         IF new[i].init
         THEN \A x \in Mcp!Decor(new[i]) :
                 x \in DOMAIN t /\ t[x] = "own" /\ ~ OnTheWay(orders, Note("DEL", x))
         ELSE new[i].close_but = -1 /\ new[i].min_but = -1 /\ new[i].sphere = -1
  <2> SUFFICES ASSUME NEW i \in 1 .. Len(list)
               PROVE  IF new[i].init
                      THEN \A x \in Mcp!Decor(new[i]) :
                              x \in DOMAIN t /\ t[x] = "own" /\ ~ OnTheWay(orders, Note("DEL", x))
                      ELSE new[i].close_but = -1 /\ new[i].min_but = -1 /\ new[i].sphere = -1
    BY <1>3
  <2>1. CASE i = k
    BY <1>1, <1>2, <1>3, <2>1
  <2>2. CASE i # k
    <3>1. new[i] = list[i]
      BY <1>3, <2>2
    <3>2. IF list[i].init
          THEN \A x \in Mcp!Decor(list[i]) : x \in DOMAIN tab /\ tab[x] = "own"
          ELSE list[i].close_but = -1 /\ list[i].min_but = -1 /\ list[i].sphere = -1
      BY DEF Dressed
    <3> QED
      BY <1>1, <3>1, <3>2
  <2> QED
    BY <2>1, <2>2
<1>7. ASSUME NEW x \in DOMAIN t, t[x] = "own"
      PROVE  \E i \in 1 .. Len(new) : x \in Mcp!Decor(new[i])
  <2>1. CASE x \in {o1, o2, o3}
    BY <1>2, <1>3, <2>1
  <2>2. CASE x \notin {o1, o2, o3}
    <3>1. x \in DOMAIN tab /\ tab[x] = "own"
      BY <1>1, <1>7, <2>2
    <3>2. PICK i \in 1 .. Len(list) : x \in Mcp!Decor(list[i])
      BY <3>1 DEF Dressed
    <3> QED
      BY <1>3, <1>4, <3>2
  <2> QED
    BY <2>1, <2>2
<1>8. Dressed(t, new, orders)
  BY <1>5, <1>6, <1>7 DEF Dressed
<1> QED
  BY <1>8 DEF t, new, w

(* Half way through the list: n entries are done, and there is room for    *)
(* what the others need.                                                   *)
Tables == {objects} \union UNION {[D -> {"virtual", "own"}] : D \in SUBSET Mcp!Oids}
Bares(n) == {k \in n + 1 .. Len(apps) : ~ apps[k].init}
Half(tab, list, n) ==
  /\ tab \in Tables /\ list \in Seq(App) /\ Len(list) = Len(apps)
  /\ \A o \in DOMAIN tab : o \in Mcp!Oids /\ tab[o] \in {"virtual", "own"}
  /\ \A o \in DOMAIN objects : o \in DOMAIN tab /\ tab[o] = objects[o]
  /\ \A o \in DOMAIN tab : tab[o] = "virtual" => o \in DOMAIN objects
  /\ \A k \in 1 .. Len(apps) : list[k].oid = apps[k].oid
  /\ \A k \in n + 1 .. Len(apps) : list[k] = apps[k]
  /\ Dressed(tab, list, orders)
  /\ Cardinality(Mcp!Oids \ DOMAIN tab) >= 3 * Cardinality(Bares(n))

LEMMA BaresLeft ==
  ASSUME McpInv, NEW n \in Nat, n < Len(apps)
  PROVE  /\ apps[n + 1].init => Bares(n) = Bares(n + 1)
         /\ ~ apps[n + 1].init => Cardinality(Bares(n)) = Cardinality(Bares(n + 1)) + 1
         /\ Cardinality(Bares(n + 1)) \in Nat
<1>1. Len(apps) \in Nat
  BY DEF McpInv, McpTypes
<1>2. n + 1 .. Len(apps) = {n + 1} \union (n + 2 .. Len(apps))
  BY <1>1
<1>3. (n + 1) + 1 = n + 2 /\ n + 1 \notin n + 2 .. Len(apps)
  BY <1>1
<1>4. IsFiniteSet(Bares(n + 1)) /\ n + 1 \notin Bares(n + 1)
  <2>1. n + 2 \in Int /\ Len(apps) \in Int
    BY <1>1
  <2> DEFINE m == n + 2
  <2> HIDE DEF m
  <2>2. IsFiniteSet(m .. Len(apps))
    BY <2>1, FS_Interval DEF m
  <2>3. IsFiniteSet(n + 2 .. Len(apps))
    BY <2>2 DEF m
  <2>4. Bares(n + 1) \subseteq n + 2 .. Len(apps)
    BY <1>3 DEF Bares
  <2> QED
    BY <1>3, <2>3, <2>4, FS_Subset
<1>5. ~ apps[n + 1].init => Bares(n) = Bares(n + 1) \union {n + 1}
  BY <1>2, <1>3 DEF Bares
<1>6. apps[n + 1].init => Bares(n) = Bares(n + 1)
  BY <1>2, <1>3 DEF Bares
<1> QED
  BY <1>4, <1>5, <1>6, FS_AddElement, FS_CardinalityType

LEMMA HalfStep ==
  ASSUME McpInv, \A o : ~ OnTheWay(orders, Note("DEL", o)),
         NEW n \in Nat, n < Len(apps), NEW tab, NEW list, Half(tab, list, n)
  PROVE  IF apps[n + 1].init THEN Half(tab, list, n + 1)
         ELSE \E t, new : /\ Half(t, new, n + 1)
                          /\ Mcp!app_init(Looks(tab, list), n + 1) = Looks(t, new)
<1>1. Len(apps) \in Nat /\ n + 1 \in 1 .. Len(apps) /\ \A k \in (n + 1) + 1 .. Len(apps) : k \in n + 1 .. Len(apps) /\ k # n + 1
  BY DEF McpInv, McpTypes
<1>2. CASE apps[n + 1].init
  BY <1>1, <1>2, BaresLeft DEF Half
<1>3. CASE ~ apps[n + 1].init
  <2> DEFINE k == n + 1
             m == 3 * Cardinality(Bares(n + 1))
  <2>1. m \in Nat /\ Cardinality(Mcp!Oids \ DOMAIN tab) >= m + 3
    <3>1. 3 * (Cardinality(Bares(n + 1)) + 1) = m + 3 /\ m \in Nat
      BY BaresLeft
    <3>2. Cardinality(Bares(n)) = Cardinality(Bares(n + 1)) + 1
      BY <1>3, BaresLeft
    <3>3. Cardinality(Mcp!Oids \ DOMAIN tab) >= 3 * Cardinality(Bares(n))
      BY DEF Half
    <3> QED
      BY <3>1, <3>2, <3>3
  <2>2. list \in Seq(App) /\ k \in 1 .. Len(list) /\ ~ list[k].init /\ Dressed(tab, list, orders)
    <3>1. k \in n + 1 .. Len(apps)
      BY <1>1
    <3> QED
      BY <1>1, <1>3, <3>1 DEF Half
  <2> HIDE DEF k, m
  <2>3. PICK o1, o2, o3 \in Mcp!Oids \ DOMAIN tab :
           LET t == Made(Made(Made(tab, o1), o2), o3)
           IN  /\ o1 # o2 /\ o1 # o3 /\ o2 # o3
               /\ Mcp!app_init(Looks(tab, list), k) = Looks(t, [list EXCEPT ![k] = Worn(list[k], o1, o2, o3)])
               /\ Cardinality(Mcp!Oids \ DOMAIN t) >= m
    <3>1. Dresses(tab, list, k, m)
      BY <2>1, <2>2, InitDoes
    <3> QED
      BY <3>1 DEF Dresses
  <2> DEFINE t == Made(Made(Made(tab, o1), o2), o3)
             w == Worn(list[k], o1, o2, o3)
             new == [list EXCEPT ![k] = w]
  <2>4. Dressed(t, new, orders)
    BY <2>2, <2>3, DressedMore
  <2>5. /\ DOMAIN t = DOMAIN tab \union {o1, o2, o3}
        /\ t[o1] = "own" /\ t[o2] = "own" /\ t[o3] = "own"
        /\ \A x \in DOMAIN tab : t[x] = tab[x]
    <3>1. Gains(tab, t, {o1, o2, o3})
      BY <2>3, ThreeMade
    <3> QED
      BY <3>1 DEF Gains
  <2>6. w \in App /\ w.oid = list[k].oid
    <3>1. list[k] \in App
      BY <2>2, ElementOfSeq
    <3> QED
      BY <3>1 DEF Worn, App
  <2>a. t = [x \in DOMAIN t |-> t[x]]
    BY DEF Made
  <2>7. Mcp!app_init(Looks(tab, list), k) = Looks(t, new) /\ Cardinality(Mcp!Oids \ DOMAIN t) >= m
    BY <2>3
  <2> HIDE DEF t, w
  <2>8. /\ new \in Seq(App) /\ Len(new) = Len(list) /\ new[k] = w
        /\ \A i \in 1 .. Len(list) : i # k => new[i] = list[i]
    BY <2>2, <2>6
  <2> HIDE DEF new
  <2>9. \A o \in DOMAIN t : o \in Mcp!Oids /\ t[o] \in {"virtual", "own"}
    BY <2>5 DEF Half
  <2>b. t \in Tables
    <3>1. DOMAIN t \in SUBSET Mcp!Oids /\ t \in [DOMAIN t -> {"virtual", "own"}]
      BY <2>a, <2>9
    <3> QED
      BY <3>1 DEF Tables
  <2>10. /\ \A o \in DOMAIN objects : o \in DOMAIN t /\ t[o] = objects[o]
         /\ \A o \in DOMAIN t : t[o] = "virtual" => o \in DOMAIN objects
    BY <2>5 DEF Half
  <2>11. \A i \in 1 .. Len(apps) : new[i].oid = apps[i].oid
    BY <2>6, <2>8 DEF Half
  <2>12. \A i \in k + 1 .. Len(apps) : new[i] = apps[i]
    <3>1. \A i \in k + 1 .. Len(apps) : i \in n + 1 .. Len(apps) /\ i \in 1 .. Len(apps) /\ i # k
      BY <1>1 DEF k
    <3> QED
      BY <2>8, <3>1 DEF Half
  <2>13. Half(t, new, k)
    BY <2>4, <2>7, <2>8, <2>9, <2>b, <2>10, <2>11, <2>12 DEF Half, k, m
  <2> QED
    BY <1>3, <2>7, <2>13 DEF k
<1> QED
  BY <1>2, <1>3

(* What the loop over the list makes of the program's state.               *)
LEMMA LoopMakes ==
  ASSUME McpInv, Mcp!Mainloop
  PROVE  \E tab, list : Half(tab, list, Len(apps)) /\ Mcp!Callback(Looks(tab, list))
<1> DEFINE N == Len(apps)
           F(st, k) == IF apps[k].init THEN st ELSE Mcp!app_init(st, k)
           P == {p \in (Tables \X Seq(App)) \X (0 .. N) : Half(p[1][1], p[1][2], p[2])}
           S == {<<Looks(p[1][1], p[1][2]), p[2]>> : p \in P}
           G == [t \in S |-> IF t[2] < N THEN <<F(t[1], t[2] + 1), t[2] + 1>> ELSE t]
           init == CHOOSE init : init = [k \in 0 .. N |->
                     IF k = 0 THEN Mcp!State
                     ELSE IF apps[k].init THEN init[k - 1] ELSE Mcp!app_init(init[k - 1], k)]
<1>1. Mcp!Callback(init[N])
  BY DEF Mcp!Mainloop
<1>2. /\ N \in Nat /\ apps \in Seq(App)
      /\ \A o : ~ OnTheWay(orders, Note("DEL", o))
      /\ Cardinality(Mcp!Free) >= 3 * Cardinality({k \in 1 .. N : ~ apps[k].init})
  <2>1. Mcp!Settled /\ Mcp!Cardinality(Mcp!Free) >= 3 * Mcp!Cardinality({k \in DOMAIN apps : ~ apps[k].init})
    BY DEF Mcp!Mainloop
  <2>2. apps \in Seq(App)
    BY DEF McpInv, McpTypes
  <2>3. DOMAIN apps = 1 .. N /\ N \in Nat
    BY <2>2
  <2> QED
    BY <2>1, <2>2, <2>3, SettledMeans, CountedMcp
<1>3. \A t : t \in S <=> \E tab, list, k : k \in 0 .. N /\ Half(tab, list, k) /\ t = <<Looks(tab, list), k>>
  <2> SUFFICES ASSUME NEW t
               PROVE  t \in S <=> \E tab, list, k : k \in 0 .. N /\ Half(tab, list, k) /\ t = <<Looks(tab, list), k>>
    OBVIOUS
  <2>1. ASSUME t \in S
        PROVE  \E tab, list, k : k \in 0 .. N /\ Half(tab, list, k) /\ t = <<Looks(tab, list), k>>
    BY <2>1
  <2>2. ASSUME NEW tab, NEW list, NEW k \in 0 .. N, Half(tab, list, k), t = <<Looks(tab, list), k>>
        PROVE  t \in S
    <3> DEFINE p == <<<<tab, list>>, k>>
    <3>1. p[1][1] = tab /\ p[1][2] = list /\ p[2] = k
      OBVIOUS
    <3>2. p \in (Tables \X Seq(App)) \X (0 .. N)
      BY <2>2 DEF Half
    <3> HIDE DEF p
    <3>3. p \in P
      BY <2>2, <3>1, <3>2
    <3> QED
      BY <2>2, <3>1, <3>3
  <2> QED
    BY <2>1, <2>2
<1> HIDE DEF P, S
<1>4. <<Mcp!State, 0>> \in S
  <2>1. Mcp!State = Looks(objects, apps)
    BY DEF Mcp!State, Looks
  <2>2. Half(objects, apps, 0)
    <3>1. Mcp!Free = Mcp!Oids \ DOMAIN objects /\ Bares(0) = {k \in 1 .. N : ~ apps[k].init}
      BY DEF Mcp!Free, Bares
    <3>2. objects \in Tables
      BY DEF Tables
    <3> QED
      BY <1>2, <3>1, <3>2 DEF Half, McpInv, McpTypes
  <2> QED
    BY <1>2, <1>3, <2>1, <2>2
<1>5. ASSUME NEW t \in S, t[2] < N
      PROVE  <<F(t[1], t[2] + 1), t[2] + 1>> \in S
  <2>1. PICK tab, list, k : k \in 0 .. N /\ Half(tab, list, k) /\ t = <<Looks(tab, list), k>>
    BY <1>3
  <2>2. t[1] = Looks(tab, list) /\ t[2] = k /\ k \in Nat /\ k < N /\ k + 1 \in 0 .. N
    BY <1>2, <1>5, <2>1
  <2>3. IF apps[k + 1].init THEN Half(tab, list, k + 1)
        ELSE \E tt, new : /\ Half(tt, new, k + 1)
                          /\ Mcp!app_init(Looks(tab, list), k + 1) = Looks(tt, new)
    BY <1>2, <2>1, <2>2, HalfStep
  <2>4. \E tt, new : Half(tt, new, k + 1) /\ F(Looks(tab, list), k + 1) = Looks(tt, new)
    BY <2>3
  <2> HIDE DEF F
  <2> QED
    BY <1>3, <2>2, <2>4
<1>6. \A t \in S : t[2] \in Nat
  BY <1>2, <1>3
<1> HIDE DEF F
<1>7. G \in [S -> S]
  BY <1>5
<1>8. \A t \in S : t[2] < N => G[t] = <<F(t[1], t[2] + 1), t[2] + 1>>
  OBVIOUS
<1> HIDE DEF G
<1>9. init = [k \in 0 .. N |-> IF k = 0 THEN Mcp!State ELSE F(init[k - 1], k)]
  <2>1. PICK g \in [0 .. N -> S] :
           /\ g[0] = <<Mcp!State, 0>>
           /\ \A k \in 1 .. N : g[k] = G[g[k - 1]]
           /\ \A k \in 0 .. N : g[k][2] = k
    <3> DEFINE a == <<Mcp!State, 0>>
    <3>1. a[2] = 0
      OBVIOUS
    <3>2. Ticks(S, G, N)
      BY <1>6, <1>8 DEF Ticks
    <3> HIDE DEF a
    <3>3. a \in S
      BY <1>4 DEF a
    <3> HIDE DEF N
    <3>4. Steps(S, G, a, N)
      BY <1>2, <1>7, <3>1, <3>2, <3>3, WalkCounts
    <3> QED
      BY <3>4 DEF Steps, a
  <2> DEFINE f == [k \in 0 .. N |-> g[k][1]]
  <2>2. \A k \in 1 .. N : f[k] = F(f[k - 1], k)
    <3> SUFFICES ASSUME NEW k \in 1 .. N PROVE g[k][1] = F(g[k - 1][1], k)
      BY <1>2
    <3>1. g[k - 1] \in S /\ g[k - 1][2] = k - 1 /\ k - 1 < N /\ (k - 1) + 1 = k /\ g[k] = G[g[k - 1]]
      BY <1>2, <2>1
    <3>2. g[k] = <<F(g[k - 1][1], k), k>>
      BY <1>8, <3>1
    <3> QED
      BY <3>2
  <2>3. f[0] = Mcp!State /\ f = [k \in 0 .. N |-> f[k]]
    BY <1>2, <2>1
  <2> HIDE DEF f
  <2>4. f = [k \in 0 .. N |-> IF k = 0 THEN Mcp!State ELSE F(f[k - 1], k)]
    <3>1. ASSUME NEW k \in 0 .. N PROVE f[k] = IF k = 0 THEN Mcp!State ELSE F(f[k - 1], k)
      <4>1. CASE k = 0
        BY <2>3, <4>1
      <4>2. CASE k # 0
        <5>1. k \in 1 .. N
          BY <1>2, <4>2
        <5>2. f[k] = F(f[k - 1], k)
          BY <2>2, <5>1
        <5> QED
          BY <4>2, <5>2
      <4> QED
        BY <4>1, <4>2
    <3> QED
      BY <2>3, <3>1
  <2> USE DEF F
  <2>5. \E x : x = [k \in 0 .. N |-> IF k = 0 THEN Mcp!State
                   ELSE IF apps[k].init THEN x[k - 1] ELSE Mcp!app_init(x[k - 1], k)]
    BY <2>4
  <2> QED
    BY <2>5, Zenon
<1> HIDE DEF init
<1> DEFINE T == {k \in Nat : k <= N => <<init[k], k>> \in S}
<1>10. 0 \in T
  BY <1>2, <1>4, <1>9
<1>11. ASSUME NEW k \in Nat, k \in T PROVE k + 1 \in T
  <2> SUFFICES ASSUME k + 1 <= N PROVE <<init[k + 1], k + 1>> \in S
    OBVIOUS
  <2>1. <<init[k], k>> \in S /\ k < N
    BY <1>2, <1>11
  <2>2. init[k + 1] = F(init[k], k + 1)
    BY <1>2, <1>9
  <2> DEFINE t == <<init[k], k>>
  <2>3. t[1] = init[k] /\ t[2] = k
    OBVIOUS
  <2> HIDE DEF t
  <2>4. <<F(t[1], t[2] + 1), t[2] + 1>> \in S
    BY <1>5, <2>1, <2>3 DEF t
  <2> QED
    BY <2>2, <2>3, <2>4
<1>12. Nat \subseteq T
  <2> HIDE DEF T
  <2> QED
    BY <1>10, <1>11, SetInduction
<1>13. <<init[N], N>> \in S
  BY <1>2, <1>12
<1>14. PICK tab, list, k : k \in 0 .. N /\ Half(tab, list, k) /\ <<init[N], N>> = <<Looks(tab, list), k>>
  BY <1>3, <1>13
<1>15. init[N] = Looks(tab, list) /\ k = N
  BY <1>14
<1> QED
  BY <1>1, <1>14, <1>15

LEMMA MainloopInv == ASSUME McpInv, Mcp!Mainloop PROVE McpInv'
<1>1. PICK tab, list : Half(tab, list, Len(apps)) /\ Mcp!Callback(Looks(tab, list))
  BY LoopMakes
<1>2. objects' = tab /\ apps' = list /\ focus' = focus /\ orders' = orders
  <2>1. Looks(tab, list) = [table |-> tab, apps |-> list, focus |-> focus, out |-> <<>>]
    BY DEF Looks
  <2>2. objects' = tab /\ apps' = list /\ focus' = focus /\ orders' = orders \o <<>>
    BY <1>1, <2>1, Turned
  <2>3. orders \in Seq(Orders)
    BY DEF McpInv, McpTypes
  <2> QED
    BY <2>2, <2>3, ConcatEmptySeq
<1>3. UNCHANGED <<srvFocus, toMcp, closed, killed, starts>>
  BY DEF Mcp!Mainloop
<1>4. \A o : /\ ~ OnTheWay(toMcp, Note("DEL", o)) /\ ~ OnTheWay(toMcp, Note("CLICK", o))
             /\ ~ OnTheWay(orders, Note("DEL", o))
  BY SettledMeans DEF Mcp!Mainloop
<1>5. Mcp!OfKind("virtual")' = Mcp!OfKind("virtual")
  BY <1>1, <1>2 DEF Mcp!OfKind, Half
<1>6. Seated' = Seated
  BY <1>1, <1>2 DEF Seated, Half
<1>7. McpTypes'
  BY <1>1, <1>2, <1>3 DEF McpInv, McpTypes, Half
<1>8. McpKnows'
  BY <1>2, <1>3, <1>4, <1>5, <1>6 DEF McpInv, McpKnows
<1>9. Dressed(objects', apps', orders')
  BY <1>1, <1>2 DEF Half
<1>10. FocusTold'
  BY <1>2, <1>3 DEF McpInv, FocusTold
<1>11. Closing'
  BY <1>2, <1>3, <1>4, <1>5 DEF McpInv, Closing
<1> QED
  BY <1>2, <1>6, <1>7, <1>8, <1>9, <1>10, <1>11 DEF McpInv

LEMMA McpInit == Mcp!Init => McpInv
<1> SUFFICES ASSUME Mcp!Init PROVE McpInv
  OBVIOUS
<1>1. /\ DOMAIN objects = {} /\ srvFocus = -1 /\ toMcp = <<>> /\ orders = <<>>
      /\ apps = <<>> /\ focus = -1 /\ killed = {} /\ starts = 0
  BY DEF Mcp!Init
<1>2. Len(<<>>) = 0 /\ \A S : <<>> \in Seq(S)
  OBVIOUS
<1>3. \A i : i \notin 1 .. Len(<<>>)
  BY <1>2
<1>4. \A x : ~ OnTheWay(<<>>, x)
  BY <1>3 DEF OnTheWay
<1>5. Seated = {} /\ Mcp!OfKind("virtual") = {}
  BY <1>1, <1>3 DEF Seated, Mcp!OfKind
<1>6. McpTypes
  BY <1>1, <1>2 DEF McpTypes
<1>7. McpKnows
  BY <1>1, <1>3, <1>4, <1>5 DEF McpKnows, Announced
<1>8. Dressed(objects, apps, orders)
  BY <1>1, <1>3 DEF Dressed
<1>9. FocusTold
  BY <1>1, <1>3 DEF FocusTold, NoFocus
<1>10. Closing
  BY <1>1, <1>3, <1>4, <1>5 DEF Closing
<1> QED
  BY <1>1, <1>5, <1>6, <1>7, <1>8, <1>9, <1>10 DEF McpInv

LEMMA McpNext == McpInv /\ [Mcp!Next]_(Mcp!vars) => McpInv'
<1> SUFFICES ASSUME McpInv, [Mcp!Next]_(Mcp!vars) PROVE McpInv'
  OBVIOUS
<1>1. CASE Mcp!Start
  BY <1>1, StartInv
<1>2. CASE Mcp!Grow
  BY <1>2, GrowInv
<1>3. CASE Mcp!ProgramQuits
  BY <1>3, QuitsInv
<1>4. CASE Mcp!UserClicks
  BY <1>4, ClicksInv
<1>5. CASE Mcp!ServerDel
  BY <1>5, ServerDelInv
<1>6. CASE Mcp!ServerFocus
  BY <1>6, ServerFocusInv
<1>7. CASE Mcp!McpEvent
  BY <1>7, EventInv
<1>8. CASE Mcp!Mainloop
  BY <1>8, MainloopInv
<1>9. CASE UNCHANGED Mcp!vars
  <2>1. UNCHANGED <<objects, srvFocus, toMcp, orders, apps, focus, closed, killed, starts>>
    BY <1>9 DEF Mcp!vars
  <2>2. Seated' = Seated /\ Mcp!OfKind("virtual")' = Mcp!OfKind("virtual")
    BY <2>1 DEF Seated, Mcp!OfKind
  <2>3. McpTypes' /\ McpKnows' /\ FocusTold' /\ Closing'
    BY <2>1, <2>2 DEF McpInv, McpTypes, McpKnows, FocusTold, Closing
  <2> QED
    BY <2>1, <2>2, <2>3 DEF McpInv
<1> QED
  BY <1>1, <1>2, <1>3, <1>4, <1>5, <1>6, <1>7, <1>8, <1>9 DEF Mcp!Next

LEMMA McpInvAgrees == McpInv => McpAgrees
<1> SUFFICES ASSUME McpInv PROVE Mcp!AgreeAtRest /\ Mcp!OnlyClosedDie
  BY DEF McpAgrees
<1>1. Mcp!OnlyClosedDie
  BY DEF McpInv, Closing, Mcp!OnlyClosedDie
<1>2. ASSUME toMcp = <<>>, orders = <<>>
      PROVE  /\ {apps[k].oid : k \in DOMAIN apps} = Mcp!OfKind("virtual")
             /\ Mcp!OfKind("own") = UNION {Mcp!Decor(apps[k]) : k \in DOMAIN apps}
             /\ Mcp!Cardinality(Mcp!OfKind("virtual")) = Len(apps)
             /\ focus = srvFocus
  <2>1. \A x : ~ OnTheWay(toMcp, x) /\ ~ OnTheWay(orders, x)
    BY <1>2 DEF OnTheWay
  <2>2. apps \in Seq(App) /\ DOMAIN apps = 1 .. Len(apps) /\ Len(apps) \in Nat
    BY DEF McpInv, McpTypes
  <2>3. Seated = Mcp!OfKind("virtual") /\ Seated = {apps[k].oid : k \in 1 .. Len(apps)}
    <3>1. \A o \in Mcp!OfKind("virtual") : o \in Seated
      BY <2>1 DEF McpInv, McpKnows
    <3>2. \A o \in Seated : o \in Mcp!OfKind("virtual")
      BY <2>1 DEF McpInv, McpKnows
    <3> QED
      BY <3>1, <3>2 DEF Seated
  <2>4. Mcp!OfKind("own") = UNION {Mcp!Decor(apps[k]) : k \in DOMAIN apps}
    <3>1. \A w \in DOMAIN objects : objects[w] = "own" => \E k \in 1 .. Len(apps) : w \in Mcp!Decor(apps[k])
      BY <2>1 DEF McpInv, Dressed
    <3>2. \A k \in 1 .. Len(apps) : \A w \in Mcp!Decor(apps[k]) : w \in DOMAIN objects /\ objects[w] = "own"
      BY DEF McpInv, Dressed, Mcp!Decor
    <3> QED
      BY <2>2, <3>1, <3>2 DEF Mcp!OfKind
  <2>5. Cardinality({apps[k].oid : k \in 1 .. Len(apps)}) = Len(apps)
    <3> DEFINE n == Len(apps)
               D == 1 .. n
               f == [k \in D |-> apps[k].oid]
    <3>1. IsFiniteSet(D) /\ Cardinality(D) = n
      <4>1. n \in Nat
        BY <2>2
      <4> HIDE DEF n
      <4>2. IsFiniteSet(1 .. n) /\ Cardinality(1 .. n) = n
        BY <4>1, FS_Interval
      <4> QED
        BY <4>2
    <3>2. Once(f, D)
      <4>1. \A i, j \in D : i # j => apps[i].oid # apps[j].oid
        BY DEF McpInv, Dressed
      <4> QED
        BY <4>1 DEF Once
    <3>3. {f[k] : k \in D} = {apps[k].oid : k \in 1 .. Len(apps)}
      OBVIOUS
    <3> HIDE DEF f, D
    <3>4. Cardinality({f[k] : k \in D}) = Cardinality(D)
      BY <3>1, <3>2, ImageSize
    <3> QED
      BY <3>1, <3>3, <3>4, Zenon
  <2>6. focus = srvFocus
    <3>1. ~ LastFocus(orders, focus)
      BY <2>1 DEF LastFocus, OnTheWay
    <3> QED
      BY <2>1, <3>1 DEF McpInv, FocusTold
  <2>7. Cardinality(Mcp!OfKind("virtual")) = Len(apps)
    BY <2>3, <2>5, Zenon
  <2> QED
    BY <2>2, <2>3, <2>4, <2>6, <2>7, CountedMcp
<1> QED
  BY <1>1, <1>2 DEF Mcp!AgreeAtRest

(* Whatever crosses on the way, dot_mcp has each program in its list once, *)
(* with its decorations and no others, and the focus where the server has  *)
(* it, as soon as all has arrived; and it ends only programs whose close   *)
(* button was clicked.                                                     *)
THEOREM McpFollowsTheServer == Mcp!Spec => []McpAgrees
<1>1. Mcp!Init => McpInv
  BY McpInit
<1>2. McpInv /\ [Mcp!Next]_(Mcp!vars) => McpInv'
  BY McpNext
<1>3. McpInv => McpAgrees
  BY McpInvAgrees
<1> QED
  BY <1>1, <1>2, <1>3, PTL DEF Mcp!Spec
=============================================================================
