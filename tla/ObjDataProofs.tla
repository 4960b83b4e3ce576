--------------------------- MODULE ObjDataProofs ---------------------------
(***************************************************************************)
(* Proofs about ObjData: the list obj_render() has compiled shows what the *)
(* object holds.  The functions that change a stack drop the list, but the *)
(* removal that empties one does not, and neither does obj_push_tex().     *)
(* What saves the picture lies with the program, and packets away: it pops *)
(* less than it has pushed, and it pushes its textures first.  So the      *)
(* invariant follows the length of each stack through the packets under    *)
(* way, from what the server has to what the program counts.               *)
(* And, in the second half, that what a program asks for is what it gets:  *)
(* the object after all that is under way is an object of Stacks.  There   *)
(* the invariant is about that object: it has the entries the program      *)
(* counts, whatever the server has seen of them.                           *)
(***************************************************************************)
EXTENDS ObjData, SequenceTheorems, WellFoundedInduction, TLAPS

Kinds == {"vertex", "mat", "poly", "line", "tex"}
Vertex   == [id : Int]
Material == [id : Int, tex : Int]
Polygon  == [id : Int, v : Nat, mat : Nat, n : Int, tc : Int]
Line     == [id : Int, v : Nat, mat : Nat, n : Int]
Texture  == [id : Int]

Object == [vertex : Seq(Vertex), mat : Seq(Material), poly : Seq(Polygon), line : Seq(Line),
           tex : Seq(Texture), flags : SUBSET {"visible", "selectable", "pointable"}]

(* What a packet carries.                                                  *)
ValueOps == (PepOps \ {"PEP_LINE"}) \union LoadOps
FlagOps == {"FLAGS_ON", "FLAGS_OFF"}
Packets ==
  UNION {[op : {"PUSH_VERTEX"}, at : Nat, xs : Seq(Vertex)],
         [op : {"PUSH_MAT"}, at : Nat, xs : Seq(Material)],
         [op : {"PUSH_POLY"}, at : Nat, xs : Seq(Polygon)],
         [op : {"PUSH_LINE", "PEP_LINE"}, at : Nat, xs : Seq(Line)],
         [op : {"PUSH_TEX"}, at : Nat, xs : Seq(Texture)],
         [op : ValueOps, at : Nat, xs : Seq(Int)],
         [op : DelOps, at : Nat, xs : {<<>>}],
         [op : FlagOps, at : Nat, xs : {<<f>> : f \in {"visible", "selectable", "pointable"}}]}

(* The packets that make a stack longer, and shorter.                      *)
PushOf == [vertex |-> "PUSH_VERTEX", mat |-> "PUSH_MAT", poly |-> "PUSH_POLY",
           line |-> "PUSH_LINE", tex |-> "PUSH_TEX"]
DelOf == [vertex |-> "DEL_VERTEX", mat |-> "DEL_MAT", poly |-> "DEL_POLY",
          line |-> "DEL_LINE", tex |-> "DEL_TEX"]

(* Where stack k had m entries or more, packet p leaves n or more, and it  *)
(* does not empty the stack.  Of a stack of textures a removal leaves as   *)
(* many as it was to remove.                                               *)
Leaves(k, p, m, n) ==
  IF p.op = PushOf[k] THEN n <= m + Len(p.xs)
  ELSE IF p.op = DelOf[k]
       THEN /\ 0 < p.at /\ p.at < m /\ Width(p.at) = p.at
            /\ n <= (IF k = "tex" THEN p.at ELSE m - p.at)
       ELSE n <= m

(* The packets ps lead from m entries to n.                                *)
Leads(k, ps, m, n) ==
  \E d \in [0 .. Len(ps) -> Nat] :
     /\ d[0] = m /\ d[Len(ps)] = n
     /\ \A i \in 1 .. Len(ps) : Leaves(k, ps[i], d[i - 1], d[i])

TypeInv == /\ obj \in Object /\ chan \in Seq(Packets)
           /\ pushed \in [Kinds -> Nat] /\ calls \in Nat
(* From what a stack holds to what the program has pushed.                 *)
CountInv == \A k \in Kinds : \E m \in 0 .. Len(obj[k]) : Leads(k, chan, m, pushed[k])
(* A texture comes before all materials.                                   *)
Bare(ps) == \A i \in 1 .. Len(ps) : ps[i].op # "PUSH_MAT"
TextureInv ==
  /\ pushed["mat"] = 0 => obj.mat = <<>> /\ Bare(chan)
  /\ \A i \in 1 .. Len(chan) :
        chan[i].op = "PUSH_TEX" => obj.mat = <<>> /\ \A j \in 1 .. i : chan[j].op # "PUSH_MAT"
Inv == TypeInv /\ CountInv /\ TextureInv /\ ListIsCurrent

(* What programs do that keeps the picture, and arrays of which the pieces *)
(* hold all: as written, the count of pieces is by the room in a packet.   *)
Tame == Uses \cap {"popwide", "poptex", "popall", "latetex"} = {}
Covered(n) == n * Bytes <= ((n * Bytes) \div (MF_LEN - 4) + 1) * (((MF_LEN - 4) \div Bytes) * Bytes)

-----------------------------------------------------------------------------
(* The pieces of an array.                                                 *)

(* Multiplication keeps the order.                                         *)
LEMMA Times ==
  ASSUME NEW a \in Nat, NEW b \in Nat, NEW c \in Nat, a <= b
  PROVE  a * c <= b * c
OBVIOUS

LEMMA TimesFour ==
  ASSUME NEW a \in Nat, NEW b \in Nat
  PROVE  a * (b * 4) = 4 * (a * b) /\ a * b \in Nat
OBVIOUS

(* A piece lies in the array, and begins where the one before it ends.     *)
LEMMA PiecesFit ==
  ASSUME NEW n \in Nat, NEW h \in {4, 8}
  PROVE  \E m \in Nat \ {0}, last \in Nat \ {0} :
           /\ MF_LEN - h = 4 * m + 2 /\ last = (n * 4) \div (4 * m + 2) + 1
           /\ DOMAIN Pieces(n, h) = 1 .. last
           /\ \A f \in 1 .. last :
                /\ (f - 1) * m \in 0 .. n /\ f * m = (f - 1) * m + m
                /\ Pieces(n, h)[f].from \in Nat /\ Pieces(n, h)[f].from \div Bytes = (f - 1) * m
                /\ Pieces(n, h)[f].n = IF n - (f - 1) * m > m THEN m ELSE n - (f - 1) * m
<1> DEFINE room  == MF_LEN - h
           stepl == (room \div 4) * 4
           m     == room \div 4
           len   == n * 4
           last  == len \div room + 1
           flen(i) == IF len - i * stepl > stepl THEN stepl ELSE len - i * stepl
<1>1. m \in Nat \ {0} /\ room = 4 * m + 2 /\ stepl = 4 * m
  BY SizeAssumption
<1>2. /\ len \in Nat /\ len \div room \in Nat
      /\ (len \div room) * room <= len
  BY <1>1
<1>3. Pieces(n, h) = [f \in 1 .. last |-> [from |-> (f - 1) * stepl, n |-> flen(f - 1) \div 4]]
  BY DEF Pieces, Bytes
<1> HIDE DEF room, m, last, stepl
<1>4. last \in Nat \ {0} /\ last = (n * 4) \div (4 * m + 2) + 1
  BY <1>1, <1>2 DEF last
<1>5. ASSUME NEW f \in 1 .. last
      PROVE  /\ (f - 1) * m \in 0 .. n /\ f * m = (f - 1) * m + m
             /\ Pieces(n, h)[f].from \in Nat /\ Pieces(n, h)[f].from \div 4 = (f - 1) * m
             /\ Pieces(n, h)[f].n = IF n - (f - 1) * m > m THEN m ELSE n - (f - 1) * m
  <2>1. f - 1 \in Nat /\ f - 1 <= len \div room
    BY <1>2, <1>4 DEF last
  <2>2. (f - 1) * room <= len
    <3>1. (f - 1) * room <= (len \div room) * room
      BY <1>1, <1>2, <2>1, Times
    <3> QED
      BY <1>1, <1>2, <2>1, <3>1
  <2> DEFINE q == (f - 1) * m
  <2>3. q \in Nat /\ (f - 1) * room = 4 * q + 2 * (f - 1) /\ (f - 1) * stepl = 4 * q /\ f * m = q + m
    BY <1>1, <2>1
  <2>4. Pieces(n, h)[f] = [from |-> (f - 1) * stepl, n |-> flen(f - 1) \div 4]
    BY <1>3
  <2> HIDE DEF q
  <2>5. q <= n /\ (4 * q) \div 4 = q
    BY <2>1, <2>2, <2>3
  <2>6. flen(f - 1) = IF n - q > m THEN 4 * m ELSE 4 * (n - q)
    BY <1>1, <2>3, <2>5
  <2>7. flen(f - 1) \div 4 = IF n - q > m THEN m ELSE n - q
    BY <1>1, <2>3, <2>5, <2>6
  <2> QED
    BY <2>3, <2>4, <2>5, <2>7 DEF q
<1> QED
  BY <1>1, <1>3, <1>4, <1>5 DEF Bytes, room

(* What is cut out of an array has its entries.                            *)
LEMMA PieceOf ==
  ASSUME NEW E, NEW xs \in Seq(E), NEW p, p.from \div Bytes \in 0 .. Len(xs),
         p.n \in 0 .. Len(xs) - p.from \div Bytes
  PROVE  Piece(xs, p) \in Seq(E) /\ Len(Piece(xs, p)) = p.n
<1> DEFINE q == p.from \div Bytes
<1>1. q \in 0 .. Len(xs) /\ p.n \in 0 .. Len(xs) - q
  OBVIOUS
<1> HIDE DEF q
<1>2. /\ q + 1 \in 1 .. Len(xs) + 1 /\ q + p.n \in q .. Len(xs)
      /\ \A i \in q + 1 .. q + p.n : xs[i] \in E
  BY <1>1
<1>3. /\ SubSeq(xs, q + 1, q + p.n) \in Seq(E)
      /\ Len(SubSeq(xs, q + 1, q + p.n)) = IF q + 1 <= q + p.n THEN q + p.n - (q + 1) + 1 ELSE 0
  BY <1>1, <1>2, SubSeqProperties
<1> QED
  BY <1>1, <1>3 DEF Piece, q

(* The entries of each stack.                                              *)
EntryOf == [vertex |-> Vertex, mat |-> Material, poly |-> Polygon, line |-> Line, tex |-> Texture]

(* A request whose packets are all of one kind.                            *)
All(op, ps) == ps \in Seq(Packets) /\ \A i \in 1 .. Len(ps) : ps[i].op = op

LEMMA PushPacket ==
  ASSUME NEW k \in Kinds, NEW xs \in Seq(EntryOf[k]), NEW at \in Nat
  PROVE  Packet(PushOf[k], at, xs) \in Packets
BY DEF Packet, Packets, Kinds, EntryOf, PushOf

LEMMA ValuePacket ==
  ASSUME NEW op \in ValueOps, NEW xs \in Seq(Int), NEW at \in Nat
  PROVE  Packet(op, at, xs) \in Packets
BY DEF Packet, Packets

LEMMA OnePacket ==
  ASSUME NEW op, NEW at, NEW xs, Packet(op, at, xs) \in Packets
  PROVE  All(op, <<Packet(op, at, xs)>>)
BY DEF All, Packet

LEMMA NoPacket == \A op : All(op, <<>>)
BY DEF All

(* The pieces of an array that is pushed.                                  *)
LEMMA SplitPush ==
  ASSUME NEW k \in Kinds, NEW xs \in Seq(EntryOf[k]), Covered(Len(xs)), NEW m0 \in Nat
  PROVE  /\ All(PushOf[k], Split(PushOf[k], xs))
         /\ Leads(k, Split(PushOf[k], xs), m0, m0 + Len(xs))
<1> DEFINE op == PushOf[k]
           n == Len(xs)
           ps == Split(op, xs)
           p(f) == Pieces(n, 4)[f]
<1>1. n \in Nat
  OBVIOUS
<1>2. PICK m \in Nat \ {0}, last \in Nat \ {0} :
           /\ MF_LEN - 4 = 4 * m + 2 /\ last = (n * 4) \div (4 * m + 2) + 1
           /\ DOMAIN Pieces(n, 4) = 1 .. last
           /\ \A f \in 1 .. last :
                /\ (f - 1) * m \in 0 .. n /\ f * m = (f - 1) * m + m
                /\ p(f).from \in Nat /\ p(f).from \div Bytes = (f - 1) * m
                /\ p(f).n = IF n - (f - 1) * m > m THEN m ELSE n - (f - 1) * m
  BY <1>1, PiecesFit
<1>3. n <= last * m
  <2>1. (MF_LEN - 4) \div 4 = m
    BY <1>2
  <2>2. n * 4 <= ((n * 4) \div (4 * m + 2) + 1) * (m * 4)
    BY <1>2, <2>1 DEF Covered, Bytes
  <2>3. n * 4 <= last * (m * 4)
    BY <1>2, <2>2
  <2>4. last * (m * 4) = 4 * (last * m) /\ last * m \in Nat
    BY TimesFour
  <2> QED
    BY <1>1, <2>3, <2>4
<1> HIDE DEF n
<1>4. ps = [f \in 1 .. last |-> Packet(op, 0, Piece(xs, p(f)))]
  BY <1>2 DEF Split, n
<1>5. ASSUME NEW f \in 1 .. last
      PROVE  Piece(xs, p(f)) \in Seq(EntryOf[k]) /\ Len(Piece(xs, p(f))) = p(f).n
  <2> DEFINE q == (f - 1) * m
  <2>1. /\ q \in 0 .. n /\ p(f).from \div Bytes = q
        /\ p(f).n = IF n - q > m THEN m ELSE n - q
    BY <1>2
  <2> HIDE DEF q
  <2>2. /\ p(f).from \div Bytes \in 0 .. Len(xs)
        /\ p(f).n \in 0 .. Len(xs) - p(f).from \div Bytes
    BY <1>1, <2>1 DEF n
  <2> QED
    BY <2>2, PieceOf
<1>6. /\ ps \in Seq(Packets) /\ Len(ps) = last
      /\ \A f \in 1 .. last : ps[f].op = op /\ Len(ps[f].xs) = p(f).n
  <2>1. \A f \in 1 .. last : Packet(op, 0, Piece(xs, p(f))) \in Packets
    BY <1>5, PushPacket
  <2>2. \A f \in 1 .. last : ps[f].op = op /\ Len(ps[f].xs) = p(f).n
    BY <1>4, <1>5 DEF Packet
  <2>3. ps \in Seq(Packets) /\ Len(ps) = last
    BY <1>4, <2>1
  <2> QED
    BY <2>2, <2>3
<1> HIDE DEF ps
<1>7. Leads(k, ps, m0, m0 + n)
  <2> DEFINE d == [i \in 0 .. last |-> m0 + (IF i * m < n THEN i * m ELSE n)]
  <2>1. d \in [0 .. last -> Nat]
    <3>1. \A i \in 0 .. last : i * m \in Nat
      BY TimesFour
    <3> QED
      BY <1>1, <3>1
  <2>2. d[0] = m0
    BY <1>1, <1>2
  <2>3. d[last] = m0 + n
    BY <1>1, <1>2, <1>3
  <2>4. ASSUME NEW i \in 1 .. last
        PROVE  Leaves(k, ps[i], d[i - 1], d[i])
    <3>1. /\ (i - 1) * m \in 0 .. n /\ i * m = (i - 1) * m + m
          /\ p(i).n = IF n - (i - 1) * m > m THEN m ELSE n - (i - 1) * m
      BY <1>2
    <3>2. i - 1 \in 0 .. last /\ i \in 0 .. last
      OBVIOUS
    <3>3. d[i - 1] = m0 + (i - 1) * m /\ d[i] = m0 + (IF i * m < n THEN i * m ELSE n)
      BY <1>1, <3>1, <3>2
    <3> HIDE DEF d
    <3>4. d[i] <= d[i - 1] + p(i).n
      BY <1>1, <1>2, <3>1, <3>3
    <3> QED
      BY <1>6, <3>4 DEF Leaves
  <2> HIDE DEF d
  <2> QED
    BY <1>6, <2>1, <2>2, <2>3, <2>4 DEF Leads
<1> QED
  BY <1>6, <1>7 DEF All, n, ps

(* ... and of one that is loaded.                                          *)
LEMMA SplitLoad ==
  ASSUME NEW op \in LoadOps, NEW xs \in Seq(Int), NEW start \in Nat
  PROVE  All(op, SplitAt(op, start, xs))
<1> DEFINE n == Len(xs)
           ps == SplitAt(op, start, xs)
           p(f) == Pieces(n, 8)[f]
<1>1. n \in Nat
  OBVIOUS
<1>2. PICK m \in Nat \ {0}, last \in Nat \ {0} :
           /\ MF_LEN - 8 = 4 * m + 2 /\ last = (n * 4) \div (4 * m + 2) + 1
           /\ DOMAIN Pieces(n, 8) = 1 .. last
           /\ \A f \in 1 .. last :
                /\ (f - 1) * m \in 0 .. n /\ f * m = (f - 1) * m + m
                /\ p(f).from \in Nat /\ p(f).from \div Bytes = (f - 1) * m
                /\ p(f).n = IF n - (f - 1) * m > m THEN m ELSE n - (f - 1) * m
  BY <1>1, PiecesFit
<1> HIDE DEF n
<1>4. ps = [f \in 1 .. last |-> Packet(op, start + p(f).from, Piece(xs, p(f)))]
  BY <1>2 DEF SplitAt, n
<1>5. ASSUME NEW f \in 1 .. last
      PROVE  Piece(xs, p(f)) \in Seq(Int) /\ start + p(f).from \in Nat
  <2> DEFINE q == (f - 1) * m
  <2>1. /\ q \in 0 .. n /\ p(f).from \div Bytes = q
        /\ p(f).n = IF n - q > m THEN m ELSE n - q
    BY <1>2
  <2> HIDE DEF q
  <2>2. /\ p(f).from \div Bytes \in 0 .. Len(xs)
        /\ p(f).n \in 0 .. Len(xs) - p(f).from \div Bytes
    BY <1>1, <2>1 DEF n
  <2>3. start + p(f).from \in Nat
    BY <1>2
  <2>4. Piece(xs, p(f)) \in Seq(Int)
    BY <2>2, PieceOf
  <2> QED
    BY <2>3, <2>4
<1>6. ASSUME NEW f \in 1 .. last
      PROVE  Packet(op, start + p(f).from, Piece(xs, p(f))) \in Packets
  <2>1. op \in ValueOps
    BY DEF ValueOps
  <2> QED
    BY <1>5, <2>1, ValuePacket
<1>7. ps \in [1 .. last -> Packets]
  BY <1>4, <1>6
<1>8. \A f \in 1 .. last : ps[f].op = op
  BY <1>4 DEF Packet
<1> HIDE DEF ps
<1>9. ps \in Seq(Packets) /\ Len(ps) = last
  BY <1>7
<1>10. All(op, ps)
  BY <1>8, <1>9 DEF All
<1> QED
  BY <1>10 DEF ps

-----------------------------------------------------------------------------
(* Lengths, along the packets.                                             *)

(* One request after others.                                               *)
LEMMA LeadsOn ==
  ASSUME NEW k, NEW s \in Seq(Packets), NEW t \in Seq(Packets), NEW a, NEW b, NEW c,
         Leads(k, s, a, b), Leads(k, t, b, c)
  PROVE  Leads(k, s \o t, a, c)
<1> DEFINE m == Len(s)
           n == Len(t)
<1>1. PICK d \in [0 .. m -> Nat] :
         d[0] = a /\ d[m] = b /\ \A i \in 1 .. m : Leaves(k, s[i], d[i - 1], d[i])
  BY DEF Leads
<1>2. PICK e \in [0 .. n -> Nat] :
         e[0] = b /\ e[n] = c /\ \A i \in 1 .. n : Leaves(k, t[i], e[i - 1], e[i])
  BY DEF Leads
<1>3. /\ m \in Nat /\ n \in Nat /\ Len(s \o t) = m + n
      /\ \A i \in 1 .. m : (s \o t)[i] = s[i]
      /\ \A i \in 1 .. n : (s \o t)[m + i] = t[i]
  BY ConcatProperties
<1> HIDE DEF m, n
<1> DEFINE f == [i \in 0 .. m + n |-> IF i <= m THEN d[i] ELSE e[i - m]]
<1>4. /\ f \in [0 .. m + n -> Nat] /\ f[0] = a /\ f[m + n] = c
      /\ \A i \in 0 .. m : f[i] = d[i]
      /\ \A i \in 0 .. n : f[m + i] = e[i]
  <2>1. f \in [0 .. m + n -> Nat]
    <3>1. ASSUME NEW i \in 0 .. m + n PROVE (IF i <= m THEN d[i] ELSE e[i - m]) \in Nat
      BY <1>1, <1>2, <1>3
    <3> QED
      BY <3>1
  <2>2. \A i \in 0 .. m : f[i] = d[i]
    BY <1>3
  <2>3. \A i \in 0 .. n : f[m + i] = e[i]
    <3> SUFFICES ASSUME NEW i \in 0 .. n PROVE f[m + i] = e[i]
      OBVIOUS
    <3>1. CASE i = 0
      BY <1>1, <1>2, <1>3, <3>1
    <3>2. CASE i > 0
      <4>1. m + i \in 0 .. m + n /\ ~(m + i <= m) /\ (m + i) - m = i
        BY <1>3, <3>2
      <4> QED
        BY <4>1
    <3> QED
      BY <3>1, <3>2
  <2>4. 0 \in 0 .. m /\ n \in 0 .. n
    BY <1>3
  <2> HIDE DEF f
  <2> QED
    BY <1>1, <1>2, <2>1, <2>2, <2>3, <2>4
<1> HIDE DEF f
<1>5. ASSUME NEW i \in 1 .. m + n
      PROVE  Leaves(k, (s \o t)[i], f[i - 1], f[i])
  <2>1. CASE i \in 1 .. m
    <3>1. i - 1 \in 0 .. m /\ i \in 0 .. m
      BY <1>3, <2>1
    <3> QED
      BY <1>1, <1>3, <1>4, <2>1, <3>1
  <2>2. CASE i \notin 1 .. m
    <3>1. PICK j \in 1 .. n : i = m + j
      BY <1>3, <2>2
    <3>2. j - 1 \in 0 .. n /\ j \in 0 .. n /\ i - 1 = m + (j - 1)
      BY <1>3, <3>1
    <3> QED
      BY <1>2, <1>3, <1>4, <3>1, <3>2
  <2> QED
    BY <2>1, <2>2
<1> QED
  BY <1>3, <1>4, <1>5 DEF Leads

(* One packet.                                                             *)
LEMMA LeadsOne ==
  ASSUME NEW k, NEW p, NEW a \in Nat, NEW b \in Nat, Leaves(k, p, a, b)
  PROVE  Leads(k, <<p>>, a, b)
<1> DEFINE d == [i \in 0 .. 1 |-> IF i = 0 THEN a ELSE b]
<1>1. d \in [0 .. 1 -> Nat] /\ d[0] = a /\ d[1] = b /\ Len(<<p>>) = 1 /\ <<p>>[1] = p
  OBVIOUS
<1> HIDE DEF d
<1>2. \A i \in 1 .. 1 : Leaves(k, <<p>>[i], d[i - 1], d[i])
  BY <1>1
<1> QED
  BY <1>1, <1>2 DEF Leads

(* Packets that neither push nor remove.                                   *)
LEMMA LeadsIdle ==
  ASSUME NEW k, NEW op, NEW ps, All(op, ps), op # PushOf[k], op # DelOf[k], NEW a \in Nat
  PROVE  Leads(k, ps, a, a)
<1> DEFINE d == [i \in 0 .. Len(ps) |-> a]
<1>1. Len(ps) \in Nat
  BY DEF All
<1>2. d \in [0 .. Len(ps) -> Nat] /\ d[0] = a /\ d[Len(ps)] = a
  BY <1>1
<1>3. \A i \in 1 .. Len(ps) : d[i - 1] = a /\ d[i] = a
  BY <1>1
<1> HIDE DEF d
<1>4. \A i \in 1 .. Len(ps) : Leaves(k, ps[i], d[i - 1], d[i])
  BY <1>3 DEF Leaves, All
<1> QED
  BY <1>2, <1>4 DEF Leads

(* The first packet is read.                                               *)
LEMMA LeadsTail ==
  ASSUME NEW k, NEW s \in Seq(Packets), s # <<>>, NEW a, NEW b, Leads(k, s, a, b)
  PROVE  \E m \in Nat : Leaves(k, s[1], a, m) /\ Leads(k, Tail(s), m, b)
<1>1. PICK d \in [0 .. Len(s) -> Nat] :
         d[0] = a /\ d[Len(s)] = b /\ \A i \in 1 .. Len(s) : Leaves(k, s[i], d[i - 1], d[i])
  BY DEF Leads
<1> DEFINE n == Len(s) - 1
           e == [i \in 0 .. n |-> d[i + 1]]
<1>2. n \in Nat /\ Len(s) = n + 1 /\ Len(Tail(s)) = n /\ \A i \in 1 .. n : Tail(s)[i] = s[i + 1]
  OBVIOUS
<1> HIDE DEF n
<1>3. e \in [0 .. n -> Nat] /\ e[0] = d[1] /\ e[n] = b /\ d[1] \in Nat
  BY <1>1, <1>2
<1>4. ASSUME NEW i \in 1 .. n
      PROVE  Leaves(k, Tail(s)[i], e[i - 1], e[i])
  <2>1. i + 1 \in 1 .. Len(s) /\ (i + 1) - 1 = i /\ e[i - 1] = d[i] /\ e[i] = d[i + 1]
    BY <1>2
  <2> HIDE DEF e
  <2> QED
    BY <1>1, <1>2, <2>1
<1>5. Leaves(k, s[1], a, d[1])
  <2>1. 1 \in 1 .. Len(s) /\ 1 - 1 = 0
    BY <1>2
  <2> QED
    BY <1>1, <2>1
<1> HIDE DEF e
<1> QED
  BY <1>2, <1>3, <1>4, <1>5 DEF Leads

-----------------------------------------------------------------------------
(* The requests.                                                           *)

(* What the packets of a request keep.                                     *)
Sound(op, ps) ==
  /\ All(op, ps) /\ chan' = chan \o ps
  /\ calls' \in Nat /\ UNCHANGED <<obj, dplist>>
  /\ pushed' \in [Kinds -> Nat]
  /\ \A k \in Kinds : Leads(k, ps, pushed[k], pushed'[k])
  /\ pushed'["mat"] = 0 => pushed["mat"] = 0 /\ op # "PUSH_MAT"
  /\ op = "PUSH_TEX" => pushed["mat"] = 0

LEMMA SoundInv ==
  ASSUME Inv, NEW op, NEW ps, Sound(op, ps)
  PROVE  Inv'
<1> USE DEF Inv
<1>1. /\ ps \in Seq(Packets) /\ chan \in Seq(Packets) /\ chan' = chan \o ps
      /\ \A i \in 1 .. Len(ps) : ps[i].op = op
  BY DEF Sound, All, TypeInv
<1>2. /\ chan' \in Seq(Packets) /\ Len(chan') = Len(chan) + Len(ps)
      /\ Len(chan) \in Nat /\ Len(ps) \in Nat
      /\ \A i \in 1 .. Len(chan') : chan'[i] = IF i <= Len(chan) THEN chan[i] ELSE ps[i - Len(chan)]
  BY <1>1, ConcatProperties
<1>3. TypeInv'
  BY <1>2 DEF TypeInv, Sound
<1>4. CountInv'
  <2> SUFFICES ASSUME NEW k \in Kinds
               PROVE  \E m \in 0 .. Len(obj'[k]) : Leads(k, chan', m, pushed'[k])
    BY DEF CountInv, Leads
  <2>1. PICK m \in 0 .. Len(obj[k]) : Leads(k, chan, m, pushed[k])
    BY DEF CountInv
  <2>2. Leads(k, ps, pushed[k], pushed'[k]) /\ obj' = obj
    BY DEF Sound
  <2>3. Leads(k, chan', m, pushed'[k])
    BY <1>1, <2>1, <2>2, LeadsOn
  <2> QED
    BY <2>2, <2>3
<1>5. \A i \in 1 .. Len(chan') : i > Len(chan) => chan'[i].op = op
  <2> SUFFICES ASSUME NEW i \in 1 .. Len(chan'), i > Len(chan)
               PROVE  chan'[i].op = op
    OBVIOUS
  <2>1. i - Len(chan) \in 1 .. Len(ps) /\ chan'[i] = ps[i - Len(chan)]
    BY <1>2
  <2> QED
    BY <1>1, <2>1
<1>6. obj' = obj /\ dplist' = dplist
  BY DEF Sound
<1>7. TextureInv'
  <2>1. ASSUME pushed'["mat"] = 0 \/ op = "PUSH_TEX"
        PROVE  obj.mat = <<>> /\ Bare(chan')
    <3>1. pushed["mat"] = 0 /\ op # "PUSH_MAT"
      BY <2>1 DEF Sound
    <3> QED
      BY <1>2, <1>5, <3>1 DEF TextureInv, Bare
  <2>2. ASSUME NEW i \in 1 .. Len(chan'), chan'[i].op = "PUSH_TEX"
        PROVE  obj.mat = <<>> /\ \A j \in 1 .. i : chan'[j].op # "PUSH_MAT"
    <3>1. CASE i <= Len(chan)
      BY <1>2, <2>2, <3>1 DEF TextureInv
    <3>2. CASE i > Len(chan)
      BY <1>2, <1>5, <2>1, <2>2, <3>2 DEF Bare
    <3> QED
      BY <1>2, <3>1, <3>2
  <2> QED
    BY <1>6, <2>1, <2>2 DEF TextureInv, Bare
<1>8. ListIsCurrent'
  BY <1>6 DEF ListIsCurrent, Drawn, DrawnPolys, DrawnLines, Upto, Drawable, Colour, Normal
<1> QED
  BY <1>3, <1>4, <1>7, <1>8

(* A request is made, or it is refused and nothing happens.                *)
LEMMA RequestSends ==
  ASSUME Inv, NEW ps, Request(ps)
  PROVE  chan' = chan \o ps /\ calls' \in Nat /\ UNCHANGED <<obj, dplist>>
BY DEF Request, Inv, TypeInv

(* One that pushes.                                                        *)
LEMMA PushSound ==
  ASSUME Inv, NEW k \in Kinds, NEW xs \in Seq(EntryOf[k]), xs # <<>>, Covered(Len(xs)),
         k = "tex" => pushed["mat"] = 0,
         NEW ps \in {Split(PushOf[k], xs)} \union Single(xs, One(PushOf[k], xs[1])),
         Request(ps), Count(k, Len(xs))
  PROVE  Inv'
<1> DEFINE op == PushOf[k]
           n == Len(xs)
<1>1. n \in Nat \ {0} /\ xs[1] \in EntryOf[k]
  OBVIOUS
<1>2. All(op, ps) /\ \A m \in Nat : Leads(k, ps, m, m + n)
  <2>1. CASE ps = Split(op, xs)
    BY <2>1, SplitPush
  <2>2. CASE n = 1 /\ ps = One(op, xs[1])
    <3>1. Packet(op, 0, <<xs[1]>>) \in Packets
      <4>1. \A E, x : x \in E => <<x>> \in Seq(E)
        OBVIOUS
      <4>2. <<xs[1]>> \in Seq(EntryOf[k])
        BY <1>1, <4>1
      <4> QED
        BY <4>2, PushPacket
    <3>2. ps = <<Packet(op, 0, <<xs[1]>>)>>
      BY <2>2 DEF One
    <3>3. \A m \in Nat : Leaves(k, Packet(op, 0, <<xs[1]>>), m, m + n)
      BY <2>2 DEF Leaves, Packet
    <3>4. All(op, ps)
      BY <3>1, <3>2, OnePacket
    <3>5. ASSUME NEW m \in Nat PROVE Leads(k, ps, m, m + n)
      <4>1. m + n \in Nat
        BY <1>1
      <4> HIDE DEF n
      <4> QED
        BY <3>2, <3>3, <4>1, LeadsOne
    <3> QED
      BY <3>4, <3>5
  <2> QED
    BY <2>1, <2>2 DEF Single
<1>3. /\ pushed \in [Kinds -> Nat] /\ pushed' = [pushed EXCEPT ![k] = @ + n]
  BY DEF Inv, TypeInv, Count
<1> HIDE DEF n
<1>4. /\ pushed' \in [Kinds -> Nat] /\ pushed'[k] = pushed[k] + n
      /\ \A j \in Kinds \ {k} : pushed'[j] = pushed[j]
  BY <1>1, <1>3
<1>5. ASSUME NEW j \in Kinds
      PROVE  Leads(j, ps, pushed[j], pushed'[j])
  <2>1. CASE j = k
    BY <1>2, <1>3, <1>4, <2>1
  <2>2. CASE j # k
    <3>1. op # PushOf[j] /\ op # DelOf[j]
      BY <2>2 DEF PushOf, DelOf, Kinds
    <3> QED
      BY <1>2, <1>3, <1>4, <2>2, <3>1, LeadsIdle
  <2> QED
    BY <2>1, <2>2
<1>6. /\ pushed'["mat"] = 0 => pushed["mat"] = 0 /\ op # "PUSH_MAT"
      /\ op = "PUSH_TEX" => pushed["mat"] = 0
  BY <1>1, <1>3, <1>4 DEF PushOf, Kinds
<1>7. Sound(op, ps)
  BY <1>2, <1>4, <1>5, <1>6, RequestSends DEF Sound
<1> QED
  BY <1>7, SoundInv

(* One that pops.                                                          *)
LEMMA PopSound ==
  ASSUME Inv, Tame, NEW k \in Kinds, NEW n \in Nat \ {0}, Pops(k, n),
         Request(<<Packet(DelOf[k], n, <<>>)>>)
  PROVE  Inv'
<1> DEFINE op == DelOf[k]
           p == Packet(op, n, <<>>)
<1>1. p \in Packets /\ p.op = op /\ p.at = n
  BY DEF Packet, Packets, DelOf, Kinds, DelOps
<1>2. All(op, <<p>>)
  BY <1>1, OnePacket
<1>3. /\ n < 2^NumWidth /\ n < pushed[k] /\ (k = "tex" => 2 * n = pushed[k])
      /\ pushed' = [pushed EXCEPT ![k] = IF n < @ THEN @ - n ELSE 0]
  BY DEF Pops, Tame
<1>4. Width(n) = n
  <2> DEFINE w == 2^NumWidth
  <2>1. w \in Nat
    BY SizeAssumption
  <2> HIDE DEF w
  <2>2. n < w => n % w = n
    BY <2>1
  <2> QED
    BY <1>3, <2>2 DEF Width, w
<1>5. /\ pushed \in [Kinds -> Nat] /\ pushed[k] \in Nat
      /\ pushed' \in [Kinds -> Nat] /\ pushed'[k] = pushed[k] - n
      /\ \A j \in Kinds \ {k} : pushed'[j] = pushed[j]
  BY <1>3 DEF Inv, TypeInv
<1>6. ASSUME NEW j \in Kinds
      PROVE  Leads(j, <<p>>, pushed[j], pushed'[j])
  <2>1. CASE j = k
    <3>1. op # PushOf[k]
      BY DEF PushOf, DelOf, Kinds
    <3>2. Leaves(k, p, pushed[k], pushed'[k])
      BY <1>1, <1>3, <1>4, <1>5, <3>1 DEF Leaves
    <3> QED
      BY <1>5, <2>1, <3>2, LeadsOne
  <2>2. CASE j # k
    <3>1. op # PushOf[j] /\ op # DelOf[j]
      BY <2>2 DEF PushOf, DelOf, Kinds
    <3> QED
      BY <1>2, <1>5, <2>2, <3>1, LeadsIdle
  <2> QED
    BY <2>1, <2>2
<1>7. /\ pushed'["mat"] = 0 => pushed["mat"] = 0 /\ op # "PUSH_MAT"
      /\ op = "PUSH_TEX" => pushed["mat"] = 0
  BY <1>3, <1>5 DEF DelOf, Kinds
<1>8. Sound(op, <<p>>)
  BY <1>2, <1>5, <1>6, <1>7, RequestSends DEF Sound
<1> QED
  BY <1>8, SoundInv

(* One that does neither.                                                  *)
LEMMA OtherSound ==
  ASSUME Inv, NEW op \in ValueOps \union {"PEP_LINE"} \union FlagOps, NEW ps, All(op, ps),
         Request(ps), UNCHANGED pushed
  PROVE  Inv'
<1>1. pushed \in [Kinds -> Nat]
  BY DEF Inv, TypeInv
<1>2. ASSUME NEW j \in Kinds
      PROVE  Leads(j, ps, pushed[j], pushed[j])
  <2>1. op # PushOf[j] /\ op # DelOf[j]
    BY DEF ValueOps, FlagOps, PepOps, LoadOps, PushOf, DelOf, Kinds
  <2> QED
    BY <1>1, <2>1, LeadsIdle
<1>3. op # "PUSH_MAT" /\ op # "PUSH_TEX"
  BY DEF ValueOps, FlagOps, PepOps, LoadOps
<1>4. Sound(op, ps)
  BY <1>1, <1>2, <1>3, RequestSends DEF Sound
<1> QED
  BY <1>4, SoundInv

(* What is pushed is an array of entries, and what is given one of values. *)
LEMMA EntriesHave ==
  ASSUME calls \in Nat, NEW k \in Kinds, NEW n \in Nat \ {0}, NEW ix \in Nat
  PROVE  /\ Entries(k, n, ix) \in Seq(EntryOf[k]) /\ Len(Entries(k, n, ix)) = n
         /\ Entries(k, n, ix) # <<>>
<1>1. \A i \in 1 .. n : S!Values(n)[i] \in Int
  BY DEF S!Values
<1>2. \A i \in 1 .. n : S!Entry(k, S!Values(n)[i], ix) \in EntryOf[k]
  <2> SUFFICES ASSUME NEW i \in 1 .. n
               PROVE  S!Entry(k, S!Values(n)[i], ix) \in EntryOf[k]
    OBVIOUS
  <2> DEFINE x == S!Values(n)[i]
  <2>1. x \in Int
    BY <1>1
  <2> HIDE DEF x
  <2> USE <2>1 DEF S!Entry, EntryOf, Vertex, Material, Polygon, Line, Texture
  <2>2. CASE k = "vertex"
    BY <2>2 DEF x
  <2>3. CASE k = "mat"
    BY <2>3 DEF x
  <2>4. CASE k = "poly"
    BY <2>4 DEF x
  <2>5. CASE k = "line"
    BY <2>5 DEF x
  <2>6. CASE k = "tex"
    BY <2>6 DEF x
  <2> QED
    BY <2>2, <2>3, <2>4, <2>5, <2>6 DEF Kinds
<1>3. Entries(k, n, ix) \in Seq(EntryOf[k]) /\ Len(Entries(k, n, ix)) = n
  BY <1>2 DEF Entries
<1> QED
  BY <1>3

LEMMA EntriesOf ==
  ASSUME Inv, NEW k \in Kinds, NEW n \in Nat \ {0}, NEW ix \in Nat
  PROVE  /\ Entries(k, n, ix) \in Seq(EntryOf[k]) /\ Len(Entries(k, n, ix)) = n
         /\ Entries(k, n, ix) # <<>>
BY EntriesHave DEF Inv, TypeInv

LEMMA ValuesOf ==
  ASSUME Inv, NEW n \in Nat \ {0}
  PROVE  S!Values(n) \in Seq(Int) /\ Len(S!Values(n)) = n /\ S!Values(n)[1] \in Int
<1>1. \A i \in 1 .. n : 10 * (calls + 1) + i \in Int
  BY DEF Inv, TypeInv
<1> QED
  BY <1>1 DEF S!Values

LEMMA SingleSeq == \A E, x : x \in E => <<x>> \in Seq(E)
OBVIOUS

(* The five requests that push differ in the stack only.                   *)
PushOne(k) ==
  \E n \in Lens, ix \in Indices \union {0} : LET xs == Entries(k, n, ix) IN
     /\ \E ps \in {Split(PushOf[k], xs)} \union Single(xs, One(PushOf[k], xs[1])) : Request(ps)
     /\ Count(k, n)

LEMMA PushSteps ==
  ASSUME Inv, Tame, \A n \in Lens : Covered(n),
         PushVertex \/ PushMaterial \/ PushPolygon \/ PushLine \/ PushTexture
  PROVE  Inv'
<1>1. \E k \in Kinds : PushOne(k) /\ (k = "tex" => pushed["mat"] = 0)
  <2> USE DEF PushOne, Single, PushOf
  <2>1. PushVertex => PushOne("vertex")
    BY DEF PushVertex, s3d_push_vertices, s3d_push_vertex
  <2>2. PushMaterial => PushOne("mat")
    BY DEF PushMaterial, s3d_push_materials_a, s3d_push_material, s3d_push_material_a
  <2>3. PushPolygon => PushOne("poly")
    BY DEF PushPolygon, s3d_push_polygons, s3d_push_polygon
  <2>4. PushLine => PushOne("line")
    BY DEF PushLine, s3d_push_lines, s3d_push_line
  <2>5. PushTexture => PushOne("tex") /\ pushed["mat"] = 0
    BY DEF PushTexture, s3d_push_textures, s3d_push_texture, Tame
  <2> HIDE DEF PushOne
  <2> QED
    BY <2>1, <2>2, <2>3, <2>4, <2>5 DEF Kinds
<1>2. PICK k \in Kinds : PushOne(k) /\ (k = "tex" => pushed["mat"] = 0)
  BY <1>1
<1>3. PICK n \in Lens, ix \in Indices \union {0} : LET xs == Entries(k, n, ix) IN
         /\ \E ps \in {Split(PushOf[k], xs)} \union Single(xs, One(PushOf[k], xs[1])) : Request(ps)
         /\ Count(k, n)
  BY <1>2 DEF PushOne
<1> DEFINE xs == Entries(k, n, ix)
<1>4. n \in Nat \ {0} /\ ix \in Nat
  BY SizeAssumption
<1>5. xs \in Seq(EntryOf[k]) /\ Len(xs) = n /\ xs # <<>>
  BY <1>4, EntriesOf
<1> HIDE DEF xs
<1>6. PICK ps \in {Split(PushOf[k], xs)} \union Single(xs, One(PushOf[k], xs[1])) : Request(ps)
  BY <1>3 DEF xs
<1> QED
  BY <1>2, <1>3, <1>5, <1>6, PushSound

LEMMA PopSteps ==
  ASSUME Inv, Tame, PopVertex \/ PopMaterial \/ PopPolygon \/ PopLine \/ PopTexture
  PROVE  Inv'
<1>1. PICK k \in Kinds, n \in Lens : Pops(k, n) /\ Request(<<Packet(DelOf[k], n, <<>>)>>)
  BY DEF PopVertex, PopMaterial, PopPolygon, PopLine, PopTexture, s3d_pop_vertex, s3d_pop_material,
         s3d_pop_polygon, s3d_pop_line, s3d_pop_texture, DelOf, Kinds
<1>2. n \in Nat \ {0}
  BY SizeAssumption
<1> QED
  BY <1>1, <1>2, PopSound

(* An array that is not split, or refused.                                 *)
LEMMA WholeOf ==
  ASSUME NEW op, NEW xs, Packet(op, 0, xs) \in Packets
  PROVE  All(op, Whole(op, xs))
BY OnePacket, NoPacket DEF Whole

LEMMA OtherSteps ==
  ASSUME Inv,
         PepVertices \/ PepMaterials \/ PepMaterialTexture \/ PepNormals \/ PepTexCoords
            \/ PepLines \/ LoadArray \/ TurnFlags
  PROVE  Inv'
<1> USE DEF Single, ValueOps, PepOps, LoadOps
<1>1. Lens \subseteq Nat \ {0} /\ Indices \subseteq Nat /\ Starts \subseteq Nat
  BY SizeAssumption
<1>2. ASSUME NEW op \in ValueOps, NEW n \in Lens
      PROVE  /\ All(op, Whole(op, S!Values(n)))
             /\ All(op, One(op, S!Values(n)[1]))
  <2>1. S!Values(n) \in Seq(Int) /\ <<S!Values(n)[1]>> \in Seq(Int)
    BY <1>1, ValuesOf, SingleSeq
  <2>2. Packet(op, 0, S!Values(n)) \in Packets /\ Packet(op, 0, <<S!Values(n)[1]>>) \in Packets
    BY <2>1, ValuePacket
  <2> QED
    BY <2>2, WholeOf, OnePacket DEF One
<1>3. CASE PepVertices
  <2>1. PICK n \in Lens : Request(Whole("PEP_VERTEX", S!Values(n))) \/ Request(One("PEP_VERTEX", S!Values(n)[1]))
    BY <1>3 DEF PepVertices, s3d_pep_vertices, s3d_pep_vertex
  <2>2. UNCHANGED pushed
    BY <1>3 DEF PepVertices, s3d_pep_vertices, s3d_pep_vertex
  <2> QED
    BY <1>2, <2>1, <2>2, OtherSound
<1>4. CASE PepMaterials
  <2>1. PICK n \in Lens : Request(Whole("PEP_MAT", S!Values(n))) \/ Request(One("PEP_MAT", S!Values(n)[1]))
    BY <1>4 DEF PepMaterials, s3d_pep_materials_a, s3d_pep_material, s3d_pep_material_a
  <2>2. UNCHANGED pushed
    BY <1>4 DEF PepMaterials, s3d_pep_materials_a, s3d_pep_material, s3d_pep_material_a
  <2> QED
    BY <1>2, <2>1, <2>2, OtherSound
<1>5. CASE PepMaterialTexture
  <2>1. PICK t \in Indices : Request(One("PEP_MAT_TEX", t)) /\ UNCHANGED pushed
    BY <1>5 DEF PepMaterialTexture, s3d_pep_material_texture
  <2>2. t \in Int
    BY <1>1
  <2>3. Packet("PEP_MAT_TEX", 0, <<t>>) \in Packets
    BY <2>2, SingleSeq, ValuePacket
  <2>4. All("PEP_MAT_TEX", One("PEP_MAT_TEX", t))
    BY <2>3, OnePacket DEF One
  <2> QED
    BY <2>1, <2>4, OtherSound
<1>6. CASE PepNormals
  <2>1. PICK n \in Lens, op \in {"PEP_POLY_NORMAL", "PEP_LINE_NORMAL"} :
           Request(Whole(op, S!Values(n))) /\ UNCHANGED pushed
    BY <1>6 DEF PepNormals, s3d_pep_polygon_normals, s3d_pep_line_normals
  <2> QED
    BY <1>2, <2>1, OtherSound
<1>7. CASE PepTexCoords
  <2>1. PICK n \in Lens : Request(Whole("PEP_POLY_TEXC", S!Values(n))) \/ Request(One("PEP_POLY_TEXC", S!Values(n)[1]))
    BY <1>7 DEF PepTexCoords, s3d_pep_polygon_tex_coords, s3d_pep_polygon_tex_coord
  <2>2. UNCHANGED pushed
    BY <1>7 DEF PepTexCoords, s3d_pep_polygon_tex_coords, s3d_pep_polygon_tex_coord
  <2> QED
    BY <1>2, <2>1, <2>2, OtherSound
<1>8. CASE PepLines
  <2>1. PICK n \in Lens, ix \in Indices : LET xs == Entries("line", n, ix) IN
           /\ \E ps \in {s3d_pep_lines(xs)} \cup Single(xs, s3d_pep_line(xs[1])) : Request(ps)
           /\ UNCHANGED pushed
    BY <1>8 DEF PepLines
  <2> DEFINE xs == Entries("line", n, ix)
             ys == [i \in DOMAIN xs |-> xs[1]]
  <2>2. xs \in Seq(Line) /\ xs # <<>>
    <3>1. "line" \in Kinds /\ EntryOf["line"] = Line
      BY DEF Kinds, EntryOf
    <3> QED
      BY <1>1, <3>1, EntriesOf
  <2>3. PICK ps : /\ ps = s3d_pep_lines(xs) \/ ps = s3d_pep_line(xs[1])
                  /\ Request(ps) /\ UNCHANGED pushed
    BY <2>1
  <2> HIDE DEF xs
  <2>4. xs[1] \in Line /\ ys \in Seq(Line)
    BY <2>2
  <2> HIDE DEF ys
  <2>5. Packet("PEP_LINE", 0, ys) \in Packets /\ Packet("PEP_LINE", 0, <<xs[1]>>) \in Packets
    <3>1. <<xs[1]>> \in Seq(Line)
      BY <2>4, SingleSeq
    <3> QED
      BY <2>4, <3>1 DEF Packet, Packets
  <2>6. All("PEP_LINE", ps)
    BY <2>3, <2>5, WholeOf, OnePacket DEF s3d_pep_lines, s3d_pep_line, One, ys
  <2> QED
    BY <2>3, <2>6, OtherSound
<1>9. CASE LoadArray
  <2>1. PICK n \in Lens, start \in Starts, op \in LoadOps :
           Request(SplitAt(op, start, S!Values(n))) /\ UNCHANGED pushed
    BY <1>9 DEF LoadArray, s3d_load_polygon_normals, s3d_load_line_normals,
                s3d_load_polygon_tex_coords, s3d_load_materials_a
  <2>2. All(op, SplitAt(op, start, S!Values(n)))
    BY <1>1, ValuesOf, SplitLoad
  <2> QED
    BY <2>1, <2>2, OtherSound
<1>10. CASE TurnFlags
  <2>1. PICK f \in S!Flags, op \in FlagOps : Request(<<Packet(op, 0, <<f>>)>>) /\ UNCHANGED pushed
    BY <1>10 DEF TurnFlags, s3d_flags_on, s3d_flags_off, FlagOps
  <2>2. Packet(op, 0, <<f>>) \in Packets
    BY DEF Packet, Packets, S!Flags
  <2> QED
    BY <2>1, <2>2, OnePacket, OtherSound
<1> QED
  BY <1>3, <1>4, <1>5, <1>6, <1>7, <1>8, <1>9, <1>10

-----------------------------------------------------------------------------
(* What a packet does to the stacks.                                       *)

(* A field of some entries is given: there are as many as before.          *)
Takes(E, X, f) == \A e \in E, x \in X : [e EXCEPT ![f] = x] \in E

LEMMA OverKeeps ==
  ASSUME NEW E, NEW s \in Seq(E), NEW start \in Nat, NEW X, NEW xs \in Seq(X), NEW f, Takes(E, X, f)
  PROVE  Over(s, start, xs, f) \in Seq(E) /\ Len(Over(s, start, xs, f)) = Len(s)
<1> DEFINE m == Len(s)
           n == IF m < start + Len(xs) THEN m - start ELSE Len(xs)
           r == [i \in DOMAIN s |-> IF i \in start + 1 .. start + n THEN [s[i] EXCEPT ![f] = xs[i - start]]
                                    ELSE s[i]]
<1>1. m \in Nat /\ DOMAIN s = 1 .. m /\ n \in Int /\ n <= Len(xs) /\ Len(xs) \in Nat
  OBVIOUS
<1>2. Over(s, start, xs, f) = r
  BY DEF Over
<1> HIDE DEF n
<1>3. ASSUME NEW i \in 1 .. m
      PROVE  (IF i \in start + 1 .. start + n THEN [s[i] EXCEPT ![f] = xs[i - start]] ELSE s[i]) \in E
  <2>1. s[i] \in E
    OBVIOUS
  <2>2. ASSUME i \in start + 1 .. start + n
        PROVE  xs[i - start] \in X
    <3>1. i - start \in 1 .. Len(xs)
      BY <1>1, <2>2
    <3> QED
      BY <3>1
  <2> QED
    BY <2>1, <2>2 DEF Takes
<1> HIDE DEF m
<1>4. r \in Seq(E) /\ Len(r) = m
  BY <1>1, <1>3
<1> QED
  BY <1>2, <1>4 DEF m

LEMMA LastFrom ==
  ASSUME NEW s, NEW xs, Len(s) \in Nat, Len(xs) \in Nat, NEW f
  PROVE  \E i \in Nat : OverLast(s, xs, f) = Over(s, i, xs, f)
<1>1. Len(s) - (IF Len(s) < Len(xs) THEN Len(s) ELSE Len(xs)) \in Nat
  OBVIOUS
<1> QED
  BY <1>1 DEF OverLast

(* The entries of an object with another stack.                            *)
Resized(o, q, k, len) ==
  q \in Object /\ \A j \in Kinds : Len(q[j]) = IF j = k THEN len ELSE Len(o[j])

LEMMA NewStack ==
  ASSUME NEW o \in Object, NEW k \in Kinds, NEW s \in Seq(EntryOf[k])
  PROVE  Resized(o, [o EXCEPT ![k] = s], k, Len(s))
<1>1. [o EXCEPT ![k] = s] \in Object
  <2> USE DEF Object, EntryOf
  <2>1. CASE k = "vertex"
    BY <2>1
  <2>2. CASE k = "mat"
    BY <2>2
  <2>3. CASE k = "poly"
    BY <2>3
  <2>4. CASE k = "line"
    BY <2>4
  <2>5. CASE k = "tex"
    BY <2>5
  <2> QED
    BY <2>1, <2>2, <2>3, <2>4, <2>5 DEF Kinds
<1> DEFINE q == [o EXCEPT ![k] = s]
<1>2. \A j \in Kinds : q[j] = IF j = k THEN s ELSE o[j]
  BY DEF Kinds, Object
<1>3. \A j \in Kinds : Len(q[j]) = IF j = k THEN Len(s) ELSE Len(o[j])
  BY <1>2
<1> HIDE DEF q
<1> QED
  BY <1>1, <1>3 DEF Resized, q

(* An entry with another value in a field is one still.                    *)
LEMMA FieldsKept ==
  /\ \A e \in Vertex, x \in Int : [e EXCEPT !["id"] = x] \in Vertex
  /\ \A e \in Material, x \in Int : [e EXCEPT !["id"] = x] \in Material
  /\ \A e \in Material, x \in Int : [e EXCEPT !["tex"] = x] \in Material
  /\ \A e \in Polygon, x \in Int : [e EXCEPT !["n"] = x] \in Polygon
  /\ \A e \in Polygon, x \in Int : [e EXCEPT !["tc"] = x] \in Polygon
  /\ \A e \in Line, x \in Int : [e EXCEPT !["n"] = x] \in Line
BY DEF Vertex, Material, Polygon, Line

(* What a stack makes of an entry that is pushed.                          *)
Plain(k, e) == CASE k = "mat"  -> [e EXCEPT !["tex"] = -1]
                 [] k = "poly" -> [e EXCEPT !["n"] = 0, !["tc"] = 0]
                 [] k = "line" -> [e EXCEPT !["n"] = 0]
                 [] OTHER -> e

LEMMA PlainEntry ==
  ASSUME NEW k \in Kinds, NEW e \in EntryOf[k]
  PROVE  Plain(k, e) \in EntryOf[k]
<1>1. 0 \in Int /\ -1 \in Int
  OBVIOUS
<1>2. CASE k = "mat"
  BY <1>1, <1>2, FieldsKept DEF Plain, EntryOf
<1>3. CASE k = "poly"
  <2>1. [e EXCEPT !["n"] = 0] \in Polygon
    BY <1>1, <1>3, FieldsKept DEF EntryOf
  <2> DEFINE d == [e EXCEPT !["n"] = 0]
  <2> HIDE DEF d
  <2>2. [d EXCEPT !["tc"] = 0] \in Polygon
    BY <1>1, <2>1, FieldsKept DEF d
  <2> QED
    BY <1>3, <2>2 DEF Plain, EntryOf, d
<1>4. CASE k = "line"
  BY <1>1, <1>4, FieldsKept DEF Plain, EntryOf
<1>5. CASE k \in {"vertex", "tex"}
  BY <1>5 DEF Plain
<1> QED
  BY <1>2, <1>3, <1>4, <1>5 DEF Kinds

(* An array of entries as it is pushed.                                    *)
LEMMA PlainArray ==
  ASSUME NEW k \in Kinds, NEW xs \in Seq(EntryOf[k])
  PROVE  /\ [i \in DOMAIN xs |-> Plain(k, xs[i])] \in Seq(EntryOf[k])
         /\ Len([i \in DOMAIN xs |-> Plain(k, xs[i])]) = Len(xs)
<1>1. DOMAIN xs = 1 .. Len(xs) /\ Len(xs) \in Nat /\ \A i \in 1 .. Len(xs) : xs[i] \in EntryOf[k]
  OBVIOUS
<1>2. \A i \in 1 .. Len(xs) : Plain(k, xs[i]) \in EntryOf[k]
  BY <1>1, PlainEntry
<1> QED
  BY <1>1, <1>2

LEMMA Front ==
  \A E : \A s \in Seq(E), n \in Nat :
     n <= Len(s) => SubSeq(s, 1, n) \in Seq(E) /\ Len(SubSeq(s, 1, n)) = n
<1> SUFFICES ASSUME NEW E, NEW s \in Seq(E), NEW n \in Nat, n <= Len(s)
             PROVE  SubSeq(s, 1, n) \in Seq(E) /\ Len(SubSeq(s, 1, n)) = n
  OBVIOUS
<1>1. \A i \in 1 .. n : s[i] \in E
  OBVIOUS
<1> QED
  BY <1>1, SubSeqProperties

LEMMA Appended ==
  \A E : \A s, t \in Seq(E) : s \o t \in Seq(E) /\ Len(s \o t) = Len(s) + Len(t)
BY ConcatProperties

(* What a push makes of its array.                                         *)
Plains(k, xs) == [i \in DOMAIN xs |-> Plain(k, xs[i])]

(* An array is appended.                                                   *)
LEMMA PushForm ==
  ASSUME NEW o \in Object, NEW k \in Kinds, NEW p \in Packets, p.op = PushOf[k], p.xs # <<>>
  PROVE  /\ Carry(o, p) = [o EXCEPT ![k] = o[k] \o Plains(k, p.xs)]
         /\ o[k] \in Seq(EntryOf[k]) /\ p.xs \in Seq(EntryOf[k])
         /\ Plains(k, p.xs) \in Seq(EntryOf[k]) /\ Len(Plains(k, p.xs)) = Len(p.xs)
<1>1. p.op \in PushOps /\ Carry(o, p) = PushIn(o, p)
  <2>1. p.op \in PushOps
    BY DEF PushOf, Kinds, PushOps
  <2> QED
    BY <2>1 DEF Carry, PushOps, PepOps, LoadOps, DelOps
<1> DEFINE xs == p.xs
           ys == [i \in DOMAIN xs |-> Plain(k, xs[i])]
<1>2. xs \in Seq(EntryOf[k]) /\ o[k] \in Seq(EntryOf[k])
  <2>1. o[k] \in Seq(EntryOf[k])
    BY DEF Object, EntryOf, Kinds
  <2>2. p.op \in PushOps /\ p.op \notin ValueOps \union DelOps \union FlagOps
    BY DEF PushOf, Kinds, PushOps, ValueOps, PepOps, LoadOps, DelOps, FlagOps
  <2>3. /\ p.op = "PUSH_VERTEX" => xs \in Seq(Vertex)
        /\ p.op = "PUSH_MAT" => xs \in Seq(Material)
        /\ p.op = "PUSH_POLY" => xs \in Seq(Polygon)
        /\ p.op = "PUSH_LINE" => xs \in Seq(Line)
        /\ p.op = "PUSH_TEX" => xs \in Seq(Texture)
    BY <2>2 DEF Packets, PushOps
  <2> QED
    BY <2>1, <2>3 DEF PushOf, EntryOf, Kinds
<1>3. ys \in Seq(EntryOf[k]) /\ Len(ys) = Len(xs)
  BY <1>2, PlainArray
<1>4. Carry(o, p) = [o EXCEPT ![k] = o[k] \o ys]
  <2> USE <1>1 DEF PushIn, PushOf, Object, Plain
  <2>1. CASE k = "vertex"
    <3>1. ys = xs
      BY <1>2, <2>1
    <3> HIDE DEF ys
    <3> QED
      BY <2>1, <3>1 DEF obj_push_vertex
  <2>2. CASE k = "mat"
    BY <2>2 DEF obj_push_mat
  <2>3. CASE k = "poly"
    BY <2>3 DEF obj_push_poly
  <2>4. CASE k = "line"
    BY <2>4 DEF obj_push_line
  <2>5. CASE k = "tex"
    <3>1. ys = xs
      BY <1>2, <2>5
    <3> HIDE DEF ys
    <3> QED
      BY <2>5, <3>1 DEF obj_push_tex
  <2> QED
    BY <2>1, <2>2, <2>3, <2>4, <2>5 DEF Kinds
<1> QED
  BY <1>2, <1>3, <1>4 DEF Plains

LEMMA PushCarry ==
  ASSUME NEW o \in Object, NEW k \in Kinds, NEW p \in Packets, p.op = PushOf[k], p.xs # <<>>
  PROVE  Resized(o, Carry(o, p), k, Len(o[k]) + Len(p.xs))
<1> DEFINE ys == Plains(k, p.xs)
<1>1. /\ Carry(o, p) = [o EXCEPT ![k] = o[k] \o ys]
      /\ o[k] \in Seq(EntryOf[k]) /\ ys \in Seq(EntryOf[k]) /\ Len(ys) = Len(p.xs)
  BY PushForm
<1> HIDE DEF ys
<1>2. o[k] \o ys \in Seq(EntryOf[k]) /\ Len(o[k] \o ys) = Len(o[k]) + Len(ys)
  BY <1>1, Appended
<1> QED
  BY <1>1, <1>2, NewStack

(* Fields of the last entries, or of those from a position on, are given:  *)
(* the stacks are as long as before.                                       *)
Kept(o, q) == \E k \in Kinds : Resized(o, q, k, Len(o[k]))

LEMMA NewSame ==
  ASSUME NEW o \in Object, NEW k \in Kinds, NEW s \in Seq(EntryOf[k]), Len(s) = Len(o[k])
  PROVE  Kept(o, [o EXCEPT ![k] = s])
BY NewStack DEF Kept

(* The fields that can be given.                                           *)
Fields == {<<"vertex", "id">>, <<"mat", "id">>, <<"mat", "tex">>, <<"poly", "n">>, <<"poly", "tc">>,
           <<"line", "n">>}

LEMMA FieldsOf ==
  ASSUME NEW k, NEW f, <<k, f>> \in Fields
  PROVE  k \in Kinds /\ Takes(EntryOf[k], Int, f)
<1>1. CASE k = "vertex" /\ f = "id"
  BY <1>1, FieldsKept DEF EntryOf, Kinds, Takes
<1>2. CASE k = "mat" /\ f = "id"
  BY <1>2, FieldsKept DEF EntryOf, Kinds, Takes
<1>3. CASE k = "mat" /\ f = "tex"
  BY <1>3, FieldsKept DEF EntryOf, Kinds, Takes
<1>4. CASE k = "poly" /\ f = "n"
  BY <1>4, FieldsKept DEF EntryOf, Kinds, Takes
<1>5. CASE k = "poly" /\ f = "tc"
  BY <1>5, FieldsKept DEF EntryOf, Kinds, Takes
<1>6. CASE k = "line" /\ f = "n"
  BY <1>6, FieldsKept DEF EntryOf, Kinds, Takes
<1> QED
  BY <1>1, <1>2, <1>3, <1>4, <1>5, <1>6 DEF Fields

LEMMA GiveKeeps ==
  ASSUME NEW o \in Object, NEW k, NEW f, <<k, f>> \in Fields, NEW start \in Nat, NEW xs \in Seq(Int)
  PROVE  /\ Kept(o, [o EXCEPT ![k] = Over(o[k], start, xs, f)])
         /\ Kept(o, [o EXCEPT ![k] = OverLast(o[k], xs, f)])
<1>1. k \in Kinds /\ o[k] \in Seq(EntryOf[k])
  BY FieldsOf DEF Object, EntryOf, Kinds
<1>2. Takes(EntryOf[k], Int, f)
  BY FieldsOf
<1> DEFINE s == o[k]
           E == EntryOf[k]
           t == Over(s, start, xs, f)
           u == OverLast(s, xs, f)
<1> HIDE DEF s, E
<1>3. s \in Seq(E) /\ Takes(E, Int, f)
  BY <1>1, <1>2 DEF s, E
<1>4. \A i \in Nat : Over(s, i, xs, f) \in Seq(E) /\ Len(Over(s, i, xs, f)) = Len(s)
  BY <1>3, OverKeeps
<1>5. /\ t \in Seq(E) /\ Len(t) = Len(s)
      /\ u \in Seq(E) /\ Len(u) = Len(s)
  <2>1. \E i \in Nat : u = Over(s, i, xs, f)
    <3>1. Len(s) \in Nat /\ Len(xs) \in Nat
      BY <1>3
    <3> QED
      BY <3>1, LastFrom
  <2> QED
    BY <1>4, <2>1
<1> HIDE DEF t, u
<1>6. t \in Seq(EntryOf[k]) /\ Len(t) = Len(o[k]) /\ u \in Seq(EntryOf[k]) /\ Len(u) = Len(o[k])
  BY <1>5 DEF s, E
<1>7. Kept(o, [o EXCEPT ![k] = t]) /\ Kept(o, [o EXCEPT ![k] = u])
  BY <1>1, <1>6, NewSame
<1> QED
  BY <1>7 DEF t, u, s

(* The stack and the field that a packet with values gives.                *)
Gives == [PEP_POLY_NORMAL |-> <<"poly", "n">>, PEP_LINE_NORMAL |-> <<"line", "n">>,
          PEP_POLY_TEXC |-> <<"poly", "tc">>, PEP_MAT |-> <<"mat", "id">>,
          PEP_VERTEX |-> <<"vertex", "id">>, PEP_MAT_TEX |-> <<"mat", "tex">>,
          LOAD_LINE_NORMAL |-> <<"line", "n">>, LOAD_POLY_NORMAL |-> <<"poly", "n">>,
          LOAD_POLY_TEXC |-> <<"poly", "tc">>, LOAD_MAT |-> <<"mat", "id">>]

(* What a packet with values does to its stack.                            *)
LEMMA PepForm ==
  ASSUME NEW o \in Object, NEW p \in Packets, p.op \in PepOps, p.op # "PEP_LINE"
  PROVE  /\ p.xs \in Seq(Int) /\ <<Gives[p.op][1], Gives[p.op][2]>> \in Fields
         /\ Carry(o, p) = [o EXCEPT ![Gives[p.op][1]]
                            = OverLast(o[Gives[p.op][1]], p.xs, Gives[p.op][2])]
<1>1. p.xs \in Seq(Int)
  BY DEF Packets, ValueOps, PepOps, LoadOps, DelOps, FlagOps
<1> DEFINE k == Gives[p.op][1]
           f == Gives[p.op][2]
<1>2. <<k, f>> \in Fields
  BY DEF Gives, Fields, PepOps
<1> HIDE DEF k, f
<1>3. PepIn(o, p) = [o EXCEPT ![k] = OverLast(o[k], p.xs, f)]
  <2>1. CASE p.op = "PEP_POLY_NORMAL"
    <3>1. k = "poly" /\ f = "n"
      BY <2>1 DEF Gives, k, f
    <3>2. PepIn(o, p) = obj_pep_poly_normal(o, p.xs)
      BY <2>1 DEF PepIn
    <3> QED
      BY <3>1, <3>2 DEF obj_pep_poly_normal, Object
  <2>2. CASE p.op = "PEP_LINE_NORMAL"
    <3>1. k = "line" /\ f = "n"
      BY <2>2 DEF Gives, k, f
    <3>2. PepIn(o, p) = obj_pep_line_normal(o, p.xs)
      BY <2>2 DEF PepIn
    <3> QED
      BY <3>1, <3>2 DEF obj_pep_line_normal, Object
  <2>3. CASE p.op = "PEP_POLY_TEXC"
    <3>1. k = "poly" /\ f = "tc"
      BY <2>3 DEF Gives, k, f
    <3>2. PepIn(o, p) = obj_pep_poly_texc(o, p.xs)
      BY <2>3 DEF PepIn
    <3> QED
      BY <3>1, <3>2 DEF obj_pep_poly_texc, Object
  <2>4. CASE p.op = "PEP_MAT"
    <3>1. k = "mat" /\ f = "id"
      BY <2>4 DEF Gives, k, f
    <3>2. PepIn(o, p) = obj_pep_mat(o, p.xs)
      BY <2>4 DEF PepIn
    <3> QED
      BY <3>1, <3>2 DEF obj_pep_mat, Object
  <2>5. CASE p.op = "PEP_VERTEX"
    <3>1. k = "vertex" /\ f = "id"
      BY <2>5 DEF Gives, k, f
    <3>2. PepIn(o, p) = obj_pep_vertex(o, p.xs)
      BY <2>5 DEF PepIn
    <3> QED
      BY <3>1, <3>2 DEF obj_pep_vertex, Object
  <2>6. CASE p.op = "PEP_MAT_TEX"
    <3>1. k = "mat" /\ f = "tex"
      BY <2>6 DEF Gives, k, f
    <3>2. PepIn(o, p) = obj_pep_mat_tex(o, p.xs)
      BY <2>6 DEF PepIn
    <3> QED
      BY <3>1, <3>2 DEF obj_pep_mat_tex, Object
  <2> QED
    BY <2>1, <2>2, <2>3, <2>4, <2>5, <2>6 DEF PepOps
<1>4. Carry(o, p) = PepIn(o, p)
  BY DEF Carry, PushOps, PepOps, LoadOps, DelOps
<1> QED
  BY <1>1, <1>2, <1>3, <1>4 DEF k, f

(* A line that is given anew.                                              *)
Relined(l, xs) ==
  LET n == IF Len(l) < Len(xs) THEN Len(l) ELSE Len(xs)
  IN  [i \in DOMAIN l |-> IF i > Len(l) - n THEN [xs[i - (Len(l) - n)] EXCEPT !.n = 0] ELSE l[i]]
LEMMA LineForm ==
  ASSUME NEW o \in Object, NEW p \in Packets, p.op = "PEP_LINE"
  PROVE  /\ p.xs \in Seq(Line) /\ o.line \in Seq(Line)
         /\ Carry(o, p) = [o EXCEPT !["line"] = Relined(o.line, p.xs)]
<1>1. p.xs \in Seq(Line) /\ o.line \in Seq(Line)
  BY DEF Packets, ValueOps, PepOps, LoadOps, DelOps, FlagOps, Object
<1>2. Carry(o, p) = PepIn(o, p)
  BY DEF Carry, PushOps, PepOps, LoadOps, DelOps
<1>3. PepIn(o, p) = obj_pep_line(o, p.xs)
  BY DEF PepIn
<1>4. obj_pep_line(o, p.xs) = [o EXCEPT !["line"] = Relined(o.line, p.xs)]
  BY DEF obj_pep_line, Object, Relined
<1> QED
  BY <1>1, <1>2, <1>3, <1>4

LEMMA PepCarry ==
  ASSUME NEW o \in Object, NEW p \in Packets, p.op \in PepOps
  PROVE  Kept(o, Carry(o, p))
<1>1. Carry(o, p) = PepIn(o, p)
  BY DEF Carry, PushOps, PepOps, LoadOps, DelOps
<1>2. CASE p.op # "PEP_LINE"
  <2> DEFINE k == Gives[p.op][1]
             f == Gives[p.op][2]
  <2>1. /\ p.xs \in Seq(Int) /\ <<k, f>> \in Fields
        /\ Carry(o, p) = [o EXCEPT ![k] = OverLast(o[k], p.xs, f)]
    BY <1>2, PepForm
  <2> HIDE DEF k, f
  <2>4. 0 \in Nat
    OBVIOUS
  <2>5. Kept(o, [o EXCEPT ![k] = OverLast(o[k], p.xs, f)])
    BY <2>1, <2>4, GiveKeeps
  <2> QED
    BY <2>1, <2>5
<1>3. CASE p.op = "PEP_LINE"
  <2> DEFINE xs == p.xs
             l == o.line
             m == Len(l)
             n == IF m < Len(xs) THEN m ELSE Len(xs)
             new == [i \in DOMAIN l |-> IF i > m - n THEN [xs[i - (m - n)] EXCEPT !.n = 0] ELSE l[i]]
  <2>1. xs \in Seq(Line) /\ l \in Seq(Line)
    BY <1>3, LineForm
  <2>2. Carry(o, p) = [o EXCEPT !["line"] = new]
    BY <1>3, LineForm DEF Relined
  <2> HIDE DEF xs, l
  <2>3. m \in Nat /\ DOMAIN l = 1 .. m /\ n \in 0 .. m /\ n <= Len(xs)
    BY <2>1
  <2> HIDE DEF m, n
  <2>4. ASSUME NEW i \in 1 .. m
        PROVE  (IF i > m - n THEN [xs[i - (m - n)] EXCEPT !.n = 0] ELSE l[i]) \in Line
    <3>1. CASE i > m - n
      <4>1. i - (m - n) \in 1 .. Len(xs)
        BY <2>1, <2>3, <3>1
      <4>2. xs[i - (m - n)] \in Line /\ 0 \in Int
        BY <2>1, <4>1
      <4>3. [xs[i - (m - n)] EXCEPT !["n"] = 0] \in Line
        BY <4>2, FieldsKept
      <4> QED
        BY <3>1, <4>3
    <3>2. CASE ~(i > m - n)
      BY <2>1, <3>2 DEF m
    <3> QED
      BY <3>1, <3>2
  <2> DEFINE z(i) == IF i > m - n THEN [xs[i - (m - n)] EXCEPT !.n = 0] ELSE l[i]
  <2>5. new = [i \in 1 .. m |-> z(i)] /\ \A i \in 1 .. m : z(i) \in Line
    BY <2>3, <2>4
  <2> HIDE DEF new, z
  <2>7. new \in Seq(Line) /\ Len(new) = m
    BY <2>3, <2>5
  <2>6. "line" \in Kinds /\ EntryOf["line"] = Line
    BY DEF Kinds, EntryOf
  <2> QED
    BY <2>2, <2>6, <2>7, NewSame DEF m, l
<1> QED
  BY <1>2, <1>3

LEMMA LoadForm ==
  ASSUME NEW o \in Object, NEW p \in Packets, p.op \in LoadOps, p.xs # <<>>
  PROVE  /\ p.xs \in Seq(Int) /\ p.at \in Nat /\ <<Gives[p.op][1], Gives[p.op][2]>> \in Fields
         /\ Carry(o, p) = [o EXCEPT ![Gives[p.op][1]]
                            = Over(o[Gives[p.op][1]], p.at, p.xs, Gives[p.op][2])]
<1>1. Carry(o, p) = LoadIn(o, p)
  BY DEF Carry, PushOps, PepOps, LoadOps, DelOps
<1>2. p.xs \in Seq(Int) /\ p.at \in Nat
  BY DEF Packets, ValueOps, PepOps, LoadOps, DelOps, FlagOps
<1> DEFINE k == Gives[p.op][1]
           f == Gives[p.op][2]
<1>3. <<k, f>> \in Fields
  BY DEF Gives, Fields, LoadOps
<1> HIDE DEF k, f
<1>4. LoadIn(o, p) = [o EXCEPT ![k] = Over(o[k], p.at, p.xs, f)]
  <2>1. CASE p.op = "LOAD_LINE_NORMAL"
    <3>1. k = "line" /\ f = "n"
      BY <2>1 DEF Gives, k, f
    <3>2. LoadIn(o, p) = obj_load_line_normal(o, p.at, p.xs)
      BY <2>1 DEF LoadIn
    <3> QED
      BY <3>1, <3>2 DEF obj_load_line_normal, Object
  <2>2. CASE p.op = "LOAD_POLY_NORMAL"
    <3>1. k = "poly" /\ f = "n"
      BY <2>2 DEF Gives, k, f
    <3>2. LoadIn(o, p) = obj_load_poly_normal(o, p.at, p.xs)
      BY <2>2 DEF LoadIn
    <3> QED
      BY <3>1, <3>2 DEF obj_load_poly_normal, Object
  <2>3. CASE p.op = "LOAD_POLY_TEXC"
    <3>1. k = "poly" /\ f = "tc"
      BY <2>3 DEF Gives, k, f
    <3>2. LoadIn(o, p) = obj_load_poly_texc(o, p.at, p.xs)
      BY <2>3 DEF LoadIn
    <3> QED
      BY <3>1, <3>2 DEF obj_load_poly_texc, Object
  <2>4. CASE p.op = "LOAD_MAT"
    <3>1. k = "mat" /\ f = "id"
      BY <2>4 DEF Gives, k, f
    <3>2. LoadIn(o, p) = obj_load_mat(o, p.at, p.xs)
      BY <2>4 DEF LoadIn
    <3> QED
      BY <3>1, <3>2 DEF obj_load_mat, Object
  <2> QED
    BY <2>1, <2>2, <2>3, <2>4 DEF LoadOps
<1> QED
  BY <1>1, <1>2, <1>3, <1>4 DEF k, f

LEMMA LoadCarry ==
  ASSUME NEW o \in Object, NEW p \in Packets, p.op \in LoadOps
  PROVE  Kept(o, Carry(o, p))
<1>1. Carry(o, p) = LoadIn(o, p)
  BY DEF Carry, PushOps, PepOps, LoadOps, DelOps
<1>2. p.xs \in Seq(Int) /\ p.at \in Nat
  BY DEF Packets, ValueOps, PepOps, LoadOps, DelOps, FlagOps
<1>3. CASE p.xs = <<>>
  <2>1. Carry(o, p) = o
    BY <1>1, <1>3 DEF LoadIn, LoadOps
  <2>2. "mat" \in Kinds
    BY DEF Kinds
  <2> QED
    BY <2>1, <2>2 DEF Kept, Resized
<1>4. CASE p.xs # <<>>
  <2> DEFINE k == Gives[p.op][1]
             f == Gives[p.op][2]
  <2>1. /\ <<k, f>> \in Fields
        /\ Carry(o, p) = [o EXCEPT ![k] = Over(o[k], p.at, p.xs, f)]
    BY <1>4, LoadForm
  <2> HIDE DEF k, f
  <2>3. Kept(o, [o EXCEPT ![k] = Over(o[k], p.at, p.xs, f)])
    BY <1>2, <2>1, GiveKeeps
  <2> QED
    BY <2>1, <2>3
<1> QED
  BY <1>3, <1>4

(* What a removal does to its stack.                                       *)
Shortened(k, s, n) == IF k # "tex" THEN Cut(s, n)
                      ELSE IF n >= Len(s) THEN <<>>
                      ELSE IF n > 0 THEN SubSeq(s \o s, 1, n) ELSE s
LEMMA DelForm ==
  ASSUME NEW o \in Object, NEW k \in Kinds, NEW p \in Packets, p.op = DelOf[k]
  PROVE  /\ o[k] \in Seq(EntryOf[k]) /\ p.at \in Nat
         /\ Carry(o, p) = [o EXCEPT ![k] = Shortened(k, o[k], Width(p.at))]
<1>1. Carry(o, p) = DelIn(o, p)
  <2>1. p.op \in DelOps
    BY DEF DelOf, Kinds, DelOps
  <2> QED
    BY <2>1 DEF Carry, PushOps, PepOps, LoadOps, DelOps
<1>2. o[k] \in Seq(EntryOf[k]) /\ p.at \in Nat
  BY DEF Packets, Object, EntryOf, Kinds
<1>3. DelIn(o, p) = [o EXCEPT ![k] = Shortened(k, o[k], Width(p.at))]
  <2> USE DEF DelIn, DelOf, Object, Shortened
  <2>1. CASE k = "vertex"
    BY <2>1 DEF obj_del_vertex
  <2>2. CASE k = "mat"
    BY <2>2 DEF obj_del_mat
  <2>3. CASE k = "poly"
    BY <2>3 DEF obj_del_poly
  <2>4. CASE k = "line"
    BY <2>4 DEF obj_del_line
  <2>5. CASE k = "tex"
    BY <2>5 DEF obj_del_tex
  <2> QED
    BY <2>1, <2>2, <2>3, <2>4, <2>5 DEF Kinds
<1> QED
  BY <1>1, <1>2, <1>3

(* A removal that leaves something.                                        *)
LEMMA DelCarry ==
  ASSUME NEW o \in Object, NEW k \in Kinds, NEW p \in Packets, p.op = DelOf[k],
         Width(p.at) = p.at, 0 < p.at, p.at < Len(o[k])
  PROVE  Resized(o, Carry(o, p), k, IF k = "tex" THEN p.at ELSE Len(o[k]) - p.at)
<1> DEFINE s == o[k]
           n == p.at
<1>1. Carry(o, p) = [o EXCEPT ![k] = Shortened(k, s, n)]
  BY DelForm
<1>2. s \in Seq(EntryOf[k]) /\ n \in Nat
  BY DelForm
<1>3. CASE k # "tex"
  <2> HIDE DEF s
  <2>2. Cut(s, n) = SubSeq(s, 1, Len(s) - n)
    BY <1>2 DEF Cut, s
  <2> DEFINE r == Len(s) - n
  <2>3. s \in Seq(EntryOf[k]) /\ r \in Nat /\ r <= Len(s)
    BY <1>2 DEF s
  <2> HIDE DEF r
  <2>6. SubSeq(s, 1, r) \in Seq(EntryOf[k]) /\ Len(SubSeq(s, 1, r)) = r
    BY <2>3, Front
  <2>4. Carry(o, p) = [o EXCEPT ![k] = Cut(s, n)]
    BY <1>1, <1>3 DEF Shortened
  <2>5. Cut(s, n) \in Seq(EntryOf[k]) /\ Len(Cut(s, n)) = Len(s) - n
    BY <2>2, <2>6 DEF r
  <2> QED
    BY <1>3, <2>4, <2>5, NewStack DEF s
<1>4. CASE k = "tex"
  <2> DEFINE t == s \o s
             u == SubSeq(t, 1, n)
  <2>1. Carry(o, p) = [o EXCEPT ![k] = u]
    <3>1. ~(n >= Len(s)) /\ n > 0
      BY <1>2, <1>4
    <3> QED
      BY <1>1, <1>4, <3>1 DEF Shortened
  <2> HIDE DEF s
  <2>2. t \in Seq(EntryOf[k]) /\ Len(t) = Len(s) + Len(s)
    BY <1>2, Appended
  <2> HIDE DEF t
  <2>3. u \in Seq(EntryOf[k]) /\ Len(u) = n
    <3>1. Len(s) \in Nat /\ n < Len(s) /\ 0 < n
      BY <1>2 DEF s
    <3>2. n \in Nat /\ n <= Len(t)
      BY <1>2, <2>2, <3>1
    <3> QED
      BY <2>2, <3>2, Front
  <2> HIDE DEF u
  <2> QED
    BY <1>4, <2>1, <2>3, NewStack
<1> QED
  BY <1>3, <1>4

(* Flags are no entries.                                                   *)
LEMMA FlagCarry ==
  ASSUME NEW o \in Object, NEW p \in Packets, p.op \in FlagOps
  PROVE  /\ Carry(o, p) \in Object /\ \A k \in Kinds : Carry(o, p)[k] = o[k]
         /\ Drawn(Carry(o, p)) = Drawn(o)
<1> DEFINE g == p.xs[1]
           fs == IF p.op = "FLAGS_ON" THEN o.flags \cup {g} ELSE o.flags \ {g}
           q == [o EXCEPT !.flags = fs]
<1>1. Carry(o, p) = q
  BY DEF Carry, FlagOps, PushOps, PepOps, LoadOps, DelOps, obj_toggle_flags
<1>2. g \in {"visible", "selectable", "pointable"}
  BY DEF Packets, FlagOps, PepOps, LoadOps, DelOps, ValueOps
<1>3. fs \in SUBSET {"visible", "selectable", "pointable"}
  BY <1>2 DEF Object
<1> HIDE DEF fs
<1>4. q \in Object /\ \A k \in Kinds : q[k] = o[k]
  BY <1>3 DEF Object, Kinds
<1>5. q.vertex = o.vertex /\ q.mat = o.mat /\ q.poly = o.poly /\ q.line = o.line /\ q.tex = o.tex
  BY DEF Object
<1> HIDE DEF q
<1>6. Drawn(q) = Drawn(o)
  BY <1>5 DEF Drawn, DrawnPolys, DrawnLines, Upto, Drawable, Normal, Colour
<1> QED
  BY <1>1, <1>4, <1>6

(* Which packets there are.                                                *)
LEMMA OpsApart ==
  /\ \A k \in Kinds : PushOf[k] \in PushOps /\ DelOf[k] \in DelOps
  /\ \A j, k \in Kinds : (PushOf[j] = PushOf[k] => j = k) /\ (DelOf[j] = DelOf[k] => j = k)
  /\ \A op \in PushOps : \E k \in Kinds : op = PushOf[k]
  /\ \A op \in DelOps : \E k \in Kinds : op = DelOf[k]
<1>1. \A k \in Kinds : PushOf[k] \in PushOps /\ DelOf[k] \in DelOps
  BY DEF Kinds, PushOf, DelOf, PushOps, DelOps
<1>2. \A j, k \in Kinds : (PushOf[j] = PushOf[k] => j = k) /\ (DelOf[j] = DelOf[k] => j = k)
  BY DEF Kinds, PushOf, DelOf
<1>3. \A op \in PushOps : \E k \in Kinds : op = PushOf[k]
  <2> SUFFICES ASSUME NEW op \in PushOps PROVE \E k \in Kinds : op = PushOf[k]
    OBVIOUS
  <2>1. /\ op \in {PushOf["vertex"], PushOf["mat"], PushOf["poly"], PushOf["line"], PushOf["tex"]}
    BY DEF PushOf, PushOps
  <2> QED
    BY <2>1 DEF Kinds
<1>4. \A op \in DelOps : \E k \in Kinds : op = DelOf[k]
  <2> SUFFICES ASSUME NEW op \in DelOps PROVE \E k \in Kinds : op = DelOf[k]
    OBVIOUS
  <2>1. /\ op \in {DelOf["vertex"], DelOf["mat"], DelOf["poly"], DelOf["line"], DelOf["tex"]}
    BY DEF DelOf, DelOps
  <2> QED
    BY <2>1 DEF Kinds
<1> QED
  BY <1>1, <1>2, <1>3, <1>4

LEMMA OpsElse ==
  /\ \A op \in PepOps \cup LoadOps \cup FlagOps : op \notin PushOps /\ op \notin DelOps
  /\ \A op \in PushOps : op \notin DelOps
  /\ \A p \in Packets : p.op \in PushOps \cup PepOps \cup LoadOps \cup DelOps \cup FlagOps
<1>1. \A op \in PepOps \cup LoadOps \cup FlagOps : op \notin PushOps /\ op \notin DelOps
  BY DEF PepOps, LoadOps, FlagOps, PushOps, DelOps
<1>2. \A op \in PushOps : op \notin DelOps
  BY DEF PushOps, DelOps
<1>3. \A p \in Packets : p.op \in PushOps \cup PepOps \cup LoadOps \cup DelOps \cup FlagOps
  BY DEF Packets, ValueOps, PushOps, PepOps, LoadOps, DelOps, FlagOps
<1> QED
  BY <1>1, <1>2, <1>3

LEMMA PushedXs ==
  ASSUME NEW k \in Kinds, NEW p \in Packets, p.op = PushOf[k]
  PROVE  p.xs \in Seq(EntryOf[k]) /\ Len(p.xs) \in Nat
<1>1. p.xs \in Seq(EntryOf[k])
  BY DEF Packets, PushOf, EntryOf, Kinds, ValueOps, PepOps, LoadOps, DelOps, FlagOps
<1> QED
  BY <1>1

LEMMA LenNat ==
  ASSUME NEW o \in Object
  PROVE  \A k \in Kinds : Len(o[k]) \in Nat
BY DEF Object, Kinds

LEMMA RemovedIs ==
  ASSUME NEW o, NEW p, NEW k \in Kinds, p.op = DelOf[k], Width(p.at) \in 1 .. Len(o[k]) - 1
  PROVE  Removed(o, p)
<1>1. CASE k = "vertex"
  BY <1>1 DEF Removed, DelOf
<1>2. CASE k = "mat"
  BY <1>2 DEF Removed, DelOf
<1>3. CASE k = "poly"
  BY <1>3 DEF Removed, DelOf
<1>4. CASE k = "line"
  BY <1>4 DEF Removed, DelOf
<1>5. CASE k = "tex"
  BY <1>5 DEF Removed, DelOf
<1> QED
  BY <1>1, <1>2, <1>3, <1>4, <1>5 DEF Kinds

(* The number of entries of each stack may be what the packet reckons with. *)
CanCome(o, p) == \A k \in Kinds : \E m \in 0 .. Len(o[k]), n \in Nat : Leaves(k, p, m, n)

(* The object after a packet that may come: there are the entries that the *)
(* packet leaves, and materials only grow in number by a push of some.     *)
LEMMA CarryLeaves ==
  ASSUME NEW o \in Object, NEW p \in Packets, CanCome(o, p)
  PROVE  /\ Carry(o, p) \in Object
         /\ \A k \in Kinds : \A m \in 0 .. Len(o[k]), n \in Nat :
                Leaves(k, p, m, n) => n <= Len(Carry(o, p)[k])
         /\ p.op # "PUSH_MAT" => Len(Carry(o, p)["mat"]) <= Len(o["mat"])
<1> DEFINE q == Carry(o, p)
           Good == /\ q \in Object
                   /\ \A k \in Kinds : \A m \in 0 .. Len(o[k]), n \in Nat :
                        Leaves(k, p, m, n) => n <= Len(q[k])
                   /\ p.op # "PUSH_MAT" => Len(q["mat"]) <= Len(o["mat"])
<1> SUFFICES Good
  OBVIOUS
<1>1. \A k \in Kinds : Len(o[k]) \in Nat
  BY LenNat
<1>2. "mat" \in Kinds /\ PushOf["mat"] = "PUSH_MAT"
  BY DEF Kinds, PushOf
<1> HIDE DEF q
<1>3. CASE p.op \notin PushOps /\ p.op \notin DelOps
  <2>1. q \in Object /\ \A k \in Kinds : Len(q[k]) = Len(o[k])
    <3>1. CASE p.op \in PepOps
      BY <3>1, PepCarry DEF Kept, Resized, q
    <3>2. CASE p.op \in LoadOps
      BY <3>2, LoadCarry DEF Kept, Resized, q
    <3>3. CASE p.op \in FlagOps
      BY <3>3, FlagCarry DEF q
    <3> QED
      BY <1>3, <3>1, <3>2, <3>3, OpsApart, OpsElse
  <2>2. \A k \in Kinds : p.op # PushOf[k] /\ p.op # DelOf[k]
    BY <1>3, OpsApart, OpsElse
  <2>3. \A k \in Kinds : \A m \in 0 .. Len(o[k]), n \in Nat : Leaves(k, p, m, n) => n <= Len(q[k])
    BY <1>1, <2>1, <2>2 DEF Leaves
  <2> QED
    BY <1>1, <1>2, <2>1, <2>3
<1>4. CASE p.op \in PushOps
  <2>1. PICK j \in Kinds : p.op = PushOf[j]
    BY <1>4, OpsApart, OpsElse
  <2>2. Len(p.xs) \in Nat
    BY <2>1, PushedXs
  <2>3. Resized(o, q, j, Len(o[j]) + Len(p.xs)) /\ Len(p.xs) \in Nat
    <3>1. CASE p.xs = <<>>
      <4>1. q = o
        BY <1>4, <3>1 DEF q, Carry, PushIn, PushOps, PepOps, LoadOps, DelOps
      <4>2. Len(p.xs) = 0
        BY <3>1
      <4> QED
        BY <1>1, <4>1, <4>2 DEF Resized
    <3>2. CASE p.xs # <<>>
      BY <2>1, <2>2, <3>2, PushCarry DEF q
    <3> QED
      BY <3>1, <3>2
  <2>4. \A k \in Kinds : p.op # DelOf[k] /\ (p.op = PushOf[k] => k = j)
    BY <1>4, <2>1, OpsApart, OpsElse
  <2>5. \A k \in Kinds : Len(q[k]) = IF k = j THEN Len(o[j]) + Len(p.xs) ELSE Len(o[k])
    BY <2>3 DEF Resized
  <2>6. ASSUME NEW k \in Kinds, NEW m \in 0 .. Len(o[k]), NEW n \in Nat, Leaves(k, p, m, n)
        PROVE  n <= Len(q[k])
    <3>1. CASE k = j
      <4>1. n <= m + Len(p.xs)
        BY <2>1, <2>6, <3>1 DEF Leaves
      <4>2. Len(q[k]) = Len(o[k]) + Len(p.xs)
        BY <2>5, <3>1
      <4>3. m \in Nat /\ m <= Len(o[k]) /\ Len(o[k]) \in Nat
        BY <1>1
      <4> DEFINE x == Len(p.xs)
                 a == Len(o[k])
      <4>4. x \in Nat /\ a \in Nat /\ m \in Nat /\ m <= a /\ n <= m + x
        BY <2>2, <4>1, <4>3
      <4> HIDE DEF x, a
      <4>5. n <= a + x
        BY <4>4
      <4> QED
        BY <4>2, <4>5 DEF x, a
    <3>2. CASE k # j
      <4>1. n <= m
        BY <2>4, <2>6, <3>2 DEF Leaves
      <4>2. Len(q[k]) = Len(o[k])
        BY <2>5, <3>2
      <4> QED
        BY <1>1, <4>1, <4>2
    <3> QED
      BY <3>1, <3>2
  <2>7. p.op # "PUSH_MAT" => Len(q["mat"]) <= Len(o["mat"])
    <3> SUFFICES ASSUME p.op # "PUSH_MAT" PROVE Len(q["mat"]) <= Len(o["mat"])
      OBVIOUS
    <3>1. j # "mat"
      BY <1>2, <2>1
    <3>2. Len(q["mat"]) = Len(o["mat"]) /\ Len(o["mat"]) \in Nat
      BY <1>1, <1>2, <2>5, <3>1
    <3> QED
      BY <3>2
  <2> QED
    BY <2>3, <2>6, <2>7 DEF Resized
<1>5. CASE p.op \in DelOps
  <2>1. PICK j \in Kinds : p.op = DelOf[j]
    BY <1>5, OpsApart, OpsElse
  <2>2. \A k \in Kinds : p.op # PushOf[k] /\ (p.op = DelOf[k] => k = j)
    BY <1>5, <2>1, OpsApart, OpsElse
  <2>3. PICK m0 \in 0 .. Len(o[j]), n0 \in Nat : Leaves(j, p, m0, n0)
    BY DEF CanCome
  <2>4. p.at \in Nat /\ 0 < p.at /\ p.at < Len(o[j]) /\ Width(p.at) = p.at
    <3>1. 0 < p.at /\ p.at < m0 /\ Width(p.at) = p.at
      BY <2>1, <2>2, <2>3 DEF Leaves
    <3>2. p.at \in Nat
      BY DEF Packets
    <3> QED
      BY <1>1, <3>1, <3>2
  <2>5. Resized(o, q, j, IF j = "tex" THEN p.at ELSE Len(o[j]) - p.at)
    BY <2>1, <2>4, DelCarry DEF q
  <2>6. \A k \in Kinds : Len(q[k]) = IF k = j THEN IF j = "tex" THEN p.at ELSE Len(o[j]) - p.at
                                    ELSE Len(o[k])
    BY <2>5 DEF Resized
  <2>7. ASSUME NEW k \in Kinds, NEW m \in 0 .. Len(o[k]), NEW n \in Nat, Leaves(k, p, m, n)
        PROVE  n <= Len(q[k])
    <3>1. CASE k = j
      <4>1. n <= (IF k = "tex" THEN p.at ELSE m - p.at)
        BY <2>1, <2>2, <2>7, <3>1 DEF Leaves
      <4> QED
        BY <1>1, <2>4, <2>6, <3>1, <4>1
    <3>2. CASE k # j
      <4>1. n <= m
        BY <2>2, <2>7, <3>2 DEF Leaves
      <4> QED
        BY <1>1, <2>6, <3>2, <4>1
    <3> QED
      BY <3>1, <3>2
  <2>8. Len(q["mat"]) <= Len(o["mat"])
    BY <1>1, <1>2, <2>4, <2>6
  <2> QED
    BY <2>5, <2>7, <2>8 DEF Resized
<1> QED
  BY <1>3, <1>4, <1>5

(* Without a material nothing is drawn.                                    *)
LEMMA NothingDrawn ==
  ASSUME NEW o \in Object, o.mat = <<>>
  PROVE  Upto(o, o.poly) = {} /\ Upto(o, o.line) = {}
<1>1. \A e \in Polygon \cup Line : ~Drawable(o, e)
  <2>1. \A e \in Polygon \cup Line : e.mat \in Nat
    BY DEF Polygon, Line
  <2> QED
    BY <2>1 DEF Drawable
<1>2. o.poly \in Seq(Polygon) /\ o.line \in Seq(Line)
  BY DEF Object
<1>3. \A i \in DOMAIN o.poly : i \in 1 .. i /\ ~Drawable(o, o.poly[i])
  BY <1>1, <1>2
<1>4. \A i \in DOMAIN o.line : i \in 1 .. i /\ ~Drawable(o, o.line[i])
  BY <1>1, <1>2
<1> QED
  BY <1>3, <1>4 DEF Upto

(* A packet that does not have the list dropped does not change what is    *)
(* drawn.                                                                  *)
LEMMA PictureKept ==
  ASSUME NEW o \in Object, NEW p \in Packets, ~DropsList(o, p), CanCome(o, p),
         p.op = "PUSH_TEX" => o.mat = <<>>
  PROVE  Drawn(Carry(o, p)) = Drawn(o)
<1>1. p.op \notin PepOps
  BY DEF DropsList
<1>2. CASE p.op \in PushOps \cup LoadOps /\ p.xs = <<>>
  <2>1. Carry(o, p) = o
    BY <1>2 DEF Carry, PushIn, LoadIn, PushOps, PepOps, LoadOps, DelOps
  <2> QED
    BY <2>1
<1>3. CASE p.op = "PUSH_TEX"
  <2> DEFINE q == [o EXCEPT !.tex = o.tex \o p.xs]
  <2>1. Carry(o, p) \in Object
    BY CarryLeaves
  <2>2. CASE p.xs = <<>>
    BY <1>2, <1>3, <2>2 DEF PushOps
  <2>3. CASE p.xs # <<>>
    <3>1. Carry(o, p) = q
      BY <1>3, <2>3 DEF Carry, PushIn, obj_push_tex, PushOps, PepOps, LoadOps, DelOps
    <3>2. /\ q.vertex = o.vertex /\ q.mat = o.mat /\ q.poly = o.poly /\ q.line = o.line
      BY DEF Object
    <3> HIDE DEF q
    <3>3. /\ Upto(o, o.poly) = {} /\ Upto(o, o.line) = {}
          /\ Upto(q, o.poly) = {} /\ Upto(q, o.line) = {}
      <4>1. q \in Object /\ q.mat = <<>> /\ o.mat = <<>>
        BY <1>3, <2>1, <3>1, <3>2
      <4> QED
        BY <3>2, <4>1, NothingDrawn
    <3>4. DrawnPolys(q) = DrawnPolys(o)
      BY <3>2, <3>3 DEF DrawnPolys
    <3>5. DrawnLines(q) = DrawnLines(o)
      BY <3>2, <3>3 DEF DrawnLines
    <3> QED
      BY <3>1, <3>4, <3>5 DEF Drawn
  <2> QED
    BY <2>2, <2>3
<1>4. CASE p.op \in FlagOps
  BY <1>4, FlagCarry
<1>5. p.op \notin DelOps
  <2> SUFFICES ASSUME p.op \in DelOps PROVE FALSE
    OBVIOUS
  <2>1. PICK j \in Kinds : p.op = DelOf[j]
    BY OpsApart, OpsElse
  <2>2. p.op # PushOf[j]
    BY <2>1, OpsApart, OpsElse
  <2>3. PICK m \in 0 .. Len(o[j]), n \in Nat : Leaves(j, p, m, n)
    BY DEF CanCome
  <2>4. 0 < p.at /\ p.at < m /\ Width(p.at) = p.at
    BY <2>1, <2>2, <2>3 DEF Leaves
  <2>5. p.at \in Nat /\ Len(o[j]) \in Nat
    <3>1. p.at \in Nat
      BY DEF Packets
    <3> QED
      BY <3>1, LenNat
  <2>6. Width(p.at) \in 1 .. Len(o[j]) - 1
    BY <2>4, <2>5
  <2>7. Removed(o, p)
    BY <2>1, <2>6, RemovedIs
  <2> QED
    BY <2>7 DEF DropsList
<1>6. p.op \in PushOps \cup LoadOps => p.xs = <<>> \/ p.op = "PUSH_TEX"
  BY DEF DropsList
<1> QED
  BY <1>1, <1>2, <1>3, <1>4, <1>5, <1>6, OpsApart, OpsElse

-----------------------------------------------------------------------------
(* The server's steps.                                                     *)

LEMMA CarryStep ==
  ASSUME Inv, ProtComIn
  PROVE  Inv'
<1> USE DEF Inv
<1> DEFINE p == Head(chan)
           rest == Tail(chan)
<1>1. /\ chan \in Seq(Packets) /\ chan # <<>> /\ Len(chan) \in Nat /\ Len(chan) > 0
      /\ p = chan[1] /\ p \in Packets
      /\ rest \in Seq(Packets) /\ Len(rest) = Len(chan) - 1
      /\ \A i \in 1 .. Len(rest) : rest[i] = chan[i + 1]
  BY DEF ProtComIn, TypeInv
<1>2. /\ obj' = Carry(obj, p) /\ chan' = rest
      /\ dplist' = IF DropsList(obj, p) THEN None ELSE dplist
      /\ pushed' = pushed /\ calls' = calls
  BY DEF ProtComIn
<1> HIDE DEF p, rest
<1>3. obj \in Object /\ pushed \in [Kinds -> Nat] /\ calls \in Nat
  BY DEF TypeInv
<1>4. ASSUME NEW k \in Kinds
      PROVE  \E m \in 0 .. Len(obj[k]), n \in Nat : Leaves(k, p, m, n) /\ Leads(k, rest, n, pushed[k])
  <2>1. PICK m \in 0 .. Len(obj[k]) : Leads(k, chan, m, pushed[k])
    BY DEF CountInv
  <2>2. \E n \in Nat : Leaves(k, chan[1], m, n) /\ Leads(k, Tail(chan), n, pushed[k])
    BY <1>1, <2>1, LeadsTail
  <2> QED
    BY <1>1, <2>2 DEF rest
<1>5. CanCome(obj, p)
  BY <1>4 DEF CanCome
<1>6. /\ obj' \in Object
      /\ \A k \in Kinds : \A m \in 0 .. Len(obj[k]), n \in Nat : Leaves(k, p, m, n) => n <= Len(obj'[k])
      /\ p.op # "PUSH_MAT" => Len(obj'["mat"]) <= Len(obj["mat"])
  BY <1>1, <1>2, <1>3, <1>5, CarryLeaves
<1>7. TypeInv'
  BY <1>1, <1>2, <1>3, <1>6 DEF TypeInv
<1>8. CountInv'
  <2> SUFFICES ASSUME NEW k \in Kinds
               PROVE  \E m \in 0 .. Len(obj'[k]) : Leads(k, rest, m, pushed[k])
    BY <1>2 DEF CountInv
  <2>1. PICK m \in 0 .. Len(obj[k]), n \in Nat : Leaves(k, p, m, n) /\ Leads(k, rest, n, pushed[k])
    BY <1>4
  <2>2. n <= Len(obj'[k]) /\ Len(obj'[k]) \in Nat
    BY <1>6, <2>1 DEF Object, Kinds
  <2> QED
    BY <2>1, <2>2
<1>9. ASSUME obj["mat"] = <<>>, p.op # "PUSH_MAT"
      PROVE  obj'.mat = <<>>
  <2>1. Len(obj["mat"]) = 0 /\ obj'["mat"] \in Seq(Material)
    BY <1>6, <1>9 DEF Object
  <2>2. Len(obj'["mat"]) <= 0 /\ Len(obj'["mat"]) \in Nat
    BY <1>6, <1>9, <2>1
  <2> QED
    BY <2>1, <2>2
<1>10. TextureInv'
  <2>1. pushed["mat"] = 0 => obj'.mat = <<>> /\ Bare(rest)
    <3> SUFFICES ASSUME pushed["mat"] = 0 PROVE obj'.mat = <<>> /\ Bare(rest)
      OBVIOUS
    <3>1. obj.mat = <<>> /\ \A i \in 1 .. Len(chan) : chan[i].op # "PUSH_MAT"
      BY DEF TextureInv, Bare
    <3>2. p.op # "PUSH_MAT"
      BY <1>1, <3>1
    <3>3. \A i \in 1 .. Len(rest) : rest[i].op # "PUSH_MAT"
      BY <1>1, <3>1
    <3> QED
      BY <1>9, <3>1, <3>2, <3>3 DEF Bare
  <2>2. ASSUME NEW i \in 1 .. Len(rest), rest[i].op = "PUSH_TEX"
        PROVE  obj'.mat = <<>> /\ \A j \in 1 .. i : rest[j].op # "PUSH_MAT"
    <3>1. i + 1 \in 1 .. Len(chan) /\ chan[i + 1].op = "PUSH_TEX"
      BY <1>1, <2>2
    <3>2. obj.mat = <<>> /\ \A j \in 1 .. i + 1 : chan[j].op # "PUSH_MAT"
      BY <3>1 DEF TextureInv
    <3>3. p.op # "PUSH_MAT"
      BY <1>1, <3>2
    <3>4. \A j \in 1 .. i : rest[j].op # "PUSH_MAT"
      <4> SUFFICES ASSUME NEW j \in 1 .. i PROVE rest[j].op # "PUSH_MAT"
        OBVIOUS
      <4>1. j \in 1 .. Len(rest) /\ j + 1 \in 1 .. i + 1
        BY <1>1
      <4> QED
        BY <1>1, <3>2, <4>1
    <3> QED
      BY <1>9, <3>2, <3>3, <3>4
  <2> QED
    BY <1>2, <2>1, <2>2 DEF TextureInv
<1>11. ListIsCurrent'
  <2> SUFFICES ASSUME dplist' # None PROVE dplist' = Drawn(obj')
    BY DEF ListIsCurrent, Drawn, DrawnPolys, DrawnLines, Upto, Drawable, Normal, Colour
  <2>1. ~DropsList(obj, p) /\ dplist' = dplist /\ dplist = Drawn(obj)
    BY <1>2 DEF ListIsCurrent
  <2>2. p.op = "PUSH_TEX" => obj.mat = <<>>
    <3>1. 1 \in 1 .. Len(chan)
      BY <1>1
    <3> QED
      BY <1>1, <3>1 DEF TextureInv
  <2>3. Drawn(Carry(obj, p)) = Drawn(obj)
    BY <1>1, <1>3, <1>5, <2>1, <2>2, PictureKept
  <2> QED
    BY <1>2, <2>1, <2>3
<1> QED
  BY <1>7, <1>8, <1>10, <1>11

(* calc_normal() gives a polygon the normal that it is drawn with.         *)
LEMMA NormalsTwice ==
  ASSUME NEW o \in Object
  PROVE  CalcNormals(o) \in Object /\ (\A k \in Kinds : Len(CalcNormals(o)[k]) = Len(o[k]))
         /\ CalcNormals(o).mat = o.mat /\ Drawn(CalcNormals(o)) = Drawn(o)
<1> DEFINE Reached(i) == (\A j \in 1 .. i - 1 : Drawable(o, o.poly[j])) /\ o.poly[i].v < Len(o.vertex)
           z(i) == IF Reached(i) THEN [o.poly[i] EXCEPT !.n = Normal(o, o.poly[i])] ELSE o.poly[i]
           m == Len(o.poly)
           s == [i \in 1 .. m |-> z(i)]
           q == CalcNormals(o)
<1>1. /\ o.poly \in Seq(Polygon) /\ o.line \in Seq(Line) /\ o.vertex \in Seq(Vertex)
      /\ DOMAIN o.poly = 1 .. m /\ m \in Nat
  BY DEF Object
<1>2. ASSUME NEW i \in 1 .. m
      PROVE  o.poly[i] \in Polygon
  BY <1>1
<1>3. ASSUME NEW e \in Polygon, e.v < Len(o.vertex)
      PROVE  Normal(o, e) \in Int
  <2>1. e.v \in Nat /\ e.n \in Int
    BY DEF Polygon
  <2>2. e.v + 1 \in 1 .. Len(o.vertex)
    BY <1>1, <1>3, <2>1
  <2>3. o.vertex[e.v + 1] \in Vertex
    BY <1>1, <2>2
  <2>4. o.vertex[e.v + 1].id \in Int
    BY <2>3 DEF Vertex
  <2> QED
    BY <2>1, <2>4 DEF Normal
<1>4. ASSUME NEW i \in 1 .. m
      PROVE  /\ z(i) \in Polygon /\ z(i).v = o.poly[i].v /\ z(i).mat = o.poly[i].mat
             /\ z(i).tc = o.poly[i].tc
             /\ Reached(i) => z(i).n = Normal(o, o.poly[i])
  <2> DEFINE e == o.poly[i]
  <2>1. e \in Polygon
    BY <1>2
  <2>2. CASE Reached(i)
    <3>1. Normal(o, e) \in Int
      BY <1>3, <2>1, <2>2
    <3>2. z(i) = [e EXCEPT !.n = Normal(o, e)]
      BY <2>2
    <3> HIDE DEF e, z
    <3> QED
      BY <2>1, <3>1, <3>2 DEF Polygon, e
  <2>3. CASE ~Reached(i)
    <3>1. z(i) = e
      BY <2>3
    <3> HIDE DEF z
    <3> QED
      BY <2>1, <2>3, <3>1
  <2> QED
    BY <2>2, <2>3
<1>5. q = [o EXCEPT !.poly = s]
  BY <1>1 DEF CalcNormals
<1> HIDE DEF z
<1>6. s \in Seq(Polygon) /\ Len(s) = m
  BY <1>1, <1>4
<1>7. \A i \in 1 .. m : s[i] = z(i)
  OBVIOUS
<1> HIDE DEF s, q
<1>8. /\ q.vertex = o.vertex /\ q.mat = o.mat /\ q.line = o.line /\ q.tex = o.tex /\ q.poly = s
  BY <1>5 DEF Object
<1>9. q \in Object /\ \A k \in Kinds : Len(q[k]) = Len(o[k])
  <2>1. "poly" \in Kinds /\ EntryOf["poly"] = Polygon
    BY DEF Kinds, EntryOf
  <2>2. Resized(o, q, "poly", m)
    BY <1>5, <1>6, <2>1, NewStack
  <2> QED
    BY <2>2 DEF Resized
<1>10. \A i \in 1 .. m : Drawable(q, s[i]) = Drawable(o, o.poly[i])
  BY <1>4, <1>7, <1>8 DEF Drawable
<1>11. Upto(q, s) = Upto(o, o.poly) /\ DOMAIN s = 1 .. m
  <2>1. DOMAIN s = 1 .. m
    BY <1>6
  <2>2. \A i \in 1 .. m : \A j \in 1 .. i : j \in 1 .. m
    BY <1>1
  <2> QED
    BY <1>1, <1>10, <2>1, <2>2 DEF Upto
<1>12. Upto(q, o.line) = Upto(o, o.line)
  BY <1>8 DEF Upto, Drawable
<1>13. ASSUME NEW i \in Upto(o, o.poly)
       PROVE  /\ s[i].v = o.poly[i].v /\ s[i].mat = o.poly[i].mat /\ s[i].tc = o.poly[i].tc
              /\ Normal(q, s[i]) = Normal(o, o.poly[i])
  <2>1. i \in 1 .. m /\ \A j \in 1 .. i : Drawable(o, o.poly[j])
    BY <1>1 DEF Upto
  <2>2. Reached(i)
    BY <2>1 DEF Drawable
  <2>3. /\ s[i].n = Normal(o, o.poly[i]) /\ s[i].v = o.poly[i].v
        /\ s[i].mat = o.poly[i].mat /\ s[i].tc = o.poly[i].tc
    BY <1>4, <1>7, <2>1, <2>2
  <2>4. Normal(o, o.poly[i]) \in Int
    BY <1>2, <1>3, <2>1, <2>2
  <2>5. Normal(q, s[i]) = IF Normal(o, o.poly[i]) = 0 THEN -o.vertex[o.poly[i].v + 1].id
                          ELSE Normal(o, o.poly[i])
    BY <1>8, <2>3 DEF Normal
  <2>6. Normal(o, o.poly[i]) = 0 => Normal(o, o.poly[i]) = -o.vertex[o.poly[i].v + 1].id
    <3>1. CASE o.poly[i].n = 0
      BY <3>1 DEF Normal
    <3>2. CASE o.poly[i].n # 0
      BY <3>2 DEF Normal
    <3> QED
      BY <3>1, <3>2
  <2> QED
    BY <2>3, <2>5, <2>6
<1>14. DrawnPolys(q) = DrawnPolys(o)
  <2>1. \A i \in Upto(o, o.poly) :
           /\ s[i].v = o.poly[i].v /\ s[i].mat = o.poly[i].mat /\ s[i].tc = o.poly[i].tc
           /\ Normal(q, s[i]) = Normal(o, o.poly[i])
    BY <1>13
  <2> QED
    BY <1>8, <1>11, <2>1 DEF DrawnPolys, Colour
<1>15. DrawnLines(q) = DrawnLines(o)
  BY <1>1, <1>8, <1>11, <1>12 DEF DrawnLines
<1> QED
  BY <1>8, <1>9, <1>14, <1>15 DEF Drawn, q

LEMMA RenderStep ==
  ASSUME Inv, Render
  PROVE  Inv'
<1> USE DEF Inv, Render
<1>1. obj \in Object
  BY DEF TypeInv
<1>2. /\ obj' \in Object /\ obj'.mat = obj.mat /\ \A k \in Kinds : Len(obj'[k]) = Len(obj[k])
      /\ Drawn(obj') = Drawn(obj)
  BY <1>1, NormalsTwice
<1>3. TypeInv'
  BY <1>2 DEF TypeInv
<1>4. CountInv'
  <2> SUFFICES ASSUME NEW k \in Kinds
               PROVE  \E m \in 0 .. Len(obj'[k]) : Leads(k, chan, m, pushed[k])
    BY DEF CountInv
  <2> QED
    BY <1>2 DEF CountInv
<1>5. TextureInv'
  BY <1>2 DEF TextureInv, Bare
<1>6. ListIsCurrent'
  <2>1. dplist' = Drawn(obj')
    BY <1>2
  <2> QED
    BY <2>1 DEF ListIsCurrent
<1> QED
  BY <1>3, <1>4, <1>5, <1>6

-----------------------------------------------------------------------------
(* The specification.                                                      *)

LEMMA Begins ==
  ASSUME Given \subseteq Object, Init
  PROVE  Inv
<1> USE DEF Init
<1>1. obj \in Object /\ \A k \in Kinds : Len(obj[k]) \in Nat
  BY LenNat
<1>2. pushed = [k \in Kinds |-> Len(obj[k])]
  BY DEF S!Kinds, Kinds
<1>3. <<>> \in Seq(Packets) /\ Len(<<>>) = 0
  OBVIOUS
<1>4. TypeInv
  BY <1>1, <1>2, <1>3 DEF TypeInv
<1>5. CountInv
  <2> SUFFICES ASSUME NEW k \in Kinds
               PROVE  \E m \in 0 .. Len(obj[k]) : Leads(k, chan, m, pushed[k])
    BY DEF CountInv
  <2>1. All("none", <<>>)
    BY NoPacket
  <2>2. "none" # PushOf[k] /\ "none" # DelOf[k]
    BY DEF Kinds, PushOf, DelOf
  <2>3. Leads(k, <<>>, Len(obj[k]), Len(obj[k]))
    BY <1>1, <2>1, <2>2, LeadsIdle
  <2> QED
    BY <1>1, <1>2, <2>3
<1>6. TextureInv
  <2>1. pushed["mat"] = 0 => obj.mat = <<>>
    <3>1. pushed["mat"] = Len(obj.mat)
      BY <1>2 DEF Kinds
    <3>2. obj.mat \in Seq(Material)
      BY <1>1 DEF Object
    <3>3. Len(obj.mat) = 0 => obj.mat = <<>>
      BY <3>2
    <3> QED
      BY <3>1, <3>3
  <2> QED
    BY <1>3, <2>1 DEF TextureInv, Bare
<1>7. ListIsCurrent
  BY DEF ListIsCurrent
<1> QED
  BY <1>4, <1>5, <1>6, <1>7 DEF Inv

(* The list obj_render() has compiled shows what the object holds, in every *)
(* state, however the arrays are split and whenever the packets arrive, for *)
(* a program that pops with numbers that fit, less than it has pushed and   *)
(* half of its textures, that pushes textures before materials and sends no *)
(* array of which the pieces leave something out.  It is not by the drop of *)
(* the list alone: what the functions that keep it change is never drawn.   *)
THEOREM PictureIsCurrent ==
  ASSUME Tame, Given \subseteq Object, \A n \in Lens : Covered(n)
  PROVE  Spec => []ListIsCurrent
<1>1. Init => Inv
  BY Begins
<1>2. Inv /\ [Next]_vars => Inv'
  <2> SUFFICES ASSUME Inv, [Next]_vars PROVE Inv'
    OBVIOUS
  <2>1. CASE PushVertex \/ PushMaterial \/ PushPolygon \/ PushLine \/ PushTexture
    BY <2>1, PushSteps
  <2>2. CASE PopVertex \/ PopMaterial \/ PopPolygon \/ PopLine \/ PopTexture
    BY <2>2, PopSteps
  <2>3. CASE PepVertices \/ PepMaterials \/ PepMaterialTexture \/ PepNormals \/ PepTexCoords
                \/ PepLines \/ LoadArray \/ TurnFlags
    BY <2>3, OtherSteps
  <2>4. CASE ProtComIn
    BY <2>4, CarryStep
  <2>5. CASE Render
    BY <2>5, RenderStep
  <2>6. CASE UNCHANGED vars
    BY <2>6 DEF vars, Inv, TypeInv, CountInv, TextureInv, Bare, ListIsCurrent
  <2> QED
    BY <2>1, <2>2, <2>3, <2>4, <2>5, <2>6 DEF Next
<1>3. Inv => ListIsCurrent
  BY DEF Inv
<1> QED
  BY <1>1, <1>2, <1>3, PTL DEF Spec

-----------------------------------------------------------------------------
(* Induction, over a set of numbers.                                       *)
Below == {p \in Nat \X Nat : p[1] < p[2]}
LEMMA BelowWF == IsWellFoundedOn(Below, Nat)
BY NatLessThanWellFounded DEF OpToRel, Below

LEMMA SetInduction ==
  ASSUME NEW T, 0 \in T, \A k \in Nat : k \in T => k + 1 \in T
  PROVE  Nat \subseteq T
<1> DEFINE U == Nat \ T
<1> SUFFICES ASSUME U # {} PROVE FALSE
  OBVIOUS
<1>1. PICK x \in U : \A y \in U : ~ (<<y, x>> \in Below)
  BY BelowWF, WFMin
<1>2. x # 0 /\ x - 1 \in Nat
  OBVIOUS
<1>3. x - 1 \in U
  <2>1. x - 1 \in T => (x - 1) + 1 \in T
    BY <1>2
  <2> QED
    BY <1>2, <2>1
<1>4. <<x - 1, x>> \in Below
  BY <1>2 DEF Below
<1> QED
  BY <1>1, <1>3, <1>4

-----------------------------------------------------------------------------
(* Packets carried out one after the other: the object before each of the  *)
(* first n of them, and after the last.                                    *)
Run(o, ps, n, f) == f = [i \in 0 .. n |-> IF i = 0 THEN o ELSE Carry(f[i - 1], ps[i])]

LEMMA RunExists ==
  ASSUME NEW o, NEW ps, NEW n \in Nat
  PROVE  \E f : Run(o, ps, n, f)
<1> DEFINE T == {k \in Nat : \E f : Run(o, ps, k, f)}
<1>1. 0 \in T
  <2> DEFINE f == [i \in 0 .. 0 |-> o]
  <2>1. f = [i \in 0 .. 0 |-> IF i = 0 THEN o ELSE Carry(f[i - 1], ps[i])]
    OBVIOUS
  <2> HIDE DEF f
  <2>2. Run(o, ps, 0, f)
    BY <2>1 DEF Run
  <2> QED
    BY <2>2
<1>2. ASSUME NEW k \in Nat, k \in T PROVE k + 1 \in T
  <2>1. PICK f : Run(o, ps, k, f)
    BY <1>2
  <2> DEFINE g == [i \in 0 .. k + 1 |-> IF i = k + 1 THEN Carry(f[k], ps[k + 1]) ELSE f[i]]
  <2>2. \A i \in 0 .. k : f[i] = IF i = 0 THEN o ELSE Carry(f[i - 1], ps[i])
    BY <2>1 DEF Run
  <2>3. ASSUME NEW i \in 0 .. k + 1
        PROVE  g[i] = IF i = 0 THEN o ELSE Carry(g[i - 1], ps[i])
    <3>1. CASE i = k + 1
      <4>1. i # 0 /\ i - 1 = k /\ k \in 0 .. k + 1 /\ k # k + 1
        BY <3>1
      <4> QED
        BY <3>1, <4>1
    <3>2. CASE i # k + 1 /\ i # 0
      <4>1. i \in 0 .. k /\ i - 1 \in 0 .. k + 1 /\ i - 1 # k + 1
        BY <3>2
      <4> QED
        BY <2>2, <3>2, <4>1
    <3>3. CASE i # k + 1 /\ i = 0
      BY <2>2, <3>3
    <3> QED
      BY <3>1, <3>2, <3>3
  <2>4. Run(o, ps, k + 1, g)
    <3> DEFINE h == [i \in 0 .. k + 1 |-> IF i = 0 THEN o ELSE Carry(g[i - 1], ps[i])]
    <3>1. \A i \in 0 .. k + 1 : g[i] = h[i]
      BY <2>3
    <3>2. g = h
      BY <3>1
    <3> QED
      BY <3>2 DEF Run
  <2> HIDE DEF g
  <2> QED
    BY <2>4
<1>3. Nat \subseteq T
  <2> HIDE DEF T
  <2> QED
    BY <1>1, <1>2, SetInduction
<1> QED
  BY <1>3

LEMMA CarriedRuns ==
  ASSUME NEW o, NEW ps, Len(ps) \in Nat
  PROVE  \E f : Run(o, ps, Len(ps), f) /\ Carried(o, ps) = f[Len(ps)]
<1> DEFINE c == CHOOSE f : Run(o, ps, Len(ps), f)
<1>1. Run(o, ps, Len(ps), c)
  BY RunExists
<1>2. Carried(o, ps) = c[Len(ps)]
  BY DEF Carried, Run
<1> HIDE DEF c
<1> QED
  BY <1>1, <1>2

LEMMA RunSteps ==
  ASSUME NEW o, NEW ps, NEW n \in Nat, NEW f, Run(o, ps, n, f)
  PROVE  f[0] = o /\ \A i \in 1 .. n : f[i] = Carry(f[i - 1], ps[i])
<1>1. \A i \in 0 .. n : f[i] = IF i = 0 THEN o ELSE Carry(f[i - 1], ps[i])
  BY DEF Run
<1> QED
  BY <1>1

(* A run goes as another does from the point where they meet.              *)
Meets(ps, d, rs, m) == \A i \in 1 .. m : ps[d + i] = rs[i]
LEMMA RunsAgree ==
  ASSUME NEW o, NEW ps, NEW n \in Nat, NEW f, Run(o, ps, n, f), NEW q, NEW rs, NEW m \in Nat,
         NEW g, Run(q, rs, m, g), NEW d \in Nat, d + m <= n, f[d] = q,
         Meets(ps, d, rs, m)
  PROVE  f[d + m] = g[m]
<1> DEFINE T == {i \in Nat : i <= m => f[d + i] = g[i]}
<1>1. /\ g[0] = q /\ \A i \in 1 .. m : g[i] = Carry(g[i - 1], rs[i])
      /\ \A i \in 1 .. n : f[i] = Carry(f[i - 1], ps[i])
  BY RunSteps
<1>2. 0 \in T
  BY <1>1
<1>3. ASSUME NEW i \in Nat, i \in T PROVE i + 1 \in T
  <2> SUFFICES ASSUME i + 1 <= m PROVE f[d + (i + 1)] = g[i + 1]
    OBVIOUS
  <2>1. f[d + i] = g[i] /\ i + 1 \in 1 .. m /\ d + (i + 1) \in 1 .. n
    BY <1>3
  <2>2. g[i + 1] = Carry(g[i], rs[i + 1])
    <3>1. (i + 1) - 1 = i
      OBVIOUS
    <3> QED
      BY <1>1, <2>1, <3>1
  <2>3. f[d + (i + 1)] = Carry(f[d + i], ps[d + (i + 1)])
    <3>1. (d + (i + 1)) - 1 = d + i
      OBVIOUS
    <3> QED
      BY <1>1, <2>1, <3>1
  <2> QED
    BY <2>1, <2>2, <2>3 DEF Meets
<1>4. Nat \subseteq T
  <2> HIDE DEF T
  <2> QED
    BY <1>2, <1>3, SetInduction
<1> QED
  BY <1>4

LEMMA CarriedNone == \A o : Carried(o, <<>>) = o
<1> SUFFICES ASSUME NEW o PROVE Carried(o, <<>>) = o
  OBVIOUS
<1>1. Len(<<>>) = 0
  OBVIOUS
<1>2. PICK f : Run(o, <<>>, 0, f) /\ Carried(o, <<>>) = f[0]
  BY <1>1, CarriedRuns
<1> QED
  BY <1>2, RunSteps

LEMMA CarriedOne == \A o, p : Carried(o, <<p>>) = Carry(o, p)
<1> SUFFICES ASSUME NEW o, NEW p PROVE Carried(o, <<p>>) = Carry(o, p)
  OBVIOUS
<1>1. Len(<<p>>) = 1 /\ <<p>>[1] = p
  OBVIOUS
<1>2. PICK f : Run(o, <<p>>, 1, f) /\ Carried(o, <<p>>) = f[1]
  BY <1>1, CarriedRuns
<1>3. f[0] = o /\ \A i \in 1 .. 1 : f[i] = Carry(f[i - 1], <<p>>[i])
  BY <1>2, RunSteps
<1>4. f[1] = Carry(f[0], p)
  BY <1>1, <1>3
<1> QED
  BY <1>2, <1>3, <1>4

LEMMA CarriedMore ==
  ASSUME NEW P, NEW o, NEW ps \in Seq(P), NEW rs \in Seq(P)
  PROVE  Carried(o, ps \o rs) = Carried(Carried(o, ps), rs)
<1> DEFINE qs == ps \o rs
           n == Len(ps)
           m == Len(rs)
<1>1. /\ n \in Nat /\ m \in Nat /\ Len(qs) = n + m
      /\ \A i \in 1 .. n : qs[i] = ps[i]
      /\ \A i \in 1 .. m : qs[n + i] = rs[i]
  BY ConcatProperties
<1> HIDE DEF qs, n, m
<1>2. PICK f : Run(o, qs, n + m, f) /\ Carried(o, qs) = f[n + m]
  BY <1>1, CarriedRuns
<1>3. PICK g : Run(o, ps, n, g) /\ Carried(o, ps) = g[n]
  BY <1>1, CarriedRuns DEF n
<1>4. PICK h : Run(g[n], rs, m, h) /\ Carried(g[n], rs) = h[m]
  BY <1>1, CarriedRuns DEF m
<1>5. f[0] = o
  BY <1>1, <1>2, RunSteps
<1>6. f[n] = g[n]
  <2>1. Meets(qs, 0, ps, n)
    BY <1>1 DEF Meets
  <2>2. 0 \in Nat /\ n + m \in Nat /\ 0 + n <= n + m
    BY <1>1
  <2>3. f[0 + n] = g[n]
    BY <1>1, <1>2, <1>3, <1>5, <2>1, <2>2, RunsAgree
  <2> QED
    BY <1>1, <2>3
<1>7. f[n + m] = h[m]
  <2>1. n + m \in Nat /\ n + m <= n + m /\ Meets(qs, n, rs, m)
    BY <1>1 DEF Meets
  <2> QED
    BY <1>1, <1>2, <1>4, <1>6, <2>1, RunsAgree
<1> QED
  BY <1>2, <1>3, <1>4, <1>7 DEF qs

LEMMA CarriedFirst ==
  ASSUME NEW P, NEW o, NEW ps \in Seq(P), ps # <<>>
  PROVE  Carried(o, ps) = Carried(Carry(o, Head(ps)), Tail(ps))
<1> DEFINE h == <<Head(ps)>>
           t == Tail(ps)
<1>1. ps = h \o t /\ h \in Seq(P) /\ t \in Seq(P)
  OBVIOUS
<1>2. Carried(o, h) = Carry(o, Head(ps))
  BY CarriedOne
<1> HIDE DEF h, t
<1>3. Carried(o, h \o t) = Carried(Carried(o, h), t)
  BY <1>1, CarriedMore
<1> QED
  BY <1>1, <1>2, <1>3 DEF t

-----------------------------------------------------------------------------
(* The normals the server computed do not come back: they are in the way   *)
(* of no packet.                                                           *)
Point == [id : Nat]
Begun == {o \in Object : o.vertex \in Seq(Point)}
Fit == {p \in Packets : /\ p.op = "PUSH_VERTEX" => p.xs \in Seq(Point)
                        /\ p.op \in ValueOps => p.xs \in Seq(Nat)
                        /\ p.op \in DelOps => Width(p.at) = p.at}

Cleared(e) == IF e.n < 0 THEN [e EXCEPT !.n = 0] ELSE e

LEMMA ClearedEntry ==
  /\ \A e \in Polygon : /\ Cleared(e) \in Polygon
                        /\ e.n >= 0 => Cleared(e) = e
                        /\ Cleared(e).n >= 0
  /\ \A e \in Polygon, x \in Nat :
        /\ Cleared([e EXCEPT !["n"] = x]) = [Cleared(e) EXCEPT !["n"] = x]
        /\ Cleared([e EXCEPT !["tc"] = x]) = [Cleared(e) EXCEPT !["tc"] = x]
<1>1. ASSUME NEW e \in Polygon
      PROVE  Cleared(e) \in Polygon /\ (e.n >= 0 => Cleared(e) = e) /\ Cleared(e).n >= 0
  BY DEF Cleared, Polygon
<1>2. ASSUME NEW e \in Polygon, NEW x \in Nat
      PROVE  Cleared([e EXCEPT !["n"] = x]) = [Cleared(e) EXCEPT !["n"] = x]
  <2>1. [e EXCEPT !["n"] = x].n = x /\ ~(x < 0)
    BY DEF Polygon
  <2>2. Cleared([e EXCEPT !["n"] = x]) = [e EXCEPT !["n"] = x]
    BY <2>1 DEF Cleared
  <2>3. [[e EXCEPT !.n = 0] EXCEPT !["n"] = x] = [e EXCEPT !["n"] = x]
    BY DEF Polygon
  <2> QED
    BY <2>2, <2>3 DEF Cleared
<1>3. ASSUME NEW e \in Polygon, NEW x \in Nat
      PROVE  Cleared([e EXCEPT !["tc"] = x]) = [Cleared(e) EXCEPT !["tc"] = x]
  <2>1. [e EXCEPT !["tc"] = x].n = e.n
    BY DEF Polygon
  <2>2. [[e EXCEPT !.n = 0] EXCEPT !["tc"] = x] = [[e EXCEPT !["tc"] = x] EXCEPT !.n = 0]
    BY DEF Polygon
  <2> QED
    BY <2>1, <2>2 DEF Cleared
<1>4. /\ \A e \in Polygon, x \in Nat : Cleared([e EXCEPT !["n"] = x]) = [Cleared(e) EXCEPT !["n"] = x]
      /\ \A e \in Polygon, x \in Nat : Cleared([e EXCEPT !["tc"] = x]) = [Cleared(e) EXCEPT !["tc"] = x]
  BY <1>2, <1>3
<1> QED
  BY <1>1, <1>4

LEMMA AsGivenIs ==
  ASSUME NEW s \in Seq(Polygon)
  PROVE  /\ AsGiven(s) = [i \in 1 .. Len(s) |-> Cleared(s[i])]
         /\ AsGiven(s) \in Seq(Polygon) /\ Len(AsGiven(s)) = Len(s)
         /\ \A i \in 1 .. Len(s) : AsGiven(s)[i] = Cleared(s[i])
<1>1. DOMAIN s = 1 .. Len(s) /\ Len(s) \in Nat
  OBVIOUS
<1>2. AsGiven(s) = [i \in 1 .. Len(s) |-> Cleared(s[i])]
  BY <1>1 DEF AsGiven, Cleared
<1>3. \A i \in 1 .. Len(s) : Cleared(s[i]) \in Polygon
  BY <1>1, ClearedEntry
<1> QED
  BY <1>1, <1>2, <1>3

LEMMA UncomputedIs ==
  ASSUME NEW o \in Object
  PROVE  /\ Uncomputed(o) \in Object
         /\ Uncomputed(o).poly = AsGiven(o.poly)
         /\ \A k \in Kinds \ {"poly"} : Uncomputed(o)[k] = o[k]
         /\ \A k \in Kinds : Len(Uncomputed(o)[k]) = Len(o[k])
<1>1. o.poly \in Seq(Polygon)
  BY DEF Object
<1> DEFINE s == AsGiven(o.poly)
<1>2. s \in Seq(Polygon) /\ Len(s) = Len(o.poly)
  BY <1>1, AsGivenIs
<1>3. Uncomputed(o) = [o EXCEPT !.poly = s]
  BY DEF Uncomputed
<1> HIDE DEF s
<1>4. [o EXCEPT !.poly = s] \in Object /\ [o EXCEPT !.poly = s].poly = s
  BY <1>2 DEF Object
<1>5. \A k \in Kinds \ {"poly"} : [o EXCEPT !.poly = s][k] = o[k]
  BY DEF Object, Kinds
<1> QED
  BY <1>2, <1>3, <1>4, <1>5 DEF s

LEMMA UncomputedWith ==
  ASSUME NEW o \in Object, NEW k \in Kinds, NEW x
  PROVE  Uncomputed([o EXCEPT ![k] = x]) = [Uncomputed(o) EXCEPT ![k] = IF k = "poly" THEN AsGiven(x) ELSE x]
<1> USE DEF Uncomputed, Object
<1>1. CASE k = "poly"
  <2> DEFINE y == AsGiven(x)
  <2>1. [o EXCEPT !["poly"] = x].poly = x
    OBVIOUS
  <2>2. Uncomputed([o EXCEPT !["poly"] = x]) = [[o EXCEPT !["poly"] = x] EXCEPT !.poly = y]
    BY <2>1
  <2> DEFINE z == AsGiven(o.poly)
  <2>3. [Uncomputed(o) EXCEPT !["poly"] = y] = [[o EXCEPT !.poly = z] EXCEPT !["poly"] = y]
    OBVIOUS
  <2> HIDE DEF y, z
  <2>4. [[o EXCEPT !["poly"] = x] EXCEPT !.poly = y] = [[o EXCEPT !.poly = z] EXCEPT !["poly"] = y]
    OBVIOUS
  <2> QED
    BY <1>1, <2>2, <2>3, <2>4 DEF y
<1>2. CASE k # "poly"
  <2> DEFINE z == AsGiven(o.poly)
  <2>1. [o EXCEPT ![k] = x].poly = o.poly
    BY <1>2
  <2>2. Uncomputed([o EXCEPT ![k] = x]) = [[o EXCEPT ![k] = x] EXCEPT !.poly = z]
    BY <2>1
  <2>3. Uncomputed(o) = [o EXCEPT !.poly = z]
    OBVIOUS
  <2> HIDE DEF z
  <2>4. [[o EXCEPT ![k] = x] EXCEPT !.poly = z] = [[o EXCEPT !.poly = z] EXCEPT ![k] = x]
    BY <1>2 DEF Kinds
  <2> QED
    BY <1>2, <2>2, <2>3, <2>4
<1> QED
  BY <1>1, <1>2

LEMMA SameEntries ==
  ASSUME NEW E, NEW F, NEW s \in Seq(E), NEW t \in Seq(F), Len(s) = Len(t),
         \A i \in 1 .. Len(s) : s[i] = t[i]
  PROVE  s = t
OBVIOUS

LEMMA Joined ==
  ASSUME NEW E, NEW s \in Seq(E), NEW t \in Seq(E)
  PROVE  /\ s \o t \in Seq(E) /\ Len(s \o t) = Len(s) + Len(t) /\ Len(s) \in Nat /\ Len(t) \in Nat
         /\ \A i \in 1 .. Len(s) : (s \o t)[i] = s[i]
         /\ \A i \in 1 .. Len(t) : (s \o t)[Len(s) + i] = t[i]
BY ConcatProperties

LEMMA AsGivenPush ==
  ASSUME NEW s \in Seq(Polygon), NEW ys \in Seq(Polygon), \A i \in 1 .. Len(ys) : ys[i].n = 0
  PROVE  AsGiven(s \o ys) = AsGiven(s) \o ys
<1> DEFINE t == s \o ys
           a == AsGiven(s)
           b == AsGiven(t)
           c == a \o ys
<1>1. /\ t \in Seq(Polygon) /\ Len(t) = Len(s) + Len(ys) /\ Len(s) \in Nat /\ Len(ys) \in Nat
      /\ \A i \in 1 .. Len(s) : t[i] = s[i]
      /\ \A i \in 1 .. Len(ys) : t[Len(s) + i] = ys[i]
  BY Joined
<1>2. a \in Seq(Polygon) /\ Len(a) = Len(s) /\ \A i \in 1 .. Len(s) : a[i] = Cleared(s[i])
  BY AsGivenIs
<1> HIDE DEF t, a
<1>3. b \in Seq(Polygon) /\ Len(b) = Len(t) /\ \A i \in 1 .. Len(t) : b[i] = Cleared(t[i])
  BY <1>1, AsGivenIs
<1>4. /\ c \in Seq(Polygon) /\ Len(c) = Len(a) + Len(ys)
      /\ \A i \in 1 .. Len(a) : c[i] = a[i]
      /\ \A i \in 1 .. Len(ys) : c[Len(a) + i] = ys[i]
  <2>1. a \in Seq(Polygon) /\ ys \in Seq(Polygon)
    BY <1>2
  <2> HIDE DEF b
  <2> QED
    BY ONLY <2>1, Joined
<1>5. \A i \in 1 .. Len(ys) : Cleared(ys[i]) = ys[i]
  <2> SUFFICES ASSUME NEW i \in 1 .. Len(ys) PROVE Cleared(ys[i]) = ys[i]
    OBVIOUS
  <2>1. ys[i].n = 0
    OBVIOUS
  <2> QED
    BY <2>1 DEF Cleared
<1> HIDE DEF b, c
<1>6. ASSUME NEW i \in 1 .. Len(b) PROVE b[i] = c[i]
  <2>1. CASE i <= Len(s)
    <3>1. i \in 1 .. Len(s) /\ i \in 1 .. Len(a) /\ i \in 1 .. Len(t)
      BY <1>1, <1>2, <1>3, <2>1
    <3> QED
      BY <1>1, <1>2, <1>3, <1>4, <3>1
  <2>2. CASE i > Len(s)
    <3> DEFINE j == i - Len(s)
    <3>1. j \in 1 .. Len(ys) /\ i = Len(s) + j /\ i \in 1 .. Len(t)
      BY <1>1, <1>3, <2>2
    <3> HIDE DEF j
    <3>2. b[i] = Cleared(t[i]) /\ t[i] = ys[j] /\ c[i] = ys[j]
      BY <1>1, <1>2, <1>3, <1>4, <3>1
    <3> QED
      BY <1>5, <3>1, <3>2
  <2> QED
    BY <1>1, <1>3, <2>1, <2>2
<1>7. Len(b) = Len(c)
  BY <1>1, <1>2, <1>3, <1>4
<1>8. b = c
  BY <1>3, <1>4, <1>6, <1>7, SameEntries
<1> QED
  BY <1>8 DEF b, c, t, a

LEMMA AsGivenOver ==
  ASSUME NEW s \in Seq(Polygon), NEW start \in Int, NEW xs \in Seq(Nat), NEW f \in {"n", "tc"},
         start >= 0
  PROVE  AsGiven(Over(s, start, xs, f)) = Over(AsGiven(s), start, xs, f)
<1> DEFINE m == Len(s)
           n == IF m < start + Len(xs) THEN m - start ELSE Len(xs)
           w(i) == i \in start + 1 .. start + n
           a == AsGiven(s)
           b == Over(s, start, xs, f)
           c == Over(a, start, xs, f)
<1>1. m \in Nat /\ DOMAIN s = 1 .. m /\ n \in Int /\ n <= Len(xs) /\ Len(xs) \in Nat
  OBVIOUS
<1>2. /\ a \in Seq(Polygon) /\ Len(a) = m /\ DOMAIN a = 1 .. m
      /\ \A i \in 1 .. m : a[i] = Cleared(s[i])
  BY AsGivenIs
<1>3. b = [i \in 1 .. m |-> IF w(i) THEN [s[i] EXCEPT ![f] = xs[i - start]] ELSE s[i]]
  BY <1>1 DEF Over
<1> HIDE DEF a
<1>4. c = [i \in 1 .. m |-> IF w(i) THEN [a[i] EXCEPT ![f] = xs[i - start]] ELSE a[i]]
  BY <1>1, <1>2 DEF Over
<1>5. Takes(Polygon, Int, f)
  BY FieldsKept DEF Takes
<1>6. b \in Seq(Polygon) /\ Len(b) = m
  <2>1. start \in Nat /\ xs \in Seq(Int)
    OBVIOUS
  <2> QED
    BY <1>5, <2>1, OverKeeps
<1>7. AsGiven(b) = [i \in 1 .. m |-> Cleared(b[i])]
  <2> HIDE DEF b
  <2> QED
    BY <1>6, AsGivenIs
<1>8. ASSUME NEW i \in 1 .. m PROVE Cleared(b[i]) = c[i]
  <2>1. s[i] \in Polygon /\ a[i] = Cleared(s[i])
    BY <1>1, <1>2
  <2>2. CASE w(i)
    <3> DEFINE x == xs[i - start]
    <3>1. x \in Nat
      BY <1>1, <2>2
    <3>2. b[i] = [s[i] EXCEPT ![f] = x] /\ c[i] = [a[i] EXCEPT ![f] = x]
      BY <1>3, <1>4, <2>2
    <3> HIDE DEF x, b, c
    <3>3. Cleared([s[i] EXCEPT ![f] = x]) = [Cleared(s[i]) EXCEPT ![f] = x]
      <4>1. CASE f = "n"
        BY <2>1, <3>1, <4>1, ClearedEntry
      <4>2. CASE f = "tc"
        BY <2>1, <3>1, <4>2, ClearedEntry
      <4> QED
        BY <4>1, <4>2
    <3> QED
      BY <2>1, <3>2, <3>3
  <2>3. CASE ~w(i)
    BY <1>3, <1>4, <2>1, <2>3
  <2> QED
    BY <2>2, <2>3
<1>9. c = [i \in 1 .. m |-> c[i]]
  BY <1>4
<1> HIDE DEF b, c
<1> QED
  BY <1>7, <1>8, <1>9 DEF b, c, a

LEMMA AsGivenOverLast ==
  ASSUME NEW s \in Seq(Polygon), NEW xs \in Seq(Nat), NEW f \in {"n", "tc"}
  PROVE  AsGiven(OverLast(s, xs, f)) = OverLast(AsGiven(s), xs, f)
<1> DEFINE i == Len(s) - (IF Len(s) < Len(xs) THEN Len(s) ELSE Len(xs))
<1>1. i \in Int /\ i >= 0
  OBVIOUS
<1>2. OverLast(s, xs, f) = Over(s, i, xs, f)
  BY DEF OverLast
<1>3. Len(AsGiven(s)) = Len(s)
  BY AsGivenIs
<1>4. OverLast(AsGiven(s), xs, f) = Over(AsGiven(s), i, xs, f)
  BY <1>3 DEF OverLast
<1> HIDE DEF i
<1> QED
  BY <1>1, <1>2, <1>4, AsGivenOver

LEMMA AsGivenCut ==
  ASSUME NEW s \in Seq(Polygon), NEW n \in Nat
  PROVE  AsGiven(Cut(s, n)) = Cut(AsGiven(s), n)
<1> DEFINE a == AsGiven(s)
           m == Len(s)
<1>1. a \in Seq(Polygon) /\ Len(a) = m /\ m \in Nat /\ \A i \in 1 .. m : a[i] = Cleared(s[i])
  BY AsGivenIs
<1> HIDE DEF a
<1>2. CASE n >= m
  <2>1. AsGiven(<<>>) = <<>>
    BY DEF AsGiven
  <2> QED
    BY <1>1, <1>2, <2>1 DEF Cut, a
<1>3. CASE n < m
  <2> DEFINE r == m - n
             b == SubSeq(s, 1, r)
             c == SubSeq(a, 1, r)
  <2>1. r \in Nat /\ r <= m
    BY <1>1, <1>3
  <2>2. Cut(s, n) = b /\ Cut(a, n) = c
    BY <1>1, <1>3 DEF Cut
  <2> HIDE DEF r
  <2>3. /\ b \in Seq(Polygon) /\ Len(b) = r /\ \A i \in 1 .. r : b[i] = s[i]
        /\ c \in Seq(Polygon) /\ Len(c) = r /\ \A i \in 1 .. r : c[i] = a[i]
    <3>1. \A i \in 1 .. r : s[i] \in Polygon /\ a[i] \in Polygon
      BY <1>1, <2>1
    <3> QED
      BY <1>1, <2>1, <3>1, SubSeqProperties
  <2> HIDE DEF b, c
  <2>4. AsGiven(b) \in Seq(Polygon) /\ Len(AsGiven(b)) = r /\ \A i \in 1 .. r : AsGiven(b)[i] = Cleared(b[i])
    BY <2>3, AsGivenIs
  <2>5. \A i \in 1 .. r : AsGiven(b)[i] = c[i]
    BY <1>1, <2>1, <2>3, <2>4
  <2>6. AsGiven(b) = c
    BY <2>3, <2>4, <2>5, SameEntries
  <2> QED
    BY <2>2, <2>6 DEF a
<1> QED
  BY <1>1, <1>2, <1>3

(* What a packet leaves of a stack has the entries it had, or was given.   *)
LEMMA ShortenedKeeps ==
  ASSUME NEW E, NEW k, NEW s \in Seq(E), NEW n \in Nat
  PROVE  Shortened(k, s, n) \in Seq(E)
<1> DEFINE t == s \o s
<1>1. Len(s) \in Nat /\ <<>> \in Seq(E)
  OBVIOUS
<1>2. t \in Seq(E) /\ Len(t) = Len(s) + Len(s)
  BY Appended
<1> HIDE DEF t
<1>3. CASE n >= Len(s)
  BY <1>1, <1>3 DEF Shortened, Cut
<1>4. CASE n < Len(s) /\ k # "tex"
  <2> DEFINE r == Len(s) - n
  <2>1. r \in Nat /\ r <= Len(s)
    BY <1>1, <1>4
  <2>2. Shortened(k, s, n) = SubSeq(s, 1, r)
    BY <1>1, <1>4 DEF Shortened, Cut
  <2> HIDE DEF r
  <2> QED
    BY <2>1, <2>2, Front
<1>5. CASE n < Len(s) /\ k = "tex"
  <2>1. n <= Len(t)
    BY <1>1, <1>2, <1>5
  <2>2. SubSeq(t, 1, n) \in Seq(E)
    BY <1>2, <2>1, Front
  <2>3. Shortened(k, s, n) = IF n > 0 THEN SubSeq(t, 1, n) ELSE s
    BY <1>1, <1>5 DEF Shortened, t
  <2> QED
    BY <2>2, <2>3
<1> QED
  BY <1>1, <1>3, <1>4, <1>5

LEMMA CarryObject ==
  ASSUME NEW o \in Object, NEW p \in Fit
  PROVE  Carry(o, p) \in Object
<1>0. p \in Packets
  BY DEF Fit
<1>1. CASE p.op \in PushOps
  <2>1. PICK k \in Kinds : p.op = PushOf[k]
    BY <1>1, OpsApart
  <2>2. CASE p.xs = <<>>
    BY <1>1, <2>2 DEF Carry, PushIn, PushOps, PepOps, LoadOps, DelOps
  <2>3. CASE p.xs # <<>>
    BY <1>0, <2>1, <2>3, PushCarry DEF Resized
  <2> QED
    BY <2>2, <2>3
<1>2. CASE p.op \in PepOps
  BY <1>0, <1>2, PepCarry DEF Kept, Resized
<1>3. CASE p.op \in LoadOps
  BY <1>0, <1>3, LoadCarry DEF Kept, Resized
<1>4. CASE p.op \in FlagOps
  BY <1>0, <1>4, FlagCarry
<1>5. CASE p.op \in DelOps
  <2>1. PICK k \in Kinds : p.op = DelOf[k]
    BY <1>5, OpsApart
  <2>2. /\ o[k] \in Seq(EntryOf[k]) /\ p.at \in Nat
        /\ Carry(o, p) = [o EXCEPT ![k] = Shortened(k, o[k], Width(p.at))]
    BY <1>0, <2>1, DelForm
  <2>3. Width(p.at) = p.at
    BY <1>5 DEF Fit
  <2> DEFINE s == Shortened(k, o[k], p.at)
  <2>4. s \in Seq(EntryOf[k])
    BY <2>2, ShortenedKeeps
  <2> HIDE DEF s
  <2>5. Carry(o, p) = [o EXCEPT ![k] = s]
    BY <2>2, <2>3 DEF s
  <2>6. Resized(o, [o EXCEPT ![k] = s], k, Len(s))
    BY <2>4, NewStack
  <2> QED
    BY <2>5, <2>6 DEF Resized
<1> QED
  BY <1>0, <1>1, <1>2, <1>3, <1>4, <1>5, OpsElse

LEMMA OtherStack ==
  ASSUME NEW o \in Object, NEW k \in Kinds, NEW j \in Kinds, NEW s
  PROVE  [o EXCEPT ![k] = s][j] = IF j = k THEN s ELSE o[j]
BY DEF Object, Kinds

LEMMA PlainsAre ==
  ASSUME NEW k \in {"vertex", "tex"}, NEW xs, NEW E, xs \in Seq(E)
  PROVE  Plains(k, xs) = xs
<1>1. Plains(k, xs) = [i \in DOMAIN xs |-> xs[i]]
  BY DEF Plains, Plain
<1> QED
  BY <1>1

LEMMA CarryBegun ==
  ASSUME NEW o \in Begun, NEW p \in Fit
  PROVE  Carry(o, p) \in Begun
<1>0. p \in Packets /\ o \in Object /\ o.vertex \in Seq(Point) /\ "vertex" \in Kinds
  BY DEF Fit, Begun, Kinds
<1>1. Carry(o, p) \in Object
  BY <1>0, CarryObject
<1> SUFFICES Carry(o, p)["vertex"] \in Seq(Point)
  BY <1>1 DEF Begun
<1>2. CASE p.op \in PushOps
  <2>1. PICK k \in Kinds : p.op = PushOf[k]
    BY <1>2, OpsApart
  <2>2. CASE p.xs = <<>>
    <3>1. Carry(o, p) = o
      BY <1>2, <2>2 DEF Carry, PushIn, PushOps, PepOps, LoadOps, DelOps
    <3> QED
      BY <1>0, <3>1
  <2>3. CASE p.xs # <<>>
    <3> DEFINE s == o[k] \o Plains(k, p.xs)
    <3>1. Carry(o, p) = [o EXCEPT ![k] = s]
      BY <1>0, <2>1, <2>3, PushForm
    <3>2. CASE k = "vertex"
      <4>1. p.xs \in Seq(Point)
        BY <2>1, <3>2 DEF Fit, PushOf
      <4>2. Plains(k, p.xs) = p.xs
        BY <3>2, <4>1, PlainsAre
      <4>3. s \in Seq(Point)
        BY <1>0, <3>2, <4>1, <4>2, Appended
      <4> HIDE DEF s
      <4> QED
        BY <1>0, <3>1, <3>2, <4>3, OtherStack
    <3>3. CASE k # "vertex"
      <4> HIDE DEF s
      <4> QED
        BY <1>0, <3>1, <3>3, OtherStack
    <3> QED
      BY <3>2, <3>3
  <2> QED
    BY <2>2, <2>3
<1>3. CASE p.op \in PepOps /\ p.op # "PEP_LINE"
  <2> DEFINE k == Gives[p.op][1]
             f == Gives[p.op][2]
             s == OverLast(o[k], p.xs, f)
  <2>1. Carry(o, p) = [o EXCEPT ![k] = s] /\ k \in Kinds
    <3>1. Carry(o, p) = [o EXCEPT ![k] = s] /\ <<k, f>> \in Fields
      BY <1>0, <1>3, PepForm
    <3> HIDE DEF k, f, s
    <3> QED
      BY <3>1, FieldsOf
  <2>2. CASE k = "vertex"
    <3>1. f = "id"
      BY <1>3, <2>2 DEF Gives, PepOps
    <3>2. p.xs \in Seq(Nat)
      BY <1>3 DEF Fit, ValueOps
    <3>3. Takes(Point, Nat, "id")
      BY DEF Takes, Point
    <3> DEFINE v == o.vertex
               xs == p.xs
    <3>4. v \in Seq(Point) /\ xs \in Seq(Nat) /\ Len(v) \in Nat /\ Len(xs) \in Nat
      BY <1>0, <3>2
    <3> HIDE DEF v, xs
    <3>5. PICK i \in Nat : OverLast(v, xs, "id") = Over(v, i, xs, "id")
      BY <3>4, LastFrom
    <3>6. Over(v, i, xs, "id") \in Seq(Point)
      BY <3>3, <3>4, OverKeeps
    <3>7. s \in Seq(Point)
      BY <2>2, <3>1, <3>5, <3>6 DEF v, xs
    <3> HIDE DEF s, k
    <3> QED
      BY <1>0, <2>1, <2>2, <3>7, OtherStack
  <2>3. CASE k # "vertex"
    <3> HIDE DEF s, k
    <3> QED
      BY <1>0, <2>1, <2>3, OtherStack
  <2> QED
    BY <2>2, <2>3
<1>4. CASE p.op = "PEP_LINE"
  <2> DEFINE s == Relined(o.line, p.xs)
  <2>1. Carry(o, p) = [o EXCEPT !["line"] = s] /\ "line" \in Kinds
    BY <1>0, <1>4, LineForm DEF Kinds
  <2> HIDE DEF s
  <2> QED
    BY <1>0, <2>1, OtherStack
<1>5. CASE p.op \in LoadOps
  <2>1. CASE p.xs = <<>>
    <3>1. Carry(o, p) = o
      BY <1>5, <2>1 DEF Carry, LoadIn, PushOps, PepOps, LoadOps, DelOps
    <3> QED
      BY <1>0, <3>1
  <2>2. CASE p.xs # <<>>
    <3> DEFINE k == Gives[p.op][1]
               f == Gives[p.op][2]
               s == Over(o[k], p.at, p.xs, f)
    <3>1. Carry(o, p) = [o EXCEPT ![k] = s]
      BY <1>0, <1>5, <2>2, LoadForm
    <3>2. k \in Kinds \ {"vertex"}
      BY <1>5 DEF Gives, LoadOps, Kinds
    <3> HIDE DEF k, f, s
    <3> QED
      BY <1>0, <3>1, <3>2, OtherStack
  <2> QED
    BY <2>1, <2>2
<1>6. CASE p.op \in FlagOps
  BY <1>0, <1>6, FlagCarry
<1>7. CASE p.op \in DelOps
  <2>1. PICK k \in Kinds : p.op = DelOf[k]
    BY <1>7, OpsApart
  <2>2. p.at \in Nat /\ Width(p.at) = p.at
    BY <1>0, <1>7, <2>1, DelForm DEF Fit
  <2> DEFINE s == Shortened(k, o[k], p.at)
  <2>3. Carry(o, p) = [o EXCEPT ![k] = s]
    BY <1>0, <2>1, <2>2, DelForm
  <2>4. k = "vertex" => s \in Seq(Point)
    BY <1>0, <2>2, ShortenedKeeps
  <2> HIDE DEF s
  <2> QED
    BY <1>0, <2>3, <2>4, OtherStack
<1> QED
  BY <1>0, <1>2, <1>3, <1>4, <1>5, <1>6, <1>7, OpsElse

(* A packet does the same to the object and to what the program gave of it. *)
LEMMA UncomputedCarry ==
  ASSUME NEW o \in Object, NEW p \in Fit
  PROVE  Uncomputed(Carry(o, p)) = Carry(Uncomputed(o), p)
<1> DEFINE u == Uncomputed(o)
<1>0. p \in Packets /\ u \in Object /\ o.poly \in Seq(Polygon) /\ u.poly = AsGiven(o.poly)
  BY UncomputedIs DEF Fit, Object
<1>00. \A k \in Kinds \ {"poly"} : u[k] = o[k]
  BY UncomputedIs
<1>000. ASSUME NEW k \in Kinds, NEW s, NEW t, Carry(o, p) = [o EXCEPT ![k] = s],
               Carry(u, p) = [u EXCEPT ![k] = t], t = IF k = "poly" THEN AsGiven(s) ELSE s
        PROVE  Uncomputed(Carry(o, p)) = Carry(u, p)
  <2>1. Uncomputed([o EXCEPT ![k] = s]) = [u EXCEPT ![k] = IF k = "poly" THEN AsGiven(s) ELSE s]
    BY UncomputedWith
  <2> HIDE DEF u
  <2> QED
    BY <1>000, <2>1
<1> HIDE DEF u
<1>1. SUFFICES Uncomputed(Carry(o, p)) = Carry(u, p)
  BY DEF u
<1>2. CASE p.op \in PushOps
  <2>1. PICK k \in Kinds : p.op = PushOf[k]
    BY <1>2, OpsApart
  <2>2. CASE p.xs = <<>>
    BY <1>2, <2>2 DEF Carry, PushIn, PushOps, PepOps, LoadOps, DelOps, u
  <2>3. CASE p.xs # <<>>
    <3> DEFINE ys == Plains(k, p.xs)
    <3>1. Carry(o, p) = [o EXCEPT ![k] = o[k] \o ys]
      BY <1>0, <2>1, <2>3, PushForm
    <3>2. Carry(u, p) = [u EXCEPT ![k] = u[k] \o ys]
      BY <1>0, <2>1, <2>3, PushForm
    <3>3. CASE k = "poly"
      <4>1. p.xs \in Seq(Polygon) /\ ys \in Seq(Polygon)
        BY <1>0, <2>1, <2>3, <3>3, PushForm DEF EntryOf
      <4>2. \A i \in 1 .. Len(ys) : ys[i].n = 0
        <5>1. ys = [i \in DOMAIN p.xs |-> [p.xs[i] EXCEPT !["n"] = 0, !["tc"] = 0]]
          BY <3>3 DEF Plains, Plain
        <5> DEFINE xs == p.xs
        <5>2. DOMAIN xs = 1 .. Len(xs) /\ Len(xs) \in Nat /\ \A i \in 1 .. Len(xs) : xs[i] \in Polygon
          BY <4>1
        <5>3. \A e \in Polygon : [e EXCEPT !["n"] = 0, !["tc"] = 0].n = 0
          BY DEF Polygon
        <5>4. Len(ys) = Len(xs)
          BY <5>1, <5>2
        <5> QED
          BY <5>1, <5>2, <5>3, <5>4
      <4> HIDE DEF ys
      <4>3. AsGiven(o.poly \o ys) = AsGiven(o.poly) \o ys
        BY <1>0, <4>1, <4>2, AsGivenPush
      <4> DEFINE s == o[k] \o ys
                 t == u[k] \o ys
      <4>7. Carry(o, p) = [o EXCEPT ![k] = s] /\ Carry(u, p) = [u EXCEPT ![k] = t]
        BY <3>1, <3>2
      <4>8. t = IF k = "poly" THEN AsGiven(s) ELSE s
        BY <1>0, <3>3, <4>3
      <4> HIDE DEF s, t
      <4> QED
        BY <1>000, <4>7, <4>8
    <3>4. CASE k # "poly"
      <4> HIDE DEF ys
      <4> DEFINE s == o[k] \o ys
                 t == u[k] \o ys
      <4>7. Carry(o, p) = [o EXCEPT ![k] = s] /\ Carry(u, p) = [u EXCEPT ![k] = t]
        BY <3>1, <3>2
      <4>8. t = IF k = "poly" THEN AsGiven(s) ELSE s
        BY <1>00, <3>4
      <4> HIDE DEF s, t
      <4> QED
        BY <1>000, <4>7, <4>8
    <3> QED
      BY <3>3, <3>4
  <2> QED
    BY <2>2, <2>3
<1>3. CASE p.op \in PepOps /\ p.op # "PEP_LINE"
  <2> DEFINE k == Gives[p.op][1]
             f == Gives[p.op][2]
             xs == p.xs
  <2>1. /\ Carry(o, p) = [o EXCEPT ![k] = OverLast(o[k], xs, f)]
        /\ Carry(u, p) = [u EXCEPT ![k] = OverLast(u[k], xs, f)]
        /\ <<k, f>> \in Fields
    BY <1>0, <1>3, PepForm
  <2>2. xs \in Seq(Nat)
    BY <1>3 DEF Fit, ValueOps
  <2> HIDE DEF k, f, xs
  <2>3. k \in Kinds /\ (k = "poly" => f \in {"n", "tc"})
    BY <2>1, FieldsOf DEF Fields
  <2>4. CASE k = "poly"
    <3>1. AsGiven(OverLast(o.poly, xs, f)) = OverLast(AsGiven(o.poly), xs, f)
      BY <1>0, <2>2, <2>3, <2>4, AsGivenOverLast
    <3> DEFINE s == OverLast(o[k], xs, f)
               t == OverLast(u[k], xs, f)
    <3>7. Carry(o, p) = [o EXCEPT ![k] = s] /\ Carry(u, p) = [u EXCEPT ![k] = t]
      BY <2>1
    <3>8. t = IF k = "poly" THEN AsGiven(s) ELSE s
      BY <1>0, <2>4, <3>1
    <3> HIDE DEF s, t
    <3> QED
      BY <1>000, <3>7, <3>8, <2>3
  <2>5. CASE k # "poly"
    <3> DEFINE s == OverLast(o[k], xs, f)
               t == OverLast(u[k], xs, f)
    <3>7. Carry(o, p) = [o EXCEPT ![k] = s] /\ Carry(u, p) = [u EXCEPT ![k] = t]
      BY <2>1
    <3>8. t = IF k = "poly" THEN AsGiven(s) ELSE s
      BY <1>00, <2>3, <2>5
    <3> HIDE DEF s, t
    <3> QED
      BY <1>000, <3>7, <3>8, <2>3
  <2> QED
    BY <2>4, <2>5
<1>4. CASE p.op = "PEP_LINE"
  <2>1. /\ Carry(o, p) = [o EXCEPT !["line"] = Relined(o.line, p.xs)]
        /\ Carry(u, p) = [u EXCEPT !["line"] = Relined(u.line, p.xs)]
    BY <1>0, <1>4, LineForm
  <2>2. "line" \in Kinds \ {"poly"}
    BY DEF Kinds
  <2>3. u.line = o.line
    BY <1>00, <2>2
  <2> DEFINE s == Relined(o.line, p.xs)
             t == Relined(u.line, p.xs)
  <2>7. Carry(o, p) = [o EXCEPT !["line"] = s] /\ Carry(u, p) = [u EXCEPT !["line"] = t]
    BY <2>1
  <2>8. t = IF "line" = "poly" THEN AsGiven(s) ELSE s
    BY <2>2, <2>3
  <2> HIDE DEF s, t
  <2> QED
    BY <1>000, <2>7, <2>8, <2>2
<1>5. CASE p.op \in LoadOps
  <2>1. CASE p.xs = <<>>
    BY <1>5, <2>1 DEF Carry, LoadIn, PushOps, PepOps, LoadOps, DelOps, u
  <2>2. CASE p.xs # <<>>
    <3> DEFINE k == Gives[p.op][1]
               f == Gives[p.op][2]
               xs == p.xs
               a == p.at
    <3>1. /\ Carry(o, p) = [o EXCEPT ![k] = Over(o[k], a, xs, f)]
          /\ Carry(u, p) = [u EXCEPT ![k] = Over(u[k], a, xs, f)]
          /\ <<k, f>> \in Fields /\ a \in Int /\ a >= 0
      BY <1>0, <1>5, <2>2, LoadForm
    <3>2. xs \in Seq(Nat)
      BY <1>5 DEF Fit, ValueOps
    <3> HIDE DEF k, f, xs, a
    <3>3. k \in Kinds /\ (k = "poly" => f \in {"n", "tc"})
      BY <3>1, FieldsOf DEF Fields
    <3>4. CASE k = "poly"
      <4>1. AsGiven(Over(o.poly, a, xs, f)) = Over(AsGiven(o.poly), a, xs, f)
        BY <1>0, <3>1, <3>2, <3>3, <3>4, AsGivenOver
      <4> DEFINE s == Over(o[k], a, xs, f)
                 t == Over(u[k], a, xs, f)
      <4>7. Carry(o, p) = [o EXCEPT ![k] = s] /\ Carry(u, p) = [u EXCEPT ![k] = t]
        BY <3>1
      <4>8. t = IF k = "poly" THEN AsGiven(s) ELSE s
        BY <1>0, <3>4, <4>1
      <4> HIDE DEF s, t
      <4> QED
        BY <1>000, <4>7, <4>8, <3>3
    <3>5. CASE k # "poly"
      <4> DEFINE s == Over(o[k], a, xs, f)
                 t == Over(u[k], a, xs, f)
      <4>7. Carry(o, p) = [o EXCEPT ![k] = s] /\ Carry(u, p) = [u EXCEPT ![k] = t]
        BY <3>1
      <4>8. t = IF k = "poly" THEN AsGiven(s) ELSE s
        BY <1>00, <3>3, <3>5
      <4> HIDE DEF s, t
      <4> QED
        BY <1>000, <4>7, <4>8, <3>3
    <3> QED
      BY <3>4, <3>5
  <2> QED
    BY <2>1, <2>2
<1>6. CASE p.op \in FlagOps
  <2> DEFINE z(q) == IF p.op = "FLAGS_ON" THEN q.flags \cup {p.xs[1]} ELSE q.flags \ {p.xs[1]}
  <2>1. \A q : Carry(q, p) = [q EXCEPT !.flags = z(q)]
    BY <1>6 DEF Carry, FlagOps, PushOps, PepOps, LoadOps, DelOps, obj_toggle_flags
  <2>2. u.flags = o.flags /\ u = [o EXCEPT !.poly = AsGiven(o.poly)]
    BY DEF u, Uncomputed, Object
  <2>3. z(u) = z(o)
    BY <2>2
  <2> DEFINE y == z(o)
             s == AsGiven(o.poly)
  <2>4. Carry(o, p) = [o EXCEPT !.flags = y] /\ Carry(u, p) = [u EXCEPT !.flags = y]
    BY <2>1, <2>3
  <2> HIDE DEF z, y, s
  <2>5. [o EXCEPT !.flags = y].poly = o.poly
    BY DEF Object
  <2>6. Uncomputed([o EXCEPT !.flags = y]) = [[o EXCEPT !.flags = y] EXCEPT !.poly = s]
    BY <2>5 DEF Uncomputed, s
  <2>7. [[o EXCEPT !.flags = y] EXCEPT !.poly = s] = [[o EXCEPT !.poly = s] EXCEPT !.flags = y]
    BY DEF Object
  <2> QED
    BY <2>2, <2>4, <2>6, <2>7 DEF s
<1>7. CASE p.op \in DelOps
  <2>1. PICK k \in Kinds : p.op = DelOf[k]
    BY <1>7, OpsApart
  <2> DEFINE n == p.at
  <2>2. n \in Nat /\ Width(p.at) = n
    BY <1>0, <1>7, <2>1, DelForm DEF Fit
  <2>3. /\ Carry(o, p) = [o EXCEPT ![k] = Shortened(k, o[k], n)]
        /\ Carry(u, p) = [u EXCEPT ![k] = Shortened(k, u[k], n)]
    BY <1>0, <2>1, <2>2, DelForm
  <2> HIDE DEF n
  <2>4. CASE k = "poly"
    <3>1. \A s : Shortened(k, s, n) = Cut(s, n)
      BY <2>4 DEF Shortened
    <3>2. AsGiven(Cut(o.poly, n)) = Cut(AsGiven(o.poly), n)
      BY <1>0, <2>2, AsGivenCut
    <3> DEFINE s == Shortened(k, o[k], n)
               t == Shortened(k, u[k], n)
    <3>7. Carry(o, p) = [o EXCEPT ![k] = s] /\ Carry(u, p) = [u EXCEPT ![k] = t]
      BY <2>3
    <3>8. t = IF k = "poly" THEN AsGiven(s) ELSE s
      BY <1>0, <2>4, <3>1, <3>2
    <3> HIDE DEF s, t
    <3> QED
      BY <1>000, <3>7, <3>8
  <2>5. CASE k # "poly"
    <3> DEFINE s == Shortened(k, o[k], n)
               t == Shortened(k, u[k], n)
    <3>7. Carry(o, p) = [o EXCEPT ![k] = s] /\ Carry(u, p) = [u EXCEPT ![k] = t]
      BY <2>3
    <3>8. t = IF k = "poly" THEN AsGiven(s) ELSE s
      BY <1>00, <2>5
    <3> HIDE DEF s, t
    <3> QED
      BY <1>000, <3>7, <3>8
  <2> QED
    BY <2>4, <2>5
<1> QED
  BY <1>0, <1>2, <1>3, <1>4, <1>5, <1>6, <1>7, OpsElse

(* ... and so do all under way.                                            *)
LEMMA UncomputedCarried ==
  ASSUME NEW o \in Object, NEW ps \in Seq(Fit)
  PROVE  /\ Carried(o, ps) \in Object
         /\ Uncomputed(Carried(o, ps)) = Carried(Uncomputed(o), ps)
<1> DEFINE n == Len(ps)
           u == Uncomputed(o)
<1>1. n \in Nat /\ u \in Object /\ \A i \in 1 .. n : ps[i] \in Fit
  BY UncomputedIs
<1>2. PICK f : Run(o, ps, n, f) /\ Carried(o, ps) = f[n]
  BY <1>1, CarriedRuns
<1>3. PICK g : Run(u, ps, n, g) /\ Carried(u, ps) = g[n]
  BY <1>1, CarriedRuns
<1> HIDE DEF u, n
<1>4. /\ f[0] = o /\ \A i \in 1 .. n : f[i] = Carry(f[i - 1], ps[i])
      /\ g[0] = u /\ \A i \in 1 .. n : g[i] = Carry(g[i - 1], ps[i])
  BY <1>1, <1>2, <1>3, RunSteps
<1> DEFINE T == {i \in Nat : i <= n => f[i] \in Object /\ Uncomputed(f[i]) = g[i]}
<1>5. 0 \in T
  BY <1>4 DEF u
<1>6. ASSUME NEW i \in Nat, i \in T PROVE i + 1 \in T
  <2> SUFFICES ASSUME i + 1 <= n
               PROVE  f[i + 1] \in Object /\ Uncomputed(f[i + 1]) = g[i + 1]
    OBVIOUS
  <2>1. i + 1 \in 1 .. n /\ (i + 1) - 1 = i /\ i <= n
    BY <1>1
  <2>2. f[i] \in Object /\ Uncomputed(f[i]) = g[i]
    BY <1>6, <2>1
  <2>3. f[i + 1] = Carry(f[i], ps[i + 1]) /\ g[i + 1] = Carry(g[i], ps[i + 1]) /\ ps[i + 1] \in Fit
    BY <1>1, <1>4, <2>1
  <2> QED
    BY <2>2, <2>3, CarryObject, UncomputedCarry
<1>7. Nat \subseteq T
  <2> HIDE DEF T
  <2> QED
    BY <1>5, <1>6, SetInduction
<1>8. f[n] \in Object /\ Uncomputed(f[n]) = g[n]
  BY <1>1, <1>7
<1> QED
  BY <1>2, <1>3, <1>8 DEF u

-----------------------------------------------------------------------------
(* Stacks: what a program has asked for is there once all has arrived.  The *)
(* program counts what there is then, and what it sends fits its packets.   *)
StackInv == /\ obj \in Begun /\ chan \in Seq(Fit) /\ calls \in Nat
            /\ pushed \in [Kinds -> Nat]
            /\ \A k \in Kinds : pushed[k] = Len(Pending[k])

LEMMA PendingIs ==
  ASSUME obj \in Begun, chan \in Seq(Fit)
  PROVE  /\ Pending \in Object /\ Carried(obj, chan) \in Object
         /\ Pending = Carried(Uncomputed(obj), chan)
<1>1. obj \in Object
  BY DEF Begun
<1> DEFINE c == Carried(obj, chan)
<1>2. c \in Object /\ Uncomputed(c) = Carried(Uncomputed(obj), chan)
  BY <1>1, UncomputedCarried
<1> HIDE DEF c
<1>3. Uncomputed(c) \in Object
  BY <1>2, UncomputedIs
<1> QED
  BY <1>2, <1>3 DEF Pending, c

(* A request acts on what will be there.                                   *)
LEMMA Sends ==
  ASSUME StackInv, NEW ps \in Seq(Fit), chan' = chan \o ps, obj' = obj
  PROVE  obj' \in Begun /\ chan' \in Seq(Fit) /\ Pending' = Carried(Pending, ps)
<1> DEFINE c == Carried(obj, chan)
<1>1. obj \in Begun /\ chan \in Seq(Fit)
  BY DEF StackInv
<1>2. c \in Object
  BY <1>1, PendingIs
<1>3. Pending' = Uncomputed(Carried(obj, chan \o ps)) /\ Pending = Uncomputed(c)
  BY DEF Pending
<1>4. Carried(obj, chan \o ps) = Carried(c, ps)
  BY <1>1, CarriedMore
<1> HIDE DEF c
<1>5. Uncomputed(Carried(c, ps)) = Carried(Uncomputed(c), ps)
  BY <1>2, UncomputedCarried
<1>6. chan' \in Seq(Fit)
  BY <1>1, Appended
<1> QED
  BY <1>1, <1>3, <1>4, <1>5, <1>6

(* The server takes a packet: nothing has changed for the program.          *)
LEMMA TakesStutter ==
  ASSUME StackInv, ProtComIn
  PROVE  StackInv' /\ UNCHANGED <<Pending, pushed, calls>>
<1>1. obj \in Begun /\ chan \in Seq(Fit) /\ chan # <<>>
  BY DEF StackInv, ProtComIn
<1>2. obj' = Carry(obj, Head(chan)) /\ chan' = Tail(chan) /\ UNCHANGED <<pushed, calls>>
  BY DEF ProtComIn
<1>3. Head(chan) \in Fit /\ Tail(chan) \in Seq(Fit)
  BY <1>1
<1>4. obj' \in Begun
  BY <1>1, <1>2, <1>3, CarryBegun
<1>5. Carried(obj, chan) = Carried(obj', chan')
  BY <1>1, <1>2, CarriedFirst
<1>6. Pending' = Pending
  BY <1>5 DEF Pending
<1> QED
  BY <1>2, <1>3, <1>4, <1>6 DEF StackInv

(* A frame computes normals where none are given, negative ones.           *)
LEMMA NormalsUncomputed ==
  ASSUME NEW o \in Begun
  PROVE  CalcNormals(o) \in Begun /\ Uncomputed(CalcNormals(o)) = Uncomputed(o)
<1> DEFINE Reached(i) == (\A j \in 1 .. i - 1 : Drawable(o, o.poly[j])) /\ o.poly[i].v < Len(o.vertex)
           z(i) == IF Reached(i) THEN [o.poly[i] EXCEPT !.n = Normal(o, o.poly[i])] ELSE o.poly[i]
           m == Len(o.poly)
           s == [i \in 1 .. m |-> z(i)]
<1>1. /\ o \in Object /\ o.poly \in Seq(Polygon) /\ o.vertex \in Seq(Point)
      /\ DOMAIN o.poly = 1 .. m /\ m \in Nat
  BY DEF Begun, Object
<1>2. CalcNormals(o) = [o EXCEPT !.poly = s]
  BY <1>1 DEF CalcNormals
<1>3. CalcNormals(o) \in Object
  BY <1>1, NormalsTwice
<1>4. ASSUME NEW i \in 1 .. m
      PROVE  z(i) \in Polygon /\ Cleared(z(i)) = Cleared(o.poly[i])
  <2> DEFINE e == o.poly[i]
  <2>1. e \in Polygon
    BY <1>1
  <2>2. CASE Reached(i) /\ e.n = 0
    <3> DEFINE x == o.vertex[e.v + 1].id
    <3> DEFINE l == Len(o.vertex)
    <3>0. l \in Nat /\ e.v \in Nat /\ e.v < l
      <4>1. l \in Nat
        BY <1>1
      <4>2. e.v < l
        BY <2>2
      <4> HIDE DEF e
      <4>3. e.v \in Nat
        BY <2>1 DEF Polygon
      <4> QED
        BY <4>1, <4>2, <4>3
    <3> HIDE DEF l
    <3>1. e.v + 1 \in 1 .. l
      BY <3>0
    <3>2. o.vertex[e.v + 1] \in Point
      BY <1>1, <3>1 DEF l
    <3>3. x \in Nat
      BY <3>2 DEF Point
    <3>4. z(i) = [e EXCEPT !.n = -x]
      BY <2>2 DEF Normal
    <3> HIDE DEF x, e, z
    <3>5. /\ [e EXCEPT !.n = -x] \in Polygon /\ [e EXCEPT !.n = -x].n = -x
          /\ [[e EXCEPT !.n = -x] EXCEPT !.n = 0] = [e EXCEPT !.n = 0]
          /\ [e EXCEPT !.n = 0] = e
      <4>1. -x \in Int /\ e.n = 0
        BY <2>2, <3>3
      <4>2. ASSUME NEW y \in Int
            PROVE  /\ [e EXCEPT !.n = y] \in Polygon /\ [e EXCEPT !.n = y].n = y
                   /\ [[e EXCEPT !.n = y] EXCEPT !.n = 0] = [e EXCEPT !.n = 0]
        <5>1. [e EXCEPT !.n = y] \in Polygon
          BY <2>1 DEF Polygon
        <5>2. [e EXCEPT !.n = y].n = y
          BY <2>1 DEF Polygon
        <5>3. [[e EXCEPT !.n = y] EXCEPT !.n = 0] = [e EXCEPT !.n = 0]
          BY <2>1 DEF Polygon
        <5> QED
          BY <5>1, <5>2, <5>3
      <4>3. [e EXCEPT !.n = 0] = e
        BY <2>1, <4>1 DEF Polygon
      <4> QED
        BY <4>1, <4>2, <4>3
    <3>6. Cleared(e) = e
      BY <2>2 DEF Cleared
    <3>7. Cleared([e EXCEPT !.n = -x]) = e
      <4>1. CASE x = 0
        BY <2>2, <3>5, <4>1 DEF Cleared
      <4>2. CASE x # 0
        <5>1. -x < 0
          BY <3>3, <4>2
        <5> QED
          BY <3>5, <5>1 DEF Cleared
      <4> QED
        BY <4>1, <4>2
    <3> QED
      BY <3>4, <3>5, <3>6, <3>7 DEF e
  <2>3. CASE Reached(i) /\ e.n # 0
    <3>1. z(i) = [e EXCEPT !.n = e.n]
      BY <2>3 DEF Normal
    <3> HIDE DEF e, z
    <3>2. [e EXCEPT !.n = e.n] = e
      BY <2>1 DEF Polygon
    <3> QED
      BY <2>1, <3>1, <3>2 DEF e
  <2>4. CASE ~Reached(i)
    BY <2>1, <2>4
  <2> QED
    BY <2>2, <2>3, <2>4
<1> HIDE DEF z
<1>5. s \in Seq(Polygon) /\ Len(s) = m /\ \A i \in 1 .. m : s[i] = z(i)
  BY <1>1, <1>4
<1> HIDE DEF s
<1>6. AsGiven(s) = AsGiven(o.poly)
  <2>1. AsGiven(s) = [i \in 1 .. m |-> Cleared(s[i])]
    BY <1>5, AsGivenIs
  <2>2. AsGiven(o.poly) = [i \in 1 .. m |-> Cleared(o.poly[i])]
    BY <1>1, AsGivenIs
  <2> QED
    BY <1>4, <1>5, <2>1, <2>2
<1>7. CalcNormals(o).vertex = o.vertex
  BY <1>1, <1>2 DEF Object
<1>8. Uncomputed([o EXCEPT !.poly = s]) = Uncomputed(o)
  <2>1. [o EXCEPT !.poly = s].poly = s
    BY <1>1 DEF Object
  <2> DEFINE a == AsGiven(s)
  <2>2. Uncomputed([o EXCEPT !.poly = s]) = [[o EXCEPT !.poly = s] EXCEPT !.poly = a]
    BY <2>1 DEF Uncomputed
  <2>3. Uncomputed(o) = [o EXCEPT !.poly = a]
    BY <1>6 DEF Uncomputed
  <2> HIDE DEF a
  <2>4. [[o EXCEPT !.poly = s] EXCEPT !.poly = a] = [o EXCEPT !.poly = a]
    BY <1>1 DEF Object
  <2> QED
    BY <2>2, <2>3, <2>4
<1> QED
  BY <1>1, <1>2, <1>3, <1>7, <1>8 DEF Begun

LEMMA RenderStutters ==
  ASSUME StackInv, Render
  PROVE  StackInv' /\ UNCHANGED <<Pending, pushed, calls>>
<1>1. obj \in Begun /\ chan \in Seq(Fit)
  BY DEF StackInv
<1>2. obj' = CalcNormals(obj) /\ UNCHANGED <<chan, pushed, calls>>
  BY DEF Render
<1>3. obj' \in Begun /\ Uncomputed(obj') = Uncomputed(obj)
  BY <1>1, <1>2, NormalsUncomputed
<1>4. Pending = Carried(Uncomputed(obj), chan)
  BY <1>1, PendingIs
<1>5. Pending' = Carried(Uncomputed(obj'), chan)
  <2>1. obj' \in Object
    BY <1>3 DEF Begun
  <2>2. Uncomputed(Carried(obj', chan)) = Carried(Uncomputed(obj'), chan)
    BY <1>1, <2>1, UncomputedCarried
  <2>3. Pending' = Uncomputed(Carried(obj', chan))
    BY <1>2 DEF Pending
  <2> QED
    BY <2>2, <2>3
<1>6. Pending' = Pending
  BY <1>3, <1>4, <1>5
<1> QED
  BY <1>1, <1>2, <1>3, <1>6 DEF StackInv

(* The functions of the server, in terms of the stacks a program may rely on. *)
LEMMA OverGive ==
  ASSUME NEW s, NEW xs, NEW f, NEW start \in Nat, NEW m \in Nat, NEW n \in Nat,
         Len(s) = m, DOMAIN s = 1 .. m, Len(xs) = n, DOMAIN xs = 1 .. n
  PROVE  Over(s, start, xs, f) = S!Give(s, f, start, xs)
<1> DEFINE c == IF m < start + n THEN m - start ELSE n
<1>1. \A i \in 1 .. m : i \in start + 1 .. start + c <=> i - start \in 1 .. n
  OBVIOUS
<1>2. Over(s, start, xs, f) = [i \in 1 .. m |-> IF i \in start + 1 .. start + c
                                THEN [s[i] EXCEPT ![f] = xs[i - start]] ELSE s[i]]
  BY DEF Over
<1>3. S!Give(s, f, start, xs) = [i \in 1 .. m |-> IF i - start \in 1 .. n
                                  THEN [s[i] EXCEPT ![f] = xs[i - start]] ELSE s[i]]
  BY DEF S!Give
<1> HIDE DEF c
<1> QED
  BY <1>1, <1>2, <1>3

LEMMA OverLastGive ==
  ASSUME NEW s, NEW xs, NEW f, NEW m \in Nat, NEW n \in Nat,
         Len(s) = m, DOMAIN s = 1 .. m, Len(xs) = n, DOMAIN xs = 1 .. n
  PROVE  OverLast(s, xs, f) = S!Give(s, f, S!Last(s, n), xs)
<1> DEFINE a == m - (IF m < n THEN m ELSE n)
<1>1. a \in Nat /\ a = S!Last(s, n)
  BY DEF S!Last
<1>2. OverLast(s, xs, f) = Over(s, a, xs, f)
  BY DEF OverLast
<1> HIDE DEF a
<1>3. Over(s, a, xs, f) = S!Give(s, f, a, xs)
  BY <1>1, OverGive
<1> QED
  BY <1>1, <1>2, <1>3

(* Fewer entries.                                                          *)
LEMMA CutLast ==
  ASSUME NEW E, NEW s \in Seq(E), NEW n \in Nat
  PROVE  Cut(s, n) = SubSeq(s, 1, S!Last(s, n))
<1> DEFINE m == Len(s)
<1>1. m \in Nat
  OBVIOUS
<1>2. CASE n >= m
  <2>1. S!Last(s, n) = 0 /\ Cut(s, n) = <<>>
    BY <1>1, <1>2 DEF S!Last, Cut
  <2>2. SubSeq(s, 1, 0) = <<>>
    OBVIOUS
  <2> QED
    BY <2>1, <2>2
<1>3. CASE n < m
  BY <1>1, <1>3 DEF S!Last, Cut
<1> QED
  BY <1>1, <1>2, <1>3

(* Of a stack of textures as many are left as were to be removed: it comes  *)
(* to the same for a half of them.                                         *)
LEMMA HalfLast ==
  ASSUME NEW E, NEW s \in Seq(E), NEW n \in Nat \ {0}, 2 * n = Len(s)
  PROVE  Shortened("tex", s, n) = SubSeq(s, 1, S!Last(s, n))
<1> DEFINE t == s \o s
<1>1. n < Len(s) /\ Len(s) - n = n
  OBVIOUS
<1>2. /\ t \in Seq(E) /\ Len(t) = Len(s) + Len(s)
      /\ \A i \in 1 .. Len(s) : t[i] = s[i]
  BY Joined
<1>3. Shortened("tex", s, n) = SubSeq(t, 1, n) /\ S!Last(s, n) = n
  BY <1>1 DEF Shortened, S!Last
<1> HIDE DEF t
<1> DEFINE a == SubSeq(t, 1, n)
           b == SubSeq(s, 1, n)
<1>4. /\ a \in Seq(E) /\ Len(a) = n /\ \A i \in 1 .. n : a[i] = t[i]
      /\ b \in Seq(E) /\ Len(b) = n /\ \A i \in 1 .. n : b[i] = s[i]
  <2>1. Len(s) \in Nat /\ n <= Len(s) /\ n <= Len(t)
    BY <1>1, <1>2
  <2>2. \A i \in 1 .. n : s[i] \in E /\ t[i] \in E
    BY <1>2, <2>1
  <2> QED
    BY <1>2, <2>1, <2>2, SubSeqProperties
<1> HIDE DEF a, b
<1>5. \A i \in 1 .. n : i \in 1 .. Len(s)
  BY <1>1
<1>6. a = b
  BY <1>2, <1>4, <1>5, SameEntries
<1> QED
  BY <1>3, <1>6 DEF a, b

(* What is cut up is what it was put together again.                       *)
Joins(E, s, xs, a, b) ==
  /\ SubSeq(xs, a + 1, b) \in Seq(E)
  /\ (s \o SubSeq(xs, 1, a)) \o SubSeq(xs, a + 1, b) = s \o SubSeq(xs, 1, b)
LEMMA Grown ==
  ASSUME NEW E, NEW s \in Seq(E), NEW xs \in Seq(E), NEW a \in Nat, NEW b \in Nat,
         a <= b, b <= Len(xs)
  PROVE  Joins(E, s, xs, a, b)
<1> DEFINE n == Len(xs)
           u == SubSeq(xs, 1, a)
           v == SubSeq(xs, a + 1, b)
           w == SubSeq(xs, 1, b)
           su == s \o u
           l == su \o v
           r == s \o w
<1>1. n \in Nat /\ \A i \in 1 .. n : xs[i] \in E
  OBVIOUS
<1>2. u \in Seq(E) /\ Len(u) = a /\ \A i \in 1 .. a : u[i] = xs[i]
  BY <1>1, SubSeqProperties
<1>3. w \in Seq(E) /\ Len(w) = b /\ \A i \in 1 .. b : w[i] = xs[i]
  BY <1>1, SubSeqProperties
<1>4. v \in Seq(E) /\ Len(v) = b - a /\ \A i \in 1 .. b - a : v[i] = xs[a + i]
  <2>1. \A i \in a + 1 .. b : xs[i] \in E
    BY <1>1
  <2>2. /\ v \in Seq(E) /\ Len(v) = (IF a + 1 <= b THEN b - (a + 1) + 1 ELSE 0)
        /\ \A i \in 1 .. b - (a + 1) + 1 : v[i] = xs[(a + 1) + i - 1]
    BY <1>1, <2>1, SubSeqProperties
  <2>3. ASSUME NEW i \in 1 .. b - a PROVE v[i] = xs[a + i]
    <3>1. i \in 1 .. b - (a + 1) + 1 /\ (a + 1) + i - 1 = a + i
      OBVIOUS
    <3> HIDE DEF v
    <3> QED
      BY <2>2, <3>1
  <2> HIDE DEF v
  <2> QED
    BY <2>2, <2>3
<1> HIDE DEF u, v, w
<1>5. /\ su \in Seq(E) /\ Len(su) = Len(s) + a /\ Len(s) \in Nat
      /\ \A i \in 1 .. Len(s) : su[i] = s[i]
      /\ \A i \in 1 .. a : su[Len(s) + i] = u[i]
  <2>1. s \in Seq(E) /\ u \in Seq(E)
    BY <1>2
  <2>2. /\ su \in Seq(E) /\ Len(su) = Len(s) + Len(u) /\ Len(s) \in Nat
        /\ \A i \in 1 .. Len(s) : su[i] = s[i]
        /\ \A i \in 1 .. Len(u) : su[Len(s) + i] = u[i]
    BY ONLY <2>1, Joined
  <2> HIDE DEF su
  <2> QED
    BY <1>2, <2>2
<1>6. /\ r \in Seq(E) /\ Len(r) = Len(s) + b
      /\ \A i \in 1 .. Len(s) : r[i] = s[i]
      /\ \A i \in 1 .. b : r[Len(s) + i] = w[i]
  <2>1. s \in Seq(E) /\ w \in Seq(E)
    BY <1>3
  <2>2. /\ r \in Seq(E) /\ Len(r) = Len(s) + Len(w) /\ Len(s) \in Nat
        /\ \A i \in 1 .. Len(s) : r[i] = s[i]
        /\ \A i \in 1 .. Len(w) : r[Len(s) + i] = w[i]
    BY ONLY <2>1, Joined
  <2> HIDE DEF r
  <2> QED
    BY <1>3, <2>2
<1> HIDE DEF su, r
<1>7. /\ l \in Seq(E) /\ Len(l) = Len(su) + (b - a)
      /\ \A i \in 1 .. Len(su) : l[i] = su[i]
      /\ \A i \in 1 .. b - a : l[Len(su) + i] = v[i]
  <2>1. su \in Seq(E) /\ v \in Seq(E)
    BY <1>4, <1>5
  <2>2. /\ l \in Seq(E) /\ Len(l) = Len(su) + Len(v) /\ Len(su) \in Nat
        /\ \A i \in 1 .. Len(su) : l[i] = su[i]
        /\ \A i \in 1 .. Len(v) : l[Len(su) + i] = v[i]
    BY ONLY <2>1, Joined
  <2> HIDE DEF l
  <2> QED
    BY <1>4, <1>5, <2>2
<1> HIDE DEF l
<1>8. ASSUME NEW i \in 1 .. Len(l) PROVE l[i] = r[i]
  <2>1. CASE i <= Len(s)
    <3>1. i \in 1 .. Len(s) /\ i \in 1 .. Len(su)
      BY <1>5, <2>1
    <3> QED
      BY <1>5, <1>6, <1>7, <3>1
  <2>2. CASE i > Len(s) /\ i <= Len(s) + a
    <3> DEFINE j == i - Len(s)
    <3>1. j \in 1 .. a /\ j \in 1 .. b /\ i = Len(s) + j /\ i \in 1 .. Len(su)
      BY <1>5, <2>2
    <3> HIDE DEF j
    <3>2. l[i] = u[j] /\ r[i] = w[j]
      BY <1>5, <1>6, <1>7, <3>1
    <3> QED
      BY <1>2, <1>3, <3>1, <3>2
  <2>3. CASE i > Len(s) + a
    <3> DEFINE j == i - (Len(s) + a)
    <3>1. j \in 1 .. b - a /\ a + j \in 1 .. b /\ i = Len(su) + j /\ i = Len(s) + (a + j)
      BY <1>5, <1>7, <2>3
    <3> HIDE DEF j
    <3>2. l[i] = v[j] /\ r[i] = w[a + j]
      BY <1>6, <1>7, <3>1
    <3> QED
      BY <1>3, <1>4, <3>1, <3>2
  <2> QED
    BY <1>5, <2>1, <2>2, <2>3
<1>9. Len(l) = Len(r)
  BY <1>5, <1>6, <1>7
<1>10. l = r
  BY <1>6, <1>7, <1>8, <1>9, SameEntries
<1> QED
  BY <1>2, <1>4, <1>10 DEF l, r, su, u, v, w, Joins

(* The pieces of an array go from one place in it to the next, up to d[last]. *)
Cuts(ps, op, xs, last, d) ==
  /\ ps = [f \in 1 .. last |-> Packet(op, 0, SubSeq(xs, d[f - 1] + 1, d[f]))]
  /\ d[0] = 0 /\ d[last] = Len(xs)
  /\ \A f \in 1 .. last : d[f - 1] \in Nat /\ d[f] \in Nat /\ d[f - 1] <= d[f] /\ d[f] <= Len(xs)

LEMMA SplitCuts ==
  ASSUME NEW op, NEW xs, Len(xs) \in Nat, Covered(Len(xs))
  PROVE  \E last \in Nat \ {0} : \E d : Cuts(Split(op, xs), op, xs, last, d)
<1> DEFINE n == Len(xs)
           ps == Split(op, xs)
           p(f) == Pieces(n, 4)[f]
<1>1. n \in Nat
  OBVIOUS
<1>2. PICK m \in Nat \ {0}, last \in Nat \ {0} :
           /\ MF_LEN - 4 = 4 * m + 2 /\ last = (n * 4) \div (4 * m + 2) + 1
           /\ DOMAIN Pieces(n, 4) = 1 .. last
           /\ \A f \in 1 .. last :
                /\ (f - 1) * m \in 0 .. n /\ f * m = (f - 1) * m + m
                /\ p(f).from \in Nat /\ p(f).from \div Bytes = (f - 1) * m
                /\ p(f).n = IF n - (f - 1) * m > m THEN m ELSE n - (f - 1) * m
  BY <1>1, PiecesFit
<1>3. n <= last * m
  <2>1. (MF_LEN - 4) \div 4 = m
    <3>1. MF_LEN - 4 = 4 * m + 2 /\ (4 * m + 2) \div 4 = m
      BY <1>2
    <3> QED
      BY <3>1
  <2>2. n * 4 <= ((n * 4) \div (4 * m + 2) + 1) * (m * 4)
    BY <1>2, <2>1 DEF Covered, Bytes
  <2>3. n * 4 <= last * (m * 4)
    BY <1>2, <2>2
  <2>4. last * (m * 4) = 4 * (last * m) /\ last * m \in Nat
    BY TimesFour
  <2> QED
    BY <1>1, <2>3, <2>4
<1> DEFINE d == [i \in 0 .. last |-> IF i * m < n THEN i * m ELSE n]
<1>4. d[0] = 0 /\ d[last] = n
  BY <1>1, <1>2, <1>3
<1>5. ASSUME NEW f \in 1 .. last
      PROVE  /\ d[f - 1] \in Nat /\ d[f] \in Nat /\ d[f - 1] <= d[f] /\ d[f] <= n
             /\ Piece(xs, p(f)) = SubSeq(xs, d[f - 1] + 1, d[f])
  <2> DEFINE q == (f - 1) * m
  <2>1. /\ q \in 0 .. n /\ f * m = q + m /\ p(f).from \div Bytes = q
        /\ p(f).n = IF n - q > m THEN m ELSE n - q
    BY <1>2
  <2>2. f - 1 \in 0 .. last /\ f \in 0 .. last
    OBVIOUS
  <2>3. d[f - 1] = (IF q < n THEN q ELSE n) /\ d[f] = IF f * m < n THEN f * m ELSE n
    BY <2>2
  <2> HIDE DEF q, d
  <2>4. d[f - 1] = q /\ d[f] = q + p(f).n
    BY <1>1, <1>2, <2>1, <2>3
  <2>5. p(f).n \in 0 .. n - q
    <3> DEFINE r == p(f).n
    <3>1. r = IF n - q > m THEN m ELSE n - q
      BY <2>1
    <3> HIDE DEF r, n
    <3>2. r \in 0 .. n - q
      BY <1>1, <2>1, <3>1
    <3> QED
      BY <3>2 DEF r, n
  <2>6. Piece(xs, p(f)) = SubSeq(xs, q + 1, q + p(f).n)
    BY <2>1 DEF Piece
  <2> QED
    BY <1>1, <2>1, <2>4, <2>5, <2>6
<1>6. ps = [f \in 1 .. last |-> Packet(op, 0, Piece(xs, p(f)))]
  BY <1>2 DEF Split
<1> HIDE DEF d, p
<1>7. ps = [f \in 1 .. last |-> Packet(op, 0, SubSeq(xs, d[f - 1] + 1, d[f]))]
  BY <1>5, <1>6
<1> HIDE DEF ps
<1>8. Cuts(ps, op, xs, last, d)
  BY <1>4, <1>5, <1>7 DEF Cuts
<1> QED
  BY <1>2, <1>8 DEF ps

(* What is pushed.                                                         *)
Asked(k, xs) == /\ xs \in Seq(EntryOf[k]) /\ (k = "vertex" => xs \in Seq(Point))
                /\ \A i \in 1 .. Len(xs) : Plain(k, xs[i]) = xs[i]

LEMMA FitPush ==
  ASSUME NEW k \in Kinds, NEW xs \in Seq(EntryOf[k]), k = "vertex" => xs \in Seq(Point)
  PROVE  Packet(PushOf[k], 0, xs) \in Fit
<1> DEFINE p == Packet(PushOf[k], 0, xs)
<1>1. p \in Packets
  BY PushPacket
<1>2. p.op = PushOf[k] /\ p.xs = xs
  BY DEF Packet
<1>3. /\ PushOf[k] = "PUSH_VERTEX" => k = "vertex"
      /\ PushOf[k] \notin ValueOps /\ PushOf[k] \notin DelOps
  BY DEF PushOf, Kinds, ValueOps, PepOps, LoadOps, DelOps
<1> HIDE DEF p
<1>4. p \in Fit
  BY <1>1, <1>2, <1>3 DEF Fit
<1> QED
  BY <1>4 DEF p

LEMMA PushedOne ==
  ASSUME NEW o \in Object, NEW k \in Kinds, NEW xs, Asked(k, xs)
  PROVE  Carry(o, Packet(PushOf[k], 0, xs)) = [o EXCEPT ![k] = o[k] \o xs]
<1> DEFINE p == Packet(PushOf[k], 0, xs)
<1>1. p \in Fit /\ p.op = PushOf[k] /\ p.xs = xs /\ p \in Packets
  BY FitPush DEF Packet, Asked, Fit
<1> HIDE DEF p
<1>2. xs \in Seq(EntryOf[k]) /\ o[k] \in Seq(EntryOf[k])
  BY DEF Asked, Object, EntryOf, Kinds
<1>3. CASE xs = <<>>
  <2>1. p.op \in PushOps
    BY <1>1, OpsApart
  <2>2. Carry(o, p) = o
    BY <1>1, <1>3, <2>1 DEF Carry, PushIn, PushOps, PepOps, LoadOps, DelOps
  <2>3. o[k] \o xs = o[k]
    BY <1>2, <1>3
  <2> QED
    <3>1. [o EXCEPT ![k] = o[k]] = o
      BY DEF Object, Kinds
    <3> QED
      BY <2>2, <2>3, <3>1 DEF p
<1>4. CASE xs # <<>>
  <2>1. Carry(o, p) = [o EXCEPT ![k] = o[k] \o Plains(k, p.xs)]
    BY <1>1, <1>4, PushForm
  <2>2. Plains(k, xs) = xs
    <3>1. DOMAIN xs = 1 .. Len(xs) /\ xs = [i \in 1 .. Len(xs) |-> xs[i]]
      BY <1>2
    <3> QED
      BY <3>1 DEF Plains, Asked
  <2> QED
    BY <1>1, <2>1, <2>2 DEF p
<1> QED
  BY <1>3, <1>4

LEMMA AskedPart ==
  ASSUME NEW k \in Kinds, NEW xs, Asked(k, xs), NEW a \in Nat, NEW b \in Nat, a <= b, b <= Len(xs)
  PROVE  Asked(k, SubSeq(xs, a + 1, b))
<1> DEFINE v == SubSeq(xs, a + 1, b)
           E == EntryOf[k]
<1>1. xs \in Seq(E) /\ (k = "vertex" => xs \in Seq(Point)) /\ \A i \in 1 .. Len(xs) : Plain(k, xs[i]) = xs[i]
  BY DEF Asked
<1> HIDE DEF E
<1>2. \A F : xs \in Seq(F) => /\ v \in Seq(F) /\ Len(v) = b - a
                              /\ \A i \in 1 .. b - a : v[i] = xs[a + i]
  <2> SUFFICES ASSUME NEW F, xs \in Seq(F)
               PROVE  /\ v \in Seq(F) /\ Len(v) = b - a
                      /\ \A i \in 1 .. b - a : v[i] = xs[a + i]
    OBVIOUS
  <2>1. \A i \in a + 1 .. b : xs[i] \in F
    OBVIOUS
  <2>2. /\ v \in Seq(F) /\ Len(v) = (IF a + 1 <= b THEN b - (a + 1) + 1 ELSE 0)
        /\ \A i \in 1 .. b - (a + 1) + 1 : v[i] = xs[(a + 1) + i - 1]
    BY <2>1, SubSeqProperties
  <2>3. ASSUME NEW i \in 1 .. b - a PROVE v[i] = xs[a + i]
    <3>1. i \in 1 .. b - (a + 1) + 1 /\ (a + 1) + i - 1 = a + i
      OBVIOUS
    <3> HIDE DEF v
    <3> QED
      BY <2>2, <3>1
  <2> HIDE DEF v
  <2> QED
    BY <2>2, <2>3
<1> HIDE DEF v
<1>3. Len(xs) \in Nat
  BY <1>1
<1>4. v \in Seq(E) /\ (k = "vertex" => v \in Seq(Point))
  BY <1>1, <1>2
<1>5. ASSUME NEW i \in 1 .. Len(v) PROVE Plain(k, v[i]) = v[i]
  <2>1. i \in 1 .. b - a /\ a + i \in 1 .. Len(xs)
    BY <1>1, <1>2, <1>3
  <2> QED
    BY <1>1, <1>2, <2>1
<1> QED
  BY <1>4, <1>5 DEF Asked, E, v

(* An array arrives in pieces, and is there as if it had come at once.      *)
Brings(q, ps, k, xs) ==
  ps \in Seq(Fit) /\ ps # <<>> /\ Carried(q, ps) = [q EXCEPT ![k] = q[k] \o xs]
LEMMA PushedAll ==
  ASSUME NEW q \in Object, NEW k \in Kinds, NEW xs, Asked(k, xs), NEW last \in Nat \ {0}, NEW d, NEW ps,
         Cuts(ps, PushOf[k], xs, last, d)
  PROVE  Brings(q, ps, k, xs)
<1> DEFINE op == PushOf[k]
           E == EntryOf[k]
           s == q[k]
<1>1. xs \in Seq(E) /\ s \in Seq(E) /\ Len(xs) \in Nat
  BY DEF Asked, Object, EntryOf, Kinds
<1>2. /\ ps = [f \in 1 .. last |-> Packet(op, 0, SubSeq(xs, d[f - 1] + 1, d[f]))]
      /\ d[0] = 0 /\ d[last] = Len(xs)
      /\ \A f \in 1 .. last : d[f - 1] \in Nat /\ d[f] \in Nat /\ d[f - 1] <= d[f] /\ d[f] <= Len(xs)
  BY DEF Cuts
<1>3. ASSUME NEW f \in 1 .. last
      PROVE  /\ Asked(k, SubSeq(xs, d[f - 1] + 1, d[f]))
             /\ ps[f] = Packet(op, 0, SubSeq(xs, d[f - 1] + 1, d[f]))
             /\ ps[f] \in Fit
  <2> DEFINE a == d[f - 1]
             b == d[f]
             v == SubSeq(xs, a + 1, b)
  <2>1. a \in Nat /\ b \in Nat /\ a <= b /\ b <= Len(xs)
    BY <1>2
  <2>2. ps[f] = Packet(op, 0, v)
    BY <1>2
  <2> HIDE DEF a, b
  <2>3. Asked(k, v)
    BY <2>1, AskedPart
  <2> HIDE DEF v
  <2>4. Packet(op, 0, v) \in Fit
    BY <2>3, FitPush DEF Asked
  <2> QED
    BY <2>2, <2>3, <2>4 DEF v, a, b
<1>4. ps \in Seq(Fit) /\ Len(ps) = last /\ ps # <<>>
  <2>1. DOMAIN ps = 1 .. last /\ ps = [f \in 1 .. last |-> ps[f]]
    BY <1>2
  <2> QED
    BY <1>3, <2>1
<1>5. PICK g : Run(q, ps, last, g) /\ Carried(q, ps) = g[last]
  BY <1>4, CarriedRuns
<1>6. g[0] = q /\ \A i \in 1 .. last : g[i] = Carry(g[i - 1], ps[i])
  BY <1>5, RunSteps
<1> HIDE DEF s, E, op
<1> DEFINE there(i) == s \o SubSeq(xs, 1, d[i])
           T == {i \in Nat : i <= last => g[i] = [q EXCEPT ![k] = there(i)] /\ there(i) \in Seq(E)}
<1>7. 0 \in T
  <2>1. SubSeq(xs, 1, 0) = <<>> /\ s \o <<>> = s
    BY <1>1
  <2>2. there(0) = s
    BY <1>2, <2>1
  <2> HIDE DEF there
  <2>3. [q EXCEPT ![k] = s] = q
    BY DEF s, Object, Kinds
  <2> QED
    BY <1>1, <1>6, <2>2, <2>3
<1>8. ASSUME NEW i \in Nat, i \in T PROVE i + 1 \in T
  <2> SUFFICES ASSUME i + 1 <= last
               PROVE  g[i + 1] = [q EXCEPT ![k] = there(i + 1)] /\ there(i + 1) \in Seq(E)
    OBVIOUS
  <2> DEFINE f == i + 1
             a == d[i]
             b == d[f]
             v == SubSeq(xs, a + 1, b)
             t == there(i)
             o == [q EXCEPT ![k] = t]
  <2>1. f \in 1 .. last /\ f - 1 = i /\ i <= last
    OBVIOUS
  <2>2. g[i] = o /\ t \in Seq(E)
    BY <1>8, <2>1
  <2>3. a \in Nat /\ b \in Nat /\ a <= b /\ b <= Len(xs)
    BY <1>2, <2>1
  <2>4. Asked(k, v) /\ ps[f] = Packet(op, 0, v)
    BY <1>3, <2>1
  <2>5. g[f] = Carry(o, ps[f])
    BY <1>6, <2>1, <2>2
  <2>6. t \o v = there(f) /\ v \in Seq(E)
    <3> HIDE DEF a, b
    <3>1. /\ (s \o SubSeq(xs, 1, a)) \o v = s \o SubSeq(xs, 1, b)
          /\ v \in Seq(E)
      <4>1. s \in Seq(E) /\ xs \in Seq(E)
        BY <1>1
      <4>2. Joins(E, s, xs, a, b)
        BY <2>3, <4>1, Grown
      <4> QED
        BY <4>2 DEF Joins
    <3> QED
      BY <3>1 DEF a, b
  <2> HIDE DEF t, v, f, a, b, there
  <2>7. o \in Object
    BY <2>2, NewStack DEF Resized, E
  <2>8. Carry(o, Packet(op, 0, v)) = [o EXCEPT ![k] = o[k] \o v]
    <3> HIDE DEF o
    <3> QED
      BY <2>4, <2>7, PushedOne DEF op
  <2>9. o[k] = t /\ [o EXCEPT ![k] = t \o v] = [q EXCEPT ![k] = t \o v]
    BY DEF Object, Kinds
  <2>10. g[f] = [q EXCEPT ![k] = there(f)]
    BY <2>4, <2>5, <2>6, <2>8, <2>9
  <2>11. there(f) \in Seq(E)
    BY <2>2, <2>6, Appended
  <2> QED
    BY <2>10, <2>11 DEF f
<1>9. Nat \subseteq T
  <2> HIDE DEF T
  <2> QED
    BY <1>7, <1>8, SetInduction
<1>10. g[last] = [q EXCEPT ![k] = there(last)]
  <2> HIDE DEF there
  <2>1. last \in T /\ last <= last
    <3> HIDE DEF T
    <3> QED
      BY <1>9
  <2> QED
    BY <2>1
<1>11. SubSeq(xs, 1, d[last]) = xs
  <2> DEFINE n == Len(xs)
             w == SubSeq(xs, 1, n)
  <2>1. w \in Seq(E) /\ Len(w) = n /\ \A i \in 1 .. n : w[i] = xs[i]
    <3>1. \A i \in 1 .. n : xs[i] \in E
      BY <1>1
    <3> QED
      BY <1>1, <3>1, SubSeqProperties
  <2> HIDE DEF w
  <2>2. w = xs
    BY <1>1, <2>1, SameEntries
  <2> QED
    BY <1>2, <2>2 DEF w
<1> QED
  BY <1>4, <1>5, <1>10, <1>11 DEF s, Brings

-----------------------------------------------------------------------------
(* Each request, as Stacks has it.                                         *)

(* What keeps a program within what the library can do: it pops with       *)
(* numbers that fit and half of its textures, and it loads and gives anew  *)
(* no more than one packet holds.  It may empty a stack, and push textures *)
(* when it likes.                                                          *)
Behaved == Uses \cap {"popwide", "poptex", "load2", "peplines"} = {}

(* A request that is made, and one that is refused.                        *)
LEMMA Requested ==
  ASSUME StackInv, NEW ps \in Seq(Fit), ps # <<>>, Request(ps)
  PROVE  /\ obj' \in Begun /\ chan' \in Seq(Fit) /\ calls' \in Nat
         /\ Pending' = Carried(Pending, ps) /\ S!Called /\ Pending \in Object
<1>1. chan' = chan \o ps /\ obj' = obj /\ calls < MaxCalls /\ calls' = calls + 1
  BY DEF Request
<1>2. calls \in Nat /\ obj \in Begun /\ chan \in Seq(Fit)
  BY DEF StackInv
<1>3. obj' \in Begun /\ chan' \in Seq(Fit) /\ Pending' = Carried(Pending, ps)
  BY <1>1, Sends
<1>4. Pending \in Object
  BY <1>2, PendingIs
<1> QED
  BY <1>1, <1>2, <1>3, <1>4 DEF S!Called

LEMMA Refused ==
  ASSUME StackInv, Request(<<>>), UNCHANGED pushed
  PROVE  StackInv' /\ UNCHANGED <<Pending, pushed, calls>>
<1>1. chan' = chan \o <<>> /\ obj' = obj /\ calls' = calls
  BY DEF Request
<1>2. chan \in Seq(Fit)
  BY DEF StackInv
<1>3. chan' = chan
  BY <1>1, <1>2
<1>4. Pending' = Pending
  BY <1>1, <1>3 DEF Pending
<1> QED
  BY <1>1, <1>3, <1>4 DEF StackInv

(* The program counts what will be there.                                  *)
LEMMA Counts ==
  ASSUME StackInv, NEW k \in Kinds, NEW n \in Nat, Resized(Pending, Pending', k, n),
         pushed' = [pushed EXCEPT ![k] = n], obj' \in Begun, chan' \in Seq(Fit), calls' \in Nat
  PROVE  StackInv'
<1>1. pushed \in [Kinds -> Nat] /\ \A j \in Kinds : pushed[j] = Len(Pending[j])
  BY DEF StackInv
<1>2. pushed' \in [Kinds -> Nat] /\ \A j \in Kinds : pushed'[j] = IF j = k THEN n ELSE pushed[j]
  BY <1>1
<1>3. \A j \in Kinds : Len(Pending'[j]) = IF j = k THEN n ELSE Len(Pending[j])
  BY DEF Resized
<1>4. \A j \in Kinds : pushed'[j] = Len(Pending'[j])
  BY <1>1, <1>2, <1>3
<1> QED
  BY <1>2, <1>4 DEF StackInv

LEMMA SameCounts ==
  ASSUME StackInv, Kept(Pending, Pending') \/ \A k \in Kinds : Pending'[k] = Pending[k],
         UNCHANGED pushed, obj' \in Begun, chan' \in Seq(Fit), calls' \in Nat
  PROVE  StackInv'
<1>1. pushed \in [Kinds -> Nat] /\ \A j \in Kinds : pushed[j] = Len(Pending[j])
  BY DEF StackInv
<1>2. \A j \in Kinds : Len(Pending'[j]) = Len(Pending[j])
  BY DEF Kept, Resized
<1>3. \A j \in Kinds : pushed'[j] = Len(Pending'[j])
  BY <1>1, <1>2
<1> QED
  BY <1>1, <1>3 DEF StackInv

(* Entries are pushed as they are; a vertex has a number.                   *)
LEMMA AskedEntries ==
  ASSUME calls \in Nat, NEW k \in Kinds, NEW n \in Nat \ {0}, NEW ix \in Nat
  PROVE  /\ Asked(k, Entries(k, n, ix)) /\ Len(Entries(k, n, ix)) = n
         /\ Entries(k, n, ix) # <<>>
<1> DEFINE xs == Entries(k, n, ix)
           x(i) == S!Values(n)[i]
<1>1. xs \in Seq(EntryOf[k]) /\ Len(xs) = n /\ xs # <<>>
  BY EntriesHave
<1>2. \A i \in 1 .. n : x(i) \in Nat
  BY DEF S!Values
<1>3. xs = [i \in 1 .. n |-> S!Entry(k, x(i), ix)]
  BY DEF Entries
<1> HIDE DEF x, xs
<1>4. ASSUME k = "vertex" PROVE xs \in Seq(Point)
  <2>1. \A i \in 1 .. n : S!Entry(k, x(i), ix) \in Point
    BY <1>2, <1>4 DEF S!Entry, Point
  <2> QED
    BY <1>3, <2>1
<1>5. ASSUME NEW i \in 1 .. n
      PROVE  Plain(k, xs[i]) = xs[i]
  <2>1. xs[i] = S!Entry(k, x(i), ix)
    BY <1>3
  <2> DEFINE y == x(i)
  <2>2. Plain(k, S!Entry(k, y, ix)) = S!Entry(k, y, ix)
    <3> HIDE DEF y
    <3> USE DEF Plain, S!Entry
    <3>1. CASE k = "vertex"
      BY <3>1
    <3>2. CASE k = "mat"
      BY <3>2
    <3>3. CASE k = "poly"
      BY <3>3
    <3>4. CASE k = "line"
      BY <3>4
    <3>5. CASE k = "tex"
      BY <3>5
    <3> QED
      BY <3>1, <3>2, <3>3, <3>4, <3>5 DEF Kinds
  <2> QED
    BY <2>1, <2>2
<1> QED
  BY <1>1, <1>4, <1>5 DEF Asked, xs

(* The requests that push, with the indices an abstract push has.          *)
PushAt(k) ==
  \E n \in Lens, ix \in Indices : LET xs == Entries(k, n, ix) IN
     /\ \E ps \in {Split(PushOf[k], xs)} \union Single(xs, One(PushOf[k], xs[1])) : Request(ps)
     /\ Count(k, n)

LEMMA PushesAt ==
  ASSUME Indices # {}, PushVertex \/ PushMaterial \/ PushPolygon \/ PushLine \/ PushTexture
  PROVE  \E k \in Kinds : PushAt(k)
<1>1. PICK ix \in Indices : TRUE
  OBVIOUS
<1>2. \A k \in {"vertex", "mat", "tex"} : \A n : Entries(k, n, 0) = Entries(k, n, ix)
  <2> SUFFICES ASSUME NEW k \in {"vertex", "mat", "tex"}, NEW n
               PROVE  Entries(k, n, 0) = Entries(k, n, ix)
    OBVIOUS
  <2>1. \A x : S!Entry(k, x, 0) = S!Entry(k, x, ix)
    BY DEF S!Entry
  <2> QED
    BY <2>1 DEF Entries
<1> USE DEF PushAt, Single, PushOf
<1>3. PushVertex => PushAt("vertex")
  BY <1>2 DEF PushVertex, s3d_push_vertices, s3d_push_vertex
<1>4. PushMaterial => PushAt("mat")
  BY <1>2 DEF PushMaterial, s3d_push_materials_a, s3d_push_material, s3d_push_material_a
<1>5. PushPolygon => PushAt("poly")
  BY DEF PushPolygon, s3d_push_polygons, s3d_push_polygon
<1>6. PushLine => PushAt("line")
  BY DEF PushLine, s3d_push_lines, s3d_push_line
<1>7. PushTexture => PushAt("tex")
  BY <1>2 DEF PushTexture, s3d_push_textures, s3d_push_texture
<1> HIDE DEF PushAt
<1> QED
  BY <1>3, <1>4, <1>5, <1>6, <1>7 DEF Kinds

LEMMA PushStack ==
  ASSUME StackInv, \A n \in Lens : Covered(n), Indices # {},
         PushVertex \/ PushMaterial \/ PushPolygon \/ PushLine \/ PushTexture
  PROVE  StackInv' /\ S!Push
<1>1. PICK k \in Kinds : PushAt(k)
  BY PushesAt
<1>2. PICK n \in Lens, ix \in Indices : LET xs == Entries(k, n, ix) IN
         /\ \E ps \in {Split(PushOf[k], xs)} \union Single(xs, One(PushOf[k], xs[1])) : Request(ps)
         /\ Count(k, n)
  BY <1>1 DEF PushAt
<1> DEFINE xs == Entries(k, n, ix)
           op == PushOf[k]
<1>3. n \in Nat \ {0} /\ ix \in Nat /\ calls \in Nat /\ Covered(n)
  BY SizeAssumption DEF StackInv
<1>4. Asked(k, xs) /\ Len(xs) = n /\ xs # <<>>
  BY <1>3, AskedEntries
<1> HIDE DEF xs
<1>5. PICK ps \in {Split(op, xs)} \union Single(xs, One(op, xs[1])) : Request(ps)
  BY <1>2 DEF xs
<1>0. Pending \in Object
  BY PendingIs DEF StackInv
<1> DEFINE s == Pending[k] \o xs
<1>6. Brings(Pending, ps, k, xs)
  <2>1. CASE ps = Split(op, xs)
    <3>1. PICK last \in Nat \ {0} : \E d : Cuts(ps, op, xs, last, d)
      BY <1>3, <1>4, <2>1, SplitCuts
    <3>2. PICK d : Cuts(ps, op, xs, last, d)
      BY <3>1
    <3> QED
      BY <1>0, <1>4, <3>2, PushedAll
  <2>2. CASE Len(xs) = 1 /\ ps = One(op, xs[1])
    <3>1. <<xs[1]>> = xs
      BY <1>4, <2>2 DEF Asked
    <3> DEFINE p == Packet(op, 0, xs)
    <3>2. ps = <<p>>
      BY <2>2, <3>1 DEF One
    <3>3. p \in Fit
      BY <1>4, FitPush DEF Asked
    <3>4. Carry(Pending, p) = [Pending EXCEPT ![k] = s]
      BY <1>0, <1>4, PushedOne
    <3> HIDE DEF p
    <3>5. Carried(Pending, ps) = [Pending EXCEPT ![k] = s]
      <4>1. Carried(Pending, <<p>>) = Carry(Pending, p)
        BY CarriedOne
      <4> QED
        BY <3>2, <3>4, <4>1
    <3>6. ps \in Seq(Fit) /\ ps # <<>>
      BY <3>2, <3>3, SingleSeq
    <3> QED
      BY <3>5, <3>6 DEF Brings
  <2> QED
    BY <1>5, <2>1, <2>2 DEF Single
<1>7. /\ obj' \in Begun /\ chan' \in Seq(Fit) /\ calls' \in Nat
      /\ Pending' = Carried(Pending, ps) /\ S!Called
  <2>1. ps \in Seq(Fit) /\ ps # <<>>
    BY <1>6 DEF Brings
  <2> QED
    BY <1>5, <2>1, Requested
<1>8. Pending' = [Pending EXCEPT ![k] = s]
  BY <1>6, <1>7 DEF Brings
<1>9. pushed' = [pushed EXCEPT ![k] = pushed[k] + n] /\ pushed[k] = Len(Pending[k])
  BY <1>2 DEF Count, StackInv
<1>10. StackInv'
  <2>1. Pending[k] \in Seq(EntryOf[k]) /\ xs \in Seq(EntryOf[k])
    BY <1>0, <1>4 DEF Object, EntryOf, Kinds, Asked
  <2>2. s \in Seq(EntryOf[k]) /\ Len(s) = Len(Pending[k]) + n /\ Len(s) \in Nat
    <3> DEFINE a == Pending[k]
               E == EntryOf[k]
    <3>1. a \in Seq(E) /\ xs \in Seq(E) /\ Len(xs) = n
      BY <1>4, <2>1
    <3> HIDE DEF a, E
    <3>2. a \o xs \in Seq(E) /\ Len(a \o xs) = Len(a) + n
      BY <3>1, Appended
    <3>3. Len(a \o xs) \in Nat
      BY <3>2
    <3> QED
      BY <3>2, <3>3 DEF a, E
  <2> HIDE DEF s
  <2>3. Resized(Pending, Pending', k, Len(s))
    BY <1>0, <1>8, <2>2, NewStack
  <2>4. pushed' = [pushed EXCEPT ![k] = Len(s)]
    BY <1>9, <2>2
  <2> QED
    BY <1>7, <2>2, <2>3, <2>4, Counts
<1>11. S!Push
  <2>1. xs = [i \in 1 .. n |-> S!Entry(k, S!Values(n)[i], ix)]
    BY DEF xs, Entries
  <2>2. k \in S!Kinds
    BY DEF Kinds, S!Kinds
  <2> QED
    BY <1>7, <1>8, <1>9, <2>1, <2>2 DEF S!Push
<1> QED
  BY <1>10, <1>11

(* A request of one packet.                                                *)
LEMMA OneSent ==
  ASSUME StackInv, NEW p \in Fit, Request(<<p>>)
  PROVE  /\ obj' \in Begun /\ chan' \in Seq(Fit) /\ calls' \in Nat
         /\ Pending' = Carry(Pending, p) /\ S!Called /\ Pending \in Object /\ p \in Packets
<1>1. <<p>> \in Seq(Fit) /\ <<p>> # <<>>
  OBVIOUS
<1> DEFINE ps == <<p>>
<1>2. Carried(Pending, ps) = Carry(Pending, p)
  BY CarriedOne
<1> HIDE DEF ps
<1>3. /\ obj' \in Begun /\ chan' \in Seq(Fit) /\ calls' \in Nat
      /\ Pending' = Carried(Pending, ps) /\ S!Called /\ Pending \in Object
  BY <1>1, Requested DEF ps
<1> QED
  BY <1>2, <1>3 DEF Fit

LEMMA PopStack ==
  ASSUME StackInv, Behaved, PopVertex \/ PopMaterial \/ PopPolygon \/ PopLine \/ PopTexture
  PROVE  StackInv' /\ S!Pop
<1>1. PICK k \in Kinds, n \in Lens : Pops(k, n) /\ Request(<<Packet(DelOf[k], n, <<>>)>>)
  BY DEF PopVertex, PopMaterial, PopPolygon, PopLine, PopTexture, s3d_pop_vertex, s3d_pop_material,
         s3d_pop_polygon, s3d_pop_line, s3d_pop_texture, DelOf, Kinds
<1>2. n \in Nat \ {0}
  BY SizeAssumption
<1> DEFINE p == Packet(DelOf[k], n, <<>>)
           s == Pending[k]
           l == S!Last(s, n)
           t == SubSeq(s, 1, l)
<1>3. p \in Packets /\ p.op = DelOf[k] /\ p.at = n
  BY <1>2 DEF Packet, Packets, DelOf, Kinds, DelOps
<1>4. /\ n < 2^NumWidth /\ (k = "tex" => 2 * n = pushed[k])
      /\ pushed' = [pushed EXCEPT ![k] = IF n < @ THEN @ - n ELSE 0]
  BY <1>1 DEF Pops, Behaved
<1>5. Width(n) = n
  <2> DEFINE w == 2^NumWidth
  <2>1. w \in Nat
    BY SizeAssumption
  <2> HIDE DEF w
  <2>2. n < w => n % w = n
    BY <1>2, <2>1
  <2> QED
    BY <1>4, <2>2 DEF Width, w
<1>6. p \in Fit
  <2>1. p.op \notin ValueOps /\ p.op # "PUSH_VERTEX"
    BY <1>3 DEF DelOf, Kinds, ValueOps, PepOps, LoadOps
  <2> HIDE DEF p
  <2> QED
    BY <1>3, <1>5, <2>1 DEF Fit
<1> HIDE DEF p
<1>7. /\ obj' \in Begun /\ chan' \in Seq(Fit) /\ calls' \in Nat
      /\ Pending' = Carry(Pending, p) /\ S!Called /\ Pending \in Object
  BY <1>1, <1>6, OneSent DEF p
<1>8. s \in Seq(EntryOf[k]) /\ Pending' = [Pending EXCEPT ![k] = Shortened(k, s, n)]
  BY <1>3, <1>5, <1>7, DelForm
<1>9. Len(s) \in Nat /\ pushed[k] = Len(s)
  BY <1>8 DEF StackInv
<1>10. Shortened(k, s, n) = t
  <2> HIDE DEF s
  <2>1. CASE k # "tex"
    BY <1>2, <1>8, <2>1, CutLast DEF Shortened
  <2>2. CASE k = "tex"
    BY <1>2, <1>4, <1>8, <1>9, <2>2, HalfLast
  <2> QED
    BY <2>1, <2>2
<1>11. l \in Nat /\ l <= Len(s) /\ l = IF n < pushed[k] THEN pushed[k] - n ELSE 0
  BY <1>2, <1>9 DEF S!Last
<1>12. pushed' = [pushed EXCEPT ![k] = l]
  BY <1>4, <1>11
<1>13. StackInv'
  <2> HIDE DEF s, l
  <2>1. t \in Seq(EntryOf[k]) /\ Len(t) = l
    BY <1>8, <1>11, Front
  <2> HIDE DEF t
  <2>2. Resized(Pending, Pending', k, l)
    BY <1>7, <1>8, <1>10, <2>1, NewStack
  <2> QED
    BY <1>7, <1>11, <1>12, <2>2, Counts
<1>14. S!Pop
  <2>1. Pending' = [Pending EXCEPT ![k] = SubSeq(Pending[k], 1, S!Last(Pending[k], n))]
    BY <1>8, <1>10
  <2>2. pushed' = [pushed EXCEPT ![k] = S!Last(Pending[k], n)]
    BY <1>12
  <2>3. k \in S!Kinds
    BY DEF Kinds, S!Kinds
  <2> QED
    BY <1>7, <2>1, <2>2, <2>3 DEF S!Pop
<1> QED
  BY <1>13, <1>14

(* Values for a field of the last entries, in one packet.                  *)
LEMMA FitValues ==
  ASSUME NEW op \in ValueOps, NEW at \in Nat, NEW xs \in Seq(Nat)
  PROVE  Packet(op, at, xs) \in Fit
<1>1. xs \in Seq(Int)
  OBVIOUS
<1>2. Packet(op, at, xs) \in Packets
  BY <1>1, ValuePacket
<1>3. op # "PUSH_VERTEX" /\ op \notin DelOps
  BY DEF ValueOps, PepOps, LoadOps, DelOps
<1> QED
  BY <1>2, <1>3 DEF Fit, Packet

LEMMA GaveLast ==
  ASSUME StackInv, NEW op \in PepOps \ {"PEP_LINE"}, NEW xs \in Seq(Nat),
         Request(<<Packet(op, 0, xs)>>), UNCHANGED pushed
  PROVE  /\ StackInv' /\ S!Called
         /\ Pending' = [Pending EXCEPT ![Gives[op][1]] = S!Give(Pending[Gives[op][1]], Gives[op][2],
                          S!Last(Pending[Gives[op][1]], Len(xs)), xs)]
<1> DEFINE p == Packet(op, 0, xs)
           k == Gives[op][1]
           f == Gives[op][2]
           s == Pending[k]
<1>1. p \in Fit /\ p.op = op /\ p.xs = xs
  BY FitValues DEF ValueOps, Packet
<1> HIDE DEF p
<1>2. /\ obj' \in Begun /\ chan' \in Seq(Fit) /\ calls' \in Nat
      /\ Pending' = Carry(Pending, p) /\ S!Called /\ Pending \in Object /\ p \in Packets
  BY <1>1, OneSent DEF p
<1>3. Pending' = [Pending EXCEPT ![k] = OverLast(s, xs, f)] /\ <<k, f>> \in Fields
  BY <1>1, <1>2, PepForm
<1>4. StackInv'
  <2>1. Kept(Pending, Pending')
    BY <1>1, <1>2, PepCarry
  <2> QED
    BY <1>2, <2>1, SameCounts
<1>5. OverLast(s, xs, f) = S!Give(s, f, S!Last(s, Len(xs)), xs)
  <2> HIDE DEF k, f
  <2>1. s \in Seq(EntryOf[k])
    BY <1>2, <1>3, FieldsOf DEF Object, EntryOf, Kinds
  <2> DEFINE m == Len(s)
             n == Len(xs)
  <2>2. m \in Nat /\ n \in Nat /\ DOMAIN s = 1 .. m /\ DOMAIN xs = 1 .. n
    BY <2>1
  <2> HIDE DEF s
  <2> QED
    BY <2>2, OverLastGive
<1> QED
  BY <1>2, <1>3, <1>4, <1>5

LEMMA ValuesNat ==
  ASSUME StackInv, NEW n \in Nat \ {0}
  PROVE  S!Values(n) \in Seq(Nat) /\ Len(S!Values(n)) = n /\ S!Values(n) # <<>>
<1>1. \A i \in 1 .. n : 10 * (calls + 1) + i \in Nat
  BY DEF StackInv
<1> QED
  BY <1>1 DEF S!Values

LEMMA GaveArray ==
  ASSUME StackInv, NEW op \in PepOps \ {"PEP_LINE", "PEP_MAT_TEX"}, NEW n \in Lens,
         \/ Request(Whole(op, S!Values(n)))
         \/ Len(S!Values(n)) = 1 /\ Request(One(op, S!Values(n)[1])),
         UNCHANGED pushed
  PROVE  StackInv' /\ (S!Pep \/ UNCHANGED <<Pending, pushed, calls>>)
<1> DEFINE xs == S!Values(n)
           k == Gives[op][1]
           f == Gives[op][2]
<1>1. xs \in Seq(Nat) /\ Len(xs) = n
  BY ValuesNat, SizeAssumption
<1> HIDE DEF xs
<1>2. CASE Request(<<Packet(op, 0, xs)>>)
  <2>1. /\ StackInv' /\ S!Called
        /\ Pending' = [Pending EXCEPT ![k] = S!Give(Pending[k], f, S!Last(Pending[k], n), xs)]
    BY <1>1, <1>2, GaveLast
  <2>2. <<k, f>> \in S!PepFields
    BY DEF Gives, PepOps, S!PepFields
  <2> HIDE DEF k, f
  <2>3. \E kf \in S!PepFields, j \in Lens :
           Pending' = [Pending EXCEPT ![kf[1]] = S!Give(Pending[kf[1]], kf[2],
                          S!Last(Pending[kf[1]], j), S!Values(j))]
    <3> DEFINE kf == <<k, f>>
    <3>1. kf \in S!PepFields /\ kf[1] = k /\ kf[2] = f
      BY <2>2
    <3> HIDE DEF kf
    <3>2. Pending' = [Pending EXCEPT ![kf[1]] = S!Give(Pending[kf[1]], kf[2],
                          S!Last(Pending[kf[1]], n), S!Values(n))]
      BY <2>1, <3>1 DEF xs
    <3> QED
      BY <3>1, <3>2
  <2> QED
    BY <2>1, <2>3 DEF S!Pep
<1>3. CASE Request(<<>>)
  BY <1>3, Refused
<1>4. Len(xs) = 1 => One(op, xs[1]) = <<Packet(op, 0, xs)>>
  <2>1. Len(xs) = 1 => <<xs[1]>> = xs
    BY <1>1
  <2> QED
    BY <2>1 DEF One
<1>5. Request(<<Packet(op, 0, xs)>>) \/ Request(<<>>)
  BY <1>4 DEF Whole, xs
<1> QED
  BY <1>2, <1>3, <1>5

LEMMA PepStack ==
  ASSUME StackInv, PepVertices \/ PepMaterials \/ PepNormals \/ PepTexCoords
  PROVE  StackInv' /\ (S!Pep \/ UNCHANGED <<Pending, pushed, calls>>)
<1> DEFINE Gave(op, n) == /\ \/ Request(Whole(op, S!Values(n)))
                             \/ Len(S!Values(n)) = 1 /\ Request(One(op, S!Values(n)[1]))
                          /\ UNCHANGED pushed
<1>1. \E op \in PepOps \ {"PEP_LINE", "PEP_MAT_TEX"}, n \in Lens : Gave(op, n)
  <2> USE DEF Single, PepOps
  <2>1. CASE PepVertices
    <3>1. PICK n \in Lens : Gave("PEP_VERTEX", n)
      BY <2>1 DEF PepVertices, s3d_pep_vertices, s3d_pep_vertex
    <3> HIDE DEF Gave
    <3> QED
      BY <3>1
  <2>2. CASE PepMaterials
    <3>1. PICK n \in Lens : Gave("PEP_MAT", n)
      BY <2>2 DEF PepMaterials, s3d_pep_materials_a, s3d_pep_material, s3d_pep_material_a
    <3> HIDE DEF Gave
    <3> QED
      BY <3>1
  <2>3. CASE PepNormals
    <3>1. PICK n \in Lens : Gave("PEP_POLY_NORMAL", n) \/ Gave("PEP_LINE_NORMAL", n)
      BY <2>3 DEF PepNormals, s3d_pep_polygon_normals, s3d_pep_line_normals
    <3> HIDE DEF Gave
    <3> QED
      BY <3>1
  <2>4. CASE PepTexCoords
    <3>1. PICK n \in Lens : Gave("PEP_POLY_TEXC", n)
      BY <2>4 DEF PepTexCoords, s3d_pep_polygon_tex_coords, s3d_pep_polygon_tex_coord
    <3> HIDE DEF Gave
    <3> QED
      BY <3>1
  <2> QED
    BY <2>1, <2>2, <2>3, <2>4
<1> QED
  BY <1>1, GaveArray

LEMMA TextureStack ==
  ASSUME StackInv, PepMaterialTexture
  PROVE  StackInv' /\ S!PepTexture
<1>1. PICK t \in Indices : Request(<<Packet("PEP_MAT_TEX", 0, <<t>>)>>) /\ UNCHANGED pushed
  BY DEF PepMaterialTexture, s3d_pep_material_texture, One
<1> DEFINE xs == <<t>>
<1>2. xs \in Seq(Nat) /\ Len(xs) = 1
  BY SizeAssumption
<1>3. "PEP_MAT_TEX" \in PepOps \ {"PEP_LINE"} /\ Gives["PEP_MAT_TEX"][1] = "mat" /\ Gives["PEP_MAT_TEX"][2] = "tex"
  BY DEF PepOps, Gives
<1> HIDE DEF xs
<1>4. /\ StackInv' /\ S!Called
      /\ Pending' = [Pending EXCEPT !["mat"] = S!Give(Pending["mat"], "tex", S!Last(Pending["mat"], 1), xs)]
  BY <1>1, <1>2, <1>3, GaveLast DEF xs
<1> QED
  BY <1>1, <1>4 DEF S!PepTexture, xs

(* One line is given anew.                                                 *)
LEMMA LineStack ==
  ASSUME StackInv, Behaved, PepLines
  PROVE  StackInv' /\ (S!PepLine \/ UNCHANGED <<Pending, pushed, calls>>)
<1>1. PICK n \in Lens, ix \in Indices : LET xs == Entries("line", n, ix) IN
         /\ n = 1
         /\ \E ps \in {s3d_pep_lines(xs)} \cup Single(xs, s3d_pep_line(xs[1])) : Request(ps)
         /\ UNCHANGED pushed
  BY DEF PepLines, Behaved
<1> DEFINE xs == Entries("line", n, ix)
           p == Packet("PEP_LINE", 0, xs)
           l == Pending.line
           a == S!Last(l, n)
<1>2. n = 1 /\ n \in Lens /\ ix \in Nat /\ UNCHANGED pushed
  BY <1>1, SizeAssumption
<1>3. xs \in Seq(Line) /\ Len(xs) = 1 /\ <<xs[1]>> = xs /\ xs[1].n = 0 /\ DOMAIN xs = {1}
  <2>1. "line" \in Kinds /\ calls \in Nat /\ EntryOf["line"] = Line /\ n \in Nat \ {0}
    BY <1>2 DEF Kinds, StackInv, EntryOf
  <2>2. Entries("line", n, ix) \in Seq(Line) /\ Len(Entries("line", n, ix)) = n
    BY <1>2, <2>1, EntriesHave
  <2>3. xs[1] = S!Entry("line", S!Values(n)[1], ix)
    BY <1>2 DEF Entries
  <2>4. xs[1].n = 0
    BY <2>3 DEF S!Entry
  <2> HIDE DEF xs
  <2>5. xs \in Seq(Line) /\ Len(xs) = 1
    BY <1>2, <2>2 DEF xs
  <2>6. <<xs[1]>> = xs /\ DOMAIN xs = {1}
    BY <2>5
  <2> QED
    BY <2>4, <2>5, <2>6
<1>4. Request(<<p>>) \/ Request(<<>>)
  <2>1. \E ps \in {s3d_pep_lines(xs)} \cup Single(xs, s3d_pep_line(xs[1])) : Request(ps)
    BY <1>1
  <2> HIDE DEF xs
  <2>2. [i \in DOMAIN xs |-> xs[1]] = xs
    BY <1>3
  <2>3. s3d_pep_lines(xs) = Whole("PEP_LINE", xs)
    BY <2>2 DEF s3d_pep_lines
  <2>4. s3d_pep_line(xs[1]) = <<p>>
    BY <1>3 DEF s3d_pep_line, One
  <2> QED
    BY <2>1, <2>3, <2>4 DEF Whole, Single
<1>5. CASE Request(<<>>)
  BY <1>2, <1>5, Refused
<1>6. CASE Request(<<p>>)
  <2> HIDE DEF xs
  <2>1. p \in Fit /\ p.op = "PEP_LINE" /\ p.xs = xs
    <3>1. p \in Packets /\ p.op = "PEP_LINE" /\ p.xs = xs
      BY <1>3 DEF Packet, Packets
    <3> HIDE DEF p
    <3>2. p.op \notin ValueOps /\ p.op \notin DelOps /\ p.op # "PUSH_VERTEX"
      BY <3>1 DEF ValueOps, DelOps, PepOps, LoadOps
    <3> QED
      BY <3>1, <3>2 DEF Fit
  <2> HIDE DEF p
  <2>2. /\ obj' \in Begun /\ chan' \in Seq(Fit) /\ calls' \in Nat
        /\ Pending' = Carry(Pending, p) /\ S!Called /\ Pending \in Object /\ p \in Packets
    BY <1>6, <2>1, OneSent
  <2>3. Pending' = [Pending EXCEPT !["line"] = Relined(l, xs)] /\ l \in Seq(Line)
    BY <2>1, <2>2, LineForm
  <2>4. StackInv'
    <3>1. p.op \in PepOps
      BY <2>1 DEF PepOps
    <3>2. Kept(Pending, Pending')
      BY <2>2, <3>1, PepCarry
    <3> QED
      BY <1>2, <2>2, <3>2, SameCounts
  <2>5. Relined(l, xs) = [i \in DOMAIN l |-> IF i > a THEN S!Entry("line", S!Values(n)[i - a], ix) ELSE l[i]]
    <3> DEFINE m == Len(l)
               c == IF m < Len(xs) THEN m ELSE Len(xs)
               e == S!Entry("line", S!Values(n)[1], ix)
    <3>1. m \in Nat /\ DOMAIN l = 1 .. m
      BY <2>3
    <3> HIDE DEF l
    <3>2. m - c = a /\ a \in Nat /\ m <= a + 1
      <4>1. a = IF 1 < m THEN m - 1 ELSE 0
        BY <1>2 DEF S!Last
      <4>2. c = IF m < 1 THEN m ELSE 1
        BY <1>3
      <4> HIDE DEF a, c, m
      <4> QED
        BY <3>1, <4>1, <4>2
    <3>3. Relined(l, xs) = [i \in 1 .. m |-> IF i > m - c THEN [xs[i - (m - c)] EXCEPT !.n = 0] ELSE l[i]]
      BY <3>1 DEF Relined
    <3> HIDE DEF c, m, a
    <3>4. e = xs[1] /\ [e EXCEPT !.n = 0] = e
      <4>1. xs[1] = e
        BY <1>2 DEF xs, Entries
      <4>2. e = [id |-> S!Values(n)[1], v |-> ix, mat |-> ix, n |-> 0]
        BY DEF S!Entry
      <4> HIDE DEF e
      <4>3. [e EXCEPT !.n = 0] = e
        BY <4>2
      <4> QED
        BY <4>1, <4>3
    <3>5. ASSUME NEW i \in 1 .. m, i > a
          PROVE  i - a = 1
      BY <3>1, <3>2, <3>5
    <3>6. ASSUME NEW i \in 1 .. m, i > a
          PROVE  [xs[i - a] EXCEPT !.n = 0] = S!Entry("line", S!Values(n)[i - a], ix)
      <4>1. [xs[1] EXCEPT !.n = 0] = S!Entry("line", S!Values(n)[1], ix)
        BY <3>4
      <4>2. i - a = 1
        BY <3>5, <3>6
      <4> QED
        BY <4>1, <4>2
    <3> HIDE DEF e
    <3> QED
      BY <3>1, <3>2, <3>3, <3>6
  <2>6. S!PepLine
    <3>1. Pending' = [Pending EXCEPT !.line =
             [i \in DOMAIN l |-> IF i > a THEN S!Entry("line", S!Values(n)[i - a], ix) ELSE l[i]]]
      BY <2>3, <2>5
    <3> QED
      BY <1>2, <2>2, <3>1 DEF S!PepLine
  <2> QED
    BY <2>4, <2>6
<1> QED
  BY <1>4, <1>5, <1>6

(* Values for a field of the entries from a position on, in one packet.    *)
LEMMA SplitOnce ==
  ASSUME NEW op, NEW start \in Nat, NEW xs \in Seq(Nat), Len(xs) * Bytes + 8 <= MF_LEN
  PROVE  SplitAt(op, start, xs) = <<Packet(op, start, xs)>>
<1> DEFINE n == Len(xs)
           ps == Pieces(n, 8)
<1>1. n \in Nat /\ n * 4 + 8 <= MF_LEN
  BY DEF Bytes
<1>2. PICK m \in Nat \ {0}, last \in Nat \ {0} :
           /\ MF_LEN - 8 = 4 * m + 2 /\ last = (n * 4) \div (4 * m + 2) + 1
           /\ DOMAIN ps = 1 .. last
           /\ \A f \in 1 .. last :
                /\ (f - 1) * m \in 0 .. n /\ f * m = (f - 1) * m + m
                /\ ps[f].from \in Nat /\ ps[f].from \div Bytes = (f - 1) * m
                /\ ps[f].n = IF n - (f - 1) * m > m THEN m ELSE n - (f - 1) * m
  BY <1>1, PiecesFit
<1>3. n <= m /\ last = 1
  <2>1. MF_LEN \in Nat
    BY SizeAssumption
  <2>2. n * 4 < 4 * m + 2
    BY <1>1, <1>2, <2>1
  <2>3. (n * 4) \div (4 * m + 2) = 0
    <3> DEFINE a == n * 4
               b == 4 * m + 2
    <3>1. a \in Nat /\ b \in Nat \ {0} /\ a < b
      BY <1>1, <2>2
    <3> HIDE DEF a, b
    <3>2. a \div b = 0
      BY <3>1
    <3> QED
      BY <3>2 DEF a, b
  <2> QED
    BY <1>1, <1>2, <2>2, <2>3
<1>4. ps[1].from = 0
  <2>1. 1 \in DOMAIN ps
    BY <1>2, <1>3
  <2> DEFINE stepl == ((MF_LEN - 8) \div Bytes) * Bytes
             flen(i) == IF n * Bytes - i * stepl > stepl THEN stepl ELSE n * Bytes - i * stepl
  <2>2. ps = [f \in 1 .. (n * Bytes) \div (MF_LEN - 8) + 1 |->
                [from |-> (f - 1) * stepl, n |-> flen(f - 1) \div Bytes]]
    BY DEF Pieces
  <2>3. stepl \in Int
    BY SizeAssumption DEF Bytes
  <2> HIDE DEF stepl, flen, ps
  <2>4. ps[1].from = (1 - 1) * stepl
    BY <2>1, <2>2
  <2> QED
    BY <2>3, <2>4
<1>5. ps[1].n = n
  BY <1>1, <1>2, <1>3
<1>6. Piece(xs, ps[1]) = xs
  <2> DEFINE w == SubSeq(xs, 1, n)
  <2>1. Piece(xs, ps[1]) = w
    BY <1>4, <1>5 DEF Piece, Bytes
  <2>2. w \in Seq(Nat) /\ Len(w) = n /\ \A i \in 1 .. n : w[i] = xs[i]
    <3>1. \A i \in 1 .. n : xs[i] \in Nat
      OBVIOUS
    <3> QED
      BY <1>1, <3>1, SubSeqProperties
  <2> HIDE DEF w
  <2>3. w = xs
    BY <1>1, <2>2, SameEntries
  <2> QED
    BY <2>1, <2>3
<1>7. SplitAt(op, start, xs) = [f \in DOMAIN ps |-> Packet(op, start + ps[f].from, Piece(xs, ps[f]))]
  BY DEF SplitAt
<1> HIDE DEF ps
<1>8. DOMAIN ps = {1}
  BY <1>2, <1>3
<1>9. SplitAt(op, start, xs) = [f \in {1} |-> Packet(op, start, xs)]
  <2>1. start + 0 = start
    OBVIOUS
  <2> QED
    BY <1>4, <1>6, <1>7, <1>8, <2>1
<1> QED
  BY <1>9

LEMMA LoadStack ==
  ASSUME StackInv, Behaved, LoadArray
  PROVE  StackInv' /\ S!Load
<1>1. PICK n \in Lens, start \in Starts, op \in LoadOps :
         Request(SplitAt(op, start, S!Values(n))) /\ UNCHANGED pushed /\ n * Bytes + 8 <= MF_LEN
  BY DEF LoadArray, s3d_load_polygon_normals, s3d_load_line_normals,
         s3d_load_polygon_tex_coords, s3d_load_materials_a, LoadOps, Behaved
<1> DEFINE xs == S!Values(n)
           p == Packet(op, start, xs)
           k == Gives[op][1]
           f == Gives[op][2]
           s == Pending[k]
<1>2. xs \in Seq(Nat) /\ Len(xs) = n /\ xs # <<>> /\ start \in Nat /\ n \in Nat
  BY ValuesNat, SizeAssumption
<1> HIDE DEF xs
<1>3. Request(<<p>>)
  BY <1>1, <1>2, SplitOnce DEF xs
<1>4. p \in Fit /\ p.op = op /\ p.xs = xs /\ p.at = start
  BY <1>2, FitValues DEF ValueOps, Packet
<1> HIDE DEF p
<1>5. /\ obj' \in Begun /\ chan' \in Seq(Fit) /\ calls' \in Nat
      /\ Pending' = Carry(Pending, p) /\ S!Called /\ Pending \in Object /\ p \in Packets
  BY <1>3, <1>4, OneSent
<1>6. Pending' = [Pending EXCEPT ![k] = Over(s, start, xs, f)] /\ <<k, f>> \in Fields
  BY <1>2, <1>4, <1>5, LoadForm
<1>7. StackInv'
  <2>1. Kept(Pending, Pending')
    BY <1>4, <1>5, LoadCarry
  <2> QED
    BY <1>1, <1>5, <2>1, SameCounts
<1>8. Over(s, start, xs, f) = S!Give(s, f, start, xs)
  <2> HIDE DEF k, f
  <2>1. s \in Seq(EntryOf[k])
    BY <1>5, <1>6, FieldsOf DEF Object, EntryOf, Kinds
  <2> DEFINE m == Len(s)
  <2>2. m \in Nat /\ DOMAIN s = 1 .. m /\ DOMAIN xs = 1 .. n
    BY <1>2, <2>1
  <2> HIDE DEF s
  <2> QED
    BY <1>2, <2>2, OverGive
<1>9. S!Load
  <2>1. <<k, f>> \in S!LoadFields
    BY DEF Gives, LoadOps, S!LoadFields
  <2>2. Pending' = [Pending EXCEPT ![k] = S!Give(Pending[k], f, start, xs)]
    BY <1>6, <1>8
  <2> HIDE DEF k, f
  <2> DEFINE kf == <<k, f>>
  <2>3. kf \in S!LoadFields /\ kf[1] = k /\ kf[2] = f
    BY <2>1
  <2> HIDE DEF kf
  <2>4. Pending' = [Pending EXCEPT ![kf[1]] = S!Give(Pending[kf[1]], kf[2], start, S!Values(n))]
    BY <2>2, <2>3 DEF xs
  <2> QED
    BY <1>1, <1>5, <2>3, <2>4 DEF S!Load
<1> QED
  BY <1>7, <1>9

LEMMA FlagStack ==
  ASSUME StackInv, TurnFlags
  PROVE  StackInv' /\ S!Toggle
<1>1. PICK g \in S!Flags, op \in FlagOps : Request(<<Packet(op, 0, <<g>>)>>) /\ UNCHANGED pushed
  BY DEF TurnFlags, s3d_flags_on, s3d_flags_off, FlagOps
<1> DEFINE p == Packet(op, 0, <<g>>)
           on == op = "FLAGS_ON"
<1>2. p \in Packets /\ p.op = op /\ p.xs[1] = g
  BY DEF Packet, Packets, S!Flags
<1>3. p \in Fit
  <2>1. op \notin ValueOps /\ op \notin DelOps /\ op # "PUSH_VERTEX"
    BY DEF FlagOps, ValueOps, DelOps, PepOps, LoadOps
  <2> HIDE DEF p
  <2> QED
    BY <1>2, <2>1 DEF Fit
<1> HIDE DEF p
<1>4. /\ obj' \in Begun /\ chan' \in Seq(Fit) /\ calls' \in Nat
      /\ Pending' = Carry(Pending, p) /\ S!Called /\ Pending \in Object
  BY <1>1, <1>3, OneSent DEF p
<1>5. StackInv'
  <2>1. \A k \in Kinds : Pending'[k] = Pending[k]
    BY <1>2, <1>4, FlagCarry
  <2> QED
    BY <1>1, <1>4, <2>1, SameCounts
<1>6. Pending' = [Pending EXCEPT !.flags = IF on THEN @ \cup {g} ELSE @ \ {g}]
  <2>1. Carry(Pending, p) = obj_toggle_flags(Pending, on, {g})
    BY <1>2 DEF Carry, FlagOps, PushOps, PepOps, LoadOps, DelOps
  <2> QED
    BY <1>4, <2>1 DEF obj_toggle_flags
<1>7. S!Toggle
  <2>1. on \in BOOLEAN
    OBVIOUS
  <2> HIDE DEF on
  <2> QED
    BY <1>1, <1>4, <1>6, <2>1 DEF S!Toggle
<1> QED
  BY <1>5, <1>7

(* An object that nothing has been sent to yet.                            *)
LEMMA StacksBegin ==
  ASSUME Given \subseteq {o \in Begun : \A i \in 1 .. Len(o.poly) : o.poly[i].n >= 0}, Init
  PROVE  StackInv /\ S!Init
<1>1. /\ obj \in Given /\ obj \in Begun /\ obj \in Object /\ chan = <<>> /\ calls = 0
      /\ pushed = [k \in Kinds |-> Len(obj[k])]
      /\ \A i \in 1 .. Len(obj.poly) : obj.poly[i].n >= 0
  BY DEF Init, S!Kinds, Kinds, Begun
<1>2. Uncomputed(obj) = obj
  <2>1. obj.poly \in Seq(Polygon)
    BY <1>1 DEF Object
  <2>2. AsGiven(obj.poly) = obj.poly
    <3> DEFINE s == obj.poly
    <3>1. /\ AsGiven(s) \in Seq(Polygon) /\ Len(AsGiven(s)) = Len(s)
          /\ \A i \in 1 .. Len(s) : AsGiven(s)[i] = Cleared(s[i])
      BY <2>1, AsGivenIs
    <3>2. \A i \in 1 .. Len(s) : Cleared(s[i]) = s[i]
      BY <1>1, <2>1, ClearedEntry
    <3> HIDE DEF s
    <3>3. AsGiven(s) = s
      BY <2>1, <3>1, <3>2, SameEntries DEF s
    <3> QED
      BY <3>3 DEF s
  <2> QED
    BY <1>1, <2>2 DEF Uncomputed, Object
<1>3. Pending = obj
  <2>1. Carried(obj, <<>>) = obj
    BY CarriedNone
  <2> QED
    BY <1>1, <1>2, <2>1 DEF Pending
<1>4. chan \in Seq(Fit) /\ calls \in Nat
  BY <1>1
<1>5. \A k \in Kinds : Len(obj[k]) \in Nat
  BY <1>1, LenNat
<1>6. pushed \in [Kinds -> Nat] /\ \A k \in Kinds : pushed[k] = Len(Pending[k])
  BY <1>1, <1>3, <1>5
<1>7. StackInv
  BY <1>1, <1>4, <1>6 DEF StackInv
<1>8. S!Init
  BY <1>1, <1>3 DEF S!Init, S!Kinds, Kinds
<1> QED
  BY <1>7, <1>8

(* A request, however it was split into packets and whichever of the two   *)
(* sides cut it short, does to the stacks what proto_out.c promises of it, *)
(* whenever the packets arrive and however often a frame has been drawn in *)
(* between: the object, after all that is under way, goes from one state   *)
(* of Stacks to the next.  It is for programs that pop with numbers that   *)
(* fit and half of their textures, and load and give anew no more than one *)
(* packet holds, for arrays of which the pieces leave nothing out, and for *)
(* objects with no computed normals at first.                              *)
THEOREM DataImplementsStacks ==
  ASSUME Behaved, \A n \in Lens : Covered(n), Indices # {},
         Given \subseteq {o \in Begun : \A i \in 1 .. Len(o.poly) : o.poly[i].n >= 0}
  PROVE  Spec => ImplementsStacks
<1>1. Init => StackInv /\ S!Init
  BY StacksBegin
<1>2. StackInv /\ [Next]_vars => StackInv' /\ [S!Next]_<<Pending, pushed, calls>>
  <2> SUFFICES ASSUME StackInv, [Next]_vars
               PROVE  StackInv' /\ (S!Next \/ UNCHANGED <<Pending, pushed, calls>>)
    OBVIOUS
  <2>1. CASE PushVertex \/ PushMaterial \/ PushPolygon \/ PushLine \/ PushTexture
    BY <2>1, PushStack DEF S!Next
  <2>2. CASE PopVertex \/ PopMaterial \/ PopPolygon \/ PopLine \/ PopTexture
    BY <2>2, PopStack DEF S!Next
  <2>3. CASE PepVertices \/ PepMaterials \/ PepNormals \/ PepTexCoords
    BY <2>3, PepStack DEF S!Next
  <2>4. CASE PepMaterialTexture
    BY <2>4, TextureStack DEF S!Next
  <2>5. CASE PepLines
    BY <2>5, LineStack DEF S!Next
  <2>6. CASE LoadArray
    BY <2>6, LoadStack DEF S!Next
  <2>7. CASE TurnFlags
    BY <2>7, FlagStack DEF S!Next
  <2>8. CASE ProtComIn
    BY <2>8, TakesStutter
  <2>9. CASE Render
    BY <2>9, RenderStutters
  <2>10. CASE UNCHANGED vars
    <3>1. UNCHANGED <<obj, chan, pushed, calls>>
      BY <2>10 DEF vars
    <3> QED
      BY <3>1 DEF StackInv, Pending
  <2> QED
    BY <2>1, <2>2, <2>3, <2>4, <2>5, <2>6, <2>7, <2>8, <2>9, <2>10 DEF Next
<1> QED
  BY <1>1, <1>2, PTL DEF Spec, ImplementsStacks, S!Spec
=============================================================================
