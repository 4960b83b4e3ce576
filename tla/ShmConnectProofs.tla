--------------------------- MODULE ShmConnectProofs ---------------------------
(***************************************************************************)
(* Proofs about ShmConnect: when no two programs read the words of the key *)
(* file at the same time ("race" \notin Uses), a program whose INIT was    *)
(* answered has the two rings of one slot to itself, for any number of     *)
(* programs and whoever dies where, between the two words too.             *)
(***************************************************************************)
EXTENDS ShmConnect, TLAPS

Segment(k, d) == [pair |-> k, dir |-> d]

(* No program has sent its INIT by that pair. *)
Fresh(k) == k \notin request /\ k \notin answer

(* A client that has taken both words. *)
Owning == {"get in", "get out", "send", "wait", "ready", "failed"}

TypeInv ==
  /\ pair \in Nat \ {0}
  /\ data \in [in : {0, pair}, out : {0, pair}]
  /\ server \in {"loop", "remove", "offer", "offered"}
  /\ pc \in [Clients -> Zeroing \union Owning \union {"start", "dead"}]
  /\ key \in [Clients -> [in : Nat, out : Nat]]
  /\ attached \in [Clients -> SUBSET [pair : Nat, dir : {"in", "out"}]]

(* The words are offered from the second to the first and are taken from   *)
(* the first to the second, and a pair on offer was never used.            *)
OfferInv ==
  /\ data.in # 0 => data.out # 0 /\ server \notin {"offer", "offered"}
  /\ server = "offer" => data.out = 0
  /\ server = "offered" => data.out # 0
  /\ Slots \subseteq 1 .. pair - 1
  /\ server # "remove" => doomed = 0
  /\ request \subseteq 1 .. pair /\ answer \subseteq 1 .. pair
  /\ data.in # 0 \/ server \in {"offer", "offered"} => Fresh(pair)

(* Programs take the words one at a time, and the one that does sees the   *)
(* pair on offer.                                                          *)
ZeroingInv ==
  /\ \A c, d \in Clients : pc[c] \in Zeroing /\ pc[d] \in Zeroing => c = d
  /\ \A c \in Clients :
       /\ pc[c] \in {"read out", "clear in", "clear out"} =>
            key[c].in = pair /\ Fresh(pair)
       /\ pc[c] \in {"read out", "clear in"} => data.in # 0
       /\ pc[c] \in {"clear in", "clear out"} => key[c].out = pair
       /\ pc[c] = "clear out" =>
            data.in = 0 /\ data.out # 0 /\ server \notin {"offer", "offered"}

(* Who has taken a pair has read it from both words, and is answered for a *)
(* slot that stays.                                                        *)
Owner(c) ==
  /\ key[c].in = key[c].out /\ key[c].in \in 1 .. pair
  /\ key[c].in = pair => data.out = 0 /\ server \notin {"offer", "offered"}
  /\ pc[c] \in {"get in", "get out", "send"} => Fresh(key[c].in)
  /\ pc[c] \in {"wait", "ready"} /\ key[c].in \in answer => key[c].in \in Slots \ {doomed}
  /\ pc[c] = "ready" => key[c].in \in answer

(* No two programs have the same pair.                                     *)
OwningInv ==
  /\ \A c \in Clients : pc[c] \in Owning => Owner(c)
  /\ \A c, d \in Clients :
       pc[c] \in Owning /\ pc[d] \in Owning /\ c # d => key[c].in # key[d].in

(* Clients are attached to the pair they took.                             *)
AttachedInv == \A c \in Clients :
  /\ attached[c] \subseteq {Segment(key[c].in, "in"), Segment(key[c].in, "out")}
  /\ pc[c] \notin Owning => attached[c] = {}
  /\ pc[c] \in {"send", "wait", "ready"} => Segment(key[c].in, "out") \in attached[c]

Inv == TypeInv /\ OfferInv /\ ZeroingInv /\ OwningInv /\ AttachedInv

(* Pairs are numbered from 1. *)
LEMMA LastOfRange == \A p \in Nat \ {0} : p \in 1 .. p
OBVIOUS

-----------------------------------------------------------------------------
(* The server *)

(* An answer goes to a slot that is not being given up. *)
LEMMA ServeInv ==
  ASSUME Inv, NEW k \in Slots, Serve(k)
  PROVE  Inv'
<1> USE DEF Inv, Serve
<1>1. TypeInv'
  BY DEF TypeInv
<1>2. Slots' = Slots /\ doomed' = 0
  BY DEF Slots, OfferInv
<1>3. k \in request /\ \A j : Fresh(j)' <=> Fresh(j)
  BY DEF Fresh
<1>4. OfferInv'
  BY <1>2, <1>3 DEF OfferInv
<1>5. ZeroingInv'
  BY <1>3 DEF ZeroingInv
<1>6. ASSUME NEW c \in Clients, pc[c] \in Owning
      PROVE  Owner(c)'
  <2>1. Owner(c) /\ Slots \subseteq 1 .. pair - 1 /\ doomed = 0
    BY <1>6 DEF OwningInv, OfferInv
  <2>2. k \in Slots \ {doomed}
    BY <2>1 DEF TypeInv
  <2>3. Fresh(key[c].in)' <=> Fresh(key[c].in)
    BY <1>3
  <2> QED
    BY <1>2, <2>1, <2>2, <2>3 DEF Owner
<1>8. OwningInv'
  BY <1>6 DEF OwningInv
<1>7. AttachedInv'
  BY DEF AttachedInv
<1> QED
  BY <1>1, <1>4, <1>5, <1>7, <1>8

(* A slot is given up when nobody is attached, so nobody was answered.     *)
LEMMA IdleInv ==
  ASSUME Inv, NEW k \in Slots, Idle(k)
  PROVE  Inv'
<1>1. /\ UNCHANGED <<data, pair, exists, request, answer, pc, key, attached, looks>>
      /\ server = "loop" /\ Slots' = Slots
      /\ \/ server' = server /\ doomed' = doomed
         \/ server' = "remove" /\ doomed' = k /\ Alone(k)
  BY DEF Idle, Slots
<1> USE <1>1 DEF Inv
<1>2. TypeInv'
  BY DEF TypeInv
<1>3. OfferInv'
  BY DEF OfferInv, Fresh
<1>4. ZeroingInv'
  BY DEF ZeroingInv, Fresh
<1>5. \A c \in Clients : pc[c] \in {"wait", "ready"} /\ doomed' = k /\ doomed' # doomed => key[c].in # k
  BY DEF Alone, AttachedInv, Segment
<1>6. OwningInv'
  BY <1>5 DEF OwningInv, Owner, Fresh
<1>7. AttachedInv'
  BY DEF AttachedInv
<1> QED
  BY <1>2, <1>3, <1>4, <1>6, <1>7

(* Only the slot found alone goes. *)
LEMMA RemoveInv ==
  ASSUME Inv, Remove
  PROVE  Inv'
<1>1. /\ UNCHANGED <<data, pair, request, answer, pc, key, attached, looks>>
      /\ server = "remove" /\ server' = "loop" /\ doomed' = 0
      /\ Slots' = Slots \ {doomed}
  BY DEF Remove, Slots
<1> USE <1>1 DEF Inv
<1>2. TypeInv'
  BY DEF TypeInv
<1>3. OfferInv'
  BY DEF OfferInv, Fresh
<1>4. ZeroingInv'
  BY DEF ZeroingInv, Fresh
<1>5. OwningInv'
  <2>1. ASSUME NEW c \in Clients, pc[c] \in Owning
        PROVE  Owner(c)'
    <3>1. Owner(c)
      BY <2>1 DEF OwningInv
    <3>2. key[c].in # 0
      <4>1. key[c].in \in 1 .. pair
        BY <3>1 DEF Owner
      <4> QED
        BY <4>1 DEF TypeInv
    <3> QED
      BY <3>1, <3>2 DEF Owner, Fresh
  <2> QED
    BY <2>1 DEF OwningInv
<1>6. AttachedInv'
  BY DEF AttachedInv
<1> QED
  BY <1>2, <1>3, <1>4, <1>5, <1>6

(* The pair that was taken becomes a slot; nobody is taking the next.      *)
LEMMA RegisterInv ==
  ASSUME Inv, Register
  PROVE  Inv'
<1>1. /\ UNCHANGED <<data, doomed, request, answer, pc, key, attached, looks>>
      /\ server = "loop" /\ data.in = 0 /\ data.out = 0
      /\ pair' = pair + 1 /\ server' = "offer"
      /\ Slots' = Slots \union {pair}
  BY DEF Register, Slots, Taken
<1> USE <1>1 DEF Inv
<1>2. TypeInv'
  BY DEF TypeInv
<1>3. OfferInv'
  BY DEF OfferInv, TypeInv, Fresh
<1>4. \A c \in Clients : pc[c] \notin {"read out", "clear in", "clear out"}
  BY DEF ZeroingInv
<1>5. ZeroingInv'
  BY <1>4 DEF ZeroingInv
<1>6. OwningInv'
  <2>1. ASSUME NEW c \in Clients, pc[c] \in Owning
        PROVE  Owner(c)'
    <3>1. Owner(c) /\ pair \in Nat
      BY <2>1 DEF OwningInv, TypeInv
    <3>2. key[c].in \in 1 .. pair' /\ key[c].in # pair'
      <4>1. key[c].in \in 1 .. pair
        BY <3>1 DEF Owner
      <4> QED
        BY <3>1, <4>1
    <3> QED
      BY <3>1, <3>2 DEF Owner, Fresh
  <2> QED
    BY <2>1 DEF OwningInv
<1>7. AttachedInv'
  BY DEF AttachedInv
<1> QED
  BY <1>2, <1>3, <1>5, <1>6, <1>7

(* A word is written while no program is past reading them. *)
LEMMA OfferKeepsInv ==
  ASSUME Inv, Offer
  PROVE  Inv'
<1>1. /\ UNCHANGED <<pair, doomed, idle, exists, request, answer, pc, key, attached, looks>>
      /\ Slots' = Slots /\ server \in {"offer", "offered"} /\ data.in = 0
  BY DEF Offer, Slots, Inv, OfferInv
<1>2. \/ data' = [data EXCEPT !.out = pair] /\ server' = "offered" /\ server = "offer"
      \/ data' = [data EXCEPT !.in = pair] /\ server' = "loop" /\ server = "offered"
  BY DEF Offer
<1> USE <1>1, <1>2 DEF Inv
<1>3. TypeInv'
  BY DEF TypeInv
<1>4. OfferInv'
  BY DEF OfferInv, TypeInv, Fresh
<1>5. \A c \in Clients : pc[c] \notin {"read out", "clear in", "clear out"}
  BY DEF ZeroingInv
<1>6. ZeroingInv'
  BY <1>5 DEF ZeroingInv
<1>7. OwningInv'
  BY DEF OwningInv, Owner, Fresh
<1>8. AttachedInv'
  BY DEF AttachedInv
<1> QED
  BY <1>3, <1>4, <1>6, <1>7, <1>8

-----------------------------------------------------------------------------
(* The clients *)

(* A client begins when no other is at the words. *)
LEMMA StartInv ==
  ASSUME "race" \notin Uses, Inv, NEW c \in Clients, Start(c)
  PROVE  Inv'
<1>1. /\ UNCHANGED <<srv, data, request, key, attached, looks>>
      /\ UNCHANGED <<pair, server, doomed, answer>> /\ Slots' = Slots
      /\ pc[c] = "start" /\ pc' = [pc EXCEPT ![c] = "read in"]
      /\ \A d \in Clients : pc[d] \notin Zeroing
  BY DEF Start, Go, srv, Slots
<1> USE <1>1 DEF Inv, Zeroing, Owning
<1>2. TypeInv'
  BY DEF TypeInv
<1>3. OfferInv'
  BY DEF OfferInv, Fresh
<1>4. ZeroingInv'
  BY DEF ZeroingInv, TypeInv
<1>5. OwningInv'
  BY DEF OwningInv, Owner, TypeInv, Fresh
<1>6. AttachedInv'
  BY DEF AttachedInv, TypeInv
<1> QED
  BY <1>2, <1>3, <1>4, <1>5, <1>6

(* Once the first word is there, so is the second, of the same pair.       *)
LEMMA ReadInv ==
  ASSUME Inv, NEW c \in Clients, Read(c)
  PROVE  Inv'
<1>1. /\ UNCHANGED <<srv, data, request, attached, looks>>
      /\ UNCHANGED <<pair, server, doomed, answer>> /\ Slots' = Slots
  BY DEF Read, Go, srv, Slots
<1>2. \/ /\ pc[c] = "read in" /\ key' = [key EXCEPT ![c].in = data.in]
         /\ pc' = [pc EXCEPT ![c] = IF data.in = 0 THEN "read in" ELSE "read out"]
      \/ /\ pc[c] = "read out" /\ key' = [key EXCEPT ![c].out = data.out]
         /\ pc' = [pc EXCEPT ![c] = "clear in"]
  BY DEF Read, Go, Inv, ZeroingInv, OfferInv
<1> USE <1>1 DEF Inv
<1>8. /\ \A d \in Clients \ {c} : pc'[d] = pc[d] /\ key'[d] = key[d]
      /\ \/ pc[c] = "read in" /\ pc'[c] = "read in"
         \/ /\ pc[c] = "read in" /\ pc'[c] = "read out"
            /\ data.in # 0 /\ key'[c].in = data.in
         \/ /\ pc[c] = "read out" /\ pc'[c] = "clear in"
            /\ key'[c].in = key[c].in /\ key'[c].out = data.out
  <2>1. key[c] \in [in : Nat, out : Nat] /\ c \in DOMAIN key /\ c \in DOMAIN pc
    BY DEF TypeInv
  <2>2. \A d \in Clients : d \in DOMAIN key /\ d \in DOMAIN pc
    BY DEF TypeInv
  <2>3. CASE /\ pc[c] = "read in" /\ key' = [key EXCEPT ![c].in = data.in]
             /\ pc' = [pc EXCEPT ![c] = IF data.in = 0 THEN "read in" ELSE "read out"]
    BY <2>1, <2>2, <2>3
  <2>4. CASE /\ pc[c] = "read out" /\ key' = [key EXCEPT ![c].out = data.out]
             /\ pc' = [pc EXCEPT ![c] = "clear in"]
    <3>1. key'[c].in = key[c].in /\ key'[c].out = data.out
      BY <2>1, <2>4
    <3> QED
      BY <2>1, <2>2, <2>4, <3>1
  <2> QED
    BY <1>2, <2>3, <2>4
<1>3. TypeInv'
  <2>1. data.in \in Nat /\ data.out \in Nat
    BY DEF TypeInv
  <2>2. pc' \in [Clients -> Zeroing \union Owning \union {"start", "dead"}]
    BY <1>2 DEF TypeInv, Zeroing
  <2>3. key' \in [Clients -> [in : Nat, out : Nat]]
    <3>1. CASE key' = [key EXCEPT ![c].in = data.in]
      BY <2>1, <3>1 DEF TypeInv
    <3>2. CASE key' = [key EXCEPT ![c].out = data.out]
      BY <2>1, <3>2 DEF TypeInv
    <3> QED
      BY <1>2, <3>1, <3>2
  <2> QED
    BY <2>2, <2>3 DEF TypeInv
<1>4. OfferInv'
  BY DEF OfferInv, Fresh
<1>5. ZeroingInv'
  <2>1. \A d \in Clients : pc'[d] \in Zeroing => pc[d] \in Zeroing
    BY <1>8 DEF Zeroing
  <2>2. \A d, e \in Clients : pc'[d] \in Zeroing /\ pc'[e] \in Zeroing => d = e
    BY <2>1 DEF ZeroingInv
  <2>3. data.in \in {0, pair} /\ data.out \in {0, pair} /\ pair # 0
    BY DEF TypeInv
  <2>4. ASSUME NEW d \in Clients
        PROVE  /\ pc'[d] \in {"read out", "clear in", "clear out"} =>
                    key'[d].in = pair /\ Fresh(pair)
               /\ pc'[d] \in {"read out", "clear in"} => data.in # 0
               /\ pc'[d] \in {"clear in", "clear out"} => key'[d].out = pair
               /\ pc'[d] = "clear out" =>
                    data.in = 0 /\ data.out # 0 /\ server \notin {"offer", "offered"}
    <3>1. CASE d # c
      BY <1>8, <3>1 DEF ZeroingInv
    <3>2. CASE d = c
      BY <1>8, <2>3, <3>2 DEF ZeroingInv, OfferInv
    <3> QED
      BY <3>1, <3>2
  <2> QED
    BY <2>2, <2>4 DEF ZeroingInv, Fresh
<1>9. \A d \in Clients :
        /\ pc'[d] \in Owning <=> pc[d] \in Owning
        /\ pc[d] \in Owning => d # c
  BY <1>8 DEF Owning
<1>6. OwningInv'
  BY <1>8, <1>9 DEF OwningInv, Owner, Fresh
<1>7. AttachedInv'
  <2>1. attached[c] = {} /\ pc'[c] \notin {"send", "wait", "ready"}
    BY <1>8 DEF AttachedInv, Owning
  <2> QED
    BY <1>8, <1>9, <2>1 DEF AttachedInv
<1> QED
  BY <1>3, <1>4, <1>5, <1>6, <1>7

(* The words are cleared by the one that has read both, and the pair is    *)
(* its own from then on.                                                   *)
LEMMA ClearInv ==
  ASSUME Inv, NEW c \in Clients, Clear(c)
  PROVE  Inv'
<1>1. /\ UNCHANGED <<srv, request, key, attached, looks>>
      /\ UNCHANGED <<pair, server, doomed, answer>> /\ Slots' = Slots
  BY DEF Clear, Go, srv, Slots
<1>2. \/ pc[c] = "clear in" /\ pc' = [pc EXCEPT ![c] = "clear out"] /\ data' = [data EXCEPT !.in = 0]
      \/ pc[c] = "clear out" /\ pc' = [pc EXCEPT ![c] = "get in"] /\ data' = [data EXCEPT !.out = 0]
  BY DEF Clear, Go
<1> USE <1>1, <1>2 DEF Inv, Zeroing, Owning
<1>3. TypeInv'
  BY DEF TypeInv
<1>4. OfferInv'
  BY DEF OfferInv, ZeroingInv, TypeInv
<1>5. ZeroingInv'
  BY DEF ZeroingInv, TypeInv, OfferInv, Fresh
<1>6. \A d \in Clients : pc[d] \in Owning => key[d].in # pair
  BY DEF ZeroingInv, OwningInv, Owner, OfferInv
<1>9. /\ \A d \in Clients \ {c} : pc'[d] = pc[d]
      /\ data'.out # data.out => data'.out = 0 /\ server \notin {"offer", "offered"}
      /\ pc'[c] \in Owning => pc[c] = "clear out" /\ pc'[c] = "get in" /\ data'.out = 0
  BY DEF TypeInv, ZeroingInv
<1>10. ASSUME NEW d \in Clients, pc'[d] \in Owning
       PROVE  Owner(d)'
  <2>1. CASE d = c
    <3>1. /\ pc[c] = "clear out" /\ pc'[c] = "get in" /\ data'.out = 0
          /\ key[c].in = pair /\ key[c].out = pair /\ Fresh(pair)
          /\ server \notin {"offer", "offered"}
      BY <1>9, <1>10, <2>1 DEF ZeroingInv
    <3>2. pair \in 1 .. pair
      <4>1. \A p \in Nat \ {0} : p \in 1 .. p
        BY LastOfRange
      <4> QED
        BY <4>1 DEF TypeInv
    <3> QED
      BY <2>1, <3>1, <3>2 DEF Owner, Fresh
  <2>2. CASE d # c
    <3>1. Owner(d) /\ key[d].in # pair
      BY <1>6, <1>9, <1>10, <2>2 DEF OwningInv
    <3> QED
      BY <1>9, <2>2, <3>1 DEF Owner, Fresh
  <2> QED
    BY <2>1, <2>2
<1>11. pc'[c] \in Owning => key[c].in = pair
  BY <1>9 DEF ZeroingInv
<1>7. OwningInv'
  <2>1. ASSUME NEW d \in Clients, NEW e \in Clients, pc'[d] \in Owning, pc'[e] \in Owning, d # e
        PROVE  key[d].in # key[e].in
    <3>1. CASE d = c
      BY <1>6, <1>9, <1>11, <2>1, <3>1
    <3>2. CASE e = c
      BY <1>6, <1>9, <1>11, <2>1, <3>2
    <3>3. CASE d # c /\ e # c
      BY <1>9, <2>1, <3>3 DEF OwningInv
    <3> QED
      BY <3>1, <3>2, <3>3
  <2> QED
    BY <1>10, <2>1 DEF OwningInv
<1>8. AttachedInv'
  BY DEF AttachedInv, TypeInv
<1> QED
  BY <1>3, <1>4, <1>5, <1>7, <1>8

(* shmat(), shmat() *)
LEMMA AttachInv ==
  ASSUME Inv, NEW c \in Clients, Attach(c)
  PROVE  Inv'
<1>1. /\ UNCHANGED <<srv, data, request, key, looks>>
      /\ UNCHANGED <<pair, server, doomed, answer>> /\ Slots' = Slots
  BY DEF Attach, Go, srv, Slots
<1>2. /\ pc[c] \in {"get in", "get out"}
      /\ \/ /\ pc' = [pc EXCEPT ![c] = "failed"] /\ attached' = attached
         \/ /\ pc[c] = "get in" /\ pc' = [pc EXCEPT ![c] = "get out"]
            /\ attached' = [attached EXCEPT ![c] = {Segment(key[c].in, "in")}]
         \/ /\ pc[c] = "get out" /\ pc' = [pc EXCEPT ![c] = "send"]
            /\ attached' = [attached EXCEPT ![c] = @ \union {Segment(key[c].in, "out")}]
  BY DEF Attach, Go, Segment, Inv, OwningInv, Owner, Owning
<1> USE <1>1 DEF Inv
<1>3. /\ pc[c] \in Owning /\ pc'[c] \in {"failed", "get out", "send"}
      /\ pc'[c] = "get out" => pc[c] = "get in"
      /\ pc'[c] = "send" => pc[c] = "get out"
      /\ \A d \in Clients \ {c} : pc'[d] = pc[d] /\ attached'[d] = attached[d]
  BY <1>2 DEF TypeInv, Owning
<1>4. key[c].in \in Nat
  BY DEF TypeInv
<1>5. /\ attached'[c] \subseteq {Segment(key[c].in, "in"), Segment(key[c].in, "out")}
      /\ pc'[c] = "send" => Segment(key[c].in, "out") \in attached'[c]
  <2>1. /\ c \in DOMAIN attached
        /\ attached[c] \subseteq {Segment(key[c].in, "in"), Segment(key[c].in, "out")}
    BY DEF AttachedInv, TypeInv
  <2>2. CASE attached' = attached /\ pc'[c] = "failed"
    BY <2>1, <2>2
  <2>3. CASE attached' = [attached EXCEPT ![c] = {Segment(key[c].in, "in")}] /\ pc'[c] = "get out"
    BY <2>1, <2>3
  <2>4. CASE attached' = [attached EXCEPT ![c] = @ \union {Segment(key[c].in, "out")}]
    BY <2>1, <2>4
  <2> QED
    BY <1>2, <2>2, <2>3, <2>4 DEF TypeInv
<1>6. TypeInv'
  <2>1. pc' \in [Clients -> Zeroing \union Owning \union {"start", "dead"}]
    BY <1>2 DEF TypeInv, Owning
  <2>2. /\ Segment(key[c].in, "in") \in [pair : Nat, dir : {"in", "out"}]
        /\ Segment(key[c].in, "out") \in [pair : Nat, dir : {"in", "out"}]
    BY <1>4 DEF Segment
  <2>3. attached' \in [Clients -> SUBSET [pair : Nat, dir : {"in", "out"}]]
    <3> DEFINE S == SUBSET [pair : Nat, dir : {"in", "out"}]
    <3>1. attached \in [Clients -> S] /\ attached[c] \in S
      BY DEF TypeInv
    <3>2. {Segment(key[c].in, "in")} \in S /\ attached[c] \union {Segment(key[c].in, "out")} \in S
      BY <2>2, <3>1
    <3> HIDE DEF S
    <3>3. attached' \in [Clients -> S]
      BY <1>2, <3>1, <3>2
    <3> QED
      BY <3>3 DEF S
  <2> QED
    BY <2>1, <2>3 DEF TypeInv
<1>7. OfferInv'
  BY DEF OfferInv, Fresh
<1>8. ZeroingInv'
  BY <1>3 DEF ZeroingInv, Zeroing, Owning, Fresh
<1>9. \A d \in Clients : pc'[d] \in Owning <=> pc[d] \in Owning
  BY <1>3 DEF Owning
<1>10. ASSUME NEW d \in Clients, pc[d] \in Owning
       PROVE  Owner(d)'
  <2>1. Owner(d)
    BY <1>10 DEF OwningInv
  <2> QED
    BY <1>2, <1>3, <2>1 DEF Owner, Fresh
<1>11. OwningInv'
  BY <1>9, <1>10 DEF OwningInv
<1>12. AttachedInv'
  BY <1>3, <1>5, <1>9 DEF AttachedInv
<1> QED
  BY <1>6, <1>7, <1>8, <1>11, <1>12

(* The INIT lies in a ring that no other program has. *)
LEMMA SendInitInv ==
  ASSUME Inv, NEW c \in Clients, SendInit(c)
  PROVE  Inv'
<1>1. /\ UNCHANGED <<srv, data, key, attached, looks>>
      /\ UNCHANGED <<pair, server, doomed, answer>> /\ Slots' = Slots
      /\ pc[c] = "send" /\ pc' = [pc EXCEPT ![c] = "wait"]
      /\ request' = request \union {key[c].out}
  BY DEF SendInit, Go, srv, Slots
<1> USE <1>1 DEF Inv, Zeroing, Owning
<1>2. key[c].in = key[c].out /\ key[c].in \in 1 .. pair /\ Fresh(key[c].in)
  BY DEF OwningInv, Owner
<1>3. key[c].in = pair => data.in = 0 /\ data.out = 0 /\ server \notin {"offer", "offered"}
  BY DEF OwningInv, Owner, OfferInv
<1>4. TypeInv'
  BY DEF TypeInv
<1>5. OfferInv'
  BY <1>2, <1>3 DEF OfferInv, Fresh
<1>6. ZeroingInv'
  BY <1>2, <1>3 DEF ZeroingInv, TypeInv, Fresh
<1>9. \A d \in Clients :
        /\ pc'[d] \in Owning <=> pc[d] \in Owning
        /\ pc'[d] = IF d = c THEN "wait" ELSE pc[d]
  BY DEF TypeInv
<1>10. ASSUME NEW d \in Clients, pc[d] \in Owning
       PROVE  Owner(d)'
  <2>1. Owner(d) /\ (d # c => key[d].in # key[c].in)
    BY <1>10 DEF OwningInv
  <2>2. d # c /\ Fresh(key[d].in) => Fresh(key[d].in)'
    BY <1>2, <2>1 DEF Fresh
  <2> HIDE DEF Owning
  <2>3. CASE d = c
    <3>1. pc'[d] = "wait" /\ key[d].in \notin answer
      BY <1>2, <1>9, <2>3 DEF Fresh
    <3> QED
      BY <2>1, <3>1 DEF Owner
  <2>4. CASE d # c
    BY <1>9, <2>1, <2>2, <2>4 DEF Owner
  <2> QED
    BY <2>3, <2>4
<1>7. OwningInv'
  BY <1>9, <1>10 DEF OwningInv
<1>8. AttachedInv'
  BY DEF AttachedInv, TypeInv
<1> QED
  BY <1>4, <1>5, <1>6, <1>7, <1>8

(* s3d_init() gets its answer or gives up. *)
LEMMA WaitInv ==
  ASSUME Inv, NEW c \in Clients, Wait(c)
  PROVE  Inv'
<1>1. /\ UNCHANGED <<srv, data, request, key, attached>>
      /\ UNCHANGED <<pair, server, doomed, answer>> /\ Slots' = Slots
      /\ pc[c] = "wait"
      /\ \/ key[c].in \in answer /\ pc' = [pc EXCEPT ![c] = "ready"]
         \/ pc' = [pc EXCEPT ![c] = "wait"]
         \/ pc' = [pc EXCEPT ![c] = "failed"]
  BY DEF Wait, Go, srv, Slots
<1> USE <1>1 DEF Inv, Zeroing, Owning
<1>2. TypeInv'
  BY DEF TypeInv
<1>3. OfferInv'
  BY DEF OfferInv, Fresh
<1>4. ZeroingInv'
  BY DEF ZeroingInv, TypeInv, Fresh
<1>7. \A d \in Clients :
        /\ pc'[d] \in Owning <=> pc[d] \in Owning
        /\ d # c => pc'[d] = pc[d]
        /\ pc'[d] \in {"get in", "get out", "send"} => pc[d] \in {"get in", "get out", "send"}
        /\ pc'[d] \in {"wait", "ready"} => pc[d] \in {"wait", "ready"}
        /\ pc'[d] = "ready" => pc[d] = "ready" \/ key[d].in \in answer
  BY DEF TypeInv
<1>8. ASSUME NEW d \in Clients, pc[d] \in Owning
      PROVE  Owner(d)'
  <2>1. Owner(d)
    BY <1>8 DEF OwningInv
  <2>2. Fresh(key[d].in)' <=> Fresh(key[d].in)
    BY DEF Fresh
  <2> HIDE DEF Owning
  <2> QED
    BY <1>7, <2>1, <2>2 DEF Owner
<1>5. OwningInv'
  BY <1>7, <1>8 DEF OwningInv
<1>6. AttachedInv'
  BY DEF AttachedInv, TypeInv
<1> QED
  BY <1>2, <1>3, <1>4, <1>5, <1>6

(* A program may die anywhere. *)
LEMMA DieInv ==
  ASSUME Inv, NEW c \in Clients, Die(c)
  PROVE  Inv'
<1>1. /\ UNCHANGED <<srv, data, request, key, looks>>
      /\ UNCHANGED <<pair, server, doomed, answer>> /\ Slots' = Slots
      /\ pc' = [pc EXCEPT ![c] = "dead"]
      /\ attached' = [attached EXCEPT ![c] = {}]
  BY DEF Die, srv, Slots
<1> USE <1>1 DEF Inv, Zeroing, Owning
<1>2. TypeInv'
  BY DEF TypeInv
<1>3. OfferInv'
  BY DEF OfferInv, Fresh
<1>4. ZeroingInv'
  BY DEF ZeroingInv, TypeInv, Fresh
<1>5. OwningInv'
  BY DEF OwningInv, Owner, TypeInv, Fresh
<1>6. AttachedInv'
  BY DEF AttachedInv, TypeInv
<1> QED
  BY <1>2, <1>3, <1>4, <1>5, <1>6

-----------------------------------------------------------------------------

(* The first pair is on offer and nobody has it. *)
LEMMA InitInv == Init => Inv
<1> SUFFICES ASSUME Init PROVE Inv
  OBVIOUS
<1>1. Slots = {}
  BY DEF Init, Slots
<1> USE <1>1 DEF Init, Zeroing, Owning
<1>2. TypeInv
  BY DEF TypeInv
<1>3. OfferInv
  BY DEF OfferInv, Fresh
<1>4. ZeroingInv
  BY DEF ZeroingInv
<1>5. OwningInv
  BY DEF OwningInv
<1>6. AttachedInv
  BY DEF AttachedInv
<1> QED
  BY <1>2, <1>3, <1>4, <1>5, <1>6 DEF Inv

(* Every step of the server and of a program keeps the pairs apart.        *)
LEMMA StepInv ==
  ASSUME "race" \notin Uses, Inv, [Next]_vars
  PROVE  Inv'
<1>1. CASE \E k \in Slots : Serve(k) \/ Idle(k)
  BY <1>1, ServeInv, IdleInv
<1>2. CASE Remove
  BY <1>2, RemoveInv
<1>3. CASE Register
  BY <1>3, RegisterInv
<1>4. CASE Offer
  BY <1>4, OfferKeepsInv
<1>5. CASE \E c \in Clients : Start(c)
  BY <1>5, StartInv
<1>6. CASE \E c \in Clients : Read(c) \/ Clear(c)
  BY <1>6, ReadInv, ClearInv
<1>7. CASE \E c \in Clients : Attach(c) \/ SendInit(c)
  BY <1>7, AttachInv, SendInitInv
<1>8. CASE \E c \in Clients : Wait(c) \/ Die(c)
  BY <1>8, WaitInv, DieInv
<1>9. CASE UNCHANGED vars
  BY <1>9 DEF vars, Inv, TypeInv, OfferInv, ZeroingInv, OwningInv, Owner, AttachedInv, Slots, Fresh
<1> QED
  BY <1>1, <1>2, <1>3, <1>4, <1>5, <1>6, <1>7, <1>8, <1>9 DEF Next, ServerStep, ClientStep

(* The pairs being apart is what a program that was answered relies on.    *)
LEMMA InvServes == Inv => KeysServed
<1> SUFFICES ASSUME Inv, NEW c \in Clients, pc[c] = "ready"
             PROVE  /\ key[c].in = key[c].out /\ key[c].in \in Slots
                    /\ \A d \in Clients \ {c} : attached[c] \intersect attached[d] = {}
  BY DEF KeysServed
<1>1. key[c].in = key[c].out /\ key[c].in \in Slots
  BY DEF Inv, OwningInv, Owner, Owning
<1>2. ASSUME NEW d \in Clients \ {c}
      PROVE  attached[c] \intersect attached[d] = {}
  <2>1. CASE pc[d] \notin Owning
    BY <2>1 DEF Inv, AttachedInv
  <2>2. CASE pc[d] \in Owning
    <3>1. key[c].in # key[d].in
      BY <2>2 DEF Inv, OwningInv, Owning
    <3> QED
      <4>1. /\ attached[c] \subseteq {Segment(key[c].in, "in"), Segment(key[c].in, "out")}
            /\ attached[d] \subseteq {Segment(key[d].in, "in"), Segment(key[d].in, "out")}
        BY DEF Inv, AttachedInv
      <4>2. \A s \in attached[c] : s.pair = key[c].in
        BY <4>1 DEF Segment
      <4>3. \A s \in attached[d] : s.pair = key[d].in
        BY <4>1 DEF Segment
      <4> QED
        BY <3>1, <4>2, <4>3
  <2> QED
    BY <2>1, <2>2
<1> QED
  BY <1>1, <1>2

(* A program whose INIT was answered: both words it took were of one pair, *)
(* the pair is a slot of the server's, and nobody else is attached to it.  *)
THEOREM AnsweredIsServed ==
  ASSUME "race" \notin Uses
  PROVE  Spec => []KeysServed
<1>1. Inv /\ [Next]_vars => Inv'
  BY StepInv
<1> QED
  BY <1>1, InvServes, InitInv, PTL DEF Spec
=============================================================================
