-------------------------- MODULE TransportsProofs --------------------------
(***************************************************************************)
(* Proofs about the ring (RingBuf) and the start and end of the server     *)
(* (StartUp), and that what is proved there and in ShmConnectProofs holds  *)
(* of MCTransports.                                                        *)
(* Between a writer and a reader that store each index once (Uses = {})    *)
(* the ring is a pipe, for every size of ring, header and packet. The      *)
(* invariant tells where in the stream of cells each packet begins, how    *)
(* far the reader has come in the packet it is in, and that all of a       *)
(* packet is there when its first cell is.                                 *)
(* However the signals fall, also when a handler begins quit() anew while  *)
(* quit() is at work, a server that had set itself up and has gone through *)
(* exit() has nothing up: the components come down in one order, and one   *)
(* that is down stays down, since init() is over. A server whose kid ends  *)
(* during init() is not among these: quit() then skips everything.         *)
(***************************************************************************)
EXTENDS MCTransports, SequenceTheorems, TLAPS

(* The cells before packet k; after the last packet, all of them.          *)
Off(k) == IF k <= Len(sent) THEN sent[k][1] - 1 ELSE written

Cells == Nat \union {Junk}

(* The packets lie in the stream one behind the other.                     *)
SentInv ==
  /\ sent \in Seq(Seq(Nat)) /\ Len(sent) <= MaxSent /\ written \in Nat
  /\ Off(1) = 0 /\ \A k \in 1 .. Len(sent) + 1 : Off(k) \in 0 .. written
  /\ \A k \in 1 .. Len(sent) :
       /\ Len(sent[k]) \in Hdr .. MaxLen
       /\ \A i \in 1 .. Len(sent[k]) : sent[k][i] = Off(k) + i
       /\ Off(k + 1) = Off(k) + Len(sent[k])
  /\ \A j, k \in 1 .. Len(sent) + 1 : j < k => Off(j) < Off(k)

(* The bound on taken is never reached.                                    *)
Budget == written + (MaxSent - Len(sent)) * MaxLen <= MaxSent * MaxLen

(* What is between start and end is what was written and not taken.        *)
RingInv ==
  /\ start \in Ring /\ end \in Ring /\ cells \in [Ring -> Cells]
  /\ taken \in Nat
  /\ Used(start, end) = written - taken
  /\ \A k \in 0 .. Used(start, end) - 1 : cells[Wrap(start + k)] = taken + k + 1

(* There is room for the packet that is being written.                     *)
WriterInv ==
  /\ wpc \in {"idle", "copy", "store"} /\ wlen \in 0 .. MaxLen
  /\ wpc # "idle" =>
       /\ wlen \in Hdr .. MaxLen /\ Len(sent) < MaxSent
       /\ Used(start, end) + wlen < Size
  /\ wpc = "store" =>
       \A k \in 0 .. wlen - 1 : cells[Wrap(end + k)] = written + k + 1

Cur == Len(delivered) + 1      \* the packet the reader is in, or waits for

(* The reader has the first cells of its packet, and its view of end is    *)
(* behind that packet.                                                     *)
ReaderInv ==
  /\ delivered = SubSeq(sent, 1, Len(delivered)) /\ Len(delivered) \in 0 .. Len(sent)
  /\ got \in Seq(Nat) /\ \A i \in 1 .. Len(got) : got[i] = Off(Cur) + i
  /\ rpc \in {"idle", "load", "copy", "store"} /\ want \in Hdr .. MaxLen
  /\ rend \in Ring /\ rnew \in 0 .. 2 * Size - 1
  /\ rpc = "idle" => got = <<>> /\ want = Hdr
  /\ rpc # "idle" => Len(delivered) < Len(sent)
  /\ rpc \in {"load", "copy"} =>
       \/ want = Hdr /\ Len(got) = 0
       \/ want = Len(sent[Cur]) /\ want > Hdr /\ Len(got) = Hdr
  /\ rpc # "store" => taken = Off(Cur) + Len(got)
  /\ rpc = "copy" =>
       Off(Cur + 1) <= taken + Used(start, rend) /\ taken + Used(start, rend) <= written
  /\ rpc = "store" =>
       /\ Len(got) = want /\ want \in {Hdr, Len(sent[Cur])}
       /\ rnew \in start + 1 .. start + Used(start, end)
       /\ taken + (rnew - start) = Off(Cur) + Len(got)

Inv == SentInv /\ Budget /\ RingInv /\ WriterInv /\ ReaderInv

-----------------------------------------------------------------------------
(* Packets and indices *)

(* A packet of n cells is a sequence of that length.                       *)
LEMMA PacketSeq ==
  ASSUME NEW w \in Nat, NEW n \in Nat
  PROVE  /\ Packet(w, n) \in Seq(Nat) /\ Len(Packet(w, n)) = n
         /\ \A i \in 1 .. n : Packet(w, n)[i] = w + i
BY LenProperties, SeqDef DEF Packet

(* Two indices into the ring are less than a turn apart.                   *)
LEMMA UsedRange ==
  ASSUME NEW s \in Ring, NEW e \in Ring
  PROVE  /\ Used(s, e) \in 0 .. Size - 1
         /\ Used(s, e) = 0 <=> s = e
         /\ Free(s, e) = Size - Used(s, e)
BY RingBufAssumption DEF Ring, Used, Free

(* The reader gives n of the used cells back.                              *)
LEMMA StartMoves ==
  ASSUME NEW s \in Ring, NEW e \in Ring, NEW n \in 0 .. Used(s, e)
  PROVE  /\ Wrap(s + n) \in Ring
         /\ Used(Wrap(s + n), e) = Used(s, e) - n
         /\ \A k \in 0 .. Used(s, e) - n - 1 : Wrap(Wrap(s + n) + k) = Wrap(s + (n + k))
BY RingBufAssumption, UsedRange DEF Ring, Used, Wrap

(* The writer fills n of the free cells.                                   *)
LEMMA EndMoves ==
  ASSUME NEW s \in Ring, NEW e \in Ring, NEW n \in Nat, Used(s, e) + n < Size
  PROVE  /\ Wrap(e + n) \in Ring
         /\ Used(s, Wrap(e + n)) = Used(s, e) + n
         /\ \A k \in 0 .. n - 1 : Wrap(s + (Used(s, e) + k)) = Wrap(e + k)
BY RingBufAssumption, UsedRange DEF Ring, Used, Wrap

-----------------------------------------------------------------------------
(* Where packets begin *)

(* The packets are sequences of numbers, and the last is followed by what  *)
(* will be written.                                                        *)
LEMMA OffTypes ==
  ASSUME SentInv
  PROVE  /\ Off(Len(sent) + 1) = written /\ Len(sent) \in Nat
         /\ \A k \in 1 .. Len(sent) : sent[k] \in Seq(Nat) /\ Len(sent[k]) \in Nat
<1>1. sent \in Seq(Seq(Nat))
  BY DEF SentInv
<1>2. Len(sent) \in Nat
  BY <1>1, LenProperties
<1>3. Off(Len(sent) + 1) = written
  BY <1>2 DEF Off
<1>4. \A k \in 1 .. Len(sent) : sent[k] \in Seq(Nat)
  BY <1>1, ElementOfSeq
<1> QED
  BY <1>2, <1>3, <1>4, LenProperties

(* No two packets begin with the same header: the reader learns the length *)
(* of the packet it is in.                                                 *)
LEMMA HeaderTellsLength ==
  ASSUME SentInv, NEW k \in 1 .. Len(sent), NEW h \in Seq(Nat), Len(h) = Hdr,
         \A i \in 1 .. Hdr : h[i] = Off(k) + i
  PROVE  Lengths(h) = {Len(sent[k])}
<1> DEFINE known == {Len(sent[i]) : i \in {j \in 1 .. Len(sent) : SubSeq(sent[j], 1, Hdr) = h}}
<1>1. Hdr \in Nat \ {0} /\ 1 \in 1 .. Hdr
  BY RingBufAssumption
<1>7. Len(sent) \in Nat
  BY OffTypes
<1>2. \A j \in 1 .. Len(sent) :
        /\ SubSeq(sent[j], 1, Hdr) \in Seq(Nat) /\ Len(SubSeq(sent[j], 1, Hdr)) = Hdr
        /\ \A i \in 1 .. Hdr : SubSeq(sent[j], 1, Hdr)[i] = Off(j) + i
  <2> TAKE j \in 1 .. Len(sent)
  <2>1. \A i \in 1 .. Hdr : sent[j][i] = Off(j) + i /\ Off(j) \in Nat
    BY <1>1, <1>7, RingBufAssumption DEF SentInv
  <2>2. \A i \in 1 .. Hdr : sent[j][i] \in Nat
    BY <1>1, <2>1
  <2>3. /\ SubSeq(sent[j], 1, Hdr) \in Seq(Nat)
        /\ Len(SubSeq(sent[j], 1, Hdr)) = IF 1 <= Hdr THEN Hdr - 1 + 1 ELSE 0
        /\ \A i \in 1 .. Hdr - 1 + 1 : SubSeq(sent[j], 1, Hdr)[i] = sent[j][1 + i - 1]
    BY <1>1, <2>2, SubSeqProperties
  <2>4. \A i \in 1 .. Hdr : i \in 1 .. Hdr - 1 + 1 /\ 1 + i - 1 = i
    BY <1>1
  <2> QED
    BY <1>1, <2>1, <2>3, <2>4
<1>3. SubSeq(sent[k], 1, Hdr) = h
  <2>1. \A i \in 1 .. Hdr : SubSeq(sent[k], 1, Hdr)[i] = h[i]
    BY <1>2
  <2> QED
    BY <1>2, <2>1, SeqEqual
<1>4. \A j \in 1 .. Len(sent) : SubSeq(sent[j], 1, Hdr) = h => j = k
  <2> SUFFICES ASSUME NEW j \in 1 .. Len(sent), SubSeq(sent[j], 1, Hdr) = h
               PROVE  j = k
    OBVIOUS
  <2>1. Off(j) + 1 = Off(k) + 1
    BY <1>1, <1>2
  <2>2. /\ Off(j) \in Nat /\ Off(k) \in Nat
        /\ j < k => Off(j) < Off(k)
        /\ k < j => Off(k) < Off(j)
    BY <1>7 DEF SentInv
  <2> QED
    BY <1>7, <2>1, <2>2
<1>5. known = {Len(sent[k])}
  BY <1>3, <1>4
<1> HIDE DEF known
<1>6. Lengths(h) = IF known = {} THEN Hdr .. MaxLen ELSE known
  BY DEF Lengths, known
<1> QED
  BY <1>5, <1>6

-----------------------------------------------------------------------------
(* The actions *)

(* The reader does not touch the packets that were sent.                   *)
LEMMA SentSame ==
  ASSUME SentInv, Budget, sent' = sent, written' = written
  PROVE  SentInv' /\ Budget' /\ \A k : Off(k)' = Off(k)
<1>1. \A k : Off(k)' = Off(k)
  BY DEF Off
<1>2. SentInv'
  BY <1>1 DEF SentInv
<1> QED
  BY <1>1, <1>2 DEF Budget

(* Nor does the writer touch what the reader has.                          *)
LEMMA ReaderSame ==
  ASSUME ReaderInv, reader' = reader, sent' = sent, start' = start, end' = end,
         \A k : Off(k)' = Off(k), written' = written
  PROVE  ReaderInv'
<1>1. Cur' = Cur /\ Off(Cur)' = Off(Cur) /\ Off(Cur + 1)' = Off(Cur + 1)
  BY DEF reader, Cur
<1> QED
  BY <1>1 DEF ReaderInv, reader

(* shm_write() found room for n cells. *)
LEMMA WriteInv ==
  ASSUME Uses = {}, Inv, NEW n \in Hdr .. MaxLen, Write(n)
  PROVE  Inv'
<1>1. /\ sent' = sent /\ written' = written /\ start' = start /\ end' = end
      /\ cells' = cells /\ reader' = reader /\ taken' = taken
      /\ wpc' = "copy" /\ wlen' = n /\ Len(sent) < MaxSent
      /\ Free(start, end) >= n + 1
  BY DEF Write, shared, reader
<1>2. SentInv' /\ Budget' /\ \A k : Off(k)' = Off(k)
  BY <1>1, SentSame DEF Inv
<1>3. RingInv'
  BY <1>1 DEF Inv, RingInv
<1>4. Used(start, end) + n < Size
  BY <1>1, UsedRange, RingBufAssumption DEF Inv, RingInv
<1>5. WriterInv'
  BY <1>1, <1>4, RingBufAssumption DEF WriterInv
<1>6. ReaderInv'
  BY <1>1, <1>2, ReaderSame DEF Inv
<1> QED
  BY <1>2, <1>3, <1>5, <1>6 DEF Inv

(* memcpy() writes free cells only. *)
LEMMA CopyInInv ==
  ASSUME Uses = {}, Inv, CopyIn
  PROVE  Inv'
<1>1. /\ sent' = sent /\ written' = written /\ start' = start /\ end' = end
      /\ reader' = reader /\ taken' = taken /\ wlen' = wlen
      /\ wpc = "copy" /\ wpc' = "store"
  BY DEF CopyIn, reader
<1>2. SentInv' /\ Budget' /\ \A k : Off(k)' = Off(k)
  BY <1>1, SentSame DEF Inv
<1>3. /\ start \in Ring /\ end \in Ring /\ cells \in [Ring -> Cells]
      /\ taken \in Nat /\ written \in Nat /\ Size \in Nat
      /\ wlen \in Hdr .. MaxLen /\ wlen \in Nat /\ Len(sent) < MaxSent
      /\ Used(start, end) \in 0 .. Size - 1 /\ Used(start, end) + wlen < Size
  BY <1>1, UsedRange, RingBufAssumption DEF Inv, RingInv, WriterInv, SentInv
<1>4. \A i \in Ring :
        LET k == IF i >= end THEN i - end ELSE i + Size - end
        IN  cells'[i] = IF k < wlen THEN written + k + 1 ELSE cells[i]
  BY DEF CopyIn
<1>5. cells' \in [Ring -> Cells]
  <2>1. \A i \in Ring : i \in Int /\ end \in Int
    BY <1>3 DEF Ring
  <2>2. \A i \in Ring :
          LET k == IF i >= end THEN i - end ELSE i + Size - end
          IN  k \in Nat
    BY <1>3 DEF Ring
  <2>3. \A i \in Ring : cells'[i] \in Cells
    BY <1>3, <1>4, <2>2 DEF Cells
  <2>4. cells' = [i \in Ring |-> cells'[i]]
    BY DEF CopyIn
  <2> QED
    BY <2>3, <2>4
<1>6. \A k \in 0 .. wlen - 1 : cells'[Wrap(end + k)] = written + k + 1
  <2> TAKE k \in 0 .. wlen - 1
  <2> DEFINE i == Wrap(end + k)
             d == IF i >= end THEN i - end ELSE i + Size - end
  <2>1. i \in Ring /\ d = k /\ k < wlen
    BY <1>3 DEF Ring, Wrap
  <2>2. cells'[i] = IF d < wlen THEN written + d + 1 ELSE cells[i]
    BY <1>4, <2>1
  <2> HIDE DEF i, d
  <2>3. cells'[i] = written + k + 1
    BY <2>1, <2>2
  <2> QED
    BY <2>3 DEF i
<1>7. \A k \in 0 .. Used(start, end) - 1 : cells'[Wrap(start + k)] = cells[Wrap(start + k)]
  <2> TAKE k \in 0 .. Used(start, end) - 1
  <2>1. /\ Wrap(start + k) \in Ring
        /\ wlen <= IF Wrap(start + k) >= end THEN Wrap(start + k) - end
                   ELSE Wrap(start + k) + Size - end
    BY <1>3 DEF Ring, Wrap, Used
  <2> DEFINE i == Wrap(start + k)
             d == IF i >= end THEN i - end ELSE i + Size - end
  <2>2. d \in Int /\ ~(d < wlen)
    BY <1>3, <2>1 DEF Ring
  <2> QED
    BY <1>4, <2>1, <2>2
<1>8. RingInv'
  BY <1>1, <1>3, <1>5, <1>7 DEF Inv, RingInv
<1>9. WriterInv'
  BY <1>1, <1>3, <1>6, RingBufAssumption DEF WriterInv
<1>10. ReaderInv'
  BY <1>1, <1>2, ReaderSame DEF Inv
<1> QED
  BY <1>2, <1>8, <1>9, <1>10 DEF Inv

(* The new packet begins where the last one ended.                         *)
LEMMA SentGrows ==
  ASSUME SentInv, Budget, wlen \in Hdr .. MaxLen, Len(sent) < MaxSent,
         written' = written + wlen, sent' = Append(sent, Packet(written, wlen))
  PROVE  /\ SentInv' /\ Budget'
         /\ Len(sent') = Len(sent) + 1
         /\ \A k \in 1 .. Len(sent) : sent'[k] = sent[k]
         /\ \A k \in 1 .. Len(sent) + 1 : Off(k)' = Off(k)
<1> DEFINE p == Packet(written, wlen)
<1>0. PICK n \in Nat : n = Len(sent)
  BY OffTypes
<1>1. /\ sent \in Seq(Seq(Nat)) /\ written \in Nat /\ n = Len(sent)
      /\ wlen \in Nat \ {0} /\ MaxLen \in Nat /\ MaxSent \in Nat /\ Hdr \in Nat \ {0}
  BY <1>0, RingBufAssumption DEF SentInv
<1>2. p \in Seq(Nat) /\ Len(p) = wlen /\ \A i \in 1 .. wlen : p[i] = written + i
  BY <1>1, PacketSeq
<1> HIDE DEF p
<1>3. /\ sent' \in Seq(Seq(Nat)) /\ Len(sent') = n + 1
      /\ \A k \in 1 .. n : sent'[k] = sent[k]
      /\ sent'[n + 1] = p
  BY <1>1, <1>2, AppendProperties DEF p
<1>4. \A k \in 1 .. n : Off(k)' = Off(k)
  BY <1>0, <1>1, <1>3 DEF Off
<1>5. Off(n + 1)' = Off(n + 1) /\ Off(n + 1) = written
  <2>1. p[1] = written + 1
    BY <1>1, <1>2
  <2>2. Off(n + 1)' = p[1] - 1
    BY <1>0, <1>3 DEF Off
  <2>3. Off(n + 1) = written
    BY <1>0 DEF Off
  <2> QED
    BY <1>1, <2>1, <2>2, <2>3
<1>6. Off(n + 2)' = written + wlen
  BY <1>0, <1>3 DEF Off
<1>7. /\ Off(1) = 0 /\ \A k \in 1 .. n + 1 : Off(k) \in 0 .. written
      /\ \A k \in 1 .. n :
           /\ Len(sent[k]) \in Hdr .. MaxLen
           /\ \A i \in 1 .. Len(sent[k]) : sent[k][i] = Off(k) + i
           /\ Off(k + 1) = Off(k) + Len(sent[k])
      /\ \A j, k \in 1 .. n + 1 : j < k => Off(j) < Off(k)
  BY <1>1 DEF SentInv
<1>8. \A k \in 1 .. n + 1 : Off(k)' = Off(k)
  BY <1>0, <1>1, <1>4, <1>5
<1>9. Off(1)' = 0 /\ \A k \in 1 .. n + 2 : Off(k)' \in 0 .. written'
  <2>1. \A k \in 1 .. n + 2 : k \in 1 .. n + 1 \/ k = n + 2
    BY <1>0
  <2>2. 1 \in 1 .. n + 1
    BY <1>0
  <2>3. \A k \in 1 .. n + 1 : Off(k)' \in 0 .. written'
    BY <1>1, <1>7, <1>8
  <2>4. Off(n + 2)' \in 0 .. written'
    BY <1>1, <1>6
  <2> QED
    BY <1>7, <1>8, <2>1, <2>2, <2>3, <2>4
<1>10. ASSUME NEW k \in 1 .. n + 1
       PROVE  /\ Len(sent'[k]) \in Hdr .. MaxLen
              /\ \A i \in 1 .. Len(sent'[k]) : sent'[k][i] = Off(k)' + i
              /\ Off(k + 1)' = Off(k)' + Len(sent'[k])
  <2>1. CASE k = n + 1
    BY <1>0, <1>1, <1>2, <1>3, <1>5, <1>6, <2>1
  <2>2. CASE k # n + 1
    <3>1. k \in 1 .. n /\ k + 1 \in 1 .. n + 1
      BY <1>0, <1>1, <2>2
    <3> QED
      BY <1>3, <1>7, <1>8, <3>1
  <2> QED
    BY <2>1, <2>2
<1>11. ASSUME NEW j \in 1 .. n + 2, NEW k \in 1 .. n + 2, j < k
       PROVE  Off(j)' < Off(k)'
  <2>1. j \in 1 .. n + 1
    BY <1>0, <1>1, <1>11
  <2>2. CASE k = n + 2
    BY <1>0, <1>1, <1>6, <1>7, <1>8, <2>1, <2>2
  <2>3. CASE k # n + 2
    <3>1. k \in 1 .. n + 1
      BY <1>0, <1>1, <2>3
    <3> QED
      BY <1>7, <1>8, <1>11, <2>1, <3>1
  <2> QED
    BY <2>2, <2>3
<1>12. SentInv'
  <2>1. Len(sent)' = n + 1 /\ Len(sent)' + 1 = n + 2 /\ Len(sent)' <= MaxSent
    BY <1>0, <1>1, <1>3
  <2>2. written' \in Nat
    BY <1>1
  <2> QED
    BY <1>3, <1>9, <1>10, <1>11, <2>1, <2>2 DEF SentInv
<1>13. Budget'
  <2>1. (MaxSent - (n + 1)) * MaxLen = (MaxSent - n) * MaxLen - MaxLen
    BY <1>1
  <2> DEFINE a == (MaxSent - n) * MaxLen
             b == MaxSent * MaxLen
  <2>2. a \in Int /\ b \in Int /\ written + a <= b
    BY <1>1 DEF Budget
  <2>3. Budget' <=> written + wlen + (MaxSent - (n + 1)) * MaxLen <= b
    BY <1>3 DEF Budget
  <2> HIDE DEF a, b
  <2>4. written + wlen + (a - MaxLen) <= b
    BY <1>1, <2>2
  <2> QED
    BY <2>1, <2>3, <2>4 DEF a
<1> QED
  BY <1>1, <1>3, <1>8, <1>12, <1>13

(* A part of a sequence of packets. *)
LEMMA PartOf ==
  ASSUME NEW s \in Seq(Seq(Nat)), NEW d \in 0 .. Len(s), NEW e \in d .. Len(s)
  PROVE  /\ SubSeq(s, d + 1, e) \in Seq(Seq(Nat)) /\ Len(SubSeq(s, d + 1, e)) = e - d
         /\ \A i \in 1 .. e - d : SubSeq(s, d + 1, e)[i] = s[d + i]
<1>1. Len(s) \in Nat /\ d \in Nat /\ e \in Nat /\ d <= e /\ e <= Len(s)
  BY LenProperties
<1>2. \A i \in d + 1 .. e : s[i] \in Seq(Nat)
  BY <1>1, ElementOfSeq
<1>3. /\ SubSeq(s, d + 1, e) \in Seq(Seq(Nat))
      /\ Len(SubSeq(s, d + 1, e)) = IF d + 1 <= e THEN e - (d + 1) + 1 ELSE 0
      /\ \A i \in 1 .. e - (d + 1) + 1 : SubSeq(s, d + 1, e)[i] = s[d + 1 + i - 1]
  BY <1>1, <1>2, SubSeqProperties
<1>4. \A i \in 1 .. e - d : i \in 1 .. e - (d + 1) + 1 /\ d + 1 + i - 1 = d + i
  BY <1>1
<1>5. (IF d + 1 <= e THEN e - (d + 1) + 1 ELSE 0) = e - d
  BY <1>1
<1> QED
  BY <1>3, <1>4, <1>5

(* One more packet is one more to deliver. *)
LEMMA RestGrows ==
  ASSUME NEW s \in Seq(Seq(Nat)), NEW x \in Seq(Nat), NEW d \in 0 .. Len(s)
  PROVE  SubSeq(Append(s, x), d + 1, Len(s) + 1) = Append(SubSeq(s, d + 1, Len(s)), x)
<1> DEFINE t == Append(s, x)
           r == SubSeq(s, d + 1, Len(s))
           l == SubSeq(t, d + 1, Len(s) + 1)
           a == Append(r, x)
<1>1. /\ t \in Seq(Seq(Nat)) /\ Len(t) = Len(s) + 1 /\ Len(s) \in Nat /\ d \in Nat /\ d <= Len(s)
      /\ \A k \in 1 .. Len(s) : t[k] = s[k]
      /\ t[Len(s) + 1] = x
  BY AppendProperties, LenProperties
<1>2. /\ r \in Seq(Seq(Nat)) /\ Len(r) = Len(s) - d
      /\ \A i \in 1 .. Len(s) - d : r[i] = s[d + i]
  <2>1. Len(s) \in d .. Len(s)
    BY <1>1
  <2> QED
    BY <2>1, PartOf
<1> HIDE DEF t, r
<1>3. /\ l \in Seq(Seq(Nat)) /\ Len(l) = Len(s) + 1 - d
      /\ \A i \in 1 .. Len(s) + 1 - d : l[i] = t[d + i]
  <2>1. Len(s) + 1 \in d .. Len(t) /\ d \in 0 .. Len(t)
    BY <1>1
  <2> QED
    BY <1>1, <2>1, PartOf
<1> HIDE DEF l
<1>4. /\ a \in Seq(Seq(Nat)) /\ Len(a) = Len(s) + 1 - d
      /\ \A k \in 1 .. Len(s) - d : a[k] = r[k]
      /\ a[Len(s) - d + 1] = x
  BY <1>1, <1>2, AppendProperties
<1> HIDE DEF a
<1>5. ASSUME NEW i \in 1 .. Len(s) + 1 - d
      PROVE  l[i] = a[i]
  <2>1. CASE i = Len(s) - d + 1
    <3>1. d + i = Len(s) + 1
      BY <1>1, <2>1
    <3> QED
      BY <1>1, <1>3, <1>4, <2>1, <3>1
  <2>2. CASE i # Len(s) - d + 1
    <3>1. i \in 1 .. Len(s) - d /\ d + i \in 1 .. Len(s)
      BY <1>1, <2>2
    <3>2. l[i] = s[d + i]
      BY <1>1, <1>3, <3>1
    <3>3. a[i] = s[d + i]
      BY <1>2, <1>4, <3>1
    <3> QED
      BY <3>2, <3>3
  <2> QED
    BY <2>1, <2>2
<1>6. l = a
  <2>1. Len(l) = Len(a) /\ \A i \in 1 .. Len(l) : l[i] = a[i]
    BY <1>3, <1>4, <1>5
  <2> QED
    BY <1>3, <1>4, <2>1, SeqEqual
<1> QED
  BY <1>6 DEF l, a, r, t

(* What was delivered, and the next, are what was sent. *)
LEMMA PrefixGrows ==
  ASSUME NEW s \in Seq(Seq(Nat)), NEW d \in 0 .. Len(s), d < Len(s)
  PROVE  Append(SubSeq(s, 1, d), s[d + 1]) = SubSeq(s, 1, d + 1)
<1> DEFINE a == SubSeq(s, 1, d)
           b == SubSeq(s, 1, d + 1)
<1>1. Len(s) \in Nat /\ d \in Nat /\ d + 1 \in 1 .. Len(s) /\ s[d + 1] \in Seq(Nat)
  BY LenProperties, ElementOfSeq
<1>2. a \in Seq(Seq(Nat)) /\ Len(a) = d /\ \A i \in 1 .. d : a[i] = s[i]
  <2>1. 0 \in 0 .. Len(s) /\ d \in 0 .. Len(s)
    BY <1>1
  <2>2. 0 + 1 = 1 /\ d - 0 = d /\ \A i \in 1 .. d : 0 + i = i
    BY <1>1
  <2> QED
    BY <2>1, <2>2, PartOf
<1>3. b \in Seq(Seq(Nat)) /\ Len(b) = d + 1 /\ \A i \in 1 .. d + 1 : b[i] = s[i]
  <2>1. 0 \in 0 .. Len(s) /\ d + 1 \in 0 .. Len(s)
    BY <1>1
  <2>2. 0 + 1 = 1 /\ d + 1 - 0 = d + 1 /\ \A i \in 1 .. d + 1 : 0 + i = i
    BY <1>1
  <2> QED
    BY <2>1, <2>2, PartOf
<1> HIDE DEF a, b
<1>4. /\ Append(a, s[d + 1]) \in Seq(Seq(Nat)) /\ Len(Append(a, s[d + 1])) = d + 1
      /\ \A k \in 1 .. d : Append(a, s[d + 1])[k] = a[k]
      /\ Append(a, s[d + 1])[d + 1] = s[d + 1]
  BY <1>1, <1>2, AppendProperties
<1>5. \A i \in 1 .. d + 1 : i \in 1 .. d \/ i = d + 1
  BY <1>1
<1>6. \A i \in 1 .. d + 1 : Append(a, s[d + 1])[i] = b[i]
  BY <1>1, <1>2, <1>3, <1>4, <1>5
<1>7. Append(a, s[d + 1]) = b
  BY <1>3, <1>4, <1>6, SeqEqual
<1> QED
  BY <1>7 DEF a, b

(* One more packet does not change those the reader was given.             *)
LEMMA PrefixStays ==
  ASSUME NEW s \in Seq(Seq(Nat)), NEW x \in Seq(Nat), NEW m \in 0 .. Len(s)
  PROVE  SubSeq(Append(s, x), 1, m) = SubSeq(s, 1, m)
<1>1. /\ Append(s, x) \in Seq(Seq(Nat)) /\ Len(s) \in Nat
      /\ Len(Append(s, x)) = Len(s) + 1
      /\ \A k \in 1 .. Len(s) : Append(s, x)[k] = s[k]
  BY AppendProperties, LenProperties
<1>2. \A k \in 1 .. m : s[k] \in Seq(Nat) /\ Append(s, x)[k] = s[k]
  BY <1>1, ElementOfSeq
<1>3. SubSeq(s, 1, m) = [k \in 1 .. m |-> s[k]]
  BY <1>1, <1>2 DEF SubSeq
<1>4. SubSeq(Append(s, x), 1, m) = [k \in 1 .. m |-> Append(s, x)[k]]
  BY <1>1, <1>2 DEF SubSeq
<1> QED
  BY <1>2, <1>3, <1>4

(* The packet the reader is in is one that was sent. *)
LEMMA CurrentPacket ==
  ASSUME SentInv, ReaderInv, rpc # "idle"
  PROVE  /\ Cur \in 1 .. Len(sent) /\ Len(delivered) \in Nat /\ Len(sent) \in Nat
         /\ sent[Cur] \in Seq(Nat) /\ Len(sent[Cur]) \in Hdr .. MaxLen
         /\ Off(Cur) \in Nat /\ Off(Cur + 1) = Off(Cur) + Len(sent[Cur])
         /\ Off(Cur + 1) <= written
         /\ \A i \in 1 .. Len(sent[Cur]) : sent[Cur][i] = Off(Cur) + i
         /\ got \in Seq(Nat) /\ Len(got) \in Nat
<1>1. Len(sent) \in Nat /\ \A k \in 1 .. Len(sent) : sent[k] \in Seq(Nat)
  BY OffTypes
<1>2. Len(delivered) \in Nat /\ Len(delivered) < Len(sent)
  BY <1>1 DEF ReaderInv
<1>3. Cur \in 1 .. Len(sent) /\ Cur \in 1 .. Len(sent) + 1 /\ Cur + 1 \in 1 .. Len(sent) + 1
  BY <1>1, <1>2 DEF Cur
<1>4. /\ Off(Cur) \in 0 .. written /\ Off(Cur + 1) \in 0 .. written /\ written \in Nat
      /\ Len(sent[Cur]) \in Hdr .. MaxLen
      /\ \A i \in 1 .. Len(sent[Cur]) : sent[Cur][i] = Off(Cur) + i
      /\ Off(Cur + 1) = Off(Cur) + Len(sent[Cur])
  BY <1>3 DEF SentInv
<1>5. got \in Seq(Nat) /\ Len(got) \in Nat
  BY LenProperties DEF ReaderInv
<1> QED
  BY <1>1, <1>2, <1>3, <1>4, <1>5

(* The reader copies what lies between its start and its view of end.      *)
LEMMA FetchUsed ==
  ASSUME NEW s \in Ring, NEW e \in Ring, NEW k \in 0 .. Used(s, e) - 1
  PROVE  Fetch(s, e, k) = cells[Wrap(s + k)]
BY RingBufAssumption DEF Ring, Used, Wrap, Fetch

(* The packet is there as a whole when end is stored.                      *)
LEMMA StoreEndInv ==
  ASSUME Uses = {}, Inv, StoreEnd
  PROVE  Inv'
<1>1. /\ wpc = "store" /\ wpc' = "idle" /\ end' = Wrap(end + wlen)
      /\ written' = written + wlen /\ sent' = Append(sent, Packet(written, wlen))
      /\ start' = start /\ cells' = cells /\ wlen' = wlen
      /\ reader' = reader /\ taken' = taken
  BY DEF StoreEnd, reader
<1>2. /\ start \in Ring /\ end \in Ring /\ cells \in [Ring -> Cells]
      /\ taken \in Nat /\ written \in Nat /\ Size \in Nat
      /\ wlen \in Hdr .. MaxLen /\ wlen \in Nat /\ Len(sent) < MaxSent
      /\ Used(start, end) \in 0 .. Size - 1 /\ Used(start, end) + wlen < Size
      /\ Used(start, end) = written - taken
  BY <1>1, UsedRange, RingBufAssumption DEF Inv, RingInv, WriterInv, SentInv
<1>3. /\ SentInv' /\ Budget' /\ Len(sent') = Len(sent) + 1
      /\ \A k \in 1 .. Len(sent) : sent'[k] = sent[k]
      /\ \A k \in 1 .. Len(sent) + 1 : Off(k)' = Off(k)
  BY <1>1, <1>2, SentGrows DEF Inv
<1>4. /\ end' \in Ring /\ Used(start, end') = Used(start, end) + wlen
      /\ \A k \in 0 .. wlen - 1 : Wrap(start + (Used(start, end) + k)) = Wrap(end + k)
  BY <1>1, <1>2, EndMoves
<1>5. \A k \in 0 .. Used(start, end') - 1 : cells[Wrap(start + k)] = taken + k + 1
  <2> TAKE k \in 0 .. Used(start, end') - 1
  <2>1. CASE k < Used(start, end)
    <3>1. k \in 0 .. Used(start, end) - 1
      BY <1>2, <1>4, <2>1
    <3> QED
      BY <3>1 DEF Inv, RingInv
  <2>2. CASE ~(k < Used(start, end))
    <3> DEFINE j == k - Used(start, end)
    <3>1. j \in 0 .. wlen - 1 /\ k = Used(start, end) + j /\ k \in Nat
      BY <1>2, <1>4, <2>2
    <3>2. cells[Wrap(end + j)] = written + j + 1
      BY <1>1, <3>1 DEF Inv, WriterInv
    <3>3. Wrap(start + k) = Wrap(end + j)
      BY <1>4, <3>1
    <3>4. written + j + 1 = taken + k + 1
      BY <1>2, <3>1
    <3> QED
      BY <3>2, <3>3, <3>4
  <2> QED
    BY <2>1, <2>2
<1>6. Used(start, end') = written' - taken
  BY <1>1, <1>2, <1>4
<1>7. RingInv'
  BY <1>1, <1>2, <1>4, <1>5, <1>6 DEF RingInv
<1>8. WriterInv'
  BY <1>1, <1>2, RingBufAssumption DEF WriterInv
<1>9. ReaderInv'
  <2>1. ReaderInv /\ SentInv
    BY DEF Inv
  <2>2. /\ sent \in Seq(Seq(Nat)) /\ Packet(written, wlen) \in Seq(Nat)
        /\ Len(sent) \in Nat /\ Len(delivered) \in 0 .. Len(sent)
    BY <1>2, <2>1, PacketSeq, OffTypes DEF SentInv, ReaderInv
  <2>3. SubSeq(sent', 1, Len(delivered)) = SubSeq(sent, 1, Len(delivered))
    BY <1>1, <2>2, PrefixStays
  <2>4. Cur' = Cur /\ Cur \in 1 .. Len(sent) + 1
    BY <1>1, <2>2 DEF reader, Cur
  <2>5. Off(Cur)' = Off(Cur)
    BY <1>3, <2>4 DEF Cur, reader
  <2>6. ASSUME rpc # "idle"
        PROVE  Off(Cur + 1)' = Off(Cur + 1) /\ sent'[Cur] = sent[Cur]
    <3>1. Cur \in 1 .. Len(sent) /\ Cur + 1 \in 1 .. Len(sent) + 1
      BY <2>1, <2>2, <2>6, CurrentPacket DEF Cur
    <3> QED
      BY <1>3, <2>4, <3>1
  <2>7. /\ delivered' = delivered /\ got' = got /\ rpc' = rpc /\ want' = want
        /\ rend' = rend /\ rnew' = rnew
    BY <1>1 DEF reader
  <2>8. /\ (delivered = SubSeq(sent, 1, Len(delivered)))'
        /\ (Len(delivered) \in 0 .. Len(sent))'
    <3>1. delivered = SubSeq(sent, 1, Len(delivered))
      BY <2>1 DEF ReaderInv
    <3>2. delivered = SubSeq(sent', 1, Len(delivered))
      BY <2>3, <3>1
    <3>3. Len(delivered) \in 0 .. Len(sent')
      BY <1>3, <2>2
    <3> QED
      BY <2>7, <3>2, <3>3
  <2>9. (got \in Seq(Nat) /\ \A i \in 1 .. Len(got) : got[i] = Off(Cur) + i)'
    BY <2>1, <2>4, <2>5, <2>7 DEF ReaderInv
  <2>10. /\ (rpc # "idle" => Len(delivered) < Len(sent))'
         /\ (rpc # "store" => taken = Off(Cur) + Len(got))'
    BY <1>1, <1>3, <2>1, <2>2, <2>4, <2>5, <2>7 DEF ReaderInv
  <2>11. (rpc \in {"load", "copy"} =>
            \/ want = Hdr /\ Len(got) = 0
            \/ want = Len(sent[Cur]) /\ want > Hdr /\ Len(got) = Hdr)'
    BY <2>1, <2>4, <2>6, <2>7 DEF ReaderInv
  <2>12. ASSUME rpc = "copy"
         PROVE  (Off(Cur + 1) <= taken + Used(start, rend) /\ taken + Used(start, rend) <= written)'
    <3>1. Off(Cur + 1)' = Off(Cur + 1)
      BY <2>6, <2>12
    <3>2. Used(start, rend)' = Used(start, rend) /\ taken' = taken
      BY <1>1, <2>7 DEF Used
    <3>3. /\ Off(Cur + 1) <= taken + Used(start, rend)
          /\ taken + Used(start, rend) <= written /\ rend \in Ring
      BY <2>1, <2>12 DEF ReaderInv
    <3>4. Used(start, rend) \in Nat
      BY <1>2, <3>3, UsedRange
    <3>5. taken + Used(start, rend) <= written'
      BY <1>1, <1>2, <3>3, <3>4
    <3> QED
      BY <3>1, <3>2, <3>3, <3>5
  <2>13. ASSUME rpc = "store"
         PROVE  (/\ Len(got) = want /\ want \in {Hdr, Len(sent[Cur])}
                 /\ rnew \in start + 1 .. start + Used(start, end)
                 /\ taken + (rnew - start) = Off(Cur) + Len(got))'
    <3>1. sent'[Cur] = sent[Cur]
      BY <2>6, <2>13
    <3>2. /\ Len(got) = want /\ want \in {Hdr, Len(sent[Cur])}
          /\ rnew \in start + 1 .. start + Used(start, end)
          /\ taken + (rnew - start) = Off(Cur) + Len(got)
      BY <2>1, <2>13 DEF ReaderInv
    <3>3. Used(start, end)' = Used(start, end) + wlen /\ start \in Int
      BY <1>1, <1>2, <1>4 DEF Used, Ring
    <3>4. (rnew \in start + 1 .. start + Used(start, end))'
      BY <1>1, <1>2, <2>7, <3>2, <3>3
    <3> QED
      BY <1>1, <2>4, <2>5, <2>7, <3>1, <3>2, <3>4
  <2> QED
    BY <2>1, <2>7, <2>8, <2>9, <2>10, <2>11, <2>12, <2>13 DEF ReaderInv
<1> QED
  BY <1>3, <1>7, <1>8, <1>9 DEF Inv

(* There is something, so there is a whole packet. *)
LEMMA LookInv ==
  ASSUME Uses = {}, Inv, Look
  PROVE  Inv'
<1>1. /\ rpc = "idle" /\ start # end /\ rpc' = "load"
      /\ shared' = shared /\ writer' = writer /\ sent' = sent /\ written' = written
      /\ start' = start /\ end' = end /\ cells' = cells /\ taken' = taken
      /\ wpc' = wpc /\ wlen' = wlen
      /\ rend' = rend /\ rnew' = rnew /\ want' = want /\ got' = got
      /\ delivered' = delivered
  BY DEF Look, shared, writer
<1>2. SentInv' /\ Budget' /\ \A k : Off(k)' = Off(k)
  BY <1>1, SentSame DEF Inv
<1>3. RingInv' /\ WriterInv'
  BY <1>1 DEF Inv, RingInv, WriterInv
<1>4. Len(delivered) < Len(sent)
  <2>1. /\ start \in Ring /\ end \in Ring /\ taken \in Nat /\ written \in Nat
        /\ Used(start, end) = written - taken
    BY DEF Inv, RingInv, SentInv
  <2>2. taken < written
    BY <1>1, <2>1, UsedRange
  <2>3. taken = Off(Cur) + 0 /\ Len(delivered) \in 0 .. Len(sent)
    BY <1>1, EmptySeq DEF Inv, ReaderInv
  <2>4. Off(Len(sent) + 1) = written /\ Len(sent) \in Nat
    BY OffTypes DEF Inv
  <2>5. Len(delivered) # Len(sent)
    BY <2>1, <2>2, <2>3, <2>4 DEF Cur
  <2> QED
    BY <2>3, <2>4, <2>5
<1>5. Cur' = Cur /\ Off(Cur)' = Off(Cur) /\ Len(<<>>) = 0
  BY <1>1, <1>2 DEF Cur
<1>6. ReaderInv'
  BY <1>1, <1>4, <1>5 DEF Inv, ReaderInv
<1> QED
  BY <1>2, <1>3, <1>6 DEF Inv

(* The reader's view of end is behind its packet. *)
LEMMA LoadInv ==
  ASSUME Uses = {}, Inv, Load
  PROVE  Inv'
<1>1. /\ rpc = "load" /\ rpc' = "copy" /\ rend' = end
      /\ sent' = sent /\ written' = written
      /\ start' = start /\ end' = end /\ cells' = cells /\ taken' = taken
      /\ wpc' = wpc /\ wlen' = wlen
      /\ rnew' = rnew /\ want' = want /\ got' = got
      /\ delivered' = delivered
  BY DEF Load, shared, writer
<1>2. SentInv' /\ Budget' /\ \A k : Off(k)' = Off(k)
  BY <1>1, SentSame DEF Inv
<1>3. RingInv' /\ WriterInv'
  BY <1>1 DEF Inv, RingInv, WriterInv
<1>4. /\ Cur' = Cur /\ Off(Cur)' = Off(Cur) /\ Off(Cur + 1)' = Off(Cur + 1)
      /\ Used(start, rend)' = Used(start, end)
  BY <1>1, <1>2 DEF Cur, Used
<1>5. Off(Cur + 1) <= written
  BY <1>1, CurrentPacket DEF Inv
<1>6. taken + Used(start, end) = written /\ end \in Ring /\ written \in Nat
  BY DEF Inv, RingInv, SentInv
<1>7. ReaderInv'
  BY <1>1, <1>4, <1>5, <1>6 DEF Inv, ReaderInv
<1> QED
  BY <1>2, <1>3, <1>7 DEF Inv

(* The reader gets all it asked for, and the cells of its packet.          *)
LEMMA CopyOutInv ==
  ASSUME Uses = {}, Inv, CopyOut
  PROVE  Inv'
<1> DEFINE f == [i \in 1 .. Count |-> Fetch(start, rend, i - 1)]
<1>1. /\ rpc = "copy" /\ rpc' = "store" /\ rend' = rend
      /\ sent' = sent /\ written' = written
      /\ start' = start /\ end' = end /\ cells' = cells /\ taken' = taken
      /\ wpc' = wpc /\ wlen' = wlen
      /\ rnew' = start + Count /\ want' = want /\ got' = got \o f
      /\ delivered' = delivered
  BY DEF CopyOut, shared, writer
<1>2. SentInv' /\ Budget' /\ \A k : Off(k)' = Off(k)
  BY <1>1, SentSame DEF Inv
<1>3. RingInv' /\ WriterInv'
  BY <1>1 DEF Inv, RingInv, WriterInv
<1>4. Cur' = Cur /\ Off(Cur)' = Off(Cur)
  BY <1>1, <1>2 DEF Cur
<1>5. /\ start \in Ring /\ end \in Ring /\ rend \in Ring /\ taken \in Nat /\ written \in Nat
      /\ taken + Used(start, end) = written
      /\ cells \in [Ring -> Cells]
      /\ \A k \in 0 .. Used(start, end) - 1 : cells[Wrap(start + k)] = taken + k + 1
  BY DEF Inv, RingInv, SentInv, ReaderInv
<1>6. Used(start, end) \in 0 .. Size - 1 /\ Used(start, rend) \in 0 .. Size - 1
      /\ Size \in Nat /\ Hdr \in Nat \ {0} /\ MaxLen \in Nat
  BY <1>5, UsedRange, RingBufAssumption
<1>7. /\ Len(sent[Cur]) \in Hdr .. MaxLen /\ Off(Cur) \in Nat
      /\ Off(Cur + 1) = Off(Cur) + Len(sent[Cur]) /\ got \in Seq(Nat) /\ Len(got) \in Nat
  BY <1>1, CurrentPacket DEF Inv
<1>8. /\ \/ want = Hdr /\ Len(got) = 0
         \/ want = Len(sent[Cur]) /\ want > Hdr /\ Len(got) = Hdr
      /\ taken = Off(Cur) + Len(got) /\ want \in Hdr .. MaxLen
      /\ Off(Cur + 1) <= taken + Used(start, rend) /\ taken + Used(start, rend) <= written
      /\ \A i \in 1 .. Len(got) : got[i] = Off(Cur) + i
  BY <1>1 DEF Inv, ReaderInv
<1>9. /\ Count = want - Len(got) /\ Count \in 1 .. Used(start, rend)
      /\ Used(start, rend) <= Used(start, end) /\ want \in {Hdr, Len(sent[Cur])}
  <2> DEFINE u == Used(start, rend)
             v == Used(start, end)
             g == Len(got)
             l == Len(sent[Cur])
             o == Off(Cur)
  <2>1. /\ u \in Nat /\ v \in Nat /\ g \in Nat /\ l \in Nat /\ o \in Nat /\ want \in Nat
        /\ Hdr \in Nat \ {0} /\ Hdr <= l
        /\ taken \in Nat /\ written \in Nat /\ taken + v = written /\ taken = o + g
        /\ (want = Hdr /\ g = 0) \/ (want = l /\ want > Hdr /\ g = Hdr)
        /\ o + l <= taken + u /\ taken + u <= written
    BY <1>5, <1>6, <1>7, <1>8
  <2>2. Count = IF want - g < u THEN want - g ELSE u
    BY DEF Count, Least
  <2> HIDE DEF u, v, g, l, o
  <2>3. /\ Count = want - g /\ Count \in 1 .. u /\ u <= v /\ want \in {Hdr, l}
    BY <2>1, <2>2
  <2> QED
    BY <2>3 DEF u, v, g, l
<1>10. \A i \in 1 .. Count : f[i] = Off(Cur) + Len(got) + i
  <2> TAKE i \in 1 .. Count
  <2>1. i - 1 \in 0 .. Used(start, rend) - 1 /\ i - 1 \in 0 .. Used(start, end) - 1
    BY <1>6, <1>9
  <2>2. f[i] = cells[Wrap(start + (i - 1))]
    BY <1>5, <2>1, FetchUsed
  <2>3. cells[Wrap(start + (i - 1))] = taken + (i - 1) + 1
    BY <1>5, <2>1
  <2> QED
    BY <1>5, <1>7, <1>8, <1>9, <2>1, <2>2, <2>3
<1>11. f \in Seq(Nat) /\ Len(f) = Count
  <2>1. \A i \in 1 .. Count : f[i] \in Nat
    BY <1>7, <1>10
  <2>2. f \in [1 .. Count -> Nat] /\ Count \in Nat
    BY <1>9, <2>1
  <2> QED
    BY <2>2, SeqDef, LenProperties
<1> HIDE DEF f
<1>12. /\ got' \in Seq(Nat) /\ Len(got') = want
       /\ \A i \in 1 .. want : got'[i] = Off(Cur) + i
  <2>1. /\ got \o f \in Seq(Nat) /\ Len(got \o f) = Len(got) + Len(f)
        /\ \A i \in 1 .. Len(got) + Len(f) :
             (got \o f)[i] = IF i <= Len(got) THEN got[i] ELSE f[i - Len(got)]
    BY <1>7, <1>11, ConcatProperties
  <2>2. Len(got) + Len(f) = want
    BY <1>7, <1>8, <1>9, <1>11
  <2> SUFFICES ASSUME NEW i \in 1 .. want
               PROVE  got'[i] = Off(Cur) + i
    BY <1>1, <2>1, <2>2
  <2>3. CASE i <= Len(got)
    <3>1. i \in 1 .. Len(got)
      BY <2>3
    <3> QED
      BY <1>1, <1>8, <2>1, <2>2, <2>3, <3>1
  <2>4. CASE ~(i <= Len(got))
    <3>1. i - Len(got) \in 1 .. Count
      BY <1>7, <1>8, <1>9, <2>4
    <3>2. got'[i] = Off(Cur) + Len(got) + (i - Len(got))
      BY <1>1, <1>10, <2>1, <2>2, <2>4, <3>1
    <3> QED
      BY <1>7, <3>2
  <2> QED
    BY <2>3, <2>4
<1>13. /\ rnew' \in start + 1 .. start + Used(start, end)
       /\ rnew' \in 0 .. 2 * Size - 1
       /\ taken + (rnew' - start) = Off(Cur) + want
  <2> DEFINE u == Used(start, rend)
             v == Used(start, end)
             g == Len(got)
             o == Off(Cur)
             c == Count
  <2>1. /\ u \in 0 .. Size - 1 /\ v \in Nat /\ g \in Nat /\ o \in Nat /\ want \in Nat /\ c \in Nat
        /\ start \in 0 .. Size - 1 /\ Size \in Nat /\ taken = o + g
        /\ rnew' = start + c /\ c = want - g /\ c \in 1 .. u /\ u <= v
    BY <1>1, <1>5, <1>6, <1>7, <1>8, <1>9 DEF Ring
  <2> HIDE DEF u, v, g, o, c
  <2>2. /\ rnew' \in start + 1 .. start + v /\ rnew' \in 0 .. 2 * Size - 1
        /\ taken + (rnew' - start) = o + want
    BY <2>1
  <2> QED
    BY <2>2 DEF v, o
<1>14. Used(start, end)' = Used(start, end)
  BY <1>1 DEF Used
<1>15. ReaderInv'
  BY <1>1, <1>4, <1>8, <1>9, <1>12, <1>13, <1>14 DEF Inv, ReaderInv
<1> QED
  BY <1>2, <1>3, <1>15 DEF Inv

(* The reader gives back what it copied, asks for the body its header      *)
(* announces, or hands the packet on.                                      *)
LEMMA StoreStartInv ==
  ASSUME Uses = {}, Inv, StoreStart
  PROVE  /\ Inv'
         /\ \/ delivered' = delivered
            \/ /\ Len(delivered) < Len(sent)
               /\ delivered' = Append(delivered, sent[Len(delivered) + 1])
<1> DEFINE n == rnew - start
<1>1. /\ rpc = "store" /\ rend' = rend /\ rnew' = rnew
      /\ sent' = sent /\ written' = written
      /\ start' = Wrap(rnew) /\ end' = end /\ cells' = cells
      /\ taken' = Least(taken + rnew - start, MaxSent * MaxLen)
      /\ wpc' = wpc /\ wlen' = wlen
      /\ Continue(n)
  BY DEF StoreStart, writer
<1>2. SentInv' /\ Budget' /\ \A k : Off(k)' = Off(k)
  BY <1>1, SentSame DEF Inv
<1>3. /\ start \in Ring /\ end \in Ring /\ taken \in Nat /\ written \in Nat
      /\ Used(start, end) = written - taken /\ Used(start, end) \in 0 .. Size - 1
      /\ cells \in [Ring -> Cells] /\ Size \in Nat /\ MaxLen \in Nat /\ MaxSent \in Nat
      /\ Hdr \in Nat \ {0} /\ Hdr <= MaxLen /\ rnew \in Nat
  BY UsedRange, RingBufAssumption DEF Inv, RingInv, SentInv, ReaderInv
<1>4. /\ Cur \in 1 .. Len(sent) /\ Len(delivered) \in Nat /\ Len(sent) \in Nat
      /\ sent[Cur] \in Seq(Nat) /\ Len(sent[Cur]) \in Hdr .. MaxLen
      /\ Off(Cur) \in Nat /\ Off(Cur + 1) = Off(Cur) + Len(sent[Cur])
      /\ \A i \in 1 .. Len(sent[Cur]) : sent[Cur][i] = Off(Cur) + i
      /\ got \in Seq(Nat) /\ Len(got) \in Nat
  BY <1>1, CurrentPacket DEF Inv
<1>5. /\ Len(got) = want /\ want \in {Hdr, Len(sent[Cur])}
      /\ rnew \in start + 1 .. start + Used(start, end)
      /\ taken + (rnew - start) = Off(Cur) + Len(got)
      /\ \A i \in 1 .. Len(got) : got[i] = Off(Cur) + i
      /\ delivered = SubSeq(sent, 1, Len(delivered)) /\ rend \in Ring
      /\ rnew \in 0 .. 2 * Size - 1 /\ want \in Hdr .. MaxLen
  BY <1>1 DEF Inv, ReaderInv
<1>6. n \in 1 .. Used(start, end) /\ start + n = rnew
  BY <1>3, <1>5 DEF Ring
<1>7. taken' = taken + n
  <2>1. (MaxSent - Len(sent)) * MaxLen \in Nat /\ MaxSent * MaxLen \in Nat
    <3>0. Len(sent) <= MaxSent
      BY DEF Inv, SentInv
    <3>1. MaxSent - Len(sent) \in Nat
      BY <1>4, <3>0, RingBufAssumption
    <3> DEFINE m == MaxSent - Len(sent)
    <3> HIDE DEF m
    <3>2. m \in Nat => m * MaxLen \in Nat
      BY <1>3
    <3> QED
      BY <1>3, <3>1, <3>2 DEF m
  <2>2. written <= MaxSent * MaxLen
    <3> DEFINE a == (MaxSent - Len(sent)) * MaxLen
               b == MaxSent * MaxLen
    <3>1. a \in Nat /\ b \in Nat /\ written + a <= b
      BY <2>1 DEF Inv, Budget
    <3> HIDE DEF a, b
    <3>2. written <= b
      BY <1>3, <3>1
    <3> QED
      BY <3>2 DEF b
  <2>3. taken + n <= written /\ taken + rnew - start = taken + n
    BY <1>3, <1>6 DEF Ring
  <2> DEFINE b == MaxSent * MaxLen
  <2>4. b \in Nat /\ written <= b /\ taken' = Least(taken + n, b)
    BY <1>1, <2>1, <2>2, <2>3
  <2> HIDE DEF b, n
  <2>5. taken + n <= b /\ taken + n \in Int
    BY <1>3, <1>6, <2>3, <2>4
  <2> QED
    BY <2>4, <2>5 DEF Least
<1>8. /\ start' \in Ring /\ Used(start', end) = Used(start, end) - n
      /\ \A k \in 0 .. Used(start, end) - n - 1 : Wrap(start' + k) = Wrap(start + (n + k))
  <2>1. n \in 0 .. Used(start, end)
    BY <1>3, <1>6
  <2>2. start' = Wrap(start + n)
    BY <1>1, <1>6
  <2> HIDE DEF n
  <2> QED
    BY <1>3, <2>1, <2>2, StartMoves
<1> HIDE DEF n
<1>9. RingInv'
  <2>1. Used(start', end) = written - taken'
    BY <1>3, <1>6, <1>7, <1>8
  <2>2. \A k \in 0 .. Used(start', end) - 1 : cells[Wrap(start' + k)] = taken' + k + 1
    <3> TAKE k \in 0 .. Used(start', end) - 1
    <3>1. n + k \in 0 .. Used(start, end) - 1 /\ k \in 0 .. Used(start, end) - n - 1
      BY <1>3, <1>6, <1>8
    <3>2. cells[Wrap(start + (n + k))] = taken + (n + k) + 1
      BY <3>1 DEF Inv, RingInv
    <3>3. Wrap(start' + k) = Wrap(start + (n + k))
      BY <1>8, <3>1
    <3> QED
      BY <1>3, <1>6, <1>7, <3>1, <3>2, <3>3
  <2>3. taken' \in Nat
    BY <1>3, <1>6, <1>7
  <2> QED
    BY <1>1, <1>3, <1>8, <2>1, <2>2, <2>3 DEF RingInv
<1>10. WriterInv'
  <2>1. WriterInv
    BY DEF Inv
  <2>2. wpc # "idle" => wlen \in Hdr .. MaxLen /\ Used(start, end) + wlen < Size
    BY <2>1 DEF WriterInv
  <2>3. wpc # "idle" => Used(start', end) + wlen < Size
    BY <1>3, <1>6, <1>8, <2>2
  <2> QED
    BY <1>1, <2>1, <2>3 DEF WriterInv
<1>11. Lengths(got) = {Len(sent[Cur])} \/ want # Hdr
  <2> SUFFICES ASSUME want = Hdr
               PROVE  Lengths(got) = {Len(sent[Cur])}
    OBVIOUS
  <2>1. \A i \in 1 .. Hdr : got[i] = Off(Cur) + i
    BY <1>5
  <2> QED
    BY <1>4, <1>5, <2>1, HeaderTellsLength DEF Inv
<1>12. taken' = Off(Cur) + Len(got)
  BY <1>5, <1>7 DEF n
<1>13. CASE /\ n > 0 /\ Len(got) = want /\ want = Hdr
            /\ want' \in Lengths(got) \ {Hdr}
            /\ rpc' = "load" /\ got' = got /\ delivered' = delivered
  <2>1. want' = Len(sent[Cur]) /\ want' > Hdr /\ want' \in Hdr .. MaxLen
    <3>1. want' = Len(sent[Cur]) /\ want' # Hdr
      BY <1>11, <1>13
    <3>2. want' \in Hdr .. MaxLen
      BY <1>4, <3>1
    <3> QED
      BY <1>3, <3>1, <3>2
  <2>2. Cur' = Cur /\ Off(Cur)' = Off(Cur)
    BY <1>2, <1>13 DEF Cur
  <2>3. Len(delivered) < Len(sent)
    BY <1>4 DEF Cur
  <2>4. ReaderInv'
    <3>1. /\ rpc' = "load" /\ got' = got /\ delivered' = delivered
          /\ rend' = rend /\ rnew' = rnew /\ sent' = sent
          /\ Len(got) = Hdr /\ taken' = Off(Cur) + Len(got)
      BY <1>1, <1>12, <1>13
    <3>2. /\ want' = Len(sent'[Cur']) /\ want' > Hdr /\ want' \in Hdr .. MaxLen
          /\ \A i \in 1 .. Len(got') : got'[i] = Off(Cur)' + i
          /\ taken' = Off(Cur)' + Len(got')
      BY <1>5, <2>1, <2>2, <3>1
    <3>3. /\ delivered' = SubSeq(sent', 1, Len(delivered')) /\ got' \in Seq(Nat)
          /\ Len(delivered') \in 0 .. Len(sent') /\ Len(delivered') < Len(sent')
          /\ rend' \in Ring /\ rnew' \in 0 .. 2 * Size - 1
      BY <1>4, <1>5, <2>3, <3>1
    <3> QED
      BY <3>1, <3>2, <3>3 DEF ReaderInv
  <2> QED
    BY <1>2, <1>9, <1>10, <1>13, <2>4 DEF Inv
<1>14. CASE /\ Len(got) = want /\ want = Hdr => Hdr \in Lengths(got)
            /\ delivered' = IF Len(delivered) < MaxSent THEN Append(delivered, got) ELSE delivered
            /\ rpc' = "idle" /\ want' = Hdr /\ got' = <<>>
  <2>1. Len(got) = Len(sent[Cur])
    BY <1>5, <1>11, <1>14
  <2>2. got = sent[Cur]
    <3>1. \A i \in 1 .. Len(got) : got[i] = sent[Cur][i]
      BY <1>4, <1>5, <2>1
    <3> QED
      BY <1>4, <2>1, <3>1, SeqEqual
  <2>3. Len(delivered) < Len(sent) /\ Len(sent) <= MaxSent
    BY <1>4 DEF Cur, Inv, SentInv
  <2>4. delivered' = Append(delivered, sent[Cur])
    BY <1>3, <1>4, <1>14, <2>2, <2>3
  <2>5. Append(delivered, sent[Cur]) = SubSeq(sent, 1, Cur) /\ Len(SubSeq(sent, 1, Cur)) = Cur
    <3>1. sent \in Seq(Seq(Nat)) /\ Len(delivered) \in 0 .. Len(sent)
      BY <1>4, <2>3 DEF Inv, SentInv
    <3>2. Append(SubSeq(sent, 1, Len(delivered)), sent[Cur]) = SubSeq(sent, 1, Cur)
      BY <2>3, <3>1, PrefixGrows DEF Cur
    <3>3. 0 \in 0 .. Len(sent) /\ Cur \in 0 .. Len(sent) /\ 0 + 1 = 1 /\ Cur - 0 = Cur
      BY <1>4
    <3>4. Len(SubSeq(sent, 1, Cur)) = Cur
      BY <3>1, <3>3, PartOf
    <3> QED
      BY <1>5, <3>2, <3>4
  <2>6. Len(delivered') = Cur /\ Len(delivered') \in 0 .. Len(sent) /\ Cur' = Cur + 1
    BY <1>4, <2>4, <2>5 DEF Cur
  <2>7. Off(Cur)' = Off(Cur + 1)
    BY <1>2, <2>6
  <2>8. taken' = Off(Cur)' + 0 /\ Len(<<>>) = 0 /\ <<>> \in Seq(Nat)
    BY <1>4, <1>12, <2>1, <2>7
  <2>9. ReaderInv'
    BY <1>1, <1>3, <1>5, <1>14, <2>4, <2>5, <2>6, <2>8 DEF ReaderInv
  <2> QED
    BY <1>2, <1>9, <1>10, <2>3, <2>4, <2>9 DEF Inv, Cur
<1> QED
  BY <1>1, <1>5, <1>6, <1>13, <1>14 DEF Continue

(* ringbuf_init(): nothing was sent, nothing lies in the ring.             *)
LEMMA InitInv == Init => Inv
<1> SUFFICES ASSUME Init PROVE Inv
  OBVIOUS
<1>1. /\ Hdr \in Nat \ {0} /\ MaxLen \in Nat /\ Hdr <= MaxLen /\ Size \in Nat
      /\ 0 < Size /\ MaxSent \in Nat
  BY RingBufAssumption
<1>2. sent = <<>> /\ Len(sent) = 0 /\ sent \in Seq(Seq(Nat)) /\ written = 0
  BY EmptySeq DEF Init
<1>3. \A k \in 1 .. 1 : Off(k) = 0
  BY <1>2 DEF Off
<1>4. SentInv
  BY <1>1, <1>2, <1>3 DEF SentInv
<1>5. Budget
  <2>1. (MaxSent - 0) * MaxLen = MaxSent * MaxLen /\ MaxSent * MaxLen \in Int
    BY <1>1
  <2> QED
    BY <1>2, <2>1 DEF Budget
<1>6. Used(0, 0) = 0
  BY <1>1 DEF Used
<1>7. start = 0 /\ end = 0 /\ 0 \in Ring /\ taken = 0 /\ cells = [i \in Ring |-> Junk]
  BY <1>1 DEF Init, Ring
<1>8. RingInv
  <2>1. cells \in [Ring -> Cells]
    BY <1>7 DEF Cells
  <2>2. written - taken = 0
    BY <1>2, <1>7
  <2> QED
    BY <1>6, <1>7, <2>1, <2>2 DEF RingInv
<1>9. WriterInv
  BY <1>1 DEF Init, WriterInv
<1>10. ReaderInv
  <2>1. delivered = <<>> /\ got = <<>> /\ <<>> \in Seq(Nat) /\ Len(<<>>) = 0
    BY EmptySeq DEF Init
  <2>2. SubSeq(<<>>, 1, 0) = <<>>
    BY EmptySeq DEF SubSeq
  <2>3. Off(Cur) = 0
    BY <1>3, <2>1 DEF Cur
  <2>4. rpc = "idle" /\ want = Hdr /\ rend = 0 /\ rnew = 0
    BY DEF Init
  <2> QED
    BY <1>1, <1>2, <1>7, <2>1, <2>2, <2>3, <2>4 DEF ReaderInv
<1> QED
  BY <1>4, <1>5, <1>8, <1>9, <1>10 DEF Inv

(* Neither side ever is between two stores of an index.                    *)
LEMMA NextInv ==
  ASSUME Uses = {}, Inv, [Next]_vars
  PROVE  Inv'
<1>1. CASE \E n \in Hdr .. MaxLen : Write(n)
  BY <1>1, WriteInv
<1>2. CASE CopyIn
  BY <1>2, CopyInInv
<1>3. CASE StoreEnd
  BY <1>3, StoreEndInv
<1>4. CASE WrapEnd
  BY <1>4 DEF WrapEnd, Inv, WriterInv
<1>5. CASE Look
  BY <1>5, LookInv
<1>6. CASE Load
  BY <1>6, LoadInv
<1>7. CASE CopyOut
  BY <1>7, CopyOutInv
<1>8. CASE StoreStart
  BY <1>8, StoreStartInv
<1>9. CASE WrapStart
  BY <1>9 DEF WrapStart, Inv, ReaderInv
<1>10. CASE UNCHANGED vars
  <2>1. /\ sent' = sent /\ written' = written /\ start' = start /\ end' = end
        /\ cells' = cells /\ taken' = taken /\ reader' = reader /\ wpc' = wpc /\ wlen' = wlen
    BY <1>10 DEF vars, shared, writer, reader
  <2>2. SentInv' /\ Budget' /\ \A k : Off(k)' = Off(k)
    BY <2>1, SentSame DEF Inv
  <2>3. RingInv' /\ WriterInv'
    BY <2>1 DEF Inv, RingInv, WriterInv
  <2>4. ReaderInv'
    BY <2>1, <2>2, ReaderSame DEF Inv
  <2> QED
    BY <2>2, <2>3, <2>4 DEF Inv
<1> QED
  BY <1>1, <1>2, <1>3, <1>4, <1>5, <1>6, <1>7, <1>8, <1>9, <1>10 DEF Next, Writing, Reading

(* The invariant of a ring whose two sides store each index once.          *)
THEOREM Invariant ==
  ASSUME Uses = {}
  PROVE  Spec => []Inv
<1>1. Inv /\ [Next]_vars => Inv'
  BY NextInv
<1> QED
  BY <1>1, InitInv, PTL DEF Spec

-----------------------------------------------------------------------------
(* The ring is a pipe *)

(* What the invariant says of the ring itself: no cell is written that was *)
(* not given back, none is read that was not written.                      *)
LEMMA InvSafe == Inv => TypeOK /\ NoOverrun /\ InsideRing
<1> SUFFICES ASSUME Inv PROVE TypeOK /\ NoOverrun /\ InsideRing
  OBVIOUS
<1>1. SentInv /\ RingInv /\ WriterInv /\ ReaderInv
  BY DEF Inv
<1>2. /\ start \in Ring /\ end \in Ring /\ rend \in Ring
      /\ \A i \in Ring : i \in 0 .. 2 * Size - 1
  BY <1>1, RingBufAssumption DEF RingInv, ReaderInv, Ring
<1>3. sent \in Seq(Seq(Nat)) /\ written \in Nat /\ taken \in Nat /\ got \in Seq(Nat)
  BY <1>1 DEF SentInv, RingInv, ReaderInv
<1>4. got \in Seq(Nat \union {Junk}) /\ \A i \in 1 .. Len(got) : got[i] # Junk
  <2>1. \A i \in 1 .. Len(got) : got[i] \in Nat
    BY <1>3, ElementOfSeq
  <2>2. Seq(Nat) \subseteq Seq(Nat \union {Junk})
    BY SeqDef
  <2> QED
    BY <1>3, <2>1, <2>2 DEF Junk
<1>5. delivered \in Seq(Seq(Nat \union {Junk}))
  <2>1. \A k \in 1 .. Len(delivered) : sent[k] \in Seq(Nat)
    BY <1>1, <1>3, OffTypes DEF ReaderInv
  <2>2. Seq(Nat) \subseteq Seq(Nat \union {Junk})
    BY SeqDef
  <2>3. Len(delivered) \in Nat /\ delivered = SubSeq(sent, 1, Len(delivered))
    BY <1>1, OffTypes DEF ReaderInv
  <2>4. \A k \in 1 .. Len(delivered) : sent[k] \in Seq(Nat \union {Junk})
    BY <2>1, <2>2
  <2> QED
    BY <2>3, <2>4, SubSeqProperties
<1>6. TypeOK
  BY <1>1, <1>2, <1>3, <1>4, <1>5 DEF TypeOK, RingInv, WriterInv, ReaderInv, Cells
<1>7. NoOverrun
  BY <1>1 DEF NoOverrun, RingInv
<1> QED
  BY <1>4, <1>6, <1>7 DEF InsideRing

(* What was sent and not delivered. *)
Queue == SubSeq(sent, Len(delivered) + 1, Len(sent))

(* A packet is sent when its end is stored, delivered when the start       *)
(* behind it is, and no other step shows.                                  *)
LEMMA StepSimulation ==
  ASSUME Uses = {}, Inv, [Next]_vars
  PROVE  [Contract!Next]_<<Queue, delivered>>
<1>1. SentInv /\ ReaderInv /\ sent \in Seq(Seq(Nat)) /\ Len(delivered) \in 0 .. Len(sent)
      /\ Len(sent) \in Nat /\ written \in Nat
  BY OffTypes DEF Inv, SentInv, ReaderInv
<1>2. \A k \in 1 .. Len(sent) : sent[k] \in Seq(Nat)
  BY <1>1, ElementOfSeq
<1>3. ASSUME sent' = sent, delivered' = delivered
      PROVE  UNCHANGED <<Queue, delivered>>
  BY <1>3 DEF Queue
<1>4. CASE \E n \in Hdr .. MaxLen : Write(n)
  BY <1>3, <1>4 DEF Write, reader
<1>5. CASE CopyIn \/ WrapEnd \/ Look \/ Load \/ CopyOut \/ UNCHANGED vars
  BY <1>3, <1>5 DEF CopyIn, WrapEnd, Look, Load, CopyOut, vars, writer, reader
<1>6. CASE WrapStart
  BY <1>1, <1>6 DEF WrapStart, ReaderInv
<1>7. CASE StoreEnd
  <2> DEFINE p == Packet(written, wlen)
  <2>1. sent' = Append(sent, p) /\ delivered' = delivered /\ wpc = "store"
    BY <1>7 DEF StoreEnd, reader
  <2>2. wlen \in Hdr .. MaxLen /\ wlen \in Nat /\ written \in 0 .. MaxSent * MaxLen
    <3>1. wlen \in Hdr .. MaxLen /\ Len(sent) < MaxSent
      BY <2>1 DEF Inv, WriterInv
    <3>2. MaxSent \in Nat /\ MaxLen \in Nat /\ Hdr \in Nat /\ MaxSent - Len(sent) \in Nat
      BY <1>1, <3>1, RingBufAssumption
    <3> DEFINE m == MaxSent - Len(sent)
    <3>3. m \in Nat /\ written + m * MaxLen <= MaxSent * MaxLen
      BY <3>2 DEF Inv, Budget
    <3> HIDE DEF m
    <3> DEFINE a == m * MaxLen
               b == MaxSent * MaxLen
    <3>4. a \in Nat /\ b \in Nat /\ written + a <= b
      BY <3>2, <3>3
    <3> HIDE DEF a, b
    <3>5. written <= b /\ written \in 0 .. b
      BY <1>1, <3>4
    <3> QED
      BY <3>1, <3>2, <3>5 DEF b
  <2>3. p \in Seq(Nat)
    BY <1>1, <2>2, PacketSeq
  <2>4. p \in {Packet(w, n) : w \in 0 .. MaxSent * MaxLen, n \in Hdr .. MaxLen}
    BY <2>2
  <2> HIDE DEF p
  <2>5. Queue' = Append(Queue, p)
    <3>1. Len(sent') = Len(sent) + 1 /\ Len(delivered') = Len(delivered)
      BY <1>1, <2>1, <2>3, AppendProperties
    <3>2. Queue' = SubSeq(Append(sent, p), Len(delivered) + 1, Len(sent) + 1)
      BY <2>1, <3>1 DEF Queue
    <3> QED
      BY <1>1, <2>3, <3>2, RestGrows DEF Queue
  <2>6. Contract!Send(p)
    BY <2>1, <2>5 DEF Contract!Send, Queue
  <2> DEFINE P == {Packet(w, n) : w \in 0 .. MaxSent * MaxLen, n \in Hdr .. MaxLen}
  <2>7. Contract!Next <=> Contract!Deliver \/ \E q \in P : Contract!Send(q)
    BY DEF Contract!Next
  <2>8. p \in P
    BY <2>4
  <2> HIDE DEF P
  <2> QED
    BY <2>6, <2>7, <2>8
<1>8. CASE StoreStart
  <2>1. sent' = sent
    BY <1>8 DEF StoreStart, writer
  <2>2. CASE delivered' = delivered
    BY <1>3, <2>1, <2>2
  <2>3. CASE /\ Len(delivered) < Len(sent)
             /\ delivered' = Append(delivered, sent[Len(delivered) + 1])
    <3> DEFINE d == Len(delivered)
    <3>1. d \in Nat /\ d + 1 \in 1 .. Len(sent)
      BY <1>1, <2>3
    <3>2. /\ Queue # <<>> /\ Head(Queue) = sent[d + 1]
          /\ Tail(Queue) = SubSeq(sent, d + 2, Len(sent))
      <4>1. Len(sent) \in d + 1 .. Len(sent) /\ d + 1 + 1 = d + 2
        BY <1>1, <3>1
      <4>2. /\ Head(SubSeq(sent, d + 1, Len(sent))) = sent[d + 1]
            /\ Tail(SubSeq(sent, d + 1, Len(sent))) = SubSeq(sent, d + 1 + 1, Len(sent))
        BY <1>1, <3>1, <4>1, HeadTailOfSubSeq
      <4>3. Len(SubSeq(sent, d + 1, Len(sent))) = Len(sent) - d /\ Len(sent) \in d .. Len(sent)
        BY <1>1, PartOf
      <4>4. SubSeq(sent, d + 1, Len(sent)) # <<>>
        <5>1. Len(<<>>) = 0 /\ Len(sent) - d # 0
          BY <1>1, <3>1, EmptySeq
        <5> QED
          BY <4>3, <5>1
      <4> QED
        BY <4>1, <4>2, <4>4 DEF Queue
    <3>3. Len(delivered') = d + 1
      <4>1. delivered = SubSeq(sent, 1, d)
        BY <1>1 DEF ReaderInv
      <4>2. delivered' = SubSeq(sent, 1, d + 1)
        BY <1>1, <2>3, <4>1, PrefixGrows
      <4>3. 0 \in 0 .. Len(sent) /\ d + 1 \in 0 .. Len(sent) /\ 0 + 1 = 1 /\ d + 1 - 0 = d + 1
        BY <1>1, <3>1
      <4>4. Len(SubSeq(sent, 1, d + 1)) = d + 1
        BY <1>1, <4>3, PartOf
      <4> QED
        BY <4>2, <4>4
    <3>4. Queue' = Tail(Queue)
      <4>1. Queue' = SubSeq(sent, d + 1 + 1, Len(sent))
        BY <2>1, <3>3 DEF Queue
      <4>2. d + 1 + 1 = d + 2
        BY <3>1
      <4> QED
        BY <3>2, <4>1, <4>2
    <3>5. Contract!Deliver
      BY <2>3, <3>2, <3>4 DEF Contract!Deliver, Queue
    <3> QED
      BY <3>5 DEF Contract!Next
  <2> QED
    BY <1>8, <2>2, <2>3, StoreStartInv
<1> QED
  BY <1>4, <1>5, <1>6, <1>7, <1>8 DEF Next, Writing, Reading

(* The contract of the two rings: without a lock, packets come out whole,  *)
(* in order and once, no cell is written that the reader has not given     *)
(* back, and no copy leaves the ring.  It holds of a build that stores     *)
(* each index once, and of a writer that stops when there is no room.      *)
THEOREM TheRingIsAPipe ==
  ASSUME Uses = {}
  PROVE  Spec => RingIsAPipe
<1>1. Init => Contract!Init
  <2> SUFFICES ASSUME Init PROVE Contract!Init
    OBVIOUS
  <2>1. sent = <<>> /\ delivered = <<>> /\ Len(<<>>) = 0
    BY EmptySeq DEF Init
  <2>2. SubSeq(<<>>, 0 + 1, 0) = <<>>
    BY EmptySeq DEF SubSeq
  <2> QED
    BY <2>1, <2>2 DEF Contract!Init
<1>2. Inv /\ [Next]_vars => [Contract!Next]_<<Queue, delivered>>
  BY StepSimulation
<1>3. Inv => TypeOK /\ NoOverrun /\ InsideRing
  BY InvSafe
<1>4. Spec => []Inv
  BY Invariant
<1> QED
  BY <1>1, <1>2, <1>3, <1>4, PTL DEF Spec, RingIsAPipe, Contract!Spec, Queue
-----------------------------------------------------------------------------

(* A component that is down stays down, whoever began quit(): init() is    *)
(* over. So each step finds down what the steps before it took down.       *)
UpInv ==
  /\ components \subseteq Server!Components
  /\ ran /\ mainpc \in {"network quit", "graphics quit", "process quit", "kill kid", "exit", "gone"}
       => "user" \notin components
  /\ ran /\ mainpc \in {"graphics quit", "process quit", "kill kid", "exit", "gone"}
       => "network" \notin components
  /\ ran /\ mainpc \in {"process quit", "kill kid", "exit", "gone"} => "graphics" \notin components
  /\ ran /\ mainpc \in {"kill kid", "exit", "gone"} => "process" \notin components

(* quit() passes over the components only before they are all set up, or   *)
(* when one that was begun before has taken them all down.                 *)
RunningInv == /\ ran /\ ~running => components = {}
              /\ mainpc \in {"fork", "handler", "graphics", "network", "user", "process", "running"} => ~ran

ServerInv == UpInv /\ RunningInv

(* What begins quit(), or ends all, leaves it at that.                     *)
LEMMA ServerInterrupted ==
  ASSUME ServerInv, UNCHANGED <<components, running, ran>>,
         UNCHANGED mainpc \/ mainpc' \in {"quit", "aborted"}
  PROVE  ServerInv'
BY DEF ServerInv, UpInv, RunningInv

(* Each step of quit() leaves one part less, and a handler that begins     *)
(* quit() anew, in the middle of it too, brings none back.                 *)
LEMMA ServerStepInv ==
  ASSUME ServerInv, [Server!Next]_mainvars
  PROVE  ServerInv'
<1>1. CASE Server!rc_init
  BY <1>1 DEF Server!rc_init, Server!Go, ServerInv, UpInv, RunningInv
<1>2. CASE Server!InitOne
  BY <1>2 DEF Server!InitOne, Server!Go, Server!Components, ServerInv, UpInv, RunningInv
<1>3. CASE Server!InitFlags
  <2>1. mainpc' \in {"signals", "tell"} /\ UNCHANGED components
    BY <1>3 DEF Server!InitFlags, Server!Go
  <2>2. running' \/ (UNCHANGED <<running, ran>>)
    BY <1>3 DEF Server!InitFlags
  <2>3. UpInv'
    BY <2>1 DEF ServerInv, UpInv
  <2>4. mainpc' \notin {"fork", "handler", "graphics", "network", "user", "process", "running"}
    BY <2>1
  <2>5. ran' /\ ~running' => components' = {}
    BY <2>1, <2>2, Zenon DEF ServerInv, RunningInv
  <2> QED
    BY <2>3, <2>4, <2>5, Zenon DEF ServerInv, RunningInv
<1>4. CASE Server!InitTell
  BY <1>4 DEF Server!InitTell, Server!srv, Server!Go, ServerInv, UpInv, RunningInv
<1>5. CASE Server!Abort \/ Server!Crash
  BY <1>5, ServerInterrupted DEF Server!Abort, Server!Crash, Server!srv
<1>6. CASE Server!sigchld_handler
  BY <1>6, ServerInterrupted DEF Server!sigchld_handler, Server!quit, Server!srv
<1>7. CASE Server!sigint_handler \/ Server!WindowClosed
  BY <1>7, ServerInterrupted DEF Server!sigint_handler, Server!WindowClosed, Server!quit
<1>8. CASE Server!Quit
  <2>1. CASE mainpc = "quit"
    <3>1. /\ mainpc' = IF running THEN "user quit" ELSE "exit"
          /\ UNCHANGED <<components, running, ran>>
      BY <1>8, <2>1 DEF Server!Quit, Server!Go, Server!srv
    <3> QED
      BY <2>1, <3>1 DEF ServerInv, UpInv, RunningInv
  <2>2. CASE mainpc # "quit"
    <3>1. /\ components' = {c \in components : mainpc # Server!TakesDown[c]}
          /\ UNCHANGED <<running, ran>>
      BY <1>8, <2>2 DEF Server!Quit, Server!Go
    <3>2. \/ mainpc = "user quit" /\ mainpc' = "network quit" /\ "user" \notin components'
          \/ mainpc = "network quit" /\ mainpc' = "graphics quit" /\ "network" \notin components'
          \/ mainpc = "graphics quit" /\ mainpc' = "process quit" /\ "graphics" \notin components'
          \/ mainpc = "process quit" /\ mainpc' = "kill kid" /\ "process" \notin components'
      BY <1>8, <2>2, <3>1 DEF Server!Quit, Server!Go, Server!TakesDown
    <3> QED
      BY <3>1, <3>2 DEF ServerInv, UpInv, RunningInv
  <2> QED
    BY <2>1, <2>2
<1>9. CASE Server!KillKid
  BY <1>9 DEF Server!KillKid, Server!Go, Server!Components, ServerInv, UpInv, RunningInv
<1>10. CASE Server!Kid \/ Server!ScriptEnds \/ Server!KidKilled \/ Server!KidEnded
  <2>1. UNCHANGED <<mainpc, Server!srv>>
    BY <1>10 DEF Server!Kid, Server!ScriptEnds, Server!KidKilled, Server!KidEnded
  <2> QED
    BY <2>1, ServerInterrupted DEF Server!srv
<1>11. CASE UNCHANGED mainvars
  BY <1>11, ServerInterrupted DEF mainvars
<1> QED
  BY <1>1, <1>2, <1>3, <1>4, <1>5, <1>6, <1>7, <1>8, <1>9, <1>10, <1>11
     DEF Server!Next

(* Nothing is up before init().                                            *)
LEMMA ServerInitInv == Server!Init => ServerInv
BY DEF Server!Init, ServerInv, UpInv, RunningInv, Server!Components

-----------------------------------------------------------------------------
(* MCTransports: a step of one of the four is no step of the others.       *)
K == INSTANCE ShmConnectProofs WITH Clients <- {c1, c2}, MAX_IDLE <- 1, Tries <- 1, Uses <- {},
                                    pc <- keypc

LEMMA TurnOfServer == [SuiteNext]_allvars => [Server!Next]_mainvars
BY DEF SuiteNext, allvars, RingTurn, BuildTurn, KeysTurn, ServerTurn, Server!Next, mainvars

LEMMA TurnOfKeys == [SuiteNext]_allvars => [K!Next]_K!vars
<1> USE DEF Keys!Slots, K!Slots, Keys!Alone, K!Alone, Keys!srv, K!srv, Keys!Go, K!Go
<1>1. ASSUME RingTurn \/ BuildTurn \/ ServerTurn \/ UNCHANGED allvars
      PROVE  UNCHANGED K!vars
  BY <1>1 DEF RingTurn, BuildTurn, ServerTurn, allvars, keyvars, K!vars
<1>2. ASSUME NEW k \in DOMAIN idle, Keys!Serve(k) \/ Keys!Idle(k)
      PROVE  K!Next
  <2>1. K!Serve(k) \/ K!Idle(k)
    BY <1>2 DEF Keys!Serve, K!Serve, Keys!Idle, K!Idle
  <2> QED
    BY <2>1 DEF K!Next, K!ServerStep
<1>3. Keys!Remove \/ Keys!Register \/ Keys!Offer => K!Next
  <2>1. Keys!Cardinality({c1, c2}) = K!Cardinality({c1, c2})
    BY DEF Keys!Cardinality, K!Cardinality
  <2>2. Keys!Remove \/ Keys!Register \/ Keys!Offer => K!Remove \/ K!Register \/ K!Offer
    BY <2>1 DEF Keys!Remove, K!Remove, Keys!Register, K!Register, Keys!Taken, K!Taken,
                Keys!Offer, K!Offer
  <2> QED
    BY <2>2 DEF K!Next, K!ServerStep
<1>4. ASSUME NEW c \in {c1, c2}, Keys!Start(c) \/ Keys!Die(c)
      PROVE  K!Next
  <2>1. K!Start(c) \/ K!Die(c)
    BY <1>4 DEF Keys!Start, K!Start, Keys!Die, K!Die, Keys!Zeroing, K!Zeroing
  <2> QED
    BY <2>1 DEF K!Next
<1>5. ASSUME NEW c \in {c1, c2},
             Keys!Read(c) \/ Keys!Clear(c) \/ Keys!Attach(c) \/ Keys!SendInit(c) \/ Keys!Wait(c)
      PROVE  K!Next
  <2>1. K!ClientStep(c)
    BY <1>5 DEF Keys!Read, K!Read, Keys!Clear, K!Clear, Keys!Attach, K!Attach, Keys!SendInit,
                K!SendInit, Keys!Wait, K!Wait, K!ClientStep
  <2> QED
    BY <2>1 DEF K!Next
<1> QED
  BY <1>1, <1>2, <1>3, <1>4, <1>5 DEF SuiteNext

(* The server that had set itself up and went through exit() has left      *)
(* nothing up, the segments and the key file of shared memory among it,    *)
(* however signals, the script, the window and the ends of the kid came    *)
(* together, in the middle of quit() too.                                  *)
THEOREM NothingIsLeft == SuiteSpec => []ServerLeavesNothing
<1>1. ServerInv /\ [SuiteNext]_allvars => ServerInv'
  BY ServerStepInv, TurnOfServer
<1>2. ServerInv => ServerLeavesNothing
  BY DEF ServerInv, UpInv, Server!Components, ServerLeavesNothing, Server!ServerLeavesNothing
<1>3. SuiteInit => ServerInv
  BY ServerInitInv DEF SuiteInit
<1> QED
  BY <1>1, <1>2, <1>3, PTL DEF SuiteSpec

(* A program whose INIT was answered has the two rings of one slot to      *)
(* itself, whoever dies on the way.                                        *)
THEOREM KeysAreServed == SuiteSpec => []KeysServed
<1>1. K!Inv /\ [SuiteNext]_allvars => K!Inv'
  BY K!StepInv, TurnOfKeys
<1>2. SuiteInit => K!Inv
  BY K!InitInv DEF SuiteInit, Keys!Init, K!Init
<1>3. K!Inv => KeysServed
  BY K!InvServes DEF KeysServed, Keys!KeysServed, K!KeysServed, Keys!Slots, K!Slots
<1> QED
  BY <1>1, <1>2, <1>3, PTL DEF SuiteSpec
=============================================================================
