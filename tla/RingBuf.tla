------------------------------- MODULE RingBuf -------------------------------
(***************************************************************************)
(* The ring in shared memory between a client and the server, one for each *)
(* direction (server/shm_ringbuf.c, libs3d/shm_ringbuf.c), with the loops  *)
(* that write and read a packet (shm_writen(), shm_readn(),                *)
(* shm_prot_com_in(), _shm_net_receive()).  The writer owns end, the       *)
(* reader start; neither is volatile and there is no lock.                 *)
(*                                                                         *)
(* A cell holds its number in the stream of all cells written.  A packet   *)
(* is a header, which tells the length, and a body; it is written by one   *)
(* call and read by two.  A client that finds no room tries again and      *)
(* gives the packet up in the end: to the ring, nothing happened.          *)
(*                                                                         *)
(* taken and delivered end at what can be written, since a reader that has *)
(* lost its way may go round and round.                                    *)
(***************************************************************************)
EXTENDS Integers, Sequences

CONSTANTS
  Size,         \* bufsize
  Hdr,          \* cells of a header: its opcode and its length
  MaxLen,       \* bound: cells of a packet
  MaxSent,      \* bound: packets sent
  Uses          \* what the build and the writer are admitted to do

(* "start", "end": the two stores that bring the index back into the ring  *)
(* are both seen by the other side (a build without optimization).         *)
(* "overwrite": the writer is the server, whose shm_write() only prints    *)
(* that there is no room.                                                  *)
ASSUME RingBufAssumption ==
  /\ Hdr \in Nat \ {0} /\ MaxLen \in Nat /\ Hdr <= MaxLen
  /\ Size \in Nat /\ MaxLen < Size
  /\ MaxSent \in Nat
  /\ Uses \subseteq {"start", "end", "overwrite"}

VARIABLES
  start, end,   \* struct buf_t
  cells,        \* the memory behind it
  wpc, wlen,    \* the writer: where it is, the length of its packet
  written,      \* history: the number of cells written
  sent,         \* history: the packets written
  rpc,          \* the reader: where it is
  rend, rnew,   \*   its copy of end, the start it is about to store
  want,         \*   the cells it asked for, with those it has
  got,          \*   the cells of the packet it has
  taken,        \* history: the number of cells it has given back
  delivered     \* history: the packets handed to prot_com_in(), net_prot_in()

shared == <<start, end, cells>>
writer == <<wpc, wlen, written, sent>>
reader == <<rpc, rend, rnew, want, got, taken, delivered>>
vars == <<shared, writer, reader>>

Ring == 0 .. Size - 1
Junk == -1      \* what lies behind the ring
-----------------------------------------------------------------------------
\* mutant: an index may rest behind the ring
WrapLate(i) == IF i > Size THEN i - Size ELSE i

(* An index that has left the ring is one turn ahead at most. *)
Wrap(i) == IF i >= Size THEN i - Size ELSE i

Used(s, e) == IF e < s THEN e + Size - s ELSE e - s

\* mutant: the cell that tells full from empty is given away
FreeAll(s, e) == (IF e < s THEN s ELSE s + Size) - e + 1

(* n cells fit if n + 1 are free: start = end is the empty ring. *)
Free(s, e) == (IF e < s THEN s ELSE s + Size) - e

\* mutant: no copy has a second part
FetchPlain(s, e, i) == IF s + i < Size THEN cells[s + i] ELSE Junk

(* The cell an offset of i reads.  Without wrap the copy is a plain one. *)
Fetch(s, e, i) ==
  CASE s + i < Size             -> cells[s + i]
    [] s + i >= Size /\ e < s   -> cells[s + i - Size]
    [] s + i >= Size /\ ~(e < s) -> Junk

Least(m, n) == IF m < n THEN m ELSE n

(* The packet of n cells after the first w *)
Packet(w, n) == [i \in 1 .. n |-> w + i]

(* What a header says the length of its packet is: anything, if it is none. *)
Lengths(h) ==
  LET known == {Len(sent[k]) : k \in {j \in 1 .. Len(sent) : SubSeq(sent[j], 1, Hdr) = h}}
  IN  IF known = {} THEN Hdr .. MaxLen ELSE known
-----------------------------------------------------------------------------
(* Actions *)

Init ==
  /\ start = 0 /\ end = 0                             \* ringbuf_init()
  /\ cells = [i \in Ring |-> Junk]
  /\ wpc = "idle" /\ wlen = 0 /\ written = 0 /\ sent = <<>>
  /\ rpc = "idle" /\ rend = 0 /\ rnew = 0 /\ want = Hdr /\ got = <<>>
  /\ taken = 0 /\ delivered = <<>>

(* shm_write(), with the check for room *)
Write(n) ==
  /\ wpc = "idle" /\ Len(sent) < MaxSent
  /\ Free(start, end) >= n + 1 \/ "overwrite" \in Uses
  /\ wpc' = "copy" /\ wlen' = n
  /\ UNCHANGED <<shared, written, sent, reader>>

(* memcpy(), in two parts where the ring ends *)
CopyIn ==
  /\ wpc = "copy"
  /\ cells' = [i \in Ring |->
                 LET k == IF i >= end THEN i - end ELSE i + Size - end
                 IN  IF k < wlen THEN written + k + 1 ELSE cells[i]]
  /\ wpc' = "store"
  /\ UNCHANGED <<start, end, wlen, written, sent, reader>>

(* rb->end = e + n *)
StoreEnd ==
  /\ wpc = "store"
  /\ IF "end" \in Uses /\ end + wlen >= Size
     THEN end' = end + wlen /\ wpc' = "wrap"
     ELSE end' = Wrap(end + wlen) /\ wpc' = "idle"
  /\ written' = written + wlen
  /\ sent' = Append(sent, Packet(written, wlen))
  /\ UNCHANGED <<start, cells, wlen, reader>>

(* rb->end -= rb->bufsize *)
WrapEnd ==
  /\ wpc = "wrap"
  /\ end' = end - Size /\ wpc' = "idle"
  /\ UNCHANGED <<start, cells, wlen, written, sent, reader>>

\* mutant: a wrapped ring looks empty
LookUnwrapped ==
  /\ rpc = "idle" /\ start < end
  /\ rpc' = "load"
  /\ UNCHANGED <<shared, writer, rend, rnew, want, got, taken, delivered>>

(* shm_main(), _shm_net_receive(): is there anything? *)
Look ==
  /\ rpc = "idle" /\ start # end
  /\ rpc' = "load"
  /\ UNCHANGED <<shared, writer, rend, rnew, want, got, taken, delivered>>

(* shm_read(): e = rb->end *)
Load ==
  /\ rpc = "load"
  /\ rend' = end /\ rpc' = "copy"
  /\ UNCHANGED <<shared, writer, rnew, want, got, taken, delivered>>

(* The cells of one shm_read() *)
Count == Least(want - Len(got), Used(start, rend))

(* What shm_readn() does after shm_read(), and its caller after the header *)
Continue(n) ==
  \/ /\ n > 0 /\ Len(got) < want                    \* the rest of it
     /\ rpc' = "load" /\ UNCHANGED <<want, got, delivered>>
  \/ /\ n > 0 /\ Len(got) = want /\ want = Hdr       \* a header with a body
     /\ want' \in Lengths(got) \ {Hdr}
     /\ rpc' = "load" /\ UNCHANGED <<got, delivered>>
  \/ /\ n = 0 \/ /\ Len(got) = want                  \* short or complete
                 /\ want = Hdr => Hdr \in Lengths(got)
     /\ delivered' = IF Len(delivered) < MaxSent THEN Append(delivered, got) ELSE delivered
     /\ rpc' = "idle" /\ want' = Hdr /\ got' = <<>>

(* memcpy(), in two parts if the ring is wrapped *)
CopyOut ==
  /\ rpc = "copy"
  /\ got' = got \o [i \in 1 .. Count |-> Fetch(start, rend, i - 1)]
  /\ rnew' = start + Count
  /\ rpc' = "store"
  /\ UNCHANGED <<shared, writer, rend, want, taken, delivered>>

(* rb->start = s + mn *)
StoreStart ==
  /\ rpc = "store"
  /\ IF "start" \in Uses /\ rnew >= Size
     THEN start' = rnew /\ rpc' = "wrap" /\ UNCHANGED <<want, got, delivered>>
     ELSE start' = Wrap(rnew) /\ Continue(rnew - start)
  /\ taken' = Least(taken + rnew - start, MaxSent * MaxLen)
  /\ UNCHANGED <<end, cells, writer, rend, rnew>>

(* rb->start -= rb->bufsize *)
WrapStart ==
  /\ rpc = "wrap"
  /\ start' = start - Size /\ Continue(1)
  /\ UNCHANGED <<end, cells, writer, rend, rnew, taken>>

Writing == CopyIn \/ StoreEnd \/ WrapEnd
Reading == Look \/ Load \/ CopyOut \/ StoreStart \/ WrapStart

Next == (\E n \in Hdr .. MaxLen : Write(n)) \/ Writing \/ Reading

Spec == Init /\ [][Next]_vars

(* A writer does not stop inside of a call, and both programs look at      *)
(* their ring in every turn of their main loop.                            *)
FairSpec == Spec /\ WF_vars(Writing) /\ WF_vars(Reading)
-----------------------------------------------------------------------------
(* Properties *)

TypeOK ==
  /\ start \in 0 .. 2 * Size - 1 /\ end \in 0 .. 2 * Size - 1
  /\ rpc # "wrap" => start \in Ring
  /\ wpc # "wrap" => end \in Ring
  /\ cells \in [Ring -> Nat \union {Junk}]
  /\ wpc \in {"idle", "copy", "store", "wrap"} /\ wlen \in 0 .. MaxLen
  /\ written \in Nat /\ taken \in Nat /\ sent \in Seq(Seq(Nat))
  /\ rpc \in {"idle", "load", "copy", "store", "wrap"}
  /\ rend \in 0 .. 2 * Size - 1 /\ rnew \in 0 .. 2 * Size - 1
  /\ want \in Hdr .. MaxLen
  /\ got \in Seq(Nat \union {Junk}) /\ delivered \in Seq(Seq(Nat \union {Junk}))

(* "checking free space": no cell is written that the reader has not given *)
(* back.  Between the stores of an index, what lies between start and end  *)
(* is what was written and not read, cell by cell.                         *)
NoOverrun ==
  wpc # "wrap" /\ rpc # "wrap" =>
    /\ Used(start, end) = written - taken
    /\ \A k \in 0 .. Used(start, end) - 1 : cells[Wrap(start + k)] = taken + k + 1

(* "no wrap (needed)": the plain copy of the reader ends inside the ring.  *)
InsideRing == \A i \in 1 .. Len(got) : got[i] # Junk

(* The reader empties the ring, whatever it finds there: a broken header   *)
(* does not leave it waiting for a body that never comes.                  *)
Drains == []<>(rpc = "idle" /\ start = end)

(* What is written arrives. *)
AllArrive == \A k \in 1 .. MaxSent : Len(sent) = k ~> Len(delivered) >= k

(* Without a lock, and with every step of a reader between those of a      *)
(* writer, packets come out whole, in order and once, and no copy leaves   *)
(* the ring or what was written: the ring is a pipe.                       *)
Contract ==
  INSTANCE Pipe WITH
    Packets <- {Packet(w, n) : w \in 0 .. MaxSent * MaxLen, n \in Hdr .. MaxLen},
    queue <- SubSeq(sent, Len(delivered) + 1, Len(sent)),
    out <- delivered
RingIsAPipe == [](TypeOK /\ NoOverrun /\ InsideRing) /\ Contract!Spec
=============================================================================
