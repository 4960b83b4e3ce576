--------------------------- MODULE EventLoopProofs ---------------------------
(***************************************************************************)
(* Proofs about EventLoop. The lock counts the functions that hold it, and *)
(* they lie on the stack of calls in an order that lets no two callbacks   *)
(* meet: as long as there is a connection, and after its end too if the    *)
(* server stays and only main() calls s3d_quit(). What waits in the queue  *)
(* for a callback is then handled before the socket is read again, so that *)
(* events stay in order; and s3d_quit() leaves nothing to handle.          *)
(***************************************************************************)
EXTENDS EventLoop, TLAPS

Locking == {"init", "f", "cb", "want"}
Index(fr) == 1 .. Len(fr)
Top(fr) == fr[Len(fr)]
Rest(fr) == SubSeq(fr, 1, Len(fr) - 1)
Held(fr, what) == \E i \in Index(fr) : fr[i] \in what
Num(b) == IF b THEN 1 ELSE 0

(* A callback, the loops and the function of the main loop run with the    *)
(* lock free below them; s3d_new_object() only reads the socket; and       *)
(* s3d_init() and main() are at the bottom.                                *)
Ordered(fr) ==
  /\ fr \in Seq(Frame)
  /\ \A i, j \in Index(fr) :
       fr[i] \in {"stack", "loop", "f", "cb"} /\ j < i => fr[j] \notin Locking
  /\ \A i \in Index(fr) :
       fr[i] = "want" => i = Len(fr) \/ (i = Len(fr) - 1 /\ Top(fr) = "recv")
  /\ \A i \in Index(fr) : fr[i] \in {"init", "main"} <=> i = 1

(* cb_lock is the number of those that hold the lock. *)
Counted(fr, lock) ==
  lock = Num(Held(fr, {"init"})) + Num(Held(fr, {"f", "cb"})) + Num(Held(fr, {"want"}))

(* c is con: s3d_init() waits on a connection. *)
Good(fr, lock, c) == Ordered(fr) /\ Counted(fr, lock) /\ (Held(fr, {"init"}) => c)
-----------------------------------------------------------------------------
(* Nobody holds a lock of 0. *)
LEMMA FreeLock ==
  ASSUME NEW fr, NEW lock, NEW c, Good(fr, lock, c)
  PROVE  /\ lock \in 0 .. 3
         /\ lock <= 0 <=> \A i \in Index(fr) : fr[i] \notin Locking
BY DEF Good, Counted, Held, Num, Locking, Index

(* The loops find the lock free. *)
LEMMA LoopsFindItFree ==
  ASSUME NEW fr, NEW lock, NEW c, Good(fr, lock, c), fr # <<>>, Top(fr) \in {"loop", "stack"}
  PROVE  lock = 0
<1>1. Len(fr) \in Index(fr)
  BY DEF Good, Ordered, Index
<1>2. \A i \in Index(fr) : fr[i] \notin Locking
  BY <1>1 DEF Good, Ordered, Top, Index, Locking
<1> QED
  BY <1>2, FreeLock

(* A function calls another one. *)
LEMMA Push ==
  ASSUME NEW fr, NEW lock, NEW c, Good(fr, lock, c), fr # <<>>,
         NEW x \in Frame \ {"init", "main"},
         \/ x = "recv" /\ (Top(fr) # "recv" \/ lock = 0)
         \/ x \in {"stack", "loop", "f", "cb"} /\ lock = 0
         \/ x = "want" /\ Top(fr) \in User
  PROVE  Good(Append(fr, x), lock + Num(x \in Locking), c)
<1> DEFINE new == Append(fr, x)
<1>1. /\ fr \in Seq(Frame) /\ Len(fr) \in Nat \ {0}
      /\ new \in Seq(Frame) /\ Len(new) = Len(fr) + 1
      /\ \A i \in Index(fr) : new[i] = fr[i]
      /\ new[Len(fr) + 1] = x /\ Top(new) = x
      /\ Index(new) = Index(fr) \union {Len(fr) + 1}
  BY DEF Good, Ordered, Index, Top
<1>2. lock = 0 => \A i \in Index(fr) : fr[i] \notin Locking
  BY FreeLock
<1>3. x = "want" => \A i \in Index(fr) : fr[i] # "want"
  BY <1>1 DEF Good, Ordered, User, Top, Index
<1>4. Ordered(new)
  <2>1. \A i, j \in Index(new) :
          new[i] \in {"stack", "loop", "f", "cb"} /\ j < i => new[j] \notin Locking
    BY <1>1, <1>2 DEF Good, Ordered, Index
  <2>2. \A i \in Index(new) :
          new[i] = "want" => i = Len(new) \/ (i = Len(new) - 1 /\ Top(new) = "recv")
    BY <1>1, <1>2, <1>3 DEF Good, Ordered, Index, Locking
  <2>3. \A i \in Index(new) : new[i] \in {"init", "main"} <=> i = 1
    BY <1>1 DEF Good, Ordered, Index
  <2> QED
    BY <1>1, <2>1, <2>2, <2>3 DEF Ordered
<1>5. Counted(new, lock + Num(x \in Locking))
  <2>1. \A what : Held(new, what) <=> (Held(fr, what) \/ x \in what)
    BY <1>1 DEF Held
  <2>2. x \in {"f", "cb"} => ~Held(fr, {"f", "cb"})
    BY <1>2 DEF Held, Locking
  <2>3. x = "want" => ~Held(fr, {"want"})
    BY <1>3 DEF Held
  <2> QED
    BY <2>1, <2>2, <2>3 DEF Good, Counted, Num, Locking, Frame
<1>6. Held(new, {"init"}) => c
  BY <1>1 DEF Good, Held
<1> QED
  BY <1>4, <1>5, <1>6 DEF Good

(* The running function returns. *)
LEMMA Pop ==
  ASSUME NEW fr, NEW lock, NEW c, Good(fr, lock, c), fr # <<>>, Top(fr) \notin {"init", "main"}
  PROVE  /\ Good(Rest(fr), lock - Num(Top(fr) \in Locking), c)
         /\ Rest(fr) # <<>>
<1> DEFINE new == Rest(fr)
<1>1. /\ fr \in Seq(Frame) /\ Len(fr) \in Nat \ {0}
      /\ Len(fr) \in Index(fr) /\ Len(fr) # 1
      /\ new \in Seq(Frame) /\ Len(new) = Len(fr) - 1
      /\ \A i \in Index(new) : new[i] = fr[i]
      /\ Index(fr) = Index(new) \union {Len(fr)}
  BY DEF Good, Ordered, Index, Top, Rest
<1>2. Ordered(new)
  BY <1>1 DEF Good, Ordered, Index, Top
<1>3. Counted(new, lock - Num(Top(fr) \in Locking))
  <2>1. \A what : Held(fr, what) <=> (Held(new, what) \/ Top(fr) \in what)
    BY <1>1 DEF Held, Top
  <2>2. Top(fr) \in {"f", "cb"} => ~Held(new, {"f", "cb"})
    BY <1>1 DEF Good, Ordered, Held, Locking, Top, Index
  <2>3. Top(fr) = "want" => ~Held(new, {"want"})
    BY <1>1 DEF Good, Ordered, Held, Top, Index
  <2>4. Top(fr) \in Frame \ {"init", "main"}
    BY <1>1 DEF Top, Index
  <2> QED
    BY <2>1, <2>2, <2>3, <2>4 DEF Good, Counted, Num, Locking, Frame
<1>4. Held(new, {"init"}) => c
  BY <1>1 DEF Good, Held
<1> QED
  BY <1>1, <1>2, <1>3, <1>4 DEF Good
-----------------------------------------------------------------------------
(* The invariant: nothing on the wire makes the client quit, and the stack *)
(* is in order and the lock counted as long as the program runs.           *)
Wired ==
  /\ wire \in Seq(Packet) /\ count \in 0 .. MaxEvents
  /\ \A i \in 1 .. Len(wire) : wire[i].kind # QUIT

IInv == /\ Wired
        /\ frames = <<>> \/ Good(frames, cb_lock, con)

Stays == Uses \cap {"quit", "bye"} = {}

(* The lock and the stack, as the properties speak of them. *)
LEMMA LockHolds ==
  ASSUME frames = <<>> \/ Good(frames, cb_lock, con)
  PROVE  NoNesting /\ LockMatches
<1>1. CASE frames = <<>>
  BY <1>1 DEF NoNesting, LockMatches
<1>2. CASE Good(frames, cb_lock, con)
  <2>1. NoNesting
    BY <1>2 DEF Good, Ordered, NoNesting, Index, Locking
  <2>2. cb_lock > 0 <=> \E i \in Index(frames) : frames[i] \in Locking
    BY <1>2, FreeLock
  <2>3. LockMatches
    BY <1>2, <2>2 DEF Good, Held, LockMatches, Locking, Index
  <2> QED
    BY <2>1, <2>3
<1> QED
  BY <1>1, <1>2

LEMMA InitLock == Init => IInv
<1> SUFFICES ASSUME Init PROVE IInv
  OBVIOUS
<1>1. Wired
  BY EventLoopAssumption DEF Init, Wired
<1>2. frames = <<"init">> /\ cb_lock = 1 /\ con
  BY DEF Init
<1>3. /\ <<"init">> \in Seq(Frame) /\ Len(<<"init">>) = 1
      /\ <<"init">>[1] = "init"
  BY DEF Frame
<1>4. Ordered(<<"init">>)
  BY <1>3 DEF Ordered, Index
<1>5. Counted(<<"init">>, 1)
  BY <1>3 DEF Counted, Held, Num, Index
<1> QED
  BY <1>1, <1>2, <1>4, <1>5 DEF IInv, Good

(* A step of the server leaves the client alone. *)
LEMMA ServerStep ==
  ASSUME IInv, Serve, Stays
  PROVE  IInv'
<1>1. CASE SendInit
  <2>1. wire' = Append(wire, Bare(S_INIT)) /\ count' = count
    BY <1>1 DEF SendInit, Send
  <2>2. Bare(S_INIT) \in Packet /\ Bare(S_INIT).kind # QUIT
    BY EventLoopAssumption DEF Bare, Packet
  <2>3. Wired'
    BY <2>1, <2>2 DEF IInv, Wired
  <2> QED
    BY <1>1, <2>3 DEF SendInit, client, IInv
<1>2. CASE SendQuit
  BY <1>2 DEF SendQuit, Stays
<1>3. ASSUME NEW k \in Kinds, SendEvent(k)
      PROVE  IInv'
  <2> DEFINE p == [kind |-> k, n |-> count']
  <2>1. wire' = Append(wire, p) /\ count' \in 0 .. MaxEvents
    BY <1>3, EventLoopAssumption DEF SendEvent, Send, IInv, Wired
  <2>2. p \in Packet /\ p.kind # QUIT
    BY <2>1, EventLoopAssumption DEF Packet
  <2>3. Wired'
    BY <2>1, <2>2 DEF IInv, Wired
  <2> QED
    BY <1>3, <2>3 DEF SendEvent, client, IInv
<1> QED
  BY <1>1, <1>2, <1>3 DEF Serve
-----------------------------------------------------------------------------
(* How the actions write the stack *)
LEMMA Concat ==
  ASSUME NEW fr \in Seq(Frame), NEW x \in Frame, NEW y \in Frame
  PROVE  /\ fr \o <<>> = fr
         /\ fr \o <<x>> = Append(fr, x)
         /\ fr \o <<x, y>> = Append(Append(fr, x), y)
         /\ Append(fr, x) # <<>> /\ Top(Append(fr, x)) = x
BY DEF Top

(* s3d_process_stack() is called: the queue is looked at if nobody holds   *)
(* the lock.                                                               *)
LEMMA PushStack ==
  ASSUME NEW fr, NEW lock, NEW c, Good(fr, lock, c), fr # <<>>
  PROVE  Good(fr \o ProcessStack(lock), lock, c)
<1>1. fr \in Seq(Frame) /\ "stack" \in Frame \ {"init", "main"}
  BY DEF Good, Ordered, Frame
<1>2. lock \in 0 .. 3
  BY FreeLock
<1>3. CASE lock > 0
  BY <1>1, <1>2, <1>3, Concat DEF ProcessStack
<1>4. CASE lock = 0
  <2>1. Good(Append(fr, "stack"), lock + Num("stack" \in Locking), c)
    BY <1>1, <1>4, Push
  <2>2. lock + Num("stack" \in Locking) = lock
    BY <1>2 DEF Num, Locking
  <2> QED
    BY <1>1, <1>4, <2>1, <2>2, Concat DEF ProcessStack
<1> QED
  BY <1>2, <1>3, <1>4

(* A callback is called with the lock free. *)
LEMMA CallGood ==
  ASSUME NEW e, Good(frames, cb_lock, con), frames # <<>>, cb_lock = 0,
         Call(e, frames), con' = con
  PROVE  Good(frames', cb_lock', con')
<1>1. CASE s3d_cb_list[e.kind] = "user"
  <2>1. cb_lock' = cb_lock + 1 /\ frames' = Append(frames, "cb")
    BY <1>1 DEF Call
  <2>2. Good(Append(frames, "cb"), cb_lock + Num("cb" \in Locking), con)
    BY Push DEF Frame
  <2>3. Num("cb" \in Locking) = 1
    BY DEF Num, Locking
  <2> QED
    BY <2>1, <2>2, <2>3
<1>2. CASE s3d_cb_list[e.kind] # "user"
  BY <1>2 DEF Call
<1> QED
  BY <1>1, <1>2

(* The bottom of the stack *)
LEMMA Bottom ==
  ASSUME NEW fr, NEW lock, NEW c, Good(fr, lock, c), fr # <<>>,
         NEW x \in {"init", "main"}, Top(fr) = x
  PROVE  fr = <<x>> /\ lock = Num(x = "init")
<1>1. fr \in Seq(Frame) /\ Len(fr) = 1 /\ fr[1] = x
  <2>1. fr \in Seq(Frame) /\ Len(fr) \in Index(fr)
    BY DEF Good, Ordered, Index
  <2>2. Len(fr) = 1
    BY <2>1 DEF Good, Ordered, Top
  <2> QED
    BY <2>1, <2>2 DEF Top
<1>2. fr = <<x>>
  BY <1>1
<1>3. \A what : Held(fr, what) <=> x \in what
  BY <1>1 DEF Held, Index
<1> QED
  BY <1>2, <1>3 DEF Good, Counted, Num

LEMMA OnlyMain == Good(<<"main">>, 0, con) /\ Good(<<"main">>, 0, con')
<1>1. <<"main">> \in Seq(Frame) /\ Len(<<"main">>) = 1 /\ <<"main">>[1] = "main"
  BY DEF Frame
<1> QED
  BY <1>1 DEF Good, Ordered, Counted, Held, Num, Index

(* A connection that is there, or is not, stays so: the steps of the       *)
(* client, one by one.                                                     *)
LEMMA KeepsLock ==
  ASSUME frames = <<>> \/ Good(frames, cb_lock, con), Library \/ Program, con' = con
  PROVE  frames' = <<>> \/ Good(frames', cb_lock', con')
<1> DEFINE G == Good(frames, cb_lock, con)
           Goal == frames' = <<>> \/ Good(frames', cb_lock', con')
<1>0. ASSUME NEW what, Running(what)
      PROVE  G /\ frames # <<>> /\ Top(frames) \in what
  BY <1>0 DEF Running, Top
<1>00. S3dQuit => UNCHANGED <<con, ready, cb_lock, s3d_stack, frames>>
  BY DEF S3dQuit
<1>1. ASSUME InitWait PROVE Goal
  <2>1. G /\ frames # <<>> /\ Top(frames) = "init" /\ con' = con
    BY <1>0, <1>1 DEF InitWait
  <2>2. frames = <<"init">> /\ cb_lock = 1
    BY <2>1, Bottom DEF Num
  <2>3. CASE frames' = <<"main">> /\ cb_lock' = cb_lock - 1
    BY <2>2, <2>3, OnlyMain
  <2>4. CASE frames' = Append(frames, "recv") /\ cb_lock' = cb_lock
    <3>1. Good(Append(frames, "recv"), cb_lock + Num("recv" \in Locking), con)
      BY <2>1, Push DEF Frame
    <3>2. cb_lock + Num("recv" \in Locking) = cb_lock
      BY <2>2 DEF Num, Locking
    <3> QED
      BY <2>1, <2>4, <3>1, <3>2
  <2>5. CASE frames' = <<>>
    BY <2>5
  <2> QED
    BY <1>1, <2>3, <2>4, <2>5 DEF InitWait
<1>2. ASSUME Receive PROVE Goal
  <2>1. G /\ frames # <<>>
    BY <1>0, <1>2 DEF Receive
  <2>2. CASE S3dQuit
    BY <1>00, <2>1, <2>2
  <2>3. CASE UNCHANGED <<con, cb_lock, s3d_stack, frames, history>>
    BY <2>1, <2>3
  <2>4. CASE PushEvent(Head(wire)) /\ UNCHANGED <<con, ready>>
    <3>1. CASE cb_lock = 0 /\ Call(Head(wire), frames)
      BY <2>1, <2>4, <3>1, CallGood
    <3>2. CASE UNCHANGED <<cb_lock, frames>>
      BY <2>1, <2>4, <3>2
    <3> QED
      BY <2>4, <3>1, <3>2 DEF PushEvent
  <2> QED
    BY <1>2, <2>2, <2>3, <2>4 DEF Receive
<1>3. ASSUME ReceiveDone PROVE Goal
  <2>1. G /\ frames # <<>> /\ Top(frames) = "recv"
    BY <1>0, <1>3 DEF ReceiveDone
  <2>2. /\ Good(Rest(frames), cb_lock - Num("recv" \in Locking), con)
        /\ Rest(frames) # <<>>
    BY <2>1, Pop
  <2>3. cb_lock - Num("recv" \in Locking) = cb_lock
    BY <2>1, FreeLock DEF Num, Locking
  <2>4. Good(Rest(frames) \o ProcessStack(cb_lock), cb_lock, con)
    BY <2>2, <2>3, PushStack
  <2> QED
    BY <1>3, <2>4 DEF ReceiveDone, Below, Rest
<1>4. ASSUME PopEvent PROVE Goal
  <2>1. G /\ frames # <<>> /\ Top(frames) = "stack" /\ con' = con
    BY <1>0, <1>4 DEF PopEvent
  <2>2. cb_lock = 0
    BY <2>1, LoopsFindItFree
  <2>3. CASE frames' = Below /\ UNCHANGED cb_lock
    <3>1. Good(Rest(frames), cb_lock - Num("stack" \in Locking), con)
      BY <2>1, Pop
    <3>2. Num("stack" \in Locking) = 0
      BY DEF Num, Locking
    <3> QED
      BY <2>1, <2>2, <2>3, <3>1, <3>2 DEF Below, Rest
  <2>4. CASE Call(Head(s3d_stack), frames)
    BY <2>1, <2>2, <2>4, CallGood
  <2> QED
    BY <1>4, <2>3, <2>4 DEF PopEvent
<1>5. ASSUME Loop PROVE Goal
  <2>1. G /\ frames # <<>> /\ Top(frames) = "loop" /\ con' = con
    BY <1>0, <1>5 DEF Loop
  <2>2. cb_lock = 0
    BY <2>1, LoopsFindItFree
  <2>3. CASE cb_lock' = cb_lock + 1 /\ frames' = Append(frames, "f")
    <3>1. Good(Append(frames, "f"), cb_lock + Num("f" \in Locking), con)
      BY <2>1, <2>2, Push DEF Frame
    <3>2. Num("f" \in Locking) = 1
      BY DEF Num, Locking
    <3> QED
      BY <2>1, <2>3, <3>1, <3>2
  <2>4. CASE frames' = Below /\ UNCHANGED cb_lock
    <3>1. Good(Rest(frames), cb_lock - Num("loop" \in Locking), con)
      BY <2>1, Pop
    <3>2. Num("loop" \in Locking) = 0
      BY DEF Num, Locking
    <3> QED
      BY <2>1, <2>2, <2>4, <3>1, <3>2 DEF Below, Rest
  <2> QED
    BY <1>5, <2>3, <2>4 DEF Loop
<1>6. ASSUME Return PROVE Goal
  <2>1. /\ G /\ frames # <<>> /\ Top(frames) \in {"f", "cb", "want"} /\ con' = con
        /\ cb_lock' = cb_lock - 1
    BY <1>0, <1>6 DEF Return
  <2>2. Num(Top(frames) \in Locking) = 1
    BY <2>1 DEF Num, Locking
  <2>3. Good(Rest(frames), cb_lock - 1, con) /\ Rest(frames) # <<>>
    BY <2>1, <2>2, Pop
  <2>4. CASE Top(frames) = "f" /\ frames' = Below \o <<"recv">> \o ProcessStack(cb_lock')
    <3>1. cb_lock - 1 = 0
      <4>1. \A i \in Index(Rest(frames)) : Rest(frames)[i] \notin Locking
        BY <2>1, <2>4 DEF Good, Ordered, Rest, Top, Index
      <4>2. cb_lock - 1 \in 0 .. 3 /\ cb_lock - 1 <= 0
        BY <2>3, <4>1, FreeLock
      <4> QED
        BY <4>2
    <3>2. Rest(frames) \in Seq(Frame) /\ "recv" \in Frame
      BY <2>3 DEF Good, Ordered, Frame
    <3>3. Good(Append(Rest(frames), "recv"), 0 + Num("recv" \in Locking), con)
      BY <2>3, <3>1, Push DEF Frame
    <3>4. Good(Rest(frames) \o <<"recv">>, 0, con) /\ Rest(frames) \o <<"recv">> # <<>>
      <4>1. 0 + Num("recv" \in Locking) = 0
        BY DEF Num, Locking
      <4>2. /\ Rest(frames) \o <<"recv">> = Append(Rest(frames), "recv")
            /\ Append(Rest(frames), "recv") # <<>>
        BY <3>2, Concat
      <4> QED
        BY <3>3, <4>1, <4>2
    <3>5. Good(Rest(frames) \o <<"recv">> \o ProcessStack(0), 0, con)
      BY <3>4, PushStack
    <3> QED
      BY <2>1, <2>4, <3>1, <3>5 DEF Below, Rest
  <2>5. CASE frames' = Below
    BY <2>1, <2>3, <2>5 DEF Below, Rest
  <2> QED
    BY <1>0, <1>6, <2>4, <2>5 DEF Return
<1>7. ASSUME MainLoop PROVE Goal
  <2>1. G /\ frames # <<>> /\ Top(frames) \in {"main"}
    BY <1>0, <1>7 DEF MainLoop
  <2>2. cb_lock = 0
    BY <2>1, Bottom DEF Num
  <2>3. Good(Append(frames, "loop"), cb_lock + Num("loop" \in Locking), con)
    BY <2>1, <2>2, Push DEF Frame
  <2>4. cb_lock + Num("loop" \in Locking) = cb_lock
    BY <2>2 DEF Num, Locking
  <2> QED
    BY <1>7, <2>3, <2>4 DEF MainLoop
<1>8. ASSUME Poll PROVE Goal
  <2>1. G /\ frames # <<>> /\ Top(frames) \in User
    BY <1>0, <1>8 DEF Poll, May, User
  <2>2. Good(Append(frames, "recv"), cb_lock + Num("recv" \in Locking), con)
    BY <2>1, Push DEF Frame, User
  <2>3. cb_lock + Num("recv" \in Locking) = cb_lock
    BY <2>1, FreeLock DEF Num, Locking
  <2> QED
    BY <1>8, <2>2, <2>3 DEF Poll
<1>9. ASSUME NewObject PROVE Goal
  <2>1. /\ G /\ frames # <<>> /\ Top(frames) \in User /\ con' = con
        /\ cb_lock' = cb_lock + 1
    BY <1>0, <1>9 DEF NewObject, User
  <2>2. /\ Good(Append(frames, "want"), cb_lock + Num("want" \in Locking), con)
        /\ Num("want" \in Locking) = 1
    BY <2>1, Push DEF Frame, Num, Locking
  <2>3. frames \in Seq(Frame) /\ {"want", "recv"} \subseteq Frame
    BY <2>1 DEF Good, Ordered, Frame
  <2>4. CASE frames' = frames \o <<"want">>
    BY <2>1, <2>2, <2>3, <2>4, Concat
  <2>5. CASE frames' = frames \o <<"want", "recv">>
    <3>1. Append(frames, "want") # <<>> /\ Top(Append(frames, "want")) = "want"
      BY <2>3, Concat
    <3>2. Good(Append(Append(frames, "want"), "recv"),
               cb_lock + 1 + Num("recv" \in Locking), con)
      BY <2>2, <3>1, Push DEF Frame
    <3>3. cb_lock + 1 + Num("recv" \in Locking) = cb_lock'
      BY <2>1, FreeLock DEF Num, Locking
    <3> QED
      BY <2>1, <2>3, <2>5, <3>2, <3>3, Concat
  <2> QED
    BY <1>9, <2>4, <2>5 DEF NewObject
<1>10. ASSUME Quit PROVE Goal
  <2>1. G /\ frames # <<>> /\ S3dQuit
    BY <1>0, <1>10 DEF Quit, May
  <2> QED
    BY <1>00, <2>1
<1>11. ASSUME NEW k, ClearCallback(k) PROVE Goal
  BY <1>0, <1>11 DEF ClearCallback
<1>12. ASSUME NEW k, NEW func, SetCallback(k, func) PROVE Goal
  <2>1. G /\ frames # <<>>
    BY <1>0, <1>12 DEF SetCallback, May
  <2>2. Good(frames \o ProcessStack(cb_lock), cb_lock, con)
    BY <2>1, PushStack
  <2> QED
    BY <1>12, <2>2 DEF SetCallback
<1> QED
  BY <1>1, <1>2, <1>3, <1>4, <1>5, <1>6, <1>7, <1>8, <1>9, <1>10, <1>11, <1>12
  DEF Library, Program

(* main() calls s3d_quit() with the lock free. *)
LEMMA MainQuits ==
  ASSUME Good(frames, cb_lock, con), frames # <<>>, Top(frames) = "main", S3dQuit
  PROVE  Good(frames', cb_lock', con')
<1>1. frames = <<"main">>
  BY Bottom
<1>2. CASE cb_lock' = 1 /\ frames' = Append(frames, "cb")
  <2>1. Good(<<"main">>, 0, con') /\ <<"main">> # <<>> /\ Top(<<"main">>) = "main"
    BY OnlyMain DEF Top
  <2>2. Good(Append(<<"main">>, "cb"), 0 + Num("cb" \in Locking), con')
    BY <2>1, Push DEF Frame
  <2>3. 0 + Num("cb" \in Locking) = 1
    BY DEF Num, Locking
  <2> QED
    BY <1>1, <1>2, <2>2, <2>3
<1>3. CASE cb_lock' = 0 /\ UNCHANGED frames
  BY <1>1, <1>3, OnlyMain
<1>4. CASE UNCHANGED <<con, ready, cb_lock, s3d_stack, frames>>
  BY <1>4
<1> QED
  BY <1>2, <1>3, <1>4 DEF S3dQuit

LEMMA ClientStep ==
  ASSUME IInv, Library \/ Program, Stays
  PROVE  frames' = <<>> \/ Good(frames', cb_lock', con')
<1>1. CASE con' = con
  BY <1>1, KeepsLock DEF IInv
<1>2. CASE Quit
  BY <1>2, MainQuits DEF Quit, May, Stays, Running, IInv, Top
<1>3. CASE Receive
  <2>1. 1 \in 1 .. Len(wire) /\ Head(wire) = wire[1]
    BY <1>3 DEF Receive, IInv, Wired
  <2>2. con' = con
    BY <1>3, <2>1 DEF Receive, IInv, Wired
  <2> QED
    BY <1>1, <2>2
<1> QED
  BY <1>1, <1>2, <1>3
  DEF Library, Program, InitWait, ReceiveDone, PopEvent, Loop, Return, MainLoop, Poll,
      NewObject, ClearCallback, SetCallback

(* What the client reads, it takes from the wire. *)
LEMMA ClientWire ==
  ASSUME IInv, Library \/ Program
  PROVE  Wired'
<1>1. CASE UNCHANGED <<wire, count>>
  BY <1>1 DEF IInv, Wired
<1>2. CASE Receive
  <2>1. wire # <<>> /\ wire' = Tail(wire) /\ count' = count
    BY <1>2 DEF Receive
  <2>2. /\ wire' \in Seq(Packet)
        /\ \A i \in 1 .. Len(wire') : i + 1 \in 1 .. Len(wire) /\ wire'[i] = wire[i + 1]
    BY <2>1 DEF IInv, Wired
  <2> QED
    BY <2>1, <2>2 DEF IInv, Wired
<1> QED
  BY <1>1, <1>2
  DEF Library, Program, server, InitWait, ReceiveDone, PopEvent, Loop, Return, MainLoop,
      Poll, NewObject, Quit, ClearCallback, SetCallback

LEMMA NextLock == ASSUME Stays PROVE IInv /\ [Next]_vars => IInv'
<1> SUFFICES ASSUME Stays, IInv, [Next]_vars PROVE IInv'
  OBVIOUS
<1>1. CASE Serve
  BY <1>1, ServerStep
<1>2. CASE Library \/ Program
  BY <1>2, ClientStep, ClientWire DEF IInv
<1>3. CASE UNCHANGED vars
  BY <1>3 DEF vars, IInv, Wired
<1> QED
  BY <1>1, <1>2, <1>3 DEF Next

(* The stack of calls is in order and the lock is counted in every state,  *)
(* whatever callbacks and the function of the main loop call except        *)
(* s3d_quit(), as long as the server does not end the connection.          *)
THEOREM LockInvariant == ASSUME Stays PROVE Spec => []IInv
BY InitLock, NextLock, PTL DEF Spec

(* Callbacks do not interrupt each other or the main loop, under the same  *)
(* assumption.                                                             *)
THEOREM Nesting == ASSUME Stays PROVE Spec => []NoNesting
<1>1. IInv => NoNesting
  BY LockHolds DEF IInv
<1> QED
  BY <1>1, LockInvariant, PTL

(* The lock is given back by everyone who took it, under the same          *)
(* assumption.                                                             *)
THEOREM Lock == ASSUME Stays PROVE Spec => []LockMatches
<1>1. IInv => LockMatches
  BY LockHolds DEF IInv
<1> QED
  BY <1>1, LockInvariant, PTL
-----------------------------------------------------------------------------
(* As long as the connection is there, the lock is counted, whatever the   *)
(* program calls and the server sends; afterwards the queue holds at most  *)
(* the QUIT event.                                                         *)
TypeInv ==
  /\ wire \in Seq(Packet) /\ s3d_stack \in Seq(Event) /\ ran \in Seq(Event)
  /\ s3d_cb_list \in [Kinds \union {QUIT} -> {"nil", "ignore", "user"}]
  /\ con \in BOOLEAN /\ count \in 0 .. MaxEvents

Counting == con => frames = <<>> \/ Good(frames, cb_lock, con)
Cleared == ~con => s3d_stack \in {<<>>, <<Bare(QUIT)>>}

ConInv == TypeInv /\ Counting /\ Cleared

LEMMA InitCon == Init => ConInv
<1> SUFFICES ASSUME Init PROVE ConInv
  OBVIOUS
<1>1. TypeInv
  BY EventLoopAssumption DEF Init, TypeInv
<1>2. Counting
  BY InitLock DEF IInv, Counting
<1> QED
  BY <1>1, <1>2 DEF Init, ConInv, Cleared

LEMMA CallType ==
  ASSUME TypeInv, NEW e, e \in Event, Call(e, frames)
  PROVE  ran' \in Seq(Event)
<1>1. ran \in Seq(Event) /\ Append(ran, e) \in Seq(Event)
  BY DEF TypeInv
<1>2. ran' = ran \/ ran' = Append(ran, e)
  BY DEF Call
<1> QED
  BY <1>1, <1>2

LEMMA QuitType ==
  ASSUME TypeInv, S3dQuit
  PROVE  s3d_stack' \in Seq(Event) /\ con' \in BOOLEAN
<1>1. Bare(QUIT) \in Event
  BY EventLoopAssumption DEF Bare, Event
<1>2. <<>> \in Seq(Event) /\ <<Bare(QUIT)>> \in Seq(Event)
  BY <1>1
<1> QED
  BY <1>2 DEF TypeInv, S3dQuit

LEMMA NextType == ASSUME TypeInv, Next PROVE TypeInv'
<1>1. CASE SendInit
  <2>1. Bare(S_INIT) \in Packet
    BY EventLoopAssumption DEF Bare, Packet
  <2> QED
    BY <1>1, <2>1 DEF SendInit, Send, client, history, TypeInv
<1>2. CASE SendQuit
  <2>1. Bare(QUIT) \in Packet
    BY EventLoopAssumption DEF Bare, Packet
  <2> QED
    BY <1>2, <2>1 DEF SendQuit, Send, client, history, TypeInv
<1>3. ASSUME NEW k \in Kinds, SendEvent(k)
      PROVE  TypeInv'
  <2>1. count' \in 0 .. MaxEvents
    BY <1>3, EventLoopAssumption DEF SendEvent, TypeInv
  <2>2. [kind |-> k, n |-> count'] \in Packet
    BY <2>1 DEF Packet
  <2>3. wire' \in Seq(Packet)
    BY <1>3, <2>2 DEF SendEvent, Send, TypeInv
  <2> QED
    BY <1>3, <2>1, <2>3 DEF SendEvent, client, history, TypeInv
<1>4. CASE Receive
  <2>1. /\ wire' \in Seq(Packet) /\ Head(wire) \in Packet
        /\ UNCHANGED <<count, s3d_cb_list>>
    BY <1>4 DEF Receive, TypeInv
  <2>2. CASE UNCHANGED <<con, cb_lock, s3d_stack, frames, history>>
    BY <2>1, <2>2 DEF TypeInv, history
  <2>3. CASE S3dQuit /\ UNCHANGED history
    BY <2>1, <2>3, QuitType DEF TypeInv, history
  <2>4. CASE Head(wire).kind \in Kinds /\ PushEvent(Head(wire)) /\ UNCHANGED <<con, ready>>
    <3>1. Head(wire) \in Event
      BY <2>1, <2>4 DEF Packet, Event
    <3>2. s3d_stack \in Seq(Event) /\ Append(s3d_stack, Head(wire)) \in Seq(Event)
      BY <3>1 DEF TypeInv
    <3>3. CASE Call(Head(wire), frames) /\ UNCHANGED s3d_stack
      BY <2>1, <2>4, <3>1, <3>3, CallType DEF TypeInv
    <3>4. CASE s3d_stack' = Append(s3d_stack, Head(wire)) /\ UNCHANGED ran
      BY <2>1, <2>4, <3>2, <3>4 DEF TypeInv
    <3> QED
      BY <2>4, <3>3, <3>4 DEF PushEvent
  <2> QED
    BY <1>4, <2>2, <2>3, <2>4 DEF Receive
<1>5. CASE PopEvent
  <2>1. CASE UNCHANGED <<s3d_stack, ran>>
    BY <1>5, <2>1 DEF PopEvent, TypeInv, server
  <2>2. CASE /\ s3d_stack # <<>> /\ s3d_stack' = Tail(s3d_stack)
             /\ Call(Head(s3d_stack), frames)
    <3>1. Head(s3d_stack) \in Event /\ s3d_stack' \in Seq(Event)
      BY <2>2 DEF TypeInv
    <3>2. ran' \in Seq(Event)
      BY <2>2, <3>1, CallType
    <3> QED
      BY <1>5, <3>1, <3>2 DEF PopEvent, TypeInv, server
  <2> QED
    BY <1>5, <2>1, <2>2 DEF PopEvent
<1>6. CASE Quit
  BY <1>6, QuitType DEF Quit, TypeInv, server, history
<1>7. ASSUME NEW k \in Kinds \union {QUIT}, NEW func \in {"ignore", "user"},
             ClearCallback(k) \/ SetCallback(k, func)
      PROVE  TypeInv'
  BY <1>7 DEF ClearCallback, SetCallback, TypeInv, server, history
<1>8. CASE InitWait \/ ReceiveDone \/ Loop \/ Return \/ MainLoop \/ Poll \/ NewObject
  BY <1>8
  DEF InitWait, ReceiveDone, Loop, Return, MainLoop, Poll, NewObject, TypeInv, server, history
<1> QED
  BY <1>1, <1>2, <1>3, <1>4, <1>5, <1>6, <1>7, <1>8 DEF Next, Serve, Library, Program

(* A connection that has ended is never opened again. *)
LEMMA ConnectionEnds == ASSUME [Next]_vars, con \in BOOLEAN PROVE con' => con
<1>1. S3dQuit => (con' => con)
  BY DEF S3dQuit
<1> QED
  BY <1>1
  DEF Next, Serve, Library, Program, vars, client, SendInit, SendQuit, SendEvent, InitWait,
      Receive, ReceiveDone, PopEvent, Loop, Return, MainLoop, Poll, NewObject, Quit,
      ClearCallback, SetCallback

LEMMA NextCounting == ASSUME TypeInv, Counting, [Next]_vars PROVE Counting'
<1> SUFFICES ASSUME con' PROVE frames' = <<>> \/ Good(frames', cb_lock', con')
  BY DEF Counting
<1>1. con /\ con' = con
  BY ConnectionEnds DEF TypeInv
<1>2. frames = <<>> \/ Good(frames, cb_lock, con)
  BY <1>1 DEF Counting
<1>3. CASE Serve
  BY <1>2, <1>3 DEF Serve, SendInit, SendQuit, SendEvent, client
<1>4. CASE Library \/ Program
  BY <1>1, <1>2, <1>4, KeepsLock
<1>5. CASE UNCHANGED vars
  BY <1>2, <1>5 DEF vars
<1> QED
  BY <1>3, <1>4, <1>5 DEF Next

(* Without a connection nothing is read, and what is left of the queue is  *)
(* not an event of the server.                                             *)
LEMMA Silence ==
  ASSUME ConInv, [Next]_vars, ~con
  PROVE  ran' = ran /\ Cleared'
<1>1. s3d_stack = <<>> \/ s3d_stack = <<Bare(QUIT)>>
  BY DEF ConInv, Cleared
<1>2. CASE PopEvent
  <2>1. s3d_stack # <<>> => Head(s3d_stack) = Bare(QUIT) /\ Tail(s3d_stack) = <<>>
    <3>1. \A e : Head(<<e>>) = e /\ Tail(<<e>>) = <<>>
      OBVIOUS
    <3> QED
      BY <1>1, <3>1
  <2>2. s3d_stack' = <<>>
    BY <1>2, <2>1 DEF PopEvent
  <2>3. Bare(QUIT).kind = QUIT
    BY DEF Bare
  <2> QED
    BY <1>2, <2>1, <2>2, <2>3 DEF PopEvent, Call, Cleared
<1>3. CASE Quit
  BY <1>1, <1>3 DEF Quit, S3dQuit, history, Cleared
<1>4. CASE UNCHANGED <<s3d_stack, ran>>
  BY <1>1, <1>4 DEF Cleared
<1> QED
  BY <1>2, <1>3, <1>4
  DEF Next, Serve, Library, Program, vars, client, history, SendInit, SendQuit, SendEvent,
      InitWait, Receive, ReceiveDone, Loop, Return, MainLoop, Poll, NewObject,
      ClearCallback, SetCallback

(* The step that ends the connection clears the queue. *)
LEMMA NextCleared == ASSUME ConInv, [Next]_vars PROVE Cleared'
<1>1. CASE ~con
  BY <1>1, Silence
<1>2. CASE con /\ ~con'
  <2>1. S3dQuit
    BY <1>2
    DEF Next, Serve, Library, Program, vars, client, SendInit, SendQuit, SendEvent, InitWait,
        Receive, ReceiveDone, PopEvent, Loop, Return, MainLoop, Poll, NewObject, Quit,
        ClearCallback, SetCallback
  <2> QED
    BY <1>2, <2>1, <1>1 DEF S3dQuit, Cleared, Bare
<1> QED
  BY <1>1, <1>2 DEF Cleared, ConInv, TypeInv

LEMMA NextCon == ConInv /\ [Next]_vars => ConInv'
<1> SUFFICES ASSUME ConInv, [Next]_vars PROVE ConInv'
  OBVIOUS
<1>1. TypeInv'
  <2>1. CASE Next
    BY <2>1, NextType DEF ConInv
  <2>2. CASE UNCHANGED vars
    BY <2>2 DEF vars, ConInv, TypeInv
  <2> QED
    BY <2>1, <2>2
<1> QED
  BY <1>1, NextCounting, NextCleared DEF ConInv

LEMMA ConnectionInvariant == Spec => []ConInv
BY InitCon, NextCon, PTL DEF Spec

(* After s3d_quit(), called by whomever from wherever, or the QUIT of the  *)
(* server, no callback is called for an event the server sent.             *)
THEOREM QuietAfterQuit == Spec => NothingAfterQuit
<1>1. ConInv /\ [Next]_vars => [~con => ran' = ran]_vars
  BY Silence
<1> QED
  BY <1>1, ConnectionInvariant, PTL DEF Spec, NothingAfterQuit

(* As long as there is a connection, callbacks do not interrupt each other *)
(* or the main loop and the lock is given back, whatever the program calls *)
(* and the server sends.                                                   *)
THEOREM LockWhileConnected == Spec => [](con => NoNesting /\ LockMatches)
<1>1. ConInv => (con => NoNesting /\ LockMatches)
  BY LockHolds DEF ConInv, Counting
<1> QED
  BY <1>1, ConnectionInvariant, PTL
-----------------------------------------------------------------------------
(* The order of the events.  A program that is Tame looks for packets and  *)
(* sets callbacks in main() only, and makes objects in the function of its *)
(* main loop only: a callback lies on top of the stack then, and whoever   *)
(* waits for an object was called by that function.                        *)
Tame == Uses \cap {"new", "poll", "set"} = {}

Calm(fr) ==
  \A i \in Index(fr) :
    /\ fr[i] = "cb" => i = Len(fr)
    /\ fr[i] = "want" => i # 1 /\ fr[i - 1] = "f"

(* The numbers of the events on the wire, in the queue and handled: t is   *)
(* younger than s, of the same kind, all of a sequence grow.               *)
Sent(s, c) == \A i \in 1 .. Len(s) : s[i].n <= c
Younger(s, t) == \A i \in 1 .. Len(s), j \in 1 .. Len(t) : t[j].kind \in Kinds => s[i].n < t[j].n
Waits(s, t) ==
  \A i \in 1 .. Len(s), j \in 1 .. Len(t) : s[i].kind = t[j].kind => s[i].n < t[j].n
Rising(s) ==
  \A i, j \in 1 .. Len(s) :
    i < j /\ s[i].kind \in Kinds /\ s[j].kind \in Kinds => s[i].n < s[j].n

Numbers(w, s, r, c) ==
  /\ Sent(w, c) /\ Sent(s, c) /\ Sent(r, c)
  /\ Rising(w) /\ Rising(s)
  /\ Younger(s, w) /\ Younger(r, w) /\ Waits(r, s)
  /\ \A i \in 1 .. Len(s) : s[i].kind \in Kinds

Numbered == Numbers(wire, s3d_stack, ran, count)

(* No callback is set before main(). *)
NoneSet == Held(frames, {"init"}) => \A k \in DOMAIN s3d_cb_list : s3d_cb_list[k] # "user"

(* An event with a callback waits in the queue only while somebody will    *)
(* look at the queue before the socket: the loop over it runs, or the      *)
(* function of the main loop does.                                         *)
Pending == \E i \in 1 .. Len(s3d_stack) : s3d_cb_list[s3d_stack[i].kind] = "user"
Drained(fr) ==
  Held(fr, {"f"}) \/ Top(fr) = "stack" \/ (Top(fr) = "cb" /\ Top(Rest(fr)) = "stack")

OrderInv ==
  /\ con => Numbered
  /\ con /\ frames # <<>> => Calm(frames) /\ NoneSet /\ (Pending => Drained(frames))
  /\ InOrder

LEMMA InitOrder == Init => OrderInv
<1> SUFFICES ASSUME Init PROVE OrderInv
  OBVIOUS
<1>1. Numbered /\ ~Pending /\ InOrder
  BY DEF Init, Numbered, Numbers, Sent, Rising, Younger, Waits, Pending, InOrder
<1>2. Calm(frames)
  <2>1. Len(frames) = 1 /\ frames[1] = "init"
    BY DEF Init
  <2> QED
    BY <2>1 DEF Calm, Index
<1>3. NoneSet
  BY DEF Init, NoneSet
<1> QED
  BY <1>1, <1>2, <1>3 DEF OrderInv

(* Who is on the stack of calls when a function calls or returns *)
LEMMA HeldOnPush ==
  ASSUME NEW fr \in Seq(Frame), NEW x \in Frame
  PROVE  /\ Append(fr, x) \in Seq(Frame) /\ Append(fr, x) # <<>>
         /\ \A what : Held(Append(fr, x), what) <=> (Held(fr, what) \/ x \in what)
         /\ Top(Append(fr, x)) = x /\ Rest(Append(fr, x)) = fr
BY DEF Held, Index, Top, Rest

LEMMA RestIs ==
  ASSUME NEW fr \in Seq(Frame), fr # <<>>
  PROVE  /\ Len(fr) \in Nat \ {0} /\ Rest(fr) \in Seq(Frame) /\ Len(Rest(fr)) = Len(fr) - 1
         /\ \A i \in 1 .. Len(fr) - 1 : Rest(fr)[i] = fr[i]
<1>1. Len(fr) \in Nat \ {0} /\ Len(fr) - 1 \in Nat
  OBVIOUS
<1>2. Rest(fr) = [i \in 1 .. Len(fr) - 1 |-> fr[i]]
  BY <1>1 DEF Rest
<1>3. \A i \in 1 .. Len(fr) - 1 : fr[i] \in Frame
  BY <1>1
<1> QED
  BY <1>1, <1>2, <1>3

LEMMA HeldOnPop ==
  ASSUME NEW fr \in Seq(Frame), fr # <<>>
  PROVE  /\ Rest(fr) \in Seq(Frame)
         /\ \A what : Held(fr, what) <=> (Held(Rest(fr), what) \/ Top(fr) \in what)
<1>1. /\ Len(fr) \in Nat \ {0} /\ Rest(fr) \in Seq(Frame) /\ Len(Rest(fr)) = Len(fr) - 1
      /\ \A i \in 1 .. Len(fr) - 1 : Rest(fr)[i] = fr[i]
  BY RestIs
<1> QED
  BY <1>1 DEF Held, Index, Top

LEMMA CalmOnPush ==
  ASSUME NEW fr \in Seq(Frame), NEW x \in Frame, Calm(fr),
         fr # <<>> => Top(fr) # "cb",
         x = "want" => fr # <<>> /\ Top(fr) = "f"
  PROVE  Calm(Append(fr, x))
<1>1. /\ Len(fr) \in Nat /\ Len(Append(fr, x)) = Len(fr) + 1
      /\ \A i \in 1 .. Len(fr) : Append(fr, x)[i] = fr[i]
      /\ Append(fr, x)[Len(fr) + 1] = x
      /\ fr # <<>> => Len(fr) \in 1 .. Len(fr)
  OBVIOUS
<1> QED
  BY <1>1 DEF Calm, Index, Top

LEMMA CalmOnPop ==
  ASSUME NEW fr \in Seq(Frame), fr # <<>>, Calm(fr)
  PROVE  /\ Calm(Rest(fr))
         /\ Rest(fr) # <<>> => Top(Rest(fr)) # "cb"
<1>1. /\ Len(fr) \in Nat \ {0} /\ Rest(fr) \in Seq(Frame) /\ Len(Rest(fr)) = Len(fr) - 1
      /\ \A i \in 1 .. Len(fr) - 1 : Rest(fr)[i] = fr[i]
  BY RestIs
<1>2. Rest(fr) # <<>> => Len(Rest(fr)) \in 1 .. Len(fr) - 1
  BY <1>1
<1> QED
  BY <1>1, <1>2 DEF Calm, Index, Top

(* main(), the function of the main loop and the loops on top of the stack *)
LEMMA Alone ==
  ASSUME NEW lock, Good(frames, lock, con), frames # <<>>
  PROVE  /\ Top(frames) \in {"main", "stack", "loop"} => lock = 0 /\ ~Held(frames, Locking)
         /\ Top(frames) \in {"f", "cb"} => ~Held(Rest(frames), Locking)
         /\ frames \in Seq(Frame)
<1>1. frames \in Seq(Frame) /\ Len(frames) \in Index(frames)
  BY DEF Good, Ordered, Index
<1>2. Top(frames) \in {"f", "cb"} => ~Held(Rest(frames), Locking)
  BY <1>1 DEF Good, Ordered, Held, Rest, Top, Index
<1>3. Top(frames) \in {"main", "stack", "loop"} => ~Held(frames, Locking)
  BY <1>1 DEF Good, Ordered, Held, Top, Index, Locking
<1>4. ~Held(frames, Locking) => lock = 0
  BY FreeLock DEF Held
<1> QED
  BY <1>1, <1>2, <1>3, <1>4
-----------------------------------------------------------------------------
(* How the numbers stay in order: a packet is sent, ...                    *)
LEMMA SendNumbers ==
  ASSUME NEW w \in Seq(Packet), NEW s \in Seq(Event), NEW r \in Seq(Event),
         NEW c \in Nat, NEW d \in Nat, NEW p \in Packet, Numbers(w, s, r, c),
         d >= c, p.n <= d, p.kind \in Kinds => p.n > c
  PROVE  Numbers(Append(w, p), s, r, d)
<1>0. /\ \A q \in Packet : q.n \in Nat
      /\ \A e \in Event : e.n \in Nat
  BY EventLoopAssumption DEF Packet, Event
<1>1. /\ Len(w) \in Nat /\ Len(Append(w, p)) = Len(w) + 1
      /\ \A i \in 1 .. Len(w) : Append(w, p)[i] = w[i] /\ w[i].n \in Nat
      /\ Append(w, p)[Len(w) + 1] = p /\ p.n \in Nat
  BY <1>0
<1>2. /\ \A i \in 1 .. Len(s) : s[i].n \in Nat
      /\ \A i \in 1 .. Len(r) : r[i].n \in Nat
  BY <1>0
<1>3. Sent(Append(w, p), d) /\ Sent(s, d) /\ Sent(r, d)
  BY <1>1, <1>2 DEF Numbers, Sent
<1>4. Rising(Append(w, p))
  BY <1>1 DEF Numbers, Sent, Rising
<1>5. ASSUME NEW z \in Seq(Event), z = s \/ z = r
      PROVE  Younger(z, Append(w, p))
  <2> SUFFICES ASSUME NEW i \in 1 .. Len(z), NEW j \in 1 .. Len(Append(w, p)),
                      Append(w, p)[j].kind \in Kinds
               PROVE  z[i].n < Append(w, p)[j].n
    BY DEF Younger
  <2>1. Sent(z, c) /\ Younger(z, w)
    BY <1>5 DEF Numbers
  <2>2. CASE j \in 1 .. Len(w)
    BY <1>1, <2>1, <2>2 DEF Younger
  <2>3. CASE j = Len(w) + 1
    <3>1. z[i].n \in Nat /\ z[i].n <= c
      BY <1>2, <1>5, <2>1 DEF Sent
    <3>2. Append(w, p)[j] = p
      BY <1>1, <2>3
    <3> QED
      BY <1>1, <3>1, <3>2
  <2> QED
    BY <1>1, <2>2, <2>3
<1> QED
  BY <1>3, <1>4, <1>5 DEF Numbers

(* ... one is read that is no event, ...                                   *)
LEMMA SkipNumbers ==
  ASSUME NEW w \in Seq(Packet), w # <<>>, NEW s, NEW r, NEW c, Numbers(w, s, r, c)
  PROVE  Numbers(Tail(w), s, r, c)
<1>1. /\ Len(w) \in Nat \ {0} /\ Len(Tail(w)) = Len(w) - 1
      /\ \A i \in 1 .. Len(w) - 1 : Tail(w)[i] = w[i + 1]
  OBVIOUS
<1>2. Sent(Tail(w), c)
  BY <1>1 DEF Numbers, Sent
<1>3. Rising(Tail(w))
  BY <1>1 DEF Numbers, Rising
<1>4. Younger(s, Tail(w)) /\ Younger(r, Tail(w))
  BY <1>1 DEF Numbers, Younger
<1> QED
  BY <1>2, <1>3, <1>4 DEF Numbers

(* ... an event goes to the queue, ...                                     *)
LEMMA QueueNumbers ==
  ASSUME NEW w \in Seq(Packet), w # <<>>, w[1] \in Event, w[1].kind \in Kinds,
         NEW s \in Seq(Event), NEW r \in Seq(Event), NEW c, Numbers(w, s, r, c)
  PROVE  Numbers(Tail(w), Append(s, w[1]), r, c)
<1> DEFINE e == w[1]
           new == Append(s, e)
<1>1. Numbers(Tail(w), s, r, c)
  BY SkipNumbers
<1>2. /\ Len(w) \in Nat \ {0} /\ Len(Tail(w)) = Len(w) - 1
      /\ \A i \in 1 .. Len(w) - 1 : Tail(w)[i] = w[i + 1]
  OBVIOUS
<1>3. /\ Len(s) \in Nat /\ Len(new) = Len(s) + 1
      /\ \A i \in 1 .. Len(s) : new[i] = s[i]
      /\ new[Len(s) + 1] = e
  OBVIOUS
<1> HIDE DEF new
<1>4. Sent(new, c)
  <2>1. Sent(s, c) /\ e.n <= c
    BY <1>2 DEF Numbers, Sent
  <2> QED
    BY <1>3, <2>1 DEF Sent
<1>5. Rising(new)
  <2> SUFFICES ASSUME NEW i \in 1 .. Len(new), NEW j \in 1 .. Len(new), i < j
               PROVE  new[i].n < new[j].n
    BY DEF Rising
  <2>1. Rising(s) /\ Younger(s, w) /\ i \in 1 .. Len(s) /\ 1 \in 1 .. Len(w)
    BY <1>2, <1>3 DEF Numbers
  <2>2. CASE j \in 1 .. Len(s)
    <3>1. s[i].kind \in Kinds /\ s[j].kind \in Kinds
      BY <2>1, <2>2 DEF Numbers
    <3>2. s[i].n < s[j].n
      BY <2>1, <2>2, <3>1 DEF Rising
    <3> QED
      BY <1>3, <2>1, <2>2, <3>2
  <2>3. CASE j = Len(s) + 1
    <3>1. s[i].n < w[1].n
      BY <2>1 DEF Younger
    <3> QED
      BY <1>3, <2>1, <2>3, <3>1
  <2> QED
    BY <1>3, <2>2, <2>3
<1>6. Younger(new, Tail(w))
  <2> SUFFICES ASSUME NEW i \in 1 .. Len(new), NEW j \in 1 .. Len(Tail(w)),
                      Tail(w)[j].kind \in Kinds
               PROVE  new[i].n < Tail(w)[j].n
    BY DEF Younger
  <2>1. CASE i \in 1 .. Len(s)
    <3>1. Younger(s, Tail(w))
      BY <1>1 DEF Numbers
    <3> QED
      BY <1>3, <2>1, <3>1 DEF Younger
  <2>2. CASE i = Len(s) + 1
    <3>1. Rising(w)
      BY DEF Numbers
    <3>2. /\ 1 \in 1 .. Len(w) /\ j + 1 \in 1 .. Len(w) /\ 1 < j + 1
          /\ Tail(w)[j] = w[j + 1] /\ new[i] = w[1]
      BY <1>2, <1>3, <2>2
    <3>3. w[1].n < w[j + 1].n
      BY <3>1, <3>2 DEF Rising
    <3> QED
      BY <3>2, <3>3
  <2> QED
    BY <1>3, <2>1, <2>2
<1>7. Waits(r, new)
  BY <1>2, <1>3 DEF Numbers, Waits, Younger
<1>8. \A i \in 1 .. Len(new) : new[i].kind \in Kinds
  BY <1>3 DEF Numbers
<1> QED
  BY <1>1, <1>4, <1>5, <1>6, <1>7, <1>8 DEF Numbers, new

(* ... or straight to its callback, if none of its kind waits, ...         *)
LEMMA DirectNumbers ==
  ASSUME NEW w \in Seq(Packet), w # <<>>, w[1] \in Event, w[1].kind \in Kinds,
         NEW s \in Seq(Event), NEW r \in Seq(Event), NEW c, Numbers(w, s, r, c),
         \A i \in 1 .. Len(s) : s[i].kind # w[1].kind
  PROVE  Numbers(Tail(w), s, Append(r, w[1]), c) /\ Waits(r, <<w[1]>>)
<1> DEFINE e == w[1]
           new == Append(r, e)
<1>1. Numbers(Tail(w), s, r, c)
  BY SkipNumbers
<1>2. /\ Len(w) \in Nat \ {0} /\ Len(Tail(w)) = Len(w) - 1
      /\ \A i \in 1 .. Len(w) - 1 : Tail(w)[i] = w[i + 1]
  OBVIOUS
<1>3. /\ Len(r) \in Nat /\ Len(new) = Len(r) + 1
      /\ \A i \in 1 .. Len(r) : new[i] = r[i]
      /\ new[Len(r) + 1] = e
      /\ Len(<<e>>) = 1 /\ <<e>>[1] = e
  OBVIOUS
<1>4. Sent(new, c)
  BY <1>2, <1>3 DEF Numbers, Sent
<1>5. Younger(new, Tail(w))
  <2> SUFFICES ASSUME NEW i \in 1 .. Len(new), NEW j \in 1 .. Len(Tail(w)),
                      Tail(w)[j].kind \in Kinds
               PROVE  new[i].n < Tail(w)[j].n
    BY DEF Younger
  <2>1. CASE i \in 1 .. Len(r)
    <3>1. Younger(r, Tail(w))
      BY <1>1 DEF Numbers
    <3> QED
      BY <1>3, <2>1, <3>1 DEF Younger
  <2>2. CASE i = Len(r) + 1
    <3>1. Rising(w)
      BY DEF Numbers
    <3>2. /\ 1 \in 1 .. Len(w) /\ j + 1 \in 1 .. Len(w) /\ 1 < j + 1
          /\ Tail(w)[j] = w[j + 1] /\ new[i] = w[1]
      BY <1>2, <1>3, <2>2
    <3>3. w[1].n < w[j + 1].n
      BY <3>1, <3>2 DEF Rising
    <3> QED
      BY <3>2, <3>3
  <2> QED
    BY <1>3, <2>1, <2>2
<1>6. Waits(new, s)
  BY <1>3 DEF Numbers, Waits
<1>7. Waits(r, <<e>>)
  BY <1>2, <1>3 DEF Numbers, Younger, Waits
<1> QED
  BY <1>1, <1>4, <1>5, <1>6, <1>7 DEF Numbers

(* ... or the queue gives up its first, which is handled or dropped.       *)
LEMMA PopNumbers ==
  ASSUME NEW w, NEW s \in Seq(Event), s # <<>>, NEW r \in Seq(Event), NEW c,
         Numbers(w, s, r, c)
  PROVE  /\ Numbers(w, Tail(s), r, c)
         /\ Numbers(w, Tail(s), Append(r, s[1]), c)
         /\ Waits(r, <<s[1]>>)
<1> DEFINE e == s[1]
           new == Append(r, e)
<1>1. /\ Len(s) \in Nat \ {0} /\ Len(Tail(s)) = Len(s) - 1
      /\ \A i \in 1 .. Len(s) - 1 : Tail(s)[i] = s[i + 1]
  OBVIOUS
<1>2. /\ Len(r) \in Nat /\ Len(new) = Len(r) + 1
      /\ \A i \in 1 .. Len(r) : new[i] = r[i]
      /\ new[Len(r) + 1] = e
      /\ Len(<<e>>) = 1 /\ <<e>>[1] = e
  OBVIOUS
<1>3. Sent(Tail(s), c) /\ Sent(new, c)
  BY <1>1, <1>2 DEF Numbers, Sent
<1>4. Rising(Tail(s))
  BY <1>1 DEF Numbers, Rising
<1>5. Younger(Tail(s), w) /\ Younger(new, w)
  BY <1>1, <1>2 DEF Numbers, Younger
<1>6. Waits(r, Tail(s)) /\ Waits(r, <<e>>)
  BY <1>1, <1>2 DEF Numbers, Waits
<1>7. Waits(new, Tail(s))
  BY <1>1, <1>2, <1>6 DEF Numbers, Waits, Rising
<1>8. \A i \in 1 .. Len(Tail(s)) : Tail(s)[i].kind \in Kinds
  BY <1>1 DEF Numbers
<1> QED
  BY <1>3, <1>4, <1>5, <1>6, <1>7, <1>8 DEF Numbers

(* An event is handled that none of its kind handled so far came after.    *)
LEMMA HandledInOrder ==
  ASSUME InOrder, NEW e, ran \in Seq(Event), e \in Event, Waits(ran, <<e>>),
         ran' = ran \/ ran' = Append(ran, e)
  PROVE  InOrder'
<1>1. CASE ran' = Append(ran, e)
  <2> DEFINE new == Append(ran, e)
  <2>1. /\ Len(ran) \in Nat /\ Len(new) = Len(ran) + 1
        /\ \A i \in 1 .. Len(ran) : new[i] = ran[i]
        /\ new[Len(ran) + 1] = e
        /\ Len(<<e>>) = 1 /\ <<e>>[1] = e
    OBVIOUS
  <2>2. \A i, j \in 1 .. Len(new) : i < j /\ new[i].kind = new[j].kind => new[i].n < new[j].n
    BY <2>1 DEF InOrder, Waits
  <2> QED
    BY <1>1, <2>2 DEF InOrder
<1>2. CASE ran' = ran
  BY <1>2 DEF InOrder
<1> QED
  BY <1>1, <1>2
-----------------------------------------------------------------------------
(* The steps that move events *)

LEMMA ServeOrder == ASSUME TypeInv, OrderInv, Serve PROVE OrderInv'
<1>1. UNCHANGED <<con, s3d_stack, s3d_cb_list, frames, ran>>
  BY DEF Serve, SendInit, SendQuit, SendEvent, client, history
<1>2. ASSUME con PROVE Numbered'
  <2>1. /\ Numbers(wire, s3d_stack, ran, count) /\ count \in Nat
        /\ wire \in Seq(Packet) /\ s3d_stack \in Seq(Event) /\ ran \in Seq(Event)
    BY <1>2, EventLoopAssumption DEF OrderInv, Numbered, TypeInv
  <2>2. ASSUME NEW p, p \in {Bare(S_INIT), Bare(QUIT)}, wire' = Append(wire, p), count' = count
        PROVE  Numbered'
    <3>1. p \in Packet /\ p.kind \notin Kinds /\ p.n = 0
      BY <2>2, EventLoopAssumption DEF Bare, Packet
    <3>2. Numbers(Append(wire, p), s3d_stack, ran, count)
      BY <2>1, <3>1, SendNumbers
    <3> QED
      BY <1>1, <2>2, <3>2 DEF Numbered
  <2>3. ASSUME NEW k \in Kinds, SendEvent(k) PROVE Numbered'
    <3> DEFINE p == [kind |-> k, n |-> count + 1]
    <3>1. wire' = Append(wire, p) /\ count' = count + 1 /\ count + 1 \in 0 .. MaxEvents
      BY <2>1, <2>3, EventLoopAssumption DEF SendEvent, Send
    <3>2. p \in Packet /\ p.n = count + 1
      BY <3>1 DEF Packet
    <3>3. Numbers(Append(wire, p), s3d_stack, ran, count + 1)
      BY <2>1, <3>2, SendNumbers
    <3> QED
      BY <1>1, <3>1, <3>3 DEF Numbered
  <2> QED
    BY <2>2, <2>3 DEF Serve, SendInit, SendQuit, Send
<1>3. (Pending' <=> Pending) /\ (NoneSet' <=> NoneSet) /\ (InOrder' <=> InOrder)
  BY <1>1 DEF Pending, NoneSet, InOrder
<1> QED
  BY <1>1, <1>2, <1>3 DEF OrderInv

(* A packet is read: an event with a callback waits only if somebody holds *)
(* the lock, and that is then the function of the main loop.               *)
LEMMA ReadOrder ==
  ASSUME ConInv, OrderInv, Receive, con, con'
  PROVE  OrderInv'
<1>0. /\ Numbers(wire, s3d_stack, ran, count) /\ TypeInv /\ NoneSet /\ Calm(frames)
      /\ Good(frames, cb_lock, con) /\ frames # <<>> /\ Top(frames) = "recv"
      /\ Pending => Drained(frames)
      /\ UNCHANGED <<count, s3d_cb_list>> /\ wire # <<>> /\ wire' = Tail(wire)
      /\ InOrder
  BY DEF OrderInv, ConInv, Counting, Receive, Running, Numbered, Top
<1>1. /\ frames \in Seq(Frame) /\ Top(frames) # "cb"
      /\ wire \in Seq(Packet) /\ s3d_stack \in Seq(Event) /\ ran \in Seq(Event)
      /\ Head(wire) = wire[1] /\ wire[1] \in Packet
  BY <1>0 DEF Good, Ordered, TypeInv
<1>lock. /\ cb_lock \in 0 .. 3
      /\ cb_lock <= 0 <=> \A i \in Index(frames) : frames[i] \notin Locking
  BY <1>0, FreeLock
<1>2. CASE UNCHANGED <<s3d_stack, frames, ran>>
  <2>1. Numbered'
    BY <1>0, <1>1, <1>2, SkipNumbers DEF Numbered
  <2>2. (Pending' <=> Pending) /\ (NoneSet' <=> NoneSet) /\ InOrder'
    BY <1>0, <1>2 DEF Pending, NoneSet, InOrder
  <2> QED
    BY <1>0, <1>2, <2>1, <2>2 DEF OrderInv
<1>3. CASE wire[1].kind \in Kinds /\ PushEvent(wire[1])
  <2>1. wire[1] \in Event
    BY <1>1, <1>3 DEF Packet, Event
  <2>2. CASE /\ s3d_stack' = Append(s3d_stack, wire[1])
             /\ UNCHANGED <<cb_lock, ran, frames>>
             /\ ~(cb_lock = 0 /\ s3d_cb_list[wire[1].kind] # "nil")
    <3>1. Numbered'
      BY <1>0, <1>1, <1>3, <2>1, <2>2, QueueNumbers DEF Numbered
    <3>2. NoneSet' /\ InOrder'
      BY <1>0, <2>2 DEF NoneSet, InOrder
    <3>3. Pending' => Pending \/ s3d_cb_list[wire[1].kind] = "user"
      <4>1. /\ Len(s3d_stack) \in Nat /\ Len(s3d_stack') = Len(s3d_stack) + 1
            /\ \A i \in 1 .. Len(s3d_stack) : s3d_stack'[i] = s3d_stack[i]
            /\ s3d_stack'[Len(s3d_stack) + 1] = wire[1]
        BY <1>1, <2>2
      <4> QED
        BY <1>0, <4>1 DEF Pending
    <3>4. ASSUME s3d_cb_list[wire[1].kind] = "user" PROVE Drained(frames)
      <4>1. cb_lock # 0
        BY <2>2, <3>4
      <4>2. PICK i \in Index(frames) : frames[i] \in Locking
        BY <1>lock, <4>1
      <4>3. frames[i] # "init"
        BY <1>0, <1>3, <3>4 DEF NoneSet, Held, TypeInv
      <4>4. frames[i] # "cb"
        BY <1>0, <4>2 DEF Calm, Index, Top
      <4>5. frames[i] = "want" => i - 1 \in Index(frames) /\ frames[i - 1] = "f"
        BY <1>0, <1>1, <4>2 DEF Calm, Index
      <4> QED
        BY <4>2, <4>3, <4>4, <4>5 DEF Locking, Held, Drained
    <3> QED
      BY <1>0, <2>2, <3>1, <3>2, <3>3, <3>4 DEF OrderInv
  <2>3. CASE /\ cb_lock = 0 /\ s3d_stack' = s3d_stack
             /\ Call(wire[1], frames)
    <3>1. ~Pending
      <4>1. ~Held(frames, {"f"})
        BY <1>lock, <2>3 DEF Held, Locking
      <4> QED
        BY <1>0, <4>1 DEF Drained
    <3>2. /\ Numbers(Tail(wire), s3d_stack, ran, count)
          /\ s3d_cb_list[wire[1].kind] = "user" =>
               /\ Numbers(Tail(wire), s3d_stack, Append(ran, wire[1]), count)
               /\ Waits(ran, <<wire[1]>>)
      <4>1. s3d_cb_list[wire[1].kind] = "user" =>
              \A i \in 1 .. Len(s3d_stack) : s3d_stack[i].kind # wire[1].kind
        BY <3>1 DEF Pending
      <4> QED
        BY <1>0, <1>1, <1>3, <2>1, <4>1, SkipNumbers, DirectNumbers
    <3>3. wire[1].kind # QUIT
      BY <1>3, EventLoopAssumption
    <3>4. Numbered' /\ InOrder'
      <4>1. CASE s3d_cb_list[wire[1].kind] = "user"
        <5>1. ran' = Append(ran, wire[1])
          BY <2>3, <3>3, <4>1 DEF Call
        <5>2. InOrder'
          BY <1>0, <1>1, <2>1, <3>2, <4>1, <5>1, HandledInOrder
        <5> QED
          BY <1>0, <2>3, <3>2, <4>1, <5>1, <5>2 DEF Numbered
      <4>2. CASE s3d_cb_list[wire[1].kind] # "user"
        BY <1>0, <2>3, <3>2, <4>2 DEF Numbered, Call, InOrder
      <4> QED
        BY <4>1, <4>2
    <3>5. ~Pending'
      BY <1>0, <2>3, <3>1 DEF Pending
    <3>6. frames' = frames \/ frames' = Append(frames, "cb")
      BY <2>3 DEF Call
    <3>7. Calm(frames') /\ NoneSet'
      <4>1. "cb" \in Frame
        BY DEF Frame
      <4>2. Held(frames', {"init"}) => Held(frames, {"init"})
        <5>1. Held(Append(frames, "cb"), {"init"}) <=> (Held(frames, {"init"}) \/ "cb" \in {"init"})
          BY <1>1, <4>1, HeldOnPush
        <5> QED
          BY <3>6, <5>1
      <4> QED
        BY <1>0, <1>1, <3>6, <4>1, <4>2, CalmOnPush DEF NoneSet
    <3> QED
      BY <3>4, <3>5, <3>7 DEF OrderInv
  <2> QED
    BY <1>3, <2>2, <2>3 DEF PushEvent
<1>4. CASE wire[1].kind = QUIT /\ S3dQuit /\ UNCHANGED history
  <2>1. UNCHANGED <<s3d_stack, frames>>
    BY <1>4 DEF S3dQuit
  <2> QED
    BY <1>2, <1>4, <2>1 DEF history
<1> QED
  BY <1>1, <1>2, <1>3, <1>4 DEF Receive, history

(* The queue gives up an event. *)
LEMMA PopOrder ==
  ASSUME ConInv, OrderInv, PopEvent, con
  PROVE  OrderInv'
<1>0. /\ Numbers(wire, s3d_stack, ran, count) /\ TypeInv /\ NoneSet /\ Calm(frames)
      /\ Good(frames, cb_lock, con) /\ frames # <<>> /\ Top(frames) = "stack"
      /\ UNCHANGED <<count, wire, s3d_cb_list, con>> /\ InOrder
  BY DEF OrderInv, ConInv, Counting, PopEvent, Running, Numbered, Top, server
<1>1. /\ frames \in Seq(Frame) /\ s3d_stack \in Seq(Event) /\ ran \in Seq(Event)
      /\ "cb" \in Frame
  BY <1>0 DEF Good, Ordered, TypeInv, Frame
<1>2. CASE s3d_stack = <<>> /\ frames' = Below /\ UNCHANGED <<cb_lock, s3d_stack, ran>>
  <2>1. ~Pending' /\ Numbered' /\ InOrder'
    BY <1>0, <1>2 DEF Pending, Numbered, InOrder
  <2>2. Calm(frames') /\ NoneSet'
    BY <1>0, <1>1, <1>2, HeldOnPop, CalmOnPop DEF NoneSet, Below, Rest
  <2> QED
    BY <2>1, <2>2 DEF OrderInv
<1>3. CASE /\ s3d_stack # <<>> /\ s3d_stack' = Tail(s3d_stack)
           /\ Call(Head(s3d_stack), frames)
  <2> DEFINE e == s3d_stack[1]
  <2>1. /\ Head(s3d_stack) = e /\ e \in Event /\ 1 \in 1 .. Len(s3d_stack)
    BY <1>1, <1>3
  <2>2. /\ Numbers(wire, Tail(s3d_stack), ran, count)
        /\ Numbers(wire, Tail(s3d_stack), Append(ran, e), count)
        /\ Waits(ran, <<e>>)
    BY <1>0, <1>1, <1>3, PopNumbers
  <2>3. ran' = ran \/ ran' = Append(ran, e)
    BY <1>3, <2>1 DEF Call
  <2>4. Numbered' /\ InOrder'
    BY <1>0, <1>1, <1>3, <2>1, <2>2, <2>3, HandledInOrder DEF Numbered
  <2>5. frames' = frames \/ frames' = Append(frames, "cb")
    BY <1>3 DEF Call
  <2>6. Calm(frames') /\ NoneSet' /\ Drained(frames')
    <3>1. Top(frames) # "cb"
      BY <1>0
    <3>2. CASE frames' = Append(frames, "cb")
      BY <1>0, <1>1, <3>1, <3>2, HeldOnPush, CalmOnPush DEF NoneSet, Drained
    <3>3. CASE frames' = frames
      BY <1>0, <3>3 DEF NoneSet, Drained
    <3> QED
      BY <2>5, <3>2, <3>3
  <2> QED
    BY <2>4, <2>6 DEF OrderInv
<1> QED
  BY <1>2, <1>3 DEF PopEvent
-----------------------------------------------------------------------------
(* The steps that only call and return, with the callbacks as they were:   *)
(* fr is the stack of calls they leave.                                    *)
Settled(fr) ==
  /\ Calm(fr)
  /\ Held(fr, {"init"}) => Held(frames, {"init"})
  /\ Pending => Drained(fr)

LEMMA CallOrder ==
  ASSUME ConInv, OrderInv, Tame, con, frames' # <<>>,
         InitWait \/ ReceiveDone \/ Loop \/ Return \/ MainLoop \/ Poll \/ NewObject
  PROVE  Settled(frames')
<1>0. /\ frames # <<>> /\ Good(frames, cb_lock, con)
      /\ Calm(frames) /\ NoneSet /\ (Pending => Drained(frames))
      /\ frames \in Seq(Frame)
  <2>1. frames # <<>>
    BY DEF InitWait, ReceiveDone, Loop, Return, MainLoop, Poll, NewObject, May, Running
  <2> QED
    BY <2>1 DEF ConInv, Counting, OrderInv, Good, Ordered
<1>1. ASSUME NEW what, Running(what) PROVE Top(frames) \in what
  BY <1>1 DEF Running, Top
<1>2. /\ Top(frames) \in {"main", "stack", "loop"} => cb_lock = 0 /\ ~Held(frames, Locking)
      /\ Top(frames) \in {"f", "cb"} => ~Held(Rest(frames), Locking)
  BY <1>0, Alone
<1>3. Top(frames) \in {"main", "loop"} => ~Pending
  <2>1. Held(frames, {"f"}) => Held(frames, Locking)
    BY DEF Held, Locking
  <2> QED
    BY <1>0, <1>2, <2>1 DEF Drained
<1>4. ASSUME NEW x \in Frame \ {"init"}, Top(frames) # "cb", x = "want" => Top(frames) = "f",
             x = "stack" \/ Top(frames) = "f" \/ ~Pending
      PROVE  Settled(Append(frames, x))
  <2>1. Calm(Append(frames, x))
    BY <1>0, <1>4, CalmOnPush
  <2>2. /\ \A what : Held(Append(frames, x), what) <=> (Held(frames, what) \/ x \in what)
        /\ Top(Append(frames, x)) = x
    BY <1>0, HeldOnPush
  <2>3. Top(frames) = "f" => Held(frames, {"f"})
    BY <1>0 DEF Held, Top, Index
  <2> QED
    BY <1>4, <2>1, <2>2, <2>3 DEF Settled, Drained
<1>5. /\ Rest(frames) \in Seq(Frame) /\ Calm(Rest(frames))
      /\ Rest(frames) # <<>> => Top(Rest(frames)) # "cb"
      /\ \A what : Held(frames, what) <=> (Held(Rest(frames), what) \/ Top(frames) \in what)
  BY <1>0, HeldOnPop, CalmOnPop
<1>6. CASE InitWait
  <2>1. Top(frames) = "init"
    BY <1>1, <1>6 DEF InitWait
  <2>2. ~Pending
    <3>1. Held(frames, {"init"})
      BY <1>0, <2>1 DEF Held, Top, Index
    <3>2. \A i \in 1 .. Len(s3d_stack) : s3d_stack[i].kind \in DOMAIN s3d_cb_list
      <4>1. s3d_stack \in Seq(Event) /\ DOMAIN s3d_cb_list = Kinds \union {QUIT}
        BY DEF ConInv, TypeInv
      <4>2. \A i \in 1 .. Len(s3d_stack) : s3d_stack[i] \in Event
        BY <4>1
      <4> QED
        BY <4>1, <4>2 DEF Event
    <3> QED
      BY <1>0, <3>1, <3>2 DEF NoneSet, Pending
  <2>3. CASE frames' = <<"main">>
    <3>1. /\ Len(<<"main">>) = 1 /\ <<"main">>[1] = "main"
      OBVIOUS
    <3> QED
      BY <2>2, <2>3, <3>1 DEF Settled, Calm, Held, Index
  <2>4. CASE frames' = Append(frames, "recv")
    BY <1>4, <2>1, <2>2, <2>4 DEF Frame
  <2> QED
    BY <1>6, <2>3, <2>4 DEF InitWait
<1>7. CASE ReceiveDone
  <2>1. Top(frames) = "recv" /\ frames' = Rest(frames) \o ProcessStack(cb_lock)
    BY <1>1, <1>7 DEF ReceiveDone, Below, Rest
  <2>2. Pending => Held(Rest(frames), {"f"})
    BY <1>0, <1>5, <2>1 DEF Drained
  <2>3. CASE frames' = Rest(frames)
    BY <1>5, <2>2, <2>3 DEF Settled, Drained
  <2>4. CASE frames' = Append(Rest(frames), "stack")
    <3>1. "stack" \in Frame
      BY DEF Frame
    <3>2. /\ \A what : Held(Append(Rest(frames), "stack"), what)
                         <=> (Held(Rest(frames), what) \/ "stack" \in what)
          /\ Top(Append(Rest(frames), "stack")) = "stack"
          /\ Calm(Append(Rest(frames), "stack"))
      BY <1>5, <3>1, HeldOnPush, CalmOnPush
    <3> QED
      BY <1>5, <2>4, <3>2 DEF Settled, Drained
  <2> QED
    BY <1>5, <2>1, <2>3, <2>4, Concat DEF ProcessStack, Frame
<1>8. CASE Loop
  <2>1. Top(frames) = "loop" /\ frames' = Append(frames, "f")
    BY <1>1, <1>8 DEF Loop
  <2> QED
    BY <1>3, <1>4, <2>1 DEF Frame
<1>9. CASE Return
  <2>1. CASE Top(frames) = "f" /\ frames' = Rest(frames) \o <<"recv">> \o ProcessStack(cb_lock - 1)
    <3> DEFINE base == Append(Rest(frames), "recv")
               new == Append(base, "stack")
    <3>1. "recv" \in Frame /\ "stack" \in Frame
      BY DEF Frame
    <3>2. /\ base \in Seq(Frame) /\ base # <<>> /\ Top(base) = "recv" /\ Calm(base)
          /\ \A what : Held(base, what) <=> (Held(Rest(frames), what) \/ "recv" \in what)
      BY <1>5, <3>1, HeldOnPush, CalmOnPush
    <3> HIDE DEF base
    <3>3. /\ Top(new) = "stack" /\ Calm(new)
          /\ \A what : Held(new, what) <=> (Held(base, what) \/ "stack" \in what)
      BY <3>1, <3>2, HeldOnPush, CalmOnPush
    <3> HIDE DEF new
    <3>4. cb_lock = 1
      <4>1. Good(Rest(frames), cb_lock - Num(Top(frames) \in Locking), con)
        BY <1>0, <2>1, Pop
      <4>2. Num(Top(frames) \in Locking) = 1
        BY <2>1 DEF Num, Locking
      <4>3. cb_lock - 1 \in 0 .. 3 /\ cb_lock - 1 <= 0
        BY <1>2, <2>1, <4>1, <4>2, FreeLock DEF Held
      <4>4. cb_lock \in 0 .. 3
        BY <1>0, FreeLock
      <4> QED
        BY <4>3, <4>4
    <3>5. frames' = new
      <4>1. ProcessStack(cb_lock - 1) = <<"stack">>
        BY <3>4 DEF ProcessStack
      <4>2. Rest(frames) \o <<"recv">> = base
        BY <1>5, <3>1, Concat DEF base
      <4> QED
        BY <2>1, <3>1, <3>2, <4>1, <4>2, Concat DEF new
    <3> QED
      BY <1>5, <3>2, <3>3, <3>5 DEF Settled, Drained
  <2>2. CASE Top(frames) \in {"cb", "want"} /\ frames' = Rest(frames)
    <3>1. Top(frames) = "want" /\ Pending => Held(Rest(frames), {"f"})
      BY <1>0, <1>5 DEF Drained
    <3>2. Top(frames) = "cb" /\ Pending => Top(Rest(frames)) = "stack"
      <4>1. Held(Rest(frames), {"f"}) => Held(Rest(frames), Locking)
        BY DEF Held, Locking
      <4> QED
        BY <1>0, <1>2, <1>5, <4>1 DEF Drained
    <3> QED
      BY <1>5, <2>2, <3>1, <3>2 DEF Settled, Drained
  <2>3. CASE Running({"f"}) /\ cb_lock' = cb_lock - 1
             /\ frames' = Below \o <<"recv">> \o ProcessStack(cb_lock')
    BY <1>1, <2>1, <2>3 DEF Below, Rest
  <2>4. CASE Running({"cb", "want"}) /\ frames' = Below
    BY <1>1, <2>2, <2>4 DEF Below, Rest
  <2> QED
    BY <1>9, <2>3, <2>4 DEF Return
<1>10. CASE MainLoop
  BY <1>1, <1>3, <1>4, <1>10 DEF MainLoop, Frame
<1>11. CASE Poll
  BY <1>1, <1>3, <1>4, <1>11 DEF Poll, May, Tame, Frame
<1>12. CASE NewObject
  <2>1. Top(frames) = "f" /\ {"want", "recv"} \subseteq Frame
    BY <1>1, <1>12 DEF NewObject, Tame, Frame
  <2>2. Settled(Append(frames, "want"))
    BY <1>4, <2>1
  <2>3. CASE frames' = frames \o <<"want">>
    BY <1>0, <2>1, <2>2, <2>3, Concat
  <2>4. CASE frames' = frames \o <<"want", "recv">>
    <3> DEFINE base == Append(frames, "want")
    <3>1. /\ base \in Seq(Frame) /\ base # <<>> /\ Top(base) = "want" /\ Calm(base)
          /\ \A what : Held(base, what) <=> (Held(frames, what) \/ "want" \in what)
      BY <1>0, <2>1, <2>2, HeldOnPush DEF Settled
    <3>2. frames' = Append(base, "recv")
      BY <1>0, <2>1, <2>4, Concat
    <3> HIDE DEF base
    <3>3. /\ Calm(Append(base, "recv"))
          /\ \A what : Held(Append(base, "recv"), what) <=> (Held(base, what) \/ "recv" \in what)
      BY <2>1, <3>1, HeldOnPush, CalmOnPush
    <3>4. Held(frames, {"f"})
      BY <1>0, <2>1 DEF Held, Top, Index
    <3> QED
      BY <3>1, <3>2, <3>3, <3>4 DEF Settled, Drained
  <2> QED
    BY <1>12, <2>3, <2>4 DEF NewObject
<1> QED
  BY <1>6, <1>7, <1>8, <1>9, <1>10, <1>11, <1>12

(* A callback is set by main(), which looks at the queue at once.          *)
LEMMA SetOrder ==
  ASSUME ConInv, OrderInv, Tame, con, NEW k \in Kinds \union {QUIT}, NEW func, SetCallback(k, func)
  PROVE  Calm(frames') /\ NoneSet' /\ Drained(frames')
<1>1. frames # <<>> /\ Top(frames) = "main" /\ Good(frames, cb_lock, con) /\ Calm(frames)
  BY DEF SetCallback, May, Tame, Running, Top, ConInv, Counting, OrderInv
<1>2. frames = <<"main">> /\ cb_lock = 0 /\ frames \in Seq(Frame)
  BY <1>1, Bottom DEF Num, Good, Ordered
<1>3. frames' = Append(frames, "stack") /\ "stack" \in Frame
  BY <1>2, Concat DEF SetCallback, ProcessStack, Frame
<1>4. ~Held(frames, {"init"})
  BY <1>2 DEF Held, Index
<1>5. /\ Held(Append(frames, "stack"), {"init"}) <=> (Held(frames, {"init"}) \/ "stack" \in {"init"})
      /\ Top(Append(frames, "stack")) = "stack"
  BY <1>2, <1>3, HeldOnPush
<1>6. Calm(Append(frames, "stack"))
  BY <1>1, <1>2, <1>3, CalmOnPush
<1> QED
  BY <1>3, <1>4, <1>5, <1>6 DEF NoneSet, Drained

(* A callback that is cleared leaves less to wait for. *)
LEMMA ClearOrder ==
  ASSUME ConInv, OrderInv, con, NEW k \in Kinds \union {QUIT}, ClearCallback(k)
  PROVE  Calm(frames') /\ NoneSet' /\ (Pending' => Drained(frames'))
<1>1. /\ frames # <<>> /\ frames' = frames /\ s3d_stack' = s3d_stack
      /\ s3d_cb_list' = [s3d_cb_list EXCEPT ![k] = "nil"]
  BY DEF ClearCallback, Running
<1>2. /\ DOMAIN s3d_cb_list' = DOMAIN s3d_cb_list /\ DOMAIN s3d_cb_list = Kinds \union {QUIT}
      /\ \A j \in Kinds \union {QUIT} : s3d_cb_list'[j] = "user" => s3d_cb_list[j] = "user"
  BY <1>1 DEF ConInv, TypeInv
<1>3. \A i \in 1 .. Len(s3d_stack) : s3d_stack[i].kind \in Kinds \union {QUIT}
  <2>1. \A i \in 1 .. Len(s3d_stack) : s3d_stack[i] \in Event
    BY DEF ConInv, TypeInv
  <2> QED
    BY <2>1 DEF Event
<1>4. Pending' => Pending
  BY <1>1, <1>2, <1>3 DEF Pending
<1> QED
  BY <1>1, <1>2, <1>4 DEF OrderInv, NoneSet

LEMMA NextOrder == ASSUME Tame PROVE ConInv /\ OrderInv /\ [Next]_vars => OrderInv'
<1> SUFFICES ASSUME Tame, ConInv, OrderInv, [Next]_vars PROVE OrderInv'
  OBVIOUS
<1>1. con' => con
  BY ConnectionEnds DEF ConInv, TypeInv
<1>2. CASE ~con
  BY <1>1, <1>2, Silence DEF OrderInv, InOrder
<1>3. CASE con /\ ~con'
  <2>1. ran' = ran
    BY <1>3
    DEF Next, Serve, Library, Program, vars, client, history, SendInit, SendQuit, SendEvent,
        InitWait, Receive, ReceiveDone, PopEvent, Loop, Return, MainLoop, Poll, NewObject, Quit,
        ClearCallback, SetCallback
  <2> QED
    BY <1>3, <2>1 DEF OrderInv, InOrder
<1>4. CASE con /\ con'
  <2>1. CASE Serve
    BY <2>1, ServeOrder DEF ConInv
  <2>2. CASE Receive
    BY <1>4, <2>2, ReadOrder
  <2>3. CASE PopEvent
    BY <1>4, <2>3, PopOrder
  <2>4. CASE UNCHANGED <<wire, count, con, s3d_stack, s3d_cb_list, frames, ran>>
    BY <2>4 DEF OrderInv, Numbered, NoneSet, Pending, InOrder
  <2>5. CASE Quit
    BY <1>4, <2>4, <2>5 DEF Quit, S3dQuit, server, history
  <2>6. ASSUME UNCHANGED <<wire, count, s3d_stack, ran>>
        PROVE  Numbered' /\ InOrder'
    BY <1>4, <2>6 DEF OrderInv, Numbered, InOrder
  <2>7. CASE InitWait \/ ReceiveDone \/ Loop \/ Return \/ MainLoop \/ Poll \/ NewObject
    <3>1. UNCHANGED <<wire, count, s3d_stack, s3d_cb_list, ran>> /\ frames # <<>>
      BY <2>7
      DEF InitWait, ReceiveDone, Loop, Return, MainLoop, Poll, NewObject, May, Running, server,
          history
    <3>2. frames' # <<>> => Settled(frames')
      BY <1>4, <2>7, CallOrder
    <3>3. frames' # <<>> => Calm(frames') /\ NoneSet' /\ (Pending' => Drained(frames'))
      BY <1>4, <3>1, <3>2 DEF OrderInv, Settled, NoneSet, Pending
    <3> QED
      BY <2>6, <3>1, <3>3 DEF OrderInv
  <2>8. ASSUME NEW k \in Kinds \union {QUIT}, NEW func \in {"ignore", "user"},
               ClearCallback(k) \/ SetCallback(k, func)
        PROVE  OrderInv'
    <3>1. UNCHANGED <<wire, count, s3d_stack, ran>>
      BY <2>8 DEF ClearCallback, SetCallback, server, history
    <3> QED
      BY <1>4, <2>6, <2>8, <3>1, ClearOrder, SetOrder DEF OrderInv
  <2> QED
    BY <2>1, <2>2, <2>3, <2>4, <2>5, <2>7, <2>8 DEF Next, Library, Program, vars
<1> QED
  BY <1>2, <1>3, <1>4

(* Events of one kind are handled in the order the server sent them in, by *)
(* a program that looks for packets and sets callbacks only in main() and  *)
(* makes objects only in the function of its main loop, whoever ends the   *)
(* connection.                                                             *)
THEOREM EventsInOrder == ASSUME Tame PROVE Spec => []InOrder
<1>1. ConInv /\ OrderInv /\ [Next]_vars => ConInv' /\ OrderInv'
  BY NextCon, NextOrder
<1>2. Init => ConInv /\ OrderInv
  BY InitCon, InitOrder
<1>3. OrderInv => InOrder
  BY DEF OrderInv
<1> QED
  BY <1>1, <1>2, <1>3, PTL DEF Spec
=============================================================================
