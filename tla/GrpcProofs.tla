----------------------------- MODULE GrpcProofs -----------------------------
(***************************************************************************)
(* Proofs about the gRPC modules.  Streams (GrpcStream): the invariant is  *)
(* one of each stream by itself, of its record, the bytes that came in,    *)
(* what was taken from it and the frames still to be handed over.  Calls   *)
(* and the pool (GrpcClient): the round robin, what a call has done when   *)
(* it gives up, and the counters of the subchannels.                       *)
(***************************************************************************)
EXTENDS GrpcStream, GrpcClient, SequenceFacts, FiniteSetTheorems

-----------------------------------------------------------------------------
(* Streams. *)

StreamRec ==
    [state: {"none", "open", "half_closed_local", "closed"},
     deadline: Nat \cup {None}, status: Nat,
     read_buffer: Seq(Nat), response_queue: Seq(Seq(Nat)),
     told: Nat, closes: Nat, closeStatus: Nat \cup {None}]

(* The frames that push_incoming_data has still to hand over to s. *)
Pending(s) == IF feeding = s THEN frames ELSE << >>

(* The elements of q are the frames that follow the first k. *)
Numbered(q, k) == \A n \in 1 .. Len(q) : q[n] = Frame(k + n)

Total(r, tk, pend) == Len(tk) + Len(r.response_queue) + Len(pend)

(* The messages of a stream r of which a bytes came in: those taken, those  *)
(* queued and those to be handed over follow one another, and while the    *)
(* stream is open the buffer holds what is left of the bytes.              *)
OrderOK(r, a, fin, tk, pend) ==
    /\ Numbered(tk, 0)
    /\ Numbered(r.response_queue, Len(tk))
    /\ Numbered(pend, Len(tk) + Len(r.response_queue))
    /\ Total(r, tk, pend) <= a \div FrameLen
    /\ Live(r) =>
          /\ Total(r, tk, pend) = a \div FrameLen
          /\ Len(r.read_buffer) = a - (a \div FrameLen) * FrameLen
          /\ \A i \in 1 .. Len(r.read_buffer) : r.read_buffer[i] = (a \div FrameLen) * FrameLen + i
    /\ r.state = "closed" /\ r.status # DEADLINE_EXCEEDED =>
          fin /\ Total(r, tk, pend) = a \div FrameLen
    /\ fin => pend = << >>
    /\ r.state = "none" => r = NoStream /\ a = 0 /\ tk = << >> /\ pend = << >> /\ ~fin

(* What the callbacks of r were told. *)
CloseOK(r) ==
    /\ r.state # "closed" => r.told = 0 /\ r.closes = 0
    /\ r.state = "closed" => r.told >= 1 /\ r.closes = 1 /\ r.closeStatus = r.status
    /\ ~reentrant => r.told <= 1

(* Types as far as the argument needs them. *)
Typed ==
    /\ now \in Nat
    /\ reentrant \in BOOLEAN
    /\ stream \in [Streams -> StreamRec]
    /\ frames \in Seq(Seq(Nat))
    /\ feeding \in Streams \cup {None}
    /\ arrived \in [Streams -> Nat]
    /\ finished \in [Streams -> BOOLEAN]
    /\ taken \in [Streams -> Seq(Seq(Nat))]
    /\ torn \in BOOLEAN

(* Frames are handed over to one stream at a time; it is open unless a      *)
(* callback used it.                                                       *)
FeedingOK ==
    /\ feeding = None => frames = << >>
    /\ ~reentrant /\ frames # << >> => Live(stream[feeding])

(* A die through feed_input leaves nothing of the order. *)
StreamsOK ==
    \A s \in Streams :
        /\ ~torn => OrderOK(stream[s], arrived[s], finished[s], taken[s], Pending(s))
        /\ CloseOK(stream[s])

StreamIInv == Typed /\ FeedingOK /\ StreamsOK

-----------------------------------------------------------------------------
(* Operations on one stream. *)

(* What the deadline makes of r: nothing, or the end of it. *)
TimedOut(r, q, nest) ==
    \/ q = r
    \/ /\ Live(r)
       /\ q.state = "closed" /\ q.status = DEADLINE_EXCEEDED
       /\ q.read_buffer = r.read_buffer /\ q.response_queue = r.response_queue
       /\ q.told = r.told + nest /\ q.closes = r.closes + 1
       /\ q.closeStatus = DEADLINE_EXCEEDED

LEMMA HandleClose ==
    ASSUME NEW r \in StreamRec, r.state # "closed"
    PROVE  LET q == handle_close(r) IN
           /\ q \in StreamRec
           /\ q.state = "closed" /\ q.status = r.status
           /\ q.read_buffer = r.read_buffer /\ q.response_queue = r.response_queue
           /\ q.told = r.told /\ q.closes = r.closes + 1 /\ q.closeStatus = r.status
<1> DEFINE q == [r EXCEPT !.state = "closed", !.closes = @ + 1, !.closeStatus = r.status]
<1>1. handle_close(r) = q
  BY DEF handle_close
<1>2. q \in StreamRec
  <2>1. r.closes + 1 \in Nat /\ r.status \in Nat
    BY DEF StreamRec
  <2> QED
    BY <2>1, Zenon DEF StreamRec
<1>3. /\ q.state = "closed" /\ q.status = r.status
      /\ q.read_buffer = r.read_buffer /\ q.response_queue = r.response_queue
      /\ q.told = r.told /\ q.closes = r.closes + 1 /\ q.closeStatus = r.status
  BY DEF StreamRec
<1> QED
  BY <1>1, <1>2, <1>3

LEMMA CheckDeadline ==
    ASSUME NEW r \in StreamRec, NEW nest \in Nat
    PROVE  /\ check_deadline(r, nest) \in StreamRec
           /\ TimedOut(r, check_deadline(r, nest), nest)
<1>1. CASE ~(Live(r) /\ Overdue(r))
  BY <1>1 DEF check_deadline, TimedOut
<1>2. CASE Live(r) /\ Overdue(r)
  <2> DEFINE u == [r EXCEPT !.status = DEADLINE_EXCEEDED, !.told = @ + nest]
  <2>1. check_deadline(r, nest) = handle_close(u)
    BY <1>2 DEF check_deadline, abort_stream
  <2>2. u \in StreamRec
    <3>1. r.told + nest \in Nat /\ DEADLINE_EXCEEDED \in Nat
      BY DEF StreamRec, DEADLINE_EXCEEDED
    <3> QED
      BY <3>1, Zenon DEF StreamRec
  <2>3. /\ u.state = r.state /\ u.status = DEADLINE_EXCEEDED
        /\ u.read_buffer = r.read_buffer /\ u.response_queue = r.response_queue
        /\ u.told = r.told + nest /\ u.closes = r.closes
    BY DEF StreamRec
  <2> HIDE DEF u
  <2>4. u.state # "closed"
    BY <1>2, <2>3 DEF Live
  <2> QED
    BY <1>2, <2>1, <2>2, <2>3, <2>4, HandleClose DEF TimedOut
<1> QED
  BY <1>1, <1>2

LEMMA TimedOutOrder ==
    ASSUME NEW r, NEW q, NEW nest, TimedOut(r, q, nest),
           NEW a, NEW fin, NEW tk, NEW pend, OrderOK(r, a, fin, tk, pend)
    PROVE  OrderOK(q, a, fin, tk, pend)
<1>1. CASE q = r
  BY <1>1
<1>2. CASE q # r
  <2>1. /\ q.state = "closed" /\ q.status = DEADLINE_EXCEEDED
        /\ q.response_queue = r.response_queue /\ ~Live(q)
    BY <1>2 DEF TimedOut, Live
  <2> QED
    BY <2>1 DEF OrderOK, Total
<1> QED
  BY <1>1, <1>2

LEMMA TimedOutTells ==
    ASSUME Typed, NEW r \in StreamRec, NEW q, NEW nest \in Nests, TimedOut(r, q, nest),
           CloseOK(r)
    PROVE  CloseOK(q)
<1>1. nest \in Nat /\ nest >= 1 /\ (~reentrant => nest = 1)
  BY GrpcStreamAssumption DEF Nests
<1>2. CASE q = r
  BY <1>2
<1>3. CASE q # r
  <2>1. /\ r.state # "closed" /\ q.state = "closed" /\ q.status = DEADLINE_EXCEEDED
        /\ q.told = r.told + nest /\ q.closes = r.closes + 1
        /\ q.closeStatus = DEADLINE_EXCEEDED
    BY <1>3 DEF TimedOut, Live
  <2>2. r.told = 0 /\ r.closes = 0
    BY <2>1 DEF CloseOK
  <2> QED
    BY <1>1, <2>1, <2>2 DEF CloseOK
<1> QED
  BY <1>2, <1>3

(* A message goes from the frames to the queue ... *)
LEMMA QueueOrder ==
    ASSUME NEW r \in StreamRec, NEW a, NEW fin, NEW tk \in Seq(Seq(Nat)),
           NEW pend \in Seq(Seq(Nat)), pend # << >>, OrderOK(r, a, fin, tk, pend),
           NEW q, q.state = r.state, q.status = r.status, q.read_buffer = r.read_buffer,
           q.response_queue = Append(r.response_queue, Head(pend))
    PROVE  OrderOK(q, a, fin, tk, Tail(pend))
<1>1. q.response_queue = Append(r.response_queue, Head(pend))
  OBVIOUS
<1>2. /\ r.response_queue \in Seq(Seq(Nat)) /\ Len(r.response_queue) \in Nat
      /\ Len(q.response_queue) = Len(r.response_queue) + 1
      /\ Len(tk) \in Nat /\ Len(pend) \in Nat /\ Len(pend) >= 1
      /\ Tail(pend) \in Seq(Seq(Nat)) /\ Len(Tail(pend)) = Len(pend) - 1
  BY <1>1 DEF StreamRec
<1> DEFINE lq == Len(r.response_queue)
           lq1 == Len(q.response_queue)
           lt == Len(tk)
<1>3. /\ Total(q, tk, Tail(pend)) = Total(r, tk, pend)
      /\ lq \in Nat /\ lt \in Nat /\ lq1 = lq + 1
  BY <1>2 DEF Total
<1>4. Numbered(q.response_queue, Len(tk))
  <2> SUFFICES ASSUME NEW n \in 1 .. Len(q.response_queue)
               PROVE  q.response_queue[n] = Frame(Len(tk) + n)
    BY DEF Numbered
  <2>1. CASE n <= Len(r.response_queue)
    BY <2>1, <1>1, <1>2 DEF OrderOK, Numbered
  <2>2. CASE n = Len(r.response_queue) + 1
    <3>1. q.response_queue[n] = pend[1]
      BY <2>2, <1>1, <1>2
    <3>2. pend[1] = Frame(Len(tk) + Len(r.response_queue) + 1)
      <4>1. 1 \in 1 .. Len(pend)
        BY <1>2
      <4> QED
        BY <4>1 DEF OrderOK, Numbered
    <3>3. Len(tk) + n = Len(tk) + Len(r.response_queue) + 1
      BY <2>2, <1>2
    <3> QED
      BY <3>1, <3>2, <3>3
  <2> QED
    BY <2>1, <2>2, <1>2
<1>5. Numbered(Tail(pend), Len(tk) + Len(q.response_queue))
  <2> SUFFICES ASSUME NEW n \in 1 .. Len(Tail(pend))
               PROVE  Tail(pend)[n] = Frame(Len(tk) + Len(q.response_queue) + n)
    BY DEF Numbered
  <2>1. Tail(pend)[n] = pend[n + 1] /\ n + 1 \in 1 .. Len(pend)
    BY <1>2
  <2>2. pend[n + 1] = Frame(Len(tk) + Len(r.response_queue) + (n + 1))
    BY <2>1 DEF OrderOK, Numbered
  <2>3. Len(tk) + Len(r.response_queue) + (n + 1) = Len(tk) + Len(q.response_queue) + n
    <3>1. n \in Int
      OBVIOUS
    <3> SUFFICES lt + lq + (n + 1) = lt + lq1 + n
      OBVIOUS
    <3> HIDE DEF lq, lq1, lt
    <3> QED
      BY <1>3, <3>1
  <2> QED
    BY <2>1, <2>2, <2>3
<1>6. ~fin /\ r.state # "none"
  <2>1. /\ fin => pend = << >>
        /\ r.state = "none" => pend = << >>
    BY DEF OrderOK
  <2> QED
    BY <2>1
<1> QED
  BY <1>1, <1>3, <1>4, <1>5, <1>6 DEF OrderOK, Live

(* ... and from the queue to the application. *)
LEMMA TakeOrder ==
    ASSUME NEW r \in StreamRec, NEW a, NEW fin, NEW tk \in Seq(Seq(Nat)),
           NEW pend \in Seq(Seq(Nat)), OrderOK(r, a, fin, tk, pend), r.state # "none",
           r.response_queue # << >>,
           NEW q, q.state = r.state, q.status = r.status, q.read_buffer = r.read_buffer,
           q.response_queue = Tail(r.response_queue)
    PROVE  OrderOK(q, a, fin, Append(tk, Head(r.response_queue)), pend)
<1> DEFINE queue == r.response_queue
           tk1 == Append(tk, Head(queue))
<1>1. q.response_queue = Tail(queue)
  OBVIOUS
<1>2. /\ queue \in Seq(Seq(Nat)) /\ Len(queue) \in Nat /\ Len(queue) >= 1
      /\ Len(q.response_queue) = Len(queue) - 1
      /\ Len(tk) \in Nat /\ Len(pend) \in Nat /\ Len(tk1) = Len(tk) + 1
  BY <1>1 DEF StreamRec
<1> DEFINE lq == Len(queue)
           lq1 == Len(q.response_queue)
           lt == Len(tk)
           lt1 == Len(tk1)
           lp == Len(pend)
<1>3. /\ lq \in Nat /\ lt \in Nat /\ lp \in Nat /\ lq1 = lq - 1 /\ lt1 = lt + 1
  BY <1>2
<1>4. Total(q, tk1, pend) = Total(r, tk, pend)
  <2> SUFFICES lt1 + lq1 + lp = lt + lq + lp
    BY DEF Total
  <2> HIDE DEF lq, lq1, lt, lt1, lp
  <2> QED
    BY <1>3
<1>5. Numbered(tk1, 0)
  <2> SUFFICES ASSUME NEW n \in 1 .. Len(tk1) PROVE tk1[n] = Frame(0 + n)
    BY DEF Numbered
  <2>1. CASE n <= Len(tk)
    BY <2>1, <1>2 DEF OrderOK, Numbered
  <2>2. CASE n = Len(tk) + 1
    <3>1. tk1[n] = queue[1]
      BY <2>2, <1>2
    <3>2. queue[1] = Frame(Len(tk) + 1)
      <4>1. 1 \in 1 .. Len(queue)
        BY <1>2
      <4> QED
        BY <4>1 DEF OrderOK, Numbered
    <3> QED
      BY <2>2, <3>1, <3>2
  <2> QED
    BY <2>1, <2>2, <1>2
<1>6. Numbered(q.response_queue, Len(tk1))
  <2> SUFFICES ASSUME NEW n \in 1 .. Len(q.response_queue)
               PROVE  q.response_queue[n] = Frame(Len(tk1) + n)
    BY DEF Numbered
  <2>1. q.response_queue[n] = queue[n + 1] /\ n + 1 \in 1 .. Len(queue)
    BY <1>1, <1>2
  <2>2. queue[n + 1] = Frame(Len(tk) + (n + 1))
    BY <2>1 DEF OrderOK, Numbered
  <2>3. Len(tk) + (n + 1) = Len(tk1) + n
    <3>1. n \in Int
      OBVIOUS
    <3> SUFFICES lt + (n + 1) = lt1 + n
      OBVIOUS
    <3> HIDE DEF lt, lt1
    <3> QED
      BY <1>3, <3>1
  <2> QED
    BY <2>1, <2>2, <2>3
<1>7. Numbered(pend, Len(tk1) + Len(q.response_queue))
  <2>1. lt1 + lq1 = lt + lq
    <3> HIDE DEF lq, lq1, lt, lt1
    <3> QED
      BY <1>3
  <2> QED
    BY <2>1 DEF OrderOK
<1> HIDE DEF tk1
<1>8. OrderOK(q, a, fin, tk1, pend)
  BY <1>1, <1>4, <1>5, <1>6, <1>7 DEF OrderOK, Live
<1> QED
  BY <1>8 DEF tk1

-----------------------------------------------------------------------------
(* Chunks and frames.  A buffer of the bytes that follow the first k * f    *)
(* is cut into whole frames and a rest.                                    *)

LEMMA Division ==
    ASSUME NEW a \in Nat
    PROVE  /\ a \div FrameLen \in Nat
           /\ (a \div FrameLen) * FrameLen \in Nat
           /\ (a \div FrameLen) * FrameLen <= a
           /\ a < (a \div FrameLen) * FrameLen + FrameLen
BY GrpcStreamAssumption

LEMMA DivisionUnique ==
    ASSUME NEW a \in Nat, NEW k \in Nat, k * FrameLen <= a, a < k * FrameLen + FrameLen
    PROVE  a \div FrameLen = k
BY GrpcStreamAssumption

(* k frames and c frames more. *)
LEMMA Distribute ==
    ASSUME NEW k \in Int, NEW c \in Int
    PROVE  /\ k * FrameLen \in Int /\ c * FrameLen \in Int
           /\ (k + c) * FrameLen = k * FrameLen + c * FrameLen
           /\ (k - 1) * FrameLen = k * FrameLen - FrameLen
BY GrpcStreamAssumption

LEMMA MoreFrames ==
    ASSUME NEW n \in Int, NEW c \in Int, n <= c
    PROVE  n * FrameLen <= c * FrameLen
<1>1. c - n \in Nat /\ n + (c - n) = c
  OBVIOUS
<1>2. (n + (c - n)) * FrameLen = n * FrameLen + (c - n) * FrameLen
  BY Distribute
<1>3. (c - n) * FrameLen \in Nat
  BY <1>1, GrpcStreamAssumption
<1>4. n * FrameLen \in Int /\ c * FrameLen = n * FrameLen + (c - n) * FrameLen
  BY <1>1, <1>2, GrpcStreamAssumption
<1> QED
  BY <1>3, <1>4

LEMMA FunctionIsSequence ==
    ASSUME NEW S, NEW n \in Nat, NEW f \in [1 .. n -> S]
    PROVE  f \in Seq(S) /\ Len(f) = n
OBVIOUS

(* Whatever is in the buffer, it is cut into frames and a rest. *)
LEMMA CutIsTyped ==
    ASSUME NEW buf \in Seq(Nat)
    PROVE  Frames(buf) \in Seq(Seq(Nat)) /\ Rest(buf) \in Seq(Nat)
<1> DEFINE c == Complete(buf)
           f == c * FrameLen
<1>1. c \in Nat /\ f \in Nat /\ f <= Len(buf) /\ Len(buf) \in Nat
  BY Division DEF Complete
<1>2. Rest(buf) = SubSeq(buf, f + 1, Len(buf))
  BY DEF Rest
<1>3. Frames(buf) = [n \in 1 .. c |-> SubSeq(buf, (n - 1) * FrameLen + 1, n * FrameLen)]
  BY DEF Frames
<1> HIDE DEF c
<1>4. ASSUME NEW n \in 1 .. c
      PROVE  SubSeq(buf, (n - 1) * FrameLen + 1, n * FrameLen) \in Seq(Nat)
  <2> DEFINE lo == (n - 1) * FrameLen
             hi == n * FrameLen
  <2>1. n \in Int /\ c \in Int /\ n <= c /\ n - 1 \in Nat
    BY <1>1
  <2>2. lo \in Nat /\ hi \in Nat /\ hi <= f
    BY <2>1, MoreFrames, GrpcStreamAssumption
  <2> HIDE DEF lo, hi, f
  <2>3. SubSeq(buf, lo + 1, hi) \in Seq(Nat)
    BY <1>1, <2>2
  <2> QED
    BY <2>3 DEF lo, hi
<1>5. Frames(buf) \in [1 .. c -> Seq(Nat)]
  BY <1>3, <1>4, Zenon
<1> HIDE DEF f
<1>6. Rest(buf) \in Seq(Nat)
  BY <1>1, <1>2
<1> QED
  BY <1>1, <1>5, <1>6, FunctionIsSequence

LEMMA CutIntoFrames ==
    ASSUME NEW buf \in Seq(Nat), NEW k \in Nat,
           \A i \in 1 .. Len(buf) : buf[i] = k * FrameLen + i
    PROVE  /\ Frames(buf) \in Seq(Seq(Nat))
           /\ Len(Frames(buf)) = Complete(buf)
           /\ Numbered(Frames(buf), k)
<1> USE GrpcStreamAssumption
<1> DEFINE c == Complete(buf)
<1>1. c \in Nat /\ c * FrameLen \in Nat /\ c * FrameLen <= Len(buf)
  BY Division DEF Complete
<1>2. ASSUME NEW n \in 1 .. c
      PROVE  /\ SubSeq(buf, (n - 1) * FrameLen + 1, n * FrameLen) \in Seq(Nat)
             /\ SubSeq(buf, (n - 1) * FrameLen + 1, n * FrameLen) = Frame(k + n)
  <2> DEFINE lo == (n - 1) * FrameLen
             hi == n * FrameLen
  <2>1. lo \in Nat /\ hi = lo + FrameLen /\ hi <= c * FrameLen
    <3>1. hi \in Int /\ lo = hi - FrameLen
      BY Distribute
    <3>2. lo >= 0
      BY <3>1
    <3>3. hi <= c * FrameLen
      <4> HIDE DEF c
      <4>1. n \in Int /\ c \in Int /\ n <= c
        BY <1>1
      <4> QED
        BY <4>1, MoreFrames
    <3> QED
      BY <3>1, <3>2, <3>3
  <2>2. (k + n - 1) * FrameLen = k * FrameLen + lo
    <3>1. k + (n - 1) = k + n - 1
      BY <1>1
    <3>2. (k + (n - 1)) * FrameLen = k * FrameLen + lo
      BY <1>1, Distribute
    <3> QED
      BY <3>1, <3>2
  <2> HIDE DEF lo, hi
  <2>3. lo + 1 \in Nat /\ hi \in Nat /\ hi <= Len(buf)
    BY <1>1, <2>1
  <2>4. /\ SubSeq(buf, lo + 1, hi) \in Seq(Nat)
        /\ SubSeq(buf, lo + 1, hi) = [i \in 1 .. FrameLen |-> buf[lo + i]]
    <3>1. SubSeq(buf, lo + 1, hi) = [i \in 1 .. (1 + hi - (lo + 1)) |-> buf[i + (lo + 1) - 1]]
      BY <2>3
    <3>2. 1 + hi - (lo + 1) = FrameLen
      BY <2>1
    <3>3. \A i \in 1 .. FrameLen : i + (lo + 1) - 1 = lo + i
      BY <2>1
    <3>4. SubSeq(buf, lo + 1, hi) = [i \in 1 .. FrameLen |-> buf[lo + i]]
      BY <3>1, <3>2, <3>3
    <3>5. \A i \in 1 .. FrameLen : buf[lo + i] \in Nat
      BY <2>1, <2>3
    <3>6. [i \in 1 .. FrameLen |-> buf[lo + i]] \in Seq(Nat)
      BY <3>5, FunctionIsSequence
    <3> QED
      BY <3>4, <3>6
  <2>5. \A i \in 1 .. FrameLen : buf[lo + i] = (k + n - 1) * FrameLen + i
    <3> SUFFICES ASSUME NEW i \in 1 .. FrameLen
                 PROVE  buf[lo + i] = (k + n - 1) * FrameLen + i
      OBVIOUS
    <3>1. lo + i \in 1 .. Len(buf)
      BY <2>1, <2>3
    <3>2. buf[lo + i] = k * FrameLen + (lo + i)
      BY <3>1
    <3>3. k * FrameLen \in Int
      BY Distribute
    <3> QED
      BY <3>2, <3>3, <2>1, <2>2
  <2>6. Frame(k + n) = [i \in 1 .. FrameLen |-> buf[lo + i]]
    BY <2>5 DEF Frame
  <2> QED
    BY <2>4, <2>6 DEF lo, hi
<1>3. Frames(buf) = [n \in 1 .. c |-> SubSeq(buf, (n - 1) * FrameLen + 1, n * FrameLen)]
  BY DEF Frames
<1> HIDE DEF c
<1>4. Frames(buf) \in Seq(Seq(Nat)) /\ Len(Frames(buf)) = c
  <2>1. Frames(buf) \in [1 .. c -> Seq(Nat)]
    BY <1>2, <1>3, Zenon
  <2> QED
    BY <1>1, <2>1, FunctionIsSequence
<1>5. Numbered(Frames(buf), k)
  BY <1>2, <1>3, <1>4 DEF Numbered
<1> QED
  BY <1>4, <1>5 DEF c

LEMMA RestOfBuffer ==
    ASSUME NEW buf \in Seq(Nat), NEW k \in Nat,
           \A i \in 1 .. Len(buf) : buf[i] = k * FrameLen + i
    PROVE  /\ Rest(buf) \in Seq(Nat)
           /\ Len(Rest(buf)) = Len(buf) - Complete(buf) * FrameLen
           /\ \A i \in 1 .. Len(Rest(buf)) : Rest(buf)[i] = (k + Complete(buf)) * FrameLen + i
<1> DEFINE c == Complete(buf)
           f == c * FrameLen
           len == Len(buf)
<1>1. c \in Nat /\ f \in Nat /\ f <= len /\ len \in Nat
  BY Division DEF Complete
<1>2. Rest(buf) = SubSeq(buf, f + 1, len)
  BY DEF Rest
<1> HIDE DEF c
<1>3. (k + c) * FrameLen = k * FrameLen + f /\ k * FrameLen \in Int
  BY <1>1, GrpcStreamAssumption
<1> HIDE DEF f
<1>4. /\ Rest(buf) \in Seq(Nat) /\ Len(Rest(buf)) = len - f
      /\ \A i \in 1 .. len - f : Rest(buf)[i] = buf[f + i]
  BY <1>1, <1>2
<1>5. \A i \in 1 .. len - f : buf[f + i] = (k + c) * FrameLen + i
  <2> SUFFICES ASSUME NEW i \in 1 .. len - f PROVE buf[f + i] = (k + c) * FrameLen + i
    OBVIOUS
  <2>1. f + i \in 1 .. len
    BY <1>1
  <2>2. buf[f + i] = k * FrameLen + (f + i)
    BY <2>1
  <2> QED
    BY <1>1, <1>3, <2>2
<1> QED
  BY <1>4, <1>5 DEF f, c

(* push_incoming_data on a stream that stays open: the frames to be handed  *)
(* over and the rest of the buffer account for the n bytes that came.      *)
LEMMA ChunkOrder ==
    ASSUME NEW r \in StreamRec, NEW a \in Nat, NEW n \in Nat, NEW tk \in Seq(Seq(Nat)),
           OrderOK(r, a, FALSE, tk, << >>), Live(r),
           NEW buf \in Seq(Nat), Len(buf) = a + n - (a \div FrameLen) * FrameLen,
           \A i \in 1 .. Len(buf) : buf[i] = (a \div FrameLen) * FrameLen + i,
           NEW q, q.state = r.state, q.status = r.status, q.read_buffer = Rest(buf),
           q.response_queue = r.response_queue
    PROVE  OrderOK(q, a + n, FALSE, tk, Frames(buf))
<1> USE GrpcStreamAssumption
<1> DEFINE k == a \div FrameLen
           kf == k * FrameLen
           c == Complete(buf)
           cf == c * FrameLen
           lb == Len(buf)
           lt == Len(tk)
           lq == Len(r.response_queue)
<1>1. /\ Numbered(tk, 0) /\ Numbered(r.response_queue, lt)
      /\ lt + lq + 0 = k
  BY DEF OrderOK, Total
<1>2. k \in Nat /\ kf \in Nat /\ kf <= a
  BY Division
<1>3. lt \in Nat /\ lq \in Nat /\ lb \in Nat /\ lb = a + n - kf
  BY DEF StreamRec
<1>4. c \in Nat /\ cf \in Nat /\ cf <= lb /\ lb < cf + FrameLen
  BY Division DEF Complete
<1>5. /\ Frames(buf) \in Seq(Seq(Nat)) /\ Len(Frames(buf)) = c /\ Numbered(Frames(buf), k)
  BY <1>2, CutIntoFrames
<1>6. /\ Rest(buf) \in Seq(Nat) /\ Len(Rest(buf)) = lb - cf
      /\ \A i \in 1 .. Len(Rest(buf)) : Rest(buf)[i] = (k + c) * FrameLen + i
  BY <1>2, RestOfBuffer
<1> HIDE DEF c, k
<1>7. (k + c) * FrameLen = kf + cf
  BY <1>2, <1>4
<1> HIDE DEF kf, cf, lb, lt, lq
<1>8. (a + n) \div FrameLen = k + c
  <2>1. /\ (k + c) * FrameLen <= a + n
        /\ a + n < (k + c) * FrameLen + FrameLen
    BY <1>2, <1>3, <1>4, <1>7
  <2> DEFINE b == a + n
             m == k + c
  <2>2. b \in Nat /\ m \in Nat
    BY <1>2, <1>4
  <2> HIDE DEF b, m
  <2>3. m * FrameLen <= b /\ b < m * FrameLen + FrameLen
    BY <2>1 DEF b, m
  <2>4. b \div FrameLen = m
    BY <2>2, <2>3, DivisionUnique
  <2> QED
    BY <2>4 DEF b, m
<1>9. lt + lq = k /\ lt + lq + c = k + c
  BY <1>1, <1>2, <1>3, <1>4
<1>10. Total(q, tk, Frames(buf)) = k + c
  BY <1>5, <1>9 DEF Total, lt, lq
<1>11. lb - cf = a + n - (k + c) * FrameLen
  BY <1>2, <1>3, <1>4, <1>7
<1>12. q.state # "none" /\ q.state # "closed" /\ Live(q)
  BY DEF Live
<1>13. Total(q, tk, Frames(buf)) <= (a + n) \div FrameLen
  BY <1>2, <1>4, <1>8, <1>10
<1>14. Numbered(Frames(buf), Len(tk) + Len(q.response_queue))
  BY <1>5, <1>9 DEF lt, lq
<1>15. /\ Len(q.read_buffer) = a + n - ((a + n) \div FrameLen) * FrameLen
       /\ \A i \in 1 .. Len(q.read_buffer) :
             q.read_buffer[i] = ((a + n) \div FrameLen) * FrameLen + i
  BY <1>6, <1>8, <1>11
<1> QED
  BY <1>1, <1>8, <1>10, <1>12, <1>13, <1>14, <1>15 DEF OrderOK, lt

-----------------------------------------------------------------------------
(* The other operations on one stream. *)

(* on_done: the trailers and the close of a stream whose frames have all     *)
(* been handed over.                                                        *)
LEMMA DoneStream ==
    ASSUME Typed, NEW r \in StreamRec, NEW a \in Nat, NEW tk \in Seq(Seq(Nat)),
           CloseOK(r), r.state # "none",
           NEW status \in Nat, status # DEADLINE_EXCEEDED,
           NEW drains \in {FALSE, reentrant}, NEW nest \in Nests
    PROVE  LET q == handle_close(handle_trailers(r, status, drains, nest)) IN
           /\ q \in StreamRec
           /\ OrderOK(r, a, FALSE, tk, << >>) => OrderOK(q, a, TRUE, tk, << >>)
           /\ CloseOK(q)
<1> DEFINE t == handle_trailers(r, status, drains, nest)
           q == handle_close(t)
<1>0. nest \in Nat /\ nest >= 1 /\ (~reentrant => nest = 1)
  BY GrpcStreamAssumption DEF Nests
<1>1. CASE r.state = "closed"
  <2>1. q = r
    BY <1>1 DEF handle_close, handle_trailers
  <2>2. OrderOK(r, a, FALSE, tk, << >>) => OrderOK(r, a, TRUE, tk, << >>)
    BY <1>1 DEF OrderOK
  <2> QED
    BY <2>1, <2>2
<1>2. CASE r.state # "closed"
  <2> DEFINE u == [r EXCEPT !.status = status, !.told = @ + 1]
  <2>1. t = IF drains THEN check_deadline(u, nest) ELSE u
    BY <1>2 DEF handle_trailers
  <2>2. u \in StreamRec
    <3>1. r.told + 1 \in Nat
      BY DEF StreamRec
    <3> QED
      BY <3>1, Zenon DEF StreamRec
  <2>3. /\ u.state = r.state /\ u.status = status
        /\ u.response_queue = r.response_queue
        /\ u.told = r.told + 1 /\ u.closes = r.closes
    BY DEF StreamRec
  <2>4. r.told = 0 /\ r.closes = 0
    BY <1>2 DEF CloseOK
  <2> HIDE DEF u
  <2>5. \/ t = u
        \/ /\ reentrant /\ t.state = "closed" /\ t.status = DEADLINE_EXCEEDED
           /\ t.response_queue = u.response_queue
           /\ t.told = u.told + nest /\ t.closes = u.closes + 1
           /\ t.closeStatus = DEADLINE_EXCEEDED
    <3>1. CASE drains
      <4>1. reentrant /\ t = check_deadline(u, nest)
        BY <2>1, <3>1
      <4>2. TimedOut(u, t, nest)
        BY <1>0, <2>2, <4>1, CheckDeadline
      <4> HIDE DEF t
      <4> QED
        BY <4>1, <4>2 DEF TimedOut
    <3>2. CASE ~drains
      BY <2>1, <3>2
    <3> QED
      BY <3>1, <3>2
  <2>6. t \in StreamRec
    BY <1>0, <2>1, <2>2, CheckDeadline
  <2> HIDE DEF t
  <2>7. /\ q \in StreamRec /\ q.state = "closed"
        /\ q.response_queue = r.response_queue
        /\ q.told \in Nat /\ q.told >= 1 /\ (~reentrant => q.told <= 1)
        /\ q.closes = 1 /\ q.closeStatus = q.status
    <3>1. CASE t = u
      <4>1. t.state # "closed"
        BY <1>2, <2>3, <3>1
      <4>2. /\ q \in StreamRec /\ q.state = "closed"
            /\ q.response_queue = t.response_queue
            /\ q.told = t.told /\ q.closes = t.closes + 1
            /\ q.closeStatus = t.status /\ q.status = t.status
        BY <4>1, <2>6, HandleClose
      <4> HIDE DEF q
      <4> QED
        BY <2>3, <2>4, <3>1, <4>2
    <3>2. CASE t # u
      <4>1. q = t
        BY <2>5, <3>2 DEF handle_close
      <4> HIDE DEF q
      <4> QED
        BY <1>0, <2>3, <2>4, <2>5, <2>6, <3>2, <4>1
    <3> QED
      BY <3>1, <3>2
  <2> HIDE DEF q
  <2>8. Live(r) /\ ~Live(q)
    BY <1>2, <2>7 DEF Live
  <2>9. OrderOK(r, a, FALSE, tk, << >>) => OrderOK(q, a, TRUE, tk, << >>)
    BY <2>7, <2>8 DEF OrderOK, Total
  <2>10. CloseOK(q)
    BY <2>7 DEF CloseOK
  <2> QED
    BY <2>7, <2>9, <2>10 DEF q, t
<1> QED
  BY <1>1, <1>2

(* create_stream. *)
LEMMA CreatedStream ==
    ASSUME NEW a, NEW fin, NEW tk, NEW pend,
           NEW deadline \in Nat \cup {None}
    PROVE  LET q == [NoStream EXCEPT !.state = "open", !.deadline = deadline] IN
           /\ q \in StreamRec
           /\ OrderOK(NoStream, a, fin, tk, pend) => OrderOK(q, a, fin, tk, pend)
           /\ CloseOK(q)
<1> DEFINE q == [NoStream EXCEPT !.state = "open", !.deadline = deadline]
<1>1. /\ q.state = "open" /\ q.read_buffer = << >> /\ q.response_queue = << >>
      /\ q.told = 0 /\ q.closes = 0
  BY DEF NoStream
<1>2. q \in StreamRec
  <2>1. NoStream \in StreamRec
    <3>1. 0 \in Nat /\ << >> \in Seq(Nat) /\ << >> \in Seq(Seq(Nat))
      OBVIOUS
    <3> QED
      BY <3>1, Zenon DEF NoStream, StreamRec
  <2> QED
    BY <2>1, Zenon DEF StreamRec
<1> HIDE DEF q
<1>3. OrderOK(NoStream, a, fin, tk, pend) => a = 0 /\ tk = << >> /\ pend = << >> /\ ~fin
  BY DEF OrderOK, NoStream
<1>4. 0 \div FrameLen = 0 /\ 0 * FrameLen = 0
  BY GrpcStreamAssumption
<1>5. OrderOK(NoStream, a, fin, tk, pend) => OrderOK(q, a, fin, tk, pend)
  BY <1>1, <1>3, <1>4 DEF OrderOK, Numbered, Total, Live
<1>6. CloseOK(q)
  BY <1>1 DEF CloseOK
<1> QED
  BY <1>2, <1>5, <1>6 DEF q

(* write_message may half close the stream. *)
LEMMA HalfClosedStream ==
    ASSUME NEW r \in StreamRec, NEW a, NEW fin, NEW tk, NEW pend,
           CloseOK(r), r.state # "none", r.state # "closed"
    PROVE  LET q == [r EXCEPT !.state = "half_closed_local"] IN
           /\ q \in StreamRec
           /\ OrderOK(r, a, fin, tk, pend) => OrderOK(q, a, fin, tk, pend)
           /\ CloseOK(q)
           /\ Live(q)
<1> DEFINE q == [r EXCEPT !.state = "half_closed_local"]
<1>1. /\ q.state = "half_closed_local" /\ q.read_buffer = r.read_buffer
      /\ q.response_queue = r.response_queue /\ q.told = r.told /\ q.closes = r.closes
      /\ q \in StreamRec
  BY DEF StreamRec
<1> HIDE DEF q
<1>2. Live(r) /\ Live(q)
  BY <1>1 DEF Live
<1>3. OrderOK(r, a, fin, tk, pend) => OrderOK(q, a, fin, tk, pend)
  BY <1>1, <1>2 DEF OrderOK, Total
<1>4. CloseOK(q)
  BY <1>1 DEF CloseOK
<1> QED
  BY <1>1, <1>2, <1>3, <1>4 DEF q

(* recv_message, what it does to a stream and to what was taken from it. *)
LEMMA ReceivedStream ==
    ASSUME Typed, NEW r \in StreamRec, NEW a, NEW fin, NEW tk \in Seq(Seq(Nat)),
           NEW pend \in Seq(Seq(Nat)), CloseOK(r), r.state # "none", NEW nest \in Nests
    PROVE  LET queue == r.response_queue
               tk1 == tk \o SubSeq(queue, 1, IF queue = << >> THEN 0 ELSE 1)
               q == [check_deadline(r, nest) EXCEPT
                        !.response_queue = SubSeq(queue, 2, Len(queue))]
           IN  /\ q \in StreamRec
               /\ tk1 \in Seq(Seq(Nat))
               /\ OrderOK(r, a, fin, tk, pend) => OrderOK(q, a, fin, tk1, pend)
               /\ CloseOK(q)
               /\ Len(q.response_queue) <= Len(queue)
<1> DEFINE queue == r.response_queue
           tk1 == tk \o SubSeq(queue, 1, IF queue = << >> THEN 0 ELSE 1)
           rest == SubSeq(queue, 2, Len(queue))
           u == check_deadline(r, nest)
           q == [u EXCEPT !.response_queue = rest]
<1>0. nest \in Nat
  BY GrpcStreamAssumption DEF Nests
<1>1. u \in StreamRec /\ TimedOut(r, u, nest)
  BY <1>0, CheckDeadline
<1> HIDE DEF u
<1>2. /\ OrderOK(r, a, fin, tk, pend) => OrderOK(u, a, fin, tk, pend)
      /\ CloseOK(u) /\ u.response_queue = queue /\ u.state # "none"
  BY <1>1, TimedOutOrder, TimedOutTells DEF TimedOut
<1>3. queue \in Seq(Seq(Nat))
  BY DEF StreamRec
<1>4. CASE queue = << >>
  <2>1. SubSeq(queue, 1, 0) = << >> /\ rest = << >>
    BY <1>4
  <2>2. tk1 = tk
    BY <1>4, <2>1
  <2>3. q = u
    BY <1>1, <1>2, <1>4, <2>1 DEF StreamRec
  <2>4. Len(q.response_queue) <= Len(queue)
    BY <1>2, <1>3, <2>3
  <2>5. /\ OrderOK(r, a, fin, tk, pend) => OrderOK(q, a, fin, tk1, pend)
        /\ q \in StreamRec /\ CloseOK(q) /\ tk1 \in Seq(Seq(Nat))
    BY <1>1, <1>2, <2>2, <2>3
  <2> QED
    BY <2>4, <2>5 DEF u
<1>5. CASE queue # << >>
  <2> HIDE DEF queue
  <2>1. rest = Tail(queue) /\ rest \in Seq(Seq(Nat)) /\ Len(rest) <= Len(queue)
    <3>4. rest = Tail(queue)
      BY <1>3, <1>5, TailIsSubSeq
    <3>5. Tail(queue) \in Seq(Seq(Nat)) /\ Len(Tail(queue)) <= Len(queue)
      BY <1>3, <1>5
    <3> QED
      BY <3>4, <3>5
  <2>2. SubSeq(queue, 1, 1) = << Head(queue) >>
    <3> DEFINE one == SubSeq(queue, 1, 1)
    <3>1. Len(queue) \in Nat /\ Len(queue) >= 1
      BY <1>3, <1>5
    <3>2. one \in Seq(Seq(Nat)) /\ Len(one) = 1 /\ one[1] = queue[1]
      BY <1>3, <3>1
    <3>3. Head(queue) = queue[1] /\ queue[1] \in Seq(Nat)
      BY <1>3, <1>5, <3>1
    <3> HIDE DEF one
    <3>4. one = << queue[1] >>
      BY <3>2, <3>3
    <3> QED
      BY <3>3, <3>4 DEF one
  <2>3. tk1 = Append(tk, Head(queue)) /\ tk1 \in Seq(Seq(Nat))
    BY <1>3, <1>5, <2>2
  <2> HIDE DEF rest, tk1
  <2>4. /\ q.state = u.state /\ q.status = u.status /\ q.read_buffer = u.read_buffer
        /\ q.response_queue = rest /\ q.told = u.told /\ q.closes = u.closes
        /\ q.closeStatus = u.closeStatus
    BY <1>1 DEF StreamRec
  <2>5. q \in StreamRec
    BY <1>1, <2>1, Zenon DEF StreamRec
  <2> HIDE DEF q
  <2>6. OrderOK(r, a, fin, tk, pend) => OrderOK(q, a, fin, tk1, pend)
    <3> SUFFICES ASSUME OrderOK(r, a, fin, tk, pend) PROVE OrderOK(q, a, fin, tk1, pend)
      OBVIOUS
    <3>1. u.response_queue # << >> /\ q.response_queue = Tail(u.response_queue)
      BY <1>2, <1>5, <2>1, <2>4 DEF queue
    <3>2. OrderOK(q, a, fin, Append(tk, Head(u.response_queue)), pend)
      BY <1>1, <1>2, <2>4, <3>1, TakeOrder
    <3> QED
      BY <1>2, <2>3, <3>2
  <2>7. CloseOK(q)
    BY <1>2, <2>4 DEF CloseOK
  <2> QED
    BY <2>1, <2>3, <2>4, <2>5, <2>6, <2>7 DEF q, tk1, rest, queue, u
<1> QED
  BY <1>4, <1>5

-----------------------------------------------------------------------------
(* Every action preserves the invariant. *)

LEMMA NestIsNat ==
    ASSUME NEW nest \in Nests
    PROVE  nest \in Nat
BY GrpcStreamAssumption DEF Nests

(* While no frames are left, none are left for any stream. *)
LEMMA NothingPending ==
    ASSUME Typed
    PROVE  \A s \in Streams : Pending(s) \in Seq(Seq(Nat)) /\ (frames = << >> => Pending(s) = << >>)
BY DEF Typed, Pending

LEMMA OneStreamChanges ==
    ASSUME StreamsOK, reentrant' = reentrant, torn' = torn, NEW s \in Streams,
           \A t \in Streams \ {s} :
               /\ stream'[t] = stream[t] /\ arrived'[t] = arrived[t]
               /\ finished'[t] = finished[t] /\ taken'[t] = taken[t]
               /\ Pending(t)' = Pending(t),
           ~torn => OrderOK(stream'[s], arrived'[s], finished'[s], taken'[s], Pending(s)'),
           CloseOK(stream'[s])
    PROVE  StreamsOK'
<1> SUFFICES ASSUME NEW t \in Streams
             PROVE  /\ ~torn => OrderOK(stream'[t], arrived'[t], finished'[t], taken'[t], Pending(t)')
                    /\ CloseOK(stream[t])'
  BY DEF StreamsOK
<1>1. CloseOK(stream'[t]) = CloseOK(stream[t])'
  BY DEF CloseOK
<1>2. CASE t = s
  BY <1>1, <1>2
<1>3. CASE t # s
  BY <1>1, <1>3 DEF StreamsOK
<1> QED
  BY <1>2, <1>3

LEMMA CheckDeadlinesStep ==
    ASSUME StreamIInv, NEW nest \in Nests, stream' = CheckDeadlines(nest),
           reentrant' = reentrant, torn' = torn, arrived' = arrived, finished' = finished, taken' = taken,
           \A s \in Streams : Pending(s)' = Pending(s)
    PROVE  /\ stream' \in [Streams -> StreamRec]
           /\ StreamsOK'
           /\ \A s \in Streams : ~Live(stream[s]) => stream'[s] = stream[s]
<1> USE DEF StreamIInv
<1>1. ASSUME NEW s \in Streams
      PROVE  /\ stream[s] \in StreamRec /\ stream'[s] = check_deadline(stream[s], nest)
             /\ stream'[s] \in StreamRec /\ TimedOut(stream[s], stream'[s], nest)
  <2>1. stream[s] \in StreamRec
    BY DEF Typed
  <2>2. stream'[s] = check_deadline(stream[s], nest)
    BY DEF CheckDeadlines
  <2> QED
    BY <2>1, <2>2, NestIsNat, CheckDeadline
<1>2. stream' \in [Streams -> StreamRec]
  <2>1. stream' = [s \in Streams |-> check_deadline(stream[s], nest)]
    BY DEF CheckDeadlines
  <2>2. \A s \in Streams : check_deadline(stream[s], nest) \in StreamRec
    BY <1>1
  <2> QED
    BY <2>1, <2>2, Zenon
<1>3. StreamsOK'
  <2> SUFFICES ASSUME NEW s \in Streams
               PROVE  /\ ~torn => OrderOK(stream'[s], arrived'[s], finished'[s], taken'[s], Pending(s)')
                      /\ CloseOK(stream[s])'
    BY DEF StreamsOK
  <2>1. /\ ~torn => OrderOK(stream[s], arrived[s], finished[s], taken[s], Pending(s))
        /\ CloseOK(stream[s])
    BY DEF StreamsOK
  <2>2. ~torn => OrderOK(stream'[s], arrived'[s], finished'[s], taken'[s], Pending(s)')
    BY <1>1, <2>1, TimedOutOrder
  <2>3. CloseOK(stream'[s])
    BY <1>1, <2>1, TimedOutTells
  <2> QED
    BY <2>2, <2>3 DEF CloseOK
<1>4. \A s \in Streams : ~Live(stream[s]) => stream'[s] = stream[s]
  BY <1>1 DEF TimedOut
<1> QED
  BY <1>2, <1>3, <1>4

(* User code that runs while frames are left is reentrant. *)
LEMMA UserFeeding ==
    ASSUME StreamIInv, UserRuns
    PROVE  ~reentrant => frames = << >>
BY DEF UserRuns, StreamIInv, FeedingOK

LEMMA CreateStep ==
    ASSUME StreamIInv, NEW s \in Streams, NEW timeout \in Timeouts, create_stream(s, timeout)
    PROVE  StreamIInv'
<1> USE DEF StreamIInv
<1> DEFINE deadline == IF timeout = None THEN None ELSE now + timeout
           q == [NoStream EXCEPT !.state = "open", !.deadline = deadline]
<1>1. deadline \in Nat \cup {None}
  BY GrpcStreamAssumption DEF Typed
<1>2. /\ stream[s].state = "none"
      /\ stream' = [stream EXCEPT ![s] = q]
      /\ UNCHANGED <<now, reentrant, frames, feeding, inCallback, arrived, finished, taken, torn>>
  BY DEF create_stream
<1>3. /\ ~torn => OrderOK(stream[s], arrived[s], finished[s], taken[s], Pending(s))
      /\ CloseOK(stream[s])
  BY DEF StreamsOK
<1>4. ~torn => stream[s] = NoStream
  BY <1>2, <1>3 DEF OrderOK
<1> HIDE DEF deadline
<1>5. /\ q \in StreamRec /\ CloseOK(q)
      /\ ~torn => OrderOK(q, arrived[s], finished[s], taken[s], Pending(s))
  BY <1>1, <1>3, <1>4, CreatedStream
<1> HIDE DEF q
<1>6. Typed'
  BY <1>2, <1>5 DEF Typed
<1>7. \A t \in Streams : Pending(t)' = Pending(t)
  BY <1>2 DEF Pending
<1>8. StreamsOK'
  <2>1. stream'[s] = q /\ \A t \in Streams \ {s} : stream'[t] = stream[t]
    BY <1>2 DEF Typed
  <2> QED
    BY <1>2, <1>5, <1>7, <2>1, OneStreamChanges
<1>9. FeedingOK'
  BY <1>2, UserFeeding DEF FeedingOK, create_stream
<1> QED
  BY <1>6, <1>8, <1>9

LEMMA RecvStep ==
    ASSUME StreamIInv, NEW s \in Streams, recv_message(s)
    PROVE  /\ StreamIInv'
           /\ Len(stream'[s].response_queue) <= Len(stream[s].response_queue)
           /\ \A t \in Streams \ {s} : stream'[t] = stream[t]
<1> USE DEF StreamIInv
<1> DEFINE r == stream[s]
           queue == r.response_queue
           tk1 == taken[s] \o SubSeq(queue, 1, IF queue = << >> THEN 0 ELSE 1)
<1>1. PICK nest \in Nests :
        stream' = [stream EXCEPT ![s] = [check_deadline(r, nest) EXCEPT
                      !.response_queue = SubSeq(queue, 2, Len(queue))]]
  BY DEF recv_message, Typed
<1> DEFINE q == [check_deadline(r, nest) EXCEPT
                    !.response_queue = SubSeq(queue, 2, Len(queue))]
<1>2. /\ r.state # "none"
      /\ stream' = [stream EXCEPT ![s] = q]
      /\ taken' = [taken EXCEPT ![s] = tk1]
      /\ UNCHANGED <<now, reentrant, frames, feeding, inCallback, arrived, finished, torn>>
  BY <1>1 DEF recv_message, Typed
<1>3. /\ ~torn => OrderOK(r, arrived[s], finished[s], taken[s], Pending(s))
      /\ CloseOK(r)
  BY DEF StreamsOK
<1>4. r \in StreamRec /\ taken[s] \in Seq(Seq(Nat)) /\ Pending(s) \in Seq(Seq(Nat))
  BY NothingPending DEF Typed
<1>5. /\ q \in StreamRec /\ tk1 \in Seq(Seq(Nat))
      /\ ~torn => OrderOK(q, arrived[s], finished[s], tk1, Pending(s))
      /\ CloseOK(q)
      /\ Len(q.response_queue) <= Len(queue)
  BY <1>2, <1>3, <1>4, ReceivedStream
<1> HIDE DEF q, tk1
<1>6. Typed'
  BY <1>2, <1>5 DEF Typed
<1>7. \A t \in Streams : Pending(t)' = Pending(t)
  BY <1>2 DEF Pending
<1>8. /\ stream'[s] = q /\ taken'[s] = tk1
      /\ \A t \in Streams \ {s} : stream'[t] = stream[t] /\ taken'[t] = taken[t]
  BY <1>2 DEF Typed
<1>9. StreamsOK'
  BY <1>2, <1>5, <1>7, <1>8, OneStreamChanges
<1>10. FeedingOK'
  BY <1>2, UserFeeding DEF FeedingOK, recv_message
<1> QED
  BY <1>5, <1>6, <1>8, <1>9, <1>10

LEMMA WriteStep ==
    ASSUME StreamIInv, NEW s \in Streams, NEW end_stream \in BOOLEAN,
           write_message(s, end_stream)
    PROVE  StreamIInv'
<1> USE DEF StreamIInv
<1>1. PICK nest \in Nests :
        LET r == check_deadline(stream[s], nest) IN
        stream' = [stream EXCEPT ![s] =
            IF end_stream /\ r.state # "closed"
            THEN [r EXCEPT !.state = "half_closed_local"] ELSE r]
  BY DEF write_message
<1> DEFINE r == check_deadline(stream[s], nest)
           q == IF end_stream /\ r.state # "closed"
                THEN [r EXCEPT !.state = "half_closed_local"] ELSE r
<1>2. /\ Live(stream[s])
      /\ stream' = [stream EXCEPT ![s] = q]
      /\ UNCHANGED <<now, reentrant, frames, feeding, inCallback, arrived, finished, taken, torn>>
  BY <1>1 DEF write_message
<1>3. /\ ~torn => OrderOK(stream[s], arrived[s], finished[s], taken[s], Pending(s))
      /\ CloseOK(stream[s]) /\ stream[s] \in StreamRec
  BY DEF StreamsOK, Typed
<1>4. r \in StreamRec /\ TimedOut(stream[s], r, nest)
  BY <1>3, NestIsNat, CheckDeadline
<1> HIDE DEF r
<1>5. /\ ~torn => OrderOK(r, arrived[s], finished[s], taken[s], Pending(s))
      /\ CloseOK(r)
  BY <1>3, <1>4, TimedOutOrder, TimedOutTells
<1>6. r.state # "none"
  BY <1>2, <1>4 DEF TimedOut, Live
<1>7. /\ q \in StreamRec /\ CloseOK(q)
      /\ ~torn => OrderOK(q, arrived[s], finished[s], taken[s], Pending(s))
  BY <1>4, <1>5, <1>6, HalfClosedStream
<1> HIDE DEF q
<1>8. Typed'
  BY <1>2, <1>7 DEF Typed
<1>9. \A t \in Streams : Pending(t)' = Pending(t)
  BY <1>2 DEF Pending
<1>10. StreamsOK'
  <2>1. stream'[s] = q /\ \A t \in Streams \ {s} : stream'[t] = stream[t]
    BY <1>2 DEF Typed
  <2> QED
    BY <1>2, <1>7, <1>9, <2>1, OneStreamChanges
<1>11. FeedingOK'
  BY <1>2, UserFeeding DEF FeedingOK, write_message
<1> QED
  BY <1>8, <1>10, <1>11

LEMMA FeedDataStep ==
    ASSUME StreamIInv, NEW s \in Streams, NEW n \in Byte, FeedData(s, n)
    PROVE  /\ StreamIInv'
           /\ stream[s].state = "closed" => stream'[s] = stream[s]
           /\ \A t \in Streams \ {s} : stream'[t] = stream[t]
<1> USE DEF StreamIInv
<1>1. PICK nest \in Nests :
        LET r == check_deadline(stream[s], nest)
            buf == r.read_buffer \o [i \in 1 .. n |-> arrived[s] + i]
        IN  IF r.state = "closed"
            THEN /\ stream' = [stream EXCEPT ![s] = r]
                 /\ UNCHANGED frames
            ELSE /\ stream' = [stream EXCEPT ![s] = [r EXCEPT !.read_buffer = Rest(buf)]]
                 /\ frames' = Frames(buf)
  BY DEF FeedData
<1> DEFINE r == check_deadline(stream[s], nest)
           a == arrived[s]
           buf == r.read_buffer \o [i \in 1 .. n |-> a + i]
           q == [r EXCEPT !.read_buffer = Rest(buf)]
<1>2. /\ IF r.state = "closed"
         THEN stream' = [stream EXCEPT ![s] = r] /\ UNCHANGED frames
         ELSE stream' = [stream EXCEPT ![s] = q] /\ frames' = Frames(buf)
      /\ frames = << >> /\ stream[s].state # "none" /\ ~finished[s]
      /\ feeding' = s /\ arrived' = [arrived EXCEPT ![s] = a + n]
      /\ UNCHANGED <<now, reentrant, finished, taken, torn>>
  BY <1>1 DEF FeedData, Typed
<1>3. n \in Nat /\ a \in Nat /\ a + n \in Nat
  BY GrpcStreamAssumption DEF Byte, Typed
<1>4. /\ ~torn => OrderOK(stream[s], a, finished[s], taken[s], << >>)
      /\ CloseOK(stream[s]) /\ stream[s] \in StreamRec /\ taken[s] \in Seq(Seq(Nat))
  BY <1>2, NothingPending DEF StreamsOK, Typed
<1>5. r \in StreamRec /\ TimedOut(stream[s], r, nest)
  BY <1>4, NestIsNat, CheckDeadline
<1> HIDE DEF r
<1>6. /\ ~torn => OrderOK(r, a, finished[s], taken[s], << >>)
      /\ CloseOK(r) /\ r.state # "none"
  <2>1. ~torn => OrderOK(r, a, finished[s], taken[s], << >>)
    BY <1>4, <1>5, TimedOutOrder
  <2>2. CloseOK(r)
    BY <1>4, <1>5, TimedOutTells
  <2>3. r.state # "none"
    BY <1>2, <1>5 DEF TimedOut
  <2> QED
    BY <2>1, <2>2, <2>3
<1>7. /\ arrived' \in [Streams -> Nat] /\ arrived'[s] = a + n
      /\ \A t \in Streams \ {s} : arrived'[t] = arrived[t]
  BY <1>2, <1>3 DEF Typed
<1>8. \A t \in Streams \ {s} : Pending(t)' = << >> /\ Pending(t) = << >>
  BY <1>2 DEF Pending
<1>9. Pending(s)' = frames'
  BY <1>2 DEF Pending
<1>10. CASE r.state = "closed"
  <2>1. stream' = [stream EXCEPT ![s] = r] /\ frames' = << >>
    BY <1>2, <1>10
  <2>2. /\ stream'[s] = r /\ stream' \in [Streams -> StreamRec]
        /\ \A t \in Streams \ {s} : stream'[t] = stream[t]
    BY <1>5, <2>1 DEF Typed
  <2>3. Typed'
    BY <1>2, <1>7, <2>1, <2>2 DEF Typed
  <2>4. ~torn => OrderOK(r, a + n, finished[s], taken[s], << >>)
    <3> SUFFICES ASSUME ~torn PROVE OrderOK(r, a + n, finished[s], taken[s], << >>)
      OBVIOUS
    <3> DEFINE k == a \div FrameLen
               m == (a + n) \div FrameLen
    <3>1. r.status = DEADLINE_EXCEEDED
      BY <1>2, <1>6, <1>10 DEF OrderOK
    <3>2. ~Live(r)
      BY <1>10 DEF Live
    <3>3. k <= m /\ k \in Nat /\ m \in Nat
      BY <1>3, GrpcStreamAssumption
    <3>4. Total(r, taken[s], << >>) \in Nat
      BY <1>4, <1>5 DEF Total, StreamRec
    <3>5. Total(r, taken[s], << >>) <= k
      BY <1>6 DEF OrderOK
    <3> HIDE DEF k, m
    <3>6. Total(r, taken[s], << >>) <= m
      BY <3>3, <3>4, <3>5
    <3> QED
      BY <1>6, <1>10, <3>1, <3>2, <3>6 DEF OrderOK, m
  <2>5. StreamsOK'
    BY <1>2, <1>6, <1>7, <1>8, <1>9, <2>1, <2>2, <2>4, OneStreamChanges
  <2>6. FeedingOK'
    BY <2>1 DEF FeedingOK
  <2>7. stream[s].state = "closed" => stream'[s] = stream[s]
    BY <1>5, <2>2 DEF TimedOut, Live
  <2> QED
    BY <2>2, <2>3, <2>5, <2>6, <2>7
<1>11. CASE r.state # "closed"
  <2> DEFINE kf == (a \div FrameLen) * FrameLen
  <2>1. Live(r) /\ r.read_buffer \in Seq(Nat)
    BY <1>5, <1>6, <1>11 DEF Live, StreamRec
  <2>2. kf \in Nat /\ kf <= a
    BY <1>3, Division
  <2>3. ~torn => /\ Len(r.read_buffer) = a - kf
                 /\ \A i \in 1 .. Len(r.read_buffer) : r.read_buffer[i] = kf + i
    BY <1>6, <2>1 DEF OrderOK
  <2> HIDE DEF kf
  <2>20. buf \in Seq(Nat)
    <3>1. [i \in 1 .. n |-> a + i] \in Seq(Nat)
      BY <1>3, FunctionIsSequence
    <3> HIDE DEF a
    <3> QED
      BY <2>1, <3>1
  <2>4. ~torn => /\ Len(buf) = a + n - kf
                 /\ \A i \in 1 .. Len(buf) : buf[i] = kf + i
    <3> SUFFICES ASSUME ~torn
                 PROVE  Len(buf) = a + n - kf /\ \A i \in 1 .. Len(buf) : buf[i] = kf + i
      OBVIOUS
    <3> DEFINE old == r.read_buffer
               new == [i \in 1 .. n |-> a + i]
    <3>1. /\ old \in Seq(Nat) /\ Len(old) = a - kf
          /\ \A i \in 1 .. Len(old) : old[i] = kf + i
      BY <2>1, <2>3
    <3>2. new \in Seq(Nat) /\ Len(new) = n /\ \A j \in 1 .. n : new[j] = a + j
      BY <1>3, FunctionIsSequence
    <3>3. buf = old \o new
      OBVIOUS
    <3> HIDE DEF old, new, a, buf
    <3>4. /\ old \o new \in Seq(Nat) /\ Len(old \o new) = a + n - kf
          /\ \A i \in 1 .. Len(old \o new) : (old \o new)[i] = kf + i
      <4>1. /\ old \o new \in Seq(Nat) /\ Len(old \o new) = Len(old) + Len(new)
            /\ Len(old) \in Nat /\ Len(new) \in Nat
        BY <3>1, <3>2
      <4>2. Len(old) + Len(new) = a + n - kf
        BY <1>3, <2>2, <3>1, <3>2
      <4>3. ASSUME NEW i \in 1 .. Len(old \o new) PROVE (old \o new)[i] = kf + i
        <5>1. i \in Nat /\ 1 <= i /\ i <= Len(old) + Len(new)
          BY <4>1
        <5>2. CASE i <= Len(old)
          <6>1. (old \o new)[i] = old[i]
            BY <3>1, <3>2, <5>1, <5>2
          <6> QED
            BY <3>1, <4>1, <5>1, <5>2, <6>1
        <5>3. CASE i > Len(old)
          <6>1. i - Len(old) \in 1 .. n /\ (old \o new)[i] = new[i - Len(old)]
            <7>1. i - Len(old) \in 1 .. n
              BY <3>2, <4>1, <5>1, <5>3
            <7>2. \A j \in 1 .. Len(new) : (old \o new)[Len(old) + j] = new[j]
              BY <3>1, <3>2, ConcatProperties
            <7>3. Len(old) + (i - Len(old)) = i
              BY <4>1, <5>1
            <7> QED
              BY <3>2, <7>1, <7>2, <7>3
          <6>2. new[i - Len(old)] = a + (i - Len(old))
            BY <3>2, <6>1
          <6> QED
            BY <1>3, <2>2, <3>1, <5>1, <6>1, <6>2
        <5> QED
          BY <4>1, <5>1, <5>2, <5>3
      <4> QED
        BY <4>1, <4>2, <4>3
    <3> QED
      BY <3>3, <3>4
  <2> HIDE DEF buf
  <2>5. Rest(buf) \in Seq(Nat) /\ Frames(buf) \in Seq(Seq(Nat))
    BY <2>20, CutIsTyped
  <2>6. /\ q \in StreamRec /\ q.state = r.state /\ q.status = r.status
        /\ q.read_buffer = Rest(buf) /\ q.response_queue = r.response_queue
        /\ q.told = r.told /\ q.closes = r.closes /\ q.closeStatus = r.closeStatus
    <3>1. q \in StreamRec
      BY <1>5, <2>5, Zenon DEF StreamRec
    <3>2. /\ q.state = r.state /\ q.status = r.status
          /\ q.read_buffer = Rest(buf) /\ q.response_queue = r.response_queue
          /\ q.told = r.told /\ q.closes = r.closes /\ q.closeStatus = r.closeStatus
      BY <1>5 DEF StreamRec
    <3> QED
      BY <3>1, <3>2
  <2>7. stream' = [stream EXCEPT ![s] = q] /\ frames' = Frames(buf)
    BY <1>2, <1>11
  <2> HIDE DEF q
  <2>8. /\ stream'[s] = q /\ stream' \in [Streams -> StreamRec]
        /\ \A t \in Streams \ {s} : stream'[t] = stream[t]
    BY <2>6, <2>7 DEF Typed
  <2>9. Typed'
    BY <1>2, <1>7, <2>5, <2>7, <2>8 DEF Typed
  <2>10. ~torn => OrderOK(q, a + n, FALSE, taken[s], Frames(buf))
    <3> SUFFICES ASSUME ~torn PROVE OrderOK(q, a + n, FALSE, taken[s], Frames(buf))
      OBVIOUS
    <3>1. OrderOK(r, a, FALSE, taken[s], << >>)
      BY <1>2, <1>6 DEF OrderOK
    <3> QED
      BY <1>3, <1>4, <1>5, <2>1, <2>20, <2>4, <2>6, <3>1, ChunkOrder DEF kf
  <2>11. ~torn => OrderOK(q, a + n, finished[s], taken[s], Frames(buf))
    BY <1>2, <2>10 DEF OrderOK
  <2>12. CloseOK(q)
    BY <1>6, <2>6 DEF CloseOK
  <2>13. StreamsOK'
    BY <1>2, <1>7, <1>8, <1>9, <2>7, <2>8, <2>11, <2>12, OneStreamChanges
  <2>14. FeedingOK'
    <3>1. Live(q) /\ feeding' = s /\ s # None
      BY <1>2, <2>1, <2>6, GrpcStreamAssumption DEF Live
    <3> QED
      BY <2>8, <3>1 DEF FeedingOK
  <2>15. stream[s].state # "closed"
    BY <1>5, <1>11 DEF TimedOut
  <2> QED
    BY <2>8, <2>9, <2>13, <2>14, <2>15
<1> QED
  BY <1>10, <1>11

LEMMA DeliverStep ==
    ASSUME StreamIInv, Deliver
    PROVE  /\ StreamIInv'
           /\ \A s \in Streams : stream'[s] = stream[s] \/ s = feeding
<1> USE DEF StreamIInv
<1> DEFINE s == feeding
           r == stream[s]
           q == [r EXCEPT !.response_queue = Append(@, Head(frames))]
<1>1. /\ frames # << >> /\ frames' = Tail(frames)
      /\ stream' = [stream EXCEPT ![s] = q]
      /\ UNCHANGED <<now, reentrant, feeding, arrived, finished, taken, torn>>
  BY DEF Deliver
<1>2. s \in Streams /\ r \in StreamRec /\ taken[s] \in Seq(Seq(Nat)) /\ frames \in Seq(Seq(Nat))
  BY <1>1 DEF FeedingOK, Typed
<1>3. Head(frames) \in Seq(Nat) /\ Tail(frames) \in Seq(Seq(Nat))
  BY <1>1, <1>2
<1>4. Pending(s) = frames /\ Pending(s)' = Tail(frames)
  BY <1>1 DEF Pending
<1>5. /\ ~torn => OrderOK(r, arrived[s], finished[s], taken[s], frames)
      /\ CloseOK(r)
  BY <1>2, <1>4 DEF StreamsOK
<1>6. /\ q.state = r.state /\ q.status = r.status /\ q.read_buffer = r.read_buffer
      /\ q.response_queue = Append(r.response_queue, Head(frames))
      /\ q.told = r.told /\ q.closes = r.closes /\ q.closeStatus = r.closeStatus
  BY <1>2 DEF StreamRec
<1>7. q \in StreamRec
  <2>1. Append(r.response_queue, Head(frames)) \in Seq(Seq(Nat))
    BY <1>2, <1>3 DEF StreamRec
  <2> QED
    BY <1>2, <2>1, Zenon DEF StreamRec
<1> HIDE DEF q
<1>8. ~torn => OrderOK(q, arrived[s], finished[s], taken[s], Tail(frames))
  BY <1>1, <1>2, <1>5, <1>6, QueueOrder
<1>9. CloseOK(q)
  BY <1>5, <1>6 DEF CloseOK
<1>10. /\ stream'[s] = q /\ stream' \in [Streams -> StreamRec]
       /\ \A t \in Streams \ {s} : stream'[t] = stream[t]
  BY <1>1, <1>2, <1>7 DEF Typed
<1>11. Typed'
  BY <1>1, <1>3, <1>10 DEF Typed
<1>12. \A t \in Streams \ {s} : Pending(t)' = Pending(t)
  BY <1>1 DEF Pending
<1>13. StreamsOK'
  BY <1>1, <1>2, <1>4, <1>8, <1>9, <1>10, <1>12, OneStreamChanges
<1>14. FeedingOK'
  <2>1. Live(q) = Live(r)
    BY <1>6 DEF Live
  <2>2. ~reentrant => Live(r)
    BY <1>1 DEF FeedingOK
  <2>3. s # None
    BY <1>2, GrpcStreamAssumption
  <2> QED
    BY <1>1, <1>10, <2>1, <2>2, <2>3 DEF FeedingOK
<1> QED
  BY <1>10, <1>11, <1>13, <1>14

LEMMA DeliverDiesStep ==
    ASSUME StreamIInv, DeliverDies
    PROVE  /\ StreamIInv'
           /\ \A s \in Streams : stream'[s] = stream[s] \/ s = feeding
<1> USE DEF StreamIInv
<1> DEFINE s == feeding
           r == stream[s]
           q == [r EXCEPT !.response_queue = Append(@, Head(frames))]
<1>1. /\ frames # << >> /\ frames' = << >> /\ feeding' = None /\ torn' = TRUE
      /\ stream' = [stream EXCEPT ![s] = q] \/ stream' = stream
      /\ UNCHANGED <<now, reentrant, arrived, finished, taken>>
  BY DEF DeliverDies
<1>2. s \in Streams /\ r \in StreamRec /\ frames \in Seq(Seq(Nat))
  BY <1>1 DEF FeedingOK, Typed
<1>3. Head(frames) \in Seq(Nat)
  BY <1>1, <1>2
<1>4. /\ q.state = r.state /\ q.status = r.status
      /\ q.told = r.told /\ q.closes = r.closes /\ q.closeStatus = r.closeStatus
  BY <1>2 DEF StreamRec
<1>5. q \in StreamRec
  <2>1. Append(r.response_queue, Head(frames)) \in Seq(Seq(Nat))
    BY <1>2, <1>3 DEF StreamRec
  <2> QED
    BY <1>2, <2>1, Zenon DEF StreamRec
<1> HIDE DEF q
<1>6. CloseOK(r)
  BY <1>2 DEF StreamsOK
<1>7. CloseOK(q)
  BY <1>4, <1>6 DEF CloseOK
<1>8. /\ stream'[s] = q \/ stream'[s] = r
      /\ stream' \in [Streams -> StreamRec]
      /\ \A t \in Streams \ {s} : stream'[t] = stream[t]
  BY <1>1, <1>2, <1>5 DEF Typed
<1>9. Typed'
  BY <1>1, <1>8 DEF Typed
<1>10. FeedingOK'
  BY <1>1 DEF FeedingOK
<1>11. StreamsOK'
  <2> SUFFICES ASSUME NEW t \in Streams PROVE CloseOK(stream[t])'
    BY <1>1 DEF StreamsOK
  <2>1. CloseOK(stream'[t]) = CloseOK(stream[t])'
    BY <1>1 DEF CloseOK
  <2>2. CloseOK(stream[t])
    BY DEF StreamsOK
  <2>3. CloseOK(stream'[t])
    BY <1>6, <1>7, <1>8, <2>2
  <2> QED
    BY <2>1, <2>3
<1> QED
  BY <1>8, <1>9, <1>10, <1>11

LEMMA FeedReturnsStep ==
    ASSUME StreamIInv, FeedReturns
    PROVE  /\ StreamIInv'
           /\ \A s \in Streams : ~Live(stream[s]) => stream'[s] = stream[s]
<1> USE DEF StreamIInv
<1>1. PICK nest \in Nests : stream' = CheckDeadlines(nest)
  BY DEF FeedReturns
<1>2. /\ frames = << >> /\ feeding' = None
      /\ UNCHANGED <<now, reentrant, frames, arrived, finished, taken, torn>>
  BY DEF FeedReturns
<1>3. \A s \in Streams : Pending(s)' = Pending(s)
  BY <1>2 DEF Pending
<1>4. /\ stream' \in [Streams -> StreamRec] /\ StreamsOK'
      /\ \A s \in Streams : ~Live(stream[s]) => stream'[s] = stream[s]
  BY <1>1, <1>2, <1>3, CheckDeadlinesStep
<1>5. Typed'
  BY <1>2, <1>4 DEF Typed
<1>6. FeedingOK'
  BY <1>2 DEF FeedingOK
<1> QED
  BY <1>4, <1>5, <1>6

LEMMA GetOutputStep ==
    ASSUME StreamIInv, get_output
    PROVE  /\ StreamIInv'
           /\ \A s \in Streams : ~Live(stream[s]) => stream'[s] = stream[s]
<1> USE DEF StreamIInv
<1>1. PICK nest \in Nests : stream' = CheckDeadlines(nest)
  BY DEF get_output
<1>2. UNCHANGED <<now, reentrant, frames, feeding, arrived, finished, taken, torn>>
  BY DEF get_output
<1>3. \A s \in Streams : Pending(s)' = Pending(s)
  BY <1>2 DEF Pending
<1>4. /\ stream' \in [Streams -> StreamRec] /\ StreamsOK'
      /\ \A s \in Streams : ~Live(stream[s]) => stream'[s] = stream[s]
  BY <1>1, <1>2, <1>3, CheckDeadlinesStep
<1>5. Typed'
  BY <1>2, <1>4 DEF Typed
<1>6. FeedingOK'
  BY <1>2, UserFeeding DEF FeedingOK, get_output
<1> QED
  BY <1>4, <1>5, <1>6

LEMMA FeedDoneStep ==
    ASSUME StreamIInv, NEW s \in Streams, NEW status \in Statuses, FeedDone(s, status)
    PROVE  /\ StreamIInv'
           /\ stream[s].state = "closed" => stream'[s] = stream[s]
           /\ \A t \in Streams \ {s} : stream'[t] = stream[t]
<1> USE DEF StreamIInv
<1>1. PICK nest \in Nests, drains \in {FALSE, reentrant} :
        stream' = [stream EXCEPT ![s] =
                      handle_close(handle_trailers(stream[s], status, drains, nest))]
  BY DEF FeedDone, Typed
<1> DEFINE r == stream[s]
           q == handle_close(handle_trailers(r, status, drains, nest))
<1>2. /\ frames = << >> /\ r.state # "none" /\ ~finished[s]
      /\ stream' = [stream EXCEPT ![s] = q]
      /\ finished' = [finished EXCEPT ![s] = TRUE] /\ feeding' = s
      /\ UNCHANGED <<now, reentrant, frames, arrived, taken, torn>>
  BY <1>1 DEF FeedDone
<1>3. status \in Nat /\ status # DEADLINE_EXCEEDED
  BY GrpcStreamAssumption
<1>4. /\ ~torn => OrderOK(r, arrived[s], finished[s], taken[s], << >>)
      /\ CloseOK(r) /\ r \in StreamRec /\ taken[s] \in Seq(Seq(Nat)) /\ arrived[s] \in Nat
  BY <1>2, NothingPending DEF StreamsOK, Typed
<1>5. ~torn => OrderOK(r, arrived[s], FALSE, taken[s], << >>)
  BY <1>2, <1>4 DEF OrderOK
<1>6. /\ q \in StreamRec /\ CloseOK(q)
      /\ ~torn => OrderOK(q, arrived[s], TRUE, taken[s], << >>)
  BY <1>2, <1>3, <1>4, <1>5, DoneStream
<1>7. r.state = "closed" => q = r
  BY DEF handle_close, handle_trailers
<1> HIDE DEF q
<1>8. /\ stream'[s] = q /\ stream' \in [Streams -> StreamRec]
      /\ finished'[s] = TRUE /\ finished' \in [Streams -> BOOLEAN]
      /\ \A t \in Streams \ {s} : stream'[t] = stream[t] /\ finished'[t] = finished[t]
  BY <1>2, <1>6 DEF Typed
<1>9. Typed'
  BY <1>2, <1>8 DEF Typed
<1>10. \A t \in Streams : Pending(t)' = << >> /\ Pending(t) = << >>
  BY <1>2 DEF Pending
<1>11. StreamsOK'
  BY <1>2, <1>6, <1>8, <1>10, OneStreamChanges
<1>12. FeedingOK'
  BY <1>2 DEF FeedingOK
<1> QED
  BY <1>7, <1>8, <1>9, <1>11, <1>12

LEMMA UnchangedStep ==
    ASSUME StreamIInv, now' \in Nat,
           UNCHANGED <<reentrant, stream, frames, feeding, arrived, finished, taken, torn>>
    PROVE  StreamIInv'
<1> USE DEF StreamIInv
<1>1. Typed' /\ FeedingOK'
  BY DEF Typed, FeedingOK
<1>2. \A s \in Streams : Pending(s)' = Pending(s)
  BY DEF Pending
<1>3. StreamsOK'
  BY <1>2 DEF StreamsOK, CloseOK
<1> QED
  BY <1>1, <1>3

LEMMA NextStep ==
    ASSUME StreamIInv, [Next]_vars
    PROVE  StreamIInv'
<1>1. CASE Tick
  <2>1. now' \in Nat
    BY <1>1 DEF Tick, StreamIInv, Typed
  <2> QED
    BY <1>1, <2>1, UnchangedStep DEF Tick
<1>2. CASE get_output
  BY <1>2, GetOutputStep
<1>3. CASE Deliver
  BY <1>3, DeliverStep
<1>11. CASE DeliverDies
  BY <1>11, DeliverDiesStep
<1>4. CASE FeedReturns
  BY <1>4, FeedReturnsStep
<1>5. ASSUME NEW s \in Streams, NEW timeout \in Timeouts, create_stream(s, timeout)
      PROVE  StreamIInv'
  BY <1>5, CreateStep
<1>6. ASSUME NEW s \in Streams, recv_message(s)
      PROVE  StreamIInv'
  BY <1>6, RecvStep
<1>7. ASSUME NEW s \in Streams, NEW end_stream \in BOOLEAN, write_message(s, end_stream)
      PROVE  StreamIInv'
  BY <1>7, WriteStep
<1>8. ASSUME NEW s \in Streams, NEW n \in Byte, FeedData(s, n)
      PROVE  StreamIInv'
  BY <1>8, FeedDataStep
<1>9. ASSUME NEW s \in Streams, NEW status \in Statuses, FeedDone(s, status)
      PROVE  StreamIInv'
  BY <1>9, FeedDoneStep
<1>10. CASE UNCHANGED vars
  <2>1. now' \in Nat
    BY <1>10 DEF vars, StreamIInv, Typed
  <2> QED
    BY <1>10, <2>1, UnchangedStep DEF vars
<1> QED
  BY <1>1, <1>2, <1>3, <1>4, <1>5, <1>6, <1>7, <1>8, <1>9, <1>10, <1>11 DEF Next

(* The bytes, frames and messages of every stream stay accounted for until  *)
(* a die goes through feed_input, and frames are left only for an open      *)
(* stream unless a callback interferes: every step of the channel preserves *)
(* StreamIInv.                                                              *)
THEOREM StreamIInvInductive == Spec => []StreamIInv
<1>1. Init => StreamIInv
  <2> SUFFICES ASSUME Init PROVE StreamIInv
    OBVIOUS
  <2>1. NoStream \in StreamRec
    <3>1. 0 \in Nat /\ << >> \in Seq(Nat) /\ << >> \in Seq(Seq(Nat))
      OBVIOUS
    <3> QED
      BY <3>1, Zenon DEF NoStream, StreamRec
  <2>2. Typed
    <3>1. torn \in BOOLEAN /\ reentrant \in BOOLEAN
      BY Zenon DEF Init
    <3>2. /\ now \in Nat /\ stream \in [Streams -> StreamRec]
          /\ frames \in Seq(Seq(Nat)) /\ feeding \in Streams \cup {None}
          /\ arrived \in [Streams -> Nat] /\ finished \in [Streams -> BOOLEAN]
          /\ taken \in [Streams -> Seq(Seq(Nat))]
      BY <2>1 DEF Init
    <3> QED
      BY <3>1, <3>2 DEF Typed
  <2>3. FeedingOK
    BY DEF Init, FeedingOK
  <2>4. 0 \div FrameLen = 0 /\ 0 * FrameLen = 0
    BY GrpcStreamAssumption
  <2>5. /\ NoStream.state = "none" /\ NoStream.response_queue = << >>
        /\ NoStream.told = 0 /\ NoStream.closes = 0
    BY DEF NoStream
  <2>6. OrderOK(NoStream, 0, FALSE, << >>, << >>)
    BY <2>4, <2>5 DEF OrderOK, Numbered, Total, Live
  <2>7. CloseOK(NoStream)
    BY <2>5 DEF CloseOK
  <2>8. StreamsOK
    BY <2>6, <2>7 DEF Init, StreamsOK, Pending
  <2> QED
    BY <2>2, <2>3, <2>8 DEF StreamIInv
<1>2. StreamIInv /\ [Next]_vars => StreamIInv'
  BY NextStep
<1> QED
  BY <1>1, <1>2, PTL DEF Spec

-----------------------------------------------------------------------------
(* What the invariant says of the messages. *)

LEMMA FrameIsSequence ==
    ASSUME NEW n \in Nat, n >= 1
    PROVE  Frame(n) \in Seq(Nat)
<1>1. n - 1 \in Nat /\ (n - 1) * FrameLen \in Nat
  BY GrpcStreamAssumption
<1> DEFINE m == (n - 1) * FrameLen
<1>2. Frame(n) = [i \in 1 .. FrameLen |-> m + i]
  BY DEF Frame
<1> HIDE DEF m
<1>3. m \in Nat
  BY <1>1 DEF m
<1>4. [i \in 1 .. FrameLen |-> m + i] \in [1 .. FrameLen -> Nat]
  BY <1>3
<1> QED
  BY <1>2, <1>4, FunctionIsSequence, GrpcStreamAssumption

LEMMA AgreeingPrefix ==
    ASSUME NEW S, NEW p \in Seq(S), NEW q \in Seq(S), Len(p) <= Len(q),
           \A i \in 1 .. Len(p) : p[i] = q[i]
    PROVE  IsPrefix(p, q)
<1> DEFINE front == SubSeq(q, 1, Len(p))
<1>1. Len(p) \in Nat /\ Len(q) \in Nat
  OBVIOUS
<1>2. front \in Seq(S) /\ Len(front) = Len(p) /\ \A i \in 1 .. Len(p) : front[i] = q[i]
  BY <1>1
<1> HIDE DEF front
<1>3. p = front
  BY <1>2, SeqEqual
<1>4. SubSeq(p, 1, Len(p)) = p
  BY SubSeqFull
<1> QED
  BY <1>3, <1>4 DEF IsPrefix, front

(* Messages taken and queued, and the frames that came. *)
LEMMA MessagesAgree ==
    ASSUME StreamIInv, ~torn, NEW s \in Streams
    PROVE  LET got == taken[s] \o stream[s].response_queue
               m == arrived[s] \div FrameLen
           IN  /\ got \in Seq(Seq(Nat)) /\ Sent(s) \in Seq(Seq(Nat))
               /\ m \in Nat /\ Len(Sent(s)) = m /\ Len(got) \in Nat /\ Len(got) <= m
               /\ \A i \in 1 .. Len(got) : got[i] = Sent(s)[i]
               /\ stream[s].state = "closed" /\ stream[s].status # DEADLINE_EXCEEDED =>
                     Len(got) = m
<1> DEFINE tk == taken[s]
           queue == stream[s].response_queue
           got == tk \o queue
           m == arrived[s] \div FrameLen
<1>1. /\ tk \in Seq(Seq(Nat)) /\ queue \in Seq(Seq(Nat)) /\ Pending(s) \in Seq(Seq(Nat))
      /\ arrived[s] \in Nat
  BY NothingPending DEF StreamIInv, Typed, StreamRec
<1>2. m \in Nat
  BY <1>1, Division
<1>3. OrderOK(stream[s], arrived[s], finished[s], tk, Pending(s))
  BY DEF StreamIInv, StreamsOK
<1>4. /\ Numbered(tk, 0) /\ Numbered(queue, Len(tk))
      /\ Len(tk) + Len(queue) + Len(Pending(s)) <= m
  BY <1>3 DEF OrderOK, Total
<1>5. stream[s].state = "closed" /\ stream[s].status # DEADLINE_EXCEEDED =>
         /\ Pending(s) = << >>
         /\ Len(tk) + Len(queue) + Len(Pending(s)) = m
  BY <1>3 DEF OrderOK, Total
<1> HIDE DEF tk, queue
<1>6. /\ Sent(s) \in Seq(Seq(Nat)) /\ Len(Sent(s)) = m
      /\ \A i \in 1 .. m : Sent(s)[i] = Frame(i)
  <2>1. Sent(s) = [n \in 1 .. m |-> Frame(n)]
    BY DEF Sent
  <2> HIDE DEF m
  <2>2. \A n \in 1 .. m : Frame(n) \in Seq(Nat)
    BY <1>2, FrameIsSequence
  <2>3. [n \in 1 .. m |-> Frame(n)] \in [1 .. m -> Seq(Nat)]
    BY <2>2, Zenon
  <2>4. Sent(s) \in Seq(Seq(Nat)) /\ Len(Sent(s)) = m
    BY <1>2, <2>1, <2>3, FunctionIsSequence
  <2>5. \A i \in 1 .. m : Sent(s)[i] = Frame(i)
    BY <2>1, Zenon
  <2> QED
    BY <2>4, <2>5
<1> HIDE DEF m
<1>7. got \in Seq(Seq(Nat)) /\ Len(got) = Len(tk) + Len(queue)
  BY <1>1
<1>8. Len(tk) \in Nat /\ Len(queue) \in Nat /\ Len(Pending(s)) \in Nat
  BY <1>1
<1>9. Len(got) \in Nat /\ Len(got) <= m
  BY <1>2, <1>4, <1>7, <1>8
<1>10. ASSUME NEW i \in 1 .. Len(got) PROVE got[i] = Frame(i)
  <2>1. i \in Nat /\ 1 <= i /\ i <= Len(tk) + Len(queue)
    BY <1>7, <1>8
  <2>2. got[i] = IF i <= Len(tk) THEN tk[i] ELSE queue[i - Len(tk)]
    BY <1>1, <1>7, ConcatProperties
  <2>3. CASE i <= Len(tk)
    <3>1. tk[i] = Frame(0 + i)
      BY <1>4, <1>8, <2>1, <2>3 DEF Numbered
    <3> QED
      BY <2>1, <2>2, <2>3, <3>1
  <2>4. CASE ~(i <= Len(tk))
    <3>1. i - Len(tk) \in 1 .. Len(queue)
      BY <1>8, <2>1, <2>4
    <3>2. queue[i - Len(tk)] = Frame(Len(tk) + (i - Len(tk)))
      BY <1>4, <3>1 DEF Numbered
    <3>3. Len(tk) + (i - Len(tk)) = i
      BY <1>8, <2>1
    <3> QED
      BY <2>2, <2>4, <3>2, <3>3
  <2> QED
    BY <2>3, <2>4
<1>11. \A i \in 1 .. Len(got) : got[i] = Sent(s)[i]
  <2>1. \A i \in 1 .. Len(got) : i \in 1 .. m
    BY <1>2, <1>9
  <2> QED
    BY <1>6, <1>10, <2>1
<1>12. stream[s].state = "closed" /\ stream[s].status # DEADLINE_EXCEEDED => Len(got) = m
  <2> SUFFICES ASSUME stream[s].state = "closed", stream[s].status # DEADLINE_EXCEEDED
               PROVE  Len(got) = m
    OBVIOUS
  <2> DEFINE lp == Len(Pending(s))
             lg == Len(got)
             lt == Len(tk)
             lq == Len(queue)
  <2>1. lp = 0 /\ lt + lq + lp = m /\ lg = lt + lq /\ lt \in Nat /\ lq \in Nat
    <3>1. Pending(s) = << >>
      BY <1>5
    <3>2. lp = 0
      BY <3>1
    <3> QED
      BY <1>5, <1>7, <1>8, <3>2
  <2> HIDE DEF lp, lg, lt, lq
  <2>2. lg = m
    BY <2>1
  <2> QED
    BY <2>2 DEF lg
<1> HIDE DEF got
<1>13. /\ got \in Seq(Seq(Nat)) /\ Sent(s) \in Seq(Seq(Nat))
       /\ m \in Nat /\ Len(Sent(s)) = m /\ Len(got) \in Nat /\ Len(got) <= m
       /\ \A i \in 1 .. Len(got) : got[i] = Sent(s)[i]
       /\ stream[s].state = "closed" /\ stream[s].status # DEADLINE_EXCEEDED =>
             Len(got) = m
  BY <1>2, <1>6, <1>7, <1>9, <1>11, <1>12
<1> QED
  BY <1>13 DEF got, m, tk, queue

(* However the server's frames are cut into chunks, and whenever deadlines   *)
(* strike or callbacks re-enter the stream, what the application took and   *)
(* what is queued for it are a prefix of what was sent on the stream, as    *)
(* long as no die went through feed_input.                                  *)
THEOREM MessagesStayInOrder == Spec => []InOrder
<1>1. StreamIInv => InOrder
  <2> SUFFICES ASSUME StreamIInv, ~torn, NEW s \in Streams
               PROVE  IsPrefix(taken[s] \o stream[s].response_queue, Sent(s))
    BY DEF InOrder
  <2> DEFINE got == taken[s] \o stream[s].response_queue
             m == arrived[s] \div FrameLen
  <2>1. /\ got \in Seq(Seq(Nat)) /\ Sent(s) \in Seq(Seq(Nat))
        /\ Len(Sent(s)) = m /\ Len(got) <= m
        /\ \A i \in 1 .. Len(got) : got[i] = Sent(s)[i]
    BY MessagesAgree
  <2> HIDE DEF got, m
  <2>2. IsPrefix(got, Sent(s))
    BY <2>1, AgreeingPrefix
  <2> QED
    BY <2>2 DEF got
<1> QED
  BY <1>1, StreamIInvInductive, PTL

(* A stream that ends with the status of the server, and not with            *)
(* DEADLINE_EXCEEDED, has every message the server sent, taken or queued,   *)
(* as long as no die went through feed_input.                               *)
THEOREM AnsweredStreamsAreComplete == Spec => []CompleteAtServerClose
<1>1. StreamIInv => CompleteAtServerClose
  <2> SUFFICES ASSUME StreamIInv, ~torn, NEW s \in Streams,
                      stream[s].state = "closed", stream[s].status # DEADLINE_EXCEEDED
               PROVE  IsPrefix(Sent(s), taken[s] \o stream[s].response_queue)
    BY DEF CompleteAtServerClose
  <2> DEFINE got == taken[s] \o stream[s].response_queue
             m == arrived[s] \div FrameLen
  <2>1. /\ got \in Seq(Seq(Nat)) /\ Sent(s) \in Seq(Seq(Nat)) /\ m \in Nat
        /\ Len(Sent(s)) = m /\ Len(got) = m
        /\ \A i \in 1 .. Len(got) : got[i] = Sent(s)[i]
    BY MessagesAgree
  <2> HIDE DEF got, m
  <2>2. Len(Sent(s)) <= Len(got) /\ \A i \in 1 .. Len(Sent(s)) : Sent(s)[i] = got[i]
    BY <2>1
  <2>3. IsPrefix(Sent(s), got)
    BY <2>1, <2>2, AgreeingPrefix
  <2> QED
    BY <2>3 DEF got
<1> QED
  BY <1>1, StreamIInvInductive, PTL

(* on_close is called once for each stream, after on_trailers, with the      *)
(* status the stream keeps: handle_close, check_deadline and on_done never  *)
(* close a stream twice, however they interleave.                           *)
THEOREM StreamsCloseOnce == Spec => []ClosedOnce
<1>1. StreamIInv => ClosedOnce
  <2> SUFFICES ASSUME StreamIInv, NEW s \in Streams
               PROVE  /\ stream[s].closes = (IF stream[s].state = "closed" THEN 1 ELSE 0)
                      /\ stream[s].closes = 1 =>
                            stream[s].told >= 1 /\ stream[s].closeStatus = stream[s].status
    BY DEF ClosedOnce
  <2>1. CloseOK(stream[s])
    BY DEF StreamIInv, StreamsOK
  <2> QED
    BY <2>1 DEF CloseOK
<1> QED
  BY <1>1, StreamIInvInductive, PTL

(* Callbacks that leave their stream alone are told of its end at most once, *)
(* and no step adds a message to a closed stream, not even the turns of     *)
(* push_incoming_data's loop, which does not look at the state again.       *)
THEOREM TheEndIsToldOnceAndLast == Spec => ToldOnceAndLast
<1> DEFINE Step == ~reentrant =>
        \A s \in Streams :
            /\ stream'[s].told <= 1
            /\ stream[s].state = "closed" =>
                  Len(stream'[s].response_queue) <= Len(stream[s].response_queue)
<1>1. StreamIInv /\ StreamIInv' /\ [Next]_vars => [Step]_vars
  <2> SUFFICES ASSUME StreamIInv, StreamIInv', Next, ~reentrant, NEW s \in Streams
               PROVE  /\ stream'[s].told <= 1
                      /\ stream[s].state = "closed" =>
                            Len(stream'[s].response_queue) <= Len(stream[s].response_queue)
    BY DEF vars
  <2>1. reentrant' = reentrant
    BY DEF Next, Tick, get_output, Deliver, DeliverDies, FeedReturns, create_stream, recv_message,
           write_message, FeedData, FeedDone
  <2>2. stream'[s].told <= 1
    <3>1. CloseOK(stream[s])'
      BY DEF StreamIInv, StreamsOK
    <3> QED
      BY <2>1, <3>1 DEF CloseOK
  <2>3. ASSUME stream[s].state = "closed"
        PROVE  \/ stream'[s] = stream[s]
               \/ Len(stream'[s].response_queue) <= Len(stream[s].response_queue)
    <3>0. ~Live(stream[s])
      BY <2>3 DEF Live
    <3>1. CASE Tick
      BY <3>1 DEF Tick
    <3>2. CASE get_output
      BY <3>0, <3>2, GetOutputStep
    <3>3. CASE Deliver
      <4>1. Live(stream[feeding])
        BY <3>3 DEF Deliver, StreamIInv, FeedingOK
      <4> QED
        BY <3>0, <3>3, <4>1, DeliverStep
    <3>10. CASE DeliverDies
      <4>1. Live(stream[feeding])
        BY <3>10 DEF DeliverDies, StreamIInv, FeedingOK
      <4> QED
        BY <3>0, <3>10, <4>1, DeliverDiesStep
    <3>4. CASE FeedReturns
      BY <3>0, <3>4, FeedReturnsStep
    <3>5. ASSUME NEW t \in Streams, NEW timeout \in Timeouts, create_stream(t, timeout)
          PROVE  stream'[s] = stream[s]
      BY <2>3, <3>5 DEF create_stream, StreamIInv, Typed
    <3>6. ASSUME NEW t \in Streams, recv_message(t)
          PROVE  \/ stream'[s] = stream[s]
                 \/ Len(stream'[s].response_queue) <= Len(stream[s].response_queue)
      BY <3>6, RecvStep
    <3>7. ASSUME NEW t \in Streams, NEW end_stream \in BOOLEAN, write_message(t, end_stream)
          PROVE  stream'[s] = stream[s]
      <4>1. t # s
        BY <3>0, <3>7 DEF write_message
      <4>2. PICK nest \in Nests :
              LET r == check_deadline(stream[t], nest) IN
              stream' = [stream EXCEPT ![t] =
                  IF end_stream /\ r.state # "closed"
                  THEN [r EXCEPT !.state = "half_closed_local"] ELSE r]
        BY <3>7 DEF write_message
      <4> QED
        BY <4>1, <4>2 DEF StreamIInv, Typed
    <3>8. ASSUME NEW t \in Streams, NEW n \in Byte, FeedData(t, n)
          PROVE  stream'[s] = stream[s]
      BY <2>3, <3>8, FeedDataStep
    <3>9. ASSUME NEW t \in Streams, NEW status \in Statuses, FeedDone(t, status)
          PROVE  stream'[s] = stream[s]
      BY <2>3, <3>9, FeedDoneStep
    <3> QED
      BY <3>1, <3>2, <3>3, <3>4, <3>5, <3>6, <3>7, <3>8, <3>9, <3>10 DEF Next
  <2>4. Len(stream[s].response_queue) \in Nat
    BY DEF StreamIInv, Typed, StreamRec
  <2> QED
    BY <2>2, <2>3, <2>4
<1> QED
  BY <1>1, StreamIInvInductive, PTL DEF Spec, ToldOnceAndLast

-----------------------------------------------------------------------------
(* Calls, and the pool of subchannels. *)

N == Len(resolved_ips)
Laps == rr_index \div N       \* how often the pool has gone round
Mark == rr_index % N          \* the subchannel picked last, 0 for the last one

(* How many picks were made after the last one of subchannel i, when the    *)
(* pool has been at mark.                                                  *)
Since(mark, i) == IF i <= mark THEN mark - i ELSE mark + N - i

PicksOK ==
    /\ rr_index \in Nat
    /\ picks = [i \in Subchannels |-> Laps + (IF i <= Mark THEN 1 ELSE 0)]

(* The limits on attempts and sleeps. *)
LimitsOK ==
    /\ pc \in {"idle", "performing", "sleeping"}
    /\ attempt \in Nat
    /\ pc = "performing" => attempt <= max_retries + 1
    /\ pc = "sleeping" => attempt <= max_retries
    /\ backoff \in Nat /\ backoff <= Max({initial_backoff, max_backoff})
    /\ slept \in Nat /\ slept <= Max({initial_backoff, max_backoff})

(* A call under way has tried the subchannels picked last. *)
TriedOK ==
    pc # "idle" =>
        /\ attempt >= 1
        /\ tried = {i \in Subchannels : Since(Mark, i) < attempt}
        /\ Cardinality(tried) = (IF attempt <= N THEN attempt ELSE N)

OutcomeOK ==
    outcome.is = "croak" /\ IsTransient(outcome.reply) =>
        /\ outcome.attempts = max_retries + 1
        /\ Cardinality(outcome.tried) = Min({max_retries + 1, N})

ClientIInv == PicksOK /\ LimitsOK /\ TriedOK /\ OutcomeOK

-----------------------------------------------------------------------------
(* Arithmetic. *)

LEMMA MinOfTwo ==
    ASSUME NEW a \in Nat, NEW b \in Nat
    PROVE  Min({a, b}) = IF a <= b THEN a ELSE b
<1> DEFINE m == IF a <= b THEN a ELSE b
<1>1. m \in {a, b} /\ \A y \in {a, b} : m <= y
  OBVIOUS
<1>2. ASSUME NEW x \in {a, b}, \A y \in {a, b} : x <= y
      PROVE  x = m
  BY <1>2
<1> QED
  BY <1>1, <1>2 DEF Min

LEMMA MaxOfTwo ==
    ASSUME NEW a \in Nat, NEW b \in Nat
    PROVE  Max({a, b}) \in Nat /\ a <= Max({a, b}) /\ b <= Max({a, b})
<1> DEFINE m == IF a <= b THEN b ELSE a
<1>1. m \in {a, b} /\ \A y \in {a, b} : m >= y
  OBVIOUS
<1>2. ASSUME NEW x \in {a, b}, \A y \in {a, b} : x >= y
      PROVE  x = m
  BY <1>2
<1>3. Max({a, b}) = m
  BY <1>1, <1>2 DEF Max
<1> QED
  BY <1>3

(* The counter goes round. *)
LEMMA NextLap ==
    ASSUME NEW r \in Nat
    PROVE  /\ r \div N \in Nat /\ r % N \in 0 .. N - 1 /\ N \in Nat /\ N >= 1
           /\ IF (r % N) + 1 < N
              THEN (r + 1) \div N = r \div N /\ (r + 1) % N = (r % N) + 1
              ELSE (r + 1) \div N = r \div N + 1 /\ (r + 1) % N = 0
<1> DEFINE n == Len(resolved_ips)
<1>1. n \in Nat /\ n >= 1 /\ N = n
  BY GrpcClientAssumption DEF N
<1> HIDE DEF n
<1> DEFINE k == r \div n
           m == r % n
<1>2. k \in Nat /\ m \in 0 .. n - 1 /\ r = n * k + m
  BY <1>1
<1>3. n * (k + 1) = n * k + n /\ n * k \in Nat
  BY <1>1, <1>2
<1>4. ASSUME NEW q \in Nat, NEW p \in 0 .. n - 1, r + 1 = n * q + p
      PROVE  (r + 1) \div n = q /\ (r + 1) % n = p
  <2> DEFINE a == r + 1
             d == a \div n
             e == a % n
  <2>1. a \in Nat /\ n * q <= a /\ a < n * q + n
    BY <1>1, <1>4
  <2>2. d \in Nat /\ e \in 0 .. n - 1 /\ a = n * d + e
    BY <1>1
  <2> HIDE DEF a, d, e
  <2>3. d = q
    <3>1. CASE d > q
      <4>1. n * (q + 1) <= n * d
        <5>1. d - (q + 1) \in Nat
          BY <2>2, <3>1
        <5>2. n * (d - (q + 1)) \in Nat /\ n * d = n * (q + 1) + n * (d - (q + 1))
          BY <1>1, <2>2, <5>1
        <5> QED
          BY <1>1, <2>2, <5>2
      <4> QED
        BY <1>1, <2>1, <2>2, <4>1
    <3>2. CASE d < q
      <4>1. n * (d + 1) <= n * q
        <5>1. q - (d + 1) \in Nat
          BY <2>2, <3>2
        <5>2. n * (q - (d + 1)) \in Nat /\ n * q = n * (d + 1) + n * (q - (d + 1))
          BY <1>1, <2>2, <5>1
        <5> QED
          BY <1>1, <2>2, <5>2
      <4> QED
        BY <1>1, <2>1, <2>2, <4>1
    <3> QED
      BY <2>2, <3>1, <3>2
  <2>4. e = p
    BY <1>1, <1>4, <2>2, <2>3 DEF a
  <2> QED
    BY <2>3, <2>4 DEF a, d, e
<1> HIDE DEF k, m
<1>5. CASE m + 1 < n
  <2>1. m + 1 \in 0 .. n - 1 /\ r + 1 = n * k + (m + 1)
    BY <1>1, <1>2, <1>3, <1>5
  <2> QED
    BY <1>1, <1>2, <1>4, <1>5, <2>1 DEF k, m
<1>6. CASE ~(m + 1 < n)
  <2>1. 0 \in 0 .. n - 1 /\ r + 1 = n * (k + 1) + 0 /\ k + 1 \in Nat
    BY <1>1, <1>2, <1>3, <1>6
  <2> QED
    BY <1>1, <1>2, <1>4, <1>6, <2>1 DEF k, m
<1> QED
  BY <1>5, <1>6, <1>1, <1>2 DEF k, m

-----------------------------------------------------------------------------
(* The pool. *)

LEMMA PickStep ==
    ASSUME PicksOK, NEW i \in Subchannels, get_channel(i)
    PROVE  /\ PicksOK'
           /\ Since(Mark, i) = N - 1 /\ Since(Mark', i) = 0
           /\ \A j \in Subchannels \ {i} : Since(Mark', j) = Since(Mark, j) + 1
           /\ \A j \in Subchannels : Since(Mark, j) \in 0 .. N - 1
<1> DEFINE k == rr_index \div N
           m == rr_index % N
           k1 == (rr_index + 1) \div N
           m1 == (rr_index + 1) % N
<1>1. /\ k \in Nat /\ m \in 0 .. N - 1 /\ N \in Nat /\ N >= 1
      /\ IF m + 1 < N THEN k1 = k /\ m1 = m + 1 ELSE k1 = k + 1 /\ m1 = 0
  BY NextLap DEF PicksOK
<1>2. /\ i = m + 1 /\ rr_index' = rr_index + 1 /\ picks' = [picks EXCEPT ![i] = @ + 1]
  BY DEF get_channel, N
<1>3. Mark = m /\ Mark' = m1 /\ Laps = k /\ Laps' = k1
  BY <1>2 DEF Mark, Laps
<1>4. Subchannels = 1 .. N
  BY DEF Subchannels, N
<1> HIDE DEF k, m, k1, m1
<1>5. PicksOK'
  <2>1. rr_index' \in Nat
    BY <1>2 DEF PicksOK
  <2>2. \A j \in Subchannels : picks[j] = k + (IF j <= m THEN 1 ELSE 0)
    BY <1>3 DEF PicksOK
  <2>3. \A j \in Subchannels : picks'[j] = k1 + (IF j <= m1 THEN 1 ELSE 0)
    <3> SUFFICES ASSUME NEW j \in Subchannels
                 PROVE  picks'[j] = k1 + (IF j <= m1 THEN 1 ELSE 0)
      OBVIOUS
    <3>1. picks'[j] = IF j = i THEN picks[j] + 1 ELSE picks[j]
      BY <1>2 DEF PicksOK
    <3> QED
      BY <1>1, <1>2, <1>4, <2>2, <3>1
  <2>4. picks' = [j \in Subchannels |-> picks'[j]]
    BY <1>2 DEF PicksOK
  <2>5. picks' = [j \in Subchannels |-> k1 + (IF j <= m1 THEN 1 ELSE 0)]
    BY <2>3, <2>4
  <2>6. [j \in Subchannels |-> k1 + (IF j <= m1 THEN 1 ELSE 0)]
        = [j \in Subchannels |-> Laps' + (IF j <= Mark' THEN 1 ELSE 0)]
    BY <1>3
  <2> QED
    BY <2>1, <2>5, <2>6 DEF PicksOK
<1>6. /\ Since(m, i) = N - 1 /\ Since(m1, i) = 0
      /\ \A j \in Subchannels \ {i} : Since(m1, j) = Since(m, j) + 1
      /\ \A j \in Subchannels : Since(m, j) \in 0 .. N - 1
  <2>1. i = m + 1 /\ m1 = IF m + 1 < N THEN m + 1 ELSE 0
    BY <1>1, <1>2
  <2>2. Since(m, i) = N - 1 /\ Since(m1, i) = 0
    BY <1>1, <2>1 DEF Since
  <2>3. ASSUME NEW j \in 1 .. N
        PROVE  /\ Since(m, j) \in 0 .. N - 1
               /\ j # i => Since(m1, j) = Since(m, j) + 1
    BY <1>1, <2>1 DEF Since
  <2> QED
    BY <1>4, <2>2, <2>3
<1> QED
  BY <1>3, <1>5, <1>6

(* The pool is balanced. *)
LEMMA PicksAreBalanced == PicksOK => Balanced
<1> SUFFICES ASSUME PicksOK, NEW i \in Subchannels, NEW j \in Subchannels, i < j
             PROVE  picks[i] \in {picks[j], picks[j] + 1}
  BY DEF Balanced
<1> DEFINE k == rr_index \div N
           m == rr_index % N
<1>1. k \in Nat /\ m \in 0 .. N - 1 /\ N \in Nat
  BY NextLap DEF PicksOK
<1>2. /\ picks[i] = k + (IF i <= m THEN 1 ELSE 0)
      /\ picks[j] = k + (IF j <= m THEN 1 ELSE 0)
  BY DEF PicksOK, Laps, Mark
<1>3. i \in Int /\ j \in Int
  BY <1>1 DEF Subchannels, N
<1> HIDE DEF k, m
<1> QED
  BY <1>1, <1>2, <1>3

LEMMA SubchannelCount == IsFiniteSet(Subchannels) /\ Cardinality(Subchannels) = N /\ N \in Nat /\ N >= 1
<1>1. N \in Nat /\ N >= 1 /\ Subchannels = 1 .. N
  BY GrpcClientAssumption DEF N, Subchannels
<1> QED
  BY <1>1, FS_Interval

-----------------------------------------------------------------------------
(* The call. *)

(* An attempt, the first one or a later one. *)
LEMMA AttemptStep ==
    ASSUME ClientIInv, Attempt, attempt' \in Nat,
           \/ attempt' = 1
           \/ pc # "idle" /\ attempt' = attempt + 1,
           attempt' <= max_retries + 1,
           backoff' \in Nat, backoff' <= Max({initial_backoff, max_backoff}),
           slept' \in Nat, slept' <= Max({initial_backoff, max_backoff})
    PROVE  ClientIInv'
<1> USE DEF ClientIInv
<1>1. PICK i \in Subchannels :
        get_channel(i) /\ tried' = (IF attempt' = 1 THEN {} ELSE tried) \cup {i}
  BY DEF Attempt
<1>2. pc' = "performing" /\ outcome' = outcome
  BY DEF Attempt
<1>3. /\ PicksOK'
      /\ Since(Mark, i) = N - 1 /\ Since(Mark', i) = 0
      /\ \A j \in Subchannels \ {i} : Since(Mark', j) = Since(Mark, j) + 1
      /\ \A j \in Subchannels : Since(Mark, j) \in 0 .. N - 1
  BY <1>1, PickStep
<1>4. LimitsOK'
  BY <1>2 DEF LimitsOK
<1>5. OutcomeOK'
  BY <1>2 DEF OutcomeOK
<1>6. N \in Nat /\ N >= 1 /\ IsFiniteSet(Subchannels) /\ Cardinality(Subchannels) = N
  BY SubchannelCount
<1>7. TriedOK'
  <2> SUFFICES /\ attempt' >= 1
               /\ tried' = {j \in Subchannels : Since(Mark', j) < attempt'}
               /\ Cardinality(tried') = (IF attempt' <= N THEN attempt' ELSE N)
    BY DEF TriedOK
  <2>1. CASE attempt' = 1
    <3>1. tried' = {i}
      BY <1>1, <2>1
    <3>2. \A j \in Subchannels : Since(Mark', j) < 1 <=> j = i
      BY <1>3, <1>6
    <3>3. Cardinality({i}) = 1
      BY FS_Singleton
    <3> QED
      BY <1>6, <2>1, <3>1, <3>2, <3>3
  <2>2. CASE attempt' # 1
    <3>1. pc # "idle" /\ attempt' = attempt + 1 /\ attempt \in Nat
      BY <2>2 DEF LimitsOK
    <3>2. /\ attempt >= 1
          /\ tried = {j \in Subchannels : Since(Mark, j) < attempt}
          /\ Cardinality(tried) = (IF attempt <= N THEN attempt ELSE N)
      BY <3>1 DEF TriedOK
    <3>3. tried' = tried \cup {i}
      BY <1>1, <2>2
    <3>4. \A j \in Subchannels : j \in tried' <=> Since(Mark', j) < attempt'
      BY <1>3, <1>6, <3>1, <3>2, <3>3
    <3>5. tried' = {j \in Subchannels : Since(Mark', j) < attempt'}
      BY <3>2, <3>3, <3>4
    <3>6. IsFiniteSet(tried)
      BY <1>6, <3>2, FS_Subset
    <3>7. CASE attempt < N
      <4>1. i \notin tried
        BY <1>3, <1>6, <3>1, <3>2, <3>7
      <4>2. Cardinality(tried \cup {i}) = Cardinality(tried) + 1
        BY <3>6, <4>1, FS_AddElement
      <4> QED
        BY <1>6, <3>1, <3>2, <3>3, <3>5, <3>7, <4>2
    <3>8. CASE ~(attempt < N)
      <4>1. i \in tried
        BY <1>3, <1>6, <3>1, <3>2, <3>8
      <4>2. tried' = tried
        BY <3>3, <4>1
      <4> QED
        BY <1>6, <3>1, <3>2, <3>5, <3>8, <4>2
    <3> QED
      BY <3>7, <3>8
  <2> QED
    BY <2>1, <2>2
<1> QED
  BY <1>3, <1>4, <1>5, <1>7

LEMMA CallStep ==
    ASSUME ClientIInv, call
    PROVE  ClientIInv'
<1>1. /\ attempt' = 1 /\ backoff' = initial_backoff /\ slept' = 0 /\ Attempt
  BY DEF call
<1>2. 1 <= max_retries + 1 /\ initial_backoff \in Nat /\ max_backoff \in Nat
  BY GrpcClientAssumption
<1>3. /\ Max({initial_backoff, max_backoff}) \in Nat
      /\ initial_backoff <= Max({initial_backoff, max_backoff})
  BY <1>2, MaxOfTwo
<1>4. 0 <= Max({initial_backoff, max_backoff})
  BY <1>3
<1> QED
  BY <1>1, <1>2, <1>3, <1>4, AttemptStep

LEMMA WakeStep ==
    ASSUME ClientIInv, Wake
    PROVE  ClientIInv'
<1>1. /\ pc = "sleeping" /\ attempt' = attempt + 1
      /\ backoff' = backoff /\ slept' = slept /\ Attempt
  BY DEF Wake
<1>2. /\ attempt \in Nat /\ attempt <= max_retries
      /\ backoff \in Nat /\ backoff <= Max({initial_backoff, max_backoff})
      /\ slept \in Nat /\ slept <= Max({initial_backoff, max_backoff})
  BY <1>1 DEF ClientIInv, LimitsOK
<1>3. attempt + 1 \in Nat /\ attempt + 1 <= max_retries + 1
  BY <1>2, GrpcClientAssumption
<1> QED
  BY <1>1, <1>2, <1>3, AttemptStep

LEMMA RetryStep ==
    ASSUME ClientIInv, NEW reply \in Reply, PerformRetries(reply)
    PROVE  ClientIInv'
<1> USE DEF ClientIInv
<1>1. /\ pc = "performing" /\ attempt <= max_retries /\ pc' = "sleeping"
      /\ slept' = (IF backoff > slept THEN backoff ELSE slept)
      /\ backoff' = Backoff(backoff)
      /\ UNCHANGED <<rr_index, picks, attempt, outcome, tried>>
  BY DEF PerformRetries, Retries, pool_vars
<1>2. /\ max_backoff \in Nat /\ Max({initial_backoff, max_backoff}) \in Nat
      /\ max_backoff <= Max({initial_backoff, max_backoff})
  BY GrpcClientAssumption, MaxOfTwo
<1>3. backoff' \in Nat /\ backoff' <= max_backoff
  <2>1. backoff * backoff_factor \in Nat
    BY GrpcClientAssumption DEF LimitsOK
  <2> DEFINE delay == backoff * backoff_factor
  <2>2. backoff' = IF delay > max_backoff THEN max_backoff ELSE delay
    BY <1>1 DEF Backoff, Capped
  <2> HIDE DEF delay
  <2> QED
    BY <1>2, <2>1, <2>2 DEF delay
<1> DEFINE cap == Max({initial_backoff, max_backoff})
<1>4. LimitsOK'
  <2>1. backoff \in Nat /\ backoff <= cap /\ slept \in Nat /\ slept <= cap /\ attempt \in Nat
    BY DEF LimitsOK
  <2>2. cap \in Nat /\ max_backoff <= cap
    BY <1>2
  <2> HIDE DEF cap
  <2>3. backoff' <= cap /\ slept' \in Nat /\ slept' <= cap
    BY <1>1, <1>2, <1>3, <2>1, <2>2
  <2> QED
    BY <1>1, <1>3, <2>1, <2>3 DEF LimitsOK, cap
<1>5. PicksOK' /\ TriedOK' /\ OutcomeOK'
  BY <1>1 DEF PicksOK, TriedOK, OutcomeOK, Laps, Mark
<1> QED
  BY <1>4, <1>5

(* A call that ends: what it says when the failure is transient. *)
LEMMA EndStep ==
    ASSUME ClientIInv, NEW reply \in Reply, NEW is, pc = "performing", ~Retries(reply),
           Ends(is, reply), rr_index' = rr_index, picks' = picks
    PROVE  ClientIInv'
<1> USE DEF ClientIInv
<1>1. /\ pc' = "idle"
      /\ outcome' = [is |-> is, attempts |-> attempt, reply |-> reply, tried |-> tried]
      /\ UNCHANGED <<attempt, backoff, via, tried, slept>>
  BY DEF Ends
<1>2. PicksOK' /\ TriedOK'
  BY <1>1 DEF PicksOK, TriedOK, Laps, Mark
<1>3. LimitsOK'
  BY <1>1 DEF LimitsOK
<1>4. OutcomeOK'
  <2>1. /\ outcome'.is = is /\ outcome'.attempts = attempt /\ outcome'.reply = reply
        /\ outcome'.tried = tried
    BY <1>1
  <2>2. attempt \in Nat /\ attempt <= max_retries + 1 /\ max_retries \in Nat
    BY GrpcClientAssumption DEF LimitsOK
  <2>3. Cardinality(tried) = (IF attempt <= N THEN attempt ELSE N)
    BY DEF TriedOK
  <2> SUFFICES ASSUME IsTransient(reply)
               PROVE  attempt = max_retries + 1 /\ Cardinality(tried) = Min({max_retries + 1, N})
    BY <2>1 DEF OutcomeOK
  <2>4. attempt = max_retries + 1
    BY <2>2 DEF Retries
  <2>5. Min({max_retries + 1, N}) = IF max_retries + 1 <= N THEN max_retries + 1 ELSE N
    BY <2>2, SubchannelCount, MinOfTwo
  <2> QED
    BY <2>3, <2>4, <2>5
<1> QED
  BY <1>2, <1>3, <1>4

(* Steps of the streams leave the call alone. *)
LEMMA PoolStep ==
    ASSUME ClientIInv, PicksOK', pc = "idle", UNCHANGED call_vars
    PROVE  ClientIInv'
BY DEF ClientIInv, LimitsOK, TriedOK, OutcomeOK, call_vars

LEMMA ClientStep ==
    ASSUME ClientIInv, [ClientNext]_client_vars
    PROVE  ClientIInv'
<1>0. PicksOK
  BY DEF ClientIInv
<1>1. ASSUME rr_index' = rr_index, picks' = picks
      PROVE  PicksOK'
  BY <1>0, <1>1 DEF PicksOK, Laps, Mark
<1>2. ASSUME NEW i \in Subchannels, NEW size \in {0, 1}, pool_create_stream(i, size)
      PROVE  ClientIInv'
  BY <1>0, <1>2, PickStep, PoolStep DEF pool_create_stream
<1>3. ASSUME NEW i \in Subchannels, stream_write_message(i) \/ on_message(i)
      PROVE  ClientIInv'
  BY <1>1, <1>3, PoolStep DEF stream_write_message, on_message
<1>4. CASE reset_metrics
  BY <1>1, <1>4, PoolStep DEF reset_metrics, call_vars
<1>5. CASE call
  BY <1>5, CallStep
<1>6. CASE Wake
  BY <1>6, WakeStep
<1>7. ASSUME NEW reply \in Reply, PerformRetries(reply)
      PROVE  ClientIInv'
  BY <1>7, RetryStep
<1>8. ASSUME NEW reply \in Reply, PerformCroaks(reply) \/ PerformReturns(reply)
      PROVE  ClientIInv'
  BY <1>8, EndStep DEF PerformCroaks, PerformReturns, pool_vars
<1>9. CASE UNCHANGED client_vars
  <2>1. UNCHANGED <<rr_index, picks, pc, attempt, backoff, outcome, tried, slept>>
    BY <1>9 DEF client_vars, call_vars, pool_vars
  <2> QED
    BY <1>1, <2>1 DEF ClientIInv, LimitsOK, TriedOK, OutcomeOK, Mark
<1> QED
  BY <1>2, <1>3, <1>4, <1>5, <1>6, <1>7, <1>8, <1>9 DEF ClientNext

-----------------------------------------------------------------------------
(* Every step of the client and of the pool preserves ClientIInv: the       *)
(* counts of get_channel follow from its counter, and the subchannels a    *)
(* call has tried are the ones the pool picked last.                       *)
THEOREM ClientIInvInductive == ClientSpec => []ClientIInv
<1>1. ClientInit => ClientIInv
  <2> SUFFICES ASSUME ClientInit PROVE ClientIInv
    OBVIOUS
  <2>1. N \in Nat /\ N >= 1 /\ Subchannels = 1 .. N
    BY SubchannelCount DEF Subchannels, N
  <2>2. Laps = 0 /\ Mark = 0
    <3>1. 0 \div N = 0 /\ 0 % N = 0
      BY <2>1
    <3> QED
      BY <3>1 DEF ClientInit, Laps, Mark
  <2>3. PicksOK
    <3>1. \A i \in Subchannels : 0 + (IF i <= 0 THEN 1 ELSE 0) = 0
      BY <2>1
    <3> QED
      BY <2>2, <3>1 DEF ClientInit, PicksOK, ZeroCount
  <2>4. LimitsOK
    <3>1. Max({initial_backoff, max_backoff}) \in Nat
      BY GrpcClientAssumption, MaxOfTwo
    <3> QED
      BY <3>1 DEF ClientInit, LimitsOK
  <2>5. TriedOK /\ OutcomeOK
    BY DEF ClientInit, TriedOK, OutcomeOK, NoOutcome
  <2> QED
    BY <2>3, <2>4, <2>5 DEF ClientIInv
<1>2. ClientIInv /\ [ClientNext]_client_vars => ClientIInv'
  BY ClientStep
<1> QED
  BY <1>1, <1>2, PTL DEF ClientSpec

(* Calls, their retries and streams draw on one counter, and get_channel     *)
(* picks every subchannel as often as any other, give or take one.          *)
THEOREM ThePoolIsBalanced == ClientSpec => []Balanced
<1>1. ClientIInv => Balanced
  BY PicksAreBalanced DEF ClientIInv
<1> QED
  BY <1>1, ClientIInvInductive, PTL

(* A call that croaks on a transient failure has made max_retries + 1        *)
(* attempts on as many subchannels as those allow, and no sleep of a call   *)
(* is longer than the cap or the initial backoff.                           *)
THEOREM CallsGiveUpLate == ClientSpec => []GivesUpLate
<1>1. ClientIInv => GivesUpLate
  BY DEF ClientIInv, LimitsOK, OutcomeOK, GivesUpLate, N
<1> QED
  BY <1>1, ClientIInvInductive, PTL

-----------------------------------------------------------------------------
(* Induction over the subsets of a finite set, and the sum of a function    *)
(* over a finite set by its equations.                                     *)

Pick(s) == CHOOSE y \in s : TRUE
Others(s) == s \ {Pick(s)}

LEMMA RestFacts ==
    ASSUME NEW S, IsFiniteSet(S), NEW s \in SUBSET S
    PROVE  /\ Cardinality(s) \in Nat /\ (Cardinality(s) = 0 <=> s = {})
           /\ s # {} => /\ Pick(s) \in s /\ Others(s) \in SUBSET S
                        /\ Cardinality(Others(s)) = Cardinality(s) - 1
<1>1. IsFiniteSet(s)
  BY FS_Subset
<1>2. Cardinality(s) \in Nat /\ (Cardinality(s) = 0 <=> s = {})
  BY <1>1, FS_CardinalityType, FS_EmptySet
<1>3. ASSUME s # {}
      PROVE  Pick(s) \in s /\ Others(s) \in SUBSET S /\ Cardinality(Others(s)) = Cardinality(s) - 1
  <2>1. Pick(s) \in s
    BY <1>3 DEF Pick
  <2>2. Cardinality(s \ {Pick(s)}) = Cardinality(s) - 1
    BY <1>1, <2>1, FS_RemoveElement
  <2> QED BY <2>1, <2>2 DEF Others
<1> QED BY <1>2, <1>3

LEMMA SubsetInduct ==
    ASSUME NEW S, IsFiniteSet(S), NEW P, {} \in P,
           \A s \in SUBSET S : s # {} /\ Others(s) \in P => s \in P
    PROVE  \A s \in SUBSET S : s \in P
<1> DEFINE N0 == {n \in Nat : \A s \in SUBSET S : Cardinality(s) = n => s \in P}
<1>1. 0 \in N0
  <2>1. \A s \in SUBSET S : Cardinality(s) = 0 => s = {}
    BY RestFacts
  <2> QED BY <2>1
<1>2. ASSUME NEW n \in Nat, n \in N0
      PROVE  n + 1 \in N0
  <2> SUFFICES ASSUME NEW s \in SUBSET S, Cardinality(s) = n + 1
               PROVE  s \in P
    OBVIOUS
  <2>1. s # {} /\ Others(s) \in SUBSET S /\ Cardinality(Others(s)) = n
    <3>1. s # {}
      BY RestFacts
    <3>2. Others(s) \in SUBSET S /\ Cardinality(Others(s)) = Cardinality(s) - 1
      BY <3>1, RestFacts
    <3> QED BY <3>1, <3>2
  <2>2. Others(s) \in P
    BY <1>2, <2>1
  <2> QED BY <2>1, <2>2
<1> HIDE DEF N0
<1>3. Nat \subseteq N0
  BY <1>1, <1>2, Induct
<1> SUFFICES ASSUME NEW s \in SUBSET S
             PROVE  s \in P
  OBVIOUS
<1>4. Cardinality(s) \in N0
  BY <1>3, RestFacts
<1> QED BY <1>4 DEF N0

Adds(g, count, S) ==
    \A s \in SUBSET S : g[s] = IF s = {} THEN 0 ELSE count[Pick(s)] + g[Others(s)]

LEMMA AddsExists ==
    ASSUME NEW S, IsFiniteSet(S), NEW count, \A i \in S : count[i] \in Nat
    PROVE  \E g \in [SUBSET S -> Nat] : Adds(g, count, S)
<1> DEFINE Upto(g, n) ==
               \A s \in SUBSET S : Cardinality(s) <= n
                   => g[s] = IF s = {} THEN 0 ELSE count[Pick(s)] + g[Others(s)]
           Q == {n \in Nat : \E g \in [SUBSET S -> Nat] : Upto(g, n)}
<1>1. 0 \in Q
  <2> DEFINE g == [s \in SUBSET S |-> 0]
  <2>1. \A s \in SUBSET S : Cardinality(s) <= 0 => s = {}
    BY RestFacts
  <2>2. g \in [SUBSET S -> Nat] /\ \A s \in SUBSET S : g[s] = 0
    OBVIOUS
  <2> HIDE DEF g
  <2>3. Upto(g, 0)
    BY <2>1, <2>2
  <2> QED BY <2>2, <2>3
<1>2. ASSUME NEW n \in Nat, n \in Q
      PROVE  n + 1 \in Q
  <2>1. PICK g \in [SUBSET S -> Nat] : Upto(g, n)
    BY <1>2
  <2> DEFINE next(s) == IF s = {} THEN 0 ELSE count[Pick(s)] + g[Others(s)]
             h == [s \in SUBSET S |-> next(s)]
  <2>2. ASSUME NEW s \in SUBSET S
        PROVE  next(s) \in Nat
    <3>1. CASE s = {}
      BY <3>1
    <3>2. CASE s # {}
      <4>1. Pick(s) \in S /\ Others(s) \in SUBSET S
        BY <3>2, RestFacts
      <4> QED BY <3>2, <4>1
    <3> QED BY <3>1, <3>2
  <2>3. h \in [SUBSET S -> Nat] /\ \A s \in SUBSET S : h[s] = next(s)
    <3> HIDE DEF next
    <3> QED BY <2>2
  <2> HIDE DEF h
  <2>4. ASSUME NEW s \in SUBSET S, Cardinality(s) <= n
        PROVE  h[s] = g[s]
    BY <2>1, <2>3, <2>4
  <2>5. ASSUME NEW s \in SUBSET S, Cardinality(s) <= n + 1
        PROVE  h[s] = IF s = {} THEN 0 ELSE count[Pick(s)] + h[Others(s)]
    <3>1. CASE s = {}
      BY <2>3, <3>1
    <3>2. CASE s # {}
      <4>1. Others(s) \in SUBSET S /\ Cardinality(Others(s)) = Cardinality(s) - 1 /\ Cardinality(s) \in Nat
        BY <3>2, RestFacts
      <4>2. Cardinality(Others(s)) <= n
        BY <2>5, <4>1
      <4>3. h[Others(s)] = g[Others(s)]
        BY <2>4, <4>1, <4>2
      <4> QED BY <2>3, <3>2, <4>3
    <3> QED BY <3>1, <3>2
  <2>6. Upto(h, n + 1)
    BY <2>5
  <2> QED BY <2>3, <2>6
<1> HIDE DEF Q
<1>3. Nat \subseteq Q
  BY <1>1, <1>2, Induct
<1>4. S \in SUBSET S /\ Cardinality(S) \in Nat
  BY RestFacts
<1>5. PICK g \in [SUBSET S -> Nat] : Upto(g, Cardinality(S))
  BY <1>3, <1>4 DEF Q
<1>6. \A s \in SUBSET S : Cardinality(s) <= Cardinality(S)
  BY FS_Subset
<1>7. Adds(g, count, S)
  BY <1>5, <1>6 DEF Adds
<1> QED BY <1>7

LEMMA SumAdds ==
    ASSUME NEW S, IsFiniteSet(S), NEW count, \A i \in S : count[i] \in Nat
    PROVE  \E g : Adds(g, count, S) /\ SumOf(count, S) = g[S]
<1> DEFINE rhs(f) == [s \in SUBSET S |-> IF s = {} THEN 0 ELSE count[Pick(s)] + f[Others(s)]]
           Eq(f) == f = rhs(f)
           iter == CHOOSE f : Eq(f)
<1>1. SumOf(count, S) = iter[S]
  BY DEF SumOf, MapThenSumSet, MapThenFoldSet, Pick, Others
<1>2. PICK g \in [SUBSET S -> Nat] : Adds(g, count, S)
  BY AddsExists
<1>3. Eq(g)
  BY <1>2 DEF Adds
<1>4. Eq(iter)
  <2> HIDE DEF Eq
  <2> QED BY <1>3
<1> HIDE DEF iter
<1>5. Adds(iter, count, S)
  <2>1. \A s \in SUBSET S : rhs(iter)[s] = IF s = {} THEN 0 ELSE count[Pick(s)] + iter[Others(s)]
    OBVIOUS
  <2>2. iter = rhs(iter)
    BY <1>4
  <2> HIDE DEF rhs, Eq
  <2> QED BY <2>1, <2>2 DEF Adds
<1> QED BY <1>1, <1>5

(* Counting one more at j. *)
CountsOneMore(c, d, j, S) == \A i \in S : c[i] \in Nat /\ d[i] = c[i] + IF i = j THEN 1 ELSE 0

LEMMA SumOneMore ==
    ASSUME NEW S, IsFiniteSet(S), NEW c, NEW d, NEW j, CountsOneMore(c, d, j, S)
    PROVE  /\ SumOf(c, S) \in Nat
           /\ j \in S => SumOf(d, S) = SumOf(c, S) + 1
           /\ j \notin S => SumOf(d, S) = SumOf(c, S)
<1>0. (\A i \in S : c[i] \in Nat) /\ (\A i \in S : d[i] = c[i] + IF i = j THEN 1 ELSE 0)
  BY DEF CountsOneMore
<1>1. PICK g : Adds(g, c, S) /\ SumOf(c, S) = g[S]
  BY <1>0, SumAdds
<1>2. \A i \in S : d[i] \in Nat
  BY <1>0
<1>3. PICK h : Adds(h, d, S) /\ SumOf(d, S) = h[S]
  BY <1>2, SumAdds
<1> DEFINE P == {s \in SUBSET S : g[s] \in Nat /\ h[s] = g[s] + IF j \in s THEN 1 ELSE 0}
<1>4. {} \in P
  <2>1. {} \in SUBSET S
    OBVIOUS
  <2>2. g[{}] = 0 /\ h[{}] = 0
    BY <1>1, <1>3, <2>1 DEF Adds
  <2> QED BY <2>1, <2>2
<1>5. ASSUME NEW s \in SUBSET S, s # {}, Others(s) \in P
      PROVE  s \in P
  <2> DEFINE x == Pick(s)
             r == Others(s)
  <2>1. x \in s /\ r \in SUBSET S /\ r = s \ {x}
    BY <1>5, RestFacts DEF Others
  <2>2. g[s] = c[x] + g[r] /\ h[s] = d[x] + h[r]
    BY <1>1, <1>3, <1>5 DEF Adds
  <2>3. g[r] \in Nat /\ h[r] = g[r] + IF j \in r THEN 1 ELSE 0
    BY <1>5
  <2> HIDE DEF x, r
  <2>4. c[x] \in Nat /\ d[x] = c[x] + IF x = j THEN 1 ELSE 0
    BY <1>0, <2>1
  <2>5. CASE x = j
    <3>1. j \in s /\ j \notin r
      BY <2>1, <2>5
    <3> QED BY <2>2, <2>3, <2>4, <2>5, <3>1
  <2>6. CASE x # j
    <3>1. j \in s <=> j \in r
      BY <2>1, <2>6
    <3> QED BY <2>2, <2>3, <2>4, <2>6, <3>1
  <2> QED BY <2>5, <2>6
<1> HIDE DEF P
<1>6. \A s \in SUBSET S : s \in P
  BY <1>4, <1>5, SubsetInduct
<1>7. S \in P
  BY <1>6
<1> QED BY <1>1, <1>3, <1>7 DEF P

LEMMA SumOfNothing ==
    ASSUME NEW S, IsFiniteSet(S), NEW c, \A i \in S : c[i] = 0
    PROVE  SumOf(c, S) = 0
<1>1. \A i \in S : c[i] \in Nat
  OBVIOUS
<1>2. PICK g : Adds(g, c, S) /\ SumOf(c, S) = g[S]
  BY <1>1, SumAdds
<1> DEFINE P == {s \in SUBSET S : g[s] = 0}
<1>3. {} \in P
  BY <1>2 DEF Adds
<1>4. ASSUME NEW s \in SUBSET S, s # {}, Others(s) \in P
      PROVE  s \in P
  <2>1. Pick(s) \in S
    BY <1>4, RestFacts
  <2>2. g[s] = c[Pick(s)] + g[Others(s)]
    BY <1>2, <1>4 DEF Adds
  <2> QED BY <1>4, <2>1, <2>2
<1> HIDE DEF P
<1>5. \A s \in SUBSET S : s \in P
  BY <1>3, <1>4, SubsetInduct
<1> QED BY <1>2, <1>5 DEF P

-----------------------------------------------------------------------------
(* The metrics.  An entry and the count of requests on the streams of its   *)
(* subchannels grow together.                                              *)
Sharing(key) == {j \in Subchannels : ExtractKey(j) = key}

EntryOK(e) ==
    /\ e \in [requests: Nat, bytes_sent: Nat, bytes_received: Nat, total_bytes: Nat]
    /\ e.total_bytes = e.bytes_sent + e.bytes_received

CountsOK ==
    /\ streamed \in [Subchannels -> Nat]
    /\ \A i \in Subchannels :
          /\ EntryOK(Entry(ExtractKey(i)))
          /\ Entry(ExtractKey(i)).requests = SumOf(streamed, Sharing(ExtractKey(i)))

LEMMA SharingFinite ==
    ASSUME NEW k
    PROVE  IsFiniteSet(Sharing(k)) /\ Sharing(k) \subseteq Subchannels
<1>1. IsFiniteSet(Subchannels)
  BY SubchannelCount, FS_Interval DEF Subchannels, N
<1>2. Sharing(k) \subseteq Subchannels
  BY DEF Sharing
<1> QED BY <1>1, <1>2, FS_Subset

LEMMA ZeroEntry == EntryOK(ZeroMetrics) /\ ZeroMetrics.requests = 0
BY DEF EntryOK, ZeroMetrics

LEMMA EntryAfter ==
    ASSUME NEW key, NEW f, metrics' = WithEntry(key, f), NEW k
    PROVE  Entry(k)' = IF k = key THEN f ELSE Entry(k)
<1>1. DOMAIN metrics' = DOMAIN metrics \cup {key}
  BY DEF WithEntry
<1>2. k \in DOMAIN metrics' => metrics'[k] = IF k = key THEN f ELSE metrics[k]
  BY DEF WithEntry
<1> QED BY <1>1, <1>2 DEF Entry

(* One request under the key of subchannel i.                              *)
LEMMA RequestCounted ==
    ASSUME CountsOK, NEW i \in Subchannels, NEW size \in Nat,
           record_request(ExtractKey(i), size), streamed' = [streamed EXCEPT ![i] = @ + 1]
    PROVE  CountsOK'
<1> DEFINE key == ExtractKey(i)
           e == Entry(key)
           f == [e EXCEPT !.requests = @ + 1, !.bytes_sent = @ + size, !.total_bytes = @ + size]
<1>1. metrics' = WithEntry(key, f)
  BY DEF record_request
<1>2. EntryOK(e)
  BY DEF CountsOK
<1>3. EntryOK(f) /\ f.requests = e.requests + 1
  <2> HIDE DEF e
  <2>1. PICK r \in Nat, u \in Nat, v \in Nat, w \in Nat :
            e = [requests |-> r, bytes_sent |-> u, bytes_received |-> v, total_bytes |-> w] /\ w = u + v
    BY <1>2 DEF EntryOK
  <2> DEFINE f1 == [e EXCEPT !.requests = @ + 1]
             f2 == [f1 EXCEPT !.bytes_sent = @ + size]
             f3 == [f2 EXCEPT !.total_bytes = @ + size]
  <2>2. f = [requests |-> r + 1, bytes_sent |-> u + size, bytes_received |-> v, total_bytes |-> w + size]
    <3>1. f1 = [requests |-> r + 1, bytes_sent |-> u, bytes_received |-> v, total_bytes |-> w]
      BY <2>1
    <3> HIDE DEF f1
    <3>2. f2 = [requests |-> r + 1, bytes_sent |-> u + size, bytes_received |-> v, total_bytes |-> w]
      BY <3>1
    <3> HIDE DEF f2
    <3>3. f3 = [requests |-> r + 1, bytes_sent |-> u + size, bytes_received |-> v, total_bytes |-> w + size]
      BY <3>2
    <3>4. f = f3
      BY <2>1, <3>1, <3>2 DEF f1, f2
    <3> HIDE DEF f, f3
    <3> QED BY <3>3, <3>4
  <2> HIDE DEF f
  <2> QED BY <2>1, <2>2 DEF EntryOK
<1> HIDE DEF f
<1>4. /\ streamed \in [Subchannels -> Nat] /\ streamed' \in [Subchannels -> Nat]
      /\ \A j \in Subchannels : streamed'[j] = streamed[j] + IF j = i THEN 1 ELSE 0
  BY DEF CountsOK
<1>5. ASSUME NEW j \in Subchannels
      PROVE  /\ EntryOK(Entry(ExtractKey(j)))'
             /\ Entry(ExtractKey(j))'.requests = SumOf(streamed', Sharing(ExtractKey(j)))
  <2> DEFINE k == ExtractKey(j)
             S == Sharing(k)
  <2>1. IsFiniteSet(S) /\ S \subseteq Subchannels
    BY SharingFinite
  <2>2. Entry(k)' = IF k = key THEN f ELSE Entry(k)
    <3> HIDE DEF k, key
    <3> QED BY <1>1, EntryAfter
  <2>3. i \in S <=> k = key
    BY DEF Sharing
  <2>4. EntryOK(Entry(k)) /\ Entry(k).requests = SumOf(streamed, S)
    BY DEF CountsOK
  <2> HIDE DEF S
  <2>5. /\ SumOf(streamed, S) \in Nat
        /\ i \in S => SumOf(streamed', S) = SumOf(streamed, S) + 1
        /\ i \notin S => SumOf(streamed', S) = SumOf(streamed, S)
    <3>1. CountsOneMore(streamed, streamed', i, S)
      BY <1>4, <2>1 DEF CountsOneMore
    <3> QED BY <2>1, <3>1, SumOneMore
  <2>6. CASE k = key
    <3>1. Entry(k)' = f /\ Entry(k) = e
      BY <2>2, <2>6
    <3>2. EntryOK(Entry(k)')
      BY <1>3, <3>1
    <3> HIDE DEF k, key, e
    <3>3. Entry(k)'.requests = SumOf(streamed', S)
      BY <1>3, <2>3, <2>4, <2>5, <2>6, <3>1
    <3> QED BY <3>2, <3>3 DEF k, S
  <2>7. CASE k # key
    <3>1. Entry(k)' = Entry(k)
      BY <2>2, <2>7
    <3>2. EntryOK(Entry(k)')
      BY <2>4, <3>1
    <3> HIDE DEF k, key
    <3>3. Entry(k)'.requests = SumOf(streamed', S)
      BY <2>3, <2>4, <2>5, <2>7, <3>1
    <3> QED BY <3>2, <3>3 DEF k, S
  <2> QED BY <2>6, <2>7
<1> QED BY <1>4, <1>5 DEF CountsOK

LEMMA ResponseCounted ==
    ASSUME CountsOK, NEW i, NEW size \in Nat,
           record_response(ExtractKey(i), size), UNCHANGED streamed
    PROVE  CountsOK'
<1> DEFINE key == ExtractKey(i)
           e == Entry(key)
           f == [e EXCEPT !.bytes_received = @ + size, !.total_bytes = @ + size]
<1>1. metrics' = WithEntry(key, f)
  BY DEF record_response
<1>2. ASSUME NEW j \in Subchannels
      PROVE  EntryOK(Entry(ExtractKey(j))') /\ Entry(ExtractKey(j))'.requests = Entry(ExtractKey(j)).requests
  <2> DEFINE k == ExtractKey(j)
  <2>1. EntryOK(Entry(k))
    BY DEF CountsOK
  <2>2. Entry(k)' = IF k = key THEN f ELSE Entry(k)
    <3> HIDE DEF k, key, f
    <3> QED BY <1>1, EntryAfter
  <2>3. CASE k = key
    <3>1. Entry(k)' = f /\ EntryOK(e)
      BY <2>1, <2>2, <2>3
    <3>2. EntryOK(f) /\ f.requests = e.requests
      <4> HIDE DEF e
      <4>1. PICK r \in Nat, u \in Nat, v \in Nat, w \in Nat :
                e = [requests |-> r, bytes_sent |-> u, bytes_received |-> v, total_bytes |-> w] /\ w = u + v
        BY <3>1 DEF EntryOK
      <4> DEFINE f1 == [e EXCEPT !.bytes_received = @ + size]
                 f2 == [f1 EXCEPT !.total_bytes = @ + size]
      <4>2. f = [requests |-> r, bytes_sent |-> u, bytes_received |-> v + size, total_bytes |-> w + size]
        <5>1. f1 = [requests |-> r, bytes_sent |-> u, bytes_received |-> v + size, total_bytes |-> w]
          BY <4>1
        <5> HIDE DEF f1
        <5>2. f2 = [requests |-> r, bytes_sent |-> u, bytes_received |-> v + size, total_bytes |-> w + size]
          BY <5>1
        <5>3. f = f2
          BY <4>1, <5>1 DEF f1
        <5> HIDE DEF f, f2
        <5> QED BY <5>2, <5>3
      <4> HIDE DEF f
      <4> QED BY <4>1, <4>2 DEF EntryOK
    <3> QED BY <2>3, <3>1, <3>2
  <2>4. CASE k # key
    BY <2>1, <2>2, <2>4
  <2> QED BY <2>3, <2>4
<1> QED BY <1>2 DEF CountsOK

LEMMA MetricsReset ==
    ASSUME reset_metrics
    PROVE  CountsOK'
<1>1. DOMAIN metrics' = DOMAIN metrics /\ \A k \in DOMAIN metrics : metrics'[k] = ZeroMetrics
  BY DEF reset_metrics
<1>2. streamed' = ZeroCount
  BY DEF reset_metrics
<1>3. ZeroCount \in [Subchannels -> Nat] /\ \A i \in Subchannels : ZeroCount[i] = 0
  BY DEF ZeroCount
<1>4. ASSUME NEW i \in Subchannels
      PROVE  Entry(ExtractKey(i))' = ZeroMetrics /\ SumOf(ZeroCount, Sharing(ExtractKey(i))) = 0
  BY <1>1, <1>3, SharingFinite, SumOfNothing DEF Entry
<1> QED BY <1>2, <1>3, <1>4, ZeroEntry DEF CountsOK

(* The metrics and the requests put on the streams agree for every list of  *)
(* addresses, in whatever forms they are given (record_request,            *)
(* _extract_ip_key and reset_metrics).                                     *)
THEOREM CountsInvariance == ClientSpec => []CountsOK
<1>1. ClientInit => CountsOK
  <2> SUFFICES ASSUME ClientInit
               PROVE  CountsOK
    OBVIOUS
  <2>1. \A k : Entry(k) = ZeroMetrics
    BY DEF ClientInit, Entry
  <2>2. ZeroCount \in [Subchannels -> Nat] /\ (\A i \in Subchannels : ZeroCount[i] = 0) /\ streamed = ZeroCount
    BY DEF ClientInit, ZeroCount
  <2>3. ASSUME NEW i \in Subchannels
        PROVE  SumOf(ZeroCount, Sharing(ExtractKey(i))) = 0
    BY <2>2, SharingFinite, SumOfNothing
  <2> QED BY <2>1, <2>2, <2>3, ZeroEntry DEF CountsOK
<1>2. CountsOK /\ [ClientNext]_client_vars => CountsOK'
  <2> SUFFICES ASSUME CountsOK, [ClientNext]_client_vars
               PROVE  CountsOK'
    OBVIOUS
  <2>1. ASSUME NEW i \in Subchannels, NEW size \in {0, 1}, pool_create_stream(i, size)
        PROVE  CountsOK'
    BY <2>1, RequestCounted DEF pool_create_stream
  <2>2. ASSUME NEW i \in Subchannels, stream_write_message(i)
        PROVE  CountsOK'
    BY <2>2, RequestCounted DEF stream_write_message
  <2>3. ASSUME NEW i \in Subchannels, on_message(i)
        PROVE  CountsOK'
    BY <2>3, ResponseCounted DEF on_message
  <2>4. CASE reset_metrics
    BY <2>4, MetricsReset
  <2>5. ASSUME NEW reply \in Reply, PerformReturns(reply)
        PROVE  CountsOK'
    BY <2>5, ResponseCounted DEF PerformReturns
  <2>6. CASE UNCHANGED <<metrics, streamed>>
    BY <2>6 DEF CountsOK, Entry
  <2>7. CASE call \/ Wake \/ (\E reply \in Reply : PerformRetries(reply) \/ PerformCroaks(reply)) \/ UNCHANGED client_vars
    <3>1. UNCHANGED <<metrics, streamed>>
      BY <2>7 DEF call, Wake, Attempt, PerformRetries, PerformCroaks, client_vars, pool_vars
    <3> QED BY <2>6, <3>1
  <2> QED BY <2>1, <2>2, <2>3, <2>4, <2>5, <2>7 DEF ClientNext
<1> QED BY <1>1, <1>2, PTL DEF ClientSpec

(* The entries made under the addresses as they were given stay, and those  *)
(* that are not bare hosts are never recorded under.                       *)
GivenOK ==
    /\ \A i \in Subchannels : GivenKey(i) \in DOMAIN metrics
    /\ \A k \in DOMAIN metrics :
          k.form \in {"bracketed", "ported"} => metrics[k] = ZeroMetrics

LEMMA ExtractedForm ==
    ASSUME NEW i
    PROVE  ExtractKey(i).form \in {"bare", "wrapped"}
BY DEF ExtractKey, Extract

LEMMA RecordKeepsGiven ==
    ASSUME GivenOK, NEW i, NEW f, metrics' = WithEntry(ExtractKey(i), f)
    PROVE  GivenOK'
<1> DEFINE key == ExtractKey(i)
<1>1. key.form \in {"bare", "wrapped"}
  BY ExtractedForm
<1> HIDE DEF key
<1>2. DOMAIN metrics' = DOMAIN metrics \cup {key}
  BY DEF WithEntry, key
<1>3. \A k \in DOMAIN metrics' : metrics'[k] = IF k = key THEN f ELSE metrics[k]
  BY DEF WithEntry, key
<1>4. ASSUME NEW k \in DOMAIN metrics', k.form \in {"bracketed", "ported"}
      PROVE  metrics'[k] = ZeroMetrics
  <2>1. k # key
    BY <1>1, <1>4
  <2> QED BY <1>2, <1>3, <1>4, <2>1 DEF GivenOK
<1> QED BY <1>2, <1>4 DEF GivenOK, GivenKey

LEMMA GivenInvariance == ClientSpec => []GivenOK
<1>1. ClientInit => GivenOK
  BY DEF ClientInit, GivenOK
<1>2. GivenOK /\ [ClientNext]_client_vars => GivenOK'
  <2> SUFFICES ASSUME GivenOK, [ClientNext]_client_vars
               PROVE  GivenOK'
    OBVIOUS
  <2>1. ASSUME NEW i \in Subchannels, NEW size \in {0, 1}, pool_create_stream(i, size)
        PROVE  GivenOK'
    BY <2>1, RecordKeepsGiven DEF pool_create_stream, record_request
  <2>2. ASSUME NEW i \in Subchannels, stream_write_message(i)
        PROVE  GivenOK'
    BY <2>2, RecordKeepsGiven DEF stream_write_message, record_request
  <2>3. ASSUME NEW i \in Subchannels, on_message(i)
        PROVE  GivenOK'
    BY <2>3, RecordKeepsGiven DEF on_message, record_response
  <2>4. CASE reset_metrics
    BY <2>4 DEF reset_metrics, GivenOK, GivenKey
  <2>5. ASSUME NEW reply \in Reply, PerformReturns(reply)
        PROVE  GivenOK'
    BY <2>5, RecordKeepsGiven DEF PerformReturns, record_response
  <2>6. CASE UNCHANGED metrics
    BY <2>6 DEF GivenOK, GivenKey
  <2>7. CASE call \/ Wake \/ (\E reply \in Reply : PerformRetries(reply) \/ PerformCroaks(reply)) \/ UNCHANGED client_vars
    <3>1. UNCHANGED metrics
      BY <2>7 DEF call, Wake, Attempt, PerformRetries, PerformCroaks, client_vars, pool_vars
    <3> QED BY <2>6, <3>1
  <2> QED BY <2>1, <2>2, <2>3, <2>4, <2>5, <2>7 DEF ClientNext
<1> QED BY <1>1, <1>2, PTL DEF ClientSpec

(* The entry a subchannel records under counts every request put on the     *)
(* streams that share the key since the last reset, and get_metrics shows  *)
(* it under the address given exactly for bare hosts; every other address  *)
(* shows the zero entry of _init_pool.                                     *)
THEOREM StreamsCounted == ClientSpec => []StreamsAreCounted
<1>1. CountsOK /\ GivenOK => StreamsAreCounted
  <2> SUFFICES ASSUME CountsOK, GivenOK, NEW i \in Subchannels
               PROVE  LET counted == SumOf(streamed, {j \in Subchannels : ExtractKey(j) = ExtractKey(i)})
                          entry == Entry(ExtractKey(i))
                      IN  /\ entry.requests = counted
                          /\ entry.total_bytes = entry.bytes_sent + entry.bytes_received
                          /\ get_metrics(GivenKey(i)).requests =
                                IF resolved_ips[i].form = "bare" THEN counted ELSE 0
    BY DEF StreamsAreCounted
  <2> DEFINE counted == SumOf(streamed, {j \in Subchannels : ExtractKey(j) = ExtractKey(i)})
             entry == Entry(ExtractKey(i))
  <2>1. entry.requests = counted /\ entry.total_bytes = entry.bytes_sent + entry.bytes_received
    BY DEF CountsOK, EntryOK, Sharing
  <2>2. get_metrics(GivenKey(i)) = metrics[GivenKey(i)] /\ GivenKey(i) \in DOMAIN metrics
    BY DEF GivenOK, get_metrics
  <2>3. CASE resolved_ips[i].form = "bare"
    <3>1. GivenKey(i) = ExtractKey(i)
      BY <2>3, GrpcClientAssumption DEF GivenKey, ExtractKey, Extract, Target, Subchannels
    <3>2. get_metrics(GivenKey(i)) = entry
      BY <2>2, <3>1 DEF Entry
    <3> QED BY <2>1, <2>3, <3>2
  <2>4. CASE resolved_ips[i].form # "bare"
    <3>1. GivenKey(i).form \in {"bracketed", "ported"}
      BY <2>4, GrpcClientAssumption DEF GivenKey, Subchannels
    <3>2. metrics[GivenKey(i)] = ZeroMetrics
      BY <2>2, <3>1 DEF GivenOK
    <3> QED BY <2>1, <2>2, <2>4, <3>2, ZeroEntry
  <2> QED BY <2>3, <2>4
<1> QED BY <1>1, CountsInvariance, GivenInvariance, PTL
=============================================================================
