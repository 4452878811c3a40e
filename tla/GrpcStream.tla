----------------------------- MODULE GrpcStream ------------------------------
(***************************************************************************)
(* Google::gRPC::Channel with its streams (Google::gRPC::Stream) over the  *)
(* pure Perl engine: frames put together from chunks, a queue of messages  *)
(* per stream, deadlines that are looked at whenever the stream is used,   *)
(* and the callbacks on_message, on_trailers and on_close.                 *)
(*                                                                         *)
(* The program is single threaded, but user code runs in the callbacks:    *)
(* it takes time, and when reentrant it calls the stream again.  The       *)
(* server sends the same messages on every stream; a frame is a sequence   *)
(* of FrameLen bytes and a chunk is any run of bytes.  The parser and      *)
(* on_message may die; on_trailers and on_close are taken to return.       *)
(***************************************************************************)
EXTENDS Naturals, Sequences, SequencesExt

CONSTANTS
    Streams,
    FrameLen,     \* bytes of a frame
    NumMessages,  \* bound: messages the server may send on a stream
    Timeouts,     \* what create_stream is given: seconds, or None
    Statuses,     \* the grpc-status the server may end with
    MaxNest,      \* bound: how deep on_trailers re-enters itself
    MaxTime,      \* bound: the clock stops here
    None

DEADLINE_EXCEEDED == 4

ASSUME GrpcStreamAssumption ==
    /\ FrameLen \in Nat \ {0}
    /\ NumMessages \in Nat
    /\ Timeouts \subseteq Nat \cup {None}
    /\ Statuses \subseteq Nat \ {DEADLINE_EXCEEDED}
    /\ MaxNest \in Nat \ {0}
    /\ MaxTime \in Nat
    /\ None \notin Nat \cup Streams

VARIABLES
    now,       \* time()
    reentrant, \* the callbacks use the stream they are called for
    stream,    \* the Stream objects
    frames,    \* the frames push_incoming_data has still to hand over
    feeding,   \* the stream whose data feed_input is handling, or None
    inCallback,\* user code is running inside that feed_input
    arrived,   \* how many bytes have come in on each stream
    finished,  \* the server has ended the stream
    taken,     \* history: what recv_message has returned
    torn       \* history: a die went through feed_input

vars == <<now, reentrant, stream, frames, feeding, inCallback, arrived, finished, taken, torn>>

Byte == 1 .. NumMessages * FrameLen
Frame(n) == [i \in 1 .. FrameLen |-> (n - 1) * FrameLen + i]
Sent(s) == [n \in 1 .. arrived[s] \div FrameLen |-> Frame(n)]

NoStream == [state |-> "none", deadline |-> None, status |-> 0,
             read_buffer |-> << >>, response_queue |-> << >>,
             told |-> 0, closes |-> 0, closeStatus |-> None]

TypeOK ==
    /\ now \in Nat
    /\ reentrant \in BOOLEAN
    /\ stream \in [Streams ->
            [state: {"none", "open", "half_closed_local", "closed"},
             deadline: Nat \cup {None}, status: Nat,
             read_buffer: Seq(Byte), response_queue: Seq(Seq(Byte)),
             told: Nat, closes: Nat, closeStatus: Nat \cup {None}]]
    /\ frames \in Seq(Seq(Byte))
    /\ feeding \in Streams \cup {None}
    /\ inCallback \in BOOLEAN
    /\ arrived \in [Streams -> Nat]
    /\ finished \in [Streams -> BOOLEAN]
    /\ taken \in [Streams -> Seq(Seq(Byte))]
    /\ torn \in BOOLEAN

Init ==
    /\ now = 0
    /\ reentrant \in BOOLEAN
    /\ stream = [s \in Streams |-> NoStream]
    /\ frames = << >>
    /\ feeding = None
    /\ inCallback = FALSE
    /\ arrived = [s \in Streams |-> 0]
    /\ finished = [s \in Streams |-> FALSE]
    /\ taken = [s \in Streams |-> << >>]
    /\ torn = FALSE

-----------------------------------------------------------------------------
(* Operations on one Stream object, as functions of the object. *)

Live(r) == r.state \notin {"none", "closed"}
Overdue(r) == r.deadline # None /\ now > r.deadline

(* handle_close tells on_close once. *)
handle_close(r) ==
    IF r.state = "closed" THEN r
    ELSE [r EXCEPT !.state = "closed", !.closes = @ + 1, !.closeStatus = r.status]

(* abort_stream calls on_trailers before the stream is closed: a callback   *)
(* that uses the stream again finds it overdue again, and is called again. *)
abort_stream(r, nest) ==
    handle_close([r EXCEPT !.status = DEADLINE_EXCEEDED, !.told = @ + nest])

(* Faulty variant: a closed stream is looked at too.                       *)
Faulty_check_deadline(r, nest) == IF Overdue(r) THEN abort_stream(r, nest) ELSE r

check_deadline(r, nest) ==
    IF Live(r) /\ Overdue(r) THEN abort_stream(r, nest) ELSE r

(* Faulty variant: trailers are taken from a stream that is closed.        *)
Faulty_handle_trailers(r, status, drains, nest) ==
    [r EXCEPT !.status = status, !.told = @ + 1]

(* handle_trailers does not look at the deadline, but a callback that uses  *)
(* the stream does, and then an answer that came is turned into a timeout. *)
handle_trailers(r, status, drains, nest) ==
    LET told == [r EXCEPT !.status = status, !.told = @ + 1]
    IN  IF r.state = "closed" THEN r
        ELSE IF drains THEN check_deadline(told, nest) ELSE told

(* Faulty variant: a frame that ends with the buffer is not seen.          *)
Faulty_Complete(buf) == IF buf = << >> THEN 0 ELSE (Len(buf) - 1) \div FrameLen

(* Faulty variant: an incomplete frame at the end of a chunk is forgotten. *)
Faulty_Rest(buf) == << >>

(* unpack_frame: the whole frames at the front of the buffer, and the rest. *)
Complete(buf) == Len(buf) \div FrameLen
Frames(buf) == [n \in 1 .. Complete(buf) |->
                    SubSeq(buf, (n - 1) * FrameLen + 1, n * FrameLen)]
Rest(buf) == SubSeq(buf, Complete(buf) * FrameLen + 1, Len(buf))

Nests == 1 .. (IF reentrant THEN MaxNest ELSE 1)

(* User code may call the channel and its streams. *)
UserRuns == feeding = None \/ (inCallback /\ reentrant)

-----------------------------------------------------------------------------
(* The deadline lies before the end of the modelled time. *)
create_stream(s, timeout) ==
    /\ UserRuns
    /\ stream[s].state = "none"
    /\ timeout # None => now + timeout < MaxTime
    /\ stream' = [stream EXCEPT ![s] =
            [NoStream EXCEPT !.state = "open",
                             !.deadline = IF timeout = None THEN None ELSE now + timeout]]
    /\ UNCHANGED <<now, reentrant, frames, feeding, inCallback, arrived, finished, taken, torn>>

(* recv_message looks at the deadline and then shifts the queue, also when  *)
(* the stream is closed; from an empty queue it returns undef.             *)
recv_message(s) ==
    /\ UserRuns
    /\ stream[s].state # "none"
    /\ LET queue == stream[s].response_queue
           shifted == SubSeq(queue, 1, IF queue = << >> THEN 0 ELSE 1)
       IN  /\ \E nest \in Nests :
                 stream' = [stream EXCEPT ![s] =
                     [check_deadline(@, nest) EXCEPT
                         !.response_queue = SubSeq(queue, 2, Len(queue))]]
           /\ taken' = [taken EXCEPT ![s] = @ \o shifted]
    /\ UNCHANGED <<now, reentrant, frames, feeding, inCallback, arrived, finished, torn>>

(* write_message and close_write (end_stream); the engine takes no data. *)
write_message(s, end_stream) ==
    /\ UserRuns
    /\ Live(stream[s])
    /\ \E nest \in Nests :
          LET r == check_deadline(stream[s], nest) IN
          stream' = [stream EXCEPT ![s] =
              IF end_stream /\ r.state # "closed"
              THEN [r EXCEPT !.state = "half_closed_local"] ELSE r]
    /\ UNCHANGED <<now, reentrant, frames, feeding, inCallback, arrived, finished, taken, torn>>

-----------------------------------------------------------------------------
(* feed_input.  The engine finds chunks and ends of streams in the input,   *)
(* one after the other; when it is through with them, the deadlines of all *)
(* streams are looked at.                                                  *)

(* Faulty variant: the streams are not enumerated.                         *)
Faulty_CheckDeadlines(nest) == stream

CheckDeadlines(nest) == [s \in Streams |-> check_deadline(stream[s], nest)]

(* Faulty variant: the state of the stream is not looked at.               *)
Faulty_FeedData(s, n) ==
    /\ frames = << >>
    /\ stream[s].state # "none" /\ ~finished[s]
    /\ n <= NumMessages * FrameLen - arrived[s]
    /\ \E nest \in Nests :
          LET r == check_deadline(stream[s], nest)
              buf == r.read_buffer \o [i \in 1 .. n |-> arrived[s] + i]
          IN  /\ stream' = [stream EXCEPT ![s] = [r EXCEPT !.read_buffer = Rest(buf)]]
              /\ frames' = Frames(buf)
    /\ feeding' = s
    /\ inCallback' = FALSE
    /\ arrived' = [arrived EXCEPT ![s] = @ + n]
    /\ UNCHANGED <<now, reentrant, finished, taken, torn>>

(* The engine hands over a chunk: push_incoming_data up to its loop.  The   *)
(* chunk is lost when the stream is closed or turns out to be overdue.     *)
FeedData(s, n) ==
    /\ frames = << >>
    /\ stream[s].state # "none" /\ ~finished[s]
    /\ n <= NumMessages * FrameLen - arrived[s]
    /\ \E nest \in Nests :
          LET r == check_deadline(stream[s], nest)
              buf == r.read_buffer \o [i \in 1 .. n |-> arrived[s] + i]
          IN  IF r.state = "closed"
              THEN /\ stream' = [stream EXCEPT ![s] = r]
                   /\ UNCHANGED frames
              ELSE /\ stream' = [stream EXCEPT ![s] = [r EXCEPT !.read_buffer = Rest(buf)]]
                   /\ frames' = Frames(buf)
    /\ feeding' = s
    /\ inCallback' = FALSE
    /\ arrived' = [arrived EXCEPT ![s] = @ + n]
    /\ UNCHANGED <<now, reentrant, finished, taken, torn>>

(* One turn of the loop: a message is queued and on_message runs.  The      *)
(* state of the stream is not looked at again.                             *)
Deliver ==
    /\ frames # << >>
    /\ stream' = [stream EXCEPT ![feeding].response_queue = Append(@, Head(frames))]
    /\ frames' = Tail(frames)
    /\ inCallback' = TRUE
    /\ UNCHANGED <<now, reentrant, feeding, arrived, finished, taken, torn>>

(* response_class->parse or on_message dies: the read buffer was replaced    *)
(* already, so this frame, unless it was queued, and the ones behind it are *)
(* lost.  Nothing between here and feed_input's caller catches the die, and *)
(* the deadlines are not looked at.  (What the engine does with the rest    *)
(* of its input is its own affair.)                                         *)
DeliverDies ==
    /\ frames # << >>
    /\ \/ stream' = [stream EXCEPT ![feeding].response_queue = Append(@, Head(frames))]
       \/ UNCHANGED stream
    /\ frames' = << >>
    /\ feeding' = None
    /\ inCallback' = FALSE
    /\ torn' = TRUE
    /\ UNCHANGED <<now, reentrant, arrived, finished, taken>>

FeedReturns ==
    /\ feeding # None
    /\ frames = << >>
    /\ \E nest \in Nests : stream' = CheckDeadlines(nest)
    /\ feeding' = None
    /\ inCallback' = FALSE
    /\ UNCHANGED <<now, reentrant, frames, arrived, finished, taken, torn>>

(* The server ends the stream on a frame boundary: on_done passes the       *)
(* trailers and then the close.                                            *)
FeedDone(s, status) ==
    /\ frames = << >>
    /\ stream[s].state # "none" /\ ~finished[s]
    /\ arrived[s] % FrameLen = 0
    /\ \E nest \in Nests, drains \in {FALSE, reentrant} :
          stream' = [stream EXCEPT ![s] =
                        handle_close(handle_trailers(@, status, drains, nest))]
    /\ finished' = [finished EXCEPT ![s] = TRUE]
    /\ feeding' = s
    /\ inCallback' = TRUE
    /\ UNCHANGED <<now, reentrant, frames, arrived, taken, torn>>

(* get_output looks at the deadlines too. *)
get_output ==
    /\ UserRuns
    /\ \E nest \in Nests : stream' = CheckDeadlines(nest)
    /\ UNCHANGED <<now, reentrant, frames, feeding, inCallback, arrived, finished, taken, torn>>

Tick ==
    /\ now < MaxTime
    /\ now' = now + 1
    /\ UNCHANGED <<reentrant, stream, frames, feeding, inCallback, arrived, finished, taken, torn>>

-----------------------------------------------------------------------------
Next ==
    \/ Tick
    \/ get_output
    \/ Deliver
    \/ DeliverDies
    \/ FeedReturns
    \/ \E s \in Streams :
          \/ \E timeout \in Timeouts : create_stream(s, timeout)
          \/ recv_message(s)
          \/ \E end_stream \in BOOLEAN : write_message(s, end_stream)
          \/ \E n \in Byte : FeedData(s, n)
          \/ \E status \in Statuses : FeedDone(s, status)

Spec == Init /\ [][Next]_vars

(* The application keeps pumping the channel, feed_input returns and time   *)
(* passes; the server owes nothing.                                        *)
FairSpec == Spec /\ WF_vars(Tick) /\ WF_vars(get_output)
                 /\ WF_vars(Deliver) /\ WF_vars(FeedReturns)

-----------------------------------------------------------------------------
(* Properties. *)

(* What the application takes and what is queued for it are together a      *)
(* prefix of what the server sent: nothing is lost in the middle, repeated *)
(* or out of order, however the frames are cut into chunks and even when   *)
(* the deadline strikes while a chunk is being handed over.  (Until a die   *)
(* goes through feed_input: the frames it was handing over are lost.)      *)
InOrder ==
    ~torn => \A s \in Streams : IsPrefix(taken[s] \o stream[s].response_queue, Sent(s))

(* A stream that ends with the server's status has all of its messages,     *)
(* again unless a die went through feed_input.                             *)
CompleteAtServerClose ==
    ~torn => \A s \in Streams :
        stream[s].state = "closed" /\ stream[s].status # DEADLINE_EXCEEDED =>
            IsPrefix(Sent(s), taken[s] \o stream[s].response_queue)

(* on_close is called exactly once, after on_trailers, and with the status  *)
(* the stream keeps: a late answer does not reopen a stream that timed     *)
(* out, nor a late deadline one that was answered.                         *)
ClosedOnce ==
    \A s \in Streams :
        LET r == stream[s] IN
        /\ r.closes = (IF r.state = "closed" THEN 1 ELSE 0)
        /\ r.closes = 1 => r.told >= 1 /\ r.closeStatus = r.status

(* Callbacks that leave the stream alone are told of its end once and are   *)
(* handed no message after on_close.  (One that uses the stream may find   *)
(* it overdue inside on_trailers and is then called again.)                *)
ToldOnceAndLast ==
    [][~reentrant =>
        \A s \in Streams :
            /\ stream'[s].told <= 1
            /\ stream[s].state = "closed" =>
                  Len(stream'[s].response_queue) <= Len(stream[s].response_queue)]_vars

(* A stream with a deadline does not stay open for ever, whatever the       *)
(* server does, as long as the application uses its channel.               *)
DeadlineCloses ==
    \A s \in Streams :
        Live(stream[s]) /\ stream[s].deadline # None ~> ~Live(stream[s])
=============================================================================
