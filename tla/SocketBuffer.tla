---------------------------- MODULE SocketBuffer ----------------------------
(***************************************************************************)
(* The output side of one RTSP connection that carries its stream over TCP *)
(* (socketworks.cpp): sockets_writev_prio writes to the socket while       *)
(* nothing is buffered and otherwise appends to a fifo; replies to the     *)
(* client are queued apart (prio_data) so that they overtake the buffered  *)
(* stream; flush_socket sends what is buffered when the socket is writable *)
(* again.  The socket accepts any part of what it is given.                *)
(*                                                                         *)
(* The stream data, the replies and the flush hold the mutex of the        *)
(* socket, so each is one step.  The sender reports and empty frames of    *)
(* stream_timeout do not: they are written from the thread of the adapter  *)
(* under the mutex of the stream only, so the test of the fifo, the write  *)
(* and the buffering of the rest are separate steps.  (Two fifo updates    *)
(* that overlap in memory are a data race that this granularity does not   *)
(* show.)                                                                  *)
(*                                                                         *)
(* Packets are cut into cells, the finest place where a write can stop.    *)
(* find_next_rtsp_header recognises the first cell of a data frame; a fifo *)
(* to which fewer than 8 bytes were ever written makes its unsigned bound  *)
(* wrap, which cells do not show.                                          *)
(***************************************************************************)
EXTENDS Integers, Sequences, FiniteSetsExt, SequencesExt

CONSTANTS NumPackets,  \* bound: packets written in all
          Cells,       \* cells of a packet
          FifoSize,    \* opts.max_sbuf, in cells
          PrioSize     \* MAX_PRIO_DATA, in cells

ASSUME SocketBufferAssumption ==
    /\ NumPackets \in Nat /\ Cells \in Nat \ {0} /\ PrioSize \in Nat
    /\ FifoSize \in Nat /\ FifoSize >= Cells /\ PrioSize <= FifoSize

VARIABLES s,       \* the socket
          wire,    \* history: everything the socket accepted
          written, \* history: the number of packets written so far
          replies, \* history: the replies that were accepted
          timer    \* the write of stream_timeout: its next step and its cells

vars == <<s, wire, written, replies, timer>>

Cell == [id : 1 .. NumPackets, kind : {"data", "reply"}, k : 1 .. Cells]

TypeOK == /\ s \in [fifo : Seq(Cell), prio : Seq(Cell), flush : BOOLEAN,
                    force_close : BOOLEAN, enabled : BOOLEAN]
          /\ Len(s.fifo) <= FifoSize /\ Len(s.prio) <= PrioSize
          /\ wire \in Seq(Cell)
          /\ written \in 0 .. NumPackets
          /\ replies \subseteq 1 .. NumPackets
          /\ timer \in [pc : {"idle", "write", "rest"}, q : Seq(Cell)]

Idle == [pc |-> "idle", q |-> <<>>]

Init == /\ s = [fifo |-> <<>>, prio |-> <<>>, flush |-> FALSE,
                force_close |-> FALSE, enabled |-> TRUE]
        /\ wire = <<>> /\ written = 0 /\ replies = {} /\ timer = Idle

----------------------------------------------------------------------------
(* Helpers *)

Packet(i, kind) == [j \in 1 .. Cells |-> [id |-> i, kind |-> kind, k |-> j]]
First(q, n) == SubSeq(q, 1, n)
After(q, n) == SubSeq(q, n + 1, Len(q))

\* find_next_rtsp_header
NextHeader(q) ==
    LET headers == {j \in DOMAIN q : q[j].kind = "data" /\ q[j].k = 1}
    IN  IF headers = {} THEN -1 ELSE Min(headers) - 1

\* a faulty variant: the buffered stream is dropped without looking for a header
DropAll(r) == IF r.flush THEN [r EXCEPT !.fifo = <<>>, !.flush = FALSE] ELSE r

\* flush_enqued_data_if_needed: drop the stream from the next header on
Dropped(r) ==
    IF ~r.flush THEN r
    ELSE [r EXCEPT !.flush = FALSE,
                   !.fifo = IF NextHeader(@) = -1 THEN @ ELSE First(@, NextHeader(@))]

\* copy_iovec_to_fifo: all of q or nothing
Room(r, q) == Len(q) <= FifoSize - Len(r.fifo)
Buffered(r, q) == IF Room(r, q) THEN [r EXCEPT !.fifo = @ \o q] ELSE r

----------------------------------------------------------------------------
(* sockets_writev_prio *)

\* my_writev on ECONNREFUSED and EPIPE
Outcome == {"taken", "failed", "gone"}
Noted(r, out) == IF out = "gone" THEN [r EXCEPT !.force_close = TRUE] ELSE r

\* a stream packet is written under the mutex of the stream too
MayWrite(kind) == /\ s.enabled /\ written < NumPackets
                  /\ kind = "data" => timer = Idle

\* nothing is buffered: the socket takes n cells and the rest is buffered, or
\* writev returns 0 or an error and the packet is gone
WriteDirect(kind, n, out) ==
    LET q == Packet(written + 1, kind)
    IN  /\ MayWrite(kind) /\ s.fifo = <<>>
        /\ out # "taken" => n = 0
        /\ wire' = wire \o First(q, n)
        /\ s' = IF out # "taken" \/ n = Cells THEN Noted([s EXCEPT !.flush = FALSE], out)
                ELSE Buffered(Dropped(s), After(q, n))
        /\ written' = written + 1
        /\ replies' = IF kind = "reply" /\ out = "taken" THEN replies \cup {written + 1}
                      ELSE replies
        /\ UNCHANGED timer

ReplaceReply ==
    LET q == Packet(written + 1, "reply")
    IN  /\ MayWrite("reply") /\ s.fifo # <<>> /\ ~s.flush
        /\ s' = IF Len(q) <= PrioSize THEN [s EXCEPT !.prio = q] ELSE s
        /\ replies' = IF Len(q) <= PrioSize THEN replies \cup {written + 1} ELSE replies
        /\ written' = written + 1
        /\ UNCHANGED <<wire, timer>>

\* socket_enque_highprio: a reply waits for the end of the current packet
QueueReply ==
    LET q == Packet(written + 1, "reply")
        fits == Len(q) <= PrioSize - Len(s.prio)
    IN  /\ MayWrite("reply") /\ s.fifo # <<>> /\ ~s.flush
        /\ s' = IF fits THEN [s EXCEPT !.prio = @ \o q] ELSE s
        /\ replies' = IF fits THEN replies \cup {written + 1} ELSE replies
        /\ written' = written + 1
        /\ UNCHANGED <<wire, timer>>

\* stream data, or a reply after which the buffered stream is void
WriteBuffered(kind) ==
    LET q == Packet(written + 1, kind)
        r == Dropped(s)
    IN  /\ MayWrite(kind) /\ s.fifo # <<>>
        /\ kind = "reply" => s.flush
        /\ s' = Buffered(r, q)
        /\ replies' = IF kind = "reply" /\ Room(r, q) THEN replies \cup {written + 1}
                      ELSE replies
        /\ written' = written + 1
        /\ UNCHANGED <<wire, timer>>

----------------------------------------------------------------------------
(* stream_timeout: a write of stream data without the mutex of the socket *)

TimerStart == /\ MayWrite("data")
              /\ timer' = [pc |-> IF s.fifo = <<>> THEN "write" ELSE "rest",
                           q |-> Packet(written + 1, "data")]
              /\ written' = written + 1
              /\ UNCHANGED <<s, wire, replies>>

\* the handle of a deleted socket is -1, and nothing is written
TimerWrite(n, out) ==
    /\ timer.pc = "write"
    /\ out # "taken" \/ ~s.enabled => n = 0
    /\ ~s.enabled => out = "failed"
    /\ wire' = wire \o First(timer.q, n)
    /\ IF out # "taken" \/ n = Len(timer.q)
       THEN s' = Noted([s EXCEPT !.flush = FALSE], out) /\ timer' = Idle
       ELSE timer' = [pc |-> "rest", q |-> After(timer.q, n)] /\ UNCHANGED s
    /\ UNCHANGED <<written, replies>>

TimerBuffer == /\ timer.pc = "rest"
               /\ s' = Buffered(Dropped(s), timer.q)
               /\ timer' = Idle
               /\ UNCHANGED <<wire, written, replies>>

----------------------------------------------------------------------------
(* flush_socket, on POLLOUT, which is asked for while the fifo is not empty *)

\* flush_socket_all: the socket takes n cells
FlushAll(n, out) ==
    LET r == Dropped(s)
    IN  /\ s.enabled /\ s.fifo # <<>> /\ ~s.force_close /\ s.prio = <<>>
        /\ n <= Len(r.fifo)
        /\ out # "taken" => n = 0
        /\ wire' = wire \o First(r.fifo, n)
        /\ s' = Noted([r EXCEPT !.fifo = After(@, n)], out)
        /\ UNCHANGED <<written, replies, timer>>

\* a faulty variant: without a header in the fifo the reply waits for one
WaitForHeader(n, m, out) ==
    LET r == Dropped(s)
        left == NextHeader(r.fifo)
    IN  /\ s.enabled /\ s.fifo # <<>> /\ (s.force_close \/ s.prio # <<>>)
        /\ left >= 0 /\ n <= left /\ m <= Len(r.prio)
        /\ n < left \/ out # "taken" => m = 0
        /\ wire' = wire \o First(r.fifo, n) \o First(r.prio, m)
        /\ s' = Noted([r EXCEPT !.fifo = After(@, n), !.prio = After(@, m)], out)
        /\ UNCHANGED <<written, replies, timer>>

\* flush_socket_prio: n cells of the current packet; when it is done, m cells
\* of the replies; either write may fail
FlushPrio(n, m, out) ==
    LET r == Dropped(s)
        left == Max({0, NextHeader(r.fifo)})
    IN  /\ s.enabled /\ s.fifo # <<>> /\ (s.force_close \/ s.prio # <<>>)
        /\ n <= left /\ m <= Len(r.prio)
        /\ n < left => m = 0
        /\ out # "taken" => m = 0 /\ n \in {0, left}
        /\ wire' = wire \o First(r.fifo, n) \o First(r.prio, m)
        /\ s' = Noted([r EXCEPT !.fifo = After(@, n), !.prio = After(@, m)], out)
        /\ UNCHANGED <<written, replies, timer>>

----------------------------------------------------------------------------
(* Requests of other components *)

\* PLAY of another transponder, or close_stream: the buffered stream is void
SetFlushEnquedData == /\ s.enabled /\ ~s.flush
                      /\ s' = [s EXCEPT !.flush = TRUE]
                      /\ UNCHANGED <<wire, written, replies, timer>>

\* sockets_force_close
ForceClose == /\ s.enabled /\ ~s.force_close
              /\ s' = [s EXCEPT !.force_close = TRUE]
              /\ UNCHANGED <<wire, written, replies, timer>>

\* the sweep of select_and_execute deletes the socket (sockets_del)
Sweep == /\ s.enabled /\ s.force_close
         /\ s' = [s EXCEPT !.enabled = FALSE, !.fifo = <<>>, !.prio = <<>>]
         /\ UNCHANGED <<wire, written, replies, timer>>

Flush == \E out \in Outcome, n, m \in 0 .. FifoSize :
            FlushAll(n, out) \/ FlushPrio(n, m, out)

Next == \/ \E kind \in {"data", "reply"} :
              \/ WriteBuffered(kind)
              \/ \E n \in 0 .. Cells, out \in Outcome : WriteDirect(kind, n, out)
        \/ TimerStart \/ TimerBuffer
        \/ \E n \in 0 .. Cells, out \in Outcome : TimerWrite(n, out)
        \/ QueueReply \/ Flush
        \/ SetFlushEnquedData \/ ForceClose \/ Sweep

Spec == Init /\ [][Next]_vars

\* the client goes on reading, and the sweep runs
Progress == Flush /\ (wire' # wire \/ s'.fifo = <<>>)
FairSpec == Spec /\ WF_vars(Progress) /\ WF_vars(Sweep)

----------------------------------------------------------------------------
(* Correctness *)

\* q is a sequence of whole packets, in the order in which they were written
WholePackets(q) ==
    /\ Len(q) % Cells = 0
    /\ \A j \in DOMAIN q :
         /\ q[j].k = ((j - 1) % Cells) + 1
         /\ j > 1 => IF q[j].k = 1 THEN q[j].id > q[j - 1].id ELSE q[j].id = q[j - 1].id

(* Partial writes, a full fifo and dropping the stream on a retune lose     *)
(* data only by whole frames: what the client has and will get of the       *)
(* stream is a sequence of complete frames in order, so it stays in step    *)
(* with the interleaved framing.                                            *)
DataWhole == s.enabled =>
    WholePackets(SelectSeq(wire \o s.fifo \o timer.q, LAMBDA c : c.kind = "data"))

(* A reply that was accepted is never dropped, cut or sent twice, not even  *)
(* when it sits in the fifo while the buffered stream is dropped.           *)
RepliesKept == s.enabled =>
    \A i \in replies :
        SelectSeq(wire \o s.fifo \o s.prio, LAMBDA c : c.id = i) = Packet(i, "reply")

(* As long as the client reads, what is buffered is sent, with replies      *)
(* overtaking the stream or not.                                            *)
BufferDrains == (s.enabled /\ s.fifo # <<>>) ~> (s.fifo = <<>> \/ ~s.enabled)

=============================================================================
