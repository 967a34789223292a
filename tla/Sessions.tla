------------------------------ MODULE Sessions ------------------------------
(***************************************************************************)
(* RTSP/HTTP sessions, the streams they own and the adapters the streams   *)
(* are attached to: read_rtsp and close_http (minisatip.cpp), setup_stream,*)
(* start_play, close_stream, stream_timeout (stream.cpp), the attach,      *)
(* detach, tune, open and close operations of adapter.cpp.                 *)
(*                                                                         *)
(* Requests and connection closes run in the main thread.  A stream's      *)
(* timeout runs in the main thread until PLAY moves it to the thread of    *)
(* its adapter; from then on it races the requests.  A step is what one    *)
(* thread does under one mutex; a thread that keeps an index or a pointer  *)
(* across two steps keeps it in proc.                                      *)
(***************************************************************************)
EXTENDS Integers, FiniteSets, FiniteSetsExt

CONSTANTS RtspConns,      \* RTSP client connections
          HttpConns,      \* HTTP client connections
          NumStreams,     \* MAX_STREAMS
          NumAdapters,    \* MAX_ADAPTERS
          Transports,     \* what SETUP may ask for: "udp", "tcp"
          Muxes,          \* transponders a client can ask for
          NoMux,          \* no tuning parameters
          SlaveAdapters,  \* adapters that share a signal with another one
          IdleClose,      \* adapters close when unused (adapter-timeout # 0)
          AdapterLoss,    \* adapters may fail (device or server removed), once
          NeverTimesOut,  \* some clients (LIVE555, Lavf) disable the timeout
          PidTableFull,   \* the pid table of an adapter may be full
          Main            \* the main thread

Sids == 0 .. NumStreams - 1
Adapters == 0 .. NumAdapters - 1
Conns == RtspConns \cup HttpConns
Threads == Adapters \cup {Main}

ASSUME SessionsAssumption ==
    /\ NumStreams \in Nat \ {0} /\ NumAdapters \in Nat \ {0}
    /\ RtspConns \cap HttpConns = {}
    /\ NoMux \notin Muxes /\ SlaveAdapters \subseteq Adapters
    /\ Main \notin Adapters /\ Transports \subseteq {"udp", "tcp"}
    /\ {IdleClose, AdapterLoss, NeverTimesOut, PidTableFull} \subseteq BOOLEAN

VARIABLES stream,   \* the streams pool
          conn,     \* the client connections
          ad,       \* the adapters
          proc,     \* what each thread is doing
          fault,    \* history: a handler went on with a stream closed under it, or a
                    \* tune that was due was dropped
          lost      \* history: the adapters closed while streams used them

vars == <<stream, conn, ad, proc, fault, lost>>

\* timeout is FALSE for sid->timeout = 0; a forced close (1) is a timeout that
\* has expired.  dest is the client an RTP socket sends to (sid->sa); it is the
\* one field streams_add does not reset.  owner is history: the connections
\* that created or resumed the stream.
FreeStream == [state |-> "free", adapter |-> -1, type |-> "none",
               do_play |-> FALSE, timeout |-> TRUE, tp |-> NoMux,
               thread |-> Main, dest |-> Main, owner |-> {}]

ClosedAdapter == [enabled |-> FALSE, master |-> -1, cnt |-> 0, tp |-> NoMux,
                  do_tune |-> FALSE, owners |-> {}]

Idle == [pc |-> "idle", sid |-> -1, ad |-> -1]

TypeOK ==
    /\ stream \in [Sids -> [state : {"free", "live", "closing"},
                            adapter : Adapters \cup {-1},
                            type : {"none", "udp", "tcp", "http"},
                            do_play : BOOLEAN,
                            timeout : BOOLEAN,
                            tp : Muxes \cup {NoMux},
                            thread : Threads,
                            dest : Conns \cup {Main}, owner : SUBSET Conns]]
    /\ conn \in [Conns -> [open : BOOLEAN, sid : Sids \cup {-1}, cb : BOOLEAN]]
    /\ ad \in [Adapters -> [enabled : BOOLEAN, master : Sids \cup {-1},
                            cnt : Nat, tp : Muxes \cup {NoMux},
                            do_tune : BOOLEAN, owners : SUBSET Sids]]
    /\ proc \in [Threads -> [pc : {"idle", "play", "select", "attach", "params",
                                   "tune", "disable", "detach", "unlink",
                                   "release", "adclose"},
                             sid : Sids \cup {-1}, ad : Adapters \cup {-1}]]
    /\ fault \in BOOLEAN /\ lost \subseteq Adapters

Init == /\ stream = [i \in Sids |-> FreeStream]
        /\ conn = [c \in Conns |-> [open |-> FALSE, sid |-> -1, cb |-> TRUE]]
        /\ ad = [a \in Adapters |-> ClosedAdapter]
        /\ proc = [t \in Threads |-> Idle]
        /\ fault = FALSE /\ lost = {}

----------------------------------------------------------------------------
(* Helpers *)

Live(i) == i # -1 /\ stream[i].state = "live"      \* get_sid(i) # NULL
Up(a) == a # -1 /\ ad[a].enabled                   \* get_adapter(a) # NULL
Goto(t, label) == proc' = [proc EXCEPT ![t].pc = label]

\* streams that iteration over the pool finds attached to adapter a
Attached(a) == {i \in Sids : stream[i].state = "live" /\ stream[i].adapter = a}

\* streams being closed whose adapter has not been told yet
Leaving(a) == {proc[t].sid : t \in {u \in Threads : /\ proc[u].pc = "detach"
                                                   /\ proc[u].ad = a}}

\* the main thread holds the mutex of stream i inside start_play
InPlay(i) == /\ proc[Main].sid = i
             /\ proc[Main].pc \in {"select", "attach", "params", "tune"}

\* compare_tunning_parameters: the adapter is gone or is tuned elsewhere
Differs(a, tp) == ~Up(a) \/ ad[a].tp # tp

\* a faulty variant: no new master is elected
DetachKeepMaster(r, a, S) ==
    LET cnt == Max({0, r.cnt - Cardinality(S)})
    IN  IF cnt = 0 THEN [r EXCEPT !.master = -1, !.cnt = 0, !.tp = NoMux, !.owners = {}]
                   ELSE [r EXCEPT !.cnt = cnt, !.owners = @ \ S]

\* a faulty variant: the pids are deleted only with the last stream
DetachKeepPids(r, a, S) ==
    LET cnt == Max({0, r.cnt - Cardinality(S)})
    IN  IF cnt = 0 THEN [r EXCEPT !.master = -1, !.cnt = 0, !.tp = NoMux, !.owners = {}]
                   ELSE [r EXCEPT !.master = IF @ \in S THEN -1 ELSE @, !.cnt = cnt]

\* close_adapter_for_stream: record r of adapter a without the streams S
Detach(r, a, S) ==
    LET rest == Attached(a) \ S
        cnt == Max({0, r.cnt - Cardinality(S)})
        master == CASE r.master \notin S           -> r.master
                    [] r.master \in S /\ rest # {} -> Max(rest)
                    [] OTHER                       -> -1
    IN  IF cnt = 0 THEN [r EXCEPT !.master = -1, !.cnt = 0, !.tp = NoMux,
                                  !.owners = {}]
                   ELSE [r EXCEPT !.master = master, !.cnt = cnt,
                                  !.owners = @ \ S]

\* close_stream run to its end for every stream of S by one thread
AdsWithout(S) ==
    [a \in Adapters |->
        LET mine == S \cap Attached(a)
        IN  IF Up(a) /\ mine # {} THEN Detach(ad[a], a, mine) ELSE ad[a]]

Released(i) == [FreeStream EXCEPT !.dest = stream[i].dest]

StreamsWithout(S) ==
    [i \in Sids |-> IF i \in S THEN Released(i) ELSE stream[i]]

\* a faulty variant: the close callback is removed, the stream number is not
ConnsKeepSid(S) ==
    [c \in Conns |-> IF c \in RtspConns /\ conn[c].sid \in S
                     THEN [conn[c] EXCEPT !.cb = FALSE] ELSE conn[c]]

\* sockets_del_for_sid: RTSP sockets forget the stream and lose their close
\* callback; HTTP sockets are not in the list
ConnsWithout(S) ==
    [c \in Conns |-> IF c \in RtspConns /\ conn[c].sid \in S
                     THEN [conn[c] EXCEPT !.sid = -1, !.cb = FALSE]
                     ELSE conn[c]]

----------------------------------------------------------------------------
(* Requests: read_rtsp up to the call of start_play *)

ConnOpen(c) == /\ ~conn[c].open
               /\ conn' = [conn EXCEPT ![c] = [open |-> TRUE, sid |-> -1, cb |-> TRUE]]
               /\ UNCHANGED <<stream, ad, proc, fault, lost>>

\* the streams a Session: header of connection c can name (find_session_id)
Resumable(c) == IF c \in RtspConns /\ conn[c].sid = -1
                THEN {i \in Sids : Live(i) /\ stream[i].type \in {"udp", "tcp"}}
                ELSE {}

\* setup_stream creates stream i for connection c; on HTTP the connection is
\* the transport (start_play sets it first thing).  never: the client is one
\* that disables the timeout.
NewStream(c, i, m, never) ==
    /\ stream[i].state = "free"
    /\ stream' = [stream EXCEPT ![i] =
                    [Released(i) EXCEPT !.state = "live", !.tp = m, !.timeout = ~never, !.owner = {c},
                        !.type = IF c \in HttpConns THEN "http" ELSE "none",
                        !.dest = IF c \in HttpConns THEN Main ELSE @]]
    /\ conn' = [conn EXCEPT ![c].sid = i]

\* setup_stream finds stream i; parameters in the URL replace the stream's
OldStream(c, i, m, never) ==
    /\ Live(i)
    /\ stream' = [stream EXCEPT ![i].tp = IF m = NoMux THEN @ ELSE m,
                                ![i].do_play = @ /\ m = NoMux,
                                ![i].timeout = @ /\ ~never,
                                ![i].owner = IF i \in Resumable(c) THEN @ \cup {c} ELSE @]
    /\ conn' = [conn EXCEPT ![c].sid = i]

\* PLAY on RTSP, GET on HTTP: prepare the stream, then start_play
PlayRequest(c, m, never) ==
    /\ conn[c].open /\ proc[Main].pc = "idle"
    /\ \E i \in Sids :
         /\ \/ conn[c].sid = i /\ OldStream(c, i, m, never)
            \/ i \in Resumable(c) /\ OldStream(c, i, m, never)
            \/ ~Live(conn[c].sid) /\ NewStream(c, i, m, never)
         /\ proc' = [proc EXCEPT ![Main] = [pc |-> "play", sid |-> i, ad |-> -1]]
    /\ UNCHANGED <<ad, fault, lost>>

\* OPTIONS or DESCRIBE with a Session: header
KeepAlive(c) == /\ conn[c].open /\ proc[Main].pc = "idle"
                /\ \E i \in Resumable(c) : OldStream(c, i, NoMux, FALSE)
                /\ UNCHANGED <<ad, proc, fault, lost>>

\* SETUP: setup_stream, decode_transport and the reply.  With another mux the
\* stream leaves its adapter, unless the URL only adds or deletes pids.  A new
\* UDP destination closes every other stream that sends there.  sockFail: a
\* socket of the new transport cannot be made (400).
SetupRequest(c, i, m, ty, never, pidsOnly, sockFail) ==
    LET new == IF Live(i) THEN stream[i] ELSE [Released(i) EXCEPT !.state = "live"]
        tp == IF m = NoMux THEN new.tp ELSE m
        leaves == /\ new.adapter # -1 /\ m # NoMux /\ ~pidsOnly
                  /\ Differs(new.adapter, tp)
        moves == /\ ty = "udp"
                 /\ new.type = "none" \/ (new.type = "udp" /\ new.dest # c)
        same == IF moves /\ ~sockFail
                THEN {j \in Sids \ {i} : Live(j) /\ stream[j].dest = c}
                ELSE {}
        type == IF ty = "udp" /\ new.type = "tcp" THEN "tcp" ELSE ty
    IN  /\ conn[c].open /\ proc[Main].pc = "idle"
        /\ \/ conn[c].sid = i /\ Live(i)
           \/ i \in Resumable(c)
           \/ ~Live(conn[c].sid) /\ stream[i].state = "free"
        /\ sockFail => moves
        /\ stream' = [StreamsWithout(same) EXCEPT
                        ![i] = [new EXCEPT !.tp = tp, !.type = type,
                                  !.dest = IF type = "udp" THEN c ELSE Main,
                                  !.timeout = @ /\ ~never,
                                  !.do_play = @ /\ m = NoMux,
                                  !.owner = IF ~Live(i) \/ i \in Resumable(c)
                                            THEN @ \cup {c} ELSE @,
                                  !.adapter = IF leaves THEN -1 ELSE @]]
        /\ conn' = [ConnsWithout(same) EXCEPT ![c].sid = i]
        /\ ad' = AdsWithout(same \cup (IF leaves THEN {i} ELSE {}))
        /\ UNCHANGED <<proc, fault, lost>>

----------------------------------------------------------------------------
(* start_play, in the main thread, under the stream's mutex *)

Playing(label) == proc[Main].pc = label
Played == proc[Main].sid
Reply == proc' = [proc EXCEPT ![Main] = Idle]

\* no transport: 454.  Otherwise leave an adapter that is tuned elsewhere,
\* unless this stream is its master and the shared signal is in conflict
\* (conf) with a new one.  close_adapter_for_stream looks the stream up by
\* number: if it has been closed meanwhile, sid->adapter keeps its value and
\* the adapter is left twice.
PlayCheck(conf) ==
    LET i == Played
        a == stream[i].adapter
        leaves == /\ Up(a) /\ Differs(a, stream[i].tp)
                  /\ a \notin conf \/ ad[a].master # i
        once == Detach(ad[a], a, {i})
        twice == ~Live(i) /\ a \notin conf /\ once.master # i
    IN  /\ Playing("play")
        /\ fault' = (fault \/ ~Live(i))
        /\ IF stream[i].type = "none"
           THEN Reply /\ UNCHANGED <<stream, ad>>
           ELSE /\ Goto(Main, IF leaves \/ ~Up(a) THEN "select" ELSE "params")
                /\ ad' = IF ~leaves THEN ad
                         ELSE [ad EXCEPT ![a] = IF twice THEN Detach(once, a, {i})
                                                         ELSE once]
                /\ stream' = IF leaves /\ Live(i)
                             THEN [stream EXCEPT ![i].adapter = -1]
                             ELSE stream
        /\ UNCHANGED <<conn, lost>>

\* get_free_adapter without a fe= pin: an adapter on the same mux, else a free
\* or closed one without conflict, else a free one in conflict, in index order.
\* broken adapters fail to open.
First(S) == IF S = {} THEN -1 ELSE Min(S)

GetFreeAdapter(tp, conf, broken) ==
    LET same == {a \in Adapters : Up(a) /\ ad[a].tp = tp}
        free == {a \in Adapters \ conf : IF Up(a) THEN ad[a].cnt = 0
                                                 ELSE a \notin broken}
        slave == {a \in conf : Up(a) /\ ad[a].cnt = 0}
    IN  IF same # {} THEN Min(same) ELSE IF free # {} THEN Min(free) ELSE First(slave)

\* init_hw
Opened == [ClosedAdapter EXCEPT !.enabled = TRUE]

PlaySelect(conf, broken) ==
    LET i == Played
        a == GetFreeAdapter(stream[i].tp, conf, broken)
    IN  /\ Playing("select")
        /\ \/ /\ stream[i].tp = NoMux          \* empty packets to the client
              /\ stream' = [stream EXCEPT ![i].do_play = TRUE]
              /\ Reply
              /\ UNCHANGED ad
           \/ /\ stream[i].tp # NoMux /\ a = -1   \* 503 or 403
              /\ Reply
              /\ UNCHANGED <<stream, ad>>
           \/ /\ stream[i].tp # NoMux /\ a # -1
              /\ stream' = [stream EXCEPT ![i].adapter = a]
              /\ ad' = IF Up(a) THEN ad ELSE [ad EXCEPT ![a] = Opened]
              /\ Goto(Main, "attach")
        /\ UNCHANGED <<conn, fault, lost>>

\* set_adapter_for_stream; its failure is ignored
PlayAttach ==
    LET i == Played
        a == stream[i].adapter
        r == ad[a]
    IN  /\ Playing("attach")
        /\ ad' = IF ~Up(a) THEN ad
                 ELSE [ad EXCEPT ![a].master = IF @ = -1 THEN i ELSE @,
                                 ![a].cnt = @ + 1,
                                 ![a].tp = IF r.cnt = 0 THEN NoMux ELSE @]
        /\ Goto(Main, "params")
        /\ UNCHANGED <<stream, conn, fault, lost>>

\* set_adapter_parameters; only the master may retune, and it takes all the
\* pids away first.  pids: "update" when update_pids fails, "sync" when the
\* table has no room for the new pids (the adapter keeps the new mux and
\* do_tune), "ok" otherwise.
PlayParams(pids) ==
    LET i == Played
        a == stream[i].adapter
        r == ad[a]
        master == IF r.master = -1 THEN i ELSE r.master
        retune == r.tp # stream[i].tp
        rest == IF retune THEN {} ELSE r.owners
    IN  /\ Playing("params")
        /\ \/ /\ ~Up(a)
              /\ Reply
              /\ UNCHANGED <<stream, ad>>
           \/ /\ Up(a) /\ retune /\ master # i
              /\ ad' = [ad EXCEPT ![a].do_tune = FALSE]
              /\ Reply
              /\ UNCHANGED stream
           \/ /\ Up(a) /\ retune /\ master = i /\ pids = "update"
              /\ ad' = [ad EXCEPT ![a].master = i, ![a].do_tune = FALSE, ![a].owners = {}]
              /\ Reply
              /\ UNCHANGED stream
           \/ /\ Up(a) /\ (retune => master = i) /\ pids = "sync"
              /\ \E owners \in {rest, rest \cup {i}} :
                    ad' = [ad EXCEPT ![a].master = master, ![a].do_tune = retune,
                                     ![a].tp = stream[i].tp, ![a].owners = owners]
              /\ Reply
              /\ UNCHANGED stream
           \/ /\ Up(a) /\ (retune => master = i) /\ pids = "ok"
              /\ ad' = [ad EXCEPT ![a].master = master, ![a].do_tune = retune,
                                  ![a].tp = stream[i].tp,
                                  ![a].owners = rest \cup {i}]
              /\ stream' = [stream EXCEPT ![i].do_play = TRUE,
                               ![i].thread = IF @ = Main THEN a ELSE @]
              /\ Goto(Main, "tune")
        /\ fault' = (fault \/ (Up(a) /\ r.do_tune /\ ~ad'[a].do_tune))
        /\ UNCHANGED <<conn, lost>>

\* a faulty variant: tune leaves the other streams where they are
TuneAlone(hwFail) ==
    LET a == stream[Played].adapter
        tunes == Up(a) /\ ad[a].master = Played /\ ad[a].do_tune
    IN  /\ Playing("tune")
        /\ hwFail => tunes
        /\ ad' = IF Up(a) THEN [ad EXCEPT ![a].do_tune = FALSE] ELSE ad
        /\ Reply
        /\ UNCHANGED <<stream, conn, fault, lost>>

\* tune: the master that changed the mux closes the other streams.
\* hwFail: the frontend refuses.
PlayTune(hwFail) ==
    LET i == Played
        a == stream[i].adapter
        tunes == Up(a) /\ ad[a].master = i /\ ad[a].do_tune
        others == IF tunes /\ ad[a].cnt > 1 THEN Attached(a) \ {i} ELSE {}
        r == IF others = {} THEN ad[a] ELSE Detach(ad[a], a, others)
    IN  /\ Playing("tune")
        /\ hwFail => tunes
        /\ ad' = IF ~Up(a) THEN ad
                 ELSE [ad EXCEPT ![a] =
                         [r EXCEPT !.do_tune = FALSE,
                                   !.owners = IF hwFail THEN @ \ {i} ELSE @]]
        /\ stream' = StreamsWithout(others)
        /\ conn' = ConnsWithout(others)
        /\ Reply
        /\ UNCHANGED <<fault, lost>>

----------------------------------------------------------------------------
(* close_stream(i), in thread t *)

\* TEARDOWN
Teardown(c) == /\ conn[c].open /\ c \in RtspConns /\ proc[Main].pc = "idle"
               /\ \E i \in {conn[c].sid} \cup Resumable(c) :
                    /\ OldStream(c, i, NoMux, FALSE)
                    /\ proc' = [proc EXCEPT ![Main] = [pc |-> "disable", sid |-> i,
                                                       ad |-> -1]]
               /\ UNCHANGED <<ad, fault, lost>>

\* close_http: a connection that carries the data, or a client that disabled
\* the timeout, takes its stream along.  No callback is left if
\* sockets_del_for_sid has removed it.
ConnClose(c) ==
    LET i == conn[c].sid
        closes == /\ conn[c].cb /\ Live(i)
                  /\ stream[i].type \in {"udp", "none"} => ~stream[i].timeout
    IN  /\ conn[c].open /\ proc[Main].pc = "idle"
        /\ conn' = [conn EXCEPT ![c] = [open |-> FALSE, sid |-> -1, cb |-> TRUE]]
        /\ proc' = IF closes
                   THEN [proc EXCEPT ![Main] = [pc |-> "disable", sid |-> i, ad |-> -1]]
                   ELSE proc
        /\ UNCHANGED <<stream, ad, fault, lost>>

\* the RTP socket reports an error: close_stream_for_socket sets timeout = 1
RtpSocketError(i) == /\ Live(i) /\ stream[i].type = "udp"
                     /\ stream' = [stream EXCEPT ![i].timeout = TRUE]
                     /\ UNCHANGED <<conn, ad, proc, fault, lost>>

\* stream_timeout decides under the stream's mutex, closes after unlocking it
StreamTimeout(t, i) ==
    /\ proc[t].pc = "idle" /\ Live(i) /\ stream[i].thread = t /\ ~InPlay(i)
    /\ stream[i].timeout /\ stream[i].type # "http"
    /\ proc' = [proc EXCEPT ![t] = [pc |-> "disable", sid |-> i, ad |-> -1]]
    /\ UNCHANGED <<stream, conn, ad, fault, lost>>

CloseDisable(t) ==
    LET i == proc[t].sid
    IN  /\ proc[t].pc = "disable" /\ (t # Main => ~InPlay(i))
        /\ IF Live(i)
           THEN /\ stream' = [stream EXCEPT ![i].state = "closing"]
                /\ proc' = [proc EXCEPT ![t].pc = "detach",
                                        ![t].ad = stream[i].adapter]
           ELSE /\ proc' = [proc EXCEPT ![t] = Idle]
                /\ UNCHANGED stream
        /\ UNCHANGED <<conn, ad, fault, lost>>

\* close_adapter_for_stream
CloseDetach(t) ==
    LET a == proc[t].ad
    IN  /\ proc[t].pc = "detach"
        /\ ad' = IF Up(a) THEN [ad EXCEPT ![a] = Detach(@, a, {proc[t].sid})]
                  ELSE ad
        /\ Goto(t, "unlink")
        /\ UNCHANGED <<stream, conn, fault, lost>>

CloseUnlink(t) == /\ proc[t].pc = "unlink"
                  /\ conn' = ConnsWithout({proc[t].sid})
                  /\ Goto(t, "release")
                  /\ UNCHANGED <<stream, ad, fault, lost>>

CloseRelease(t) == /\ proc[t].pc = "release"
                   /\ stream' = [stream EXCEPT ![proc[t].sid] = Released(proc[t].sid)]
                   /\ proc' = [proc EXCEPT ![t] = Idle]
                   /\ UNCHANGED <<conn, ad, fault, lost>>

----------------------------------------------------------------------------
(* close_adapter, in the adapter's thread *)

\* adapter_timeout allows the close only when no stream uses the adapter
AdapterTimeout(a) == /\ IdleClose /\ Up(a) /\ proc[a].pc = "idle"
                     /\ Attached(a) = {}
                     /\ proc' = [proc EXCEPT ![a].pc = "adclose"]
                     /\ UNCHANGED <<stream, conn, ad, fault, lost>>

\* the DVR socket fails, or request_adapter_close
AdapterError(a) == /\ AdapterLoss /\ lost = {} /\ Up(a) /\ proc[a].pc = "idle"
                   /\ proc' = [proc EXCEPT ![a].pc = "adclose"]
                   /\ UNCHANGED <<stream, conn, ad, fault, lost>>

\* the streams stay attached; what else the adapter holds, init_hw resets
CloseAdapter(a) == /\ proc[a].pc = "adclose"
                   /\ ad' = [ad EXCEPT ![a] = ClosedAdapter]
                   /\ proc' = [proc EXCEPT ![a] = Idle]
                   /\ lost' = IF Attached(a) \cup Leaving(a) = {} THEN lost ELSE lost \cup {a}
                   /\ UNCHANGED <<stream, conn, fault>>

----------------------------------------------------------------------------
Next ==
    \/ \E c \in Conns : ConnOpen(c) \/ KeepAlive(c) \/ Teardown(c) \/ ConnClose(c)
    \/ \E c \in Conns, m \in Muxes \cup {NoMux}, never \in {FALSE, NeverTimesOut} :
          \/ PlayRequest(c, m, never)
          \/ \E i \in Sids, ty \in Transports, pidsOnly, sockFail \in BOOLEAN :
                c \in RtspConns /\ SetupRequest(c, i, m, ty, never, pidsOnly, sockFail)
    \/ \E conf \in SUBSET SlaveAdapters :
          \/ PlayCheck(conf)
          \/ \E broken \in SUBSET Adapters : PlaySelect(conf, broken)
    \/ PlayAttach
    \/ \E pids \in {"ok", "update"} \cup (IF PidTableFull THEN {"sync"} ELSE {}) :
          PlayParams(pids)
    \/ \E hwFail \in BOOLEAN : PlayTune(hwFail)
    \/ \E i \in Sids : RtpSocketError(i) \/ \E t \in Threads : StreamTimeout(t, i)
    \/ \E t \in Threads : \/ CloseDisable(t) \/ CloseDetach(t)
                          \/ CloseUnlink(t) \/ CloseRelease(t)
    \/ \E a \in Adapters : AdapterTimeout(a) \/ AdapterError(a) \/ CloseAdapter(a)

Spec == Init /\ [][Next]_vars

----------------------------------------------------------------------------
(* Correctness *)

\* the stream that set_adapter_for_stream is about to count
Arriving(a) == IF proc[Main].pc = "attach" /\ stream[Played].adapter = a
               THEN {Played} ELSE {}

Users(a) == (Attached(a) \ Arriving(a)) \cup Leaving(a)

(* sid_cnt is the number of streams on the adapter, and master_sid is one   *)
(* of them or one that is about to be counted, while requests, timeouts,    *)
(* retunes and closes interleave.  Two cases are outside, since there the   *)
(* code miscounts for good: a start_play that went on with a stream closed  *)
(* after it was looked up (fault: the adapter is kept for nobody), and an   *)
(* adapter that closed while streams used it, by an error or because its    *)
(* idle timeout looked for streams before one came and closed after (lost:  *)
(* reopened it counts from 0, and the streams left take others off the      *)
(* count when they leave, so that it may close under a client).             *)
CountExact ==
    ~fault => \A a \in Adapters \ lost : Up(a) =>
        /\ ad[a].cnt = Cardinality(Users(a))
        /\ ad[a].master # -1 => ad[a].master \in Attached(a) \cup Leaving(a)

(* No pid stays open for a stream that has left the adapter.                *)
PidOwnersAttached ==
    ~fault => \A a \in Adapters : Up(a) => ad[a].owners \subseteq Users(a)

(* A playing stream receives the transponder it asked for or, after a       *)
(* request that failed, none: a retune by the master never leaves another   *)
(* stream on the new mux.                                                   *)
OwnMux == ~fault => \A i \in Sids :
              Live(i) /\ stream[i].do_play /\ stream[i].adapter \notin lost /\ Up(stream[i].adapter) =>
                  LET r == ad[stream[i].adapter]
                  IN  r.tp \in {stream[i].tp, NoMux} \/ r.do_tune \/ InPlay(i)

(* A connection refers only to a stream it created or resumed: closing it   *)
(* never closes the stream of another client that reuses the number.        *)
RtspOwnsStream == \A c \in RtspConns : Live(conn[c].sid) => c \in stream[conn[c].sid].owner
=============================================================================
