----------------------------- MODULE SatipClient -----------------------------
(***************************************************************************)
(* An adapter that is a tuner of another SAT>IP server (satipc.cpp), over  *)
(* one RTSP connection that also carries the stream (transport TCP).  The  *)
(* client keeps one request outstanding, collects pid changes while it     *)
(* waits, and starts over when the server refuses, forgets the session,    *)
(* falls silent or closes the connection.                                  *)
(*                                                                         *)
(* A handler is a step.  (satipc_set_pid runs under the mutex of the       *)
(* adapter and satipc_reply under that of the socket: two handlers can     *)
(* overlap, which the steps do not show.)  The server, which is not part   *)
(* of the program, answers as the SAT>IP protocol says or fails, at most   *)
(* MaxFaults times.                                                        *)
(***************************************************************************)
EXTENDS Naturals, FiniteSets, TLC

CONSTANTS Muxes, None,  \* transponders, and none
          Pids,
          Kinds,        \* which servers: "minisatip", "enigma", "other"
          Codes,        \* refusals the server may send
          MaxOps,       \* bound: requests of streams to the adapter
          MaxFaults     \* bound: failures of the server

ASSUME SatipClientAssumption ==
    /\ None \notin Muxes /\ IsFiniteSet(Pids)
    /\ Kinds \subseteq {"minisatip", "enigma", "other"}
    /\ Codes \subseteq {"408", "503", "403", "461"}
    /\ MaxOps \in Nat /\ MaxFaults \in Nat

VARIABLES c,       \* the adapter and its satipc record, with the connection
          srv,     \* the server
          ops, faults,
          resumed  \* history: SETUP was sent while the adapter had pids that
                   \* the next PLAY would not name

vars == <<c, srv, ops, faults, resumed>>

NoMsg == [cmd |-> "none"]
NoReply == "none"
Commands == {"options", "describe", "setup", "play", "teardown"}

\* what a request says of the pids: the whole list or a difference
PidList == [full : BOOLEAN, add : SUBSET Pids, del : SUBSET Pids]
NoPids == [full |-> FALSE, add |-> {}, del |-> {}]
Request == [cmd : Commands, transport : BOOLEAN, session : BOOLEAN,
            mux : Muxes \cup {None}, pids : PidList]

TypeOK ==
    /\ c \in [open : BOOLEAN, streams : BOOLEAN, mux : Muxes \cup {None},
              pids : SUBSET Pids, do_tune : BOOLEAN, err : BOOLEAN,
              state : {"inactive", "setup", "play", "teardown"},
              last_cmd : Commands \cup {"none"}, expect_reply : BOOLEAN,
              want_tune : BOOLEAN, force_pids : BOOLEAN, sent_transport : BOOLEAN,
              session : BOOLEAN, ignore_packets : BOOLEAN,
              can_keep : BOOLEAN, keep : BOOLEAN, restart_needed : BOOLEAN,
              closed : BOOLEAN, apid : SUBSET Pids, dpid : SUBSET Pids,
              no_setup : BOOLEAN, restart_when_tune : BOOLEAN,
              num_describe : 0 .. 3, strength : BOOLEAN, conn : BOOLEAN,
              req : Request \cup {NoMsg}, rep : Codes \cup {NoReply, "200", "200t", "404", "454"}]
    /\ srv \in [kind : Kinds, session : BOOLEAN, playing : BOOLEAN,
                mux : Muxes \cup {None}, pids : SUBSET Pids]
    /\ ops \in 0 .. MaxOps /\ faults \in 0 .. MaxFaults /\ resumed \in BOOLEAN

NoSession == [session |-> FALSE, playing |-> FALSE, mux |-> None, pids |-> {}]
Forgets == [srv EXCEPT !.session = FALSE, !.playing = FALSE, !.mux = None, !.pids = {}]

Init == /\ c = [open |-> FALSE, streams |-> FALSE, mux |-> None, pids |-> {},
                do_tune |-> FALSE, err |-> FALSE,
                state |-> "inactive", last_cmd |-> "none", expect_reply |-> FALSE,
                want_tune |-> FALSE, force_pids |-> FALSE, sent_transport |-> FALSE,
                session |-> FALSE, ignore_packets |-> FALSE, can_keep |-> FALSE,
                keep |-> FALSE, restart_needed |-> FALSE, closed |-> FALSE,
                apid |-> {}, dpid |-> {}, no_setup |-> FALSE,
                restart_when_tune |-> FALSE, num_describe |-> 0, strength |-> FALSE, conn |-> FALSE,
                req |-> NoMsg, rep |-> NoReply]
        /\ \E k \in Kinds : srv = [kind |-> k] @@ NoSession
        /\ ops = 0 /\ faults = 0 /\ resumed = FALSE

----------------------------------------------------------------------------
(* Requests *)

\* http_request: one request at a time; the first one with a transport asks
\* for a new session; nothing is sent without a connection
HttpRequest(r, cmd, mux, pids) ==
    IF r.expect_reply THEN r
    ELSE LET fresh == ~r.sent_transport /\ cmd \in {"setup", "play"}
             q == IF fresh
                  THEN [r EXCEPT !.sent_transport = TRUE, !.session = FALSE, !.err = FALSE]
                  ELSE r
         IN  [q EXCEPT !.last_cmd = cmd, !.expect_reply = q.conn,
                       !.req = IF q.conn
                               THEN [cmd |-> cmd, transport |-> fresh, session |-> q.session,
                                     mux |-> mux, pids |-> pids]
                               ELSE @]

SendSetup(r) ==
    HttpRequest([r EXCEPT !.ignore_packets = TRUE, !.want_tune = FALSE,
                          !.sent_transport = FALSE],
                "setup", r.mux, [NoPids EXCEPT !.full = TRUE])

\* a faulty variant: force_pids is not looked at
PidsOfChanges(r, full) ==
    IF full \/ r.pids = {} \/ (r.apid = {} /\ r.dpid = {})
    THEN [full |-> TRUE, add |-> r.pids, del |-> {}]
    ELSE [full |-> FALSE, add |-> r.apid, del |-> r.dpid]

\* satipc_get_pids
PidsOf(r, full) ==
    IF full \/ r.force_pids \/ r.pids = {} \/ (r.apid = {} /\ r.dpid = {})
    THEN [full |-> TRUE, add |-> r.pids, del |-> {}]
    ELSE [full |-> FALSE, add |-> r.apid, del |-> r.dpid]

\* a faulty variant: packets of the old transponder are let through until the reply
SendPlayOpen(r) ==
    LET tuned == r.want_tune \/ ~r.sent_transport
        q == [r EXCEPT !.want_tune = FALSE, !.force_pids = FALSE, !.apid = {}, !.dpid = {}]
    IN  IF r.want_tune \/ r.force_pids \/ r.apid # {} \/ r.dpid # {}
        THEN HttpRequest(q, "play", IF tuned THEN r.mux ELSE None, PidsOf(r, tuned))
        ELSE r

SendPlay(r) ==
    LET tuned == r.want_tune \/ ~r.sent_transport
        q == [r EXCEPT !.ignore_packets = @ \/ tuned, !.want_tune = FALSE,
                       !.force_pids = FALSE, !.apid = {}, !.dpid = {}]
    IN  IF r.want_tune \/ r.force_pids \/ r.apid # {} \/ r.dpid # {}
        THEN HttpRequest(q, "play", IF tuned THEN r.mux ELSE None, PidsOf(r, tuned))
        ELSE r

SendTeardown(r) ==
    LET q == IF r.session THEN HttpRequest(r, "teardown", None, NoPids) ELSE r
    IN  [q EXCEPT !.session = FALSE, !.sent_transport = FALSE]

\* three times in a row, while the signal is not known
SendDescribe(r) ==
    IF r.expect_reply \/ r.strength \/ r.state # "play" THEN r
    ELSE IF r.num_describe = 3 THEN [r EXCEPT !.num_describe = 0]
    ELSE HttpRequest([r EXCEPT !.num_describe = @ + 1], "describe", None, NoPids)

\* satipc_request up to the choice of the command
Prepared(r) ==
    LET q == IF r.state = "inactive" /\ ~r.err /\ r.last_cmd = "teardown"
             THEN [r EXCEPT !.state = "setup"] ELSE r
    IN  IF q.state = "setup"
        THEN [q EXCEPT !.sent_transport = FALSE, !.session = FALSE, !.want_tune = TRUE,
                       !.state = IF q.no_setup THEN "play" ELSE "setup"]
        ELSE q

\* satipc_request
Requested(r) ==
    IF \/ r.closed \/ r.expect_reply
       \/ r.mux = None /\ r.state # "teardown"
       \/ ~r.streams /\ r.state \in {"setup", "play"}
    THEN r
    ELSE LET q == Prepared(r)
         IN  SendDescribe(CASE q.state = "setup" -> SendSetup(q)
                            [] q.state = "play" -> SendPlay(q)
                            [] q.state = "teardown" -> SendTeardown(q)
                            [] OTHER -> q)

----------------------------------------------------------------------------
(* The connection *)

\* a faulty variant: the timer is not told to open the connection again
CloseRtspForGood(r) ==
    [r EXCEPT !.restart_needed = FALSE, !.state = "inactive",
              !.want_tune = TRUE, !.sent_transport = FALSE, !.expect_reply = FALSE,
              !.session = FALSE, !.conn = FALSE, !.req = NoMsg, !.rep = NoReply]

\* satipc_close_rtsp_socket
CloseRtspSocket(r) ==
    [r EXCEPT !.restart_needed = FALSE, !.state = "inactive", !.closed = TRUE,
              !.want_tune = TRUE, !.sent_transport = FALSE, !.expect_reply = FALSE,
              !.session = FALSE, !.conn = FALSE, !.req = NoMsg, !.rep = NoReply]

\* close_adapter with satip_close_device: the streams are closed too
CloseAdapter(r) ==
    [r EXCEPT !.open = FALSE, !.streams = FALSE, !.do_tune = FALSE, !.mux = None, !.pids = {},
              !.state = "inactive", !.last_cmd = IF r.state = "play" /\ r.session /\ ~r.expect_reply
                                                 THEN "teardown" ELSE @,
              !.conn = FALSE, !.req = NoMsg, !.rep = NoReply]

\* satipc_close_rtsp, when the socket of the connection is deleted
CloseRtsp(r) == IF r.keep \/ r.restart_needed THEN CloseRtspSocket(r) ELSE CloseAdapter(r)

\* satipc_open_rtsp_socket and satip_post_init, with a connection that comes up
OpenRtsp(r) ==
    Requested([r EXCEPT !.closed = FALSE, !.conn = TRUE, !.state = "setup"])

\* open_adapter: satipc_open_device, then satip_post_init
Open ==
    /\ ~c.open
    /\ c' = OpenRtsp([c EXCEPT !.open = TRUE, !.session = FALSE, !.apid = {}, !.dpid = {},
                               !.err = FALSE, !.expect_reply = FALSE, !.sent_transport = FALSE,
                               !.ignore_packets = TRUE, !.num_describe = 0,
                               !.force_pids = FALSE, !.last_cmd = "none"])
    /\ srv' = Forgets
    /\ UNCHANGED <<ops, faults>>

\* satipc_timeout: reopen a closed connection, restart a silent one, or keep
\* the session alive.  A server that would still have answered counts as one
\* of the faults.
Timeout(up, silent) ==
    LET busy == c.want_tune \/ c.apid # {} \/ c.dpid # {}
        late == silent /\ (c.req # NoMsg \/ c.rep # NoReply)
        r == IF silent THEN CloseRtsp([c EXCEPT !.restart_needed = TRUE]) ELSE c
    IN  /\ c.open
        /\ silent => ~c.closed /\ c.expect_reply
        /\ late => faults < MaxFaults
        /\ up => c.closed
        /\ c' = IF c.closed THEN (IF up THEN OpenRtsp(c) ELSE c)
                ELSE IF busy THEN r ELSE HttpRequest(r, "options", None, NoPids)
        /\ srv' = IF up \/ silent THEN Forgets ELSE srv
        /\ faults' = IF late THEN faults + 1 ELSE faults
        /\ UNCHANGED ops

\* satipc_tcp_read meets the end of the stream
Lost == /\ c.conn /\ faults < MaxFaults
        /\ c' = CloseRtsp([c EXCEPT !.keep = @ \/ c.can_keep])
        /\ srv' = Forgets
        /\ faults' = faults + 1
        /\ UNCHANGED ops

----------------------------------------------------------------------------
(* Streams *)

\* satipc_del_filters for the pids that go, satipc_set_pid for those that come
WithPids(r, S) ==
    LET gone == r.pids \ S
        new == S \ r.pids
        a == r.apid \ gone
        d == r.dpid \cup (gone \ r.apid)
    IN  [r EXCEPT !.pids = S, !.apid = a \cup (new \ d), !.dpid = d \ new]

\* set_adapter_parameters: another transponder closes every pid, and lists the
\* pids S of the stream, which tune() will open
SetParameters(m, S) ==
    /\ c.open /\ ~c.err /\ m # c.mux /\ ops < MaxOps
    /\ c' = [WithPids(c, {}) EXCEPT !.streams = TRUE, !.mux = m, !.pids = S, !.do_tune = TRUE]
    /\ ops' = ops + 1
    /\ UNCHANGED <<srv, faults>>

\* tune(): satipc_tune, update_pids, satipc_commit
Tune(up) ==
    LET r == [c EXCEPT !.do_tune = FALSE, !.err = FALSE, !.want_tune = TRUE,
                       !.ignore_packets = TRUE, !.apid = {}, !.dpid = {}]
        cut == IF r.closed THEN r
               ELSE CloseRtsp([Requested([r EXCEPT !.state = "teardown"])
                                EXCEPT !.restart_needed = TRUE])
        q == IF ~c.restart_when_tune THEN r ELSE IF up THEN OpenRtsp(cut) ELSE cut
        tuned == IF q.state = "inactive" THEN [q EXCEPT !.state = "setup"] ELSE q
    IN  /\ c.open /\ c.do_tune
        /\ up => c.restart_when_tune
        /\ c' = Requested([tuned EXCEPT !.apid = c.pids, !.strength = FALSE])
        /\ srv' = IF c.restart_when_tune THEN Forgets ELSE srv
        /\ UNCHANGED <<ops, faults>>

\* PLAY with other pids: update_pids, satipc_commit
UpdatePids(S) ==
    /\ c.open /\ c.streams /\ ~c.do_tune /\ ~c.err /\ S # c.pids /\ ops < MaxOps
    /\ c' = Requested(WithPids(c, S))
    /\ ops' = ops + 1
    /\ UNCHANGED <<srv, faults>>

\* the last stream leaves: satip_standby_device, update_pids, satipc_commit
Leave ==
    LET r == [c EXCEPT !.streams = FALSE, !.do_tune = FALSE]
        torn == IF r.state = "play" THEN Requested([r EXCEPT !.state = "teardown"]) ELSE r
        idle == [torn EXCEPT !.err = FALSE, !.sent_transport = FALSE, !.apid = {}, !.dpid = {}]
        q == IF idle.restart_when_tune THEN CloseRtsp([idle EXCEPT !.restart_needed = TRUE])
             ELSE idle
    IN  /\ c.open /\ c.streams
        /\ c' = Requested(WithPids([q EXCEPT !.mux = None], {}))
        /\ srv' = IF c.restart_when_tune THEN Forgets ELSE srv
        /\ UNCHANGED <<ops, faults>>

----------------------------------------------------------------------------
(* satipc_reply *)

\* handle_client_capabilities
Learned(r) == [r EXCEPT !.no_setup = @ \/ srv.kind # "other",
                        !.restart_when_tune = @ \/ srv.kind = "enigma"]

\* satipc_give_up
GaveUp(r) == [(IF r.session THEN SendTeardown([r EXCEPT !.state = "teardown"])
               ELSE [r EXCEPT !.state = "inactive"]) EXCEPT !.err = TRUE]

\* what a refusal does; 404 and 408 also mark the adapter, until the next
\* request with a transport
StartOver(r) == [r EXCEPT !.state = IF r.err THEN "inactive" ELSE "setup",
                          !.force_pids = @ \/ ~r.err]

\* 503, 405 and 400
Rejected(r) == [(CASE r.err -> [r EXCEPT !.state = "inactive"]
                   [] ~r.err /\ r.session -> SendTeardown([r EXCEPT !.state = "teardown"])
                   [] OTHER -> [r EXCEPT !.state = "setup"])
                 EXCEPT !.force_pids = @ \/ ~r.err]

Refused(r, rc) ==
    CASE rc = "408" -> [r EXCEPT !.state = "setup", !.force_pids = TRUE, !.err = TRUE]
      [] rc = "404" -> [StartOver(r) EXCEPT !.err = TRUE]
      [] rc = "454" -> StartOver(r)
      [] rc = "403" -> GaveUp(r)
      [] rc = "503" -> Rejected(r)
      [] rc = "461" -> [r EXCEPT !.err = TRUE]

\* 200, with satipc_handle_setup and satipc_handle_play
Accepted(r, transport) ==
    LET q == [r EXCEPT !.session = @ \/ (transport /\ ~r.err)]
    IN  CASE q.state = "setup" /\ q.last_cmd = "setup" -> [q EXCEPT !.state = "play"]
          [] q.state = "play" -> [q EXCEPT !.ignore_packets = FALSE,
                                           !.can_keep = @ \/ (~q.want_tune /\ q.last_cmd = "play")]
          [] q.state = "teardown" /\ q.last_cmd = "teardown" -> [q EXCEPT !.state = "inactive"]
          [] OTHER -> q

\* the signal is known from a DESCRIBE, or was reported by the stream
Reply(signal) ==
    LET r == [Learned(c) EXCEPT !.rep = NoReply, !.keep = FALSE, !.expect_reply = FALSE,
                                !.strength = @ \/ signal]
    IN  /\ c.open /\ c.rep # NoReply
        /\ signal => ~c.strength /\ (c.last_cmd = "describe" \/ srv.playing)
        /\ c' = Requested(IF c.rep \in {"200", "200t"} THEN Accepted(r, c.rep = "200t")
                          ELSE Refused(r, c.rep))
        /\ UNCHANGED <<srv, ops, faults>>

----------------------------------------------------------------------------
(* The server *)

Answers(code) == c' = [c EXCEPT !.req = NoMsg, !.rep = code]

Serve == /\ c.conn /\ c.req # NoMsg
         /\ LET q == c.req
                known == q.transport \/ (q.session /\ srv.session)
                was == IF q.transport THEN {} ELSE srv.pids
            IN  CASE q.cmd \in {"setup", "play"} /\ known ->
                       /\ srv' = [srv EXCEPT !.session = TRUE,
                                             !.playing = q.cmd = "play" \/ (@ /\ ~q.transport),
                                             !.mux = IF q.mux = None THEN @ ELSE q.mux,
                                             !.pids = IF q.pids.full THEN q.pids.add
                                                      ELSE (was \cup q.pids.add) \ q.pids.del]
                       /\ Answers(IF q.transport THEN "200t" ELSE "200")
                  [] q.cmd = "teardown" /\ known -> srv' = Forgets /\ Answers("200")
                  [] q.cmd = "describe" /\ ~known -> UNCHANGED srv /\ Answers("404")
                  [] q.cmd = "options" \/ (q.cmd = "describe" /\ known) -> UNCHANGED srv /\ Answers("200")
                  [] OTHER -> UNCHANGED srv /\ Answers("454")
         /\ UNCHANGED <<ops, faults>>

Refuse(code) == /\ c.conn /\ c.req # NoMsg /\ faults < MaxFaults
                /\ Answers(code)
                /\ faults' = faults + 1
                /\ UNCHANGED <<srv, ops>>

\* no answer, ever
FallSilent == /\ c.conn /\ c.req # NoMsg /\ faults < MaxFaults
              /\ Answers(NoReply)
              /\ faults' = faults + 1
              /\ UNCHANGED <<srv, ops>>

Expire == /\ srv.session /\ faults < MaxFaults
          /\ srv' = Forgets
          /\ faults' = faults + 1
          /\ UNCHANGED <<c, ops>>

----------------------------------------------------------------------------
Resumes(r) == r.req # NoMsg /\ r.req.cmd = "setup" /\ r.pids # r.apid /\ ~r.force_pids

Next == /\ \/ Open \/ Leave \/ \E signal \in BOOLEAN : Reply(signal)
           \/ \E up, silent \in BOOLEAN : Timeout(up, silent)
           \/ \E up \in BOOLEAN : Tune(up)
           \/ \E S \in SUBSET Pids : UpdatePids(S) \/ \E m \in Muxes : SetParameters(m, S)
           \/ Lost \/ Serve \/ FallSilent \/ Expire
           \/ \E code \in Codes : Refuse(code)
        /\ resumed' = (resumed \/ Resumes(c'))

Spec == Init /\ [][Next]_vars

\* The poll loop handles replies, the timer runs and connections come up, a
\* server that is not silent answers: one of these is due at a time.  The
\* thread of the stream goes on from its parameters to tune().
Due == c.open /\ (c.req # NoMsg \/ c.rep # NoReply \/ c.closed \/ c.expect_reply)
Progress == \/ Serve \/ \E signal \in BOOLEAN : Reply(signal)
            \/ Timeout(TRUE, FALSE) \/ Timeout(FALSE, TRUE)

\* weak fairness of Progress and of Tune, with the states that enable them
\* written out: Due, and c.do_tune
FairSpec == /\ Spec
            /\ []<>(~Due) \/ []<><<Progress>>_c
            /\ []<>(~c.do_tune) \/ []<><<\E up \in BOOLEAN : Tune(up)>>_c

----------------------------------------------------------------------------
(* Correctness *)

AtRest == /\ c.open /\ ~c.do_tune /\ c.conn /\ c.streams /\ ~c.err /\ ~c.expect_reply
          /\ c.state # "teardown"

\* tune() of a server that restarts lists the new pids before it opens them:
\* one that is closed before the next request is not taken back
InStep == /\ c.state = "play"
          /\ srv.playing => /\ srv.mux = c.mux
                            /\ c.pids \subseteq srv.pids
                            /\ srv.pids = c.pids \/ c.restart_when_tune
          /\ srv.session /\ ~srv.playing => c.pids = {}

(* Pid changes are sent as differences, may meet a request on its way, a    *)
(* refusal or a new session: whenever the client has nothing more to ask,   *)
(* a server that still knows the session plays the transponder and exactly  *)
(* the pids of the adapter.                                                 *)
Synced == AtRest /\ srv.session /\ ~resumed => InStep

(* Packets are let through only when the server plays the transponder that  *)
(* the streams asked for last, whatever replies to older requests come in.  *)
RightMux == c.open /\ c.streams /\ ~c.do_tune /\ ~c.err /\ ~c.ignore_packets /\ srv.playing => srv.mux = c.mux

\* A TEARDOWN that was refused leaves nothing to tear down and is never sent
\* again.
StuckTeardown == c.state = "teardown" /\ ~c.session /\ ~c.expect_reply

(* Refusals, expired sessions, silence and lost connections are survived:   *)
(* once the server works again a client with streams plays, unless it gave  *)
(* up or is stuck in TEARDOWN.                                              *)
Recovers == <>[](c.open /\ c.streams =>
                   c.err \/ StuckTeardown \/ (c.conn /\ c.state = "play"))
=============================================================================
