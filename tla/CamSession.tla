----------------------------- MODULE CamSession -----------------------------
(***************************************************************************)
(* The link to one CAM (ca.cpp, the EN 50221 stack over /dev/dvb/.../ca):  *)
(* opening and resetting the device, the transport connection, the         *)
(* sessions the CAM opens, the commands that await an answer and their     *)
(* watchdog, the teardown and the reconnect poller.                        *)
(*                                                                         *)
(* Three threads act: the thread of the CAM's socket (messages, timeouts,  *)
(* close), the poller (ca_reconnect) and the one that opens and closes the *)
(* adapter.  dvbca_init_dev runs on either of the last two, under          *)
(* ca_init_mutex, and is not atomic.  The CAM is external: it may be       *)
(* pulled and inserted, fall silent until it is reset, or close a session. *)
(*                                                                         *)
(* The driver lets one handle be open at a time, so at most one socket is  *)
(* alive: link is its state.  What the programs of the CAM do is in        *)
(* CamPmts, content control in ContentControl.                             *)
(***************************************************************************)
EXTENDS Integers, Sequences, FiniteSets, FiniteSetsExt

CONSTANTS
    Wanted,        \* the resources the CAM opens sessions for
    MaxSessions,   \* MAX_SESSIONS
    MaxMmi,        \* MAX_MMI_MESSAGES
    MaxPollFails,  \* CA_MAX_POLL_FAILS
    MaxFaults,     \* bound on faults: of the CAM, of writes, a slow CAM
    MaxOps         \* bound on what the CAM says of its own accord

ASSUME CamSessionAssumption ==
    /\ {"RM", "CA"} \subseteq Wanted
    /\ MaxSessions \in Nat \ {0} /\ MaxMmi \in Nat \ {0}
    /\ MaxPollFails \in Nat \ {0} /\ MaxFaults \in Nat /\ MaxOps \in Nat

VARIABLES
    dev,     \* the device: what ca_device_t keeps of the link
    link,    \* its socket: "none", "open", "asked" (force_close), "torn" (closed, the handle still open)
    init,    \* dvbca_init_dev: by whom and how far
    ad,      \* the adapter: open, its ca_mask bit, what its last dvbca_init_dev said
    mmi,     \* the messages of the CAM's menus and the last sequence number
    cam,     \* the CAM
    faults, ops

vars == <<dev, link, init, ad, mmi, cam, faults, ops>>

(***************************************************************************)
(* Commands and answers.  application_handler: what a resource sends when  *)
(* its session is created, and what it does with what the CAM says.        *)
(***************************************************************************)
Supported == {"RM", "AI", "CA", "OPRF", "UPGR", "MMI"}
NoCmd == "none"
Commands == {"profile_enq", "app_info_enq", "ca_info_enq", "operator_info_req", "operator_search"}
Created(r) == CASE r = "RM" -> "profile_enq" [] r = "AI" -> "app_info_enq" [] r = "CA" -> "ca_info_enq"
                [] OTHER -> NoCmd
\* the command a handler sends on being told tag; operator_ready is an operator status
\* that says the profile is initialized
Response(tag) == CASE tag = "operator_status" -> "operator_info_req"
                   [] tag = "operator_info" -> "operator_search"
                   [] OTHER -> NoCmd
\* ca_tracked_cmds
Replies(cmd) == CASE cmd = "profile_enq" -> {"profile"}
                  [] cmd = "app_info_enq" -> {"app_info"}
                  [] cmd = "ca_info_enq" -> {"ca_info"}
                  [] cmd = "operator_info_req" -> {"operator_info"}
                  [] cmd = "operator_search" -> {"search_status", "operator_ready", "operator_status", "operator_info", "operator_tune"}
                  [] OTHER -> {}
\* what the CAM tells of its own accord
Tells(r) == CASE r = "CA" -> {"ca_info"} [] r = "OPRF" -> {"operator_status", "operator_ready"} [] r = "MMI" -> {"menu"}
              [] r = "AI" -> {"cicam_reset"} [] r = "UPGR" -> {"upgraded"} [] OTHER -> {}

Numbers == 1 .. MaxSessions
NoSession == ""
NoPending == [cmd |-> NoCmd, session |-> 0]
Registered(d) == {n \in Numbers : d.sessions[n] # NoSession}
\* find_session_for_resource: the first entry of the table is passed over
FindSession(d, r) == {n \in Numbers \ {1} : d.sessions[n] = r}

\* new_session: the lowest free entry, and none for a resource without handler
NewSession(d, r) ==
    IF r \notin Supported \/ Registered(d) = Numbers THEN 0 ELSE Min(Numbers \ Registered(d))

\* ca_track_command: a command sent again on its session keeps its deadline
Track(d, n, cmd) ==
    IF Replies(cmd) = {} THEN d
    ELSE [d EXCEPT !.pending = [cmd |-> cmd, session |-> n], !.armed = TRUE]

\* ca_match_reply
MatchReply(d, n, tag) ==
    IF d.pending.session = n /\ tag \in Replies(d.pending.cmd)
    THEN [d EXCEPT !.pending = NoPending] ELSE d

(***************************************************************************)
(* Writing to the CAM: a write fails when the CAM was pulled (EIO, and the *)
(* link is asked to close) or, at the cost of a fault, for another reason. *)
(***************************************************************************)
WriteOutcomes == IF cam.there THEN {"ok"} \union (IF faults < MaxFaults THEN {"fail"} ELSE {}) ELSE {"eio"}
Asked(l) == IF l = "open" THEN "asked" ELSE l
AfterWrite(w) == IF w = "eio" THEN Asked(link) ELSE link
Spent(w) == faults' = IF w = "fail" THEN faults + 1 ELSE faults
\* ca_write_apdu of a command on session n: tracked when it went out
Send(d, n, cmd, w) == IF cmd # NoCmd /\ w = "ok" THEN Track(d, n, cmd) ELSE d
Owe(owed, n, cmd, w) == IF Replies(cmd) # {} /\ w = "ok" THEN owed \union {<<n, cmd>>} ELSE owed

NoSessions == [n \in Numbers |-> NoSession]
\* the CAM: the transport connection, the sessions it has, the resources it need not
\* open any more, and the commands it will answer
FreshCam == [there |-> TRUE, mute |-> FALSE, tc |-> "down", sess |-> {}, settled |-> {}, owed |-> {}]

Init ==
    /\ dev = [known |-> FALSE, fd |-> FALSE, sock |-> FALSE, state |-> "inactive", enabled |-> FALSE,
              sessions |-> NoSessions, pending |-> NoPending, armed |-> FALSE, fails |-> 0]
    /\ link = "none"
    /\ init = [pc |-> "free", by |-> "poller"]
    /\ ad = [on |-> FALSE, mask |-> FALSE, result |-> "none"]
    /\ mmi = [list |-> <<>>, last |-> 0]
    /\ cam = FreshCam
    /\ faults = 0 /\ ops = 0

\* until dvbca_init_dev is done the socket belongs to the thread that runs it
Polled == link \in {"open", "asked"} /\ init.pc # "published"
Hears == Polled /\ cam.there /\ ~cam.mute

(***************************************************************************)
(* The thread of the CAM's socket.  A handler runs to its end before the   *)
(* socket is looked at again, also when it asked for the link to close.    *)
(***************************************************************************)
\* ca_read_tpdu, T_CTC_REPLY
CtcReply ==
    /\ Hears /\ cam.tc = "asked"
    /\ cam' = [cam EXCEPT !.tc = "up"]
    /\ dev' = [dev EXCEPT !.state = IF dev.state = "inactive" THEN "active" ELSE dev.state, !.fails = 0]
    /\ UNCHANGED <<link, init, ad, mmi, faults, ops>>

Heard(d) == [d EXCEPT !.state = IF d.state = "inactive" THEN "active" ELSE d.state, !.fails = 0]

\* ca_read, ST_OPEN_SESSION_REQUEST; the CAM opens the resource manager first, and
\* asks again when it did not get the response
OpenSession(r, w) ==
    /\ Hears /\ cam.tc = "up" /\ r \notin cam.settled
    /\ r = "RM" \/ "RM" \in cam.settled
    /\ w \in WriteOutcomes /\ Spent(w)
    /\ LET d == Heard(dev)
           n == NewSession(d, r)
       IN  /\ dev' = IF n = 0 THEN d ELSE Send([d EXCEPT !.sessions[n] = r], n, Created(r), w)
           /\ cam' = IF w # "ok" THEN cam
                     ELSE [cam EXCEPT !.settled = @ \union {r}, !.sess = @ \union ({n} \ {0}),
                                      !.owed = IF n = 0 THEN @ ELSE Owe(@, n, Created(r), w)]
    /\ link' = AfterWrite(w)
    /\ UNCHANGED <<init, ad, mmi, ops>>

\* a faulty variant: CA has no close handler
ClosedStaysReady(d, n) ==
    LET p == IF d.pending.session = n THEN NoPending ELSE d.pending
    IN  [d EXCEPT !.sessions[n] = NoSession, !.pending = p, !.armed = (p = NoPending) \/ @]

\* the close handler (APP_CA_close), the command awaited, and a new grace period
Closed(d, n) ==
    LET p == IF d.pending.session = n THEN NoPending ELSE d.pending
    IN  [d EXCEPT !.sessions[n] = NoSession, !.pending = p, !.armed = (p = NoPending) \/ @,
                  !.state = IF d.sessions[n] = "CA" THEN "active" ELSE @]

\* ca_read, ST_CLOSE_SESSION_REQUEST.  Nobody looks at what became of the response: a
\* write of it that fails changes nothing here, and the CAM counts the session as closed
CloseSession(n) ==
    /\ Hears /\ n \in cam.sess /\ faults < MaxFaults
    /\ faults' = faults + 1
    /\ dev' = Closed(Heard(dev), n)
    /\ cam' = [cam EXCEPT !.owed = {o \in @ : o[1] # n}, !.sess = @ \ {n},
                          !.settled = @ \ {dev.sessions[n]}]
    /\ UNCHANGED <<link, init, ad, mmi, ops>>

\* record_mmi_message
Record(m) ==
    [list |-> Append(IF Len(m.list) >= MaxMmi THEN Tail(m.list) ELSE m.list, m.last + 1),
     last |-> m.last + 1]

\* APP_MMI_handler: an enquiry, a menu or a list is answered, closed and recorded;
\* what it says is left out
Displayed(m, tag) == IF tag = "menu" THEN Record(m) ELSE m
\* APP_RM_handler, APP_MMI_handler and CIPLUS_APP_OPRF_handler write answers nobody waits for
Untracked == {"profile", "menu", "operator_tune"}

\* ca_read_apdu: the answer is matched, then the handler of the session runs
Apdu(n, tag, w) ==
    LET d == MatchReply(Heard(dev), n, tag)
        e == IF tag = "ca_info" THEN [d EXCEPT !.state = "initialized"] ELSE d
    IN  /\ w \in WriteOutcomes /\ Spent(w)
        /\ dev' = Send(e, n, Response(tag), w)
        /\ mmi' = Displayed(mmi, tag)
        /\ link' = IF tag \in {"cicam_reset", "upgraded"} THEN Asked(link)
                   ELSE IF Response(tag) # NoCmd \/ tag \in Untracked THEN AfterWrite(w) ELSE link
        /\ UNCHANGED <<init, ad>>

\* the CAM answers a command
Answer(w) ==
    /\ Hears
    /\ \E o \in cam.owed : \E tag \in Replies(o[2]) :
        /\ Apdu(o[1], tag, w)
        /\ LET again == o[2] = "operator_search" /\ Response(tag) # NoCmd
           IN  (again => ops < MaxOps) /\ ops' = ops + IF again THEN 1 ELSE 0
        /\ cam' = [cam EXCEPT !.owed = Owe(@ \ {o}, o[1], Response(tag), w)]

\* the CAM has something to say of its own accord
Tell(w) ==
    /\ Hears /\ ops < MaxOps /\ ops' = ops + 1
    /\ \E n \in cam.sess : \E tag \in Tells(dev.sessions[n]) :
        /\ Apdu(n, tag, w)
        /\ cam' = [cam EXCEPT !.owed = Owe(@, n, Response(tag), w)]

\* ca_timeout, the part that polls the CAM; T_CREATE_TC again while it did not answer
Keepalive(w) ==
    /\ Polled /\ link = "open" /\ w \in WriteOutcomes /\ Spent(w)
    /\ LET dead == w # "ok" /\ dev.fails + 1 >= MaxPollFails
       IN  /\ dev' = [dev EXCEPT !.fails = IF w = "ok" \/ dead THEN 0 ELSE @ + 1]
           /\ link' = IF dead THEN "asked" ELSE AfterWrite(w)
    /\ cam' = IF w = "ok" /\ dev.state = "inactive" /\ cam.tc = "down" THEN [cam EXCEPT !.tc = "asked"] ELSE cam
    /\ UNCHANGED <<init, ad, mmi, ops>>

\* the CAM has nothing more to say on its own
Silent == ~Hears \/ (cam.owed = {} /\ cam.tc # "asked" /\ (cam.tc = "down" \/ Wanted \subseteq cam.settled))

\* a faulty variant: only a command that awaits its answer is watched
WatchdogDuePending == dev.armed /\ dev.pending # NoPending
WatchdogDue == dev.armed /\ (dev.pending # NoPending \/ dev.state # "initialized")

\* ca_cmd_watchdog, 15 s after pending_since: the CAM stalled, or (a fault) was slow
Watchdog ==
    /\ Polled /\ link = "open" /\ WatchdogDue
    /\ \/ Silent /\ faults' = faults
       \/ ~Silent /\ faults < MaxFaults /\ faults' = faults + 1
    /\ dev' = [dev EXCEPT !.pending = NoPending, !.armed = FALSE]
    /\ link' = "asked"
    /\ UNCHANGED <<init, ad, mmi, cam, ops>>

\* ca_teardown (enabled and private_data are kept)
TornDown(d) ==
    [d EXCEPT !.fd = FALSE, !.sock = FALSE, !.state = "inactive", !.sessions = NoSessions,
              !.pending = NoPending, !.armed = FALSE, !.fails = 0]
\* ca_clear_mmi_for_device
Cleared(m) == IF m.list = <<>> THEN m ELSE [list |-> <<>>, last |-> m.last + 1]

\* sockets_del: after a read error (the CAM is gone), T_DELETE_TC, or force_close;
\* ca_close runs first and does nothing for a socket that is not the device's
SocketClose ==
    /\ Polled
    /\ link = "asked" \/ ~cam.there
    /\ link' = "torn"
    /\ IF dev.sock THEN dev' = TornDown(dev) /\ mmi' = Cleared(mmi) ELSE UNCHANGED <<dev, mmi>>
    /\ UNCHANGED <<init, ad, cam, faults, ops>>

\* ... then the handle is closed
HandleClose ==
    /\ link = "torn" /\ link' = "none"
    /\ cam' = [FreshCam EXCEPT !.there = cam.there, !.mute = cam.mute]
    /\ UNCHANGED <<dev, init, ad, mmi, faults, ops>>

\* T_DELETE_TC
DeleteTc ==
    /\ Hears /\ cam.tc = "up" /\ faults < MaxFaults
    /\ faults' = faults + 1 /\ link' = "asked"
    /\ cam' = FreshCam
    /\ UNCHANGED <<dev, init, ad, mmi, ops>>

(***************************************************************************)
(* dvbca_init_dev, on the poller or on the thread that opens the adapter   *)
(***************************************************************************)
Finished(by, result, a) == IF by = "adapter" THEN [a EXCEPT !.result = result, !.mask = @ \/ result = "ok"] ELSE a

\* the entry, up to open(): the driver has one handle
InitBegin(by) ==
    /\ init.pc = "free"
    /\ IF dev.known /\ dev.state = "initialized"
       THEN /\ ad' = [Finished(by, "ok", ad) EXCEPT !.mask = TRUE]
            /\ UNCHANGED <<dev, init>>
       ELSE IF link # "none"
       THEN /\ ad' = Finished(by, "noretry", ad)
            /\ UNCHANGED <<dev, init>>
       ELSE /\ init' = [pc |-> "opened", by |-> by]
            /\ dev' = [dev EXCEPT !.known = TRUE, !.fd = TRUE, !.sock = FALSE, !.state = "inactive",
                                  !.pending = NoPending, !.armed = FALSE]
            /\ UNCHANGED ad

\* ca_init_failed: the handle goes, the poller will retry
InitFailed ==
    /\ init' = [init EXCEPT !.pc = "free"]
    /\ dev' = [dev EXCEPT !.fd = FALSE, !.sock = FALSE, !.state = "inactive", !.enabled = TRUE]
    /\ ad' = Finished(init.by, "retry", ad)

\* ca_slot_present, ca_reset_and_wait_ready: an empty slot, or a module that is
\* not ready after the resets
InitNotReady ==
    /\ init.pc = "opened"
    /\ ~cam.there \/ faults < MaxFaults
    /\ faults' = IF cam.there THEN faults + 1 ELSE faults
    /\ InitFailed
    /\ UNCHANGED <<link, mmi, cam, ops>>

\* the reset worked
InitReset ==
    /\ init.pc = "opened" /\ cam.there
    /\ init' = [init EXCEPT !.pc = "ready"]
    /\ cam' = FreshCam
    /\ UNCHANGED <<dev, link, ad, mmi, faults, ops>>

\* a faulty variant: the watchdog is armed by the first command only
PublishedUnarmed(d) == [d EXCEPT !.sock = TRUE]
\* the socket and the time the handshake began are published together
Published(d) == [d EXCEPT !.sock = TRUE, !.armed = TRUE]

\* T_CREATE_TC, sockets_add and the publication; the result of the write is not
\* looked at, and EIO asks for the close of a socket the device does not have yet
InitPublish(w) ==
    /\ init.pc = "ready"
    /\ w \in WriteOutcomes /\ Spent(w)
    /\ init' = [init EXCEPT !.pc = "published"]
    /\ dev' = Published(dev)
    /\ link' = "open"
    /\ cam' = IF w = "ok" THEN [cam EXCEPT !.tc = "asked"] ELSE cam
    /\ UNCHANGED <<ad, mmi, ops>>

\* enabled and the bit of the mask
InitDone ==
    /\ init.pc = "published"
    /\ init' = [init EXCEPT !.pc = "free"]
    /\ dev' = [dev EXCEPT !.enabled = TRUE]
    /\ ad' = [Finished(init.by, "ok", ad) EXCEPT !.mask = TRUE]
    /\ UNCHANGED <<link, mmi, cam, faults, ops>>

\* ca_reconnect_due; the interval between two tries is left out
ReconnectDue == dev.enabled /\ ~dev.fd

\* ca_reconnect
Poll ==
    /\ ReconnectDue /\ ad.on
    /\ InitBegin("poller")
    /\ UNCHANGED <<link, mmi, cam, faults, ops>>

\* init_hw and pmt_init_device: the mask is cleared, then the CAs are tried
AdapterOpen ==
    /\ ~ad.on
    /\ ad' = [on |-> TRUE, mask |-> FALSE, result |-> "none"]
    /\ UNCHANGED <<dev, link, init, mmi, cam, faults, ops>>
\* tables_init_ca_for_device
AdapterInit ==
    /\ ad.on /\ ad.result = "none" /\ ~(init.pc # "free" /\ init.by = "adapter")
    /\ \/ ad.mask /\ ad' = Finished("adapter", "ok", ad) /\ UNCHANGED <<dev, init>>
       \/ InitBegin("adapter")
    /\ UNCHANGED <<link, mmi, cam, faults, ops>>

\* close_adapter: tables_close_device asks dvbca_close_dev, which closes a link
\* only while the CAM did not answer at all
AdapterClose ==
    /\ ad.on /\ ad.result # "none"
    /\ ad' = [on |-> FALSE, mask |-> FALSE, result |-> "none"]
    /\ link' = IF ad.mask /\ dev.enabled /\ dev.state = "inactive" /\ dev.sock THEN Asked(link) ELSE link
    /\ UNCHANGED <<dev, init, mmi, cam, faults, ops>>

(***************************************************************************)
(* The CAM (external)                                                      *)
(***************************************************************************)
Fault == faults < MaxFaults /\ faults' = faults + 1 /\ UNCHANGED <<dev, link, init, ad, mmi, ops>>
Pulled == cam.there /\ Fault /\ cam' = [FreshCam EXCEPT !.there = FALSE]
\* the CAM was out for longer than it takes to notice
Inserted == ~cam.there /\ link = "none" /\ cam' = FreshCam /\ UNCHANGED <<dev, link, init, ad, mmi, faults, ops>>
FallsSilent == cam.there /\ ~cam.mute /\ Fault /\ cam' = [cam EXCEPT !.mute = TRUE]

Next ==
    \/ CtcReply
    \/ \E w \in WriteOutcomes :
        \/ \E r \in Wanted : OpenSession(r, w)
        \/ Answer(w) \/ Tell(w) \/ Keepalive(w) \/ InitPublish(w)
    \/ \E n \in Numbers : CloseSession(n)
    \/ Watchdog \/ SocketClose \/ HandleClose \/ DeleteTc
    \/ InitNotReady \/ InitReset \/ InitDone \/ Poll
    \/ AdapterOpen \/ AdapterInit \/ AdapterClose
    \/ Pulled \/ Inserted \/ FallsSilent

Spec == Init /\ [][Next]_vars

-----------------------------------------------------------------------------
TypeOK ==
    /\ dev \in [known : BOOLEAN, fd : BOOLEAN, sock : BOOLEAN,
                state : {"inactive", "active", "initialized"}, enabled : BOOLEAN,
                sessions : [Numbers -> Supported \union {NoSession}],
                pending : [cmd : Commands \union {NoCmd}, session : 0 .. MaxSessions], armed : BOOLEAN,
                fails : 0 .. MaxPollFails - 1]
    /\ link \in {"none", "open", "asked", "torn"}
    /\ init.pc \in {"free", "opened", "ready", "published"} /\ init.by \in {"poller", "adapter"}
    /\ ad.result \in {"none", "ok", "retry", "noretry"}
    /\ Len(mmi.list) <= MaxMmi
    /\ cam.owed \subseteq Numbers \X Commands
    /\ faults \in 0 .. MaxFaults /\ ops \in 0 .. MaxOps

\* Under ca_init_mutex and the lock of the device the parts of the device agree: it
\* has a socket exactly while that socket lives and was not torn down, then it has
\* the handle too, and only a device with a socket has sessions, commands that await
\* an answer or a state.
OneLink ==
    /\ dev.sock <=> link \in {"open", "asked"}
    /\ dev.fd <=> (dev.sock \/ init.pc # "free")
    /\ init.pc \in {"opened", "ready"} => link = "none"
    /\ ~dev.sock => Registered(dev) = {} /\ dev.pending = NoPending /\ dev.state = "inactive" /\ ~dev.armed

\* ca_cmd_watchdog: a link on which the CAM still owes an answer, or did not come up,
\* is watched or is being closed, whatever sessions were opened and closed, commands
\* sent, overwritten and lost on the way.
Watched == link = "open" /\ (dev.pending # NoPending \/ dev.state # "initialized") => dev.armed

\* The command that awaits an answer is one of a session that exists, of a resource
\* that sends it: the CAM is never reset for an answer that cannot come.
PendingAlive ==
    dev.pending # NoPending =>
        /\ dev.pending.session \in Registered(dev)
        /\ LET r == dev.sessions[dev.pending.session]
           IN  dev.pending.cmd = Created(r) \/ (r = "OPRF" /\ dev.pending.cmd \in {"operator_info_req", "operator_search"})

\* A CAM that takes programs (CA_STATE_INITIALIZED) has a session for them, and
\* find_session_for_resource, which never looks at the first entry, finds one:
\* the resource manager, opened first, keeps that entry or gets it back.
ReadyHasCa == dev.state = "initialized" => FindSession(dev, "CA") # {}

\* A client of get_json_mmi that fetches the messages when last_seq changed misses no
\* change, and the messages it gets are in the order of their numbers: when the list
\* is full, and when the CAM is lost and its messages are dropped.
MmiNumbered ==
    [][/\ mmi'.list # mmi.list => mmi'.last > mmi.last
       /\ \A i, j \in DOMAIN mmi'.list : i < j => mmi'.list[i] < mmi'.list[j]]_vars

-----------------------------------------------------------------------------
(***************************************************************************)
(* Fairness.  The event loops call what is due: messages are read, the     *)
(* keepalive and the watchdog run every second, the poller every second, a *)
(* thread in dvbca_init_dev goes on.  The CAM, while it is there and       *)
(* not silent, answers and opens what it wants.  Each enabling condition   *)
(* is written out.                                                         *)
(***************************************************************************)
Messages == CtcReply \/ \E w \in WriteOutcomes : (\E r \in Wanted : OpenSession(r, w)) \/ Answer(w)
Keepalives == \E w \in WriteOutcomes : Keepalive(w)
Unanswered == Polled /\ link = "open" /\ dev.state = "inactive" /\ cam.tc = "down" /\ cam.there
InitSteps == InitNotReady \/ InitReset \/ InitDone \/ \E w \in WriteOutcomes : InitPublish(w)

FairSpec ==
    /\ Spec
    /\ []<>Silent \/ []<><<Messages>>_vars
    /\ []<>(~Unanswered) \/ []<><<Keepalives>>_vars
    /\ []<>(~(Polled /\ link = "open" /\ WatchdogDue /\ Silent)) \/ []<><<Watchdog>>_vars
    /\ []<>(~(Polled /\ (link = "asked" \/ ~cam.there))) \/ []<><<SocketClose>>_vars
    /\ []<>(link # "torn") \/ []<><<HandleClose>>_vars
    /\ []<>(init.pc = "free") \/ []<><<InitSteps>>_vars
    /\ []<>(~(ReconnectDue /\ ad.on /\ init.pc = "free" /\ link = "none")) \/ []<><<Poll>>_vars
    /\ []<>(~(ad.on /\ ad.result = "none" /\ init.pc = "free")) \/ []<><<AdapterInit>>_vars

\* The link heals: once the CAM stays in its slot and the adapter stays open, the CAM
\* comes up and stays up, after any resets, lost writes, silences and closed sessions
\* before, and the adapter uses it.  The exception is an adapter that was opened
\* while the CAM was still in its handshake: open() then finds the device busy, and
\* nobody tries again until the adapter is closed.
Recovers ==
    <>[](cam.there /\ ad.on) => <>[](dev.state = "initialized" /\ (ad.mask \/ ad.result = "noretry"))

=============================================================================
