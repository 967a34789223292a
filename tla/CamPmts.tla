------------------------------ MODULE CamPmts ------------------------------
(***************************************************************************)
(* The programs (PMTs) a CAM descrambles: how minisatip packs them into a  *)
(* few CAPMTs (ca.cpp), what the CAM is told of them, and the masks        *)
(* (tables.cpp, pmt.cpp) that remember which program was sent.             *)
(*                                                                         *)
(* Two threads act.  Whoever works for the adapter, its own thread or the  *)
(* main thread in a request, parses PMTs, elects, starts and stops         *)
(* programs and sends them to the CAM, one job at a time since it holds    *)
(* the mutex of the adapter; job is what it is doing.  The handlers of the *)
(* CAM's socket, which belongs to the thread of the adapter once the CAM   *)
(* is up, do not take that mutex: CA_INFO, a closed CA session and the     *)
(* loss of the CAM.  They share the masks (mutex of the PMT), the table of *)
(* CAPMTs (lock of the device) and ca_teardown_epoch.                      *)
(*                                                                         *)
(* Streams are the stream loops of a PMT: a value of Streams stands for    *)
(* the bytes CAPMT_add_PMT makes of one version of one channel.            *)
(***************************************************************************)
EXTENDS Integers, FiniteSets, FiniteSetsExt

CONSTANTS
    Pmts,       \* slots of the PMT pool
    Slots,      \* CAPMTs the CAM accepts: 0 .. max_ca_pmt - 1
    Multiple,   \* multiple_pmt: programs packed on top of the first one
    Streams,    \* stream loops
    RealSid,    \* the service id of the channel a stream loop is of
    Foreign,    \* stream loops with CAIDs this CAM does not have
    Clear,      \* stream loops with no CAID at all
    NoPmt, NoStreams, Nothing,
    MaxOps,     \* bound on what viewers and broadcasters do
    MaxFaults   \* bound on failed writes and on losses of state of the CAM

MaxPlaces == 3                      \* MAX_PMT_PER_CAPMT
Places == 1 .. MaxPlaces
SlotSid(s) == s                     \* MAKE_SID_FOR_CA
SpareSid == Cardinality(Slots)
Sids == Slots \union {SpareSid, -1} \union {RealSid[es] : es \in Streams}

ASSUME CamPmtsAssumption ==
    /\ IsFiniteSet(Slots) /\ Slots = 0 .. Cardinality(Slots) - 1 /\ Slots # {}
    /\ Multiple \in 0 .. MaxPlaces - 1
    /\ RealSid \in [Streams -> Nat]
    /\ Foreign \subseteq Streams /\ Clear \subseteq Streams \ Foreign
    /\ NoPmt \notin Pmts /\ NoStreams \notin Streams
    /\ MaxOps \in Nat /\ MaxFaults \in Nat

VARIABLES
    dev,      \* the CA device: "inactive", "active" (no CA_INFO yet) or "initialized"
    locked,   \* the socket thread is in ca_teardown, with the lock of the device
    known,    \* the CAIDs of the CAM are in ad_info
    capmt,    \* the table of CAPMTs
    cam,      \* stream loops the CAM descrambles, by program number
    pmt,      \* the PMTs and their masks for this CA
    job,      \* what the thread of the adapter is doing
    ops, faults

vars == <<dev, locked, known, capmt, cam, pmt, job, ops, faults>>

Results == {"ok", "retry", "noretry"}
Idle == [pc |-> "idle", p |-> NoPmt, update |-> FALSE, torn |-> FALSE, result |-> "ok"]

(***************************************************************************)
(* A CAPMT: the programs by place, the program number, what was last sent  *)
(* (hash: Nothing when there is no valid hash) and the stream loops kept   *)
(* from that send by place.                                                *)
(***************************************************************************)
NoneKept == [i \in Places |-> NoStreams]
EmptyCapmt == [place |-> [i \in Places |-> NoPmt], sid |-> -1, hash |-> Nothing, kept |-> NoneKept]
EmptyPmt == [state |-> "free", es |-> NoStreams, sent |-> FALSE, reg |-> FALSE, dis |-> FALSE]

Used(c) == {i \in Places : c.place[i] # NoPmt}
HasPmt(c, p) == \E i \in Places : c.place[i] = p
Left(c) == {i \in Places \ Used(c) : c.kept[i] # NoStreams}
First(c) == IF Used(c) = {} THEN NoPmt ELSE c.place[Min(Used(c))]
Live(p) == p # NoPmt /\ pmt[p].state # "free"
Active(table) == {s \in Slots : Used(table[s]) # {}}
Placed == {p \in Pmts : \E s \in Slots : HasPmt(capmt[s], p)}

\* capmt_compact: the programs move to the front, in their order
Packed(f, none) ==
    LET used == {i \in Places : f[i] # none}
    IN  [i \in Places |->
            LET at == {j \in used : Cardinality({k \in used : k <= j}) = i}
            IN  IF at = {} THEN none ELSE f[Min(at)]]

Compact(c) == [c EXCEPT !.place = Packed(@, NoPmt)]

Loops(c, keep) ==
    [i \in Places |-> IF Live(c.place[i]) THEN pmt[c.place[i]].es
                      ELSE IF keep /\ c.place[i] = NoPmt THEN c.kept[i] ELSE NoStreams]

\* create_capmt and capmt_content_hash: the program number, the command and
\* the stream loops in their order; with keep an empty place repeats what was
\* last sent there, for the CAM was never told that the program left
Contents(c, reason, keep) ==
    [sid |-> c.sid, reason |-> reason, es |-> Packed(Loops(c, keep), NoStreams)]

\* send_capmt: what becomes of the CAPMT, the result, and whether it was written
SendCapmt(c, reason, force, ok) ==
    LET d    == Compact(c)
        same == ~force /\ c.hash = Contents(c, reason, TRUE)
    IN  CASE same -> [c |-> c, rc |-> "ok", written |-> FALSE]
          [] ~same /\ ~ok -> [c |-> [d EXCEPT !.kept = NoneKept], rc |-> "retry", written |-> FALSE]
          [] ~same /\ ok ->
                [c |-> [d EXCEPT !.hash = Contents(d, reason, FALSE), !.kept = Loops(d, FALSE)],
                 rc |-> "ok", written |-> TRUE]

\* The CAM: a CAPMT "only" replaces all programs, "update" the one of that number
Received(c, listmgmt, reason) ==
    [sid \in Sids |->
        IF sid = c.sid
        THEN IF reason = "ok_descrambling"
             THEN {Loops(c, FALSE)[i] : i \in Places} \ {NoStreams} ELSE {}
        ELSE IF listmgmt = "only" THEN {} ELSE cam[sid]]

(***************************************************************************)
(* add_pmt_to_capmt: the place for a program.  In this order: where it is  *)
(* already, the place it left with these streams, an empty CAPMT, the      *)
(* least loaded CAPMT that has room.                                       *)
(***************************************************************************)
Load(s) == Cardinality(Used(capmt[s])) * (MaxPlaces + 1) + Cardinality(Left(capmt[s]))

AddPmtToCapmt(p) ==
    LET member == {s \in Slots : HasPmt(capmt[s], p)}
        back   == {s \in Slots : \E i \in Left(capmt[s]) : capmt[s].kept[i] = pmt[p].es}
        empty  == Slots \ Active(capmt)
        room   == {s \in Slots : Multiple > 0 /\ Cardinality(Used(capmt[s])) < Multiple + 1}
        least  == {s \in room : \A t \in room : Load(s) <= Load(t)}
        At(s, is, rejoined) == [slot |-> s, place |-> Min(is), rejoined |-> rejoined]
    IN  CASE member # {} -> At(Min(member), {i \in Places : capmt[Min(member)].place[i] = p}, FALSE)
          [] member = {} /\ back # {} ->
                At(Min(back), {i \in Left(capmt[Min(back)]) : capmt[Min(back)].kept[i] = pmt[p].es}, TRUE)
          [] member = {} /\ back = {} /\ empty # {} -> At(Min(empty), {1}, FALSE)
          [] member = {} /\ back = {} /\ empty = {} /\ least # {} ->
                At(Min(least), Places \ Used(capmt[Min(least)]), FALSE)
          [] OTHER -> [slot |-> -1, place |-> 0, rejoined |-> FALSE]

\* remove_pmt_from_device: the place stays empty; a CAPMT with no program
\* left forgets what it sent
RemovePmt(table, p) ==
    [s \in Slots |->
        LET c == table[s]
            d == [c EXCEPT !.place = [i \in Places |-> IF @[i] = p THEN NoPmt ELSE @[i]]]
        IN  CASE ~HasPmt(c, p) -> c
              [] HasPmt(c, p) /\ Used(d) # {} -> d
              [] OTHER -> [d EXCEPT !.hash = Nothing, !.kept = NoneKept]]

\* a faulty variant: no spare number
NumberedNoSpare(table, slot, fresh) ==
    LET sid == IF fresh THEN RealSid[pmt[First(table[slot])].es] ELSE table[slot].sid
    IN  IF Active(table) # {slot} THEN table
        ELSE [s \in Slots |-> [table[s] EXCEPT !.sid = IF s = slot THEN sid ELSE SlotSid(s)]]

\* The program numbers: a CAPMT that starts alone takes the real service id,
\* the other ones the number of their slot, or the spare one if that is taken
Numbered(table, slot, fresh) ==
    LET sid == IF fresh THEN RealSid[pmt[First(table[slot])].es] ELSE table[slot].sid
    IN  IF Active(table) # {slot} THEN table
        ELSE [s \in Slots |->
                [table[s] EXCEPT !.sid = IF s = slot THEN sid
                                         ELSE IF sid = SlotSid(s) THEN SpareSid ELSE SlotSid(s)]]

\* a faulty variant: a CAM that is not ready yet counts as one that cannot
ProcessPmtNoRetry(p, update, ok) ==
    LET at    == AddPmtToCapmt(p)
        join  == [capmt EXCEPT ![at.slot].place[at.place] = p]
        table == Numbered(join, at.slot, p \notin Placed /\ Cardinality(Used(join[at.slot])) = 1)
        sent  == SendCapmt(table[at.slot], "ok_descrambling", TRUE, ok)
    IN  IF dev # "initialized" \/ at.slot = -1 \/ sent.rc # "ok"
        THEN [capmt |-> capmt, cam |-> cam, result |-> "noretry"]
        ELSE [capmt |-> [table EXCEPT ![at.slot] = sent.c], cam |-> Received(sent.c, "update", "ok_descrambling"),
              result |-> "ok"]

\* dvbca_process_pmt: adds a program or sends it again, and says how it went
ProcessPmt(p, update, ok) ==
    LET at    == AddPmtToCapmt(p)
        join  == [capmt EXCEPT ![at.slot].place[at.place] = p]
        fresh == p \notin Placed /\ Cardinality(Used(join[at.slot])) = 1
        table == Numbered(join, at.slot, fresh)
        only  == Active(join) = {at.slot} /\ fresh /\ table[at.slot].sid # join[at.slot].sid
        sent  == SendCapmt(table[at.slot], "ok_descrambling", ~update /\ ~at.rejoined, ok)
        after == [table EXCEPT ![at.slot] = sent.c]
    IN  CASE dev # "initialized" \/ at.slot = -1 -> [capmt |-> capmt, cam |-> cam, result |-> "retry"]
          [] dev = "initialized" /\ at.slot # -1 /\ ~Live(First(join[at.slot])) ->
                [capmt |-> join, cam |-> cam, result |-> "noretry"]
          [] dev = "initialized" /\ at.slot # -1 /\ Live(First(join[at.slot])) /\ sent.rc # "ok" ->
                [capmt |-> IF update THEN after ELSE RemovePmt(after, p), cam |-> cam, result |-> sent.rc]
          [] OTHER ->
                [capmt |-> after, result |-> "ok",
                 cam |-> IF sent.written
                         THEN Received(sent.c, IF only THEN "only" ELSE "update", "ok_descrambling") ELSE cam]

\* dvbca_del_pmt: the last program of a CAPMT is deselected before it leaves,
\* another one leaves without a message
DelPmt(p, ok) ==
    LET s    == CHOOSE t \in Slots : HasPmt(capmt[t], p)
        sent == SendCapmt(capmt[s], "not_selected", TRUE, ok)
    IN  CASE dev # "initialized" \/ p \notin Placed -> [capmt |-> capmt, cam |-> cam]
          [] dev = "initialized" /\ p \in Placed /\ Cardinality(Used(capmt[s])) > 1 ->
                [capmt |-> RemovePmt(capmt, p), cam |-> cam]
          [] OTHER ->
                [capmt |-> RemovePmt([capmt EXCEPT ![s] = sent.c], p),
                 cam |-> IF sent.written THEN Received(sent.c, "update", "not_selected") ELSE cam]

-----------------------------------------------------------------------------
Init ==
    /\ dev = "inactive" /\ locked = FALSE /\ known = FALSE
    /\ capmt = [s \in Slots |-> EmptyCapmt]
    /\ cam = [sid \in Sids |-> {}]
    /\ pmt = [p \in Pmts |-> EmptyPmt]
    /\ job = Idle /\ ops = 0 /\ faults = 0

Op == ops < MaxOps /\ ops' = ops + 1 /\ UNCHANGED <<dev, locked, known>>
\* a write that may fail costs a fault when it does
Write(ok) == faults' = IF ok THEN faults ELSE faults + 1
MayWrite(ok) == ok \/ faults < MaxFaults

\* tables_clear_pmt_ca_masks: the masks go, and a send under way is stale.
\* The epoch is read as torn: whether it moved since the send read it.
Cleared(m) == [m EXCEPT !.sent = FALSE, !.reg = FALSE]

\* close_pmt_for_cas, called by the thread of the adapter with no send under
\* way: only a registered program is released.  m is what becomes of the PMT.
CloseFor(p, m, ok) ==
    IF pmt[p].reg
    THEN /\ ~locked /\ Write(ok)
         /\ capmt' = DelPmt(p, ok).capmt /\ cam' = DelPmt(p, ok).cam
         /\ pmt' = [pmt EXCEPT ![p] = Cleared(m)]
    ELSE /\ ok /\ pmt' = [pmt EXCEPT ![p] = m] /\ UNCHANGED <<capmt, cam, faults>>

(***************************************************************************)
(* The thread of the adapter: programs come, are started and stopped by    *)
(* the election, get new versions and go.                                  *)
(***************************************************************************)
PmtAdd(p, es) ==
    /\ Op /\ job = Idle /\ pmt[p].state = "free"
    /\ \A q \in Pmts : pmt[q].state # "free" => RealSid[pmt[q].es] # RealSid[es]
    /\ pmt' = [pmt EXCEPT ![p] = [EmptyPmt EXCEPT !.state = "stopped", !.es = es]]
    /\ UNCHANGED <<capmt, cam, job, faults>>

StartPmt(p) ==
    /\ job = Idle /\ pmt[p].state = "stopped"
    /\ pmt' = [pmt EXCEPT ![p].state = "running"]
    /\ UNCHANGED <<dev, locked, known, capmt, cam, job, ops, faults>>

StopPmt(p, ok) ==
    /\ Op /\ job = Idle /\ MayWrite(ok) /\ pmt[p].state = "running"
    /\ CloseFor(p, [pmt[p] EXCEPT !.state = "stopped"], ok)
    /\ UNCHANGED job

PmtDel(p, ok) ==
    /\ Op /\ job = Idle /\ MayWrite(ok) /\ pmt[p].state # "free"
    /\ CloseFor(p, EmptyPmt, ok)
    /\ UNCHANGED job

\* process_pmt, a new version of a running program: reads the registered mask,
\* parses, and at the end writes it back with the send masks cleared
ProcessPmtTable(p, es) ==
    /\ Op /\ job = Idle /\ pmt[p].state = "running"
    /\ es # pmt[p].es /\ RealSid[es] = RealSid[pmt[p].es]
    /\ job' = [Idle EXCEPT !.pc = "parse", !.p = p, !.update = pmt[p].reg]
    /\ pmt' = [pmt EXCEPT ![p].es = es]
    /\ UNCHANGED <<capmt, cam, faults>>

ParseDone(ok) ==
    LET p == job.p
        m == [pmt[p] EXCEPT !.reg = job.update]
    IN  /\ job.pc = "parse" /\ job' = Idle /\ MayWrite(ok)
        /\ IF pmt[p].es \in Clear /\ m.reg
           THEN /\ ~locked /\ Write(ok)
                /\ capmt' = DelPmt(p, ok).capmt /\ cam' = DelPmt(p, ok).cam
                /\ pmt' = [pmt EXCEPT ![p] = Cleared(m)]
           ELSE /\ ok /\ UNCHANGED <<capmt, cam, faults>>
                /\ pmt' = [pmt EXCEPT ![p] = IF pmt[p].es \in Clear THEN m
                                             ELSE [m EXCEPT !.sent = FALSE, !.dis = FALSE]]
        /\ UNCHANGED <<dev, locked, known, ops>>

(***************************************************************************)
(* start_active_pmts and send_pmt_to_ca, in the steps between which the    *)
(* socket thread may run: the masks are read, then the epoch, then the     *)
(* CAM is told with the lock of the device, then the masks are written     *)
(* with the mutex of the PMT.                                              *)
(***************************************************************************)
Pending(p) == pmt[p].state = "running" /\ pmt[p].es \notin Clear /\ ~pmt[p].sent /\ ~pmt[p].dis

ReadMasks(p) ==
    /\ job = Idle /\ Pending(p)
    /\ job' = [Idle EXCEPT !.pc = "epoch", !.p = p, !.update = pmt[p].reg]
    /\ UNCHANGED <<dev, locked, known, capmt, cam, pmt, ops, faults>>

ReadEpoch ==
    /\ job.pc = "epoch" /\ job' = [job EXCEPT !.pc = "tell", !.torn = FALSE]
    /\ UNCHANGED <<dev, locked, known, capmt, cam, pmt, ops, faults>>

TellCam(ok) ==
    LET p == job.p
        r == ProcessPmt(p, job.update, ok)
    IN  /\ job.pc = "tell"
        /\ IF known /\ pmt[p].es \in Foreign
           THEN /\ ok /\ job' = [job EXCEPT !.pc = "set", !.result = "noretry"]
                /\ UNCHANGED <<capmt, cam, faults>>
           ELSE /\ ~locked /\ MayWrite(ok) /\ Write(ok)
                /\ job' = [job EXCEPT !.pc = "set", !.result = r.result]
                /\ capmt' = r.capmt /\ cam' = r.cam
        /\ UNCHANGED <<dev, locked, known, pmt, ops>>

\* a faulty variant: the epoch is not looked at
SetMasksAnyEpoch ==
    LET p == job.p
    IN  /\ job.pc = "set" /\ job' = Idle
        /\ pmt' = IF job.result = "ok" THEN [pmt EXCEPT ![p].sent = TRUE, ![p].reg = TRUE] ELSE pmt
        /\ UNCHANGED <<dev, locked, known, capmt, cam, ops, faults>>

SetMasks ==
    LET p == job.p
    IN  /\ job.pc = "set"
        /\ IF pmt[p].dis \/ pmt[p].sent \/ job.torn \/ job.result = "retry"
           THEN job' = Idle /\ UNCHANGED pmt
           ELSE IF job.result = "ok"
           THEN job' = Idle /\ pmt' = [pmt EXCEPT ![p].sent = TRUE, ![p].reg = TRUE]
           ELSE /\ pmt' = [pmt EXCEPT ![p].dis = TRUE]
                /\ job' = IF pmt[p].reg THEN [job EXCEPT !.pc = "release"] ELSE Idle
        /\ UNCHANGED <<dev, locked, known, capmt, cam, ops, faults>>

\* A re-send that was rejected: close_pmt_for_ca is called with the mutex of
\* the PMT held since SetMasks and takes the lock of the device
ReleaseRejected(ok) ==
    LET p == job.p
    IN  /\ job.pc = "release" /\ ~locked /\ MayWrite(ok) /\ Write(ok)
        /\ capmt' = DelPmt(p, ok).capmt /\ cam' = DelPmt(p, ok).cam
        /\ pmt' = [pmt EXCEPT ![p] = Cleared(@)]
        /\ job' = Idle
        /\ UNCHANGED <<dev, locked, known, ops>>

(***************************************************************************)
(* The socket thread.                                                      *)
(***************************************************************************)
Fault == faults < MaxFaults /\ faults' = faults + 1

\* the handle is open again and the session layer runs
Reconnect ==
    /\ dev = "inactive" /\ ~locked /\ dev' = "active"
    /\ UNCHANGED <<locked, known, capmt, cam, pmt, job, ops, faults>>

Forgotten == [s \in Slots |-> [capmt[s] EXCEPT !.hash = Nothing, !.kept = NoneKept]]

\* TAG_CA_INFO: the CAM starts with no program, all hashes are dropped
CaInfo ==
    /\ dev = "active" /\ ~locked /\ dev' = "initialized" /\ known' = TRUE
    /\ capmt' = Forgotten /\ cam' = [sid \in Sids |-> {}]
    /\ UNCHANGED <<locked, pmt, job, ops, faults>>

\* APP_CA_close: the CAM closes its CA session and may open another one
AppCaClose ==
    /\ dev = "initialized" /\ ~locked /\ Fault /\ dev' = "active"
    /\ cam' = [sid \in Sids |-> {}]
    /\ UNCHANGED <<locked, known, capmt, pmt, job, ops>>

\* ca_teardown, first part: takes the lock of the device
TeardownBegin ==
    /\ dev # "inactive" /\ ~locked /\ Fault /\ locked' = TRUE
    /\ UNCHANGED <<dev, known, capmt, cam, pmt, job, ops>>

\* ca_release_pmts and the rest: takes the mutex of every program that has a
\* place, so it waits for a program whose mutex the other thread holds
TeardownEnd ==
    /\ locked /\ ~(job.pc = "release" /\ job.p \in Placed)
    /\ locked' = FALSE /\ dev' = "inactive"
    /\ capmt' = [s \in Slots |-> EmptyCapmt] /\ cam' = [sid \in Sids |-> {}]
    /\ pmt' = [p \in Pmts |-> IF p \in Placed THEN [Cleared(pmt[p]) EXCEPT !.dis = FALSE] ELSE pmt[p]]
    /\ job' = IF Placed # {} /\ job # Idle THEN [job EXCEPT !.torn = TRUE] ELSE job
    /\ UNCHANGED <<known, ops, faults>>

\* the masks of a program of another adapter are cleared: the epoch is shared
ClearedElsewhere ==
    /\ job.pc \in {"tell", "set"} /\ ~job.torn /\ Fault
    /\ job' = [job EXCEPT !.torn = TRUE]
    /\ UNCHANGED <<dev, locked, known, capmt, cam, pmt, ops>>

-----------------------------------------------------------------------------
Next ==
    \/ \E p \in Pmts, es \in Streams : PmtAdd(p, es) \/ ProcessPmtTable(p, es)
    \/ \E p \in Pmts : StartPmt(p) \/ ReadMasks(p)
    \/ \E p \in Pmts, ok \in BOOLEAN : StopPmt(p, ok) \/ PmtDel(p, ok)
    \/ \E ok \in BOOLEAN : ParseDone(ok) \/ TellCam(ok) \/ ReleaseRejected(ok)
    \/ ReadEpoch \/ SetMasks
    \/ Reconnect \/ CaInfo \/ AppCaClose \/ TeardownBegin \/ TeardownEnd \/ ClearedElsewhere

Spec == Init /\ [][Next]_vars

\* The two threads never wait for each other: one with the mutex of a program
\* for the lock of the device, the other with that lock for the mutex.
NoLockCycle == ~(job.pc = "release" /\ locked /\ job.p \in Placed)

\* The thread of the adapter goes on with what it does and comes back to every
\* pending program (the demux pass runs over all of them, again and again); the
\* socket of the CAM is handled and the poller reconnects.  Written with the
\* conditions under which the actions are enabled.
JobDue ==
    \/ job.pc \in {"epoch", "set"}
    \/ job.pc \in {"parse", "tell", "release"} /\ ~locked
JobStep ==
    \/ ReadEpoch \/ SetMasks
    \/ \E ok \in BOOLEAN : ParseDone(ok) \/ TellCam(ok) \/ ReleaseRejected(ok)

SocketDue == IF locked THEN NoLockCycle ELSE dev # "initialized"
SocketStep == Reconnect \/ CaInfo \/ TeardownEnd

Fairness ==
    /\ \A p \in Pmts : <>[](job # Idle \/ ~Pending(p)) \/ []<><<ReadMasks(p)>>_vars
    /\ []<>(~JobDue) \/ []<><<JobStep>>_vars
    /\ []<>(~SocketDue) \/ []<><<SocketStep>>_vars

FairSpec == Spec /\ Fairness

-----------------------------------------------------------------------------
LoopsType == [Places -> Streams \union {NoStreams}]
ContentsType == [sid : Sids, reason : {"ok_descrambling", "not_selected"}, es : LoopsType]
CapmtType == [place : [Places -> Pmts \union {NoPmt}], sid : Sids,
              hash : ContentsType \union {Nothing}, kept : LoopsType]
PmtType == [state : {"free", "stopped", "running"}, es : Streams \union {NoStreams},
            sent : BOOLEAN, reg : BOOLEAN, dis : BOOLEAN]

\* Every variable has its type; a program has neither stream loop nor mask in
\* a free slot, and a stream loop in every other one.
TypeOK ==
    /\ dev \in {"inactive", "active", "initialized"}
    /\ locked \in BOOLEAN /\ known \in BOOLEAN
    /\ capmt \in [Slots -> CapmtType]
    /\ cam \in [Sids -> SUBSET Streams]
    /\ pmt \in [Pmts -> PmtType]
    /\ job \in [pc : {"idle", "parse", "epoch", "tell", "set", "release"}, p : Pmts \union {NoPmt},
                update : BOOLEAN, torn : BOOLEAN, result : Results]
    /\ \A p \in Pmts : IF pmt[p].state = "free" THEN pmt[p] = EmptyPmt ELSE pmt[p].es \in Streams

\* What the masks say of the CAM is true: a program marked as sent has a place
\* in a CAPMT, and unless the CAM restarted its CA application since (no hash
\* is kept then), the CAM has its current streams under the number of that
\* CAPMT.  A send that a teardown overtakes must not mark anything.
SentIsThere ==
    \A p \in Pmts : pmt[p].sent /\ job.p # p =>
        \E s \in Slots : /\ HasPmt(capmt[s], p)
                         /\ capmt[s].hash # Nothing /\ dev = "initialized"
                                => pmt[p].es \in cam[capmt[s].sid]

\* Two CAPMTs that carry programs never share a program number: the CAM would
\* drop the programs of one for those of the other.
NumbersDiffer ==
    \A s, t \in Active(capmt) : s # t => capmt[s].sid # capmt[t].sid

\* The CAM has the program: its current streams under the number of its CAPMT.  The
\* exception is a CAPMT whose hash CA_INFO dropped when the CAM closed its CA session and
\* opened it again: the masks still say sent, so no pass sends the program to the
\* restarted application (an update of it, or of a partner, does).
InCam(p) ==
    pmt[p].sent /\ \E s \in Slots : /\ HasPmt(capmt[s], p)
                                    /\ pmt[p].es \in cam[capmt[s].sid] \/ capmt[s].hash = Nothing

\* A program packed next to one that no longer exists is given up: the first program of
\* its CAPMT is not found.  Such a place is left behind when the masks were not set
\* because of a teardown of another adapter, and the program went before it was tried again.
GivenUp(p) == \E s \in Slots : HasPmt(capmt[s], p) /\ ~Live(First(capmt[s]))

\* With a place for every program, a program that keeps running and whose CAIDs the CAM
\* has is in the CAM in the end, whatever writes failed, masks were cleared and CAMs lost
\* on the way, but for the exception of InCam, unless it is given up or the two threads
\* wait for each other.
EventuallySent ==
    []NoLockCycle =>
        \A p \in Pmts :
            []~GivenUp(p) => (<>[](pmt[p].state = "running" /\ pmt[p].es \notin Foreign \union Clear) => <>[]InCam(p))
=============================================================================
