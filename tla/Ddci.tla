-------------------------------- MODULE Ddci --------------------------------
(***************************************************************************)
(* Sharing a CAM between adapters (ddci.cpp), with the CA table's send of  *)
(* a program to it (tables.cpp).                                           *)
(*                                                                         *)
(* A DDCI device is a CAM with a transport stream input and output of its  *)
(* own.  Programs of several adapters are multiplexed into it: each        *)
(* program takes a slot, its pids get numbers that are free on the device, *)
(* a PAT, SDT and PMTs made up for the multiplex are sent along, and what  *)
(* the CAM returns is given back to the adapter under the original pid.    *)
(*                                                                         *)
(* An adapter's thread sends its programs one at a time: it chooses a      *)
(* device without a lock (Choose), registers under the device's lock       *)
(* (Register), and sets the program's CA mask if no other thread cleared a *)
(* mask meanwhile.  The choice uses `chan`, the candidates per service,    *)
(* which the configuration file may fix.                                   *)
(*                                                                         *)
(* Left out: the other CAs of the table, the layout of the tables sent,    *)
(* their version numbers beyond whether they changed since the last table  *)
(* was sent, which streams a client asked for, a device that is opened     *)
(* again while programs run.                                               *)
(***************************************************************************)
EXTENDS Integers, Sequences, FiniteSets, SequencesExt, FiniteSetsExt

CONSTANTS Adapters,      \* the adapters with programs
          Devices,       \* the DDCI devices, by number
          Pmts,          \* the programs
          AdapterOf, Sid, PmtPid,    \* of a program
          Layouts,       \* program -> the versions of its PMT
          Suits,         \* program -> devices whose CAM has one of its CAIDs
          MaxChannels,   \* device -> max_channels
          Resets,        \* devices whose CAM is initialised while the program runs
          Emm,           \* adapter -> the EMM pids its CAT names
          Files,         \* possible contents of ddci.conf: service -> list of devices
          LastPid        \* 8191: the null pid, which is no number for a mapping

Cat == 1
Tdt == 20
NoPmt == 0
NoDpid == -1
Nobody == [pmt |-> NoPmt, dev |-> 0]

ASSUME PmtsAssumption == NoPmt \notin Pmts /\ AdapterOf \in [Pmts -> Adapters]
\* programs of one adapter have PMT pids of their own
ASSUME PmtPidAssumption == \A p, q \in Pmts : AdapterOf[p] = AdapterOf[q] /\ PmtPid[p] = PmtPid[q] => p = q

VARIABLES dev,      \* ddci_devices
          ready,    \* devices whose CAM is initialised
          chan,     \* channels: service -> [cands, locked]
          prog,     \* per program: layout, state with the CA table, registered mask
          send,     \* per adapter: the send in progress
          marks     \* <<adapter, pid>> with DDCI_SID in the adapter's pid table

vars == <<dev, ready, chan, prog, send, marks>>

Slots(d) == 1 .. MaxChannels[d]
NewDevice(d) ==
    [slot |-> [i \in Slots(d) |-> NoPmt], channels |-> 0, mapping |-> {}, emm |-> {}, cat |-> FALSE,
     psi_changed |-> FALSE, newver |-> FALSE]

\* load_channels
Loaded(f) == [s \in DOMAIN f |-> [cands |-> f[s], locked |-> TRUE]]

Init ==
    /\ dev = [d \in Devices |-> NewDevice(d)]
    /\ \E r \in SUBSET Resets : ready = Devices \ r
    /\ \E f \in Files : chan = Loaded(f)
    /\ prog = [p \in Pmts |-> [state |-> "wait", reg |-> FALSE, layout |-> CHOOSE l \in Layouts[p] : TRUE]]
    /\ send = [a \in Adapters |-> Nobody]
    /\ marks = {}

Streams(p) == ToSet(prog[p].layout.streams)
PidsOf(p) == {PmtPid[p]} \union Streams(p) \union prog[p].layout.ecm

(***************************************************************************)
(* The mapping table of a device                                           *)
(***************************************************************************)
\* has_pid_mapping, get_pid_mapping
Entries(v, a, pid) == {m \in v.mapping : m.ad = a /\ m.pid = pid}
Mapped(v, a, pid) == Entries(v, a, pid) # {}
Numbers(v) == {m.dpid : m \in v.mapping}                             \* get_ddci_pid

\* a faulty variant: a number in use is given out again
FindPidTaken(v, pid) == IF pid >= LastPid THEN NoDpid ELSE pid
\* find_ddci_pid
FindPid(v, pid) ==
    LET free == (pid .. LastPid - 1) \ Numbers(v)
    IN  IF free = {} THEN NoDpid ELSE Min(free)

\* The operators below work on a device and the marks of the adapters.
World(d) == [v |-> dev[d], marks |-> marks]

\* add_pid_mapping_table
AddPid(w, a, pid, p, force) ==
    LET old == Entries(w.v, a, pid)
        m == IF old # {} THEN CHOOSE e \in old : TRUE
             ELSE [ad |-> a, pid |-> pid, dpid |-> FindPid(w.v, pid), rewrite |-> TRUE, users |-> {}, added |-> FALSE]
        first == m.users = {} /\ force
        n == IF m.dpid = NoDpid THEN m ELSE [m EXCEPT !.users = @ \union {p}, !.added = @ \/ first]
    IN  [w EXCEPT !.v.mapping = (@ \ old) \union {n},
                  !.marks = IF n.added /\ ~m.added THEN @ \union {<<a, pid>>} ELSE @]
AddPids(w, a, pids, p, force) == FoldLeft(LAMBDA u, pid : AddPid(u, a, pid, p, force), w, pids)

\* set_pid_rewrite
NoRewrite(w, a, pid) ==
    [w EXCEPT !.v.mapping = {IF m.ad = a /\ m.pid = pid THEN [m EXCEPT !.rewrite = FALSE] ELSE m : m \in @}]

\* release_mapping_entry, for the entries es
Release(w, es) ==
    [w EXCEPT !.v.mapping = @ \ es, !.marks = @ \ {<<m.ad, m.pid>> : m \in {e \in es : e.added}}]

\* one user leaves the entries es; those without users go
LeaveEntries(w, es, p) ==
    LET left(m) == [m EXCEPT !.users = @ \ {p}]
        w1 == [w EXCEPT !.v.mapping = (@ \ es) \union {left(m) : m \in es}]
    IN  Release(w1, {m \in w1.v.mapping : m \in {left(e) : e \in es} /\ m.users = {}})

IsEmm(v, m) == <<m.ad, m.pid>> \in v.emm
\* drop_orphan_emm
DropOrphanEmm(w, a) ==
    LET mine == {m \in w.v.mapping : m.ad = a}
        keys == {k \in w.v.emm : k[1] = a}
    IN  IF keys = {} \/ \E m \in mine : ~IsEmm(w.v, m) THEN w
        ELSE [Release(w, mine) EXCEPT !.v.emm = @ \ keys, !.v.cat = FALSE]

\* a faulty variant: the EMM pids stay
DelMappingKeepsEmm(w, a, p) == LeaveEntries(w, {m \in w.v.mapping : m.ad = a /\ ~IsEmm(w.v, m)}, p)
\* del_pmt_mapping_table
DelMapping(w, a, p) == DropOrphanEmm(LeaveEntries(w, {m \in w.v.mapping : m.ad = a /\ ~IsEmm(w.v, m)}, p), a)

\* unmap_removed_pids
UnmapRemoved(w, a, p) ==
    LeaveEntries(w, {m \in w.v.mapping : /\ m.ad = a /\ p \in m.users /\ ~IsEmm(w.v, m)
                                         /\ m.pid \notin PidsOf(p) \union {Cat, Tdt}}, p)

(***************************************************************************)
(* Choosing a device                                                       *)
(***************************************************************************)
HoldersOf(p) == {d \in Devices : \E i \in Slots(d) : dev[d].slot[i] = p}     \* find_registered_ddci
MappedBy(a, pid) == {d \in Devices : Mapped(dev[d], a, pid)}                 \* get_pid_mapping_allddci
RunningOn(p) ==                                                              \* is_pmt_running
    IF prog[p].layout.streams = <<>> THEN {} ELSE MappedBy(AdapterOf[p], Head(prog[p].layout.streams))
Full(d) == dev[d].channels >= MaxChannels[d]

\* create_channel_for_pmt
Created(p) == [cands |-> SetToSortSeq(Suits[p] \intersect ready, <), locked |-> FALSE]
\* the first of the least used candidates (find_ddci_for_pmt)
Best(cands) ==
    LET ok(i) == ~Full(cands[i]) /\ cands[i] \in ready
        best(i) == /\ ok(i)
                   /\ \A j \in DOMAIN cands : ok(j) =>
                         LET x == dev[cands[i]].channels
                             y == dev[cands[j]].channels IN x < y \/ (x = y /\ i <= j)
    IN  {cands[i] : i \in {k \in DOMAIN cands : best(k)}}

ForgetChannel(ch, s) == [t \in DOMAIN ch \ {s} |-> ch[t]]
WithChannel(ch, s, c) == [t \in DOMAIN ch \union {s} |-> IF t = s THEN c ELSE ch[t]]

\* a faulty variant: the candidates of an attempt that failed are kept
RetryKeeps(ch, s, c) == WithChannel(ch, s, c)
\* candidates that were not configured are dropped, for a device that gets ready later
RetryLater(ch, s, c) == IF c.locked THEN ch ELSE ForgetChannel(ch, s)

\* An attempt to find a device for a program without a slot, with the channels ch: a
\* device or 0, the channels then, and whether the program is refused for good
\* (get_ddci_channel_for_pmt, find_ddci_for_pmt).
Attempt(p, ch) ==
    LET s == Sid[p]
        known == s \in DOMAIN ch
        c == IF known THEN ch[s] ELSE Created(p)
        best == IF RunningOn(p) # {} THEN {Min(RunningOn(p))} ELSE Best(c.cands)
    IN  IF ~known /\ c.cands = <<>> THEN [dev |-> 0, chan |-> ch, refused |-> ready = Devices]
        ELSE IF best # {} THEN [dev |-> CHOOSE d \in best : TRUE, chan |-> WithChannel(ch, s, c), refused |-> FALSE]
        ELSE IF c.cands = <<>> THEN [dev |-> 0, chan |-> ch, refused |-> TRUE]
        ELSE [dev |-> 0, chan |-> RetryLater(ch, s, c), refused |-> FALSE]

\* send_pmt_to_ca up to the lock in ddci_process_pmt; a program that has a slot is sent
\* there when its CAM is ready
Choose(a, p) ==
    LET held == HoldersOf(p)
        x == IF held = {} THEN Attempt(p, chan) ELSE [dev |-> Min(held), chan |-> chan, refused |-> FALSE]
    IN  /\ send[a] = Nobody /\ AdapterOf[p] = a /\ prog[p].state = "wait"
        /\ held \subseteq ready
        /\ chan' = x.chan
        /\ send' = IF x.dev = 0 THEN send ELSE [send EXCEPT ![a] = [pmt |-> p, dev |-> x.dev]]
        /\ prog' = IF x.refused THEN [prog EXCEPT ![p].state = "disabled"] ELSE prog
        /\ UNCHANGED <<dev, ready, marks>>

(***************************************************************************)
(* Registering and releasing                                               *)
(***************************************************************************)
BecomesDev(d, w) == dev' = [dev EXCEPT ![d] = w.v] /\ marks' = w.marks

\* the pids of a program: mandatory ones if the adapter has none, PMT, ECMs, streams
MapProgram(w, p) ==
    LET a == AdapterOf[p]
        need == SelectSeq(<<Cat, Tdt>>, LAMBDA pid : ~Mapped(w.v, a, pid))
        w1 == AddPids(w, a, need, p, TRUE)
        w2 == IF Cat \in ToSet(need) THEN [w1 EXCEPT !.v.cat = FALSE] ELSE w1
        w3 == NoRewrite(AddPid(w2, a, PmtPid[p], p, FALSE), a, PmtPid[p])
        w4 == AddPids(w3, a, SetToSortSeq(prog[p].layout.ecm, <), p, TRUE)
    IN  UnmapRemoved(AddPids(w4, a, prog[p].layout.streams, p, FALSE), a, p)

\* the slot, versions, channel count
TakeSlot(v, i, p) ==
    LET new == v.slot[i] # p
    IN  [v EXCEPT !.slot[i] = p, !.channels = IF new THEN @ + 1 ELSE @, !.newver = TRUE, !.psi_changed = @ \/ new]

\* the slots to choose from: the one held, else a free one
SlotFor(v, p, d) ==
    LET held == {i \in Slots(d) : v.slot[i] = p}
    IN  IF held # {} THEN held ELSE {i \in Slots(d) : v.slot[i] = NoPmt}

\* ddci_process_pmt under the device's lock, then the masks of send_pmt_to_ca; without a
\* slot the send is retried
Register(a) ==
    LET p == send[a].pmt
        d == send[a].dev
        pos == SlotFor(dev[d], p, d)
    IN  /\ send[a] # Nobody
        /\ send' = [send EXCEPT ![a] = Nobody]
        /\ IF pos = {} THEN UNCHANGED <<dev, marks, prog>>
           ELSE /\ BecomesDev(d, MapProgram([World(d) EXCEPT !.v = TakeSlot(@, Min(pos), p)], p))
                /\ prog' = [prog EXCEPT ![p].state = "sent", ![p].reg = TRUE]
        /\ UNCHANGED <<ready, chan>>

\* the slot of a program, with the versions and the flag that has the tables sent
FreeSlots(v, p, d) ==
    LET held == \E i \in Slots(d) : v.slot[i] = p
    IN  [v EXCEPT !.slot = [i \in Slots(d) |-> IF @[i] = p THEN NoPmt ELSE @[i]],
                  !.channels = IF held THEN @ - 1 ELSE @,
                  !.newver = TRUE, !.psi_changed = @ \/ held]

\* ddci_del_pmt
DelPmt(p) ==
    LET a == AdapterOf[p]
        on == MappedBy(a, PmtPid[p])
    IN  IF on = {}
        THEN dev' = [d \in Devices |-> IF d \in HoldersOf(p) THEN FreeSlots(dev[d], p, d) ELSE dev[d]] /\ UNCHANGED marks
        ELSE LET d == Min(on)
             IN  BecomesDev(d, DelMapping([World(d) EXCEPT !.v = FreeSlots(@, p, d)], a, p))

\* stop_pmt, close_pmt_for_ca; on the thread of the adapter
Stop(p) ==
    /\ prog[p].reg \/ prog[p].state = "disabled"
    /\ send[AdapterOf[p]] = Nobody
    /\ prog' = [prog EXCEPT ![p].state = "wait", ![p].reg = FALSE]
    /\ IF prog[p].reg THEN DelPmt(p) ELSE UNCHANGED <<dev, marks>>
    /\ UNCHANGED <<ready, chan, send>>

\* a new version of the PMT: the program is sent again
Update(p, l) ==
    /\ send[AdapterOf[p]] = Nobody /\ l # prog[p].layout
    /\ prog' = [prog EXCEPT ![p].layout = l, ![p].state = "wait"]
    /\ UNCHANGED <<dev, ready, chan, send, marks>>

(***************************************************************************)
(* CAT, packets, CAM                                                       *)
(***************************************************************************)
\* ddci_process_cat; the filter is there while pid 1 is mapped
ProcessCat(d, a) ==
    LET v == dev[d]
        keep == {k \in v.emm : k[1] # a}
        w == AddPids([World(d) EXCEPT !.v.emm = keep], a, SetToSortSeq(Emm[a], <), v.slot[1], TRUE)
    IN  /\ Mapped(v, a, Cat) /\ ~v.cat
        /\ BecomesDev(d, IF Emm[a] \intersect Numbers(v) # {} THEN [World(d) EXCEPT !.v.cat = TRUE]
                         ELSE [w EXCEPT !.v.cat = TRUE, !.v.emm = @ \union {<<a, pid>> : pid \in Emm[a]}])
        /\ UNCHANGED <<ready, chan, prog, send>>

\* ddci_create_pat, ddci_create_sdt: the services named
Services(v) == {p \in Pmts : Mapped(v, AdapterOf[p], PmtPid[p]) /\ \E i \in DOMAIN v.slot : v.slot[i] = p}
\* safe_get_pid_mapping
NumberOf(v, a, pid) == IF Mapped(v, a, pid) THEN (CHOOSE m \in Entries(v, a, pid) : TRUE).dpid ELSE pid
\* ddci_create_pmt
PmtFor(v, p) == {NumberOf(v, AdapterOf[p], pid) : pid \in Streams(p) \union prog[p].layout.ecm}

\* ddci_process_ts: the packets of these entries are written, each under the number of its
\* entry.  That of an entry without one is -1, which makes them null packets (the write to
\* dd_ad_pids[-1], outside of the table, is left out)
Sendable(v, a) == {m \in v.mapping : m.ad = a /\ m.rewrite}
WrittenAs(m) == IF m.dpid = NoDpid THEN LastPid ELSE m.dpid
\* push_ts_to_adapter: a packet that comes back with a number is given the pid of the
\* adapter's entry that has it, if there is one
Back(v, a, dpid) == {m.pid : m \in {e \in Sendable(v, a) : e.dpid = dpid}}

\* ddci_process_ts with ddci_add_psi: packets of a mapped pid are written, and PAT and
\* SDT with them, when the services changed or else every 500 ms
Write(a, d) ==
    /\ Sendable(dev[d], a) # {}
    /\ dev' = [dev EXCEPT ![d].psi_changed = FALSE, ![d].newver = FALSE]
    /\ UNCHANGED <<ready, chan, prog, send, marks>>

\* the CAM gets ready, or is initialised anew
CamReady(d) ==
    /\ ready' = IF d \in ready THEN ready \ {d} ELSE ready \union {d}
    /\ UNCHANGED <<dev, chan, prog, send, marks>>

Next ==
    \/ \E p \in Pmts : Stop(p) \/ \E l \in Layouts[p] : Update(p, l)
    \/ \E a \in Adapters : \/ \E p \in Pmts : Choose(a, p)
                           \/ Register(a)
                           \/ \E d \in Devices : ProcessCat(d, a) \/ Write(a, d)
    \/ \E d \in Resets : CamReady(d)

Spec == Init /\ [][Next]_vars

-----------------------------------------------------------------------------
TypeOK ==
    /\ \A d \in Devices :
           /\ dev[d].slot \in [Slots(d) -> Pmts \union {NoPmt}]
           /\ \A m \in dev[d].mapping : m.ad \in Adapters /\ m.dpid \in 1 .. LastPid - 1 \union {NoDpid}
           /\ dev[d].psi_changed \in BOOLEAN /\ dev[d].newver \in BOOLEAN
    /\ ready \subseteq Devices
    /\ \A s \in DOMAIN chan : chan[s].cands \in Seq(Devices) /\ chan[s].locked \in BOOLEAN
    /\ \A p \in Pmts : prog[p].state \in {"wait", "sent", "disabled"} /\ prog[p].layout \in Layouts[p]
    /\ \A a \in Adapters : send[a].pmt \in Pmts \union {NoPmt}

\* While its entry stands, a packet written to the CAM comes back to the adapter and the
\* pid it was taken from and to no other adapter of the multiplex, whatever was mapped and
\* released before.  An entry for which find_ddci_pid found no number is the exception:
\* its packets are written as null packets and come back to nobody.  (A packet that is
\* still in the CAM when its entry goes is not covered.)  A program that was sent is a
\* service of its device, and the PMT made for it names numbers that are mapped for this
\* very program, or the null pid for a stream without a number.
RoundTrip ==
    /\ \A d \in Devices, a, b \in Adapters : \A m \in Sendable(dev[d], a) :
           Back(dev[d], b, WrittenAs(m)) = IF b = a /\ m.dpid # NoDpid THEN {m.pid} ELSE {}
    /\ \A p \in Pmts : prog[p].state = "sent" =>
           \E d \in HoldersOf(p) :
               /\ p \in Services(dev[d])
               /\ PmtFor(dev[d], p) \subseteq
                      {NoDpid} \union {m.dpid : m \in {e \in dev[d].mapping : e.ad = AdapterOf[p] /\ p \in e.users}}

\* An entry that is no EMM pid serves programs that hold a slot of the device; when the
\* last program of an adapter leaves, nothing of the adapter stays mapped, EMM pids
\* included, and nothing stays switched on for it.
NothingLeft ==
    /\ \A d \in Devices : \A m \in dev[d].mapping :
           /\ ~IsEmm(dev[d], m) => \A p \in m.users : d \in HoldersOf(p)
           /\ \E p \in Pmts : AdapterOf[p] = m.ad /\ d \in HoldersOf(p)
    /\ \A k \in marks : \E d \in Devices : \E m \in Entries(dev[d], k[1], k[2]) : m.added

\* the devices that may take a program now
Usable(p) ==
    LET fixed == Sid[p] \in DOMAIN chan /\ chan[Sid[p]].locked
        on == IF RunningOn(p) # {} THEN {Min(RunningOn(p))}
              ELSE IF fixed THEN ToSet(chan[Sid[p]].cands) ELSE Suits[p]
    IN  {d \in on : d \in ready /\ ~Full(d)}
\* While a device that may take a waiting program is ready and has a free channel, the
\* program finds one with this attempt or the next: what was ready or full when it was
\* tried before does not keep it waiting, nor is it refused.
FoundInTwo ==
    \A p \in Pmts : HoldersOf(p) = {} /\ prog[p].state # "sent" /\ Usable(p) # {} =>
        /\ prog[p].state = "wait"
        /\ LET x == Attempt(p, chan) IN x.dev # 0 \/ Attempt(p, x.chan).dev # 0
=============================================================================
