------------------------------- MODULE Dvbapi -------------------------------
(***************************************************************************)
(* The dvbapi client (dvbapi.cpp) and its entry in the CA table            *)
(* (tables.cpp): programs are announced to a server (OSCam) with a CAPMT   *)
(* message, the server asks for sections with DMX_SET_FILTER and DMX_STOP, *)
(* gets the ECMs and answers with control words.                           *)
(*                                                                         *)
(* A key of the pool `keys` stands for one announced program; its number   *)
(* is the demux index under which the server knows it.  Three kinds of     *)
(* threads use the keys:                                                   *)
(*   - the socket's thread reads the server's messages, runs dvbapi_close  *)
(*     when the connection is lost, and once a second connect_dvbapi;      *)
(*   - an adapter's thread, holding the adapter's mutex, sends its         *)
(*     programs to the CA table and closes them when they stop or when the *)
(*     watchdog finds them undecrypted.                                    *)
(* A thread's place between two lock regions is `th`.  keys_del is two     *)
(* steps, as other threads add keys between its count of the enabled keys  *)
(* and its message to the server.                                          *)
(*                                                                         *)
(* The server is external: it is modelled by what the client expects of    *)
(* it.  It handles the client's messages at once; its own are queued, so   *)
(* that they may arrive when the key they name is another program's.       *)
(*                                                                         *)
(* Left out: the local-socket mode, in which programs share a demux index; *)
(* the order of the bytes of a message; what ECM_INFO shows; DDCI          *)
(* adapters, which dvbapi_add_pmt refuses; adapters and programs that are  *)
(* removed.  The control words themselves are in Descrambling.             *)
(***************************************************************************)
EXTENDS Integers, Sequences, FiniteSets, SequencesExt, FiniteSetsExt

CONSTANTS Pmts,         \* the programs
          Adapters,     \* the adapters, each with its thread
          AdapterOf,    \* of a program
          EcmPid,       \* program -> the pid of its ECMs
          Contents,     \* program -> versions of its PMT that give different CAPMTs, 0 the first
          MaxKeys,      \* MAX_KEYS
          Limits,       \* the sizes of the pool to try, up to MaxKeys
          MaxFilters,   \* MAX_KEY_FILTERS
          MaxQueue      \* bound: unread messages after which the server asks for no filter

NoPmt == 0
NoKey == 0
Nobody == <<NoPmt, 0>>
NoAdapter == 0
Socket == 0                  \* the socket's thread
Keys == 1 .. MaxKeys
Threads == Adapters \cup {Socket}

ASSUME DvbapiAssumption ==
    /\ NoPmt \notin Pmts /\ AdapterOf \in [Pmts -> Adapters] /\ 0 \notin Adapters
    /\ DOMAIN EcmPid = Pmts /\ \A p \in Pmts : Contents[p] \subseteq Nat /\ 0 \in Contents[p]
    /\ MaxKeys \in Nat \ {0} /\ Limits \subseteq 1 .. MaxKeys /\ MaxFilters \in Nat \ {0} /\ MaxQueue \in Nat

VARIABLES link,   \* [sock, enabled, force]: sock > 0, dvbapi_is_enabled, a close was asked for
          ca,     \* [on, ads]: the CA table's entry is enabled, adapters with its bit in ca_mask
          keys,   \* key -> SKey
          limit,  \* the size of the pool
          pmt,    \* program -> [run, content, sent, reg, opaque]
          th,     \* thread -> where it is
          srv,    \* [pmts, filters]: what the server knows: demux index -> program, filters it has set
          inq,    \* the server's messages that were not read yet
          demux,  \* <<adapter, pid, key>> of the section filters that call send_ecm
          struck  \* history: programs whose key another program's dvbapi_del_pmt deleted, or whose mask was skipped

vars == <<link, ca, keys, limit, pmt, th, srv, inq, demux, struck>>

NewKey == [enabled |-> FALSE, allocated |-> FALSE, pmt |-> NoPmt, adapter |-> NoAdapter, filters |-> {}, ecms |-> 0,
           stop |-> "none", hash |-> Nobody]
NoServer == [pmts |-> [k \in Keys |-> Nobody], filters |-> {}]
Idle == [at |-> "idle"]

Init ==
    /\ link = [sock |-> FALSE, enabled |-> FALSE, force |-> FALSE]
    /\ ca = [on |-> FALSE, ads |-> {}]
    /\ keys = [k \in Keys |-> NewKey] /\ limit \in Limits
    /\ pmt = [p \in Pmts |-> [run |-> FALSE, content |-> 0, sent |-> FALSE, reg |-> FALSE,
                              opaque |-> NoKey]]
    /\ th = [t \in Threads |-> Idle]
    /\ srv = NoServer
    /\ inq = <<>> /\ demux = {} /\ struck = {}

Enabled(k) == k \in Keys /\ keys[k].enabled
\* the thread that holds the adapter's mutex: its own, or the socket's in keys_del and what follows
Holds(t) == IF th[t].at \in {"del", "close"} THEN th[t].ad ELSE NoAdapter
Free(a) == th[a] = Idle /\ Holds(Socket) # a
\* threads between the two PMT locks of send_pmt_to_ca see that ca_teardown_epoch changed
Torn(w) == [t \in Threads |-> IF w[t].at \in {"key", "mask"} THEN [w[t] EXCEPT !.stale = TRUE] ELSE w[t]]

-----------------------------------------------------------------------------
(* The server *)

Stops(fs) == SetToSeq({[op |-> "stop", key |-> f[1], pid |-> f[2]] : f \in fs})
OfKey(k) == {f \in srv.filters : f[1] = k}
NoLink == [sock |-> FALSE, enabled |-> FALSE, force |-> FALSE]

\* TEST_WRITE: a write that fails asks for the socket's close, which its own thread does; the later ones
\* on this connection fail too, and what the server then knows is of no use
WriteFails ==
    /\ link' = [link EXCEPT !.enabled = FALSE, !.force = TRUE]
    /\ srv' = NoServer
    /\ UNCHANGED inq

\* it asks for the ECMs of a program it knows
ServerSetFilter(k) ==
    /\ srv.pmts[k] # Nobody /\ Len(inq) < MaxQueue
    /\ LET pid == EcmPid[srv.pmts[k][1]] IN
       /\ <<k, pid>> \notin srv.filters
       /\ srv' = [srv EXCEPT !.filters = @ \cup {<<k, pid>>}]
       /\ inq' = Append(inq, [op |-> "set", key |-> k, pid |-> pid])
    /\ UNCHANGED <<link, ca, keys, pmt, th, demux, struck>>

\* it gives a program up, or tries another ECM pid
ServerStop(k) ==
    /\ OfKey(k) # {} /\ Len(inq) < MaxQueue
    /\ inq' = inq \o Stops(OfKey(k))
    /\ srv' = [srv EXCEPT !.filters = @ \ OfKey(k)]
    /\ UNCHANGED <<link, ca, keys, pmt, th, demux, struck>>

-----------------------------------------------------------------------------
(* keys_del; close_pmt_for_ca and dvbapi_del_pmt, by thread t *)

\* up to the message: the others are counted while they may change
DelMark(t, k, p, next) ==
    /\ keys' = [keys EXCEPT ![k].enabled = FALSE]
    /\ th' = [th EXCEPT ![t] = [at |-> "del", key |-> k, pmt |-> p, ad |-> AdapterOf[p], next |-> next,
                                msg |-> IF \E o \in Keys \ {k} : Enabled(o) THEN {k} ELSE Keys]]

\* tables_clear_pmt_ca_masks
Unmasked(pm, p) == [pm EXCEPT ![p].opaque = NoKey, ![p].sent = FALSE, ![p].reg = FALSE]

Registered(p) == ca.on /\ AdapterOf[p] \in ca.ads /\ pmt[p].reg

\* dvbapi_del_pmt deletes the key that opaque names, whichever program it now belongs to
ClosePmt(t, p, pm) ==
    LET k == pmt[p].opaque IN
    \/ /\ ~Registered(p)
       /\ pmt' = pm /\ th' = [th EXCEPT ![t] = Idle]
       /\ UNCHANGED <<keys, struck>>
    \/ /\ Registered(p) /\ ~Enabled(k)
       /\ pmt' = Unmasked(pm, p) /\ th' = Torn([th EXCEPT ![t] = Idle])
       /\ struck' = struck \ {p}
       /\ UNCHANGED keys
    \/ /\ Registered(p) /\ Enabled(k)
       /\ pmt' = pm
       /\ DelMark(t, k, p, "close")
       /\ struck' = struck \cup ({keys[k].pmt} \ {p})

\* what the thread goes on with after keys_del: the next key, the masks, or close_pmt_for_ca
AfterDel(t) ==
    LET w == th[t]
        Goes(s) == [th EXCEPT ![t] = s] IN
    \/ w.next = "scan" /\ th' = Goes([at |-> "scan", key |-> w.key + 1]) /\ UNCHANGED <<pmt, struck>>
    \/ w.next = "idle" /\ th' = Goes([at |-> "close", pmt |-> w.pmt, ad |-> w.ad]) /\ UNCHANGED <<pmt, struck>>
    \/ /\ w.next = "close"
       /\ IF pmt[w.pmt].reg THEN pmt' = Unmasked(pmt, w.pmt) /\ th' = Torn(Goes(Idle))
          ELSE pmt' = [pmt EXCEPT ![w.pmt].opaque = NoKey] /\ th' = Goes(Idle)
       /\ struck' = struck \ {w.pmt}

\* the stop message, the filters, and the slot last; what keys_add sets again is reset here already
DelFree(t) ==
    LET k == th[t].key
        gone == {f \in srv.filters : f[1] \in th[t].msg} IN
    /\ th[t].at = "del"
    /\ \/ ~link.sock /\ UNCHANGED <<link, srv, inq>>
       \/ /\ link.sock /\ ~link.force
          /\ inq' = inq \o Stops(gone)
          /\ srv' = [pmts |-> [d \in Keys |-> IF d \in th[t].msg THEN Nobody ELSE srv.pmts[d]],
                     filters |-> srv.filters \ gone]
          /\ UNCHANGED link
       \/ link.sock /\ WriteFails
    /\ demux' = {f \in demux : f[3] # k \/ f[2] \notin keys[k].filters}
    /\ keys' = [keys EXCEPT ![k] = NewKey]
    /\ AfterDel(t)
    /\ UNCHANGED ca

-----------------------------------------------------------------------------
(* The adapter's thread: programs start, change and stop; send_pmt_to_ca *)

StartPmt(p) ==
    /\ Free(AdapterOf[p]) /\ ~pmt[p].run
    /\ pmt' = [pmt EXCEPT ![p].run = TRUE]
    /\ UNCHANGED <<link, ca, keys, th, srv, inq, demux, struck>>

StopPmt(p) ==
    /\ Free(AdapterOf[p]) /\ pmt[p].run
    /\ ClosePmt(AdapterOf[p], p, [pmt EXCEPT ![p].run = FALSE])
    /\ UNCHANGED <<link, ca, srv, inq, demux>>

\* process_pmt: a new version is sent again as an update; its CAPMT may be the same
NewVersion(p, c) ==
    /\ Free(AdapterOf[p]) /\ pmt[p].run
    /\ pmt' = [pmt EXCEPT ![p].content = c, ![p].sent = FALSE]
    /\ UNCHANGED <<link, ca, keys, th, srv, inq, demux, struck>>

\* the checks on a snapshot and the epoch, then dvbapi_add_pmt, which refuses without a socket; it holds the
\* PMT's lock from its check of the socket to AddKey
SendCheck(p) ==
    LET a == AdapterOf[p] IN
    /\ Free(a) /\ pmt[p].run /\ ~pmt[p].sent /\ ca.on /\ a \in ca.ads /\ link.sock
    /\ th' = [th EXCEPT ![a] = [at |-> "key", pmt |-> p, update |-> pmt[p].reg, stale |-> FALSE]]
    /\ UNCHANGED <<link, ca, keys, pmt, srv, inq, demux, struck>>

\* the CAPMT is written and its hash kept, also when the write failed: sock is still positive then
Capmt(p) == <<p, pmt[p].content>>
WriteCapmt(ks, k, p) ==
    \/ ~link.sock /\ keys' = ks /\ UNCHANGED <<link, srv, inq>>
    \/ /\ link.sock
       /\ keys' = [ks EXCEPT ![k].hash = Capmt(p)]
       /\ \/ ~link.force /\ srv' = [srv EXCEPT !.pmts[k] = Capmt(p)] /\ UNCHANGED <<link, inq>>
          \/ WriteFails

\* a faulty variant: the hash leaves out what the PMT contains
SendPmtSameSid(ks, k, p, force) ==
    \/ ~force /\ ks[k].hash[1] = p /\ keys' = ks /\ UNCHANGED <<link, srv, inq>>
    \/ (force \/ ks[k].hash[1] # p) /\ WriteCapmt(ks, k, p)
\* dvbapi_send_pmt: the bytes are the same as at the last send when the program and its content are
SendPmt(ks, k, p, force) ==
    \/ ~force /\ ks[k].hash = Capmt(p) /\ keys' = ks /\ UNCHANGED <<link, srv, inq>>
    \/ (force \/ ks[k].hash # Capmt(p)) /\ WriteCapmt(ks, k, p)

\* dvbapi_add_pmt's key: the live one that opaque names, or keys_add
LiveKey(p) ==
    LET k == pmt[p].opaque IN Enabled(k) /\ keys[k].pmt = p /\ keys[k].adapter = AdapterOf[p]
FreeKeys == {k \in 1 .. limit : ~keys[k].enabled /\ ~keys[k].allocated}
keys_add(k, p) == [keys EXCEPT ![k] = [NewKey EXCEPT !.enabled = TRUE, !.allocated = TRUE, !.pmt = p,
                                                     !.adapter = AdapterOf[p], !.stop = "recent"]]
AddKey(a) ==
    LET p == th[a].pmt IN
    /\ th[a].at = "key"
    /\ \/ /\ LiveKey(p)
          /\ SendPmt([keys EXCEPT ![pmt[p].opaque].stop = "recent"], pmt[p].opaque, p, ~th[a].update)
          /\ th' = [th EXCEPT ![a].at = "mask"]
          /\ UNCHANGED <<pmt, struck>>
       \/ /\ ~LiveKey(p) /\ FreeKeys # {}
          /\ LET k == Min(FreeKeys) IN
             /\ SendPmt(keys_add(k, p), k, p, TRUE)
             /\ pmt' = [pmt EXCEPT ![p].opaque = k]
          /\ th' = [th EXCEPT ![a].at = "mask"]
          /\ struck' = struck \ {p}
       \/ /\ ~LiveKey(p) /\ FreeKeys = {}
          /\ th' = [th EXCEPT ![a] = Idle]
          /\ UNCHANGED <<link, srv, inq, keys, pmt, struck>>
    /\ UNCHANGED <<ca, demux>>

\* the masks are set unless some teardown came in between
SetMask(a) ==
    LET p == th[a].pmt
        set == ~pmt[p].sent /\ ~th[a].stale IN
    /\ th[a].at = "mask"
    /\ pmt' = [pmt EXCEPT ![p].sent = @ \/ set, ![p].reg = @ \/ set]
    /\ struck' = IF set /\ LiveKey(p) THEN struck \ {p}
                 ELSE IF ~set /\ ~pmt[p].reg THEN struck \cup {p} ELSE struck
    /\ th' = [th EXCEPT ![a] = Idle]
    /\ UNCHANGED <<link, ca, keys, srv, inq, demux>>

\* dvbapi_descramble_watchdog: a program that decrypted once, so that its ECMs were asked for; for long enough it
\* has not may be so at any time
Watchdog(p) ==
    LET k == pmt[p].opaque IN
    /\ Free(AdapterOf[p]) /\ link.enabled /\ ca.on /\ AdapterOf[p] \in ca.ads
    /\ pmt[p].run /\ Enabled(k) /\ keys[k].filters # {} /\ keys[k].pmt = p
    /\ ClosePmt(AdapterOf[p], p, pmt)
    /\ UNCHANGED <<link, ca, srv, inq, demux>>

-----------------------------------------------------------------------------
(* The socket's thread *)

\* connect_dvbapi finds no connection; the new one's first event sends the client's name, which the server answers
Connect ==
    /\ th[Socket] = Idle /\ ~link.sock
    /\ \/ /\ link' = [sock |-> TRUE, enabled |-> TRUE, force |-> FALSE]
          /\ inq' = <<[op |-> "info", key |-> NoKey, pid |-> 0]>>
       \/ link' = [sock |-> TRUE, enabled |-> FALSE, force |-> TRUE] /\ UNCHANGED inq
    /\ UNCHANGED <<ca, keys, pmt, th, srv, demux, struck>>

\* the server closes, or a close was asked for: dvbapi_close
LinkLost ==
    /\ th[Socket] = Idle /\ link.sock
    /\ link' = NoLink /\ inq' = <<>>
    /\ srv' = NoServer
    /\ th' = [th EXCEPT ![Socket] = [at |-> "scan", key |-> 1]]
    /\ UNCHANGED <<ca, keys, pmt, demux, struck>>

\* a faulty variant: a key whose adapter is busy is skipped
CloseKeyTried ==
    LET k == th[Socket].key IN
    /\ th[Socket].at = "scan" /\ k \in Keys
    /\ \/ /\ Enabled(k) /\ Free(keys[k].adapter)
          /\ DelMark(Socket, k, keys[k].pmt, "scan")
       \/ /\ Enabled(k) => ~Free(keys[k].adapter)
          /\ th' = [th EXCEPT ![Socket].key = k + 1]
          /\ UNCHANGED keys
    /\ UNCHANGED <<link, ca, pmt, srv, inq, demux, struck>>

\* one key of dvbapi_close: with its adapter's mutex, and not with the key's
CloseKey ==
    LET k == th[Socket].key IN
    /\ th[Socket].at = "scan" /\ k \in Keys
    /\ \/ /\ Enabled(k) /\ Free(keys[k].adapter)
          /\ DelMark(Socket, k, keys[k].pmt, "scan")
       \/ /\ ~Enabled(k)
          /\ th' = [th EXCEPT ![Socket].key = k + 1]
          /\ UNCHANGED keys
    /\ UNCHANGED <<link, ca, pmt, srv, inq, demux, struck>>

\* unregister_dvbapi: the entry is disabled, every adapter's mask cleared, and under its lock every program's
PmtLocked(a) == th[a].at = "key" \/ (th[a].at = "del" /\ th[a].next = "close")
NoMasks == [p \in Pmts |-> [pmt[p] EXCEPT !.sent = FALSE, !.reg = FALSE]]
Unregister ==
    /\ th[Socket].at = "scan" /\ th[Socket].key \notin Keys /\ \A a \in Adapters : ~PmtLocked(a)
    /\ ca' = [on |-> FALSE, ads |-> {}]
    /\ pmt' = NoMasks
    /\ th' = Torn([th EXCEPT ![Socket] = Idle])
    /\ UNCHANGED <<link, keys, srv, inq, demux, struck>>

\* connect_dvbapi, once a second: a key without filters for more than 3 s is closed and its program with it
IdleKey(k) ==
    /\ th[Socket] = Idle /\ link.sock /\ link.enabled
    /\ Enabled(k) /\ keys[k].ecms = 0 /\ keys[k].stop = "old" /\ Free(keys[k].adapter)
    /\ DelMark(Socket, k, keys[k].pmt, "idle")
    /\ UNCHANGED <<link, ca, pmt, srv, inq, demux, struck>>
\* a faulty variant: the program is not sent again after its key was closed
IdleForgotten ==
    /\ th[Socket].at = "close"
    /\ th' = [th EXCEPT ![Socket] = Idle]
    /\ UNCHANGED <<link, ca, keys, pmt, srv, inq, demux, struck>>
IdleClose ==
    /\ th[Socket].at = "close" /\ ClosePmt(Socket, th[Socket].pmt, pmt)
    /\ UNCHANGED <<link, ca, srv, inq, demux>>

\* 3 s since the last CAPMT or DMX_STOP
Age(k) ==
    /\ Enabled(k) /\ keys[k].ecms = 0 /\ keys[k].stop = "recent"
    /\ keys' = [keys EXCEPT ![k].stop = "old"]
    /\ UNCHANGED <<link, ca, pmt, th, srv, inq, demux, struck>>

-----------------------------------------------------------------------------
(* dvbapi_reply: one message of the server *)

Reads(op) == th[Socket] = Idle /\ inq # <<>> /\ Head(inq).op = op /\ inq' = Tail(inq)

\* SERVER_INFO: register_dvbapi, add_ca
ServerInfo ==
    /\ Reads("info")
    /\ link' = [link EXCEPT !.enabled = TRUE]
    /\ ca' = [on |-> TRUE, ads |-> Adapters]
    /\ IF ca.on THEN pmt' = NoMasks /\ th' = Torn(th) ELSE UNCHANGED <<pmt, th>>
    /\ UNCHANGED <<keys, srv, demux, struck>>

\* how long ago the last DMX_STOP was matters again after the next one only
SetFilter ==
    LET k == Head(inq).key
        pid == Head(inq).pid IN
    /\ Reads("set")
    /\ \/ ~Enabled(k) /\ UNCHANGED <<keys, demux>>
       \/ /\ Enabled(k) /\ Free(keys[k].adapter)
          /\ IF pid \in keys[k].filters THEN UNCHANGED <<keys, demux>>
             ELSE /\ demux' = demux \cup {<<keys[k].adapter, pid, k>>}
                  /\ keys' = IF Cardinality(keys[k].filters) < MaxFilters
                             THEN [keys EXCEPT ![k].filters = @ \cup {pid}, ![k].ecms = @ + 1, ![k].stop = "recent"]
                             ELSE keys
    /\ UNCHANGED <<link, ca, pmt, th, srv, struck>>

DmxStop ==
    LET k == Head(inq).key
        pid == Head(inq).pid IN
    /\ Reads("stop")
    /\ \/ ~Enabled(k) /\ UNCHANGED <<keys, demux>>
       \/ /\ Enabled(k) /\ Free(keys[k].adapter)
          /\ demux' = IF pid \in keys[k].filters THEN demux \ {<<keys[k].adapter, pid, k>>} ELSE demux
          /\ keys' = [keys EXCEPT ![k].filters = @ \ {pid}, ![k].ecms = IF @ > 0 THEN @ - 1 ELSE 0,
                                  ![k].stop = "recent"]
    /\ UNCHANGED <<link, ca, pmt, th, srv, struck>>

Reply == ServerInfo \/ SetFilter \/ DmxStop

Steps ==
    \/ \E k \in Keys : ServerSetFilter(k) \/ ServerStop(k) \/ IdleKey(k) \/ Age(k)
    \/ \E t \in Threads : DelFree(t)
    \/ \E p \in Pmts : StartPmt(p) \/ StopPmt(p) \/ SendCheck(p) \/ Watchdog(p)
    \/ \E p \in Pmts : \E c \in Contents[p] : NewVersion(p, c)
    \/ \E a \in Adapters : AddKey(a) \/ SetMask(a)
    \/ Connect \/ LinkLost \/ CloseKey \/ Unregister \/ IdleClose \/ Reply

Next == Steps /\ UNCHANGED limit
Spec == Init /\ [][Next]_vars

-----------------------------------------------------------------------------
(* Properties *)

\* Types; a count of filters stays within the filters a key has room for, also when a DMX_STOP of an earlier
\* program of the slot arrives.
TypeOK ==
    /\ link \in [sock : BOOLEAN, enabled : BOOLEAN, force : BOOLEAN]
    /\ ca \in [on : BOOLEAN, ads : SUBSET Adapters]
    /\ keys \in [Keys -> [enabled : BOOLEAN, allocated : BOOLEAN, pmt : Pmts \cup {NoPmt},
                          adapter : Adapters \cup {NoAdapter}, filters : SUBSET Range(EcmPid), ecms : 0 .. MaxFilters,
                          stop : {"none", "recent", "old"}, hash : (Pmts \cup {NoPmt}) \X Nat]]
    /\ limit \in Limits
    /\ pmt \in [Pmts -> [run : BOOLEAN, content : Nat, sent : BOOLEAN, reg : BOOLEAN, opaque : Keys \cup {NoKey}]]
    /\ \A p \in Pmts : pmt[p].content \in Contents[p]
    /\ DOMAIN th = Threads /\ struck \subseteq Pmts
    /\ demux \subseteq Adapters \X Range(EcmPid) \X Keys

BeingClosed(p) == \E t \in Threads : th[t].at \in {"del", "close"} /\ th[t].pmt = p

\* A program has one key, however often it is sent again: dvbapi_add_pmt finds the live one through opaque
\* ("instead of leaking a key per version bump").
OneKey == \A k, l \in Keys : Enabled(k) /\ Enabled(l) /\ keys[k].pmt = keys[l].pmt => k = l

\* While the connection lasts, a program that the CA table counts as registered has a live key of its own.  The
\* one exception is `struck`: connect_dvbapi deletes an idle key, a program of another adapter obtains the
\* slot, and the dvbapi_del_pmt that follows deletes the key again.
HasKey ==
    link.sock => \A p \in Pmts : pmt[p].reg /\ ~BeingClosed(p) => LiveKey(p) \/ p \in struck

\* the messages that wait to be read leave the key without a filter, so that connect_dvbapi will close it
Pending(k, op) == {inq[i].pid : i \in {j \in 1 .. Len(inq) : inq[j].key = k /\ inq[j].op = op}}
GoesIdle(k) == (keys[k].filters \cup Pending(k, "set")) \subseteq Pending(k, "stop")

\* What the server knows under a program's demux index is that program, in the version the client has, or the
\* key loses its filters and the program is announced again: also when keys_del counted no other key and its
\* stop of all programs is written after another adapter's CAPMT.
ServerKnows ==
    link.sock /\ ~link.force =>
        \A p \in Pmts : pmt[p].sent /\ LiveKey(p) /\ ~BeingClosed(p) =>
            \/ srv.pmts[pmt[p].opaque] = <<p, pmt[p].content>>
            \/ GoesIdle(pmt[p].opaque)

\* A key lives for a registered program that knows it, or will be found idle and closed.  The one exception is
\* `struck`: the masks were not set because of a teardown during the send, and the program stops before the
\* next pass sends it again.
NoOrphan ==
    link.sock => \A k \in Keys : Enabled(k) =>
        LET p == keys[k].pmt IN
        \/ pmt[p].reg /\ pmt[p].opaque = k
        \/ BeingClosed(p)
        \/ th[AdapterOf[p]].at = "mask" /\ th[AdapterOf[p]].pmt = p
        \/ GoesIdle(k)
        \/ p \in struck

\* A key in teardown is not obtained again before it is freed, and one thread only tears it down
\* ("Free last: teardown above must not overlap a reuse").
TeardownAlone ==
    \A t \in Threads : th[t].at = "del" =>
        /\ ~Enabled(th[t].key)
        /\ \A u \in Threads \ {t} : th[u].at = "del" => th[u].key # th[t].key
=============================================================================
