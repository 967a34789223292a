------------------------- MODULE CamSession_proofs -------------------------
(***************************************************************************)
(* Proofs about CamSession, for any set of resources, size of the session  *)
(* table, of the message list and of the bounds on faults: the parts of    *)
(* the device agree (OneLink), a CAM that owes something is watched        *)
(* (Watched), the command awaited is one that can be answered              *)
(* (PendingAlive), and a CAM that takes programs has a session for them    *)
(* that is found (ReadyHasCa).                                             *)
(***************************************************************************)
EXTENDS CamSession, FiniteSetTheorems, WellFoundedInduction, SequenceTheorems, TLAPS

\* Min of a finite set of numbers is in it: the element with the fewest below it.
LEMMA MinIsLeast ==
    ASSUME NEW S, S \in SUBSET Int, IsFiniteSet(S), S # {}
    PROVE  Min(S) \in S /\ \A y \in S : Min(S) <= y
<1> DEFINE below == [x \in S |-> {y \in S : y < x}]
           family == {below[x] : x \in S}
<1>1. family \subseteq FiniteSubsetsOf(S) /\ family # {}
  <2>1. \A x \in S : below[x] \in FiniteSubsetsOf(S)
    BY FS_Subset DEF FiniteSubsetsOf
  <2>2. QED
    BY <2>1
<1>2. \E a \in family : \A b \in family : ~ (<<b, a>> \in StrictSubsetOrdering(S))
  <2> HIDE DEF family
  <2> QED BY <1>1, FS_StrictSubsetOrderingWellFounded, WFMin
<1>3. PICK s \in S : \A y \in S : ~ (<<below[y], below[s]>> \in StrictSubsetOrdering(S))
  BY <1>2
<1>4. \A y \in S : s <= y
  <2>1. SUFFICES ASSUME NEW y \in S, y < s PROVE FALSE
    OBVIOUS
  <2>2. y \in below[s] /\ y \notin below[y] /\ \A z \in S : z < y => z < s
    BY <2>1
  <2>3. below[y] \subseteq below[s] /\ below[s] \subseteq S
    BY <2>2
  <2>4. QED
    BY <1>3, <2>2, <2>3 DEF StrictSubsetOrdering
<1>5. QED
  BY <1>4 DEF Min

DevType == [known : BOOLEAN, fd : BOOLEAN, sock : BOOLEAN, state : {"inactive", "active", "initialized"},
            enabled : BOOLEAN, sessions : [Numbers -> Supported \union {NoSession}],
            pending : [cmd : Commands \union {NoCmd}, session : 0 .. MaxSessions], armed : BOOLEAN,
            fails : 0 .. MaxPollFails - 1]
CamType == [there : BOOLEAN, mute : BOOLEAN, tc : {"down", "asked", "up"}, sess : SUBSET Numbers,
            settled : SUBSET Wanted, owed : SUBSET (Numbers \X Commands)]
AdType == [on : BOOLEAN, mask : BOOLEAN, result : {"none", "ok", "retry", "noretry"}]
InitType == [pc : {"free", "opened", "ready", "published"}, by : {"poller", "adapter"}]
MmiType == [list : Seq(Nat), last : Nat]

Types == /\ dev \in DevType /\ link \in {"none", "open", "asked", "torn"} /\ init \in InitType
         /\ ad \in AdType /\ mmi \in MmiType /\ Len(mmi.list) <= MaxMmi /\ cam \in CamType
         /\ faults \in 0 .. MaxFaults /\ ops \in 0 .. MaxOps

\* the commands resource r sends
Sends(r, cmd) == cmd # NoCmd /\ (cmd = Created(r) \/ (r = "OPRF" /\ cmd \in {"operator_info_req", "operator_search"}))

\* A device: the first entry is for the resource manager, the command awaited is one its
\* session sends, and CA_STATE_INITIALIZED needs a session for programs after the first.
DevOK(d) ==
    /\ d \in DevType /\ d.sessions[1] \in {"RM", NoSession}
    /\ d.pending # NoPending => /\ d.pending.session \in Registered(d)
                                /\ Sends(d.sessions[d.pending.session], d.pending.cmd)
    /\ d.state = "initialized" => \E n \in Numbers \ {1} : d.sessions[n] = "CA"

WatchOK(d) == d.pending # NoPending \/ d.state # "initialized" => d.armed
Keeps(d, e) == (e.sock <=> d.sock) /\ (e.fd <=> d.fd)

\* The socket belongs to dvbca_init_dev until that is done.
Begun == init.pc = "published" => link \in {"open", "asked"}

\* A CAM whose handle is closed has forgotten what was said.
Unspoken == link = "none" => cam.sess = {} /\ cam.settled = {} /\ cam.owed = {}

\* What the CAM has, the device has: its sessions, those of the commands it will answer, and
\* once the resource manager is settled, the first entry.
CamKnown == dev.sock =>
    /\ cam.sess \subseteq Registered(dev)
    /\ \A o \in cam.owed : o[1] \in Registered(dev) /\ Sends(dev.sessions[o[1]], o[2])
    /\ "RM" \in cam.settled => dev.sessions[1] = "RM"

CamInv == Types /\ DevOK(dev) /\ OneLink /\ Begun /\ Unspoken /\ CamKnown /\ Watched

-----------------------------------------------------------------------------
(* What the functions of ca.cpp do to a device *)

LEMMA Table == 1 \in Numbers /\ 0 \notin Numbers /\ Numbers \subseteq 0 .. MaxSessions /\ Numbers \subseteq Int
               /\ IsFiniteSet(Numbers) /\ NoSession \notin Supported
  BY CamSessionAssumption, FS_Interval DEF Numbers, NoSession, Supported

LEMMA NoPendingType == NoPending \in [cmd : Commands \union {NoCmd}, session : 0 .. MaxSessions]
<1>1. 0 \in 0 .. MaxSessions
  BY CamSessionAssumption
<1>2. QED
  BY <1>1 DEF NoPending

\* new_session: the first entry is given away first.
LEMMA NewSessionFree ==
    ASSUME NEW d \in DevType, NEW r, NewSession(d, r) # 0
    PROVE  /\ NewSession(d, r) \in Numbers \ Registered(d) /\ r \in Supported
           /\ d.sessions[1] = NoSession => NewSession(d, r) = 1
<1> DEFINE free == Numbers \ Registered(d)
<1>1. r \in Supported /\ free # {} /\ NewSession(d, r) = Min(free)
  BY DEF NewSession, Registered
<1>2. Min(free) \in free /\ \A y \in free : Min(free) <= y
  <2>1. free \in SUBSET Int /\ IsFiniteSet(free)
    BY Table, FS_Subset
  <2> HIDE DEF free
  <2>2. QED
    BY <1>1, <2>1, MinIsLeast
<1>3. d.sessions[1] = NoSession => 1 \in free
  BY Table DEF Registered
<1>4. \A y \in free : y >= 1 /\ y \in Int
  BY DEF Numbers
<1> HIDE DEF free
<1>5. QED
  BY <1>1, <1>2, <1>3, <1>4 DEF free

LEMMA HeardOK ==
    ASSUME NEW d, DevOK(d)
    PROVE  /\ DevOK(Heard(d)) /\ Keeps(d, Heard(d)) /\ Heard(d).sessions = d.sessions
           /\ WatchOK(d) => WatchOK(Heard(d))
           /\ Heard(d).state # "inactive"
<1> DEFINE st == IF d.state = "inactive" THEN "active" ELSE d.state
           e == [d EXCEPT !.state = st, !.fails = 0]
<1>1. Heard(d) = e /\ d \in DevType
  BY DEF Heard, DevOK
<1>2. st \in {"active", "initialized"} /\ (st = "initialized" <=> d.state = "initialized") /\ 0 \in 0 .. MaxPollFails - 1
  BY <1>1, CamSessionAssumption DEF DevType
<1>3. /\ e \in DevType /\ e.sessions = d.sessions /\ e.pending = d.pending /\ e.state = st
      /\ (e.armed <=> d.armed) /\ Keeps(d, e)
  <2> HIDE DEF st
  <2> QED BY <1>1, <1>2 DEF DevType, Keeps
<1> HIDE DEF e, st
<1>4. DevOK(e)
  BY <1>2, <1>3 DEF DevOK, Registered
<1>5. WatchOK(d) => WatchOK(e)
  BY <1>2, <1>3 DEF WatchOK
<1>6. QED
  BY <1>1, <1>2, <1>3, <1>4, <1>5

\* a command goes out on a session that sends it
LEMMA SendOK ==
    ASSUME NEW d, DevOK(d), NEW n \in Registered(d), NEW cmd \in Commands \union {NoCmd},
           cmd = NoCmd \/ Sends(d.sessions[n], cmd), NEW w
    PROVE  /\ DevOK(Send(d, n, cmd, w)) /\ Keeps(d, Send(d, n, cmd, w)) /\ Send(d, n, cmd, w).sessions = d.sessions
           /\ WatchOK(d) => WatchOK(Send(d, n, cmd, w))
<1> DEFINE p == [cmd |-> cmd, session |-> n]
           e == [d EXCEPT !.pending = p, !.armed = TRUE]
<1>1. d \in DevType /\ n \in Numbers
  BY DEF DevOK, Registered
<1>2. Send(d, n, cmd, w) = d \/ (Sends(d.sessions[n], cmd) /\ Send(d, n, cmd, w) = e)
  BY DEF Send, Track
<1>3. p \in [cmd : Commands \union {NoCmd}, session : 0 .. MaxSessions] /\ p.session = n /\ p.cmd = cmd
  BY <1>1, Table
<1>4. /\ e \in DevType /\ e.sessions = d.sessions /\ e.pending = p /\ e.armed /\ e.state = d.state /\ Keeps(d, e)
  <2> HIDE DEF p
  <2> QED BY <1>1, <1>3 DEF DevType, Keeps
<1> HIDE DEF e, p
<1>5. Sends(d.sessions[n], cmd) => DevOK(e)
  BY <1>1, <1>3, <1>4 DEF DevOK, Registered
<1>6. WatchOK(e)
  BY <1>4 DEF WatchOK
<1>7. QED
  BY <1>2, <1>4, <1>5, <1>6 DEF Keeps

LEMMA MatchReplyOK ==
    ASSUME NEW d, DevOK(d), NEW n, NEW tag
    PROVE  /\ DevOK(MatchReply(d, n, tag)) /\ Keeps(d, MatchReply(d, n, tag))
           /\ MatchReply(d, n, tag).sessions = d.sessions
           /\ WatchOK(d) => WatchOK(MatchReply(d, n, tag))
<1> DEFINE e == [d EXCEPT !.pending = NoPending]
<1>1. d \in DevType /\ MatchReply(d, n, tag) \in {d, e}
  BY DEF DevOK, MatchReply
<1>2. /\ e \in DevType /\ e.sessions = d.sessions /\ e.pending = NoPending /\ (e.armed <=> d.armed)
      /\ e.state = d.state /\ Keeps(d, e)
  BY <1>1, NoPendingType DEF DevType, Keeps
<1> HIDE DEF e
<1>3. DevOK(e) /\ (WatchOK(d) => WatchOK(e))
  BY <1>2 DEF DevOK, WatchOK
<1>4. QED
  BY <1>1, <1>2, <1>3 DEF Keeps

\* a CA_INFO from the session for programs
LEMMA InitializedOK ==
    ASSUME NEW d, DevOK(d), NEW n \in Registered(d), d.sessions[n] = "CA"
    PROVE  LET e == [d EXCEPT !.state = "initialized"]
           IN  DevOK(e) /\ Keeps(d, e) /\ e.sessions = d.sessions /\ (WatchOK(d) => WatchOK(e))
<1> DEFINE e == [d EXCEPT !.state = "initialized"]
<1>1. d \in DevType /\ n \in Numbers \ {1}
  BY DEF DevOK, Registered, NoSession
<1>2. /\ e \in DevType /\ e.sessions = d.sessions /\ e.pending = d.pending /\ (e.armed <=> d.armed)
      /\ e.state = "initialized" /\ Keeps(d, e)
  BY <1>1 DEF DevType, Keeps
<1> HIDE DEF e
<1>3. DevOK(e) /\ (WatchOK(d) => WatchOK(e))
  BY <1>1, <1>2 DEF DevOK, WatchOK, Registered
<1>4. QED
  BY <1>2, <1>3 DEF e

\* a new session
LEMMA SessionOK ==
    ASSUME NEW d, DevOK(d), NEW r, NEW n, n = NewSession(d, r), n # 0,
           r = "RM" \/ d.sessions[1] = "RM"
    PROVE  LET e == [d EXCEPT !.sessions[n] = r]
           IN  /\ DevOK(e) /\ Keeps(d, e) /\ (WatchOK(d) => WatchOK(e))
               /\ Registered(e) = Registered(d) \cup {n} /\ n \in Numbers \ Registered(d)
               /\ e.sessions[n] = r /\ \A k \in Registered(d) : e.sessions[k] = d.sessions[k]
<1> DEFINE ss == [d.sessions EXCEPT ![n] = r]
           e == [d EXCEPT !.sessions = ss]
<1>1. d \in DevType /\ n \in Numbers /\ d.sessions[n] = NoSession /\ r \in Supported /\ r # NoSession
  BY NewSessionFree, Table DEF DevOK, Registered
<1>2. n = 1 => r = "RM"
  BY <1>1 DEF NoSession
<1>3. /\ ss \in [Numbers -> Supported \union {NoSession}] /\ ss[n] = r
      /\ \A k \in Numbers \ {n} : ss[k] = d.sessions[k]
  BY <1>1 DEF DevType
<1>4. /\ e \in DevType /\ e.sessions = ss /\ e.pending = d.pending /\ (e.armed <=> d.armed)
      /\ e.state = d.state /\ Keeps(d, e)
  <2> HIDE DEF ss
  <2> QED BY <1>1, <1>3 DEF DevType, Keeps
<1> HIDE DEF e, ss
<1>5. Registered(e) = Registered(d) \cup {n} /\ \A k \in Registered(d) : k # n /\ ss[k] = d.sessions[k]
  BY <1>1, <1>3, <1>4 DEF Registered
<1>6. DevOK(e)
  <2>1. e.sessions[1] \in {"RM", NoSession}
    BY <1>2, <1>3, <1>4, Table DEF DevOK
  <2>2. e.pending # NoPending => /\ e.pending.session \in Registered(e)
                                 /\ Sends(e.sessions[e.pending.session], e.pending.cmd)
    BY <1>4, <1>5 DEF DevOK
  <2>3. e.state = "initialized" => \E k \in Numbers \ {1} : e.sessions[k] = "CA"
    BY <1>1, <1>3, <1>4 DEF DevOK, NoSession
  <2>4. QED
    BY <1>4, <2>1, <2>2, <2>3 DEF DevOK
<1>7. WatchOK(d) => WatchOK(e)
  BY <1>4 DEF WatchOK
<1>8. QED
  BY <1>1, <1>3, <1>4, <1>5, <1>6, <1>7 DEF e, ss, Registered

\* the CAM closes a session
LEMMA ClosedOK ==
    ASSUME NEW d, DevOK(d), NEW n \in Numbers
    PROVE  /\ DevOK(Closed(d, n)) /\ Keeps(d, Closed(d, n)) /\ (WatchOK(d) => WatchOK(Closed(d, n)))
           /\ \A k \in Numbers : Closed(d, n).sessions[k] = IF k = n THEN NoSession ELSE d.sessions[k]
<1> DEFINE p == IF d.pending.session = n THEN NoPending ELSE d.pending
           ss == [d.sessions EXCEPT ![n] = NoSession]
           armed == (p = NoPending) \/ d.armed
           st == IF d.sessions[n] = "CA" THEN "active" ELSE d.state
           e == [d EXCEPT !.sessions = ss, !.pending = p, !.armed = armed, !.state = st]
<1>1. d \in DevType /\ Closed(d, n) = e
  BY DEF DevOK, Closed
<1>2. /\ p \in [cmd : Commands \union {NoCmd}, session : 0 .. MaxSessions] /\ armed \in BOOLEAN
      /\ st \in {"inactive", "active", "initialized"}
      /\ ss \in [Numbers -> Supported \union {NoSession}]
      /\ \A k \in Numbers : ss[k] = IF k = n THEN NoSession ELSE d.sessions[k]
  BY <1>1, NoPendingType DEF DevType
<1>3. /\ e \in DevType /\ e.sessions = ss /\ e.pending = p /\ (e.armed <=> armed)
      /\ e.state = st /\ Keeps(d, e)
  <2> HIDE DEF p, ss, armed, st
  <2> QED BY <1>1, <1>2 DEF DevType, Keeps
<1> HIDE DEF e, ss
<1>4. DevOK(e)
  <2>1. e.sessions[1] \in {"RM", NoSession}
    BY <1>2, <1>3, Table DEF DevOK
  <2>2. e.pending # NoPending => /\ e.pending.session \in Registered(e)
                                 /\ Sends(e.sessions[e.pending.session], e.pending.cmd)
    BY <1>2, <1>3 DEF DevOK, Registered
  <2>3. e.state = "initialized" => \E k \in Numbers \ {1} : e.sessions[k] = "CA"
    BY <1>2, <1>3 DEF DevOK
  <2>4. QED
    BY <1>3, <2>1, <2>2, <2>3 DEF DevOK
<1>5. WatchOK(d) => WatchOK(e)
  BY <1>3 DEF WatchOK
<1>6. QED
  BY <1>1, <1>2, <1>3, <1>4, <1>5

-----------------------------------------------------------------------------
(* The steps of the socket's thread *)

\* What a step of the socket's thread has to show: the link stays or is asked to close.
LEMMA DeviceStep ==
    ASSUME CamInv, link \in {"open", "asked"}, link' \in {link, "asked"}, UNCHANGED <<init, ad>>,
           DevOK(dev'), Keeps(dev, dev'), link' = "asked" \/ (WatchOK(dev) => WatchOK(dev')),
           mmi' \in MmiType, Len(mmi'.list) <= MaxMmi, cam' \in CamType,
           faults' \in 0 .. MaxFaults, ops' \in 0 .. MaxOps, CamKnown'
    PROVE  CamInv'
<1>1. dev.sock /\ dev.fd
  BY DEF CamInv, OneLink
<1>2. dev'.sock /\ dev'.fd /\ dev' \in DevType
  BY <1>1 DEF Keeps, DevOK
<1>3. Types'
  BY <1>2 DEF CamInv, Types
<1>4. OneLink'
  BY <1>2 DEF CamInv, OneLink
<1>5. Begun' /\ Unspoken'
  BY DEF Begun, Unspoken
<1>6. Watched'
  BY DEF CamInv, Watched, WatchOK
<1>7. QED
  BY <1>3, <1>4, <1>5, <1>6 DEF CamInv

LEMMA SpentType ==
    ASSUME faults \in 0 .. MaxFaults, NEW w \in WriteOutcomes, Spent(w)
    PROVE  faults' \in 0 .. MaxFaults
  BY CamSessionAssumption DEF Spent, WriteOutcomes

LEMMA CtcReplyStep == CamInv /\ CtcReply => CamInv'
<1> SUFFICES ASSUME CamInv, CtcReply PROVE CamInv'
  OBVIOUS
<1>1. /\ link \in {"open", "asked"} /\ UNCHANGED <<link, init, ad, mmi, faults, ops>>
      /\ dev' = Heard(dev) /\ cam' = [cam EXCEPT !.tc = "up"] /\ DevOK(dev)
  BY DEF CtcReply, Hears, Polled, Heard, CamInv
<1>2. /\ DevOK(dev') /\ Keeps(dev, dev') /\ dev'.sessions = dev.sessions /\ (WatchOK(dev) => WatchOK(dev'))
  BY <1>1, HeardOK
<1>3. cam' \in CamType /\ cam'.sess = cam.sess /\ cam'.owed = cam.owed /\ cam'.settled = cam.settled
  BY <1>1 DEF CamInv, Types, CamType
<1>4. CamKnown'
  BY <1>1, <1>2, <1>3 DEF CamInv, CamKnown, Registered, Keeps
<1>5. QED
  BY <1>1, <1>2, <1>3, <1>4, DeviceStep DEF CamInv, Types

LEMMA OpenSessionStep ==
    ASSUME NEW r \in Wanted, NEW w \in WriteOutcomes PROVE CamInv /\ OpenSession(r, w) => CamInv'
<1> SUFFICES ASSUME CamInv, OpenSession(r, w) PROVE CamInv'
  OBVIOUS
<1> DEFINE d == Heard(dev)
           n == NewSession(d, r)
           e == [d EXCEPT !.sessions[n] = r]
           f == Send(e, n, Created(r), w)
           oo == IF n = 0 THEN cam.owed ELSE Owe(cam.owed, n, Created(r), w)
           cc == [cam EXCEPT !.settled = cam.settled \union {r}, !.sess = cam.sess \union ({n} \ {0}), !.owed = oo]
<1>1. /\ link \in {"open", "asked"} /\ UNCHANGED <<init, ad, mmi, ops>> /\ Spent(w) /\ link' = AfterWrite(w)
      /\ r = "RM" \/ "RM" \in cam.settled
      /\ DevOK(dev) /\ dev.sock
  BY DEF OpenSession, Hears, Polled, CamInv, OneLink
<1>2. dev' = (IF n = 0 THEN d ELSE f) /\ cam' = IF w # "ok" THEN cam ELSE cc
  BY DEF OpenSession
<1>3. DevOK(d) /\ Keeps(dev, d) /\ d.sessions = dev.sessions /\ (WatchOK(dev) => WatchOK(d))
  BY <1>1, HeardOK
<1>4. r = "RM" \/ d.sessions[1] = "RM"
  BY <1>1, <1>3 DEF CamInv, CamKnown
<1>5. Created(r) \in Commands \union {NoCmd} /\ (Created(r) = NoCmd \/ Sends(r, Created(r))) /\ Replies(NoCmd) = {}
  BY DEF Created, NoCmd, Sends, Replies, Commands
<1>6. /\ DevOK(dev') /\ Keeps(dev, dev') /\ (WatchOK(dev) => WatchOK(dev'))
      /\ \A k \in Registered(dev) : k \in Registered(dev') /\ dev'.sessions[k] = dev.sessions[k]
      /\ n # 0 => n \in Registered(dev') /\ dev'.sessions[n] = r /\ n \in Numbers
  <2>1. CASE n = 0
    BY <1>2, <1>3, <2>1 DEF Registered
  <2>2. CASE n # 0
    <3>1. /\ DevOK(e) /\ Keeps(d, e) /\ (WatchOK(d) => WatchOK(e))
          /\ Registered(e) = Registered(d) \cup {n} /\ n \in Numbers \ Registered(d)
          /\ e.sessions[n] = r /\ \A k \in Registered(d) : e.sessions[k] = d.sessions[k]
      <4> HIDE DEF d
      <4> QED BY <1>3, <1>4, <2>2, SessionOK
    <3>2. Registered(d) = Registered(dev) /\ n \in Registered(e)
      BY <1>3, <3>1 DEF Registered
    <3> HIDE DEF d, e, n
    <3>3. /\ DevOK(f) /\ Keeps(e, f) /\ f.sessions = e.sessions /\ (WatchOK(e) => WatchOK(f))
      BY <1>5, <3>1, <3>2, SendOK
    <3>4. Registered(f) = Registered(e)
      BY <3>3 DEF Registered
    <3>5. dev' = f
      BY <1>2, <2>2
    <3> HIDE DEF f
    <3>6. QED
      BY <1>3, <3>1, <3>2, <3>3, <3>4, <3>5 DEF Keeps
  <2>3. QED
    BY <2>1, <2>2
<1>7. r = "RM" => dev'.sessions[1] = "RM"
  <2> SUFFICES ASSUME r = "RM" PROVE dev'.sessions[1] = "RM"
    OBVIOUS
  <2>1. CASE dev.sessions[1] = NoSession
    <3>1. n # 0
      <4> DEFINE free == Numbers \ Registered(d)
      <4>1. 1 \in free
        BY <1>3, <2>1, Table DEF Registered
      <4>2. n = Min(free)
        BY <4>1 DEF NewSession, Registered, Supported
      <4>3. free \in SUBSET Int /\ IsFiniteSet(free) /\ 0 \notin free
        BY Table, FS_Subset
      <4> HIDE DEF free, n
      <4>4. QED
        BY <4>1, <4>2, <4>3, MinIsLeast
    <3>2. n = 1
      BY <1>3, <2>1, <3>1, NewSessionFree DEF DevOK
    <3>3. QED
      BY <1>6, <3>1, <3>2
  <2>2. CASE dev.sessions[1] = "RM"
    BY <1>6, <2>2, Table DEF Registered, NoSession
  <2>3. QED
    BY <1>1, <2>1, <2>2 DEF DevOK
<1>8. dev.sessions[1] = "RM" => dev'.sessions[1] = "RM"
  BY <1>6, Table DEF Registered, NoSession
<1> HIDE DEF d, n, e, f
<1>9. /\ oo \subseteq cam.owed \union {<<n, Created(r)>>}
      /\ <<n, Created(r)>> \in oo => <<n, Created(r)>> \in cam.owed \/ (n # 0 /\ Created(r) # NoCmd)
  BY <1>5 DEF Owe
<1>10. cam \in CamType /\ oo \in SUBSET (Numbers \X Commands)
  BY <1>5, <1>6, <1>9 DEF CamInv, Types, CamType
<1> HIDE DEF oo
<1>11. /\ cam' \in CamType /\ cam'.sess \subseteq cam.sess \union ({n} \ {0})
       /\ cam'.owed \in {cam.owed, oo} /\ cam'.settled \subseteq cam.settled \union {r}
  BY <1>2, <1>6, <1>10 DEF CamType
<1> HIDE DEF cc
<1>12. CamKnown'
  <2>1. cam'.sess \subseteq Registered(dev')
    BY <1>1, <1>6, <1>11 DEF CamInv, CamKnown
  <2>2. ASSUME NEW o \in cam'.owed PROVE o[1] \in Registered(dev') /\ Sends(dev'.sessions[o[1]], o[2])
    <3>1. o \in cam.owed \/ (o = <<n, Created(r)>> /\ n # 0 /\ Created(r) # NoCmd)
      BY <1>9, <1>11, <2>2
    <3>2. CASE o \in cam.owed
      BY <1>1, <1>6, <3>2 DEF CamInv, CamKnown
    <3>3. CASE o = <<n, Created(r)>> /\ n # 0 /\ Created(r) # NoCmd
      BY <1>5, <1>6, <3>3
    <3>4. QED
      BY <3>1, <3>2, <3>3
  <2>3. "RM" \in cam'.settled => dev'.sessions[1] = "RM"
    BY <1>1, <1>7, <1>8, <1>11 DEF CamInv, CamKnown
  <2>4. QED
    BY <2>1, <2>2, <2>3 DEF CamKnown
<1>13. link' \in {link, "asked"} /\ faults' \in 0 .. MaxFaults
  BY <1>1, SpentType DEF AfterWrite, Asked, CamInv, Types
<1>14. QED
  BY <1>1, <1>6, <1>11, <1>12, <1>13, DeviceStep DEF CamInv, Types

LEMMA CloseSessionStep == ASSUME NEW n \in Numbers PROVE CamInv /\ CloseSession(n) => CamInv'
<1> SUFFICES ASSUME CamInv, CloseSession(n) PROVE CamInv'
  OBVIOUS
<1> DEFINE d == Heard(dev)
           oo == {o \in cam.owed : o[1] # n}
<1>1. /\ link \in {"open", "asked"} /\ UNCHANGED <<link, init, ad, mmi, ops>>
      /\ faults < MaxFaults /\ faults' = faults + 1 /\ n \in cam.sess
      /\ DevOK(dev) /\ dev.sock /\ dev' = Closed(d, n)
      /\ cam' = [cam EXCEPT !.owed = oo, !.sess = cam.sess \ {n}, !.settled = cam.settled \ {dev.sessions[n]}]
  BY DEF CloseSession, Hears, Polled, CamInv, OneLink
<1>2. DevOK(d) /\ Keeps(dev, d) /\ d.sessions = dev.sessions /\ (WatchOK(dev) => WatchOK(d))
  BY <1>1, HeardOK
<1> HIDE DEF d
<1>3. /\ DevOK(dev') /\ Keeps(d, dev') /\ (WatchOK(d) => WatchOK(dev'))
      /\ \A k \in Numbers : dev'.sessions[k] = IF k = n THEN NoSession ELSE dev.sessions[k]
  BY <1>1, <1>2, ClosedOK
<1>4. cam \in CamType /\ oo \in SUBSET (Numbers \X Commands)
  BY DEF CamInv, Types, CamType
<1>5. /\ cam' \in CamType /\ cam'.owed = oo /\ cam'.sess = cam.sess \ {n}
      /\ cam'.settled = cam.settled \ {dev.sessions[n]}
  <2> HIDE DEF oo
  <2> QED BY <1>1, <1>4 DEF CamType
<1>6. CamKnown'
  <2>1. cam'.sess \subseteq Registered(dev')
    BY <1>1, <1>3, <1>5 DEF CamInv, CamKnown, Registered
  <2>2. \A o \in cam'.owed : o[1] \in Registered(dev') /\ Sends(dev'.sessions[o[1]], o[2])
    BY <1>1, <1>3, <1>5 DEF CamInv, CamKnown, Registered
  <2>3. "RM" \in cam'.settled => dev'.sessions[1] = "RM"
    BY <1>1, <1>3, <1>5, Table DEF CamInv, CamKnown
  <2>4. QED
    BY <2>1, <2>2, <2>3 DEF CamKnown
<1>7. faults' \in 0 .. MaxFaults
  BY <1>1, CamSessionAssumption DEF CamInv, Types
<1>8. Keeps(dev, dev') /\ (WatchOK(dev) => WatchOK(dev'))
  BY <1>2, <1>3 DEF Keeps
<1>9. QED
  BY <1>1, <1>3, <1>5, <1>6, <1>7, <1>8, DeviceStep DEF CamInv, Types

\* What the CAM says on a session is for its resource, and so is what the handler sends.
LEMMA ReplyFits ==
    ASSUME NEW r, NEW cmd, Sends(r, cmd), NEW tag \in Replies(cmd)
    PROVE  /\ tag = "ca_info" => r = "CA"
           /\ Response(tag) \in Commands \union {NoCmd} /\ (Response(tag) = NoCmd \/ Sends(r, Response(tag)))
  BY DEF Sends, Created, Replies, Response, NoCmd, Commands

LEMMA TellFits ==
    ASSUME NEW r, NEW tag \in Tells(r)
    PROVE  /\ tag = "ca_info" => r = "CA"
           /\ Response(tag) \in Commands \union {NoCmd} /\ (Response(tag) = NoCmd \/ Sends(r, Response(tag)))
  BY DEF Sends, Tells, Response, NoCmd, Commands

\* record_mmi_message keeps the list within its bound.
LEMMA RecordType ==
    ASSUME NEW m \in MmiType, Len(m.list) <= MaxMmi
    PROVE  Record(m) \in MmiType /\ Len(Record(m).list) <= MaxMmi
<1> DEFINE l == IF Len(m.list) >= MaxMmi THEN Tail(m.list) ELSE m.list
<1>1. m.list \in Seq(Nat) /\ m.last + 1 \in Nat /\ MaxMmi \in Nat /\ MaxMmi > 0 /\ Len(m.list) \in Nat
  BY CamSessionAssumption DEF MmiType
<1>2. l \in Seq(Nat) /\ Len(l) < MaxMmi
  <2>1. CASE Len(m.list) >= MaxMmi
    <3>1. m.list # <<>>
      BY <1>1, <2>1
    <3>2. Tail(m.list) \in Seq(Nat) /\ Len(Tail(m.list)) = Len(m.list) - 1
      BY <1>1, <3>1, HeadTailProperties
    <3>3. QED
      BY <1>1, <2>1, <3>2
  <2>2. CASE ~(Len(m.list) >= MaxMmi)
    BY <1>1, <2>2
  <2>3. QED
    BY <2>1, <2>2
<1>3. Record(m) = [list |-> Append(l, m.last + 1), last |-> m.last + 1]
  BY DEF Record
<1> HIDE DEF l
<1>4. Append(l, m.last + 1) \in Seq(Nat) /\ Len(Append(l, m.last + 1)) = Len(l) + 1
  BY <1>1, <1>2, AppendProperties
<1>5. QED
  BY <1>1, <1>2, <1>3, <1>4, LenProperties DEF MmiType

\* What an APDU does, whatever the CAM says with it.
ApduKeeps ==
    /\ DevOK(dev') /\ Keeps(dev, dev') /\ dev'.sessions = dev.sessions /\ (WatchOK(dev) => WatchOK(dev'))
    /\ link' \in {link, "asked"} /\ faults' \in 0 .. MaxFaults /\ UNCHANGED <<init, ad>>
    /\ mmi' \in MmiType /\ Len(mmi'.list) <= MaxMmi

LEMMA ApduStep ==
    ASSUME CamInv, link \in {"open", "asked"}, NEW n \in Registered(dev), NEW tag, NEW w \in WriteOutcomes,
           tag = "ca_info" => dev.sessions[n] = "CA",
           Response(tag) \in Commands \union {NoCmd},
           Response(tag) = NoCmd \/ Sends(dev.sessions[n], Response(tag)),
           Apdu(n, tag, w)
    PROVE  ApduKeeps
<1> DEFINE h == Heard(dev)
           d == MatchReply(h, n, tag)
           i == [d EXCEPT !.state = "initialized"]
           e == IF tag = "ca_info" THEN i ELSE d
<1>1. /\ Spent(w) /\ dev' = Send(e, n, Response(tag), w) /\ mmi' = Displayed(mmi, tag) /\ UNCHANGED <<init, ad>>
      /\ link' \in {link, "asked"}
  BY DEF Apdu, AfterWrite, Asked
<1>2. DevOK(h) /\ Keeps(dev, h) /\ h.sessions = dev.sessions /\ (WatchOK(dev) => WatchOK(h))
  BY HeardOK DEF CamInv
<1> HIDE DEF h
<1>3. DevOK(d) /\ Keeps(h, d) /\ d.sessions = h.sessions /\ (WatchOK(h) => WatchOK(d))
  BY <1>2, MatchReplyOK
<1>4. n \in Registered(d)
  BY <1>2, <1>3 DEF Registered
<1> HIDE DEF d
<1>5. DevOK(e) /\ Keeps(d, e) /\ e.sessions = d.sessions /\ (WatchOK(d) => WatchOK(e))
  <2>1. CASE tag = "ca_info"
    <3>1. d.sessions[n] = "CA"
      BY <1>2, <1>3, <2>1
    <3>2. QED
      BY <1>3, <1>4, <2>1, <3>1, InitializedOK
  <2>2. CASE tag # "ca_info"
    BY <1>3, <2>2 DEF Keeps
  <2>3. QED
    BY <2>1, <2>2
<1> HIDE DEF e
<1>6. n \in Registered(e) /\ (Response(tag) = NoCmd \/ Sends(e.sessions[n], Response(tag)))
  BY <1>2, <1>3, <1>4, <1>5 DEF Registered
<1>7. DevOK(dev') /\ Keeps(e, dev') /\ dev'.sessions = e.sessions /\ (WatchOK(e) => WatchOK(dev'))
  BY <1>1, <1>5, <1>6, SendOK
<1>8. Keeps(dev, dev') /\ dev'.sessions = dev.sessions /\ (WatchOK(dev) => WatchOK(dev'))
  BY <1>2, <1>3, <1>5, <1>7 DEF Keeps
<1>9. faults' \in 0 .. MaxFaults
  BY <1>1, SpentType DEF CamInv, Types
<1>10. mmi' \in MmiType /\ Len(mmi'.list) <= MaxMmi
  BY <1>1, RecordType DEF Displayed, CamInv, Types
<1>11. QED
  BY <1>1, <1>7, <1>8, <1>9, <1>10 DEF ApduKeeps

\* The commands the CAM owes an answer to after an APDU.
LEMMA OweKnown ==
    ASSUME CamInv, link \in {"open", "asked"}, ApduKeeps, NEW n \in Registered(dev), NEW cmd, NEW w, NEW S, S \subseteq cam.owed,
           cmd \in Commands \union {NoCmd}, cmd = NoCmd \/ Sends(dev.sessions[n], cmd),
           cam' = [cam EXCEPT !.owed = Owe(S, n, cmd, w)]
    PROVE  cam' \in CamType /\ CamKnown'
<1> DEFINE oo == Owe(S, n, cmd, w)
<1>1. Replies(NoCmd) = {} /\ n \in Numbers /\ cam \in CamType /\ dev.sock
  BY DEF Replies, NoCmd, Registered, CamInv, Types, OneLink
<1>2. \A o \in oo : o \in S \/ (o = <<n, cmd>> /\ cmd # NoCmd)
  BY <1>1 DEF Owe
<1>3. oo \in SUBSET (Numbers \X Commands)
  BY <1>1, <1>2 DEF CamType
<1> HIDE DEF oo
<1>4. cam' \in CamType /\ cam'.owed = oo /\ cam'.sess = cam.sess /\ cam'.settled = cam.settled
  BY <1>1, <1>3 DEF CamType, oo
<1>5. dev'.sessions = dev.sessions /\ Registered(dev') = Registered(dev)
  BY DEF ApduKeeps, Registered
<1>6. \A o \in cam'.owed : o[1] \in Registered(dev') /\ Sends(dev'.sessions[o[1]], o[2])
  <2> SUFFICES ASSUME NEW o \in cam'.owed PROVE o[1] \in Registered(dev') /\ Sends(dev'.sessions[o[1]], o[2])
    OBVIOUS
  <2>1. CASE o \in cam.owed
    BY <1>1, <1>5, <2>1 DEF CamInv, CamKnown
  <2>2. CASE o = <<n, cmd>> /\ cmd # NoCmd
    BY <1>5, <2>2
  <2>3. QED
    BY <1>2, <1>4, <2>1, <2>2
<1>7. QED
  BY <1>1, <1>4, <1>5, <1>6 DEF CamInv, CamKnown

LEMMA AnswerStep == ASSUME NEW w \in WriteOutcomes PROVE CamInv /\ Answer(w) => CamInv'
<1> SUFFICES ASSUME CamInv, Answer(w) PROVE CamInv'
  OBVIOUS
<1>1. link \in {"open", "asked"} /\ dev.sock
  BY DEF Answer, Hears, Polled, CamInv, OneLink
<1>2. PICK o \in cam.owed : \E tag \in Replies(o[2]) :
        /\ Apdu(o[1], tag, w)
        /\ LET again == o[2] = "operator_search" /\ Response(tag) # NoCmd
           IN  (again => ops < MaxOps) /\ ops' = ops + IF again THEN 1 ELSE 0
        /\ cam' = [cam EXCEPT !.owed = Owe(cam.owed \ {o}, o[1], Response(tag), w)]
  BY DEF Answer
<1>3. PICK tag \in Replies(o[2]) :
        /\ Apdu(o[1], tag, w)
        /\ LET again == o[2] = "operator_search" /\ Response(tag) # NoCmd
           IN  (again => ops < MaxOps) /\ ops' = ops + IF again THEN 1 ELSE 0
        /\ cam' = [cam EXCEPT !.owed = Owe(cam.owed \ {o}, o[1], Response(tag), w)]
  BY <1>2
<1>4. o[1] \in Registered(dev) /\ Sends(dev.sessions[o[1]], o[2])
  BY <1>1 DEF CamInv, CamKnown
<1>5. /\ tag = "ca_info" => dev.sessions[o[1]] = "CA"
      /\ Response(tag) \in Commands \union {NoCmd}
      /\ Response(tag) = NoCmd \/ Sends(dev.sessions[o[1]], Response(tag))
  BY <1>3, <1>4, ReplyFits
<1>6. ApduKeeps
  BY <1>1, <1>3, <1>4, <1>5, ApduStep
<1>7. cam' \in CamType /\ CamKnown'
  BY <1>1, <1>3, <1>4, <1>5, <1>6, OweKnown
<1>8. ops' \in 0 .. MaxOps
  BY <1>3, CamSessionAssumption DEF CamInv, Types
<1>9. QED
  BY <1>1, <1>6, <1>7, <1>8, DeviceStep DEF ApduKeeps

LEMMA TellStep == ASSUME NEW w \in WriteOutcomes PROVE CamInv /\ Tell(w) => CamInv'
<1> SUFFICES ASSUME CamInv, Tell(w) PROVE CamInv'
  OBVIOUS
<1>1. link \in {"open", "asked"} /\ dev.sock /\ ops' \in 0 .. MaxOps
  BY CamSessionAssumption DEF Tell, Hears, Polled, CamInv, OneLink, Types
<1>2. PICK n \in cam.sess : \E tag \in Tells(dev.sessions[n]) :
        Apdu(n, tag, w) /\ cam' = [cam EXCEPT !.owed = Owe(cam.owed, n, Response(tag), w)]
  BY DEF Tell
<1>3. PICK tag \in Tells(dev.sessions[n]) :
        Apdu(n, tag, w) /\ cam' = [cam EXCEPT !.owed = Owe(cam.owed, n, Response(tag), w)]
  BY <1>2
<1>4. n \in Registered(dev)
  BY <1>1 DEF CamInv, CamKnown
<1>5. /\ tag = "ca_info" => dev.sessions[n] = "CA"
      /\ Response(tag) \in Commands \union {NoCmd}
      /\ Response(tag) = NoCmd \/ Sends(dev.sessions[n], Response(tag))
  BY <1>3, TellFits
<1>6. ApduKeeps
  BY <1>1, <1>3, <1>4, <1>5, ApduStep
<1>7. cam' \in CamType /\ CamKnown'
  BY <1>1, <1>3, <1>4, <1>5, <1>6, OweKnown
<1>8. QED
  BY <1>1, <1>6, <1>7, DeviceStep DEF ApduKeeps

\* A step that leaves the sessions, the command awaited and the state alone.
LEMMA SameSessions ==
    ASSUME NEW d, DevOK(d), NEW e \in DevType, e.sessions = d.sessions, e.pending \in {d.pending, NoPending},
           e.state = d.state
    PROVE  DevOK(e)
  BY DEF DevOK, Registered

LEMMA KeepaliveStep == ASSUME NEW w \in WriteOutcomes PROVE CamInv /\ Keepalive(w) => CamInv'
<1> SUFFICES ASSUME CamInv, Keepalive(w) PROVE CamInv'
  OBVIOUS
<1> DEFINE dead == w # "ok" /\ dev.fails + 1 >= MaxPollFails
           k == IF w = "ok" \/ dead THEN 0 ELSE dev.fails + 1
<1>1. /\ link = "open" /\ Spent(w) /\ UNCHANGED <<init, ad, mmi, ops>> /\ DevOK(dev) /\ dev \in DevType
      /\ dev' = [dev EXCEPT !.fails = k]
      /\ link' \in {link, "asked"}
      /\ cam' \in {cam, [cam EXCEPT !.tc = "asked"]}
  BY DEF Keepalive, CamInv, DevOK, AfterWrite, Asked
<1>2. k \in 0 .. MaxPollFails - 1
  BY <1>1, CamSessionAssumption DEF DevType
<1> HIDE DEF k
<1>3. /\ dev' \in DevType /\ dev'.sessions = dev.sessions /\ dev'.pending = dev.pending /\ dev'.state = dev.state
      /\ (dev'.armed <=> dev.armed) /\ Keeps(dev, dev')
  BY <1>1, <1>2 DEF DevType, Keeps
<1>4. DevOK(dev') /\ (WatchOK(dev) => WatchOK(dev'))
  BY <1>1, <1>3, SameSessions DEF WatchOK
<1>5. /\ cam' \in CamType /\ cam'.sess = cam.sess /\ cam'.owed = cam.owed /\ cam'.settled = cam.settled
  BY <1>1 DEF CamInv, Types, CamType
<1>6. CamKnown'
  BY <1>3, <1>5 DEF CamInv, CamKnown, Registered, Keeps
<1>7. faults' \in 0 .. MaxFaults
  BY <1>1, SpentType DEF CamInv, Types
<1>8. QED
  BY <1>1, <1>3, <1>4, <1>5, <1>6, <1>7, DeviceStep DEF CamInv, Types

LEMMA WatchdogStep == CamInv /\ Watchdog => CamInv'
<1> SUFFICES ASSUME CamInv, Watchdog PROVE CamInv'
  OBVIOUS
<1>1. /\ link = "open" /\ link' = "asked" /\ UNCHANGED <<init, ad, mmi, cam, ops>> /\ DevOK(dev) /\ dev \in DevType
      /\ dev' = [dev EXCEPT !.pending = NoPending, !.armed = FALSE]
      /\ faults' \in 0 .. MaxFaults
  BY CamSessionAssumption DEF Watchdog, CamInv, DevOK, Types
<1>2. /\ dev' \in DevType /\ dev'.sessions = dev.sessions /\ dev'.pending = NoPending /\ dev'.state = dev.state
      /\ Keeps(dev, dev')
  BY <1>1, NoPendingType DEF DevType, Keeps
<1>3. DevOK(dev')
  BY <1>1, <1>2, SameSessions
<1>4. CamKnown'
  BY <1>1, <1>2 DEF CamInv, CamKnown, Registered, Keeps
<1>5. QED
  BY <1>1, <1>2, <1>3, <1>4, DeviceStep DEF CamInv, Types

LEMMA FreshType == FreshCam \in CamType /\ FreshCam.sess = {} /\ FreshCam.owed = {} /\ FreshCam.settled = {}
  BY DEF FreshCam, CamType

LEMMA DeleteTcStep == CamInv /\ DeleteTc => CamInv'
<1> SUFFICES ASSUME CamInv, DeleteTc PROVE CamInv'
  OBVIOUS
<1>1. /\ link \in {"open", "asked"} /\ link' = "asked" /\ UNCHANGED <<dev, init, ad, mmi, ops>> /\ DevOK(dev)
      /\ cam' = FreshCam /\ faults' \in 0 .. MaxFaults
  BY CamSessionAssumption DEF DeleteTc, Hears, Polled, CamInv, Types
<1>2. CamKnown'
  BY <1>1, FreshType DEF CamKnown
<1>3. QED
  BY <1>1, <1>2, FreshType, DeviceStep DEF CamInv, Types, Keeps

-----------------------------------------------------------------------------
(* Closing, opening, and what leaves the device alone *)

\* A device without a socket: nothing of the link is left.
Bare(d) == d.sessions = NoSessions /\ d.pending = NoPending /\ d.state = "inactive" /\ ~d.armed

LEMMA BareOK ==
    ASSUME NEW d \in DevType, Bare(d)
    PROVE  DevOK(d) /\ Registered(d) = {}
<1>1. \A n \in Numbers : d.sessions[n] = NoSession
  BY DEF Bare, NoSessions
<1>2. QED
  BY <1>1, Table DEF Bare, DevOK, Registered

LEMMA BareDevice == CamInv /\ ~dev.sock => Bare(dev)
<1> SUFFICES ASSUME CamInv, ~dev.sock PROVE Bare(dev)
  OBVIOUS
<1>1. Registered(dev) = {} /\ dev.pending = NoPending /\ dev.state = "inactive" /\ ~dev.armed
  BY DEF CamInv, OneLink
<1>2. dev.sessions \in [Numbers -> Supported \union {NoSession}] /\ \A n \in Numbers : dev.sessions[n] = NoSession
  BY <1>1 DEF Registered, CamInv, Types, DevType
<1>3. dev.sessions = NoSessions
  BY <1>2 DEF NoSessions
<1>4. QED
  BY <1>1, <1>3 DEF Bare

\* ca_teardown
LEMMA TornDownBare ==
    ASSUME NEW d \in DevType
    PROVE  TornDown(d) \in DevType /\ Bare(TornDown(d)) /\ ~TornDown(d).sock /\ ~TornDown(d).fd
<1>1. /\ NoSessions \in [Numbers -> Supported \union {NoSession}] /\ 0 \in 0 .. MaxPollFails - 1
  BY CamSessionAssumption DEF NoSessions
<1>2. QED
  BY <1>1, NoPendingType DEF TornDown, DevType, Bare

LEMMA ClearedType ==
    ASSUME NEW m \in MmiType, Len(m.list) <= MaxMmi
    PROVE  Cleared(m) \in MmiType /\ Len(Cleared(m).list) <= MaxMmi
<1>1. m.last + 1 \in Nat /\ <<>> \in Seq(Nat) /\ Len(<<>>) <= MaxMmi
  BY CamSessionAssumption DEF MmiType
<1>2. QED
  BY <1>1 DEF Cleared, MmiType

LEMMA SocketCloseStep == CamInv /\ SocketClose => CamInv'
<1> SUFFICES ASSUME CamInv, SocketClose PROVE CamInv'
  OBVIOUS
<1>1. /\ link \in {"open", "asked"} /\ init.pc # "published" /\ dev.sock /\ link' = "torn"
      /\ UNCHANGED <<init, ad, cam, faults, ops>>
      /\ dev' = TornDown(dev) /\ mmi' = Cleared(mmi)
  BY DEF SocketClose, Polled, CamInv, OneLink
<1>2. init.pc = "free"
  BY <1>1 DEF CamInv, OneLink, Types, InitType
<1>3. dev' \in DevType /\ Bare(dev') /\ ~dev'.sock /\ ~dev'.fd
  BY <1>1, TornDownBare DEF CamInv, Types
<1>4. DevOK(dev') /\ Registered(dev') = {}
  BY <1>3, BareOK
<1>5. mmi' \in MmiType /\ Len(mmi'.list) <= MaxMmi
  BY <1>1, ClearedType DEF CamInv, Types
<1>6. Types'
  BY <1>1, <1>3, <1>5 DEF CamInv, Types
<1>7. OneLink'
  BY <1>1, <1>2, <1>3, <1>4 DEF OneLink, Bare
<1>8. Begun' /\ Unspoken' /\ CamKnown' /\ Watched'
  BY <1>1, <1>3 DEF Begun, Unspoken, CamKnown, Watched
<1>9. QED
  BY <1>4, <1>6, <1>7, <1>8 DEF CamInv

LEMMA HandleCloseStep == CamInv /\ HandleClose => CamInv'
<1> SUFFICES ASSUME CamInv, HandleClose PROVE CamInv'
  OBVIOUS
<1>1. /\ link = "torn" /\ link' = "none" /\ UNCHANGED <<dev, init, ad, mmi, faults, ops>>
      /\ cam' = [FreshCam EXCEPT !.there = cam.there, !.mute = cam.mute] /\ ~dev.sock
  BY DEF HandleClose, CamInv, OneLink
<1>2. /\ cam' \in CamType /\ cam'.sess = {} /\ cam'.owed = {} /\ cam'.settled = {}
  BY <1>1, FreshType DEF CamInv, Types, CamType
<1>3. Types'
  BY <1>1, <1>2 DEF CamInv, Types
<1>4. OneLink'
  BY <1>1 DEF CamInv, OneLink
<1>5. Begun' /\ Unspoken' /\ CamKnown' /\ Watched' /\ DevOK(dev')
  BY <1>1, <1>2 DEF CamInv, Begun, Unspoken, CamKnown, Watched
<1>6. QED
  BY <1>3, <1>4, <1>5 DEF CamInv

\* dvbca_init_dev up to open(): the device it finds is bare.
LEMMA InitBeginStep ==
    ASSUME CamInv, NEW by \in {"poller", "adapter"}, InitBegin(by), UNCHANGED <<link, mmi, cam, faults, ops>>
    PROVE  CamInv'
<1> DEFINE Ads == {Finished(by, "ok", ad), [Finished(by, "ok", ad) EXCEPT !.mask = TRUE], Finished(by, "noretry", ad), ad}
<1>1. \A a \in Ads : a \in AdType
  BY DEF Finished, CamInv, Types, AdType
<1>2. init.pc = "free" /\ ad' \in Ads
  BY DEF InitBegin
<1>3. ad' \in AdType
  BY <1>1, <1>2
<1>4. CASE UNCHANGED <<dev, init>>
  <2>1. Types'
    BY <1>3, <1>4 DEF CamInv, Types
  <2>2. OneLink' /\ Begun' /\ Unspoken' /\ CamKnown' /\ Watched' /\ DevOK(dev')
    BY <1>4 DEF CamInv, OneLink, Begun, Unspoken, CamKnown, Watched
  <2>3. QED
    BY <2>1, <2>2 DEF CamInv
<1>5. CASE /\ link = "none" /\ init' = [pc |-> "opened", by |-> by]
           /\ dev' = [dev EXCEPT !.known = TRUE, !.fd = TRUE, !.sock = FALSE, !.state = "inactive",
                                 !.pending = NoPending, !.armed = FALSE]
  <2>1. ~dev.sock /\ Bare(dev) /\ dev \in DevType
    BY <1>5, BareDevice DEF CamInv, OneLink, Types
  <2>2. dev' \in DevType /\ Bare(dev') /\ ~dev'.sock /\ dev'.fd
    BY <1>5, <2>1, NoPendingType DEF DevType, Bare
  <2>3. DevOK(dev') /\ Registered(dev') = {}
    BY <2>2, BareOK
  <2>4. init' \in InitType /\ init'.pc = "opened"
    BY <1>5 DEF InitType
  <2>5. Types'
    BY <1>3, <2>2, <2>4 DEF CamInv, Types
  <2>6. OneLink'
    BY <1>5, <2>2, <2>3, <2>4 DEF OneLink, Bare
  <2>7. Begun' /\ Unspoken' /\ CamKnown' /\ Watched'
    BY <1>5, <2>2, <2>4 DEF CamInv, Begun, Unspoken, CamKnown, Watched
  <2>8. QED
    BY <2>3, <2>5, <2>6, <2>7 DEF CamInv
<1>6. QED
  BY <1>4, <1>5 DEF InitBegin

LEMMA InitNotReadyStep == CamInv /\ InitNotReady => CamInv'
<1> SUFFICES ASSUME CamInv, InitNotReady PROVE CamInv'
  OBVIOUS
<1>1. /\ init.pc = "opened" /\ link = "none" /\ UNCHANGED <<link, mmi, cam, ops>> /\ faults' \in 0 .. MaxFaults
      /\ init' = [init EXCEPT !.pc = "free"]
      /\ dev' = [dev EXCEPT !.fd = FALSE, !.sock = FALSE, !.state = "inactive", !.enabled = TRUE]
      /\ ad' = Finished(init.by, "retry", ad)
  BY CamSessionAssumption DEF InitNotReady, InitFailed, CamInv, OneLink, Types
<1>2. ~dev.sock /\ Bare(dev) /\ dev \in DevType
  BY <1>1, BareDevice DEF CamInv, OneLink, Types
<1>3. dev' \in DevType /\ Bare(dev') /\ ~dev'.sock /\ ~dev'.fd
  BY <1>1, <1>2 DEF DevType, Bare
<1>4. DevOK(dev') /\ Registered(dev') = {}
  BY <1>3, BareOK
<1>5. init' \in InitType /\ init'.pc = "free" /\ ad' \in AdType
  BY <1>1 DEF CamInv, Types, InitType, AdType, Finished
<1>6. Types'
  BY <1>1, <1>3, <1>5 DEF CamInv, Types
<1>7. OneLink'
  BY <1>1, <1>3, <1>4, <1>5 DEF OneLink, Bare
<1>8. Begun' /\ Unspoken' /\ CamKnown' /\ Watched'
  BY <1>1, <1>3, <1>5 DEF CamInv, Begun, Unspoken, CamKnown, Watched
<1>9. QED
  BY <1>4, <1>6, <1>7, <1>8 DEF CamInv

LEMMA InitResetStep == CamInv /\ InitReset => CamInv'
<1> SUFFICES ASSUME CamInv, InitReset PROVE CamInv'
  OBVIOUS
<1>1. /\ init.pc = "opened" /\ link = "none" /\ ~dev.sock /\ UNCHANGED <<dev, link, ad, mmi, faults, ops>>
      /\ init' = [init EXCEPT !.pc = "ready"] /\ cam' = FreshCam
  BY DEF InitReset, CamInv, OneLink
<1>2. init' \in InitType /\ init'.pc = "ready"
  BY <1>1 DEF CamInv, Types, InitType
<1>3. Types'
  BY <1>1, <1>2, FreshType DEF CamInv, Types
<1>4. OneLink'
  BY <1>1, <1>2 DEF CamInv, OneLink
<1>5. Begun' /\ Unspoken' /\ CamKnown' /\ Watched' /\ DevOK(dev')
  BY <1>1, <1>2, FreshType DEF CamInv, Begun, Unspoken, CamKnown, Watched
<1>6. QED
  BY <1>3, <1>4, <1>5 DEF CamInv

LEMMA InitPublishStep == ASSUME NEW w \in WriteOutcomes PROVE CamInv /\ InitPublish(w) => CamInv'
<1> SUFFICES ASSUME CamInv, InitPublish(w) PROVE CamInv'
  OBVIOUS
<1>1. /\ init.pc = "ready" /\ link = "none" /\ link' = "open" /\ UNCHANGED <<ad, mmi, ops>> /\ Spent(w)
      /\ init' = [init EXCEPT !.pc = "published"] /\ dev' = [dev EXCEPT !.sock = TRUE, !.armed = TRUE]
      /\ cam' \in {cam, [cam EXCEPT !.tc = "asked"]}
      /\ dev \in DevType /\ DevOK(dev) /\ dev.fd
  BY DEF InitPublish, Published, CamInv, OneLink, Types
<1>2. /\ dev' \in DevType /\ dev'.sessions = dev.sessions /\ dev'.pending = dev.pending /\ dev'.state = dev.state
      /\ dev'.armed /\ dev'.sock /\ dev'.fd
  BY <1>1 DEF DevType
<1>3. DevOK(dev')
  BY <1>1, <1>2, SameSessions
<1>4. /\ cam' \in CamType /\ cam'.sess = {} /\ cam'.owed = {} /\ cam'.settled = {}
  BY <1>1 DEF CamInv, Types, CamType, Unspoken
<1>5. init' \in InitType /\ init'.pc = "published" /\ faults' \in 0 .. MaxFaults
  BY <1>1, SpentType DEF CamInv, Types, InitType
<1>6. Types'
  BY <1>1, <1>2, <1>4, <1>5 DEF CamInv, Types
<1>7. OneLink'
  BY <1>1, <1>2, <1>5 DEF OneLink
<1>8. Begun' /\ Unspoken' /\ CamKnown' /\ Watched'
  BY <1>1, <1>2, <1>4 DEF Begun, Unspoken, CamKnown, Watched
<1>9. QED
  BY <1>3, <1>6, <1>7, <1>8 DEF CamInv

LEMMA InitDoneStep == CamInv /\ InitDone => CamInv'
<1> SUFFICES ASSUME CamInv, InitDone PROVE CamInv'
  OBVIOUS
<1>1. /\ init.pc = "published" /\ link \in {"open", "asked"} /\ UNCHANGED <<link, mmi, cam, faults, ops>>
      /\ init' = [init EXCEPT !.pc = "free"] /\ dev' = [dev EXCEPT !.enabled = TRUE]
      /\ ad' = [Finished(init.by, "ok", ad) EXCEPT !.mask = TRUE]
      /\ dev \in DevType /\ DevOK(dev) /\ dev.sock /\ dev.fd
  BY DEF InitDone, CamInv, Begun, OneLink, Types
<1>2. /\ dev' \in DevType /\ dev'.sessions = dev.sessions /\ dev'.pending = dev.pending /\ dev'.state = dev.state
      /\ (dev'.armed <=> dev.armed) /\ dev'.sock /\ dev'.fd
  BY <1>1 DEF DevType
<1>3. DevOK(dev')
  BY <1>1, <1>2, SameSessions
<1>4. init' \in InitType /\ init'.pc = "free" /\ ad' \in AdType
  BY <1>1 DEF CamInv, Types, InitType, AdType, Finished
<1>5. Types'
  BY <1>1, <1>2, <1>4 DEF CamInv, Types
<1>6. OneLink'
  BY <1>1, <1>2, <1>4 DEF OneLink
<1>7. Begun' /\ Unspoken' /\ CamKnown' /\ Watched'
  BY <1>1, <1>2, <1>4 DEF CamInv, Begun, Unspoken, CamKnown, Watched, Registered
<1>8. QED
  BY <1>3, <1>5, <1>6, <1>7 DEF CamInv

LEMMA AdapterStep ==
    ASSUME CamInv, AdapterOpen \/ AdapterClose PROVE CamInv'
<1>1. /\ UNCHANGED <<dev, init, mmi, cam, faults, ops>>
      /\ link' \in {link, Asked(link)}
  BY DEF AdapterOpen, AdapterClose
<1>2. ad' \in AdType
  <2>1. CASE AdapterOpen
    BY <2>1 DEF AdapterOpen, AdType
  <2>2. CASE AdapterClose
    BY <2>2 DEF AdapterClose, AdType
  <2>3. QED
    BY <2>1, <2>2
<1>3. link' = link \/ (link = "open" /\ link' = "asked")
  BY <1>1 DEF Asked
<1>4. Types'
  BY <1>1, <1>3, <1>2 DEF CamInv, Types
<1>5. OneLink'
  BY <1>1, <1>3 DEF CamInv, OneLink
<1>6. Begun' /\ Unspoken' /\ CamKnown' /\ Watched' /\ DevOK(dev')
  BY <1>1, <1>3 DEF CamInv, Begun, Unspoken, CamKnown, Watched
<1>7. QED
  BY <1>4, <1>5, <1>6 DEF CamInv

LEMMA AdapterInitStep == CamInv /\ AdapterInit => CamInv'
<1> SUFFICES ASSUME CamInv, AdapterInit PROVE CamInv'
  OBVIOUS
<1>1. CASE InitBegin("adapter")
  BY <1>1, InitBeginStep DEF AdapterInit
<1>2. CASE ad' = Finished("adapter", "ok", ad) /\ UNCHANGED <<dev, init>>
  <2>1. ad' \in AdType /\ UNCHANGED <<dev, init, link, mmi, cam, faults, ops>>
    BY <1>2 DEF AdapterInit, Finished, CamInv, Types, AdType
  <2>2. Types'
    BY <2>1 DEF CamInv, Types
  <2>3. OneLink' /\ Begun' /\ Unspoken' /\ CamKnown' /\ Watched' /\ DevOK(dev')
    BY <2>1 DEF CamInv, OneLink, Begun, Unspoken, CamKnown, Watched
  <2>4. QED
    BY <2>2, <2>3 DEF CamInv
<1>3. QED
  BY <1>1, <1>2 DEF AdapterInit

\* What happens to the CAM: it loses what it had, or says nothing any more.
LEMMA CamStep ==
    ASSUME CamInv, Pulled \/ Inserted \/ FallsSilent PROVE CamInv'
<1>1. /\ UNCHANGED <<dev, link, init, ad, mmi, ops>> /\ faults' \in 0 .. MaxFaults
      /\ cam' \in {[FreshCam EXCEPT !.there = FALSE], FreshCam, [cam EXCEPT !.mute = TRUE]}
  BY CamSessionAssumption DEF Pulled, Inserted, FallsSilent, Fault, CamInv, Types
<1>2. /\ cam' \in CamType /\ cam'.sess \subseteq cam.sess /\ cam'.owed \subseteq cam.owed
      /\ cam'.settled \subseteq cam.settled
  BY <1>1, FreshType DEF CamInv, Types, CamType
<1>3. Types'
  BY <1>1, <1>2 DEF CamInv, Types
<1>4. OneLink' /\ Begun' /\ Watched' /\ DevOK(dev')
  BY <1>1 DEF CamInv, OneLink, Begun, Watched
<1>5. Unspoken' /\ CamKnown'
  BY <1>1, <1>2 DEF CamInv, Unspoken, CamKnown
<1>6. QED
  BY <1>3, <1>4, <1>5 DEF CamInv

-----------------------------------------------------------------------------
(* The theorems *)

LEMMA InitInv == Init => CamInv
<1> SUFFICES ASSUME Init PROVE CamInv
  OBVIOUS
<1>1. /\ dev = [known |-> FALSE, fd |-> FALSE, sock |-> FALSE, state |-> "inactive", enabled |-> FALSE,
                sessions |-> NoSessions, pending |-> NoPending, armed |-> FALSE, fails |-> 0]
      /\ link = "none" /\ init = [pc |-> "free", by |-> "poller"]
      /\ ad = [on |-> FALSE, mask |-> FALSE, result |-> "none"]
      /\ mmi = [list |-> <<>>, last |-> 0] /\ cam = FreshCam /\ faults = 0 /\ ops = 0
  BY DEF Init
<1>2. NoSessions \in [Numbers -> Supported \union {NoSession}] /\ 0 \in 0 .. MaxPollFails - 1
  BY CamSessionAssumption DEF NoSessions
<1>3. dev \in DevType /\ Bare(dev) /\ ~dev.sock /\ ~dev.fd
  BY <1>1, <1>2, NoPendingType DEF DevType, Bare
<1>4. DevOK(dev) /\ Registered(dev) = {}
  BY <1>3, BareOK
<1>5. mmi \in MmiType /\ Len(mmi.list) <= MaxMmi
  <2>1. <<>> \in Seq(Nat) /\ Len(<<>>) <= MaxMmi
    BY CamSessionAssumption
  <2>2. QED
    BY <1>1, <2>1 DEF MmiType
<1>6. ad \in AdType /\ init \in InitType /\ init.pc = "free" /\ faults \in 0 .. MaxFaults /\ ops \in 0 .. MaxOps
  BY <1>1, CamSessionAssumption DEF AdType, InitType
<1>7. Types
  BY <1>1, <1>3, <1>5, <1>6, FreshType DEF Types
<1>8. OneLink
  BY <1>1, <1>3, <1>4, <1>6 DEF OneLink, Bare
<1>9. Begun /\ Unspoken /\ CamKnown /\ Watched
  BY <1>1, <1>3, <1>6, FreshType DEF Begun, Unspoken, CamKnown, Watched
<1>10. QED
  BY <1>4, <1>7, <1>8, <1>9 DEF CamInv

LEMMA StepInv == CamInv /\ [Next]_vars => CamInv'
<1> SUFFICES ASSUME CamInv, [Next]_vars PROVE CamInv'
  OBVIOUS
<1>1. CASE CtcReply
  BY <1>1, CtcReplyStep
<1>2. CASE \E w \in WriteOutcomes : \/ \E r \in Wanted : OpenSession(r, w)
                                    \/ Answer(w) \/ Tell(w) \/ Keepalive(w) \/ InitPublish(w)
  <2>1. PICK w \in WriteOutcomes : \/ \E r \in Wanted : OpenSession(r, w)
                                   \/ Answer(w) \/ Tell(w) \/ Keepalive(w) \/ InitPublish(w)
    BY <1>2
  <2>2. CASE \E r \in Wanted : OpenSession(r, w)
    BY <2>2, OpenSessionStep
  <2>3. QED
    BY <2>1, <2>2, AnswerStep, TellStep, KeepaliveStep, InitPublishStep
<1>3. CASE \E n \in Numbers : CloseSession(n)
  BY <1>3, CloseSessionStep
<1>4. CASE Watchdog \/ SocketClose \/ HandleClose \/ DeleteTc
  BY <1>4, WatchdogStep, SocketCloseStep, HandleCloseStep, DeleteTcStep
<1>5. CASE InitNotReady \/ InitReset \/ InitDone
  BY <1>5, InitNotReadyStep, InitResetStep, InitDoneStep
<1>6. CASE Poll
  BY <1>6, InitBeginStep DEF Poll
<1>7. CASE AdapterOpen \/ AdapterInit \/ AdapterClose
  BY <1>7, AdapterStep, AdapterInitStep
<1>8. CASE Pulled \/ Inserted \/ FallsSilent
  BY <1>8, CamStep
<1>9. CASE UNCHANGED vars
  <2>1. UNCHANGED <<dev, link, init, ad, mmi, cam, faults, ops>>
    BY <1>9 DEF vars
  <2>2. Types'
    BY <2>1 DEF CamInv, Types
  <2>3. OneLink' /\ Begun' /\ Unspoken' /\ CamKnown' /\ Watched' /\ DevOK(dev')
    BY <2>1 DEF CamInv, OneLink, Begun, Unspoken, CamKnown, Watched
  <2>4. QED
    BY <2>2, <2>3 DEF CamInv
<1>10. QED
  BY <1>1, <1>2, <1>3, <1>4, <1>5, <1>6, <1>7, <1>8, <1>9 DEF Next

\* The inductive invariant: the types, a device that is consistent in itself, one link, what
\* the CAM and the device know of each other, and the watchdog.
THEOREM CamInvariant == Spec => []CamInv
  BY InitInv, StepInv, PTL DEF Spec

\* Every variable keeps its type: the tables never overflow, whatever the CAM opens or tells.
THEOREM CamTypeCorrect == Spec => []TypeOK
<1>1. CamInv => TypeOK
  BY DEF CamInv, Types, TypeOK, DevType, CamType, AdType, InitType
<1>2. QED
  BY <1>1, CamInvariant, PTL

\* The device has a socket exactly while that lives, and only then sessions, a command awaited
\* and a state: for any interleaving of the poller, the adapter's thread and the socket's.
THEOREM CamOneLink == Spec => []OneLink
<1>1. CamInv => OneLink
  BY DEF CamInv
<1>2. QED
  BY <1>1, CamInvariant, PTL

\* ca_cmd_watchdog watches every link whose CAM owes an answer or did not come up.
THEOREM CamWatched == Spec => []Watched
<1>1. CamInv => Watched
  BY DEF CamInv
<1>2. QED
  BY <1>1, CamInvariant, PTL

\* The command that awaits an answer is one of a session that exists and sends it.
THEOREM CamPendingAlive == Spec => []PendingAlive
<1>1. CamInv => PendingAlive
  BY DEF CamInv, DevOK, PendingAlive, Sends
<1>2. QED
  BY <1>1, CamInvariant, PTL

\* A CAM that takes programs has a session for them that find_session_for_resource finds.
THEOREM CamReadyHasCa == Spec => []ReadyHasCa
<1>1. CamInv => ReadyHasCa
  BY DEF CamInv, DevOK, ReadyHasCa, FindSession
<1>2. QED
  BY <1>1, CamInvariant, PTL

\* The messages in the list are in the order of their numbers, none newer than last_seq.
MmiInv == /\ mmi.list \in Seq(Nat) /\ mmi.last \in Nat
          /\ \A i \in DOMAIN mmi.list : mmi.list[i] <= mmi.last
          /\ \A i, j \in DOMAIN mmi.list : i < j => mmi.list[i] < mmi.list[j]

LEMMA MmiSteps == [Next]_vars => mmi' \in {mmi, Record(mmi), Cleared(mmi)}
<1> USE DEF Displayed, Fault
<1> SUFFICES ASSUME [Next]_vars PROVE mmi' \in {mmi, Record(mmi), Cleared(mmi)}
  OBVIOUS
<1>1. CASE CtcReply
  BY <1>1 DEF CtcReply
<1>2. CASE \E w \in WriteOutcomes : \/ \E r \in Wanted : OpenSession(r, w)
                                    \/ Answer(w) \/ Tell(w) \/ Keepalive(w) \/ InitPublish(w)
  <2>1. PICK w \in WriteOutcomes : \/ \E r \in Wanted : OpenSession(r, w)
                                   \/ Answer(w) \/ Tell(w) \/ Keepalive(w) \/ InitPublish(w)
    BY <1>2
  <2>2. \A n, tag : Apdu(n, tag, w) => mmi' \in {mmi, Record(mmi)}
    BY DEF Apdu
  <2>3. (\E r \in Wanted : OpenSession(r, w)) \/ Keepalive(w) \/ InitPublish(w) => mmi' = mmi
    BY DEF OpenSession, Keepalive, InitPublish
  <2>4. Answer(w) \/ Tell(w) => mmi' \in {mmi, Record(mmi)}
    <3> HIDE DEF Displayed
    <3> QED BY <2>2 DEF Answer, Tell
  <2>5. QED
    BY <2>1, <2>3, <2>4
<1>3. CASE \E n \in Numbers : CloseSession(n)
  BY <1>3 DEF CloseSession
<1>4. CASE Watchdog \/ SocketClose \/ HandleClose \/ DeleteTc
  BY <1>4 DEF Watchdog, SocketClose, HandleClose, DeleteTc
<1>5. CASE InitNotReady \/ InitReset \/ InitDone \/ Poll
  BY <1>5 DEF InitNotReady, InitReset, InitDone, Poll
<1>6. CASE AdapterOpen \/ AdapterInit \/ AdapterClose
  BY <1>6 DEF AdapterOpen, AdapterInit, AdapterClose
<1>7. CASE Pulled \/ Inserted \/ FallsSilent
  BY <1>7 DEF Pulled, Inserted, FallsSilent
<1>8. CASE UNCHANGED vars
  BY <1>8 DEF vars
<1>9. QED
  BY <1>1, <1>2, <1>3, <1>4, <1>5, <1>6, <1>7, <1>8 DEF Next

LEMMA MmiStep ==
    ASSUME MmiInv, [Next]_vars
    PROVE  MmiInv' /\ (mmi'.list # mmi.list => mmi'.last > mmi.last)
<1>1. CASE mmi' = mmi
  BY <1>1 DEF MmiInv
<1>2. CASE mmi' = Cleared(mmi)
  BY <1>2 DEF MmiInv, Cleared
<1>3. CASE mmi' = Record(mmi)
  <2> DEFINE l == IF Len(mmi.list) >= MaxMmi THEN Tail(mmi.list) ELSE mmi.list
             m == mmi.last + 1
  <2>1. mmi.list \in Seq(Nat) /\ m \in Nat /\ Len(mmi.list) \in Nat /\ DOMAIN mmi.list = 1 .. Len(mmi.list)
    BY DEF MmiInv
  <2>2. /\ l \in Seq(Nat) /\ \A i \in DOMAIN l : l[i] <= mmi.last
        /\ \A i, j \in DOMAIN l : i < j => l[i] < l[j]
    <3>1. CASE Len(mmi.list) >= MaxMmi
      <4>1. mmi.list # <<>>
        BY <2>1, <3>1, CamSessionAssumption
      <4>2. /\ l = Tail(mmi.list) /\ l \in Seq(Nat) /\ Len(l) = Len(mmi.list) - 1
            /\ \A i \in 1 .. Len(l) : l[i] = mmi.list[i + 1]
        BY <2>1, <3>1, <4>1, HeadTailProperties
      <4> HIDE DEF l
      <4>3. DOMAIN l = 1 .. Len(l) /\ \A i \in DOMAIN l : i \in Int /\ i + 1 \in DOMAIN mmi.list
        BY <2>1, <4>2
      <4>4. \A i \in DOMAIN l : l[i] <= mmi.last
        BY <4>2, <4>3 DEF MmiInv
      <4>5. ASSUME NEW i \in DOMAIN l, NEW j \in DOMAIN l, i < j PROVE l[i] < l[j]
        <5>1. i + 1 < j + 1 /\ i + 1 \in DOMAIN mmi.list /\ j + 1 \in DOMAIN mmi.list
          BY <4>3, <4>5
        <5>2. l[i] = mmi.list[i + 1] /\ l[j] = mmi.list[j + 1]
          BY <4>2, <4>3
        <5>3. mmi.list[i + 1] < mmi.list[j + 1]
          BY <5>1 DEF MmiInv
        <5>4. QED
          BY <5>2, <5>3
      <4>6. QED
        BY <4>2, <4>4, <4>5
    <3>2. CASE ~(Len(mmi.list) >= MaxMmi)
      BY <3>2 DEF MmiInv
    <3>3. QED
      BY <3>1, <3>2
  <2>3. Record(mmi) = [list |-> Append(l, m), last |-> m]
    BY DEF Record
  <2>4. mmi.last \in Nat /\ m = mmi.last + 1
    BY DEF MmiInv
  <2> HIDE DEF l, m
  <2>5. mmi'.list = Append(l, m) /\ mmi'.last = m
    BY <1>3, <2>3
  <2>6. /\ Append(l, m) \in Seq(Nat) /\ DOMAIN Append(l, m) = 1 .. Len(l) + 1
        /\ \A i \in 1 .. Len(l) : Append(l, m)[i] = l[i] /\ Append(l, m)[Len(l) + 1] = m
        /\ Append(l, m)[Len(l) + 1] = m /\ DOMAIN l = 1 .. Len(l) /\ Len(l) \in Nat
    BY <2>1, <2>2, AppendProperties, LenProperties
  <2>7. \A i \in DOMAIN l : l[i] \in Nat
    BY <2>2
  <2>8. \A i \in 1 .. Len(l) + 1 : Append(l, m)[i] <= m
    BY <2>2, <2>4, <2>6, <2>7
  <2>9. \A i, j \in 1 .. Len(l) + 1 : i < j => Append(l, m)[i] < Append(l, m)[j]
    <3> SUFFICES ASSUME NEW i \in 1 .. Len(l) + 1, NEW j \in 1 .. Len(l) + 1, i < j
                 PROVE  Append(l, m)[i] < Append(l, m)[j]
      OBVIOUS
    <3>1. i \in 1 .. Len(l) /\ Append(l, m)[i] = l[i]
      BY <2>6
    <3>2. CASE j \in 1 .. Len(l)
      BY <2>2, <2>6, <3>1, <3>2
    <3>3. CASE j = Len(l) + 1
      <4>1. l[i] <= mmi.last /\ l[i] \in Nat
        BY <2>2, <2>6, <2>7, <3>1
      <4>2. Append(l, m)[j] = m
        BY <2>6, <3>3
      <4>3. QED
        BY <2>4, <3>1, <4>1, <4>2
    <3>4. QED
      BY <2>6, <3>2, <3>3
  <2>10. QED
    BY <2>1, <2>4, <2>5, <2>6, <2>8, <2>9 DEF MmiInv
<1>4. QED
  BY <1>1, <1>2, <1>3, MmiSteps

\* last_seq grows with every change of the list, and the list stays in order, also when it is
\* full and when the CAM is lost: a client that polls get_json_mmi misses no change.
THEOREM CamMmiNumbered == Spec => MmiNumbered
<1>1. Init => MmiInv
  <2>1. <<>> \in Seq(Nat) /\ DOMAIN <<>> = {}
    OBVIOUS
  <2>2. QED
    BY <2>1 DEF Init, MmiInv
<1>2. MmiInv /\ [Next]_vars => MmiInv'
  BY MmiStep
<1>3. MmiInv /\ [Next]_vars =>
        [/\ mmi'.list # mmi.list => mmi'.last > mmi.last
         /\ \A i, j \in DOMAIN mmi'.list : i < j => mmi'.list[i] < mmi'.list[j]]_vars
  BY MmiStep DEF MmiInv
<1>4. QED
  BY <1>1, <1>2, <1>3, PTL DEF Spec, MmiNumbered
=============================================================================
