--------------------------- MODULE Dvbapi_proofs ---------------------------
(***************************************************************************)
(* Proofs about Dvbapi, for any programs, adapters, sizes of the pool and  *)
(* of a key's filters, and any number of unread messages: a registered     *)
(* program has a live key of its own (HasKey), a program has one key       *)
(* (OneKey), and a key in teardown is left alone (TeardownAlone).  On top  *)
(* of that invariant, MsgInv follows the messages: what the server knows   *)
(* of a program is its last version (ServerKnows), and no key is left      *)
(* without a program (NoOrphan).                                           *)
(***************************************************************************)
EXTENDS Dvbapi, FiniteSetTheorems, WellFoundedInduction, SequenceTheorems, TLAPS

\* Min of a finite set of numbers is in it: the element with the fewest below it.
LEMMA MinIsLeast ==
    ASSUME NEW S, S \in SUBSET Int, IsFiniteSet(S), S # {}
    PROVE  Min(S) \in S /\ \A y \in S : Min(S) <= y
<1> DEFINE below == [x \in S |-> {y \in S : y < x}]
           family == {below[x] : x \in S}
<1>1. family \subseteq FiniteSubsetsOf(S) /\ family # {}
  <2>1. \A x \in S : below[x] \in FiniteSubsetsOf(S)
    BY FS_Subset DEF FiniteSubsetsOf
  <2>2. QED
    BY <2>1
<1>2. \E a \in family : \A b \in family : ~ (<<b, a>> \in StrictSubsetOrdering(S))
  <2> HIDE DEF family
  <2> QED BY <1>1, FS_StrictSubsetOrderingWellFounded, WFMin
<1>3. PICK s \in S : \A y \in S : ~ (<<below[y], below[s]>> \in StrictSubsetOrdering(S))
  BY <1>2
<1>4. \A y \in S : s <= y
  <2>1. SUFFICES ASSUME NEW y \in S, y < s PROVE FALSE
    OBVIOUS
  <2>2. y \in below[s] /\ y \notin below[y] /\ \A z \in S : z < y => z < s
    BY <2>1
  <2>3. below[y] \subseteq below[s] /\ below[s] \subseteq S
    BY <2>2
  <2>4. QED
    BY <1>3, <2>2, <2>3 DEF StrictSubsetOrdering
<1>5. QED
  BY <1>4 DEF Min

Pids == Range(EcmPid)
KeyType == [enabled : BOOLEAN, allocated : BOOLEAN, pmt : Pmts \cup {NoPmt}, adapter : Adapters \cup {NoAdapter},
            filters : SUBSET Pids, ecms : 0 .. MaxFilters, stop : {"none", "recent", "old"},
            hash : (Pmts \cup {NoPmt}) \X Nat]
PmtType == [run : BOOLEAN, content : Nat, sent : BOOLEAN, reg : BOOLEAN, opaque : Keys \cup {NoKey}]
Msgs == [op : {"info"}, key : {NoKey}, pid : {0}] \cup [op : {"set", "stop"}, key : Keys, pid : Pids]
LinkType == [sock : BOOLEAN, enabled : BOOLEAN, force : BOOLEAN]
SrvType == [pmts : [Keys -> {Nobody} \cup (Pmts \X Nat)], filters : SUBSET (Keys \X Pids)]

\* the places of a thread
Sending == [at : {"key", "mask"}, pmt : Pmts, update : BOOLEAN, stale : BOOLEAN]
Deleting == [at : {"del"}, key : Keys, pmt : Pmts, ad : Adapters, next : {"close", "scan", "idle"}, msg : SUBSET Keys]
Closing == [at : {"close"}, pmt : Pmts, ad : Adapters]
Scans == [at : {"scan"}, key : 1 .. MaxKeys + 1]
Places == {Idle} \cup Sending \cup Deleting \cup Closing \cup Scans

Types == /\ link \in LinkType /\ ca \in [on : BOOLEAN, ads : SUBSET Adapters]
         /\ keys \in [Keys -> KeyType] /\ limit \in Limits
         /\ pmt \in [Pmts -> PmtType] /\ \A p \in Pmts : pmt[p].content \in Contents[p]
         /\ th \in [Threads -> Places]
         /\ srv \in SrvType /\ IsFiniteSet(srv.filters)
         /\ inq \in Seq(Msgs) /\ demux \subseteq Adapters \X Pids \X Keys /\ struck \subseteq Pmts

\* The count of a key's filters stays below their number, also when DMX_STOP names one it has not.
CountOK == \A k \in Keys : /\ IsFiniteSet(keys[k].filters)
                           /\ keys[k].ecms <= Cardinality(keys[k].filters)
                           /\ Cardinality(keys[k].filters) <= MaxFilters

\* An adapter's thread sends or closes programs of its adapter; the socket's sends none.
AtWork == /\ \A a \in Adapters : /\ th[a].at \in {"idle", "key", "mask", "del"}
                                 /\ th[a].at # "idle" => AdapterOf[th[a].pmt] = a
                                 /\ th[a].at = "del" => th[a].next = "close"
          /\ th[Socket].at \in {"idle", "del", "close", "scan"}

\* A live key belongs to a program, whose opaque names it.
Owned == \A k \in Keys : keys[k].enabled =>
    /\ keys[k].allocated /\ keys[k].pmt \in Pmts
    /\ keys[k].adapter = AdapterOf[keys[k].pmt] /\ pmt[keys[k].pmt].opaque = k

\* A key in teardown is disabled and cannot be obtained; the program that is closed has its adapter's lock
\* and, in dvbapi_del_pmt, still names the key.
TearsDown == \A t \in Threads :
    /\ th[t].at \in {"del", "close"} => th[t].ad = AdapterOf[th[t].pmt]
    /\ th[t].at = "del" => /\ keys[th[t].key].allocated /\ ~keys[th[t].key].enabled
                           /\ th[t].next = "close" => pmt[th[t].pmt].opaque = th[t].key
Alone == \A t, u \in Threads : t # u /\ th[t].at = "del" /\ th[u].at = "del" => th[t].key # th[u].key

\* The adapter whose lock the socket's thread has does nothing.
Excl == \A a \in Adapters : Holds(Socket) = a => th[a].at = "idle"

\* Without a connection dvbapi_close is under way, or it is done: no program is registered, and a send
\* that began before it will not register one.
Scanning == th[Socket].at = "scan" \/ (th[Socket].at = "del" /\ th[Socket].next = "scan")
Sends(a) == th[a].at \in {"key", "mask"}
Down == /\ Scanning => ~link.sock
        /\ ~link.sock /\ ~Scanning => /\ \A p \in Pmts : ~pmt[p].reg
                                     /\ \A a \in Adapters : Sends(a) => th[a].stale

\* A program is registered, or will be, only while the CA table has the entry on.
OnTable == /\ \A p \in Pmts : pmt[p].reg => ca.on /\ AdapterOf[p] \in ca.ads
           /\ \A a \in Adapters : Sends(a) /\ ~th[a].stale => ca.on /\ a \in ca.ads

\* A registered program, and one that is about to be, has its key.
Keyed == /\ \A p \in Pmts : pmt[p].reg => LiveKey(p) \/ p \in struck \/ BeingClosed(p) \/ Scanning
         /\ \A a \in Adapters : th[a].at = "mask" =>
                LiveKey(th[a].pmt) \/ th[a].pmt \in struck \/ th[a].stale \/ Scanning

Core == AtWork /\ Owned /\ TearsDown /\ Alone /\ Excl /\ Down /\ OnTable /\ Keyed
DvbapiInv == Types /\ CountOK /\ Core

-----------------------------------------------------------------------------

LEMMA Ids == /\ 1 \in Keys /\ NoKey \notin Keys /\ Keys \subseteq Int /\ IsFiniteSet(Keys) /\ Socket \notin Adapters
             /\ NoAdapter \notin Adapters /\ \A p \in Pmts : AdapterOf[p] \in Adapters /\ EcmPid[p] \in Pids /\ p # NoPmt
             /\ Threads = Adapters \cup {Socket} /\ \A k \in Keys : k + 1 \in 1 .. MaxKeys + 1
  BY DvbapiAssumption, FS_Interval DEF Keys, NoKey, Socket, NoAdapter, Threads, NoPmt, Pids, Range

LEMMA Place ==
    ASSUME NEW s \in Places
    PROVE  /\ s.at \in {"idle", "key", "mask", "del", "close", "scan"}
           /\ s.at = "idle" <=> s = Idle
           /\ s.at \in {"key", "mask"} => s.pmt \in Pmts /\ s.update \in BOOLEAN /\ s.stale \in BOOLEAN
           /\ s.at = "del" => /\ s.key \in Keys /\ s.pmt \in Pmts /\ s.ad \in Adapters /\ s.msg \subseteq Keys
                              /\ s.next \in {"close", "scan", "idle"}
           /\ s.at = "close" => s.pmt \in Pmts /\ s.ad \in Adapters
           /\ s.at = "scan" => s.key \in 1 .. MaxKeys + 1
  BY DEF Places, Sending, Deleting, Closing, Scans, Idle

LEMMA NewKeyType == NewKey \in KeyType /\ ~NewKey.enabled /\ ~NewKey.allocated /\ NewKey.filters = {} /\ NewKey.ecms = 0
  BY DvbapiAssumption DEF NewKey, KeyType, Nobody, NoPmt, NoAdapter

LEMMA NoServerType == NoServer \in SrvType /\ IsFiniteSet(NoServer.filters)
  BY FS_EmptySet DEF NoServer, SrvType

LEMMA SetToSeqType ==
    ASSUME NEW S, IsFiniteSet(S)
    PROVE  SetToSeq(S) \in Seq(S)
<1>1. Cardinality(S) \in Nat /\ ExistsBijection(1 .. Cardinality(S), S)
  BY FS_CardinalityType
<1>2. \E f \in [1 .. Cardinality(S) -> S] : IsInjective(f)
  BY <1>1 DEF ExistsBijection, Bijection, Injection
<1>3. SetToSeq(S) \in [1 .. Cardinality(S) -> S]
  BY <1>2 DEF SetToSeq
<1>4. QED
  BY <1>1, <1>3, SeqDef

LEMMA StopsType ==
    ASSUME NEW fs, IsFiniteSet(fs), fs \subseteq Keys \X Pids
    PROVE  Stops(fs) \in Seq(Msgs)
<1> DEFINE T == {[op |-> "stop", key |-> f[1], pid |-> f[2]] : f \in fs}
           g == [m \in T |-> <<m.key, m.pid>>]
<1>1. g \in [T -> fs] /\ \A m, n \in T : g[m] = g[n] => m = n
  OBVIOUS
<1>2. g \in Injection(T, fs)
  BY <1>1 DEF Injection, IsInjective
<1>3. IsFiniteSet(T)
  BY <1>2, FS_Injection
<1>4. SetToSeq(T) \in Seq(T)
  BY <1>3, SetToSeqType
<1>5. T \subseteq Msgs
  BY DEF Msgs
<1>6. QED
  BY <1>4, <1>5 DEF Stops

\* what Torn does: the sends are marked, the rest is kept
LEMMA TornKeeps ==
    ASSUME NEW w \in [Threads -> Places]
    PROVE  /\ Torn(w) \in [Threads -> Places]
           /\ \A t \in Threads : /\ w[t].at \notin {"key", "mask"} => Torn(w)[t] = w[t]
                                 /\ w[t].at \in {"key", "mask"} => Torn(w)[t].stale = TRUE
                                 /\ Torn(w)[t].at = w[t].at /\ Torn(w)[t].pmt = w[t].pmt
<1> SUFFICES ASSUME NEW t \in Threads
             PROVE  /\ Torn(w)[t] \in Places
                    /\ w[t].at \notin {"key", "mask"} => Torn(w)[t] = w[t]
                    /\ w[t].at \in {"key", "mask"} => Torn(w)[t].stale = TRUE
                    /\ Torn(w)[t].at = w[t].at /\ Torn(w)[t].pmt = w[t].pmt
  BY DEF Torn
<1>1. CASE w[t].at \in {"key", "mask"}
  <2>1. w[t] \in Sending /\ Torn(w)[t] = [w[t] EXCEPT !.stale = TRUE]
    BY <1>1 DEF Torn, Places, Sending, Deleting, Closing, Scans, Idle
  <2>2. Torn(w)[t] \in Sending /\ Torn(w)[t].stale = TRUE /\ Torn(w)[t].at = w[t].at /\ Torn(w)[t].pmt = w[t].pmt
    BY <2>1 DEF Sending
  <2>3. QED
    BY <1>1, <2>2 DEF Places
<1>2. CASE w[t].at \notin {"key", "mask"}
  BY <1>2 DEF Torn
<1>3. QED
  BY <1>1, <1>2

-----------------------------------------------------------------------------
(* Steps that leave the parts alone *)

\* what Core speaks of in a key and in a program
SameKey(k) == /\ keys'[k].enabled = keys[k].enabled /\ keys'[k].allocated = keys[k].allocated
              /\ keys'[k].pmt = keys[k].pmt /\ keys'[k].adapter = keys[k].adapter
SamePmt(p) == pmt'[p].reg = pmt[p].reg /\ pmt'[p].opaque = pmt[p].opaque

LEMMA CoreKept ==
    ASSUME Types, Core, \A k \in Keys : SameKey(k), \A p \in Pmts : SamePmt(p),
           th' = th, link'.sock = link.sock, ca' = ca, struck' = struck
    PROVE  Core'
<1> USE DEF SameKey, SamePmt
<1>1. \A k : Enabled(k)' = Enabled(k)
  BY DEF Enabled
<1>2. \A p \in Pmts : LiveKey(p)' = LiveKey(p)
  BY <1>1 DEF LiveKey, Enabled
<1>3. AtWork' /\ Alone' /\ Excl' /\ (Scanning' <=> Scanning) /\ \A p : BeingClosed(p)' = BeingClosed(p)
  BY DEF Core, AtWork, Alone, Excl, Scanning, BeingClosed, Holds
<1>4. Owned'
  BY DEF Core, Owned
<1>5. \A t \in Threads : /\ th[t].at = "del" => th[t].key \in Keys /\ th[t].pmt \in Pmts
                         /\ th[t].at \in {"key", "mask"} => th[t].pmt \in Pmts
  BY Place DEF Types
<1>6. TearsDown'
  BY <1>5 DEF Core, TearsDown
<1>7. Down' /\ OnTable'
  BY <1>3 DEF Core, Down, OnTable, Sends
<1>8. Keyed'
  BY <1>2, <1>3, <1>5, Ids DEF Core, Keyed
<1>9. QED
  BY <1>3, <1>4, <1>6, <1>7, <1>8 DEF Core

\* the facts about the places of the threads that the steps below use
LEMMA Placed ==
    ASSUME Types
    PROVE  \A t \in Threads :
               /\ th[t].at \in {"key", "mask"} => th[t].pmt \in Pmts /\ th[t].stale \in BOOLEAN
               /\ th[t].at = "del" => /\ th[t].key \in Keys /\ th[t].pmt \in Pmts /\ th[t].ad \in Adapters
                                      /\ th[t].next \in {"close", "scan", "idle"}
               /\ th[t].at = "close" => th[t].pmt \in Pmts /\ th[t].ad \in Adapters
  BY Place DEF Types

-----------------------------------------------------------------------------
(* keys_del *)

\* The first half of keys_del, for whatever thread and reason: the program whose key it was is being closed,
\* or is recorded as struck, or the connection is being closed.
LEMMA DelStarts ==
    ASSUME Types, Core, NEW t \in Threads, NEW k \in Keys, NEW p \in Pmts, NEW next \in {"close", "scan", "idle"},
           DelMark(t, k, p, next), keys[k].enabled, \A q \in Pmts : SamePmt(q), link' = link, ca' = ca,
           th[t].at \in {"idle", "close", "scan"},
           t = Socket => /\ th[AdapterOf[p]].at = "idle"
                         /\ th[Socket].at = "scan" <=> next = "scan"
                         /\ th[Socket].at = "close" => th[Socket].pmt = p,
           t # Socket => t = AdapterOf[p] /\ next = "close" /\ Holds(Socket) # t,
           next = "close" => pmt[p].opaque = k,
           struck \subseteq struck',
           keys[k].pmt # p => keys[k].pmt \in struck'
    PROVE  Core'
<1> DEFINE d == [at |-> "del", key |-> k, pmt |-> p, ad |-> AdapterOf[p], next |-> next,
                 msg |-> IF \E o \in Keys \ {k} : Enabled(o) THEN {k} ELSE Keys]
<1> HIDE DEF d
<1>0. /\ d.at = "del" /\ d.key = k /\ d.pmt = p /\ d.ad = AdapterOf[p] /\ d.next = next
  BY DEF d
<1>1. th' = [th EXCEPT ![t] = d] /\ keys' = [keys EXCEPT ![k].enabled = FALSE]
  BY DEF DelMark, d
<1>2. th'[t] = d /\ \A u \in Threads \ {t} : th'[u] = th[u]
  BY <1>1 DEF Types
<1>3. /\ \A l \in Keys \ {k} : keys'[l] = keys[l]
      /\ ~keys'[k].enabled /\ keys'[k].allocated = keys[k].allocated /\ keys'[k].pmt = keys[k].pmt
      /\ keys'[k].adapter = keys[k].adapter
  BY <1>1 DEF Types, KeyType
<1>4. keys[k].pmt \in Pmts /\ keys[k].allocated /\ pmt[keys[k].pmt].opaque = k
  BY DEF Core, Owned
<1>5. AtWork'
  BY <1>0, <1>2, Ids DEF Core, AtWork
<1>6. Owned'
  BY <1>3 DEF Core, Owned, SamePmt
<1>7. \A u \in Threads : th[u].at = "del" => th[u].key \in Keys /\ th[u].key # k /\ th[u].pmt \in Pmts
  BY Placed DEF Core, TearsDown
<1>8. TearsDown'
  <2> SUFFICES ASSUME NEW u \in Threads
               PROVE  /\ th'[u].at \in {"del", "close"} => th'[u].ad = AdapterOf[th'[u].pmt]
                      /\ th'[u].at = "del" => /\ keys'[th'[u].key].allocated /\ ~keys'[th'[u].key].enabled
                                              /\ th'[u].next = "close" => pmt'[th'[u].pmt].opaque = th'[u].key
    BY DEF TearsDown
  <2>1. CASE u = t
    BY <2>1, <1>0, <1>2, <1>3, <1>4 DEF SamePmt
  <2>2. CASE u # t
    BY <2>2, <1>2, <1>3, <1>7 DEF Core, TearsDown, SamePmt
  <2>3. QED
    BY <2>1, <2>2
<1>9. Alone'
  BY <1>0, <1>2, <1>7 DEF Core, Alone
<1>10. Excl'
  BY <1>0, <1>2, Ids DEF Core, Excl, Holds
<1>11. Scanning' <=> Scanning
  BY <1>0, <1>2, Ids DEF Scanning
<1>12. Down' /\ OnTable'
  BY <1>0, <1>2, <1>11, Ids DEF Core, Down, OnTable, Sends, SamePmt
<1>13. \A q \in Pmts : BeingClosed(q) => BeingClosed(q)'
  BY <1>0, <1>2, Ids DEF BeingClosed, Core, AtWork
<1>14. BeingClosed(p)'
  BY <1>0, <1>2 DEF BeingClosed
<1>15. \A q \in Pmts : LiveKey(q) => LiveKey(q)' \/ q = keys[k].pmt
  BY <1>3 DEF LiveKey, Enabled, SamePmt
<1>16. \A a \in Adapters : th'[a].at = "mask" => th'[a] = th[a] /\ th[a].pmt \in Pmts /\ a # AdapterOf[p]
  BY <1>0, <1>2, Ids, Placed
<1>17. \A a \in Adapters : th'[a].at = "mask" => th[a].pmt # p
  BY <1>16 DEF Core, AtWork
<1>18. Keyed'
  BY <1>11, <1>13, <1>14, <1>15, <1>16, <1>17 DEF Core, Keyed, SamePmt
<1>19. QED
  BY <1>5, <1>6, <1>8, <1>9, <1>10, <1>12, <1>18 DEF Core

\* Thread t closes program p, and no other thread does anything with it.
Mine(t, p) == \/ t = Socket /\ th[t].at \in {"del", "close"} /\ th[t].pmt = p
              \/ /\ t = AdapterOf[p] /\ th[t].at \in {"idle", "del"} /\ Holds(Socket) # t
                 /\ th[t].at = "del" => th[t].pmt = p

LEMMA OthersElsewhere ==
    ASSUME Types, Core, NEW t \in Threads, NEW p \in Pmts, Mine(t, p)
    PROVE  \A u \in Threads \ {t} : th[u].at \in {"key", "mask", "del", "close"} => th[u].pmt # p
<1> SUFFICES ASSUME NEW u \in Threads \ {t}, th[u].at \in {"key", "mask", "del", "close"}, th[u].pmt = p
             PROVE  FALSE
  OBVIOUS
<1>1. CASE u \in Adapters
  BY <1>1, Ids DEF Core, AtWork, Excl, TearsDown, Holds, Mine
<1>2. CASE u = Socket
  BY <1>2, Ids DEF Core, AtWork, TearsDown, Holds, Mine
<1>3. QED
  BY <1>1, <1>2, Ids

\* a thread that goes on as before, perhaps with a send that will not set the masks
TornOrSame(u) == /\ th'[u].at = th[u].at /\ th'[u].pmt = th[u].pmt
                 /\ th[u].at \notin {"key", "mask"} => th'[u] = th[u]
                 /\ th[u].at \in {"key", "mask"} => th'[u].stale = TRUE \/ th'[u] = th[u]

LEMMA Ends ==
    ASSUME Types, NEW t \in Threads, th' = [th EXCEPT ![t] = Idle] \/ th' = Torn([th EXCEPT ![t] = Idle])
    PROVE  th'[t].at = "idle" /\ \A u \in Threads \ {t} : TornOrSame(u)
<1>1. PICK w : w = [th EXCEPT ![t] = Idle]
  OBVIOUS
<1>2. w \in [Threads -> Places] /\ w[t].at = "idle" /\ \A u \in Threads \ {t} : w[u] = th[u]
  BY <1>1 DEF Types, Places, Idle
<1>3. CASE th' = w
  BY <1>2, <1>3 DEF TornOrSame
<1>4. CASE th' = Torn(w)
  <2>1. \A u \in Threads : /\ w[u].at \notin {"key", "mask"} => th'[u] = w[u]
                           /\ w[u].at \in {"key", "mask"} => th'[u].stale = TRUE
                           /\ th'[u].at = w[u].at /\ th'[u].pmt = w[u].pmt
    BY <1>2, <1>4, TornKeeps
  <2>2. QED
    BY <1>2, <2>1 DEF TornOrSame
<1>5. QED
  BY <1>1, <1>3, <1>4

\* The end of close_pmt_for_ca: thread t is idle again, the program has no key and no mask.
LEMMA CloseEnds ==
    ASSUME Types, Core, NEW t \in Threads, NEW p \in Pmts, Mine(t, p), th[t].at = "del" => th[t].next = "close",
           ~Enabled(pmt[p].opaque),
           th'[t].at = "idle",
           \A u \in Threads \ {t} : TornOrSame(u),
           \A q \in Pmts \ {p} : SamePmt(q),
           pmt'[p].reg = FALSE, pmt'[p].opaque = NoKey,
           \A l \in Keys : SameKey(l) \/ (~keys[l].enabled /\ ~keys'[l].enabled /\ th[t].at = "del" /\ th[t].key = l),
           link'.sock = link.sock, ca' = ca, struck' = struck \ {p}
    PROVE  Core'
<1> USE DEF TornOrSame
<1>1. \A u \in Threads \ {t} : th[u].at \in {"key", "mask", "del", "close"} => th[u].pmt # p
  BY OthersElsewhere
<1>2. \A l \in Keys : keys[l].enabled => keys[l].pmt # p
  BY Ids DEF Core, Owned, Enabled
<1>3. AtWork'
  BY Ids DEF Core, AtWork
<1>4. Owned'
  BY <1>2 DEF Core, Owned, SameKey, SamePmt
<1>5. TearsDown'
  <2> SUFFICES ASSUME NEW u \in Threads \ {t}, th[u].at \in {"del", "close"}, th'[u] = th[u]
               PROVE  /\ th[u].ad = AdapterOf[th[u].pmt]
                      /\ th[u].at = "del" => /\ keys'[th[u].key].allocated /\ ~keys'[th[u].key].enabled
                                             /\ th[u].next = "close" => pmt'[th[u].pmt].opaque = th[u].key
    BY DEF TearsDown
  <2>1. th[u].at = "del" => th[u].key \in Keys /\ SameKey(th[u].key) /\ th[u].pmt \in Pmts \ {p}
    BY <1>1, Placed DEF Core, Alone
  <2>2. QED
    BY <2>1 DEF Core, TearsDown, SameKey, SamePmt
<1>6. Alone'
  BY DEF Core, Alone
<1>7. Excl'
  BY Ids DEF Core, Excl, Holds
<1>8. Scanning' <=> Scanning
  BY Ids DEF Scanning, Mine
<1>9. Down' /\ OnTable'
  BY <1>8, Ids DEF Core, Down, OnTable, Sends, SamePmt, AtWork
<1>10. \A q \in Pmts \ {p} : BeingClosed(q) => BeingClosed(q)'
  BY DEF BeingClosed, Mine
<1>11. \A q \in Pmts \ {p} : LiveKey(q) => LiveKey(q)'
  BY DEF LiveKey, Enabled, SamePmt, SameKey
<1>12. Keyed'
  BY <1>1, <1>8, <1>10, <1>11, Placed, Ids DEF Core, Keyed, SamePmt
<1>13. QED
  BY <1>3, <1>4, <1>5, <1>6, <1>7, <1>9, <1>12 DEF Core

LEMMA ClosePmtCore ==
    ASSUME Types, Core, NEW t \in Threads, NEW p \in Pmts, Mine(t, p), th[t].at # "del",
           NEW pm \in [Pmts -> PmtType], \A q \in Pmts : pm[q].reg = pmt[q].reg /\ pm[q].opaque = pmt[q].opaque,
           ClosePmt(t, p, pm), link' = link, ca' = ca
    PROVE  Core'
<1> DEFINE k == pmt[p].opaque
<1>0. th \in [Threads -> Places] /\ Idle \in Places /\ Idle.at = "idle"
  BY DEF Types, Places, Idle
<1>1. CASE ~Registered(p) /\ pmt' = pm /\ th' = [th EXCEPT ![t] = Idle] /\ UNCHANGED <<keys, struck>>
  <2>1. th'[t].at = "idle" /\ \A u \in Threads \ {t} : th'[u] = th[u]
    BY <1>0, <1>1
  <2>2. ~pmt[p].reg
    BY <1>1 DEF Registered, Core, OnTable
  <2>3. \A q \in Pmts : SamePmt(q)
    BY <1>1 DEF SamePmt
  <2>4. AtWork' /\ Alone' /\ Excl'
    BY <2>1, Ids DEF Core, AtWork, Alone, Excl, Holds, Mine
  <2>5. Owned'
    BY <1>1, <2>3 DEF Core, Owned, SamePmt
  <2>6. TearsDown'
    BY <1>1, <2>1, <2>3, Placed DEF Core, TearsDown, SamePmt
  <2>7. Scanning' <=> Scanning
    BY <2>1, Ids DEF Scanning, Mine
  <2>8. Down' /\ OnTable'
    BY <2>1, <2>3, <2>7, Ids DEF Core, Down, OnTable, Sends, SamePmt
  <2>9. \A q \in Pmts \ {p} : BeingClosed(q) => BeingClosed(q)'
    BY <2>1 DEF BeingClosed, Mine
  <2>10. \A q \in Pmts : LiveKey(q) => LiveKey(q)'
    BY <1>1, <2>3 DEF LiveKey, Enabled, SamePmt
  <2>11. Keyed'
    BY <1>1, <2>1, <2>2, <2>3, <2>7, <2>9, <2>10, Placed, Ids DEF Core, Keyed, SamePmt
  <2>12. QED
    BY <2>4, <2>5, <2>6, <2>8, <2>11 DEF Core
<1>2. CASE /\ Registered(p) /\ ~Enabled(k)
           /\ pmt' = Unmasked(pm, p) /\ th' = Torn([th EXCEPT ![t] = Idle])
           /\ struck' = struck \ {p} /\ UNCHANGED keys
  <2>3. th'[t].at = "idle" /\ \A u \in Threads \ {t} : TornOrSame(u)
    BY <1>2, Ends
  <2>5. /\ \A q \in Pmts \ {p} : SamePmt(q)
        /\ pmt'[p].reg = FALSE /\ pmt'[p].opaque = NoKey
    BY <1>2 DEF Unmasked, SamePmt, PmtType
  <2>6. \A l \in Keys : SameKey(l)
    BY <1>2 DEF SameKey
  <2>7. QED
    BY <1>2, <2>3, <2>5, <2>6, CloseEnds
<1>3. CASE /\ Registered(p) /\ Enabled(k) /\ pmt' = pm /\ DelMark(t, k, p, "close")
           /\ struck' = struck \cup ({keys[k].pmt} \ {p})
  <2>1. k \in Keys /\ keys[k].enabled
    BY <1>3 DEF Enabled
  <2>2. \A q \in Pmts : SamePmt(q)
    BY <1>3 DEF SamePmt
  <2>3. t = Socket => th[AdapterOf[p]].at = "idle"
    BY Ids DEF Mine, Core, Excl, Holds, TearsDown
  <2>4. QED
    BY <1>3, <2>1, <2>2, <2>3, DelStarts, Ids DEF Mine
<1>4. QED
  BY <1>1, <1>2, <1>3 DEF ClosePmt

LEMMA DelFreeCore ==
    ASSUME Types, Core, NEW t \in Threads, DelFree(t)
    PROVE  Core'
<1> DEFINE k == th[t].key
           p == th[t].pmt
<1>1. /\ th[t].at = "del" /\ k \in Keys /\ p \in Pmts /\ th[t].ad = AdapterOf[p]
      /\ ~keys[k].enabled
      /\ th[t].next = "close" => pmt[p].opaque = k
  BY Placed DEF DelFree, Core, TearsDown
<1>2. link'.sock = link.sock /\ ca' = ca /\ keys' = [keys EXCEPT ![k] = NewKey]
  BY DEF DelFree, WriteFails, Types, LinkType
<1>3. \A l \in Keys : SameKey(l) \/ (l = k /\ ~keys[l].enabled /\ ~keys'[l].enabled)
  BY <1>1, <1>2, NewKeyType DEF SameKey, Types
<1>4. Mine(t, p)
  BY <1>1, Ids DEF Mine, Core, AtWork, Excl
<1>5. CASE th[t].next # "close" /\ UNCHANGED <<pmt, struck>>
           /\ \E s : /\ th' = [th EXCEPT ![t] = s]
                     /\ \/ th[t].next = "scan" /\ s = [at |-> "scan", key |-> k + 1]
                        \/ th[t].next = "idle" /\ s = [at |-> "close", pmt |-> p, ad |-> th[t].ad]
  <2>0. PICK s : /\ th' = [th EXCEPT ![t] = s]
                 /\ \/ th[t].next = "scan" /\ s = [at |-> "scan", key |-> k + 1]
                    \/ th[t].next = "idle" /\ s = [at |-> "close", pmt |-> p, ad |-> th[t].ad]
    BY <1>5
  <2>1. \/ th[t].next = "scan" /\ s.at = "scan"
        \/ th[t].next = "idle" /\ s.at = "close" /\ s.pmt = p /\ s.ad = th[t].ad
    BY <2>0
  <2>2. t = Socket
    BY <1>1, <1>5, Ids DEF Core, AtWork
  <2>3. th'[t] = s /\ \A u \in Threads \ {t} : th'[u] = th[u]
    BY <2>0 DEF Types
  <2>4. AtWork' /\ Alone' /\ Excl'
    BY <1>1, <2>1, <2>2, <2>3, Ids DEF Core, AtWork, Alone, Excl, Holds
  <2>5. Owned'
    BY <1>3, <1>5 DEF Core, Owned, SameKey
  <2>6. TearsDown'
    <3> SUFFICES ASSUME NEW u \in Threads
                 PROVE  /\ th'[u].at \in {"del", "close"} => th'[u].ad = AdapterOf[th'[u].pmt]
                        /\ th'[u].at = "del" => /\ keys'[th'[u].key].allocated /\ ~keys'[th'[u].key].enabled
                                                /\ th'[u].next = "close" => pmt'[th'[u].pmt].opaque = th'[u].key
      BY DEF TearsDown
    <3>1. CASE u = t
      BY <3>1, <1>1, <2>1, <2>3
    <3>2. CASE u # t
      <4>1. th[u].at = "del" => th[u].key \in Keys /\ th[u].key # k
        BY <3>2, <1>1, Placed DEF Core, Alone
      <4>2. QED
        BY <3>2, <4>1, <1>3, <1>5, <2>3 DEF Core, TearsDown, SameKey
    <3>3. QED
      BY <3>1, <3>2
  <2>7. Scanning' <=> Scanning
    BY <1>1, <2>1, <2>2, <2>3 DEF Scanning
  <2>8. Down' /\ OnTable'
    BY <1>2, <1>5, <2>2, <2>3, <2>7, Ids DEF Core, Down, OnTable, Sends
  <2>9. \A q \in Pmts : BeingClosed(q) => BeingClosed(q)' \/ Scanning'
    BY <1>1, <2>1, <2>2, <2>3 DEF BeingClosed, Scanning
  <2>10. \A q \in Pmts : LiveKey(q) => LiveKey(q)'
    BY <1>3, <1>5 DEF LiveKey, Enabled, SameKey
  <2>11. Keyed'
    BY <1>5, <2>2, <2>3, <2>7, <2>9, <2>10, Placed, Ids DEF Core, Keyed
  <2>12. QED
    BY <2>4, <2>5, <2>6, <2>8, <2>11 DEF Core
<1>6. CASE /\ th[t].next = "close" /\ struck' = struck \ {p}
           /\ IF pmt[p].reg THEN pmt' = Unmasked(pmt, p) /\ th' = Torn([th EXCEPT ![t] = Idle])
              ELSE pmt' = [pmt EXCEPT ![p].opaque = NoKey] /\ th' = [th EXCEPT ![t] = Idle]
  <2>3. th'[t].at = "idle" /\ \A u \in Threads \ {t} : TornOrSame(u)
    BY <1>6, Ends
  <2>5. /\ \A q \in Pmts \ {p} : SamePmt(q)
        /\ pmt'[p].reg = FALSE /\ pmt'[p].opaque = NoKey
    <3>1. pmt \in [Pmts -> PmtType] /\ pmt[p].reg \in BOOLEAN
      BY <1>1 DEF Types, PmtType
    <3>2. CASE pmt[p].reg
      BY <1>1, <1>6, <3>1, <3>2 DEF Unmasked, SamePmt, PmtType
    <3>3. CASE ~pmt[p].reg
      <4>1. pmt' = [pmt EXCEPT ![p].opaque = NoKey] /\ pmt[p].reg = FALSE
        BY <1>6, <3>1, <3>3
      <4>2. QED
        BY <1>1, <3>1, <4>1 DEF SamePmt, PmtType
    <3>4. QED
      BY <3>2, <3>3
  <2>6. ~Enabled(pmt[p].opaque)
    BY <1>1, <1>6 DEF Enabled
  <2>7. QED
    BY <1>1, <1>2, <1>3, <1>4, <1>6, <2>3, <2>5, <2>6, CloseEnds
<1>7. QED
  BY <1>5, <1>6 DEF DelFree, AfterDel

-----------------------------------------------------------------------------
(* The adapter's thread *)

LEMMA StopPmtCore ==
    ASSUME Types, Core, NEW p \in Pmts, StopPmt(p) \/ Watchdog(p)
    PROVE  Core'
<1>1. Free(AdapterOf[p]) /\ AdapterOf[p] \in Threads /\ link' = link /\ ca' = ca
  BY Ids DEF StopPmt, Watchdog
<1>2. Mine(AdapterOf[p], p) /\ th[AdapterOf[p]].at # "del"
  BY <1>1, Ids DEF Mine, Free, Idle
<1>3. CASE StopPmt(p)
  <2> DEFINE pm == [pmt EXCEPT ![p].run = FALSE]
  <2>1. pm \in [Pmts -> PmtType] /\ \A q \in Pmts : pm[q].reg = pmt[q].reg /\ pm[q].opaque = pmt[q].opaque
    BY DEF Types, PmtType
  <2>2. ClosePmt(AdapterOf[p], p, pm)
    BY <1>3 DEF StopPmt
  <2>3. QED
    BY <1>1, <1>2, <2>1, <2>2, ClosePmtCore
<1>4. CASE Watchdog(p)
  <2>1. pmt \in [Pmts -> PmtType] /\ ClosePmt(AdapterOf[p], p, pmt)
    BY <1>4 DEF Watchdog, Types
  <2>2. QED
    BY <1>1, <1>2, <2>1, ClosePmtCore
<1>5. QED
  BY <1>3, <1>4

LEMMA SendCheckCore ==
    ASSUME Types, Core, NEW p \in Pmts, SendCheck(p)
    PROVE  Core'
<1> DEFINE a == AdapterOf[p]
<1>1. /\ a \in Adapters /\ th[a].at = "idle" /\ Holds(Socket) # a /\ ca.on /\ a \in ca.ads /\ link.sock
      /\ UNCHANGED <<link, ca, keys, pmt, struck>>
  BY Ids DEF SendCheck, Free, Idle
<1>2. PICK s : th' = [th EXCEPT ![a] = s] /\ s = [at |-> "key", pmt |-> p, update |-> pmt[p].reg, stale |-> FALSE]
  BY DEF SendCheck
<1>3. s.at = "key" /\ s.pmt = p /\ s.stale = FALSE
  BY <1>2
<1>4. th'[a] = s /\ \A u \in Threads \ {a} : th'[u] = th[u]
  BY <1>1, <1>2, Ids DEF Types
<1>5. AtWork' /\ Alone' /\ Excl' /\ Owned' /\ TearsDown' /\ OnTable'
  BY <1>1, <1>3, <1>4, Ids DEF Core, AtWork, Alone, Excl, Owned, TearsDown, OnTable, Holds, Sends
<1>6. (Scanning' <=> Scanning) /\ (\A q : BeingClosed(q) => BeingClosed(q)') /\ \A q : LiveKey(q)' = LiveKey(q)
  BY <1>1, <1>3, <1>4, Ids DEF Scanning, BeingClosed, LiveKey, Enabled
<1>7. Down'
  BY <1>1, <1>6 DEF Core, Down
<1>8. Keyed'
  BY <1>1, <1>3, <1>4, <1>6, Ids DEF Core, Keyed
<1>9. QED
  BY <1>5, <1>7, <1>8 DEF Core

LEMMA SetMaskCore ==
    ASSUME Types, Core, NEW a \in Adapters, SetMask(a)
    PROVE  Core'
<1> DEFINE p == th[a].pmt
           set == ~pmt[p].sent /\ ~th[a].stale
<1>1. /\ th[a].at = "mask" /\ p \in Pmts /\ AdapterOf[p] = a /\ UNCHANGED <<link, ca, keys>>
      /\ th[a].stale \in BOOLEAN /\ pmt[p].sent \in BOOLEAN /\ pmt[p].reg \in BOOLEAN
  BY Placed, Ids DEF SetMask, Core, AtWork, Types, PmtType
<1>2. th'[a].at = "idle" /\ \A u \in Threads \ {a} : th'[u] = th[u]
  BY Ids DEF SetMask, Types, Idle
<1>3. /\ \A q \in Pmts \ {p} : SamePmt(q)
      /\ pmt'[p].opaque = pmt[p].opaque /\ pmt'[p].reg = (pmt[p].reg \/ set)
  BY <1>1 DEF SetMask, SamePmt, Types, PmtType
<1>4. /\ struck \ {p} \subseteq struck'
      /\ p \notin struck' => p \notin struck \/ LiveKey(p)
  BY DEF SetMask
<1>5. AtWork' /\ Alone' /\ Excl'
  BY <1>1, <1>2, Ids DEF Core, AtWork, Alone, Excl, Holds
<1>6. Owned'
  BY <1>1, <1>3 DEF Core, Owned, SamePmt
<1>7. TearsDown'
  BY <1>1, <1>2, <1>3, Placed DEF Core, TearsDown, SamePmt
<1>8. (Scanning' <=> Scanning) /\ (\A q : BeingClosed(q) => BeingClosed(q)') /\ \A q \in Pmts : LiveKey(q)' = LiveKey(q)
  BY <1>1, <1>2, <1>3, Ids DEF Scanning, BeingClosed, LiveKey, Enabled, SamePmt
<1>9. set => ca.on /\ a \in ca.ads /\ (link.sock \/ Scanning)
  BY <1>1 DEF Core, OnTable, Down, Sends
<1>10. Down' /\ OnTable'
  <2>1. \A b \in Adapters : Sends(b)' => th'[b] = th[b] /\ Sends(b)
    BY <1>2, Ids DEF Sends
  <2>2. \A q \in Pmts : pmt'[q].reg => pmt[q].reg \/ (q = p /\ set)
    BY <1>3 DEF SamePmt
  <2>3. Down'
    BY <1>1, <1>8, <1>9, <2>1, <2>2 DEF Core, Down
  <2>4. OnTable'
    BY <1>1, <1>9, <2>1, <2>2 DEF Core, OnTable
  <2>5. QED
    BY <2>3, <2>4
<1>11. set => LiveKey(p) \/ p \in struck \/ Scanning
  BY <1>1 DEF Core, Keyed
<1>12. \A b \in Adapters \ {a} : th[b].at = "mask" => th[b].pmt # p /\ th[b].pmt \in Pmts
  BY <1>1, Placed, Ids DEF Core, AtWork
<1>13. Keyed'
  BY <1>1, <1>2, <1>3, <1>4, <1>8, <1>11, <1>12, Ids DEF Core, Keyed, SamePmt
<1>14. QED
  BY <1>5, <1>6, <1>7, <1>10, <1>13 DEF Core

\* what Core and CountOK speak of in a key
SameFields(r, s) == /\ r.enabled = s.enabled /\ r.allocated = s.allocated /\ r.pmt = s.pmt /\ r.adapter = s.adapter
                    /\ r.filters = s.filters /\ r.ecms = s.ecms

LEMMA HashSet ==
    ASSUME NEW r \in KeyType, NEW h \in (Pmts \cup {NoPmt}) \X Nat
    PROVE  [r EXCEPT !.hash = h] \in KeyType /\ SameFields([r EXCEPT !.hash = h], r)
  BY DEF KeyType, SameFields

LEMMA StopSet ==
    ASSUME NEW r \in KeyType, NEW x \in {"none", "recent", "old"}
    PROVE  [r EXCEPT !.stop = x] \in KeyType /\ SameFields([r EXCEPT !.stop = x], r)
  BY DEF KeyType, SameFields

\* A write of the CAPMT changes what Core speaks of in no key.
LEMMA SendPmtKeeps ==
    ASSUME NEW ks \in [Keys -> KeyType], NEW k \in Keys, NEW p \in Pmts, NEW force \in BOOLEAN,
           pmt \in [Pmts -> PmtType], link \in LinkType, SendPmt(ks, k, p, force)
    PROVE  /\ keys' \in [Keys -> KeyType] /\ link' \in LinkType /\ link'.sock = link.sock
           /\ \A l \in Keys : SameFields(keys'[l], ks[l])
<1>1. Capmt(p) \in (Pmts \cup {NoPmt}) \X Nat
  BY DEF Capmt, PmtType
<1>2. link' \in LinkType /\ link'.sock = link.sock
  BY DEF SendPmt, WriteCapmt, WriteFails, LinkType
<1>3. keys' = ks \/ keys' = [ks EXCEPT ![k].hash = Capmt(p)]
  BY DEF SendPmt, WriteCapmt
<1>4. CASE keys' = ks
  BY <1>2, <1>4 DEF SameFields
<1>5. CASE keys' = [ks EXCEPT ![k].hash = Capmt(p)]
  <2>1. keys'[k] = [ks[k] EXCEPT !.hash = Capmt(p)] /\ \A l \in Keys \ {k} : keys'[l] = ks[l]
    BY <1>5
  <2>2. keys'[k] \in KeyType /\ SameFields(keys'[k], ks[k])
    BY <1>1, <2>1, HashSet
  <2>3. \A l \in Keys : SameFields(keys'[l], ks[l])
    BY <2>1, <2>2 DEF SameFields
  <2>4. keys' \in [Keys -> KeyType]
    BY <1>5, <2>1, <2>2
  <2>5. QED
    BY <1>2, <2>3, <2>4
<1>6. QED
  BY <1>3, <1>4, <1>5

LEMMA FreeKey ==
    ASSUME Types, FreeKeys # {}
    PROVE  Min(FreeKeys) \in Keys /\ ~keys[Min(FreeKeys)].enabled /\ ~keys[Min(FreeKeys)].allocated
<1>0. limit \in 1 .. MaxKeys /\ MaxKeys \in Int
  BY DvbapiAssumption DEF Types
<1>1. limit \in Int /\ 1 .. limit \subseteq Keys
  BY <1>0 DEF Keys
<1>2. FreeKeys \subseteq Keys /\ FreeKeys \in SUBSET Int /\ IsFiniteSet(FreeKeys)
  BY <1>1, Ids, FS_Subset DEF FreeKeys
<1>3. Min(FreeKeys) \in FreeKeys
  BY <1>2, MinIsLeast
<1>4. QED
  BY <1>2, <1>3 DEF FreeKeys

LEMMA AddKeyCore ==
    ASSUME Types, Core, NEW a \in Adapters, AddKey(a)
    PROVE  Core'
<1>0. PICK p \in Pmts : p = th[a].pmt /\ th[a].at = "key"
  BY Placed, Ids DEF AddKey
<1>1. /\ th[a].at = "key" /\ p = th[a].pmt /\ AdapterOf[p] = a /\ ca' = ca /\ (~th[a].update) \in BOOLEAN
  BY <1>0, Placed, Ids DEF AddKey, Core, AtWork
<1>2. \A t \in Threads \ {a} : th[t].at \in {"key", "mask", "del", "close"} => th[t].pmt # p /\ th[t].pmt \in Pmts
  <2>1. Holds(Socket) # a
    BY <1>1 DEF Core, Excl
  <2>2. QED
    BY <1>1, <2>1, Placed, Ids DEF Core, AtWork, TearsDown, Holds
<1>3. CASE /\ LiveKey(p)
           /\ SendPmt([keys EXCEPT ![pmt[p].opaque].stop = "recent"], pmt[p].opaque, p, ~th[a].update)
           /\ th' = [th EXCEPT ![a].at = "mask"] /\ UNCHANGED <<pmt, struck>>
  <2>1. PICK k \in Keys : k = pmt[p].opaque
    BY <1>3 DEF LiveKey, Enabled
  <2> DEFINE ks == [keys EXCEPT ![k].stop = "recent"]
  <2>0. ks \in [Keys -> KeyType] /\ \A l \in Keys : SameFields(ks[l], keys[l])
    <3>1. keys \in [Keys -> KeyType]
      BY DEF Types
    <3>2. ks[k] = [keys[k] EXCEPT !.stop = "recent"] /\ \A l \in Keys \ {k} : ks[l] = keys[l]
      BY <3>1
    <3>4. ks[k] \in KeyType /\ SameFields(ks[k], keys[k])
      BY <3>1, <3>2, StopSet
    <3>5. QED
      BY <3>1, <3>2, <3>4 DEF SameFields
  <2> HIDE DEF ks
  <2>2. link'.sock = link.sock /\ \A l \in Keys : SameKey(l)
    <3>1. SendPmt(ks, k, p, ~th[a].update)
      BY <1>3, <2>1 DEF ks
    <3>2. link'.sock = link.sock /\ \A l \in Keys : SameFields(keys'[l], ks[l])
      BY <1>1, <2>0, <3>1, SendPmtKeeps DEF Types
    <3>3. QED
      BY <2>0, <3>2 DEF SameFields, SameKey
  <2>3. /\ th'[a].at = "mask" /\ th'[a].pmt = p /\ th'[a].stale = th[a].stale
        /\ \A u \in Threads \ {a} : th'[u] = th[u]
    <3>1. th[a] \in Sending
      BY <1>1, Ids DEF Types, Places, Sending, Deleting, Closing, Scans, Idle
    <3>2. QED
      BY <1>1, <1>3, <3>1, Ids DEF Types, Sending
  <2>10. LiveKey(p) /\ UNCHANGED <<pmt, struck>>
    BY <1>3
  <2>4. AtWork' /\ Alone' /\ Excl' /\ Owned'
    BY <1>1, <2>10, <2>2, <2>3, Ids DEF Core, AtWork, Alone, Excl, Owned, Holds, SameKey
  <2>5. TearsDown'
    BY <1>1, <2>10, <2>2, <2>3, Placed DEF Core, TearsDown, SameKey
  <2>6. /\ Scanning' <=> Scanning
        /\ \A q : BeingClosed(q) => BeingClosed(q)'
        /\ \A q \in Pmts : LiveKey(q) => LiveKey(q)'
    <3>1. (Scanning' <=> Scanning) /\ \A q : BeingClosed(q) => BeingClosed(q)'
      BY <1>1, <2>3, Ids DEF Scanning, BeingClosed
    <3>2. \A q \in Pmts : LiveKey(q) => LiveKey(q)'
      BY <2>2, <2>10 DEF LiveKey, Enabled, SameKey
    <3>3. QED
      BY <3>1, <3>2
  <2>7. Down' /\ OnTable'
    <3>1. \A b \in Adapters : (Sends(b)' <=> Sends(b)) /\ th'[b].stale = th[b].stale
      BY <1>1, <2>3, Ids DEF Sends
    <3>2. QED
      BY <1>1, <2>10, <2>2, <2>6, <3>1 DEF Core, Down, OnTable
  <2>8. Keyed'
    BY <1>1, <1>2, <2>10, <2>3, <2>6, Ids DEF Core, Keyed
  <2>9. QED
    BY <2>4, <2>5, <2>7, <2>8 DEF Core
<1>4. CASE /\ ~LiveKey(p) /\ FreeKeys # {}
           /\ SendPmt(keys_add(Min(FreeKeys), p), Min(FreeKeys), p, TRUE)
           /\ pmt' = [pmt EXCEPT ![p].opaque = Min(FreeKeys)]
           /\ th' = [th EXCEPT ![a].at = "mask"] /\ struck' = struck \ {p}
  <2>1. PICK k \in Keys : k = Min(FreeKeys) /\ ~keys[k].enabled /\ ~keys[k].allocated
    BY <1>4, FreeKey
  <2>2. /\ keys_add(k, p) \in [Keys -> KeyType]
        /\ \A l \in Keys \ {k} : keys_add(k, p)[l] = keys[l]
        /\ keys_add(k, p)[k].enabled /\ keys_add(k, p)[k].allocated
        /\ keys_add(k, p)[k].pmt = p /\ keys_add(k, p)[k].adapter = a
    <3>1. PICK n : n = [NewKey EXCEPT !.enabled = TRUE, !.allocated = TRUE, !.pmt = p, !.adapter = AdapterOf[p],
                                      !.stop = "recent"]
      OBVIOUS
    <3>2. n \in KeyType /\ n.enabled /\ n.allocated /\ n.pmt = p /\ n.adapter = a
      BY <1>1, <3>1, NewKeyType DEF KeyType
    <3>3. keys_add(k, p) = [keys EXCEPT ![k] = n]
      BY <3>1 DEF keys_add
    <3>4. QED
      BY <3>2, <3>3 DEF Types
  <2>3. /\ link'.sock = link.sock /\ \A l \in Keys \ {k} : SameKey(l)
        /\ keys'[k].enabled /\ keys'[k].allocated /\ keys'[k].pmt = p /\ keys'[k].adapter = a
    <3>1. SendPmt(keys_add(k, p), k, p, TRUE)
      BY <1>4, <2>1
    <3>2. link'.sock = link.sock /\ \A l \in Keys : SameFields(keys'[l], keys_add(k, p)[l])
      BY <1>1, <2>2, <3>1, SendPmtKeeps DEF Types
    <3>3. QED
      BY <2>2, <3>2 DEF SameFields, SameKey
  <2>4. /\ th'[a].at = "mask" /\ th'[a].pmt = p /\ th'[a].stale = th[a].stale
        /\ \A u \in Threads \ {a} : th'[u] = th[u]
    <3>1. th[a] \in Sending
      BY <1>1, Ids DEF Types, Places, Sending, Deleting, Closing, Scans, Idle
    <3>2. QED
      BY <1>1, <1>4, <3>1, Ids DEF Types, Sending
  <2>5. /\ pmt'[p].opaque = k /\ pmt'[p].reg = pmt[p].reg
        /\ \A q \in Pmts \ {p} : SamePmt(q)
    BY <1>1, <1>4, <2>1 DEF Types, PmtType, SamePmt
  <2>6. \A l \in Keys : keys[l].enabled => keys[l].pmt # p
    BY <1>1, <1>4 DEF Core, Owned, LiveKey, Enabled
  <2>7. AtWork' /\ Alone' /\ Excl'
    BY <1>1, <2>4, Ids DEF Core, AtWork, Alone, Excl, Holds
  <2>8. Owned'
    BY <1>1, <2>3, <2>5, <2>6 DEF Core, Owned, SameKey, SamePmt
  <2>9. TearsDown'
    <3> SUFFICES ASSUME NEW u \in Threads \ {a}, th'[u] = th[u]
                 PROVE  /\ th[u].at \in {"del", "close"} => th[u].ad = AdapterOf[th[u].pmt]
                        /\ th[u].at = "del" => /\ keys'[th[u].key].allocated /\ ~keys'[th[u].key].enabled
                                               /\ th[u].next = "close" => pmt'[th[u].pmt].opaque = th[u].key
      BY <2>4 DEF TearsDown
    <3>1. th[u].at = "del" => th[u].key \in Keys \ {k} /\ th[u].pmt \in Pmts \ {p}
      BY <1>2, <2>1, Placed DEF Core, TearsDown
    <3>2. QED
      BY <2>3, <2>5, <3>1 DEF Core, TearsDown, SameKey, SamePmt
  <2>10. /\ Scanning' <=> Scanning
         /\ \A q : BeingClosed(q) => BeingClosed(q)'
    BY <1>1, <2>4, Ids DEF Scanning, BeingClosed
  <2>11. /\ LiveKey(p)'
         /\ \A q \in Pmts \ {p} : LiveKey(q) => LiveKey(q)'
    <3>1. LiveKey(p)'
      BY <1>1, <2>1, <2>3, <2>5 DEF LiveKey, Enabled
    <3>2. ASSUME NEW q \in Pmts \ {p}, LiveKey(q)
          PROVE  LiveKey(q)'
      <4>1. pmt[q].opaque \in Keys \ {k}
        BY <2>1, <3>2 DEF LiveKey, Enabled
      <4>2. QED
        BY <2>3, <2>5, <3>2, <4>1 DEF LiveKey, Enabled, SameKey, SamePmt
    <3>3. QED
      BY <3>1, <3>2
  <2>12. Down' /\ OnTable'
    <3>1. \A b \in Adapters : (Sends(b)' <=> Sends(b)) /\ th'[b].stale = th[b].stale
      BY <1>1, <2>4, Ids DEF Sends
    <3>2. \A q \in Pmts : pmt'[q].reg = pmt[q].reg
      BY <2>5 DEF SamePmt
    <3>3. QED
      BY <1>1, <2>3, <2>10, <3>1, <3>2 DEF Core, Down, OnTable
  <2>13. Keyed'
    BY <1>1, <1>2, <1>4, <2>4, <2>5, <2>10, <2>11, Ids DEF Core, Keyed, SamePmt
  <2>14. QED
    BY <2>7, <2>8, <2>9, <2>12, <2>13 DEF Core
<1>5. CASE th' = [th EXCEPT ![a] = Idle] /\ UNCHANGED <<link, keys, pmt, struck>>
  <2>1. th'[a].at = "idle" /\ \A u \in Threads \ {a} : th'[u] = th[u]
    BY <1>5, Ids DEF Types, Idle
  <2>2. AtWork' /\ Alone' /\ Excl' /\ Owned' /\ TearsDown'
    BY <1>1, <1>5, <2>1, Ids DEF Core, AtWork, Alone, Excl, Owned, TearsDown, Holds
  <2>3. /\ Scanning' <=> Scanning
        /\ \A q : BeingClosed(q) => BeingClosed(q)'
        /\ \A q : LiveKey(q) => LiveKey(q)'
    BY <1>1, <1>5, <2>1, Ids DEF Scanning, BeingClosed, LiveKey, Enabled
  <2>4. Down' /\ OnTable' /\ Keyed'
    BY <1>1, <1>5, <2>1, <2>3, Ids DEF Core, Down, OnTable, Keyed, Sends
  <2>5. QED
    BY <2>2, <2>4 DEF Core
<1>6. QED
  BY <1>1, <1>3, <1>4, <1>5 DEF AddKey

-----------------------------------------------------------------------------
(* The socket's thread *)

LEMMA ConnectCore ==
    ASSUME Types, Core, Connect
    PROVE  Core'
<1>1. link'.sock = TRUE /\ ~Scanning /\ th' = th /\ UNCHANGED <<ca, keys, pmt, struck>>
  BY DEF Connect, Scanning, Idle
<1>2. AtWork' /\ Owned' /\ TearsDown' /\ Alone' /\ Excl' /\ OnTable' /\ (Scanning' <=> Scanning)
  BY <1>1 DEF Core, AtWork, Owned, TearsDown, Alone, Excl, OnTable, Holds, Sends, Scanning
<1>3. (\A q : BeingClosed(q)' = BeingClosed(q)) /\ \A q : LiveKey(q)' = LiveKey(q)
  BY <1>1 DEF BeingClosed, LiveKey, Enabled
<1>4. Down' /\ Keyed'
  BY <1>1, <1>2, <1>3 DEF Core, Down, Keyed
<1>5. QED
  BY <1>2, <1>4 DEF Core

LEMMA LinkLostCore ==
    ASSUME Types, Core, LinkLost
    PROVE  Core'
<1>1. link'.sock = FALSE /\ th[Socket].at = "idle" /\ UNCHANGED <<ca, keys, pmt, struck>>
  BY DEF LinkLost, NoLink, Idle
<1>2. th'[Socket].at = "scan" /\ \A a \in Adapters : th'[a] = th[a]
  BY Ids DEF LinkLost, Types
<1>3. AtWork' /\ Owned' /\ Excl' /\ OnTable' /\ Scanning'
  BY <1>1, <1>2, Ids DEF Core, AtWork, Owned, Excl, OnTable, Holds, Sends, Scanning
<1>4. TearsDown' /\ Alone'
  BY <1>1, <1>2, Ids DEF Core, TearsDown, Alone
<1>5. Down' /\ Keyed'
  BY <1>1, <1>3 DEF Down, Keyed
<1>6. QED
  BY <1>3, <1>4, <1>5 DEF Core

LEMMA CloseKeyCore ==
    ASSUME Types, Core, CloseKey
    PROVE  Core'
<1> DEFINE k == th[Socket].key
<1>1. th[Socket].at = "scan" /\ k \in Keys /\ UNCHANGED <<link, ca, pmt, struck>>
  BY DEF CloseKey
<1>2. CASE /\ Enabled(k) /\ Free(keys[k].adapter) /\ DelMark(Socket, k, keys[k].pmt, "scan")
  <2>1. keys[k].enabled /\ keys[k].pmt \in Pmts /\ keys[k].adapter = AdapterOf[keys[k].pmt]
    BY <1>1, <1>2 DEF Enabled, Core, Owned
  <2>2. th[AdapterOf[keys[k].pmt]].at = "idle"
    BY <1>2, <2>1 DEF Free, Idle
  <2>3. \A q \in Pmts : SamePmt(q)
    BY <1>1 DEF SamePmt
  <2>4. QED
    BY <1>1, <1>2, <2>1, <2>2, <2>3, DelStarts, Ids
<1>3. CASE th' = [th EXCEPT ![Socket].key = k + 1] /\ UNCHANGED keys
  <2>1. th[Socket] \in Scans
    BY <1>1, Ids DEF Types, Places, Sending, Deleting, Closing, Scans, Idle
  <2>2. th'[Socket].at = "scan" /\ \A a \in Adapters : th'[a] = th[a]
    BY <1>3, <2>1, Ids DEF Types, Scans
  <2>3. AtWork' /\ Owned' /\ Excl' /\ OnTable' /\ Scanning' /\ Scanning
    BY <1>1, <1>3, <2>2, Ids DEF Core, AtWork, Owned, Excl, OnTable, Holds, Sends, Scanning
  <2>4. TearsDown' /\ Alone'
    BY <1>1, <1>3, <2>2, Ids DEF Core, TearsDown, Alone
  <2>5. Down' /\ Keyed'
    BY <1>1, <2>3 DEF Core, Down, Keyed
  <2>6. QED
    BY <2>3, <2>4, <2>5 DEF Core
<1>4. QED
  BY <1>2, <1>3 DEF CloseKey

LEMMA IdleKeyCore ==
    ASSUME Types, Core, NEW k \in Keys, IdleKey(k)
    PROVE  Core'
<1>1. /\ th[Socket].at = "idle" /\ keys[k].enabled /\ keys[k].pmt \in Pmts /\ keys[k].adapter = AdapterOf[keys[k].pmt]
      /\ UNCHANGED <<link, ca, pmt, struck>>
  BY DEF IdleKey, Enabled, Core, Owned, Idle
<1>2. th[AdapterOf[keys[k].pmt]].at = "idle" /\ DelMark(Socket, k, keys[k].pmt, "idle")
  BY <1>1 DEF IdleKey, Free, Idle
<1>3. \A q \in Pmts : SamePmt(q)
  BY <1>1 DEF SamePmt
<1>4. QED
  BY <1>1, <1>2, <1>3, DelStarts, Ids

LEMMA IdleCloseCore ==
    ASSUME Types, Core, IdleClose
    PROVE  Core'
<1>1. PICK p \in Pmts : p = th[Socket].pmt /\ th[Socket].at = "close"
  BY Placed, Ids DEF IdleClose
<1>2. ClosePmt(Socket, p, pmt) /\ link' = link /\ ca' = ca
  BY <1>1 DEF IdleClose
<1>3. Mine(Socket, p) /\ Socket \in Threads /\ pmt \in [Pmts -> PmtType]
  BY <1>1, Ids DEF Mine, Types
<1>4. QED
  BY <1>1, <1>2, <1>3, ClosePmtCore

\* No program is registered any more, and every send that is under way is marked.
LEMMA AllTorn ==
    ASSUME Types, Core, NEW w \in [Threads -> Places], th' = Torn(w), pmt' = NoMasks, UNCHANGED <<keys, struck>>,
           th[Socket].at \in {"idle", "scan"}, w[Socket].at = "idle", \A a \in Adapters : w[a] = th[a],
           ca' = [on |-> FALSE, ads |-> {}] \/ ca' = [on |-> TRUE, ads |-> Adapters]
    PROVE  Core'
<1>1. \A t \in Threads : /\ w[t].at \notin {"key", "mask"} => th'[t] = w[t]
                         /\ w[t].at \in {"key", "mask"} => th'[t].stale = TRUE
                         /\ th'[t].at = w[t].at /\ th'[t].pmt = w[t].pmt
  BY TornKeeps
<1>2. /\ th'[Socket].at = "idle"
      /\ \A a \in Adapters : /\ th'[a].at = th[a].at /\ th'[a].pmt = th[a].pmt
                             /\ th[a].at \notin {"key", "mask"} => th'[a] = th[a]
                             /\ th[a].at \in {"key", "mask"} => th'[a].stale = TRUE
  BY <1>1, Ids
<1>3. \A p \in Pmts : pmt'[p].reg = FALSE /\ pmt'[p].opaque = pmt[p].opaque
  BY DEF NoMasks, Types, PmtType
<1>4. AtWork' /\ Excl'
  BY <1>2, Ids DEF Core, AtWork, Excl, Holds
<1>5. Owned'
  BY <1>3 DEF Core, Owned
<1>6. TearsDown' /\ Alone'
  BY <1>2, <1>3, Placed, Ids DEF Core, TearsDown, Alone
<1>7. ~Scanning'
  BY <1>2 DEF Scanning
<1>8. Down' /\ OnTable' /\ Keyed'
  BY <1>2, <1>3, <1>7 DEF Down, OnTable, Keyed, Sends
<1>9. QED
  BY <1>4, <1>5, <1>6, <1>8 DEF Core

LEMMA UnregisterCore ==
    ASSUME Types, Core, Unregister
    PROVE  Core'
<1>1. PICK w : w = [th EXCEPT ![Socket] = Idle]
  OBVIOUS
<1>2. w \in [Threads -> Places] /\ w[Socket].at = "idle" /\ \A a \in Adapters : w[a] = th[a]
  BY <1>1, Ids DEF Types, Places, Idle
<1>3. /\ th' = Torn(w) /\ pmt' = NoMasks /\ UNCHANGED <<keys, struck>> /\ th[Socket].at = "scan"
      /\ ca' = [on |-> FALSE, ads |-> {}]
  BY <1>1 DEF Unregister
<1>4. QED
  BY <1>2, <1>3, AllTorn

LEMMA ServerInfoCore ==
    ASSUME Types, Core, ServerInfo
    PROVE  Core'
<1>1. /\ th[Socket].at = "idle" /\ UNCHANGED <<keys, struck>> /\ link'.sock = link.sock
      /\ ca' = [on |-> TRUE, ads |-> Adapters]
  BY DEF ServerInfo, Reads, Idle, Types, LinkType
<1>2. CASE pmt' = NoMasks /\ th' = Torn(th)
  <2>1. th \in [Threads -> Places]
    BY DEF Types
  <2>2. QED
    BY <1>1, <1>2, <2>1, AllTorn
<1>3. CASE UNCHANGED <<pmt, th>>
  <2>1. AtWork' /\ Owned' /\ TearsDown' /\ Alone' /\ Excl' /\ (Scanning' <=> Scanning)
    BY <1>1, <1>3 DEF Core, AtWork, Owned, TearsDown, Alone, Excl, Holds, Scanning
  <2>2. (\A q : BeingClosed(q)' = BeingClosed(q)) /\ \A q : LiveKey(q)' = LiveKey(q)
    BY <1>1, <1>3 DEF BeingClosed, LiveKey, Enabled
  <2>3. Down' /\ Keyed'
    BY <1>1, <1>3, <2>1, <2>2 DEF Core, Down, Keyed, Sends
  <2>4. OnTable'
    BY <1>1, <1>3, Ids DEF OnTable
  <2>5. QED
    BY <2>1, <2>3, <2>4 DEF Core
<1>4. QED
  BY <1>2, <1>3 DEF ServerInfo

-----------------------------------------------------------------------------
(* Types *)

PmtsOK(pm) == pm \in [Pmts -> PmtType] /\ \A p \in Pmts : pm[p].content \in Contents[p]
KeyOK(r) == r \in KeyType /\ IsFiniteSet(r.filters) /\ r.ecms <= Cardinality(r.filters) /\ Cardinality(r.filters) <= MaxFilters
KeysOK(ks) == ks \in [Keys -> KeyType] /\ \A k \in Keys : KeyOK(ks[k])
ServerOK == srv \in SrvType /\ IsFiniteSet(srv.filters) /\ inq \in Seq(Msgs)
RestOK == /\ link \in LinkType /\ ca \in [on : BOOLEAN, ads : SUBSET Adapters] /\ limit \in Limits
          /\ demux \subseteq Adapters \X Pids \X Keys /\ struck \subseteq Pmts

LEMMA Parts == Types /\ CountOK <=> PmtsOK(pmt) /\ KeysOK(keys) /\ th \in [Threads -> Places] /\ ServerOK /\ RestOK
  BY DEF Types, CountOK, PmtsOK, KeysOK, KeyOK, ServerOK, RestOK

LEMMA MasksType ==
    ASSUME PmtsOK(pmt)
    PROVE  /\ PmtsOK(NoMasks)
           /\ \A p \in Pmts : \A pm : PmtsOK(pm) => PmtsOK(Unmasked(pm, p)) /\ PmtsOK([pm EXCEPT ![p].opaque = NoKey])
<1>1. PmtsOK(NoMasks)
  BY DEF PmtsOK, NoMasks, PmtType
<1>2. ASSUME NEW p \in Pmts, NEW pm, PmtsOK(pm)
      PROVE  PmtsOK(Unmasked(pm, p)) /\ PmtsOK([pm EXCEPT ![p].opaque = NoKey])
  <2> DEFINE r == [pm[p] EXCEPT !.opaque = NoKey, !.sent = FALSE, !.reg = FALSE]
             s == [pm[p] EXCEPT !.opaque = NoKey]
  <2>1. /\ r \in PmtType /\ r.content = pm[p].content
        /\ s \in PmtType /\ s.content = pm[p].content
    BY <1>2 DEF PmtsOK, PmtType
  <2>2. /\ [pm EXCEPT ![p].opaque = NoKey] = [pm EXCEPT ![p] = s]
        /\ Unmasked(pm, p) = [pm EXCEPT ![p] = r]
    BY <1>2 DEF PmtsOK, Unmasked
  <2> HIDE DEF r, s
  <2>3. QED
    BY <1>2, <2>1, <2>2 DEF PmtsOK
<1>3. QED
  BY <1>1, <1>2

LEMMA KeyPut ==
    ASSUME KeysOK(keys), NEW k \in Keys, NEW r, KeyOK(r)
    PROVE  KeysOK([keys EXCEPT ![k] = r])
  BY DEF KeysOK, KeyOK

LEMMA KeyTypes ==
    ASSUME KeysOK(keys), NEW k \in Keys
    PROVE  /\ KeysOK([keys EXCEPT ![k].enabled = FALSE])
           /\ KeysOK([keys EXCEPT ![k] = NewKey])
           /\ \A x \in {"none", "recent", "old"} : KeysOK([keys EXCEPT ![k].stop = x])
           /\ \A p \in Pmts : KeysOK(keys_add(k, p))
<1>1. KeysOK([keys EXCEPT ![k].enabled = FALSE])
  <2>1. KeyOK([keys[k] EXCEPT !.enabled = FALSE])
    BY DEF KeysOK, KeyOK, KeyType
  <2>2. [keys EXCEPT ![k].enabled = FALSE] = [keys EXCEPT ![k] = [keys[k] EXCEPT !.enabled = FALSE]]
    BY DEF KeysOK
  <2>3. QED
    BY <2>1, <2>2, KeyPut
<1>2. MaxFilters \in Nat /\ IsFiniteSet({}) /\ Cardinality({}) = 0
  BY DvbapiAssumption, FS_EmptySet
<1>3. KeysOK([keys EXCEPT ![k] = NewKey])
  <2>1. KeyOK(NewKey)
    BY <1>2, NewKeyType DEF KeyOK
  <2>2. QED
    BY <2>1, KeyPut
<1>4. ASSUME NEW x \in {"none", "recent", "old"}
      PROVE  KeysOK([keys EXCEPT ![k].stop = x])
  <2>1. [keys[k] EXCEPT !.stop = x] \in KeyType /\ SameFields([keys[k] EXCEPT !.stop = x], keys[k])
    BY StopSet DEF KeysOK
  <2>2. KeyOK([keys[k] EXCEPT !.stop = x])
    BY <2>1 DEF KeysOK, KeyOK, SameFields
  <2>3. [keys EXCEPT ![k].stop = x] = [keys EXCEPT ![k] = [keys[k] EXCEPT !.stop = x]]
    BY DEF KeysOK
  <2>4. QED
    BY <2>2, <2>3, KeyPut
<1>5. ASSUME NEW p \in Pmts
      PROVE  KeysOK(keys_add(k, p))
  <2> DEFINE n == [NewKey EXCEPT !.enabled = TRUE, !.allocated = TRUE, !.pmt = p, !.adapter = AdapterOf[p],
                                 !.stop = "recent"]
  <2>1. n \in KeyType /\ n.filters = {} /\ n.ecms = 0
    BY NewKeyType, Ids DEF KeyType
  <2>2. keys_add(k, p) = [keys EXCEPT ![k] = n]
    BY DEF keys_add
  <2> HIDE DEF n
  <2>3. KeyOK(n)
    BY <1>2, <2>1 DEF KeyOK
  <2>4. QED
    BY <2>2, <2>3, KeyPut
<1>6. QED
  BY <1>1, <1>3, <1>4, <1>5

LEMMA WriteFailsType ==
    ASSUME Types, WriteFails
    PROVE  ServerOK' /\ link' \in LinkType
  BY NoServerType DEF WriteFails, Types, LinkType, ServerOK

LEMMA ServerTypes ==
    ASSUME Types, CountOK, NEW k \in Keys, ServerSetFilter(k) \/ ServerStop(k)
    PROVE  ServerOK'
<1> USE DEF ServerOK
<1>1. CASE ServerSetFilter(k)
  <2> DEFINE pid == EcmPid[srv.pmts[k][1]]
  <2>1. srv.pmts[k] \in Pmts \X Nat
    BY <1>1 DEF ServerSetFilter, Types, SrvType
  <2>2. pid \in Pids
    BY <2>1, Ids
  <2> HIDE DEF pid
  <2>3. srv' = [srv EXCEPT !.filters = @ \cup {<<k, pid>>}] /\ inq' = Append(inq, [op |-> "set", key |-> k, pid |-> pid])
    BY <1>1 DEF ServerSetFilter, pid
  <2>4. IsFiniteSet(srv.filters \cup {<<k, pid>>})
    BY FS_AddElement DEF Types
  <2>5. srv' \in SrvType /\ IsFiniteSet(srv'.filters)
    BY <2>2, <2>3, <2>4 DEF Types, SrvType
  <2>6. inq' \in Seq(Msgs)
    BY <2>2, <2>3 DEF Types, Msgs
  <2>7. QED
    BY <2>5, <2>6
<1>2. CASE ServerStop(k)
  <2>1. OfKey(k) \subseteq srv.filters /\ srv.filters \subseteq Keys \X Pids /\ IsFiniteSet(srv.filters)
    BY DEF OfKey, Types, SrvType
  <2>2. IsFiniteSet(OfKey(k)) /\ IsFiniteSet(srv.filters \ OfKey(k))
    BY <2>1, FS_Subset
  <2>3. Stops(OfKey(k)) \in Seq(Msgs)
    BY <2>1, <2>2, StopsType
  <2>4. inq' = inq \o Stops(OfKey(k)) /\ srv' = [srv EXCEPT !.filters = @ \ OfKey(k)]
    BY <1>2 DEF ServerStop
  <2>5. srv' \in SrvType /\ IsFiniteSet(srv'.filters)
    BY <2>1, <2>2, <2>4 DEF Types, SrvType
  <2>6. inq' \in Seq(Msgs)
    BY <2>3, <2>4, ConcatProperties DEF Types
  <2>7. QED
    BY <2>5, <2>6
<1>3. QED
  BY <1>1, <1>2

LEMMA DelMarkTypes ==
    ASSUME Types, CountOK, NEW t \in Threads, NEW k \in Keys, NEW p \in Pmts, NEW next \in {"close", "scan", "idle"},
           DelMark(t, k, p, next)
    PROVE  KeysOK(keys)' /\ th' \in [Threads -> Places]
<1>1. KeysOK(keys)'
  BY Parts, KeyTypes DEF DelMark
<1>2. PICK d : /\ th' = [th EXCEPT ![t] = d]
               /\ d = [at |-> "del", key |-> k, pmt |-> p, ad |-> AdapterOf[p], next |-> next,
                       msg |-> IF \E o \in Keys \ {k} : Enabled(o) THEN {k} ELSE Keys]
  BY DEF DelMark
<1>3. d \in Deleting
  BY <1>2, Ids DEF Deleting
<1>4. QED
  BY <1>1, <1>2, <1>3 DEF Types, Places

LEMMA ClosePmtTypes ==
    ASSUME Types, CountOK, Owned, NEW t \in Threads, NEW p \in Pmts, NEW pm, PmtsOK(pm), ClosePmt(t, p, pm)
    PROVE  KeysOK(keys)' /\ th' \in [Threads -> Places] /\ PmtsOK(pmt)' /\ struck' \subseteq Pmts
<1> DEFINE w == [th EXCEPT ![t] = Idle]
<1>1. w \in [Threads -> Places] /\ Torn(w) \in [Threads -> Places] /\ PmtsOK(pmt) /\ KeysOK(keys) /\ struck \subseteq Pmts
  <2>1. w \in [Threads -> Places]
    BY DEF Types, Places
  <2>2. QED
    BY <2>1, TornKeeps, Parts DEF RestOK
<1>2. CASE pmt' = pm /\ th' = w /\ UNCHANGED <<keys, struck>>
  BY <1>1, <1>2
<1>3. CASE pmt' = Unmasked(pm, p) /\ th' = Torn(w) /\ struck' = struck \ {p} /\ UNCHANGED keys
  BY <1>1, <1>3, MasksType
<1>4. CASE /\ Enabled(pmt[p].opaque) /\ pmt' = pm /\ DelMark(t, pmt[p].opaque, p, "close")
           /\ struck' = struck \cup ({keys[pmt[p].opaque].pmt} \ {p})
  <2>1. PICK k \in Keys : k = pmt[p].opaque /\ keys[k].enabled
    BY <1>4 DEF Enabled
  <2>2. KeysOK(keys)' /\ th' \in [Threads -> Places]
    BY <1>4, <2>1, DelMarkTypes
  <2>3. QED
    BY <1>1, <1>4, <2>1, <2>2 DEF Owned
<1>5. QED
  BY <1>2, <1>3, <1>4 DEF ClosePmt

LEMMA DelFreeTypes ==
    ASSUME Types, CountOK, NEW t \in Threads, DelFree(t)
    PROVE  KeysOK(keys)' /\ PmtsOK(pmt)' /\ th' \in [Threads -> Places] /\ ServerOK'
           /\ link' \in LinkType /\ demux' \subseteq demux /\ struck' \subseteq struck
<1> DEFINE gone == {f \in srv.filters : f[1] \in th[t].msg}
<1>1. PICK k \in Keys, p \in Pmts :
          k = th[t].key /\ p = th[t].pmt /\ th[t].at = "del" /\ th[t].ad \in Adapters /\ k + 1 \in 1 .. MaxKeys + 1
  BY Placed, Ids DEF DelFree
<1>2. KeysOK(keys)'
  <2>1. keys' = [keys EXCEPT ![k] = NewKey]
    BY <1>1 DEF DelFree
  <2>2. QED
    BY <2>1, Parts, KeyTypes
<1>3. ServerOK' /\ link' \in LinkType
  <2>1. CASE UNCHANGED <<link, srv, inq>>
    BY <2>1 DEF Types, ServerOK
  <2>2. CASE /\ inq' = inq \o Stops(gone) /\ UNCHANGED link
             /\ srv' = [pmts |-> [d \in Keys |-> IF d \in th[t].msg THEN Nobody ELSE srv.pmts[d]],
                        filters |-> srv.filters \ gone]
    <3>1. gone \subseteq srv.filters /\ srv.filters \subseteq Keys \X Pids /\ IsFiniteSet(srv.filters)
      BY DEF Types, SrvType
    <3> HIDE DEF gone
    <3>2. IsFiniteSet(gone) /\ IsFiniteSet(srv.filters \ gone)
      BY <3>1, FS_Subset
    <3>3. Stops(gone) \in Seq(Msgs)
      BY <3>1, <3>2, StopsType
    <3>4. srv' \in SrvType /\ IsFiniteSet(srv'.filters)
      BY <2>2, <3>1, <3>2 DEF Types, SrvType
    <3>5. inq' \in Seq(Msgs)
      BY <2>2, <3>3, ConcatProperties DEF Types
    <3>6. QED
      BY <2>2, <3>4, <3>5 DEF Types, ServerOK
  <2>3. CASE WriteFails
    BY <2>3, WriteFailsType
  <2>4. QED
    BY <2>1, <2>2, <2>3 DEF DelFree
<1>4. demux' \subseteq demux
  BY DEF DelFree
<1>5. th \in [Threads -> Places] /\ PmtsOK(pmt) /\ AfterDel(t)
  BY Parts DEF DelFree
<1>6. CASE th' = [th EXCEPT ![t] = [at |-> "scan", key |-> th[t].key + 1]] /\ UNCHANGED <<pmt, struck>>
  <2>1. [at |-> "scan", key |-> th[t].key + 1] \in Places
    BY <1>1 DEF Places, Scans
  <2>2. QED
    BY <1>2, <1>3, <1>4, <1>5, <1>6, <2>1
<1>7. CASE th' = [th EXCEPT ![t] = [at |-> "close", pmt |-> th[t].pmt, ad |-> th[t].ad]] /\ UNCHANGED <<pmt, struck>>
  <2>1. [at |-> "close", pmt |-> th[t].pmt, ad |-> th[t].ad] \in Places
    BY <1>1 DEF Places, Closing
  <2>2. QED
    BY <1>2, <1>3, <1>4, <1>5, <1>7, <2>1
<1>8. CASE /\ struck' = struck \ {p}
           /\ \/ pmt' = Unmasked(pmt, p) /\ th' = Torn([th EXCEPT ![t] = Idle])
              \/ pmt' = [pmt EXCEPT ![p].opaque = NoKey] /\ th' = [th EXCEPT ![t] = Idle]
  <2>1. [th EXCEPT ![t] = Idle] \in [Threads -> Places]
    BY <1>5 DEF Places
  <2>2. th' \in [Threads -> Places]
    BY <1>8, <2>1, TornKeeps
  <2>3. PmtsOK(pmt)'
    <3>1. PmtsOK(Unmasked(pmt, p)) /\ PmtsOK([pmt EXCEPT ![p].opaque = NoKey])
      BY <1>5, MasksType
    <3>2. QED
      BY <1>8, <3>1
  <2>4. QED
    BY <1>2, <1>3, <1>4, <1>8, <2>2, <2>3
<1>9. QED
  BY <1>1, <1>5, <1>6, <1>7, <1>8 DEF AfterDel

LEMMA SendPmtTypes ==
    ASSUME Types, NEW ks, KeysOK(ks), NEW k \in Keys, NEW p \in Pmts, NEW force \in BOOLEAN, SendPmt(ks, k, p, force)
    PROVE  KeysOK(keys)' /\ ServerOK' /\ link' \in LinkType
<1>1. pmt \in [Pmts -> PmtType] /\ link \in LinkType /\ ks \in [Keys -> KeyType]
  BY DEF Types, KeysOK
<1>2. keys' \in [Keys -> KeyType] /\ link' \in LinkType /\ \A l \in Keys : SameFields(keys'[l], ks[l])
  BY <1>1, SendPmtKeeps
<1>3. KeysOK(keys)'
  BY <1>2 DEF KeysOK, KeyOK, SameFields
<1>4. ServerOK'
  <2>1. CASE UNCHANGED <<srv, inq>>
    BY <2>1 DEF Types, ServerOK
  <2>2. CASE srv' = [srv EXCEPT !.pmts[k] = Capmt(p)] /\ UNCHANGED inq
    <3>1. Capmt(p) \in Pmts \X Nat
      BY <1>1 DEF Capmt, PmtType
    <3> HIDE DEF Capmt
    <3>2. [srv.pmts EXCEPT ![k] = Capmt(p)] \in [Keys -> {Nobody} \cup (Pmts \X Nat)]
      BY <3>1 DEF Types, SrvType
    <3>3. srv' = [srv EXCEPT !.pmts = [srv.pmts EXCEPT ![k] = Capmt(p)]]
      BY <2>2 DEF Types, SrvType
    <3>4. srv' \in SrvType /\ srv'.filters = srv.filters
      BY <3>2, <3>3 DEF Types, SrvType
    <3>5. QED
      BY <2>2, <3>4 DEF Types, ServerOK
  <2>3. CASE WriteFails
    BY <2>3, WriteFailsType
  <2>4. QED
    BY <2>1, <2>2, <2>3 DEF SendPmt, WriteCapmt
<1>5. QED
  BY <1>2, <1>3, <1>4

LEMMA AddKeyTypes ==
    ASSUME Types, CountOK, NEW a \in Adapters, AddKey(a)
    PROVE  KeysOK(keys)' /\ PmtsOK(pmt)' /\ th' \in [Threads -> Places] /\ ServerOK'
           /\ link' \in LinkType /\ struck' \subseteq struck
<1>1. PICK p \in Pmts : p = th[a].pmt /\ th[a].at = "key" /\ (~th[a].update) \in BOOLEAN
  BY Placed, Ids DEF AddKey
<1>2. a \in Threads /\ KeysOK(keys) /\ PmtsOK(pmt) /\ ServerOK /\ th \in [Threads -> Places] /\ link \in LinkType
  BY Parts, Ids DEF RestOK
<1>3. th[a] \in Sending
  BY <1>1, <1>2 DEF Places, Sending, Deleting, Closing, Scans, Idle
<1>4. [th EXCEPT ![a].at = "mask"] \in [Threads -> Places] /\ [th EXCEPT ![a] = Idle] \in [Threads -> Places]
  <2>1. [th[a] EXCEPT !.at = "mask"] \in Places
    BY <1>3 DEF Sending, Places
  <2>2. QED
    BY <1>2, <2>1 DEF Places
<1>5. CASE /\ LiveKey(p)
           /\ SendPmt([keys EXCEPT ![pmt[p].opaque].stop = "recent"], pmt[p].opaque, p, ~th[a].update)
           /\ th' = [th EXCEPT ![a].at = "mask"] /\ UNCHANGED <<pmt, struck>>
  <2>1. PICK k \in Keys : k = pmt[p].opaque
    BY <1>5 DEF LiveKey, Enabled
  <2>2. KeysOK([keys EXCEPT ![k].stop = "recent"])
    BY <1>2, KeyTypes
  <2>3. KeysOK(keys)' /\ ServerOK' /\ link' \in LinkType
    BY <1>1, <1>5, <2>1, <2>2, SendPmtTypes
  <2>4. QED
    BY <1>2, <1>4, <1>5, <2>3
<1>6. CASE /\ FreeKeys # {}
           /\ SendPmt(keys_add(Min(FreeKeys), p), Min(FreeKeys), p, TRUE)
           /\ pmt' = [pmt EXCEPT ![p].opaque = Min(FreeKeys)]
           /\ th' = [th EXCEPT ![a].at = "mask"] /\ struck' = struck \ {p}
  <2>1. PICK k \in Keys : k = Min(FreeKeys)
    BY <1>6, FreeKey
  <2>2. KeysOK(keys_add(k, p))
    BY <1>2, KeyTypes
  <2>3. KeysOK(keys)' /\ ServerOK' /\ link' \in LinkType
    BY <1>6, <2>1, <2>2, SendPmtTypes
  <2>4. PmtsOK(pmt)'
    <3>1. [pmt[p] EXCEPT !.opaque = k] \in PmtType /\ [pmt[p] EXCEPT !.opaque = k].content = pmt[p].content
      BY <1>2 DEF PmtsOK, PmtType
    <3>2. pmt' = [pmt EXCEPT ![p] = [pmt[p] EXCEPT !.opaque = k]]
      BY <1>2, <1>6, <2>1 DEF PmtsOK
    <3>3. QED
      BY <1>2, <3>1, <3>2 DEF PmtsOK
  <2>5. QED
    BY <1>4, <1>6, <2>3, <2>4
<1>7. CASE th' = [th EXCEPT ![a] = Idle] /\ UNCHANGED <<link, srv, inq, keys, pmt, struck>>
  BY <1>2, <1>4, <1>7 DEF ServerOK
<1>8. QED
  BY <1>1, <1>5, <1>6, <1>7 DEF AddKey

SameOwner(r, s) == r.enabled = s.enabled /\ r.allocated = s.allocated /\ r.pmt = s.pmt /\ r.adapter = s.adapter

LEMMA FilterAdded ==
    ASSUME NEW r, KeyOK(r), NEW pid \in Pids, pid \notin r.filters, Cardinality(r.filters) < MaxFilters,
           NEW n, n = [r EXCEPT !.filters = @ \cup {pid}, !.ecms = @ + 1, !.stop = "recent"]
    PROVE  KeyOK(n) /\ SameOwner(n, r)
<1>1. r \in KeyType /\ r.ecms \in 0 .. MaxFilters /\ r.filters \subseteq Pids /\ MaxFilters \in Nat
      /\ IsFiniteSet(r.filters) /\ r.ecms <= Cardinality(r.filters)
  BY DvbapiAssumption DEF KeyOK, KeyType
<1>2. Cardinality(r.filters) \in Nat
  BY <1>1, FS_CardinalityType
<1>3. IsFiniteSet(r.filters \cup {pid}) /\ Cardinality(r.filters \cup {pid}) = Cardinality(r.filters) + 1
  BY <1>1, FS_AddElement
<1>4. r.ecms + 1 \in 0 .. MaxFilters /\ r.ecms + 1 <= Cardinality(r.filters) + 1
      /\ Cardinality(r.filters) + 1 <= MaxFilters
  BY <1>1, <1>2
<1>5. n.filters = r.filters \cup {pid} /\ n.ecms = r.ecms + 1 /\ SameOwner(n, r)
  BY <1>1 DEF KeyType, SameOwner
<1>6. n \in KeyType
  BY <1>1, <1>4 DEF KeyType
<1>7. QED
  BY <1>3, <1>4, <1>5, <1>6 DEF KeyOK

LEMMA FilterDropped ==
    ASSUME NEW r, KeyOK(r), NEW pid \in Pids,
           NEW n, n = [r EXCEPT !.filters = @ \ {pid}, !.ecms = IF @ > 0 THEN @ - 1 ELSE 0, !.stop = "recent"]
    PROVE  KeyOK(n) /\ SameOwner(n, r)
<1>1. r \in KeyType /\ r.ecms \in 0 .. MaxFilters /\ r.filters \subseteq Pids /\ MaxFilters \in Nat
      /\ IsFiniteSet(r.filters) /\ r.ecms <= Cardinality(r.filters) /\ Cardinality(r.filters) <= MaxFilters
  BY DvbapiAssumption DEF KeyOK, KeyType
<1>2. Cardinality(r.filters) \in Nat
  BY <1>1, FS_CardinalityType
<1>3. /\ IsFiniteSet(r.filters \ {pid})
      /\ Cardinality(r.filters \ {pid}) = IF pid \in r.filters THEN Cardinality(r.filters) - 1 ELSE Cardinality(r.filters)
  BY <1>1, FS_RemoveElement
<1>4. Cardinality(r.filters \ {pid}) \in Nat
  BY <1>3, FS_CardinalityType
<1>5. PICK e : e = IF r.ecms > 0 THEN r.ecms - 1 ELSE 0
  OBVIOUS
<1>6. e \in 0 .. MaxFilters /\ e <= Cardinality(r.filters \ {pid}) /\ Cardinality(r.filters \ {pid}) <= MaxFilters
  BY <1>1, <1>2, <1>3, <1>4, <1>5
<1>7. n = [r EXCEPT !.filters = r.filters \ {pid}, !.ecms = e, !.stop = "recent"]
  BY <1>1, <1>5
<1>8. n.filters = r.filters \ {pid} /\ n.ecms = e /\ SameOwner(n, r)
  BY <1>1, <1>7 DEF KeyType, SameOwner
<1>9. n \in KeyType
  <2>1. PICK g \in SUBSET Pids : g = r.filters \ {pid}
    BY <1>1
  <2>2. r \in KeyType /\ e \in 0 .. MaxFilters /\ n = [r EXCEPT !.filters = g, !.ecms = e, !.stop = "recent"]
    BY <1>1, <1>6, <1>7, <2>1
  <2>3. QED
    BY <2>2 DEF KeyType
<1>10. QED
  BY <1>3, <1>6, <1>8, <1>9 DEF KeyOK

\* the messages: SetFilter and DmxStop
LEMMA ReplyTypes ==
    ASSUME Types, CountOK, SetFilter \/ DmxStop
    PROVE  /\ KeysOK(keys)' /\ inq' \in Seq(Msgs) /\ \A k \in Keys : SameKey(k)
<1> DEFINE k == Head(inq).key
           pid == Head(inq).pid
           r == keys[k]
<1>1. inq # <<>> /\ inq' = Tail(inq) /\ Head(inq).op # "info"
  BY DEF SetFilter, DmxStop, Reads
<1>2. Head(inq) \in Msgs /\ inq' \in Seq(Msgs)
  BY <1>1, HeadTailProperties DEF Types
<1>3. k \in Keys /\ pid \in Pids
  BY <1>1, <1>2 DEF Msgs
<1>4. KeysOK(keys) /\ KeyOK(r) /\ keys \in [Keys -> KeyType] /\ r \in KeyType /\ MaxFilters \in Nat
  BY <1>3, Parts, DvbapiAssumption DEF KeysOK
<1>5. CASE UNCHANGED keys
  BY <1>2, <1>4, <1>5 DEF SameKey
<1>6. CASE /\ pid \notin r.filters /\ Cardinality(r.filters) < MaxFilters
           /\ keys' = [keys EXCEPT ![k].filters = @ \cup {pid}, ![k].ecms = @ + 1, ![k].stop = "recent"]
  <2>2. PICK n : n = [r EXCEPT !.filters = @ \cup {pid}, !.ecms = @ + 1, !.stop = "recent"]
    OBVIOUS
  <2>3. keys' = [keys EXCEPT ![k] = n]
    BY <1>3, <1>4, <1>6, <2>2
  <2>4. KeyOK(n) /\ SameOwner(n, r)
    BY <1>3, <1>4, <1>6, <2>2, FilterAdded
  <2>5. QED
    BY <1>2, <1>3, <1>4, <2>3, <2>4, KeyPut DEF SameKey, SameOwner
<1>7. CASE keys' = [keys EXCEPT ![k].filters = @ \ {pid}, ![k].ecms = IF @ > 0 THEN @ - 1 ELSE 0, ![k].stop = "recent"]
  <2>2. PICK n : n = [r EXCEPT !.filters = @ \ {pid}, !.ecms = IF @ > 0 THEN @ - 1 ELSE 0, !.stop = "recent"]
    OBVIOUS
  <2>3. keys' = [keys EXCEPT ![k] = n]
    BY <1>3, <1>4, <1>7, <2>2
  <2>4. KeyOK(n) /\ SameOwner(n, r)
    BY <1>3, <1>4, <2>2, FilterDropped
  <2>5. QED
    BY <1>2, <1>3, <1>4, <2>3, <2>4, KeyPut DEF SameKey, SameOwner
<1>8. QED
  BY <1>5, <1>6, <1>7 DEF SetFilter, DmxStop

-----------------------------------------------------------------------------
(* Every step *)

LEMMA InitInv == Init => DvbapiInv
<1> SUFFICES ASSUME Init
             PROVE  DvbapiInv
  OBVIOUS
<1>1. /\ \A k \in Keys : keys[k] = NewKey
      /\ \A t \in Threads : th[t] = Idle
      /\ \A p \in Pmts : pmt[p].reg = FALSE /\ pmt[p].opaque = NoKey
  BY DEF Init
<1>2. KeysOK(keys)
  <2>1. KeyOK(NewKey)
    BY NewKeyType, FS_EmptySet, DvbapiAssumption DEF KeyOK
  <2>2. QED
    BY <2>1, NewKeyType DEF KeysOK, Init
<1>3. PmtsOK(pmt)
  BY DvbapiAssumption DEF Init, PmtsOK, PmtType
<1>4. th \in [Threads -> Places] /\ ServerOK /\ RestOK
  BY NoServerType DEF Init, Places, ServerOK, RestOK, LinkType
<1>5. Types /\ CountOK
  BY <1>2, <1>3, <1>4, Parts
<1>6. \A t \in Threads : th[t].at = "idle"
  BY <1>1 DEF Idle
<1>7. AtWork /\ Owned /\ TearsDown /\ Alone /\ Excl /\ Down /\ OnTable /\ Keyed
  BY <1>1, <1>6, Ids, NewKeyType
     DEF AtWork, Owned, TearsDown, Alone, Excl, Down, OnTable, Keyed, Holds, Scanning, Sends
<1>8. QED
  BY <1>5, <1>7 DEF DvbapiInv, Core

LEMMA ServerStep ==
    ASSUME DvbapiInv, NEW k \in Keys, ServerSetFilter(k) \/ ServerStop(k), UNCHANGED limit
    PROVE  DvbapiInv'
<1> USE DEF DvbapiInv
<1>1. UNCHANGED <<link, ca, keys, pmt, th, demux, struck, limit>>
  BY DEF ServerSetFilter, ServerStop
<1>2. ServerOK'
  BY ServerTypes
<1>3. Types' /\ CountOK'
  BY <1>1, <1>2 DEF Types, CountOK, ServerOK
<1>4. Core'
  BY <1>1, CoreKept DEF SameKey, SamePmt
<1>5. QED
  BY <1>3, <1>4

LEMMA AgeStep ==
    ASSUME DvbapiInv, NEW k \in Keys, Age(k), UNCHANGED limit
    PROVE  DvbapiInv'
<1> USE DEF DvbapiInv
<1>1. UNCHANGED <<link, ca, pmt, th, srv, inq, demux, struck, limit>> /\ keys' = [keys EXCEPT ![k].stop = "old"]
  BY DEF Age
<1>2. KeysOK(keys)'
  BY <1>1, Parts, KeyTypes
<1>3. Types' /\ CountOK'
  BY <1>1, <1>2 DEF Types, CountOK, KeysOK, KeyOK
<1>4. \A l \in Keys : SameKey(l)
  BY <1>1 DEF Types, KeyType, SameKey
<1>5. Core'
  BY <1>1, <1>4, CoreKept DEF SamePmt
<1>6. QED
  BY <1>3, <1>5

LEMMA PmtStep ==
    ASSUME DvbapiInv, NEW p \in Pmts, StartPmt(p) \/ (\E c \in Contents[p] : NewVersion(p, c)), UNCHANGED limit
    PROVE  DvbapiInv'
<1> USE DEF DvbapiInv
<1>1. UNCHANGED <<link, ca, keys, th, srv, inq, demux, struck, limit>>
  BY DEF StartPmt, NewVersion
<1>2. PmtsOK(pmt)' /\ \A q \in Pmts : SamePmt(q)
  <2>1. CASE StartPmt(p)
    BY <2>1 DEF StartPmt, Types, PmtsOK, PmtType, SamePmt
  <2>2. ASSUME NEW c \in Contents[p], NewVersion(p, c)
        PROVE  PmtsOK(pmt)' /\ \A q \in Pmts : SamePmt(q)
    <3>1. c \in Nat
      BY DvbapiAssumption
    <3>2. PICK r : r = [pmt[p] EXCEPT !.content = c, !.sent = FALSE]
      OBVIOUS
    <3>3. pmt' = [pmt EXCEPT ![p] = r]
      BY <2>2, <3>2 DEF NewVersion, Types
    <3>4. r \in PmtType /\ r.content = c /\ r.reg = pmt[p].reg /\ r.opaque = pmt[p].opaque
      BY <3>1, <3>2 DEF Types, PmtType
    <3>5. QED
      BY <3>3, <3>4 DEF Types, PmtsOK, SamePmt
  <2>3. QED
    BY <2>1, <2>2
<1>3. Types' /\ CountOK'
  BY <1>1, <1>2 DEF Types, CountOK, PmtsOK
<1>4. Core'
  BY <1>1, <1>2, CoreKept DEF SameKey
<1>5. QED
  BY <1>3, <1>4

LEMMA CloseStep ==
    ASSUME DvbapiInv, (\E p \in Pmts : StopPmt(p) \/ Watchdog(p)) \/ IdleClose, UNCHANGED limit
    PROVE  DvbapiInv'
<1> USE DEF DvbapiInv
<1>1. UNCHANGED <<link, ca, srv, inq, demux, limit>>
  BY DEF StopPmt, Watchdog, IdleClose
<1>2. KeysOK(keys)' /\ th' \in [Threads -> Places] /\ PmtsOK(pmt)' /\ struck' \subseteq Pmts
  <2>1. PmtsOK(pmt) /\ Owned
    BY Parts DEF Core
  <2>2. ASSUME NEW p \in Pmts, StopPmt(p)
        PROVE  KeysOK(keys)' /\ th' \in [Threads -> Places] /\ PmtsOK(pmt)' /\ struck' \subseteq Pmts
    <3>1. PmtsOK([pmt EXCEPT ![p].run = FALSE])
      BY <2>1 DEF PmtsOK, PmtType
    <3>2. ClosePmt(AdapterOf[p], p, [pmt EXCEPT ![p].run = FALSE]) /\ AdapterOf[p] \in Threads
      BY <2>2, Ids DEF StopPmt
    <3>3. QED
      BY <2>1, <3>1, <3>2, ClosePmtTypes
  <2>3. ASSUME NEW p \in Pmts, Watchdog(p)
        PROVE  KeysOK(keys)' /\ th' \in [Threads -> Places] /\ PmtsOK(pmt)' /\ struck' \subseteq Pmts
    <3>1. ClosePmt(AdapterOf[p], p, pmt) /\ AdapterOf[p] \in Threads
      BY <2>3, Ids DEF Watchdog
    <3>2. QED
      BY <2>1, <3>1, ClosePmtTypes
  <2>4. ASSUME IdleClose
        PROVE  KeysOK(keys)' /\ th' \in [Threads -> Places] /\ PmtsOK(pmt)' /\ struck' \subseteq Pmts
    <3>1. PICK p \in Pmts : ClosePmt(Socket, p, pmt) /\ Socket \in Threads
      BY <2>4, Placed, Ids DEF IdleClose
    <3>2. QED
      BY <2>1, <3>1, ClosePmtTypes
  <2>5. QED
    BY <2>2, <2>3, <2>4
<1>3. Types' /\ CountOK'
  BY <1>1, <1>2 DEF Types, CountOK, KeysOK, KeyOK, PmtsOK
<1>4. Core'
  BY StopPmtCore, IdleCloseCore
<1>5. QED
  BY <1>3, <1>4

LEMMA DelFreeStep ==
    ASSUME DvbapiInv, NEW t \in Threads, DelFree(t), UNCHANGED limit
    PROVE  DvbapiInv'
<1> USE DEF DvbapiInv
<1>1. ca' = ca /\ limit' = limit
  BY DEF DelFree
<1>2. KeysOK(keys)' /\ PmtsOK(pmt)' /\ th' \in [Threads -> Places] /\ ServerOK'
      /\ link' \in LinkType /\ demux' \subseteq demux /\ struck' \subseteq struck
  BY DelFreeTypes
<1>3. RestOK'
  BY <1>1, <1>2 DEF Types, RestOK
<1>4. Types' /\ CountOK'
  BY <1>2, <1>3 DEF Types, CountOK, KeysOK, KeyOK, PmtsOK, ServerOK, RestOK
<1>5. QED
  BY <1>4, DelFreeCore

LEMMA SendStep ==
    ASSUME DvbapiInv, (\E p \in Pmts : SendCheck(p)) \/ (\E a \in Adapters : AddKey(a) \/ SetMask(a)), UNCHANGED limit
    PROVE  DvbapiInv'
<1> USE DEF DvbapiInv
<1>1. ASSUME NEW p \in Pmts, SendCheck(p)
      PROVE  DvbapiInv'
  <2>1. PICK s : /\ th' = [th EXCEPT ![AdapterOf[p]] = s]
                 /\ s = [at |-> "key", pmt |-> p, update |-> pmt[p].reg, stale |-> FALSE]
    BY <1>1 DEF SendCheck
  <2>2. s \in Sending
    BY <2>1 DEF Sending, Types, PmtType
  <2>3. th' \in [Threads -> Places]
    BY <2>1, <2>2 DEF Types, Places
  <2>4. UNCHANGED <<link, ca, keys, pmt, srv, inq, demux, struck, limit>>
    BY <1>1 DEF SendCheck
  <2>5. Types' /\ CountOK'
    BY <2>3, <2>4 DEF Types, CountOK
  <2>6. QED
    BY <1>1, <2>5, SendCheckCore
<1>2. ASSUME NEW a \in Adapters, AddKey(a)
      PROVE  DvbapiInv'
  <2>1. UNCHANGED <<ca, demux, limit>>
    BY <1>2 DEF AddKey
  <2>2. KeysOK(keys)' /\ PmtsOK(pmt)' /\ th' \in [Threads -> Places] /\ ServerOK'
        /\ link' \in LinkType /\ struck' \subseteq struck
    BY <1>2, AddKeyTypes
  <2>3. Types' /\ CountOK'
    BY <2>1, <2>2 DEF Types, CountOK, KeysOK, KeyOK, PmtsOK, ServerOK
  <2>4. QED
    BY <1>2, <2>3, AddKeyCore
<1>3. ASSUME NEW a \in Adapters, SetMask(a)
      PROVE  DvbapiInv'
  <2>1. UNCHANGED <<link, ca, keys, srv, inq, demux, limit>>
    BY <1>3 DEF SetMask
  <2>2. PICK p \in Pmts : p = th[a].pmt /\ th[a].stale \in BOOLEAN
    BY <1>3, Placed, Ids DEF SetMask
  <2>3. th' \in [Threads -> Places]
    BY <1>3 DEF SetMask, Types, Places
  <2>4. PmtsOK(pmt)'
    <3>1. PICK b \in BOOLEAN : pmt' = [pmt EXCEPT ![p].sent = @ \/ b, ![p].reg = @ \/ b]
      BY <1>3, <2>2 DEF SetMask
    <3>2. PICK r : r = [pmt[p] EXCEPT !.sent = @ \/ b, !.reg = @ \/ b]
      OBVIOUS
    <3>3. pmt' = [pmt EXCEPT ![p] = r]
      BY <3>1, <3>2 DEF Types
    <3>4. r \in PmtType /\ r.content = pmt[p].content
      BY <3>2 DEF Types, PmtType
    <3>5. QED
      BY <3>3, <3>4 DEF Types, PmtsOK
  <2>5. struck' \subseteq Pmts
    BY <1>3, <2>2 DEF SetMask, Types
  <2>6. Types' /\ CountOK'
    BY <2>1, <2>3, <2>4, <2>5 DEF Types, CountOK, PmtsOK
  <2>7. QED
    BY <1>3, <2>6, SetMaskCore
<1>4. QED
  BY <1>1, <1>2, <1>3

LEMMA SocketStep ==
    ASSUME DvbapiInv, Connect \/ LinkLost \/ CloseKey \/ Unregister \/ (\E k \in Keys : IdleKey(k)), UNCHANGED limit
    PROVE  DvbapiInv'
<1> USE DEF DvbapiInv
<1>0. Socket \in Threads /\ th \in [Threads -> Places] /\ PmtsOK(pmt)
  BY Ids, Parts
<1>1. ASSUME Connect
      PROVE  DvbapiInv'
  <2>1. UNCHANGED <<ca, keys, pmt, th, srv, demux, struck, limit>>
    BY <1>1 DEF Connect
  <2>2. link' \in LinkType
    <3>1. \A b, c, d \in BOOLEAN : [sock |-> b, enabled |-> c, force |-> d] \in LinkType
      BY DEF LinkType
    <3>2. QED
      BY <1>1, <3>1 DEF Connect
  <2>3. inq' \in Seq(Msgs)
    <3>1. PICK m \in Msgs : m = [op |-> "info", key |-> NoKey, pid |-> 0]
      BY DEF Msgs
    <3>2. <<m>> \in Seq(Msgs)
      OBVIOUS
    <3>3. QED
      BY <1>1, <3>1, <3>2 DEF Connect, Types
  <2>4. Types' /\ CountOK'
    BY <2>1, <2>2, <2>3 DEF Types, CountOK
  <2>5. QED
    BY <1>1, <2>4, ConnectCore
<1>2. ASSUME LinkLost
      PROVE  DvbapiInv'
  <2>1. UNCHANGED <<ca, keys, pmt, demux, struck, limit>>
    BY <1>2 DEF LinkLost
  <2>2. link' \in LinkType /\ inq' \in Seq(Msgs) /\ srv' \in SrvType /\ IsFiniteSet(srv'.filters)
    BY <1>2, NoServerType DEF LinkLost, NoLink, LinkType
  <2>3. [at |-> "scan", key |-> 1] \in Places
    BY DvbapiAssumption DEF Places, Scans
  <2>4. th' \in [Threads -> Places]
    BY <1>0, <1>2, <2>3 DEF LinkLost
  <2>5. Types' /\ CountOK'
    BY <2>1, <2>2, <2>4 DEF Types, CountOK
  <2>6. QED
    BY <1>2, <2>5, LinkLostCore
<1>3. ASSUME CloseKey \/ \E k \in Keys : IdleKey(k)
      PROVE  DvbapiInv'
  <2>1. UNCHANGED <<link, ca, pmt, srv, inq, demux, struck, limit>>
    BY <1>3 DEF CloseKey, IdleKey
  <2>2. KeysOK(keys)' /\ th' \in [Threads -> Places]
    <3>1. ASSUME NEW k \in Keys, NEW next \in {"scan", "idle"}, Enabled(k), DelMark(Socket, k, keys[k].pmt, next)
          PROVE  KeysOK(keys)' /\ th' \in [Threads -> Places]
      <4>1. keys[k].pmt \in Pmts
        BY <3>1 DEF Core, Owned, Enabled
      <4>2. QED
        BY <1>0, <3>1, <4>1, DelMarkTypes
    <3>2. ASSUME th[Socket].at = "scan", th[Socket].key \in Keys, th' = [th EXCEPT ![Socket].key = th[Socket].key + 1],
                 UNCHANGED keys
          PROVE  KeysOK(keys)' /\ th' \in [Threads -> Places]
      <4>1. th[Socket] \in Scans
        BY <1>0, <3>2 DEF Places, Sending, Deleting, Closing, Scans, Idle
      <4>2. [th[Socket] EXCEPT !.key = th[Socket].key + 1] \in Places
        BY <3>2, <4>1, Ids DEF Places, Scans
      <4>3. QED
        BY <1>0, <3>2, <4>2, Parts DEF Places
    <3>3. QED
      BY <1>3, <3>1, <3>2 DEF CloseKey, IdleKey
  <2>3. Types' /\ CountOK'
    BY <2>1, <2>2 DEF Types, CountOK, KeysOK, KeyOK
  <2>4. QED
    BY <1>3, <2>3, CloseKeyCore, IdleKeyCore
<1>4. ASSUME Unregister
      PROVE  DvbapiInv'
  <2>1. UNCHANGED <<link, keys, srv, inq, demux, struck, limit>> /\ ca' \in [on : BOOLEAN, ads : SUBSET Adapters]
    BY <1>4 DEF Unregister
  <2>2. [th EXCEPT ![Socket] = Idle] \in [Threads -> Places]
    BY <1>0 DEF Places
  <2>3. th' \in [Threads -> Places]
    BY <1>4, <2>2, TornKeeps DEF Unregister
  <2>4. PmtsOK(pmt')
    BY <1>0, <1>4, MasksType DEF Unregister
  <2>5. Types' /\ CountOK'
    BY <2>1, <2>3, <2>4 DEF Types, CountOK, PmtsOK
  <2>6. QED
    BY <1>4, <2>5, UnregisterCore
<1>5. QED
  BY <1>1, <1>2, <1>3, <1>4

LEMMA ReplyStep ==
    ASSUME DvbapiInv, Reply, UNCHANGED limit
    PROVE  DvbapiInv'
<1> USE DEF DvbapiInv
<1>1. CASE SetFilter \/ DmxStop
  <2>1. UNCHANGED <<link, ca, pmt, th, srv, struck, limit>>
    BY <1>1 DEF SetFilter, DmxStop
  <2>2. KeysOK(keys)' /\ inq' \in Seq(Msgs) /\ \A k \in Keys : SameKey(k)
    BY <1>1, ReplyTypes
  <2>3. demux' \subseteq Adapters \X Pids \X Keys
    <3>1. CASE demux' \subseteq demux
      BY <3>1 DEF Types
    <3>2. CASE /\ SetFilter /\ Enabled(Head(inq).key)
               /\ demux' = demux \cup {<<keys[Head(inq).key].adapter, Head(inq).pid, Head(inq).key>>}
      <4>1. inq # <<>> /\ Head(inq).op = "set"
        BY <3>2 DEF SetFilter, Reads
      <4>2. Head(inq) \in Msgs
        BY <4>1, HeadTailProperties DEF Types
      <4>3. Head(inq).key \in Keys /\ Head(inq).pid \in Pids /\ keys[Head(inq).key].enabled
        BY <3>2, <4>1, <4>2 DEF Msgs, Enabled
      <4>4. keys[Head(inq).key].adapter \in Adapters
        BY <4>3, Ids DEF Core, Owned
      <4>5. QED
        BY <3>2, <4>3, <4>4 DEF Types
    <3>3. QED
      BY <1>1, <3>1, <3>2 DEF SetFilter, DmxStop
  <2>4. Types' /\ CountOK'
    BY <2>1, <2>2, <2>3 DEF Types, CountOK, KeysOK, KeyOK
  <2>5. Core'
    BY <2>1, <2>2, CoreKept DEF SamePmt
  <2>6. QED
    BY <2>4, <2>5
<1>2. CASE ServerInfo
  <2>1. UNCHANGED <<keys, srv, demux, struck, limit>> /\ ca' \in [on : BOOLEAN, ads : SUBSET Adapters]
    BY <1>2 DEF ServerInfo
  <2>2. link' \in LinkType /\ inq' \in Seq(Msgs)
    BY <1>2, HeadTailProperties DEF ServerInfo, Reads, Types, LinkType
  <2>3. th \in [Threads -> Places] /\ PmtsOK(pmt)
    BY Parts
  <2>4. th' \in [Threads -> Places] /\ PmtsOK(pmt')
    BY <1>2, <2>3, TornKeeps, MasksType DEF ServerInfo
  <2>5. Types' /\ CountOK'
    BY <2>1, <2>2, <2>4 DEF Types, CountOK, PmtsOK
  <2>6. QED
    BY <1>2, <2>5, ServerInfoCore
<1>3. QED
  BY <1>1, <1>2 DEF Reply

LEMMA StaysStep == DvbapiInv /\ UNCHANGED vars => DvbapiInv'
<1> SUFFICES ASSUME DvbapiInv, UNCHANGED vars
             PROVE  DvbapiInv'
  OBVIOUS
<1>1. Types' /\ CountOK'
  BY DEF vars, DvbapiInv, Types, CountOK
<1>2. Core'
  BY CoreKept DEF vars, DvbapiInv, SameKey, SamePmt
<1>3. QED
  BY <1>1, <1>2 DEF DvbapiInv

LEMMA StepInv == DvbapiInv /\ [Next]_vars => DvbapiInv'
  BY ServerStep, AgeStep, PmtStep, CloseStep, DelFreeStep, SendStep, SocketStep, ReplyStep, StaysStep DEF Next, Steps

\* The inductive invariant of the keys, the programs, the threads and the CA table's entry.
THEOREM DvbapiInvariant == Spec => []DvbapiInv
  BY InitInv, StepInv, PTL DEF Spec

\* Every variable keeps its type; the count by which connect_dvbapi finds idle keys stays within
\* MAX_KEY_FILTERS, also when a DMX_STOP of an earlier program of the slot arrives.
THEOREM DvbapiTypeCorrect == Spec => []TypeOK
<1>1. DvbapiInv => TypeOK
  BY DEF DvbapiInv, Types, TypeOK, LinkType, KeyType, PmtType, Pids
<1>2. QED
  BY <1>1, DvbapiInvariant, PTL

\* While the connection lasts a registered program has a live key of its own, however sends, closes,
\* the watchdog, idle keys and reconnections interleave; `struck` is the one exception.
THEOREM DvbapiHasKey == Spec => []HasKey
<1>1. DvbapiInv => HasKey
  BY DEF DvbapiInv, Core, Down, Keyed, HasKey
<1>2. QED
  BY <1>1, DvbapiInvariant, PTL

\* A program has one key, however often it is sent again.
THEOREM DvbapiOneKey == Spec => []OneKey
<1>1. DvbapiInv => OneKey
  BY DEF DvbapiInv, Core, Owned, OneKey, Enabled
<1>2. QED
  BY <1>1, DvbapiInvariant, PTL

\* A key in teardown is not obtained again before it is freed, and one thread only tears it down.
THEOREM DvbapiTeardownAlone == Spec => []TeardownAlone
<1>1. DvbapiInv => TeardownAlone
  BY DEF DvbapiInv, Core, TearsDown, Alone, TeardownAlone, Enabled
<1>2. QED
  BY <1>1, DvbapiInvariant, PTL

-----------------------------------------------------------------------------
(* What the server knows, and the messages that are under way *)

Is(m, op, k, pid) == m.op = op /\ m.key = k /\ m.pid = pid
Asked(q, k, pid) == \E i \in 1 .. Len(q) : Is(q[i], "set", k, pid)
\* the last word of q on this filter is a stop
Stopped(q, k, pid) == \E j \in 1 .. Len(q) : Is(q[j], "stop", k, pid) /\ \A i \in j + 1 .. Len(q) : ~Is(q[i], "set", k, pid)

\* the key has the filter, or will have it once the messages are read; nothing it has stays
Calls(k, pid) == (keys[k].enabled /\ pid \in keys[k].filters) \/ Asked(inq, k, pid)
Quiet(k) == \A pid \in Pids : Calls(k, pid) => Stopped(inq, k, pid)

\* Over a connection that works, the server has every filter that a key has or will have, or has stopped it.
Up == link.sock /\ ~link.force
Tracked == Up => \A k \in Keys : \A pid \in Pids : Calls(k, pid) => <<k, pid>> \in srv.filters \/ Stopped(inq, k, pid)

\* The last CAPMT of a key is what the server knows under its number, or the stop of all programs took it and
\* the key's filters with it.
Known(k) == srv.pmts[k] = keys[k].hash \/ (srv.pmts[k] = Nobody /\ Quiet(k))
HashKnown == Up => \A k \in Keys : keys[k].enabled /\ keys[k].hash # Nobody => Known(k)

\* A program that counts as sent, or will, has been sent as it is now.
InMask(p) == th[AdapterOf[p]].at = "mask" /\ th[AdapterOf[p]].pmt = p
Fresh(p) == pmt[p].sent \/ (InMask(p) /\ ~th[AdapterOf[p]].stale)
Version == link.sock => \A p \in Pmts : LiveKey(p) /\ Fresh(p) => keys[pmt[p].opaque].hash = Capmt(p)

\* Without a connection nothing is known and nothing under way; a key that dvbapi_close has passed by is new.
Unscanned(k) == \/ th[Socket].at = "scan" /\ th[Socket].key <= k
                \/ th[Socket].at = "del" /\ th[Socket].next = "scan" /\ th[Socket].key < k
New(k) == keys[k].filters = {} /\ keys[k].hash = Nobody
DownFresh == ~link.sock =>
    /\ srv = NoServer /\ inq = <<>>
    /\ \A k \in Keys : keys[k].enabled => New(k) \/ Unscanned(k)
    /\ ~Scanning => ~ca.on /\ \A p \in Pmts : ~pmt[p].sent

\* connect_dvbapi closes the program of the key that it deleted: no other key is the program's.
Parted == \A t \in Threads : th[t].at = "close" \/ (th[t].at = "del" /\ th[t].next = "idle") =>
    \A k \in Keys : keys[k].enabled => keys[k].pmt # th[t].pmt

\* A live key whose program is not registered was made while the connection was closed: the server does not know it.
Silent(k) == srv.pmts[k] = Nobody /\ keys[k].filters = {} /\ \A pid \in Pids : ~Asked(inq, k, pid)
Orphans == link.sock => \A k \in Keys : keys[k].enabled =>
    pmt[keys[k].pmt].reg \/ InMask(keys[k].pmt) \/ keys[k].pmt \in struck \/ Silent(k)

\* The answer to the client's name is the first message, and the entry of the CA table is off until it is read.
InfoFirst == \A i \in 1 .. Len(inq) : inq[i].op = "info" => i = 1 /\ ~ca.on

MsgInv == Tracked /\ HashKnown /\ Version /\ DownFresh /\ Parted /\ Orphans /\ InfoFirst

\* Reading a message, asking for a filter and stopping filters: what becomes of the last word.
LEMMA Read ==
    ASSUME NEW q \in Seq(Msgs), q # <<>>, NEW k, NEW pid
    PROVE  /\ Asked(Tail(q), k, pid) => Asked(q, k, pid)
           /\ Is(Head(q), "set", k, pid) => Asked(q, k, pid)
           /\ Stopped(q, k, pid) => \/ Stopped(Tail(q), k, pid)
                                    \/ Is(Head(q), "stop", k, pid) /\ ~Asked(Tail(q), k, pid)
<1>1. /\ Head(q) = q[1] /\ Tail(q) \in Seq(Msgs) /\ Len(q) \in Nat \ {0} /\ Len(Tail(q)) = Len(q) - 1
      /\ \A i \in 1 .. Len(q) - 1 : Tail(q)[i] = q[i + 1]
  BY HeadTailProperties
<1>2. Asked(Tail(q), k, pid) => Asked(q, k, pid)
  <2>1. ASSUME NEW i \in 1 .. Len(Tail(q)), Is(Tail(q)[i], "set", k, pid)
        PROVE  Asked(q, k, pid)
    <3>1. i + 1 \in 1 .. Len(q) /\ Is(q[i + 1], "set", k, pid)
      BY <1>1, <2>1
    <3>2. QED
      BY <3>1 DEF Asked
  <2>2. QED
    BY <2>1 DEF Asked
<1>3. Is(Head(q), "set", k, pid) => Asked(q, k, pid)
  BY <1>1 DEF Asked
<1>4. ASSUME NEW j \in 1 .. Len(q), Is(q[j], "stop", k, pid), \A i \in j + 1 .. Len(q) : ~Is(q[i], "set", k, pid)
      PROVE  Stopped(Tail(q), k, pid) \/ (Is(Head(q), "stop", k, pid) /\ ~Asked(Tail(q), k, pid))
  <2>1. \A i \in 1 .. Len(Tail(q)) : i + 1 > j => ~Is(Tail(q)[i], "set", k, pid)
    BY <1>1, <1>4
  <2>2. CASE j = 1
    BY <1>1, <1>4, <2>1, <2>2 DEF Asked
  <2>3. CASE j > 1
    <3>1. j - 1 \in 1 .. Len(Tail(q)) /\ Is(Tail(q)[j - 1], "stop", k, pid)
      BY <1>1, <1>4, <2>3
    <3>2. \A i \in (j - 1) + 1 .. Len(Tail(q)) : ~Is(Tail(q)[i], "set", k, pid)
      BY <1>1, <2>1, <2>3
    <3>3. QED
      BY <3>1, <3>2 DEF Stopped
  <2>4. QED
    BY <2>2, <2>3
<1>5. QED
  BY <1>2, <1>3, <1>4 DEF Stopped

LEMMA Asks ==
    ASSUME NEW q \in Seq(Msgs), NEW m \in Msgs, NEW k, NEW pid, ~Is(m, "set", k, pid)
    PROVE  /\ Asked(Append(q, m), k, pid) => Asked(q, k, pid)
           /\ Stopped(q, k, pid) => Stopped(Append(q, m), k, pid)
<1>1. /\ Len(Append(q, m)) = Len(q) + 1 /\ Len(q) \in Nat /\ Append(q, m)[Len(q) + 1] = m
      /\ \A i \in 1 .. Len(q) : Append(q, m)[i] = q[i]
  BY AppendProperties
<1>2. Asked(Append(q, m), k, pid) => Asked(q, k, pid)
  BY <1>1 DEF Asked
<1>3. ASSUME NEW j \in 1 .. Len(q), Is(q[j], "stop", k, pid), \A i \in j + 1 .. Len(q) : ~Is(q[i], "set", k, pid)
      PROVE  Stopped(Append(q, m), k, pid)
  <2>1. j \in 1 .. Len(Append(q, m)) /\ Is(Append(q, m)[j], "stop", k, pid)
    BY <1>1, <1>3
  <2>2. \A i \in j + 1 .. Len(Append(q, m)) : ~Is(Append(q, m)[i], "set", k, pid)
    BY <1>1, <1>3
  <2>3. QED
    BY <2>1, <2>2 DEF Stopped
<1>4. QED
  BY <1>2, <1>3 DEF Stopped

LEMMA StopsHave ==
    ASSUME NEW fs, IsFiniteSet(fs), fs \subseteq Keys \X Pids
    PROVE  /\ Stops(fs) \in Seq(Msgs) /\ \A i \in 1 .. Len(Stops(fs)) : Stops(fs)[i].op = "stop"
           /\ \A k \in Keys : \A pid \in Pids : <<k, pid>> \in fs =>
                  \E i \in 1 .. Len(Stops(fs)) : Is(Stops(fs)[i], "stop", k, pid)
<1> DEFINE T == {[op |-> "stop", key |-> f[1], pid |-> f[2]] : f \in fs}
           g == [m \in T |-> <<m.key, m.pid>>]
           s == SetToSeq(T)
<1>1. g \in [T -> fs] /\ \A m, n \in T : g[m] = g[n] => m = n
  OBVIOUS
<1>2. g \in Injection(T, fs)
  BY <1>1 DEF Injection, IsInjective
<1>3. IsFiniteSet(T)
  BY <1>2, FS_Injection
<1>4. \A m \in T : m.op = "stop"
  OBVIOUS
<1>5. \A k \in Keys : \A pid \in Pids : <<k, pid>> \in fs => \E m \in T : Is(m, "stop", k, pid)
  <2>1. ASSUME NEW k \in Keys, NEW pid \in Pids, <<k, pid>> \in fs
        PROVE  \E m \in T : Is(m, "stop", k, pid)
    <3>1. [op |-> "stop", key |-> k, pid |-> pid] \in T
      BY <2>1
    <3>2. QED
      BY <3>1 DEF Is
  <2>2. QED
    BY <2>1
<1>6. Stops(fs) = s
  BY DEF Stops
<1> HIDE DEF T, g
<1>7. Cardinality(T) \in Nat /\ ExistsBijection(1 .. Cardinality(T), T)
  BY <1>3, FS_CardinalityType
<1>8. \E f \in [1 .. Cardinality(T) -> T] : IsInjective(f)
  BY <1>7 DEF ExistsBijection, Bijection, Injection
<1>9. s \in [1 .. Cardinality(T) -> T] /\ IsInjective(s)
  BY <1>8 DEF SetToSeq
<1>10. s \in Injection(1 .. Cardinality(T), T)
  BY <1>9 DEF Injection
<1>11. Cardinality(1 .. Cardinality(T)) = Cardinality(T)
  BY <1>7, FS_Interval
<1>12. s \in Surjection(1 .. Cardinality(T), T)
  BY <1>3, <1>10, <1>11, FS_Injection
<1>13. Len(s) = Cardinality(T) /\ \A m \in T : \E i \in 1 .. Cardinality(T) : s[i] = m
  <2>1. \A m \in T : \E i \in 1 .. Cardinality(T) : s[i] = m
    BY <1>12 DEF Surjection
  <2>2. s \in Seq(T) /\ Len(s) = Cardinality(T)
    BY <1>3, <1>7, <1>9, SetToSeqType
  <2>3. QED
    BY <2>1, <2>2
<1>14. \A i \in 1 .. Len(s) : s[i].op = "stop"
  BY <1>4, <1>9, <1>13
<1>15. ASSUME NEW k \in Keys, NEW pid \in Pids, <<k, pid>> \in fs
       PROVE  \E i \in 1 .. Len(s) : Is(s[i], "stop", k, pid)
  BY <1>5, <1>13, <1>15
<1>16. QED
  BY <1>6, <1>14, <1>15, StopsType

LEMMA StopsLast ==
    ASSUME NEW q \in Seq(Msgs), NEW fs, IsFiniteSet(fs), fs \subseteq Keys \X Pids, NEW k \in Keys, NEW pid \in Pids
    PROVE  /\ Asked(q \o Stops(fs), k, pid) => Asked(q, k, pid)
           /\ Stopped(q, k, pid) \/ <<k, pid>> \in fs => Stopped(q \o Stops(fs), k, pid)
<1> DEFINE s == Stops(fs)
<1>0. /\ s \in Seq(Msgs) /\ \A i \in 1 .. Len(s) : s[i].op = "stop"
      /\ <<k, pid>> \in fs => \E i \in 1 .. Len(s) : Is(s[i], "stop", k, pid)
  BY StopsHave
<1> HIDE DEF s
<1>1. /\ Len(q \o s) = Len(q) + Len(s) /\ Len(q) \in Nat /\ Len(s) \in Nat
      /\ \A i \in 1 .. Len(q \o s) : (q \o s)[i] = IF i <= Len(q) THEN q[i] ELSE s[i - Len(q)]
  BY <1>0, ConcatProperties
<1>2. \A i \in 1 .. Len(q \o s) : i > Len(q) => (q \o s)[i].op = "stop"
  BY <1>0, <1>1
<1>3. \A i \in 1 .. Len(q \o s) : Is((q \o s)[i], "set", k, pid) => i \in 1 .. Len(q) /\ Is(q[i], "set", k, pid)
  BY <1>1, <1>2 DEF Is
<1>4. Asked(q \o s, k, pid) => Asked(q, k, pid)
  BY <1>3 DEF Asked
<1>5. ASSUME NEW j \in 1 .. Len(q), Is(q[j], "stop", k, pid), \A i \in j + 1 .. Len(q) : ~Is(q[i], "set", k, pid)
      PROVE  Stopped(q \o s, k, pid)
  <2>1. j \in 1 .. Len(q \o s) /\ Is((q \o s)[j], "stop", k, pid)
    BY <1>1, <1>5
  <2>2. \A i \in j + 1 .. Len(q \o s) : ~Is((q \o s)[i], "set", k, pid)
    BY <1>1, <1>3, <1>5
  <2>3. QED
    BY <2>1, <2>2 DEF Stopped
<1>6. ASSUME NEW i \in 1 .. Len(s), Is(s[i], "stop", k, pid)
      PROVE  Stopped(q \o s, k, pid)
  <2>1. /\ Len(q) + i \in 1 .. Len(q \o s) /\ (q \o s)[Len(q) + i] = s[i]
    BY <1>1
  <2>2. \A n \in Len(q) + i + 1 .. Len(q \o s) : ~Is((q \o s)[n], "set", k, pid)
    BY <1>1, <1>3
  <2>3. QED
    BY <1>6, <2>1, <2>2 DEF Stopped
<1>7. QED
  BY <1>0, <1>4, <1>5, <1>6 DEF Stopped, s

-----------------------------------------------------------------------------
(* Steps that send nothing and read nothing *)

\* a key that lives did so before, with the same filters and the same last CAPMT
Same(k) == keys'[k].enabled =>
    /\ keys[k].enabled /\ keys'[k].pmt = keys[k].pmt /\ keys'[k].adapter = keys[k].adapter
    /\ keys'[k].filters = keys[k].filters /\ keys'[k].hash = keys[k].hash
Attached(p) == pmt[p].reg \/ InMask(p) \/ p \in struck

LEMMA QueueKept ==
    ASSUME Tracked, HashKnown, UNCHANGED <<srv, inq>>, Up' => Up, \A k \in Keys : Same(k)
    PROVE  Tracked' /\ HashKnown' /\ \A k \in Keys : keys'[k].enabled /\ Silent(k) => Silent(k)'
<1>1. \A k \in Keys : \A pid : Calls(k, pid)' => Calls(k, pid)
  BY DEF Calls, Same
<1>2. Tracked'
  BY <1>1 DEF Tracked
<1>3. \A k \in Keys : Quiet(k) => Quiet(k)'
  BY <1>1 DEF Quiet
<1>4. HashKnown'
  BY <1>3 DEF HashKnown, Known, Same
<1>5. \A k \in Keys : keys'[k].enabled /\ Silent(k) => Silent(k)'
  BY DEF Silent, Same
<1>6. QED
  BY <1>2, <1>4, <1>5

LEMMA VersionKept ==
    ASSUME Types, Version, link'.sock => link.sock, \A k \in Keys : Same(k),
           \A p \in Pmts : LiveKey(p)' => /\ pmt'[p].opaque = pmt[p].opaque
                                          /\ Fresh(p)' => Fresh(p) /\ pmt'[p].content = pmt[p].content
    PROVE  Version'
<1> SUFFICES ASSUME link'.sock, NEW p \in Pmts, LiveKey(p)', Fresh(p)'
             PROVE  keys'[pmt'[p].opaque].hash = Capmt(p)'
  BY DEF Version
<1>1. pmt'[p].opaque = pmt[p].opaque /\ Fresh(p) /\ pmt'[p].content = pmt[p].content
  OBVIOUS
<1>2. pmt[p].opaque \in Keys /\ keys'[pmt[p].opaque].enabled
  BY <1>1 DEF LiveKey, Enabled
<1>3. LiveKey(p)
  BY <1>1, <1>2 DEF LiveKey, Enabled, Same
<1>4. keys[pmt[p].opaque].hash = Capmt(p)
  BY <1>1, <1>3 DEF Version
<1>5. QED
  BY <1>1, <1>2, <1>4 DEF Same, Capmt

LEMMA OrphansKept ==
    ASSUME Types, Core, Orphans, link'.sock => link.sock,
           \A k \in Keys : Same(k) /\ (keys'[k].enabled /\ Silent(k) => Silent(k)'),
           \A k \in Keys : keys'[k].enabled /\ Attached(keys[k].pmt) => Attached(keys[k].pmt)'
    PROVE  Orphans'
  BY DEF Orphans, Attached, Same

\* What a step does to keys, programs and threads, so far as the other parts depend on it.
Rest == /\ \A p \in Pmts : LiveKey(p)' => /\ pmt'[p].opaque = pmt[p].opaque
                                          /\ Fresh(p)' => Fresh(p) /\ pmt'[p].content = pmt[p].content
        /\ link.sock => \A k \in Keys : keys'[k].enabled /\ Attached(keys[k].pmt) => Attached(keys[k].pmt)'
        /\ ~link.sock => /\ \A k \in Keys : keys'[k].enabled /\ Unscanned(k) => Unscanned(k)'
                         /\ ~Scanning' => ~ca'.on /\ \A p \in Pmts : ~pmt'[p].sent
        /\ Parted'

LEMMA MsgRest ==
    ASSUME Types, Core, MsgInv, link'.sock = link.sock, \A k \in Keys : Same(k), Rest,
           Tracked', HashKnown', \A k \in Keys : keys'[k].enabled /\ Silent(k) => Silent(k)', InfoFirst',
           ~link.sock => UNCHANGED <<srv, inq>>
    PROVE  MsgInv'
<1> USE DEF MsgInv
<1>1. Version'
  BY VersionKept DEF Rest
<1>2. Orphans'
  <2>1. CASE link.sock
    BY <2>1, OrphansKept DEF Rest
  <2>2. CASE ~link.sock
    BY <2>2 DEF Orphans
  <2>3. QED
    BY <2>1, <2>2
<1>3. DownFresh'
  BY DEF DownFresh, Same, New, Rest
<1>4. QED
  BY <1>1, <1>2, <1>3 DEF Rest

\* Nothing is sent and nothing is read.
LEMMA MsgKept ==
    ASSUME Types, Core, MsgInv, UNCHANGED <<srv, inq>>, link'.sock = link.sock, Up' => Up, ca'.on => ca.on,
           \A k \in Keys : Same(k), Rest
    PROVE  MsgInv'
<1>1. Tracked' /\ HashKnown' /\ \A k \in Keys : keys'[k].enabled /\ Silent(k) => Silent(k)'
  BY QueueKept DEF MsgInv
<1>2. InfoFirst'
  BY DEF MsgInv, InfoFirst
<1>3. QED
  BY <1>1, <1>2, MsgRest

\* The end of close_pmt_for_ca, by thread t.
LEMMA CloseEndsRest ==
    ASSUME Types, Core, MsgInv, NEW t \in Threads, NEW p \in Pmts, Mine(t, p), th[t].at = "del" => th[t].next = "close",
           ~Enabled(pmt[p].opaque), th'[t].at = "idle", \A u \in Threads \ {t} : TornOrSame(u),
           \A q \in Pmts \ {p} : /\ pmt'[q].reg = pmt[q].reg /\ pmt'[q].opaque = pmt[q].opaque
                                  /\ pmt'[q].sent = pmt[q].sent /\ pmt'[q].content = pmt[q].content,
           pmt'[p].opaque = NoKey, pmt'[p].sent => pmt[p].sent,
           \A k \in Keys : Same(k), ca' = ca, struck' = struck \ {p}
    PROVE  Rest
<1>1. /\ t = Socket => ~Scanning
      /\ ~link.sock /\ ~Scanning => ~ca.on /\ \A q \in Pmts : ~pmt[q].sent
      /\ th[t].at \notin {"mask", "key", "scan"}
  BY Ids DEF Mine, Scanning, MsgInv, DownFresh
<1>2. ~LiveKey(p)'
  BY Ids DEF LiveKey, Enabled
<1>3. \A l \in Keys : keys[l].enabled => keys[l].pmt \in Pmts \ {p}
  BY DEF Core, Owned, Enabled
<1>4. \A q \in Pmts : /\ InMask(q) => InMask(q)'
                      /\ InMask(q)' => InMask(q) /\ (~th'[AdapterOf[q]].stale => ~th[AdapterOf[q]].stale)
  BY <1>1, Placed, Ids DEF InMask, TornOrSame
<1>5. \A q \in Pmts \ {p} : Fresh(q)' => Fresh(q)
  BY <1>4 DEF Fresh
<1>6. \A q \in Pmts \ {p} : Attached(q) => Attached(q)'
  BY <1>4 DEF Attached
<1>7. (Scanning' <=> Scanning) /\ \A l \in Keys : Unscanned(l) => Unscanned(l)'
  <2>1. CASE t = Socket
    BY <1>1, <2>1 DEF Scanning, Unscanned
  <2>2. CASE t # Socket
    <3>1. th'[Socket] = th[Socket]
      BY <2>2, Ids DEF TornOrSame, Core, AtWork
    <3>2. QED
      BY <3>1 DEF Scanning, Unscanned
  <2>3. QED
    BY <2>1, <2>2
<1>8. Parted'
  <2>1. \A u \in Threads : th'[u].at \in {"close", "del"} => th'[u] = th[u]
    BY DEF TornOrSame
  <2>2. Parted
    BY DEF MsgInv
  <2>3. QED
    BY <2>1, <2>2 DEF Parted, Same
<1>9. \A l \in Keys : keys'[l].enabled /\ Attached(keys[l].pmt) => Attached(keys[l].pmt)'
  BY <1>3, <1>6 DEF Same
<1>10. \A q \in Pmts : pmt'[q].sent => pmt[q].sent
  OBVIOUS
<1>11. QED
  BY <1>1, <1>2, <1>5, <1>7, <1>8, <1>9, <1>10 DEF Rest

\* close_pmt_for_ca
LEMMA ClosePmtMsg ==
    ASSUME Types, Core, MsgInv, NEW t \in Threads, NEW p \in Pmts, Mine(t, p), th[t].at # "del",
           NEW pm, PmtsOK(pm), \A q \in Pmts : /\ pm[q].reg = pmt[q].reg /\ pm[q].opaque = pmt[q].opaque
                                               /\ pm[q].sent = pmt[q].sent /\ pm[q].content = pmt[q].content,
           ClosePmt(t, p, pm), UNCHANGED <<link, ca, srv, inq>>
    PROVE  MsgInv'
<1> DEFINE k == pmt[p].opaque
<1>1. /\ t = Socket => ~Scanning
      /\ ~link.sock /\ ~Scanning => ~ca.on /\ \A q \in Pmts : ~pmt[q].sent
      /\ th[t].at \notin {"mask", "key", "scan"}
  BY Ids DEF Mine, Scanning, MsgInv, DownFresh
<1>2. CASE pmt' = pm /\ th' = [th EXCEPT ![t] = Idle] /\ UNCHANGED <<keys, struck>>
  <2>1. th'[t].at = "idle" /\ \A u \in Threads \ {t} : th'[u] = th[u]
    BY <1>2 DEF Types, Idle
  <2>2. \A l \in Keys : Same(l)
    BY <1>2 DEF Same
  <2>3. \A q \in Pmts : (InMask(q)' <=> InMask(q)) /\ (Fresh(q)' <=> Fresh(q)) /\ (Attached(q) <=> Attached(q)')
    BY <1>1, <1>2, <2>1, Ids DEF InMask, Fresh, Attached
  <2>4. (Scanning' <=> Scanning) /\ \A l \in Keys : Unscanned(l) => Unscanned(l)'
    BY <1>1, <2>1, Ids DEF Scanning, Unscanned
  <2>5. Parted'
    BY <1>2, <2>1 DEF MsgInv, Parted
  <2>6. \A l \in Keys : keys[l].enabled => keys[l].pmt \in Pmts
    BY DEF Core, Owned
  <2>7. QED
    BY <1>1, <1>2, <2>2, <2>3, <2>4, <2>5, <2>6, MsgKept DEF Up, Rest
<1>3. CASE /\ ~Enabled(k) /\ pmt' = Unmasked(pm, p) /\ th' = Torn([th EXCEPT ![t] = Idle])
           /\ struck' = struck \ {p} /\ UNCHANGED keys
  <2>1. th'[t].at = "idle" /\ \A u \in Threads \ {t} : TornOrSame(u)
    BY <1>3, Ends
  <2>2. \A l \in Keys : Same(l)
    BY <1>3 DEF Same
  <2>3. /\ \A q \in Pmts \ {p} : pmt'[q] = pm[q]
        /\ pmt'[p].opaque = NoKey /\ pmt'[p].sent = FALSE
    BY <1>3 DEF PmtsOK, Unmasked, PmtType
  <2>4. Rest
    BY <1>3, <2>1, <2>2, <2>3, CloseEndsRest
  <2>5. QED
    BY <1>3, <2>2, <2>4, MsgKept DEF Up
<1>4. CASE /\ Enabled(k) /\ pmt' = pm /\ DelMark(t, k, p, "close") /\ struck' = struck \cup ({keys[k].pmt} \ {p})
  <2>0. k \in Keys
    BY <1>4 DEF Enabled
  <2>1. /\ th'[t].at = "del" /\ th'[t].next = "close" /\ \A u \in Threads \ {t} : th'[u] = th[u]
        /\ ~keys'[k].enabled /\ \A l \in Keys \ {k} : keys'[l] = keys[l]
    BY <1>4, <2>0 DEF Types, KeyType, DelMark
  <2>2. \A l \in Keys : Same(l)
    BY <2>1 DEF Same
  <2>3. \A q \in Pmts : (InMask(q)' <=> InMask(q)) /\ (Fresh(q)' <=> Fresh(q)) /\ (Attached(q) => Attached(q)')
    BY <1>1, <1>4, <2>1, Ids DEF InMask, Fresh, Attached
  <2>4. (Scanning' <=> Scanning) /\ \A l \in Keys : Unscanned(l) => Unscanned(l)'
    BY <1>1, <2>1, Ids DEF Scanning, Unscanned
  <2>5. Parted'
    BY <2>1 DEF MsgInv, Parted
  <2>6. \A l \in Keys : keys[l].enabled => keys[l].pmt \in Pmts
    BY DEF Core, Owned
  <2>8. \A q \in Pmts : pmt'[q].opaque = pmt[q].opaque /\ pmt'[q].content = pmt[q].content /\ pmt'[q].sent = pmt[q].sent
    BY <1>4
  <2>9. link.sock => \A l \in Keys : keys'[l].enabled /\ Attached(keys[l].pmt) => Attached(keys[l].pmt)'
    BY <2>2, <2>3, <2>6 DEF Same
  <2>10. \A q \in Pmts : LiveKey(q)' => /\ pmt'[q].opaque = pmt[q].opaque
                                        /\ Fresh(q)' => Fresh(q) /\ pmt'[q].content = pmt[q].content
    BY <2>3, <2>8
  <2>11. ~link.sock => /\ \A l \in Keys : keys'[l].enabled /\ Unscanned(l) => Unscanned(l)'
                       /\ ~Scanning' => ~ca'.on /\ \A q \in Pmts : ~pmt'[q].sent
    BY <1>1, <2>4, <2>8
  <2>12. (Up' => Up) /\ link'.sock = link.sock /\ (ca'.on => ca.on)
    BY DEF Up
  <2>13. QED
    BY <2>2, <2>5, <2>9, <2>10, <2>11, <2>12, MsgKept DEF Rest
<1>5. QED
  BY <1>2, <1>3, <1>4 DEF ClosePmt

LEMMA CloseMsg ==
    ASSUME DvbapiInv, MsgInv, (\E p \in Pmts : StopPmt(p) \/ Watchdog(p)) \/ IdleClose
    PROVE  MsgInv'
<1> USE DEF DvbapiInv
<1>0. PmtsOK(pmt)
  BY Parts
<1>1. ASSUME NEW p \in Pmts, StopPmt(p) \/ Watchdog(p)
      PROVE  MsgInv'
  <2>1. /\ Free(AdapterOf[p]) /\ AdapterOf[p] \in Threads /\ UNCHANGED <<link, ca, srv, inq>>
    BY <1>1, Ids DEF StopPmt, Watchdog
  <2>2. Mine(AdapterOf[p], p) /\ th[AdapterOf[p]].at # "del"
    BY <2>1, Ids DEF Mine, Free, Idle
  <2>3. PICK pm : /\ ClosePmt(AdapterOf[p], p, pm) /\ PmtsOK(pm)
                  /\ \A q \in Pmts : /\ pm[q].reg = pmt[q].reg /\ pm[q].opaque = pmt[q].opaque
                                     /\ pm[q].sent = pmt[q].sent /\ pm[q].content = pmt[q].content
    <3>1. CASE StopPmt(p)
      <4>1. PICK pm : pm = [pmt EXCEPT ![p].run = FALSE]
        OBVIOUS
      <4>2. /\ PmtsOK(pm)
            /\ \A q \in Pmts : /\ pm[q].reg = pmt[q].reg /\ pm[q].opaque = pmt[q].opaque
                               /\ pm[q].sent = pmt[q].sent /\ pm[q].content = pmt[q].content
        BY <1>0, <4>1 DEF PmtsOK, PmtType
      <4>3. ClosePmt(AdapterOf[p], p, pm)
        BY <3>1, <4>1 DEF StopPmt
      <4>4. QED
        BY <4>2, <4>3
    <3>2. CASE Watchdog(p)
      BY <1>0, <3>2 DEF Watchdog
    <3>3. QED
      BY <1>1, <3>1, <3>2
  <2>4. QED
    BY <2>1, <2>2, <2>3, ClosePmtMsg
<1>2. ASSUME IdleClose
      PROVE  MsgInv'
  <2>1. PICK p \in Pmts : p = th[Socket].pmt /\ th[Socket].at = "close"
    BY <1>2, Placed, Ids DEF IdleClose
  <2>2. ClosePmt(Socket, p, pmt) /\ UNCHANGED <<link, ca, srv, inq>>
    BY <1>2, <2>1 DEF IdleClose
  <2>3. Mine(Socket, p) /\ Socket \in Threads
    BY <2>1, Ids DEF Mine
  <2>4. QED
    BY <1>0, <2>1, <2>2, <2>3, ClosePmtMsg
<1>3. QED
  BY <1>1, <1>2

LEMMA PmtChanges ==
    ASSUME Types, NEW p \in Pmts, StartPmt(p) \/ (\E c \in Contents[p] : NewVersion(p, c))
    PROVE  /\ \A q \in Pmts : pmt'[q].opaque = pmt[q].opaque /\ pmt'[q].reg = pmt[q].reg
           /\ \A q \in Pmts : pmt'[q].sent => pmt[q].sent /\ pmt'[q].content = pmt[q].content
           /\ \A q \in Pmts : q # p => pmt'[q] = pmt[q]
<1>1. CASE StartPmt(p)
  BY <1>1 DEF StartPmt, Types, PmtType
<1>2. ASSUME NEW c \in Contents[p], NewVersion(p, c)
      PROVE  /\ \A q \in Pmts : q # p => pmt'[q] = pmt[q]
             /\ pmt'[p].opaque = pmt[p].opaque /\ pmt'[p].reg = pmt[p].reg /\ pmt'[p].sent = FALSE
  <2>1. c \in Nat
    BY DvbapiAssumption
  <2>2. PICK r : r = [pmt[p] EXCEPT !.content = c, !.sent = FALSE]
    OBVIOUS
  <2>3. pmt' = [pmt EXCEPT ![p] = r]
    BY ONLY <1>2, <2>2, Types DEF NewVersion, Types
  <2>4. r.opaque = pmt[p].opaque /\ r.reg = pmt[p].reg /\ r.sent = FALSE
    BY <2>1, <2>2 DEF Types, PmtType
  <2>5. QED
    BY <2>3, <2>4 DEF Types
<1>3. QED
  BY <1>1, <1>2

LEMMA PmtMsg ==
    ASSUME DvbapiInv, MsgInv, NEW p \in Pmts, StartPmt(p) \/ (\E c \in Contents[p] : NewVersion(p, c))
    PROVE  MsgInv'
<1> USE DEF DvbapiInv
<1>1. UNCHANGED <<link, ca, keys, th, srv, inq, struck>> /\ th[AdapterOf[p]].at = "idle"
  <2>1. UNCHANGED <<link, ca, keys, th, srv, inq, struck>> /\ Free(AdapterOf[p])
    BY DEF StartPmt, NewVersion
  <2>2. QED
    BY <2>1 DEF Free, Idle
<1>2. /\ \A q \in Pmts : pmt'[q].opaque = pmt[q].opaque /\ pmt'[q].reg = pmt[q].reg
      /\ \A q \in Pmts : pmt'[q].sent => pmt[q].sent /\ pmt'[q].content = pmt[q].content
      /\ \A q \in Pmts : q # p => pmt'[q] = pmt[q]
  BY PmtChanges
<1>3. \A k \in Keys : Same(k)
  BY <1>1 DEF Same
<1>4. \A q \in Pmts : (InMask(q)' <=> InMask(q)) /\ (Attached(q)' <=> Attached(q))
  BY <1>1, <1>2 DEF InMask, Attached
<1>5. \A q \in Pmts : Fresh(q)' => Fresh(q) /\ pmt'[q].content = pmt[q].content
  BY <1>1, <1>2 DEF Fresh, InMask
<1>6. \A k \in Keys : keys[k].enabled => keys[k].pmt \in Pmts
  BY DEF Core, Owned
<1>7. (Scanning' <=> Scanning) /\ (\A k : Unscanned(k)' <=> Unscanned(k)) /\ (Parted' <=> Parted)
  BY <1>1 DEF Scanning, Unscanned, Parted
<1>8. \A k \in Keys : keys'[k].enabled /\ Attached(keys[k].pmt) => Attached(keys[k].pmt)'
  BY <1>1, <1>4, <1>6
<1>9. ~link.sock /\ ~Scanning' => ~ca'.on /\ \A q \in Pmts : ~pmt'[q].sent
  BY <1>1, <1>2, <1>7 DEF MsgInv, DownFresh
<1>10. Parted' /\ (Up' => Up)
  BY <1>1, <1>7 DEF MsgInv, Up
<1>11. QED
  BY <1>1, <1>2, <1>3, <1>5, <1>7, <1>8, <1>9, <1>10, MsgKept DEF Rest

LEMMA SendCheckMsg ==
    ASSUME DvbapiInv, MsgInv, NEW p \in Pmts, SendCheck(p)
    PROVE  MsgInv'
<1> USE DEF DvbapiInv
<1> DEFINE a == AdapterOf[p]
<1>1. /\ a \in Adapters /\ th[a].at = "idle" /\ UNCHANGED <<link, ca, keys, pmt, srv, inq, struck>>
  BY Ids DEF SendCheck, Free, Idle
<1>2. th'[a].at = "key" /\ \A u \in Threads \ {a} : th'[u] = th[u]
  <2>1. PICK s : th' = [th EXCEPT ![a] = s] /\ s = [at |-> "key", pmt |-> p, update |-> pmt[p].reg, stale |-> FALSE]
    BY DEF SendCheck
  <2>2. s.at = "key"
    BY <2>1
  <2>3. QED
    BY <1>1, <2>1, <2>2, Ids DEF Types
<1>3. \A k \in Keys : Same(k)
  BY <1>1 DEF Same
<1>4. \A q \in Pmts : (InMask(q)' <=> InMask(q)) /\ (Attached(q)' <=> Attached(q)) /\ (Fresh(q)' <=> Fresh(q))
  BY <1>1, <1>2, Ids DEF InMask, Attached, Fresh
<1>5. (Scanning' <=> Scanning) /\ \A k : Unscanned(k)' <=> Unscanned(k)
  BY <1>1, <1>2, Ids DEF Scanning, Unscanned
<1>6. Parted'
  BY <1>1, <1>2 DEF MsgInv, Parted
<1>7. \A k \in Keys : keys'[k].enabled /\ Attached(keys[k].pmt) => Attached(keys[k].pmt)'
  BY <1>1, <1>4 DEF Core, Owned
<1>8. ~link.sock /\ ~Scanning' => ~ca'.on /\ \A q \in Pmts : ~pmt'[q].sent
  BY <1>1, <1>5 DEF MsgInv, DownFresh
<1>9. Up' => Up
  BY <1>1 DEF Up
<1>10. QED
  BY <1>1, <1>3, <1>4, <1>5, <1>6, <1>7, <1>8, <1>9, MsgKept DEF Rest

LEMMA SetMaskMsg ==
    ASSUME DvbapiInv, MsgInv, NEW a \in Adapters, SetMask(a)
    PROVE  MsgInv'
<1> USE DEF DvbapiInv
<1> DEFINE p == th[a].pmt
           set == ~pmt[p].sent /\ ~th[a].stale
<1>1. /\ th[a].at = "mask" /\ p \in Pmts /\ AdapterOf[p] = a /\ UNCHANGED <<link, ca, keys, srv, inq>>
      /\ th[a].stale \in BOOLEAN /\ pmt[p].sent \in BOOLEAN /\ pmt[p].reg \in BOOLEAN
  BY Placed, Ids DEF SetMask, Core, AtWork, Types, PmtType
<1>2. th'[a].at = "idle" /\ \A u \in Threads \ {a} : th'[u] = th[u]
  BY Ids DEF SetMask, Types, Idle
<1>3. /\ \A q \in Pmts \ {p} : pmt'[q] = pmt[q]
      /\ pmt'[p].opaque = pmt[p].opaque /\ pmt'[p].content = pmt[p].content
      /\ pmt'[p].reg = (pmt[p].reg \/ set) /\ pmt'[p].sent = (pmt[p].sent \/ set)
  BY <1>1 DEF SetMask, Types, PmtType
<1>4. /\ \A q \in Pmts \ {p} : q \in struck => q \in struck'
      /\ p \in struck' \/ pmt'[p].reg
  BY <1>1, <1>3 DEF SetMask
<1>5. \A k \in Keys : Same(k)
  BY <1>1 DEF Same
<1>6. \A q \in Pmts : /\ InMask(q)' <=> InMask(q) /\ q # p
                      /\ InMask(q)' => th'[AdapterOf[q]] = th[AdapterOf[q]]
  BY <1>1, <1>2, Ids DEF InMask
<1>7. InMask(p)
  BY <1>1 DEF InMask
<1>8. \A q \in Pmts : Fresh(q)' => Fresh(q)
  BY <1>1, <1>3, <1>6, <1>7 DEF Fresh
<1>9. \A q \in Pmts : Attached(q) => Attached(q)'
  BY <1>3, <1>4, <1>6 DEF Attached
<1>10. (Scanning' <=> Scanning) /\ \A k : Unscanned(k)' <=> Unscanned(k)
  BY <1>2, Ids DEF Scanning, Unscanned
<1>11. Parted'
  BY <1>1, <1>2 DEF MsgInv, Parted
<1>12. \A k \in Keys : keys'[k].enabled /\ Attached(keys[k].pmt) => Attached(keys[k].pmt)'
  BY <1>1, <1>9 DEF Core, Owned
<1>13. ~link.sock /\ ~Scanning' => ~ca'.on /\ \A q \in Pmts : ~pmt'[q].sent
  <2>1. ASSUME ~link.sock, ~Scanning
        PROVE  ~ca.on /\ ~set /\ \A q \in Pmts : ~pmt[q].sent
    BY <1>1, <2>1 DEF MsgInv, DownFresh, Core, Down, Sends
  <2>2. QED
    BY <1>1, <1>3, <1>10, <2>1
<1>14. (Up' => Up) /\ \A q \in Pmts : pmt'[q].opaque = pmt[q].opaque /\ pmt'[q].content = pmt[q].content
  BY <1>1, <1>3 DEF Up
<1>15. QED
  BY <1>1, <1>5, <1>8, <1>10, <1>11, <1>12, <1>13, <1>14, MsgKept DEF Rest

LEMMA AgeMsg ==
    ASSUME DvbapiInv, MsgInv, NEW k \in Keys, Age(k)
    PROVE  MsgInv'
<1> USE DEF DvbapiInv
<1>1. UNCHANGED <<link, ca, pmt, th, srv, inq, struck>> /\ keys' = [keys EXCEPT ![k].stop = "old"]
  BY DEF Age
<1>2. \A l \in Keys : /\ keys'[l].enabled = keys[l].enabled /\ keys'[l].pmt = keys[l].pmt /\ keys'[l].hash = keys[l].hash
                      /\ keys'[l].adapter = keys[l].adapter /\ keys'[l].filters = keys[l].filters
  BY <1>1 DEF Types, KeyType
<1>3. \A l \in Keys : Same(l)
  BY <1>2 DEF Same
<1>4. \A q \in Pmts : (Attached(q)' <=> Attached(q)) /\ (Fresh(q)' <=> Fresh(q))
  BY <1>1 DEF InMask, Attached, Fresh
<1>5. (Scanning' <=> Scanning) /\ \A l : Unscanned(l)' <=> Unscanned(l)
  BY <1>1 DEF Scanning, Unscanned
<1>6. Parted'
  BY <1>1, <1>2 DEF MsgInv, Parted
<1>7. \A l \in Keys : keys'[l].enabled /\ Attached(keys[l].pmt) => Attached(keys[l].pmt)'
  BY <1>2, <1>4 DEF Core, Owned
<1>8. ~link.sock /\ ~Scanning' => ~ca'.on /\ \A q \in Pmts : ~pmt'[q].sent
  BY <1>1, <1>5 DEF MsgInv, DownFresh
<1>9. Up' => Up
  BY <1>1 DEF Up
<1>10. QED
  BY <1>1, <1>3, <1>4, <1>5, <1>6, <1>7, <1>8, <1>9, MsgKept DEF Rest

\* keys_del of the socket's thread: of every key, when the connection was lost, or of an idle one
LEMMA SocketDelMsg ==
    ASSUME DvbapiInv, MsgInv, NEW k \in Keys, NEW next \in {"scan", "idle"}, keys[k].enabled,
           DelMark(Socket, k, keys[k].pmt, next), UNCHANGED <<link, ca, pmt, srv, inq, struck>>,
           next = "scan" => th[Socket].at = "scan" /\ th[Socket].key = k,
           next = "idle" => th[Socket].at = "idle" /\ link.sock
    PROVE  MsgInv'
<1> USE DEF DvbapiInv
<1>1. /\ th'[Socket].at = "del" /\ th'[Socket].next = next /\ th'[Socket].key = k /\ th'[Socket].pmt = keys[k].pmt
      /\ \A a \in Adapters : th'[a] = th[a]
      /\ ~keys'[k].enabled /\ \A l \in Keys \ {k} : keys'[l] = keys[l]
  BY Ids DEF Types, KeyType, DelMark
<1>2. \A l \in Keys : Same(l)
  BY <1>1 DEF Same
<1>3. \A q \in Pmts : (Attached(q)' <=> Attached(q)) /\ (Fresh(q)' <=> Fresh(q))
  BY <1>1, Ids DEF InMask, Attached, Fresh
<1>4. ~link.sock => (Scanning' <=> Scanning) /\ \A l \in Keys : keys'[l].enabled /\ Unscanned(l) => Unscanned(l)'
  <2>1. ASSUME ~link.sock
        PROVE  next = "scan" /\ th[Socket].at = "scan" /\ th[Socket].key = k
    BY <2>1
  <2>2. \A l \in Keys : k <= l /\ l # k => k < l
    BY Ids
  <2>3. QED
    BY <1>1, <2>1, <2>2 DEF Scanning, Unscanned
<1>5. Parted'
  <2>1. \A l \in Keys \ {k} : keys[l].enabled => keys[l].pmt # keys[k].pmt
    BY DEF Core, Owned
  <2>2. \A t \in Adapters : th[t].at = "close" \/ (th[t].at = "del" /\ th[t].next = "idle") =>
            \A l \in Keys : keys'[l].enabled => keys'[l].pmt # th[t].pmt
    BY <1>1 DEF MsgInv, Parted, Threads
  <2>3. QED
    BY <1>1, <2>1, <2>2, Ids DEF Parted
<1>6. \A l \in Keys : keys'[l].enabled /\ Attached(keys[l].pmt) => Attached(keys[l].pmt)'
  BY <1>2, <1>3 DEF Core, Owned, Same
<1>7. ~link.sock /\ ~Scanning' => ~ca'.on /\ \A q \in Pmts : ~pmt'[q].sent
  BY <1>4 DEF MsgInv, DownFresh
<1>8. (Up' => Up) /\ link'.sock = link.sock
  BY DEF Up
<1>9. QED
  BY <1>2, <1>3, <1>4, <1>5, <1>6, <1>7, <1>8, MsgKept DEF Rest

LEMMA SocketMsg ==
    ASSUME DvbapiInv, MsgInv, CloseKey \/ (\E k \in Keys : IdleKey(k))
    PROVE  MsgInv'
<1> USE DEF DvbapiInv
<1>1. ASSUME NEW k \in Keys, IdleKey(k)
      PROVE  MsgInv'
  <2>1. /\ keys[k].enabled /\ DelMark(Socket, k, keys[k].pmt, "idle") /\ UNCHANGED <<link, ca, pmt, srv, inq, struck>>
        /\ th[Socket].at = "idle" /\ link.sock
    BY <1>1 DEF IdleKey, Enabled, Idle
  <2>2. QED
    BY <2>1, SocketDelMsg
<1>2. ASSUME CloseKey
      PROVE  MsgInv'
  <2>1. PICK k \in Keys : k = th[Socket].key /\ th[Socket].at = "scan" /\ UNCHANGED <<link, ca, pmt, srv, inq, struck>>
    BY <1>2 DEF CloseKey
  <2>2. CASE Enabled(k) /\ DelMark(Socket, k, keys[k].pmt, "scan")
    BY <2>1, <2>2, SocketDelMsg DEF Enabled
  <2>3. CASE ~Enabled(k) /\ th' = [th EXCEPT ![Socket].key = k + 1] /\ UNCHANGED keys
    <3>1. th[Socket] \in Scans
      BY <2>1, Ids DEF Types, Places, Sending, Deleting, Closing, Scans, Idle
    <3>2. th'[Socket].at = "scan" /\ th'[Socket].key = k + 1 /\ \A a \in Adapters : th'[a] = th[a]
      BY <2>3, <3>1, Ids DEF Types, Scans
    <3>3. \A l \in Keys : Same(l)
      BY <2>3 DEF Same
    <3>4. \A q \in Pmts : (Attached(q)' <=> Attached(q)) /\ (Fresh(q)' <=> Fresh(q))
      BY <2>1, <3>2, Ids DEF InMask, Attached, Fresh
    <3>5. Scanning /\ Scanning' /\ \A l \in Keys : keys'[l].enabled /\ Unscanned(l) => Unscanned(l)'
      <4>1. \A l \in Keys : k <= l /\ l # k => k + 1 <= l
        BY Ids
      <4>2. \A l \in Keys : keys'[l].enabled => l # k
        BY <2>3 DEF Enabled
      <4>3. QED
        BY <2>1, <3>2, <4>1, <4>2 DEF Scanning, Unscanned
    <3>6. Parted'
      BY <2>3, <3>2, Ids DEF MsgInv, Parted
    <3>7. \A l \in Keys : keys'[l].enabled /\ Attached(keys[l].pmt) => Attached(keys[l].pmt)'
      BY <2>3, <3>4 DEF Core, Owned
    <3>8. (Up' => Up) /\ link'.sock = link.sock
      BY <2>1 DEF Up
    <3>9. QED
      BY <2>1, <3>3, <3>4, <3>5, <3>6, <3>7, <3>8, MsgKept DEF Rest
  <2>4. QED
    BY <1>2, <2>1, <2>2, <2>3 DEF CloseKey
<1>3. QED
  BY <1>1, <1>2

LEMMA MasksOff ==
    ASSUME Types
    PROVE  \A p \in Pmts : NoMasks[p].sent = FALSE
  BY DEF NoMasks, Types, PmtType

LEMMA UnregisterMsg ==
    ASSUME DvbapiInv, MsgInv, Unregister
    PROVE  MsgInv'
<1> USE DEF DvbapiInv
<1>1. /\ th[Socket].at = "scan" /\ th[Socket].key \in 1 .. MaxKeys + 1 /\ th[Socket].key \notin Keys /\ ~link.sock
      /\ UNCHANGED <<link, keys, srv, inq, struck>> /\ ca'.on = FALSE /\ pmt' = NoMasks
  BY Place, Ids DEF Unregister, Types, Core, Down, Scanning
<1>2. th'[Socket].at = "idle" /\ \A a \in Adapters : TornOrSame(a)
  BY Ends, Ids DEF Unregister
<1>3. \A k \in Keys : ~Unscanned(k)
  <2>1. \A k \in Keys : ~(th[Socket].key <= k)
    BY <1>1, DvbapiAssumption DEF Keys
  <2>2. QED
    BY <1>1, <2>1 DEF Unscanned
<1>4. \A k \in Keys : keys[k].enabled => New(k)
  BY <1>1, <1>3 DEF MsgInv, DownFresh
<1>5. \A p \in Pmts : pmt'[p].sent = FALSE
  BY <1>1, MasksOff
<1>6. DownFresh'
  BY <1>1, <1>4, <1>5 DEF MsgInv, DownFresh, New
<1>7. Parted'
  <2>1. \A t \in Threads : th'[t].at \in {"del", "close"} => th'[t] = th[t]
    BY <1>2, Ids DEF TornOrSame
  <2>2. QED
    BY <1>1, <2>1 DEF MsgInv, Parted
<1>8. Tracked' /\ HashKnown' /\ Version' /\ Orphans'
  BY <1>1 DEF Tracked, HashKnown, Version, Orphans, Up
<1>9. InfoFirst'
  BY <1>1 DEF MsgInv, InfoFirst
<1>10. QED
  BY <1>6, <1>7, <1>8, <1>9 DEF MsgInv

-----------------------------------------------------------------------------
(* Stops that are sent: keys_del, and what the server gives up *)

LEMMA StopsSent ==
    ASSUME Types, MsgInv, Up' => Up, ca'.on => ca.on, NEW fs, fs \subseteq srv.filters,
           inq' = inq \o Stops(fs), srv'.filters = srv.filters \ fs,
           \A k \in Keys : \/ srv'.pmts[k] = srv.pmts[k]
                           \/ srv'.pmts[k] = Nobody /\ \A pid \in Pids : <<k, pid>> \in srv.filters => <<k, pid>> \in fs,
           \A k \in Keys : Same(k)
    PROVE  Tracked' /\ HashKnown' /\ InfoFirst' /\ \A k \in Keys : keys'[k].enabled /\ Silent(k) => Silent(k)'
<1>1. inq \in Seq(Msgs) /\ fs \subseteq Keys \X Pids /\ IsFiniteSet(fs)
  BY FS_Subset DEF Types, SrvType
<1>2. \A k \in Keys : \A pid \in Pids : /\ Asked(inq', k, pid) => Asked(inq, k, pid)
                                        /\ (Stopped(inq, k, pid) \/ <<k, pid>> \in fs) => Stopped(inq', k, pid)
  <2> SUFFICES ASSUME NEW k \in Keys, NEW pid \in Pids
               PROVE  /\ Asked(inq', k, pid) => Asked(inq, k, pid)
                      /\ (Stopped(inq, k, pid) \/ <<k, pid>> \in fs) => Stopped(inq', k, pid)
    BY Zenon
  <2>1. /\ Asked(inq \o Stops(fs), k, pid) => Asked(inq, k, pid)
        /\ (Stopped(inq, k, pid) \/ <<k, pid>> \in fs) => Stopped(inq \o Stops(fs), k, pid)
    BY <1>1, StopsLast
  <2>2. inq' = inq \o Stops(fs)
    OBVIOUS
  <2>3. QED
    BY ONLY <2>1, <2>2
<1>3. \A k \in Keys : \A pid \in Pids : Calls(k, pid)' => Calls(k, pid)
  BY <1>2 DEF Calls, Same
<1>4. Tracked'
  BY <1>2, <1>3 DEF MsgInv, Tracked
<1>5. HashKnown'
  <2> SUFFICES ASSUME Up', NEW k \in Keys, keys'[k].enabled, keys'[k].hash # Nobody
               PROVE  Known(k)'
    BY DEF HashKnown
  <2>1. keys'[k].hash = keys[k].hash /\ Known(k)
    BY DEF MsgInv, HashKnown, Same
  <2>2. Quiet(k) => Quiet(k)'
    BY <1>2, <1>3 DEF Quiet
  <2>3. CASE srv'.pmts[k] = srv.pmts[k]
    BY <2>1, <2>2, <2>3 DEF Known
  <2>4. CASE srv'.pmts[k] = Nobody /\ \A pid \in Pids : <<k, pid>> \in srv.filters => <<k, pid>> \in fs
    <3>1. ASSUME NEW pid \in Pids, Calls(k, pid)'
          PROVE  Stopped(inq', k, pid)
      <4>1. <<k, pid>> \in srv.filters \/ Stopped(inq, k, pid)
        BY <1>3, <3>1 DEF MsgInv, Tracked
      <4>2. QED
        BY <1>2, <2>4, <4>1
    <3>2. Quiet(k)'
      BY <3>1 DEF Quiet
    <3>3. QED
      BY <2>4, <3>2 DEF Known
  <2>5. QED
    BY <2>3, <2>4
<1>6. InfoFirst'
  <2>1. PICK s : s = Stops(fs) /\ s \in Seq(Msgs) /\ \A i \in 1 .. Len(s) : s[i].op = "stop"
    BY <1>1, StopsHave
  <2>2. /\ Len(inq') = Len(inq) + Len(s) /\ Len(inq) \in Nat /\ Len(s) \in Nat
        /\ \A i \in 1 .. Len(inq') : inq'[i] = IF i <= Len(inq) THEN inq[i] ELSE s[i - Len(inq)]
    BY <1>1, <2>1, ConcatProperties
  <2>3. \A i \in 1 .. Len(inq') : inq'[i].op = "info" => i \in 1 .. Len(inq) /\ inq[i].op = "info"
    BY <2>1, <2>2
  <2>4. QED
    BY <2>3 DEF MsgInv, InfoFirst
<1>7. ASSUME NEW k \in Keys, keys'[k].enabled, Silent(k)
      PROVE  Silent(k)'
  <2>1. srv'.pmts[k] = Nobody /\ keys'[k].filters = {}
    BY <1>7 DEF Silent, Same
  <2>2. \A pid \in Pids : ~Asked(inq', k, pid)
    BY <1>2, <1>7 DEF Silent
  <2>3. QED
    BY <2>1, <2>2 DEF Silent
<1>8. QED
  BY <1>4, <1>5, <1>6, <1>7

LEMMA UnmaskedOne ==
    ASSUME pmt \in [Pmts -> PmtType], NEW p \in Pmts, pmt' = Unmasked(pmt, p) \/ pmt' = [pmt EXCEPT ![p].opaque = NoKey]
    PROVE  /\ \A q \in Pmts \ {p} : pmt'[q] = pmt[q]
           /\ pmt'[p].opaque = NoKey /\ (pmt'[p].sent => pmt[p].sent)
<1>1. CASE pmt' = Unmasked(pmt, p)
  BY <1>1 DEF Unmasked, PmtType
<1>2. CASE pmt' = [pmt EXCEPT ![p].opaque = NoKey]
  BY <1>2 DEF PmtType
<1>3. QED
  BY <1>1, <1>2

LEMMA Stays ==
    ASSUME Types, Core, MsgInv, UNCHANGED <<link, ca, keys, pmt, th, struck>>
    PROVE  Rest
<1>1. \A q \in Pmts : (Attached(q)' <=> Attached(q)) /\ (Fresh(q)' <=> Fresh(q))
  BY DEF InMask, Attached, Fresh
<1>2. (Scanning' <=> Scanning) /\ (\A l : Unscanned(l)' <=> Unscanned(l)) /\ Parted'
  BY DEF Scanning, Unscanned, Parted, MsgInv
<1>3. \A l \in Keys : keys'[l].enabled /\ Attached(keys[l].pmt) => Attached(keys[l].pmt)'
  BY <1>1 DEF Core, Owned
<1>4. ~link.sock /\ ~Scanning' => ~ca'.on /\ \A q \in Pmts : ~pmt'[q].sent
  BY <1>2 DEF MsgInv, DownFresh
<1>5. QED
  BY <1>1, <1>2, <1>3, <1>4 DEF Rest

\* what a thread goes on with after keys_del
LEMMA DelFreeRest ==
    ASSUME DvbapiInv, MsgInv, NEW t \in Threads, DelFree(t)
    PROVE  Rest /\ (\A k \in Keys : Same(k)) /\ link'.sock = link.sock
<1> USE DEF DvbapiInv
<1> DEFINE k == th[t].key
           p == th[t].pmt
<1>1. /\ th[t].at = "del" /\ k \in Keys /\ p \in Pmts /\ th[t].ad = AdapterOf[p] /\ ~keys[k].enabled
      /\ th[t].next = "close" => pmt[p].opaque = k
  BY Placed DEF DelFree, Core, TearsDown
<1>2. link'.sock = link.sock /\ ca' = ca /\ keys' = [keys EXCEPT ![k] = NewKey]
  BY DEF DelFree, WriteFails, Types, LinkType
<1>3. \A l \in Keys : Same(l)
  BY <1>1, <1>2, NewKeyType DEF Same, Types
<1>4. Mine(t, p)
  BY <1>1, Ids DEF Mine, Core, AtWork, Excl
<1>5. CASE th[t].next # "close" /\ UNCHANGED <<pmt, struck>>
           /\ \E s : /\ th' = [th EXCEPT ![t] = s]
                     /\ \/ th[t].next = "scan" /\ s = [at |-> "scan", key |-> k + 1]
                        \/ th[t].next = "idle" /\ s = [at |-> "close", pmt |-> p, ad |-> th[t].ad]
  <2>0. PICK s : /\ th' = [th EXCEPT ![t] = s]
                 /\ \/ th[t].next = "scan" /\ s = [at |-> "scan", key |-> k + 1]
                    \/ th[t].next = "idle" /\ s = [at |-> "close", pmt |-> p, ad |-> th[t].ad]
    BY <1>5
  <2>1. \/ th[t].next = "scan" /\ s.at = "scan" /\ s.key = k + 1
        \/ th[t].next = "idle" /\ s.at = "close" /\ s.pmt = p
    BY <2>0
  <2>2. t = Socket
    BY <1>1, <1>5, Ids DEF Core, AtWork
  <2>3. th'[t] = s /\ \A u \in Threads \ {t} : th'[u] = th[u]
    BY <2>0 DEF Types
  <2>4. \A q \in Pmts : (InMask(q)' <=> InMask(q)) /\ (Fresh(q)' <=> Fresh(q)) /\ (Attached(q)' <=> Attached(q))
    BY <1>5, <2>2, <2>3, Ids DEF InMask, Fresh, Attached
  <2>5. /\ Scanning' <=> Scanning
        /\ \A l \in Keys : keys'[l].enabled /\ Unscanned(l) => Unscanned(l)'
    <3>1. k \in Int /\ \A l \in Keys : l \in Int
      BY <1>1, Ids
    <3>2. QED
      BY <1>1, <2>1, <2>2, <2>3, <3>1 DEF Scanning, Unscanned
  <2>6. Parted'
    <3>1. Parted
      BY DEF MsgInv
    <3>2. \A l \in Keys : keys'[l].enabled => keys[l].enabled /\ keys'[l].pmt = keys[l].pmt
      BY <1>3 DEF Same
    <3>3. QED
      BY <1>1, <2>1, <2>3, <3>1, <3>2 DEF Parted
  <2>7. \A l \in Keys : keys'[l].enabled /\ Attached(keys[l].pmt) => Attached(keys[l].pmt)'
    BY <1>3, <2>4 DEF Same, Core, Owned
  <2>8. ~link.sock /\ ~Scanning' => ~ca'.on /\ \A q \in Pmts : ~pmt'[q].sent
    BY <1>2, <1>5, <2>5 DEF MsgInv, DownFresh
  <2>9. Rest
    BY <1>5, <2>4, <2>5, <2>6, <2>7, <2>8 DEF Rest
  <2>10. QED
    BY <1>2, <1>3, <2>9
<1>6. CASE /\ th[t].next = "close" /\ struck' = struck \ {p}
           /\ IF pmt[p].reg THEN pmt' = Unmasked(pmt, p) /\ th' = Torn([th EXCEPT ![t] = Idle])
              ELSE pmt' = [pmt EXCEPT ![p].opaque = NoKey] /\ th' = [th EXCEPT ![t] = Idle]
  <2>1. th'[t].at = "idle" /\ \A u \in Threads \ {t} : TornOrSame(u)
    BY <1>6, Ends
  <2>2. pmt' = Unmasked(pmt, p) \/ pmt' = [pmt EXCEPT ![p].opaque = NoKey]
    BY <1>6
  <2>3. /\ \A q \in Pmts \ {p} : pmt'[q] = pmt[q]
        /\ pmt'[p].opaque = NoKey /\ (pmt'[p].sent => pmt[p].sent)
    BY <1>1, <2>2, UnmaskedOne DEF Types
  <2>4. ~Enabled(pmt[p].opaque)
    BY <1>1, <1>6 DEF Enabled
  <2>5. Rest
    BY <1>1, <1>2, <1>3, <1>4, <1>6, <2>1, <2>3, <2>4, CloseEndsRest
  <2>6. QED
    BY <1>2, <1>3, <2>5
<1>7. QED
  BY <1>5, <1>6 DEF DelFree, AfterDel

LEMMA DelFreeMsg ==
    ASSUME DvbapiInv, MsgInv, NEW t \in Threads, DelFree(t)
    PROVE  MsgInv'
<1> USE DEF DvbapiInv
<1> DEFINE gone == {f \in srv.filters : f[1] \in th[t].msg}
<1>1. Rest /\ (\A k \in Keys : Same(k)) /\ link'.sock = link.sock
  BY DelFreeRest
<1>2. ca' = ca
  BY DEF DelFree
<1>3. CASE UNCHANGED <<link, srv, inq>>
  BY <1>1, <1>2, <1>3, MsgKept DEF Up
<1>4. CASE /\ link.sock /\ inq' = inq \o Stops(gone) /\ UNCHANGED link
           /\ srv' = [pmts |-> [d \in Keys |-> IF d \in th[t].msg THEN Nobody ELSE srv.pmts[d]],
                      filters |-> srv.filters \ gone]
  <2>1. /\ srv'.filters = srv.filters \ gone /\ gone \subseteq srv.filters
        /\ \A k \in Keys : \/ srv'.pmts[k] = srv.pmts[k]
                           \/ srv'.pmts[k] = Nobody /\ \A pid \in Pids : <<k, pid>> \in srv.filters => <<k, pid>> \in gone
    BY <1>4
  <2>2. (Up' => Up) /\ (ca'.on => ca.on) /\ inq' = inq \o Stops(gone)
    BY <1>2, <1>4 DEF Up
  <2> HIDE DEF gone
  <2>3. Tracked' /\ HashKnown' /\ InfoFirst' /\ \A k \in Keys : keys'[k].enabled /\ Silent(k) => Silent(k)'
    BY <1>1, <2>1, <2>2, StopsSent
  <2>4. QED
    BY <1>1, <1>4, <2>3, MsgRest
<1>5. CASE link.sock /\ WriteFails
  <2>1. inq' = inq /\ ~Up' /\ \A k \in Keys : srv'.pmts[k] = Nobody
    BY <1>5 DEF WriteFails, Up, NoServer, Types, LinkType
  <2>2. Tracked' /\ HashKnown'
    BY <2>1 DEF Tracked, HashKnown
  <2>3. InfoFirst' /\ \A k \in Keys : keys'[k].enabled /\ Silent(k) => Silent(k)'
    BY <1>1, <1>2, <2>1 DEF MsgInv, InfoFirst, Silent, Same
  <2>4. QED
    BY <1>1, <1>5, <2>2, <2>3, MsgRest
<1>6. QED
  BY <1>3, <1>4, <1>5 DEF DelFree

LEMMA ServerStopMsg ==
    ASSUME DvbapiInv, MsgInv, NEW k \in Keys, ServerStop(k)
    PROVE  MsgInv'
<1> USE DEF DvbapiInv
<1>1. /\ UNCHANGED <<link, ca, keys, pmt, th, struck>>
      /\ inq' = inq \o Stops(OfKey(k)) /\ srv' = [srv EXCEPT !.filters = @ \ OfKey(k)]
  BY DEF ServerStop
<1>2. srv'.filters = srv.filters \ OfKey(k) /\ srv'.pmts = srv.pmts /\ OfKey(k) \subseteq srv.filters
  BY <1>1 DEF Types, SrvType, OfKey
<1>3. (\A l \in Keys : Same(l)) /\ (Up' <=> Up)
  BY <1>1 DEF Same, Up
<1>4. Tracked' /\ HashKnown' /\ InfoFirst' /\ \A l \in Keys : keys'[l].enabled /\ Silent(l) => Silent(l)'
  BY <1>1, <1>2, <1>3, StopsSent
<1>5. Rest
  BY <1>1, Stays
<1>6. link.sock
  BY DEF ServerStop, OfKey, MsgInv, DownFresh, NoServer
<1>7. QED
  BY <1>1, <1>3, <1>4, <1>5, <1>6, MsgRest

\* The server asks for a filter of a program that it knows: the key is not one it does not know.
LEMMA ServerSetMsg ==
    ASSUME DvbapiInv, MsgInv, NEW k \in Keys, ServerSetFilter(k)
    PROVE  MsgInv'
<1> USE DEF DvbapiInv
<1>1. UNCHANGED <<link, ca, keys, pmt, th, struck>> /\ srv.pmts[k] # Nobody
  BY DEF ServerSetFilter
<1>2. PICK pid \in Pids : /\ srv' = [srv EXCEPT !.filters = @ \cup {<<k, pid>>}]
                          /\ inq' = Append(inq, [op |-> "set", key |-> k, pid |-> pid])
  <2>1. srv.pmts[k] \in Pmts \X Nat
    BY <1>1 DEF Types, SrvType
  <2>2. EcmPid[srv.pmts[k][1]] \in Pids
    BY <2>1, Ids
  <2>3. QED
    BY <2>2 DEF ServerSetFilter
<1>3. PICK m \in Msgs : m.op = "set" /\ m.key = k /\ m.pid = pid /\ inq' = Append(inq, m)
  BY <1>2 DEF Msgs
<1>4. srv'.filters = srv.filters \cup {<<k, pid>>} /\ srv'.pmts = srv.pmts /\ inq \in Seq(Msgs)
  BY <1>2 DEF Types, SrvType
<1>5. \A l \in Keys : \A d \in Pids : l # k \/ d # pid =>
          /\ Asked(inq', l, d) => Asked(inq, l, d)
          /\ Stopped(inq, l, d) => Stopped(inq', l, d)
  <2>1. \A l \in Keys : \A d \in Pids : l # k \/ d # pid => ~Is(m, "set", l, d)
    BY <1>3 DEF Is
  <2>2. QED
    BY <1>3, <1>4, <2>1, Asks
<1>6. \A l \in Keys : \A d \in Pids : Calls(l, d)' => Calls(l, d) \/ (l = k /\ d = pid)
  BY <1>1, <1>5 DEF Calls
<1>7. Tracked'
  BY <1>1, <1>4, <1>5, <1>6 DEF MsgInv, Tracked, Up
<1>8. HashKnown'
  <2>1. \A l \in Keys \ {k} : Quiet(l) => Quiet(l)'
    BY <1>5, <1>6 DEF Quiet
  <2>2. QED
    BY <1>1, <1>4, <2>1 DEF MsgInv, HashKnown, Known, Up
<1>9. \A l \in Keys : keys'[l].enabled /\ Silent(l) => Silent(l)'
  BY <1>1, <1>4, <1>5 DEF Silent
<1>10. InfoFirst'
  <2>1. /\ Len(inq') = Len(inq) + 1 /\ Len(inq) \in Nat /\ inq'[Len(inq) + 1] = m
        /\ \A i \in 1 .. Len(inq) : inq'[i] = inq[i]
    BY <1>3, <1>4, AppendProperties
  <2>2. \A i \in 1 .. Len(inq') : inq'[i].op = "info" => i \in 1 .. Len(inq) /\ inq[i].op = "info"
    BY <1>3, <2>1
  <2>3. QED
    BY <1>1, <2>2 DEF MsgInv, InfoFirst
<1>11. Rest /\ \A l \in Keys : Same(l)
  BY <1>1, Stays DEF Same
<1>12. link.sock
  BY <1>1 DEF MsgInv, DownFresh, NoServer
<1>13. QED
  BY <1>1, <1>7, <1>8, <1>9, <1>10, <1>11, <1>12, MsgRest

-----------------------------------------------------------------------------
(* A program is announced *)

\* what a send of the CAPMT leaves: it is the last one of the key, and what the server knows unless the write failed
LEMMA SendPmtWrites ==
    ASSUME NEW ks \in [Keys -> KeyType], NEW k \in Keys, NEW p \in Pmts, NEW force, SendPmt(ks, k, p, force),
           pmt \in [Pmts -> PmtType], link \in LinkType, srv \in SrvType
    PROVE  /\ \A l \in Keys \ {k} : keys'[l] = ks[l]
           /\ link.sock => keys'[k].hash = Capmt(p)
           /\ \/ UNCHANGED <<link, srv, inq>> /\ keys' = ks /\ (link.sock => ~force)
              \/ link.sock /\ ~Up' /\ srv' = NoServer /\ inq' = inq
              \/ /\ link.sock /\ UNCHANGED <<link, inq>> /\ srv'.filters = srv.filters
                 /\ srv'.pmts[k] = Capmt(p) /\ \A l \in Keys \ {k} : srv'.pmts[l] = srv.pmts[l]
<1>1. CASE keys' = ks /\ UNCHANGED <<link, srv, inq>> /\ (link.sock => ~force /\ ks[k].hash = Capmt(p))
  BY <1>1
<1>2. CASE link.sock /\ keys' = [ks EXCEPT ![k].hash = Capmt(p)]
           /\ \/ srv' = [srv EXCEPT !.pmts[k] = Capmt(p)] /\ UNCHANGED <<link, inq>>
              \/ WriteFails
  <2>1. \A l \in Keys \ {k} : keys'[l] = ks[l]
    BY <1>2
  <2>2. keys'[k].hash = Capmt(p)
    <3>1. keys'[k] = [ks[k] EXCEPT !.hash = Capmt(p)] /\ ks[k] \in KeyType
      BY <1>2
    <3>2. QED
      BY <3>1 DEF KeyType
  <2>3. WriteFails => ~Up' /\ srv' = NoServer /\ inq' = inq
    BY DEF WriteFails, Up, LinkType
  <2>4. srv' = [srv EXCEPT !.pmts[k] = Capmt(p)] =>
            /\ srv'.filters = srv.filters
            /\ srv'.pmts[k] = Capmt(p) /\ \A l \in Keys \ {k} : srv'.pmts[l] = srv.pmts[l]
    BY DEF SrvType
  <2>5. QED
    BY <1>2, <2>1, <2>2, <2>3, <2>4
<1>3. QED
  BY <1>1, <1>2 DEF SendPmt, WriteCapmt

\* what it means for the messages that program p is announced under key k by its adapter's thread a
LEMMA AnnouncedMsg ==
    ASSUME Types, Core, MsgInv, NEW a \in Adapters, NEW p \in Pmts, NEW k \in Keys, AdapterOf[p] = a, th[a].at = "key",
           th'[a].at = "mask", th'[a].pmt = p, \A u \in Threads \ {a} : th'[u] = th[u],
           \A u \in Threads \ {a} : th[u].at \in {"del", "close"} => th[u].pmt # p,
           ca' = ca, link'.sock = link.sock, \A l \in Keys \ {k} : Same(l), \A l \in Keys \ {k} : keys[l].enabled => keys[l].pmt # p,
           keys'[k].enabled, keys'[k].pmt = p,
           keys'[k].filters = {} \/ (keys[k].enabled /\ keys'[k].filters = keys[k].filters),
           link.sock => keys'[k].hash = Capmt(p),
           ~link.sock => New(k)' \/ (keys[k].enabled /\ keys'[k].hash = keys[k].hash /\ keys'[k].filters = keys[k].filters),
           \/ UNCHANGED <<link, srv, inq>> /\ (link.sock => keys[k].enabled /\ keys'[k].hash = keys[k].hash)
           \/ link.sock /\ ~Up' /\ srv' = NoServer /\ inq' = inq
           \/ /\ link.sock /\ UNCHANGED <<link, inq>> /\ srv'.filters = srv.filters
              /\ srv'.pmts[k] = Capmt(p) /\ \A l \in Keys \ {k} : srv'.pmts[l] = srv.pmts[l],
           pmt'[p].opaque = k, \A q \in Pmts \ {p} : pmt'[q].opaque = pmt[q].opaque,
           \A q \in Pmts : pmt'[q].sent = pmt[q].sent /\ pmt'[q].content = pmt[q].content /\ pmt'[q].reg = pmt[q].reg,
           \A q \in Pmts \ {p} : q \in struck => q \in struck'
    PROVE  MsgInv'
<1>0. inq' = inq /\ (Up' => Up /\ srv'.filters = srv.filters)
  BY DEF Up
<1>1. \A l \in Keys : \A pid : Calls(l, pid)' => Calls(l, pid)
  BY <1>0 DEF Calls, Same
<1>2. Tracked'
  BY <1>0, <1>1 DEF MsgInv, Tracked
<1>3. HashKnown'
  <2>1. \A l \in Keys : Quiet(l) => Quiet(l)'
    BY <1>0, <1>1 DEF Quiet
  <2>2. ASSUME Up', NEW l \in Keys \ {k}, keys'[l].enabled, keys'[l].hash # Nobody
        PROVE  Known(l)'
    <3>1. keys[l].enabled /\ keys'[l].hash = keys[l].hash /\ srv'.pmts[l] = srv.pmts[l]
      BY <2>2 DEF Same, Up
    <3>2. Known(l)
      BY <1>0, <2>2, <3>1 DEF MsgInv, HashKnown
    <3>3. QED
      BY <2>1, <3>1, <3>2 DEF Known
  <2>3. ASSUME Up', keys'[k].hash # Nobody
        PROVE  Known(k)'
    <3>1. CASE srv'.pmts[k] = Capmt(p)
      BY <2>3, <3>1 DEF Known, Up
    <3>2. CASE UNCHANGED <<link, srv, inq>> /\ keys[k].enabled /\ keys'[k].hash = keys[k].hash
      <4>1. Known(k)
        BY <1>0, <2>3, <3>2 DEF MsgInv, HashKnown
      <4>2. QED
        BY <2>1, <3>2, <4>1 DEF Known
    <3>3. QED
      BY <2>3, <3>1, <3>2 DEF Up
  <2>4. QED
    BY <2>2, <2>3 DEF HashKnown
<1>4. \A q \in Pmts \ {p} : (InMask(q)' <=> InMask(q)) /\ (Fresh(q)' => Fresh(q)) /\ (Attached(q) => Attached(q)')
  BY Ids DEF InMask, Fresh, Attached
<1>5. Version'
  <2> SUFFICES ASSUME link'.sock, NEW q \in Pmts, LiveKey(q)', Fresh(q)'
               PROVE  keys'[pmt'[q].opaque].hash = Capmt(q)'
    BY DEF Version
  <2>1. CASE q = p
    BY <2>1 DEF Capmt
  <2>2. CASE q # p
    <3>1. pmt'[q].opaque = pmt[q].opaque /\ pmt[q].opaque \in Keys \ {k}
      BY <2>2 DEF LiveKey, Enabled
    <3>2. LiveKey(q) /\ Fresh(q) /\ keys'[pmt[q].opaque].hash = keys[pmt[q].opaque].hash
      BY <1>4, <2>2, <3>1 DEF LiveKey, Enabled, Same
    <3>3. QED
      BY <3>1, <3>2 DEF MsgInv, Version, Capmt
  <2>3. QED
    BY <2>1, <2>2
<1>6. (Scanning' <=> Scanning) /\ \A l : Unscanned(l)' <=> Unscanned(l)
  BY Ids DEF Scanning, Unscanned
<1>7. DownFresh'
  <2> SUFFICES ASSUME ~link.sock
               PROVE  DownFresh'
    BY DEF DownFresh
  <2>1. UNCHANGED <<link, srv, inq>>
    OBVIOUS
  <2>2. \A l \in Keys : keys'[l].enabled => New(l)' \/ Unscanned(l)'
    BY <1>6 DEF MsgInv, DownFresh, New, Same
  <2>3. ~Scanning' => ~ca'.on /\ \A q \in Pmts : ~pmt'[q].sent
    BY <1>6 DEF MsgInv, DownFresh
  <2>4. QED
    BY <2>1, <2>2, <2>3 DEF MsgInv, DownFresh
<1>8. Parted'
  <2> SUFFICES ASSUME NEW t \in Threads, th'[t].at = "close" \/ (th'[t].at = "del" /\ th'[t].next = "idle"),
                      NEW l \in Keys, keys'[l].enabled
               PROVE  keys'[l].pmt # th'[t].pmt
    BY DEF Parted
  <2>1. t # a /\ th'[t] = th[t] /\ th[t].pmt # p
    OBVIOUS
  <2>2. CASE l = k
    BY <2>1, <2>2
  <2>3. CASE l # k
    BY <2>1, <2>3 DEF MsgInv, Parted, Same
  <2>4. QED
    BY <2>2, <2>3
<1>9. Orphans'
  <2> SUFFICES ASSUME link.sock, NEW l \in Keys, keys'[l].enabled, NEW q, q = keys'[l].pmt
               PROVE  Attached(q)' \/ Silent(l)'
    BY DEF Orphans, Attached, InMask
  <2>1. CASE l = k
    BY <2>1 DEF Attached, InMask
  <2>2. CASE l # k
    <3>1. keys[l].enabled /\ keys[l].pmt = q /\ q \in Pmts \ {p} /\ keys'[l].filters = keys[l].filters
      BY <2>2 DEF Same, Core, Owned
    <3>2. Attached(q) \/ Silent(l)
      BY <3>1 DEF MsgInv, Orphans, Attached
    <3>3. srv'.pmts[l] = srv.pmts[l] \/ srv'.pmts[l] = Nobody
      BY <2>2 DEF NoServer
    <3>4. Silent(l) => Silent(l)'
      BY <1>0, <3>1, <3>3 DEF Silent
    <3>5. QED
      BY <1>4, <3>1, <3>2, <3>4
  <2>3. QED
    BY <2>1, <2>2
<1>10. InfoFirst'
  BY <1>0 DEF MsgInv, InfoFirst
<1>11. QED
  BY <1>2, <1>3, <1>5, <1>7, <1>8, <1>9, <1>10 DEF MsgInv

LEMMA AddKeyMsg ==
    ASSUME DvbapiInv, MsgInv, NEW a \in Adapters, AddKey(a)
    PROVE  MsgInv'
<1> USE DEF DvbapiInv
<1>0. PICK p \in Pmts : p = th[a].pmt /\ th[a].at = "key" /\ AdapterOf[p] = a
  BY Placed, Ids DEF AddKey, Core, AtWork
<1>1. ca' = ca
  BY DEF AddKey
<1>2. \A u \in Threads \ {a} : th[u].at \in {"del", "close"} => th[u].pmt # p
  <2>1. Holds(Socket) # a
    BY <1>0, Ids DEF Core, Excl
  <2>2. QED
    BY <1>0, <2>1, Placed, Ids DEF Core, AtWork, TearsDown, Holds
<1>3. th' = [th EXCEPT ![a].at = "mask"] => th'[a].at = "mask" /\ th'[a].pmt = p /\ \A u \in Threads \ {a} : th'[u] = th[u]
  <2>1. th[a] \in Sending
    BY <1>0, Ids DEF Types, Places, Sending, Deleting, Closing, Scans, Idle
  <2>2. QED
    BY <1>0, <2>1, Ids DEF Types, Sending
<1>4. CASE /\ LiveKey(p)
           /\ SendPmt([keys EXCEPT ![pmt[p].opaque].stop = "recent"], pmt[p].opaque, p, ~th[a].update)
           /\ th' = [th EXCEPT ![a].at = "mask"] /\ UNCHANGED <<pmt, struck>>
  <2>1. PICK k \in Keys : k = pmt[p].opaque /\ keys[k].enabled /\ keys[k].pmt = p
    BY <1>4 DEF LiveKey, Enabled
  <2>2. PICK ks \in [Keys -> KeyType] : ks = [keys EXCEPT ![k].stop = "recent"]
    BY StopSet DEF Types
  <2>3. /\ \A l \in Keys \ {k} : ks[l] = keys[l]
        /\ SameFields(ks[k], keys[k]) /\ ks[k].hash = keys[k].hash
    <3>1. ks[k] = [keys[k] EXCEPT !.stop = "recent"] /\ keys[k] \in KeyType /\ \A l \in Keys \ {k} : ks[l] = keys[l]
      BY <2>2 DEF Types
    <3>2. QED
      BY <3>1 DEF KeyType, SameFields
  <2>4. SendPmt(ks, k, p, ~th[a].update)
    BY <1>4, <2>1, <2>2
  <2>5. link'.sock = link.sock /\ \A l \in Keys : SameFields(keys'[l], ks[l])
    BY <2>4, SendPmtKeeps, <1>0, Placed, Place, Ids DEF Types
  <2>6. /\ \A l \in Keys \ {k} : keys'[l] = ks[l]
        /\ link.sock => keys'[k].hash = Capmt(p)
        /\ \/ UNCHANGED <<link, srv, inq>> /\ keys' = ks
           \/ link.sock /\ ~Up' /\ srv' = NoServer /\ inq' = inq
           \/ /\ link.sock /\ UNCHANGED <<link, inq>> /\ srv'.filters = srv.filters
              /\ srv'.pmts[k] = Capmt(p) /\ \A l \in Keys \ {k} : srv'.pmts[l] = srv.pmts[l]
    BY <2>4, SendPmtWrites DEF Types
  <2>7. /\ keys'[k].enabled /\ keys'[k].pmt = p /\ keys'[k].filters = keys[k].filters
        /\ keys' = ks => keys'[k].hash = keys[k].hash
        /\ \A l \in Keys \ {k} : Same(l)
    <3>1. SameFields(keys'[k], ks[k])
      BY <2>5
    <3>2. /\ keys'[k].enabled /\ keys'[k].pmt = p /\ keys'[k].filters = keys[k].filters
          /\ keys' = ks => keys'[k].hash = keys[k].hash
      BY ONLY <2>1, <2>3, <3>1 DEF SameFields
    <3>3. \A l \in Keys \ {k} : keys'[l] = keys[l]
      BY ONLY <2>3, <2>6
    <3>4. QED
      BY <3>2, <3>3 DEF Same
  <2>8. \A l \in Keys \ {k} : keys[l].enabled => keys[l].pmt # p
    BY <2>1 DEF Core, Owned
  <2>9. th'[a].at = "mask" /\ th'[a].pmt = p /\ \A u \in Threads \ {a} : th'[u] = th[u]
    BY <1>3, <1>4
  <2>10. pmt' = pmt /\ struck' = struck /\ pmt'[p].opaque = k
    BY <1>4, <2>1
  <2>11. QED
    BY <1>0, <1>1, <1>2, <2>1, <2>5, <2>6, <2>7, <2>8, <2>9, <2>10, AnnouncedMsg
<1>5. CASE /\ ~LiveKey(p) /\ FreeKeys # {}
           /\ SendPmt(keys_add(Min(FreeKeys), p), Min(FreeKeys), p, TRUE)
           /\ pmt' = [pmt EXCEPT ![p].opaque = Min(FreeKeys)]
           /\ th' = [th EXCEPT ![a].at = "mask"] /\ struck' = struck \ {p}
  <2>1. PICK k \in Keys : k = Min(FreeKeys) /\ ~keys[k].enabled
    BY <1>5, FreeKey
  <2>2. PICK n \in KeyType : /\ keys_add(k, p) = [keys EXCEPT ![k] = n]
                             /\ n.enabled /\ n.pmt = p /\ n.filters = {} /\ n.hash = Nobody
    <3>1. PICK n : n = [NewKey EXCEPT !.enabled = TRUE, !.allocated = TRUE, !.pmt = p, !.adapter = AdapterOf[p],
                                      !.stop = "recent"]
      OBVIOUS
    <3>2. n \in KeyType /\ n.enabled /\ n.pmt = p /\ n.filters = {} /\ n.hash = Nobody
      BY <3>1, NewKeyType, Ids DEF KeyType, NewKey
    <3>3. keys_add(k, p) = [keys EXCEPT ![k] = n]
      BY <3>1 DEF keys_add
    <3>4. QED
      BY <3>2, <3>3
  <2>3. PICK ks \in [Keys -> KeyType] : ks = keys_add(k, p)
    BY <2>2 DEF Types
  <2>4. ks[k] = n /\ \A l \in Keys \ {k} : ks[l] = keys[l]
    BY <2>2, <2>3 DEF Types
  <2>5. SendPmt(ks, k, p, TRUE)
    BY <1>5, <2>1, <2>3
  <2>6. link'.sock = link.sock /\ \A l \in Keys : SameFields(keys'[l], ks[l])
    BY <2>5, SendPmtKeeps DEF Types
  <2>7. /\ \A l \in Keys \ {k} : keys'[l] = ks[l]
        /\ link.sock => keys'[k].hash = Capmt(p)
        /\ \/ UNCHANGED <<link, srv, inq>> /\ keys' = ks /\ ~link.sock
           \/ link.sock /\ ~Up' /\ srv' = NoServer /\ inq' = inq
           \/ /\ link.sock /\ UNCHANGED <<link, inq>> /\ srv'.filters = srv.filters
              /\ srv'.pmts[k] = Capmt(p) /\ \A l \in Keys \ {k} : srv'.pmts[l] = srv.pmts[l]
    BY <2>5, SendPmtWrites DEF Types
  <2>8. /\ keys'[k].enabled /\ keys'[k].pmt = p /\ keys'[k].filters = {}
        /\ ~link.sock => New(k)'
        /\ \A l \in Keys \ {k} : Same(l)
    BY <2>2, <2>4, <2>6, <2>7 DEF SameFields, Same, New
  <2>9. \A l \in Keys : keys[l].enabled => keys[l].pmt # p
    BY <1>0, <1>5 DEF Core, Owned, LiveKey, Enabled
  <2>10. th'[a].at = "mask" /\ th'[a].pmt = p /\ \A u \in Threads \ {a} : th'[u] = th[u]
    BY <1>3, <1>5
  <2>11. /\ pmt'[p].opaque = k /\ \A q \in Pmts \ {p} : pmt'[q].opaque = pmt[q].opaque
         /\ \A q \in Pmts : pmt'[q].sent = pmt[q].sent /\ pmt'[q].content = pmt[q].content /\ pmt'[q].reg = pmt[q].reg
    BY <1>5, <2>1 DEF Types, PmtType
  <2>12. \A q \in Pmts \ {p} : q \in struck => q \in struck'
    BY <1>5
  <2>13. QED
    BY <1>0, <1>1, <1>2, <2>6, <2>7, <2>8, <2>9, <2>10, <2>11, <2>12, AnnouncedMsg
<1>6. CASE th' = [th EXCEPT ![a] = Idle] /\ UNCHANGED <<link, srv, inq, keys, pmt, struck>>
  <2>1. th'[a].at = "idle" /\ \A u \in Threads \ {a} : th'[u] = th[u]
    BY <1>6, Ids DEF Types, Idle
  <2>2. \A l \in Keys : Same(l)
    BY <1>6 DEF Same
  <2>3. \A q \in Pmts : (InMask(q)' <=> InMask(q)) /\ (Fresh(q)' <=> Fresh(q)) /\ (Attached(q)' <=> Attached(q))
    BY <1>0, <1>6, <2>1, Ids DEF InMask, Fresh, Attached
  <2>4. (Scanning' <=> Scanning) /\ \A l \in Keys : Unscanned(l)' <=> Unscanned(l)
    BY <2>1, Ids DEF Scanning, Unscanned
  <2>5. Parted'
    BY <1>6, <2>1 DEF MsgInv, Parted
  <2>6. \A l \in Keys : keys'[l].enabled /\ Attached(keys[l].pmt) => Attached(keys[l].pmt)'
    BY <1>6, <2>3 DEF Core, Owned
  <2>7. ~link.sock /\ ~Scanning' => ~ca'.on /\ \A q \in Pmts : ~pmt'[q].sent
    BY <1>1, <1>6, <2>4 DEF MsgInv, DownFresh
  <2>8. Up' => Up
    BY <1>6 DEF Up
  <2>9. QED
    BY <1>1, <1>6, <2>2, <2>3, <2>4, <2>5, <2>6, <2>7, <2>8, MsgKept DEF Rest
<1>7. QED
  BY <1>0, <1>4, <1>5, <1>6 DEF AddKey

-----------------------------------------------------------------------------
(* A connection is made and lost; messages are read *)

\* Before a connection every key is new and nothing is known: what is written on it is all there is.
LEMMA ConnectMsg ==
    ASSUME DvbapiInv, MsgInv, Connect
    PROVE  MsgInv'
<1> USE DEF DvbapiInv
<1>1. /\ link'.sock /\ ~link.sock /\ ~Scanning /\ UNCHANGED <<ca, keys, pmt, th, srv, struck>>
  BY DEF Connect, Scanning, Idle
<1>2. /\ srv = NoServer /\ inq = <<>> /\ ~ca.on /\ (\A p \in Pmts : ~pmt[p].sent)
      /\ \A k \in Keys : keys[k].enabled => New(k)
  BY <1>1 DEF MsgInv, DownFresh, Unscanned, Scanning
<1>3. \A i \in 1 .. Len(inq') : i = 1 /\ inq'[i].op = "info"
  <2>1. CASE inq' = <<[op |-> "info", key |-> NoKey, pid |-> 0]>>
    BY <2>1
  <2>2. CASE inq' = inq
    BY <1>2, <2>2
  <2>3. QED
    BY <2>1, <2>2 DEF Connect
<1>4. \A k : \A pid : ~Asked(inq', k, pid)
  BY <1>3 DEF Asked, Is
<1>5. \A k \in Keys : \A pid : ~Calls(k, pid)'
  BY <1>1, <1>2, <1>4 DEF Calls, New
<1>6. Tracked'
  BY <1>5 DEF Tracked
<1>7. HashKnown'
  BY <1>1, <1>2 DEF HashKnown, New
<1>8. Version'
  <2>1. \A p \in Pmts : ~Fresh(p)'
    BY <1>1, <1>2, Ids DEF Core, Down, Sends, Fresh, InMask
  <2>2. QED
    BY <2>1 DEF Version
<1>9. Orphans'
  <2>1. \A k \in Keys : keys[k].enabled => Silent(k)'
    BY <1>1, <1>2, <1>4 DEF Silent, New, NoServer
  <2>2. QED
    BY <1>1, <2>1 DEF Orphans
<1>10. DownFresh' /\ Parted' /\ InfoFirst'
  BY <1>1, <1>2, <1>3 DEF MsgInv, DownFresh, Parted, InfoFirst
<1>11. QED
  BY <1>6, <1>7, <1>8, <1>9, <1>10 DEF MsgInv

\* dvbapi_close begins with the first key: it has passed none by.
LEMMA LinkLostMsg ==
    ASSUME DvbapiInv, MsgInv, LinkLost
    PROVE  MsgInv'
<1> USE DEF DvbapiInv
<1>1. /\ ~link'.sock /\ inq' = <<>> /\ srv' = NoServer /\ th[Socket].at = "idle" /\ UNCHANGED <<ca, keys, pmt, struck>>
  BY DEF LinkLost, NoLink, Idle
<1>2. th'[Socket].at = "scan" /\ th'[Socket].key = 1 /\ \A a \in Adapters : th'[a] = th[a]
  BY Ids DEF LinkLost, Types
<1>3. Scanning' /\ \A k \in Keys : Unscanned(k)'
  BY <1>2, DvbapiAssumption DEF Scanning, Unscanned, Keys
<1>4. DownFresh'
  BY <1>1, <1>3 DEF DownFresh
<1>5. Parted'
  <2>1. \A t \in Threads : th'[t].at \in {"close", "del"} => th'[t] = th[t]
    BY <1>2, Ids
  <2>2. QED
    BY <1>1, <2>1 DEF MsgInv, Parted
<1>6. Tracked' /\ HashKnown' /\ Version' /\ Orphans'
  BY <1>1 DEF Tracked, HashKnown, Version, Orphans, Up
<1>7. InfoFirst'
  BY <1>1 DEF InfoFirst
<1>8. QED
  BY <1>4, <1>5, <1>6, <1>7 DEF MsgInv

\* The first message is read: k and pid are those it names, and the key then has at most the filters it had and,
\* if it was asked for, this one; after a stop it does not have it.
LEMMA ReadMsg ==
    ASSUME DvbapiInv, MsgInv, UNCHANGED <<link, pmt, th, srv, struck>>, inq # <<>>, inq' = Tail(inq), ca' = ca,
           \A l \in Keys : keys'[l].enabled =>
               /\ keys[l].enabled /\ keys'[l].pmt = keys[l].pmt /\ keys'[l].adapter = keys[l].adapter
               /\ keys'[l].hash = keys[l].hash /\ keys'[l].filters \subseteq Pids
               /\ \A d \in Pids : /\ d \in keys'[l].filters => d \in keys[l].filters \/ Is(Head(inq), "set", l, d)
                                  /\ d \in keys'[l].filters => ~Is(Head(inq), "stop", l, d)
    PROVE  MsgInv'
<1> USE DEF DvbapiInv
<1>0. inq \in Seq(Msgs) /\ inq' \in Seq(Msgs) /\ Len(inq) \in Nat /\ Len(inq') = Len(inq) - 1
      /\ \A i \in 1 .. Len(inq') : inq'[i] = inq[i + 1]
  BY HeadTailProperties DEF Types
<1>1. \A k \in Keys : \A pid \in Pids :
          /\ Asked(inq', k, pid) => Asked(inq, k, pid)
          /\ Is(Head(inq), "set", k, pid) => Asked(inq, k, pid)
          /\ Stopped(inq, k, pid) => \/ Stopped(inq', k, pid)
                                     \/ Is(Head(inq), "stop", k, pid) /\ ~Asked(inq', k, pid)
  BY <1>0, Read
<1>2. \A k \in Keys : \A pid \in Pids : Calls(k, pid)' => Calls(k, pid)
  BY <1>1 DEF Calls
<1>3. \A k \in Keys : \A pid \in Pids : Calls(k, pid)' /\ Stopped(inq, k, pid) => Stopped(inq', k, pid)
  BY <1>1 DEF Calls
<1>4. Tracked'
  BY <1>2, <1>3 DEF MsgInv, Tracked, Up
<1>5. HashKnown'
  <2>1. \A k \in Keys : Quiet(k) => Quiet(k)'
    BY <1>2, <1>3 DEF Quiet
  <2>2. QED
    BY <2>1 DEF MsgInv, HashKnown, Known, Up
<1>6. \A p \in Pmts : /\ Fresh(p)' <=> Fresh(p)
                      /\ Attached(p)' <=> Attached(p)
                      /\ LiveKey(p)' => LiveKey(p) /\ keys'[pmt[p].opaque].hash = keys[pmt[p].opaque].hash
  BY DEF Fresh, Attached, InMask, LiveKey, Enabled
<1>7. Version'
  BY <1>6 DEF MsgInv, Version, Capmt
<1>8. Orphans'
  <2> SUFFICES ASSUME link.sock, NEW l \in Keys, keys'[l].enabled, NEW q, q = keys'[l].pmt
               PROVE  Attached(q)' \/ Silent(l)'
    BY DEF Orphans, Attached, InMask
  <2>1. keys[l].enabled /\ q = keys[l].pmt /\ q \in Pmts
    BY DEF Core, Owned
  <2>2. Attached(q) \/ Silent(l)
    BY <2>1 DEF MsgInv, Orphans, Attached
  <2>3. Silent(l) => Silent(l)'
    <3>1. Silent(l) => keys'[l].filters = {}
      BY <1>1 DEF Silent
    <3>2. QED
      BY <1>1, <3>1 DEF Silent
  <2>4. QED
    BY <1>6, <2>1, <2>2, <2>3
<1>9. link.sock
  <2>1. inq # <<>>
    OBVIOUS
  <2>2. QED
    BY <2>1 DEF MsgInv, DownFresh
<1>10. DownFresh' /\ Parted'
  BY <1>9 DEF MsgInv, DownFresh, Parted
<1>11. InfoFirst'
  <2>1. \A i \in 1 .. Len(inq') : inq'[i].op # "info"
    <3> SUFFICES ASSUME NEW i \in 1 .. Len(inq'), inq'[i].op = "info"
                 PROVE  FALSE
      OBVIOUS
    <3>1. i + 1 \in 1 .. Len(inq) /\ inq[i + 1].op = "info" /\ i + 1 # 1
      BY <1>0
    <3>2. QED
      BY <3>1 DEF MsgInv, InfoFirst
  <2>2. QED
    BY <2>1 DEF InfoFirst
<1>12. QED
  BY <1>4, <1>5, <1>7, <1>8, <1>10, <1>11 DEF MsgInv

LEMMA FilterMsg ==
    ASSUME DvbapiInv, MsgInv, SetFilter \/ DmxStop
    PROVE  MsgInv'
<1> USE DEF DvbapiInv
<1> DEFINE k == Head(inq).key
           pid == Head(inq).pid
           r == keys[k]
           Goes(n, f) == n.hash = r.hash /\ n.filters = f
<1>1. UNCHANGED <<link, ca, pmt, th, srv, struck>> /\ inq # <<>> /\ inq' = Tail(inq) /\ Head(inq).op \in {"set", "stop"}
  BY DEF SetFilter, DmxStop, Reads
<1>2. KeysOK(keys)' /\ \A l \in Keys : SameKey(l)
  BY ReplyTypes
<1>3. k \in Keys /\ r \in KeyType /\ keys \in [Keys -> KeyType]
  <2>1. Head(inq) \in Msgs
    BY <1>1, HeadTailProperties DEF Types
  <2>2. QED
    BY <1>1, <2>1 DEF Msgs, Types
<1>4. \A l \in Keys : keys'[l].filters \subseteq Pids
  BY <1>2 DEF KeysOK, KeyType
<1>5. CASE keys' = keys /\ (Head(inq).op = "set" \/ ~keys[k].enabled)
  <2>1. \A l \in Keys : \A d : keys[l].enabled => ~Is(Head(inq), "stop", l, d)
    BY <1>5 DEF Is
  <2>2. QED
    BY <1>1, <1>4, <1>5, <2>1, ReadMsg
<1>6. ASSUME NEW n, keys' = [keys EXCEPT ![k] = n], n.hash = r.hash,
             \/ Head(inq).op = "set" /\ n.filters = r.filters \cup {pid}
             \/ Head(inq).op = "stop" /\ n.filters = r.filters \ {pid}
      PROVE  MsgInv'
  <2>1. keys'[k] = n /\ \A l \in Keys \ {k} : keys'[l] = keys[l]
    BY <1>3, <1>6
  <2>2. \A l \in Keys : keys'[l].hash = keys[l].hash
    BY <1>6, <2>1
  <2>3. \A l \in Keys : \A d \in Pids : /\ d \in keys'[l].filters => d \in keys[l].filters \/ Is(Head(inq), "set", l, d)
                                        /\ d \in keys'[l].filters => ~Is(Head(inq), "stop", l, d)
    BY <1>1, <1>6, <2>1 DEF Is
  <2>4. \A l \in Keys : keys'[l].enabled => keys[l].enabled /\ keys'[l].pmt = keys[l].pmt /\ keys'[l].adapter = keys[l].adapter
    BY <1>2 DEF SameKey
  <2>5. QED
    BY <1>1, <1>4, <2>2, <2>3, <2>4, ReadMsg
<1>7. CASE SetFilter
  <2>1. Head(inq).op = "set"
    BY <1>7 DEF SetFilter, Reads
  <2>2. CASE keys' = [keys EXCEPT ![k].filters = @ \cup {pid}, ![k].ecms = @ + 1, ![k].stop = "recent"]
    <3>1. PICK n : n = [r EXCEPT !.filters = @ \cup {pid}, !.ecms = @ + 1, !.stop = "recent"]
      OBVIOUS
    <3>2. keys' = [keys EXCEPT ![k] = n]
      BY ONLY <1>3, <2>2, <3>1
    <3>3. n.hash = r.hash /\ n.filters = r.filters \cup {pid}
      BY <1>3, <3>1 DEF KeyType
    <3>4. QED
      BY <1>6, <2>1, <3>2, <3>3
  <2>3. QED
    BY <1>5, <1>7, <2>1, <2>2 DEF SetFilter
<1>8. CASE DmxStop
  <2>1. Head(inq).op = "stop"
    BY <1>8 DEF DmxStop, Reads
  <2>2. CASE keys' = [keys EXCEPT ![k].filters = @ \ {pid}, ![k].ecms = IF @ > 0 THEN @ - 1 ELSE 0, ![k].stop = "recent"]
    <3>1. PICK n : n = [r EXCEPT !.filters = @ \ {pid}, !.ecms = IF @ > 0 THEN @ - 1 ELSE 0, !.stop = "recent"]
      OBVIOUS
    <3>2. keys' = [keys EXCEPT ![k] = n]
      BY ONLY <1>3, <2>2, <3>1
    <3>3. n.hash = r.hash /\ n.filters = r.filters \ {pid}
      BY <1>3, <3>1 DEF KeyType
    <3>4. QED
      BY <1>6, <2>1, <3>2, <3>3
  <2>3. QED
    BY <1>3, <1>5, <1>8, <2>2 DEF DmxStop, Enabled
<1>9. QED
  BY <1>7, <1>8

\* The answer to the client's name finds the CA table's entry off: no program is registered, nothing else waits.
LEMMA ServerInfoMsg ==
    ASSUME DvbapiInv, MsgInv, ServerInfo
    PROVE  MsgInv'
<1> USE DEF DvbapiInv
<1>1. /\ inq # <<>> /\ inq' = Tail(inq) /\ Head(inq).op = "info" /\ UNCHANGED <<keys, srv, struck>>
      /\ link'.sock = link.sock /\ link'.force = link.force
  BY DEF ServerInfo, Reads, Types, LinkType
<1>2. inq \in Seq(Msgs) /\ Len(inq) \in Nat \ {0} /\ Head(inq) = inq[1] /\ Len(inq') = Len(inq) - 1
      /\ \A i \in 1 .. Len(inq') : inq'[i] = inq[i + 1]
  BY <1>1, HeadTailProperties DEF Types
<1>3. ~ca.on
  BY <1>1, <1>2 DEF MsgInv, InfoFirst
<1>4. UNCHANGED <<pmt, th>>
  BY <1>3 DEF ServerInfo
<1>5. \A k \in Keys : \A pid \in Pids : /\ Asked(inq', k, pid) => Asked(inq, k, pid)
                                        /\ Stopped(inq, k, pid) => Stopped(inq', k, pid)
  BY <1>1, <1>2, Read DEF Is
<1>6. \A k \in Keys : \A pid \in Pids : Calls(k, pid)' => Calls(k, pid)
  BY <1>1, <1>5 DEF Calls
<1>7. Tracked'
  BY <1>1, <1>5, <1>6 DEF MsgInv, Tracked, Up
<1>8. HashKnown'
  <2>1. \A k \in Keys : Quiet(k) => Quiet(k)'
    BY <1>5, <1>6 DEF Quiet
  <2>2. QED
    BY <1>1, <2>1 DEF MsgInv, HashKnown, Known, Up
<1>9. link.sock
  BY <1>1 DEF MsgInv, DownFresh
<1>10. \A p \in Pmts : (Fresh(p)' <=> Fresh(p)) /\ (Attached(p)' <=> Attached(p)) /\ (LiveKey(p)' <=> LiveKey(p))
  BY <1>1, <1>4 DEF Fresh, Attached, InMask, LiveKey, Enabled
<1>11. Version'
  BY <1>1, <1>4, <1>9, <1>10 DEF MsgInv, Version, Capmt
<1>12. Orphans'
  <2> SUFFICES ASSUME NEW l \in Keys, keys[l].enabled, NEW q, q = keys[l].pmt
               PROVE  Attached(q)' \/ Silent(l)'
    BY <1>1 DEF Orphans, Attached, InMask
  <2>1. q \in Pmts
    BY DEF Core, Owned
  <2>2. Attached(q) \/ Silent(l)
    BY <1>9 DEF MsgInv, Orphans, Attached
  <2>3. Silent(l) => Silent(l)'
    BY <1>1, <1>5 DEF Silent
  <2>4. QED
    BY <1>10, <2>1, <2>2, <2>3
<1>13. DownFresh' /\ Parted'
  BY <1>1, <1>4, <1>9 DEF MsgInv, DownFresh, Parted
<1>14. InfoFirst'
  <2>1. \A i \in 1 .. Len(inq') : inq'[i].op # "info"
    <3> SUFFICES ASSUME NEW i \in 1 .. Len(inq'), inq'[i].op = "info"
                 PROVE  FALSE
      OBVIOUS
    <3>1. i + 1 \in 1 .. Len(inq) /\ inq[i + 1].op = "info" /\ i + 1 # 1
      BY <1>2
    <3>2. QED
      BY <3>1 DEF MsgInv, InfoFirst
  <2>2. QED
    BY <2>1 DEF InfoFirst
<1>15. QED
  BY <1>7, <1>8, <1>11, <1>12, <1>13, <1>14 DEF MsgInv

-----------------------------------------------------------------------------

LEMMA InitMsg == Init => MsgInv
<1> SUFFICES ASSUME Init
             PROVE  MsgInv
  OBVIOUS
<1>1. /\ ~link.sock /\ inq = <<>> /\ srv = NoServer /\ ~ca.on
      /\ \A k \in Keys : ~keys[k].enabled
      /\ \A p \in Pmts : ~pmt[p].sent
  BY NewKeyType DEF Init
<1>2. \A t \in Threads : th[t].at = "idle"
  BY DEF Init, Idle
<1>3. Tracked /\ HashKnown /\ Version /\ Orphans
  BY <1>1 DEF Tracked, HashKnown, Version, Orphans, Up
<1>4. DownFresh /\ Parted /\ InfoFirst
  BY <1>1, <1>2 DEF DownFresh, Parted, InfoFirst
<1>5. QED
  BY <1>3, <1>4 DEF MsgInv

LEMMA StaysMsg ==
    ASSUME DvbapiInv, MsgInv, UNCHANGED vars
    PROVE  MsgInv'
<1>1. Rest /\ (\A l \in Keys : Same(l)) /\ (Up' => Up)
  BY Stays DEF vars, DvbapiInv, Same, Up
<1>2. QED
  BY <1>1, MsgKept DEF vars, DvbapiInv

LEMMA StepMsg == DvbapiInv /\ MsgInv /\ [Next]_vars => MsgInv'
  BY ServerSetMsg, ServerStopMsg, SocketMsg, AgeMsg, DelFreeMsg, PmtMsg, CloseMsg, SendCheckMsg, AddKeyMsg, SetMaskMsg,
     ConnectMsg, LinkLostMsg, UnregisterMsg, FilterMsg, ServerInfoMsg, StaysMsg DEF Next, Steps, Reply

\* The inductive invariant of what the server knows and of the messages under way, beside that of the keys.
THEOREM DvbapiMessages == Spec => [](DvbapiInv /\ MsgInv)
  BY InitInv, StepInv, InitMsg, StepMsg, PTL DEF Spec

\* a key that has nothing but filters that were stopped goes idle
LEMMA QuietGoesIdle ==
    ASSUME Types, NEW k \in Keys, keys[k].enabled, Quiet(k)
    PROVE  GoesIdle(k)
<1>1. inq \in Seq(Msgs) /\ keys[k].filters \subseteq Pids
  BY DEF Types, KeyType
<1>2. Pending(k, "set") \subseteq Pids
  BY <1>1 DEF Pending, Msgs
<1>3. ASSUME NEW pid \in keys[k].filters \cup Pending(k, "set")
      PROVE  pid \in Pending(k, "stop")
  <2>1. pid \in Pids
    BY <1>1, <1>2
  <2>2. pid \in keys[k].filters \/ Asked(inq, k, pid)
    BY DEF Pending, Asked, Is
  <2>3. Stopped(inq, k, pid)
    BY <2>1, <2>2 DEF Quiet, Calls
  <2>4. QED
    BY <2>3 DEF Stopped, Is, Pending
<1>4. QED
  BY <1>3 DEF GoesIdle

\* What the server knows under the demux index of a program that was sent is that program, in the version the
\* client has, or the key loses its filters and the program is announced again: also when keys_del counted no
\* other key and its stop of all programs is written after another adapter's CAPMT.
THEOREM DvbapiServerKnows == Spec => []ServerKnows
<1>1. DvbapiInv /\ MsgInv => ServerKnows
  <2> SUFFICES ASSUME DvbapiInv, MsgInv, link.sock, ~link.force, NEW p \in Pmts, pmt[p].sent, LiveKey(p)
               PROVE  srv.pmts[pmt[p].opaque] = <<p, pmt[p].content>> \/ GoesIdle(pmt[p].opaque)
    BY DEF ServerKnows
  <2>1. PICK k \in Keys : k = pmt[p].opaque /\ keys[k].enabled
    BY DEF LiveKey, Enabled
  <2>2. keys[k].hash = <<p, pmt[p].content>>
    BY <2>1 DEF MsgInv, Version, Fresh, Capmt
  <2>3. <<p, pmt[p].content>> # Nobody
    BY Ids DEF Nobody
  <2>4. Known(k)
    BY <2>1, <2>2, <2>3 DEF MsgInv, HashKnown, Up
  <2>5. QED
    BY <2>1, <2>2, <2>4, QuietGoesIdle DEF Known, DvbapiInv
<1>2. QED
  BY <1>1, DvbapiMessages, PTL

\* A live key is that of a registered program, or of one that is being closed or registered, or the server asks
\* nothing of it and connect_dvbapi will close it; `struck` is the one exception.
THEOREM DvbapiNoOrphan == Spec => []NoOrphan
<1>1. DvbapiInv /\ MsgInv => NoOrphan
  <2> SUFFICES ASSUME DvbapiInv, MsgInv, link.sock, NEW k \in Keys, keys[k].enabled, NEW p, p = keys[k].pmt
               PROVE  \/ pmt[p].reg /\ pmt[p].opaque = k
                      \/ th[AdapterOf[p]].at = "mask" /\ th[AdapterOf[p]].pmt = p
                      \/ GoesIdle(k)
                      \/ p \in struck
    BY DEF NoOrphan, Enabled
  <2>1. pmt[p].opaque = k
    BY DEF DvbapiInv, Core, Owned
  <2>2. pmt[p].reg \/ InMask(p) \/ p \in struck \/ Silent(k)
    BY DEF MsgInv, Orphans
  <2>3. Silent(k) => GoesIdle(k)
    BY QuietGoesIdle DEF Silent, Quiet, Calls, DvbapiInv
  <2>4. QED
    BY <2>1, <2>2, <2>3 DEF InMask
<1>2. QED
  BY <1>1, DvbapiMessages, PTL
=============================================================================
