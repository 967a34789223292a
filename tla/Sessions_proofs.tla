-------------------------- MODULE Sessions_proofs --------------------------
(***************************************************************************)
(* Proofs about Sessions, for any number of connections, streams, adapters *)
(* and transponders: who a connection's stream belongs to                  *)
(* (RtspOwnsStream), and while no request was overtaken by the close of    *)
(* its stream, the count and the master of an adapter (CountExact), its    *)
(* pids (PidOwnersAttached) and what its streams receive (OwnMux).         *)
(***************************************************************************)
EXTENDS Sessions, FiniteSetTheorems, WellFoundedInduction, TLAPS

\* Max of a finite set of numbers is in it: the element with the fewest above it.
LEMMA MaxIsGreatest ==
    ASSUME NEW S, S \in SUBSET Int, IsFiniteSet(S), S # {}
    PROVE  Max(S) \in S /\ \A y \in S : y <= Max(S)
<1> DEFINE above == [x \in S |-> {y \in S : y > x}]
           family == {above[x] : x \in S}
<1>1. family \subseteq FiniteSubsetsOf(S) /\ family # {}
  <2>1. \A x \in S : above[x] \in FiniteSubsetsOf(S)
    BY FS_Subset DEF FiniteSubsetsOf
  <2>2. QED
    BY <2>1
<1>2. \E a \in family : \A b \in family : ~ (<<b, a>> \in StrictSubsetOrdering(S))
  <2> HIDE DEF family
  <2> QED BY <1>1, FS_StrictSubsetOrderingWellFounded, WFMin
<1>3. PICK s \in S : \A y \in S : ~ (<<above[y], above[s]>> \in StrictSubsetOrdering(S))
  BY <1>2
<1>4. \A y \in S : s >= y
  <2>1. SUFFICES ASSUME NEW y \in S, y > s PROVE FALSE
    OBVIOUS
  <2>2. y \in above[s] /\ y \notin above[y] /\ \A z \in S : z > y => z > s
    BY <2>1
  <2>3. above[y] \subseteq above[s] /\ above[s] \subseteq S
    BY <2>2
  <2>4. QED
    BY <1>3, <2>2, <2>3 DEF StrictSubsetOrdering
<1>5. QED
  BY <1>4 DEF Max

\* Min of a finite set of numbers is in it: the element with the fewest below it.
LEMMA MinIsLeast ==
    ASSUME NEW S, S \in SUBSET Int, IsFiniteSet(S), S # {}
    PROVE  Min(S) \in S /\ \A y \in S : Min(S) <= y
<1> DEFINE below == [x \in S |-> {y \in S : y < x}]
           family == {below[x] : x \in S}
<1>1. family \subseteq FiniteSubsetsOf(S) /\ family # {}
  <2>1. \A x \in S : below[x] \in FiniteSubsetsOf(S)
    BY FS_Subset DEF FiniteSubsetsOf
  <2>2. QED
    BY <2>1
<1>2. \E a \in family : \A b \in family : ~ (<<b, a>> \in StrictSubsetOrdering(S))
  <2> HIDE DEF family
  <2> QED BY <1>1, FS_StrictSubsetOrderingWellFounded, WFMin
<1>3. PICK s \in S : \A y \in S : ~ (<<below[y], below[s]>> \in StrictSubsetOrdering(S))
  BY <1>2
<1>4. \A y \in S : s <= y
  <2>1. SUFFICES ASSUME NEW y \in S, y < s PROVE FALSE
    OBVIOUS
  <2>2. y \in below[s] /\ y \notin below[y] /\ \A z \in S : z < y => z < s
    BY <2>1
  <2>3. below[y] \subseteq below[s] /\ below[s] \subseteq S
    BY <2>2
  <2>4. QED
    BY <1>3, <2>2, <2>3 DEF StrictSubsetOrdering
<1>5. QED
  BY <1>4 DEF Min

\* The greater of two numbers.
LEMMA MaxOfTwo ==
    ASSUME NEW a \in Int, NEW b \in Int
    PROVE  Max({a, b}) = IF a >= b THEN a ELSE b
  BY DEF Max

\* What leaves a finite set lowers its cardinality by as much.
LEMMA CardinalityMinus ==
    ASSUME NEW S, IsFiniteSet(S), NEW T, T \subseteq S
    PROVE  Cardinality(S \ T) = Cardinality(S) - Cardinality(T) /\ Cardinality(T) <= Cardinality(S)
<1>1. IsFiniteSet(T) /\ S \cap T = T /\ Cardinality(T) <= Cardinality(S)
  BY FS_Subset
<1>2. Cardinality(S \ T) = Cardinality(S) - Cardinality(S \cap T)
  BY FS_Difference
<1>3. QED
  BY <1>1, <1>2

StreamType == [state : {"free", "live", "closing"}, adapter : Adapters \cup {-1},
               type : {"none", "udp", "tcp", "http"}, do_play : BOOLEAN, timeout : BOOLEAN,
               tp : Muxes \cup {NoMux}, thread : Threads,
               dest : Conns \cup {Main}, owner : SUBSET Conns]
ConnType == [open : BOOLEAN, sid : Sids \cup {-1}, cb : BOOLEAN]
AdType == [enabled : BOOLEAN, master : Sids \cup {-1}, cnt : Nat, tp : Muxes \cup {NoMux},
           do_tune : BOOLEAN, owners : SUBSET Sids]
PcType == {"idle", "play", "select", "attach", "params", "tune", "disable", "detach", "unlink",
           "release", "adclose"}
ProcType == [pc : PcType, sid : Sids \cup {-1}, ad : Adapters \cup {-1}]

Types == /\ stream \in [Sids -> StreamType] /\ conn \in [Conns -> ConnType]
         /\ ad \in [Adapters -> AdType] /\ proc \in [Threads -> ProcType]
         /\ fault \in BOOLEAN /\ lost \subseteq Adapters

\* A thread that is about something is about a stream.
Busy == \A t \in Threads : proc[t].pc \notin {"idle", "adclose"} => proc[t].sid \in Sids

Closing(t) == proc[t].pc \in {"detach", "unlink", "release"}

\* A stream is closed by one thread, and until that is done nobody takes its number.
CloseOne ==
    /\ \A t \in Threads : Closing(t) => stream[proc[t].sid].state = "closing"
    /\ \A t, u \in Threads : Closing(t) /\ Closing(u) /\ proc[t].sid = proc[u].sid => t = u

\* The number an RTSP connection keeps is that of a stream of its own, and is forgotten
\* before the number is given up.
Owned == \A c \in RtspConns : conn[c].sid # -1 =>
            /\ stream[conn[c].sid].state # "free" /\ c \in stream[conn[c].sid].owner
            /\ \A t \in Threads : proc[t].pc = "release" => proc[t].sid # conn[c].sid

OwnInv == Types /\ Busy /\ CloseOne /\ Owned

-----------------------------------------------------------------------------
(* Numbers and records *)

LEMMA Indices == /\ Sids \subseteq Int /\ Adapters \subseteq Int /\ -1 \notin Sids /\ -1 \notin Adapters
                 /\ IsFiniteSet(Sids) /\ IsFiniteSet(Adapters) /\ Main \in Threads
                 /\ Main \notin Adapters /\ Adapters \subseteq Threads
  BY SessionsAssumption, FS_Interval DEF Sids, Adapters, Threads

\* Fields of a stream's record change.
LEMMA PlayWanted ==
    ASSUME NEW s \in StreamType
    PROVE  LET r == [s EXCEPT !.do_play = TRUE] IN r \in StreamType /\ r.state = s.state /\ r.owner = s.owner
  BY DEF StreamType

LEMMA TimerSet ==
    ASSUME NEW s \in StreamType
    PROVE  LET r == [s EXCEPT !.timeout = TRUE] IN r \in StreamType /\ r.state = s.state /\ r.owner = s.owner
  BY DEF StreamType

LEMMA FreeStreamType == FreeStream \in StreamType
  BY SessionsAssumption, Indices DEF FreeStream, StreamType

LEMMA ReleasedType ==
    ASSUME Types, NEW i \in Sids
    PROVE  Released(i) \in StreamType /\ Released(i).state = "free" /\ Released(i).adapter = -1
<1>1. stream[i].dest \in Conns \cup {Main}
  BY DEF Types, StreamType
<1>2. QED
  BY <1>1, FreeStreamType DEF Released, StreamType, FreeStream

LEMMA ClosedType == ClosedAdapter \in AdType /\ Opened \in AdType
  BY DEF ClosedAdapter, Opened, AdType

LEMMA IdleType == Idle \in ProcType /\ Idle.pc = "idle"
  BY DEF Idle, ProcType, PcType

LEMMA SidsFinite == ASSUME NEW S, S \subseteq Sids PROVE IsFiniteSet(S) /\ Cardinality(S) \in Nat /\ S \in SUBSET Int
  BY Indices, FS_Subset, FS_CardinalityType

\* close_adapter_for_stream leaves an adapter with its fields.
LEMMA DetachType ==
    ASSUME Types, NEW r \in AdType, NEW a, NEW S, S \subseteq Sids
    PROVE  Detach(r, a, S) \in AdType /\ Detach(r, a, S).enabled = r.enabled
<1> DEFINE rest == Attached(a) \ S
           cnt == Max({0, r.cnt - Cardinality(S)})
           master == CASE r.master \notin S           -> r.master
                       [] r.master \in S /\ rest # {} -> Max(rest)
                       [] OTHER                       -> -1
           last == [r EXCEPT !.master = -1, !.cnt = 0, !.tp = NoMux, !.owners = {}]
           less == [r EXCEPT !.master = master, !.cnt = cnt, !.owners = r.owners \ S]
<1>1. cnt \in Nat
  <2>1. r.cnt - Cardinality(S) \in Int
    BY SidsFinite DEF AdType
  <2>2. QED
    BY <2>1, MaxOfTwo
<1>2. master \in Sids \cup {-1}
  <2>1. rest # {} => Max(rest) \in Sids
    <3>1. rest \subseteq Sids
      BY DEF Attached
    <3> HIDE DEF rest
    <3>2. QED
      BY <3>1, SidsFinite, MaxIsGreatest
  <2> HIDE DEF rest
  <2>2. r.master \in Sids \cup {-1}
    BY DEF AdType
  <2>3. QED
    BY <2>1, <2>2
<1>3. Detach(r, a, S) \in {last, less}
  BY DEF Detach
<1>4. last \in AdType /\ last.enabled = r.enabled
  BY DEF AdType
<1>5. less \in AdType /\ less.enabled = r.enabled
  <2> HIDE DEF cnt, master
  <2> QED BY <1>1, <1>2 DEF AdType
<1>6. QED
  <2> HIDE DEF last, less
  <2> QED BY <1>3, <1>4, <1>5

LEMMA AdsWithoutType ==
    ASSUME Types, NEW S, S \subseteq Sids
    PROVE  AdsWithout(S) \in [Adapters -> AdType]
<1>1. \A a \in Adapters : ad[a] \in AdType /\ Detach(ad[a], a, S \cap Attached(a)) \in AdType
  BY DetachType DEF Types
<1>2. QED
  BY <1>1 DEF AdsWithout

LEMMA StreamsWithoutType ==
    ASSUME Types, NEW S, S \subseteq Sids
    PROVE  /\ StreamsWithout(S) \in [Sids -> StreamType]
           /\ \A i \in Sids : StreamsWithout(S)[i] = IF i \in S THEN Released(i) ELSE stream[i]
  BY ReleasedType DEF StreamsWithout, Types

LEMMA ConnsWithoutType ==
    ASSUME Types, NEW S
    PROVE  /\ ConnsWithout(S) \in [Conns -> ConnType]
           /\ \A c \in RtspConns : ConnsWithout(S)[c].sid = IF conn[c].sid \in S THEN -1 ELSE conn[c].sid
  BY DEF ConnsWithout, Types, ConnType, Conns

-----------------------------------------------------------------------------
(* The streams of the connections: one lemma per operation *)

\* What every operation but the steps of close_stream does to streams and connections:
\* a stream keeps its state and gains owners, or is created, or goes with the numbers of
\* its connections; a connection gets the number of a live stream it is an owner of.
LEMMA OwnGeneral ==
    ASSUME OwnInv, Types', Busy',
           \A t \in Threads : Closing(t) \/ Closing(t)' => proc'[t] = proc[t],
           \A i \in Sids : \/ stream'[i].state = stream[i].state /\ stream[i].owner \subseteq stream'[i].owner
                           \/ stream[i].state = "free" /\ stream'[i].state = "live"
                           \/ stream[i].state = "live" /\ \A c \in RtspConns : conn'[c].sid # i,
           \A c \in RtspConns : \/ conn'[c].sid \in {conn[c].sid, -1}
                                \/ /\ stream'[conn'[c].sid].state = "live"
                                   /\ c \in stream'[conn'[c].sid].owner
    PROVE  OwnInv'
<1>1. CloseOne'
  <2>1. ASSUME NEW t \in Threads, Closing(t)' PROVE stream'[proc'[t].sid].state = "closing"
    <3>1. proc'[t] = proc[t] /\ Closing(t)
      BY <2>1 DEF Closing
    <3>2. stream[proc[t].sid].state = "closing" /\ proc[t].sid \in Sids
      BY <3>1 DEF OwnInv, CloseOne, Busy, Closing
    <3>3. QED
      BY <3>1, <3>2
  <2>2. ASSUME NEW t \in Threads, NEW u \in Threads, Closing(t)', Closing(u)', proc'[t].sid = proc'[u].sid
        PROVE  t = u
    BY <2>2 DEF OwnInv, CloseOne, Closing
  <2>3. QED
    BY <2>1, <2>2 DEF CloseOne
<1>2. Owned'
  <2>1. SUFFICES ASSUME NEW c \in RtspConns, conn'[c].sid # -1
                 PROVE  /\ stream'[conn'[c].sid].state # "free" /\ c \in stream'[conn'[c].sid].owner
                        /\ \A t \in Threads : proc'[t].pc = "release" => proc'[t].sid # conn'[c].sid
    BY DEF Owned
  <2> DEFINE i == conn'[c].sid
  <2>2. i \in Sids
    BY <2>1 DEF Types, ConnType, Conns
  <2>3. CASE i = conn[c].sid
    <3>1. /\ stream[i].state # "free" /\ c \in stream[i].owner
          /\ \A t \in Threads : proc[t].pc = "release" => proc[t].sid # i
      BY <2>1, <2>3 DEF OwnInv, Owned
    <3>2. stream'[i].state = stream[i].state /\ c \in stream'[i].owner
      BY <2>2, <3>1
    <3>3. QED
      BY <3>1, <3>2 DEF Closing
  <2>4. CASE stream'[i].state = "live" /\ c \in stream'[i].owner
    <3>1. \A t \in Threads : proc'[t].pc = "release" => proc'[t].sid # i
      BY <1>1, <2>4 DEF CloseOne, Closing
    <3>2. QED
      BY <2>4, <3>1
  <2>5. QED
    BY <2>1, <2>3, <2>4
<1>3. QED
  BY <1>1, <1>2 DEF OwnInv

LEMMA OwnConnOpen == ASSUME OwnInv, NEW c \in Conns, ConnOpen(c) PROVE OwnInv'
<1>1. conn' \in [Conns -> ConnType] /\ \A d \in RtspConns : conn'[d].sid \in {conn[d].sid, -1}
  BY DEF OwnInv, Types, ConnOpen, ConnType, Conns
<1>2. Types' /\ Busy' /\ proc' = proc /\ stream' = stream
  BY <1>1 DEF OwnInv, Types, Busy, ConnOpen
<1>3. QED
  BY <1>1, <1>2, OwnGeneral

LEMMA OldStreamOwn ==
    ASSUME OwnInv, NEW c \in Conns, NEW i, i \in Resumable(c) \/ conn[c].sid = i,
           NEW m \in Muxes \cup {NoMux}, NEW never \in BOOLEAN, OldStream(c, i, m, never)
    PROVE  /\ i \in Sids /\ stream' \in [Sids -> StreamType] /\ conn' \in [Conns -> ConnType]
           /\ \A j \in Sids : stream'[j].state = stream[j].state /\ stream[j].owner \subseteq stream'[j].owner
           /\ \A j \in Sids : stream'[j].adapter = stream[j].adapter
           /\ \A d \in RtspConns : \/ conn'[d].sid \in {conn[d].sid, -1}
                                   \/ /\ stream'[conn'[d].sid].state = "live"
                                      /\ d \in stream'[conn'[d].sid].owner
<1>1. i \in Sids /\ stream[i].state = "live" /\ stream[i] \in StreamType
  BY DEF OldStream, Live, Resumable, OwnInv, Types, ConnType
<1> DEFINE e == [stream[i] EXCEPT !.tp = IF m = NoMux THEN stream[i].tp ELSE m,
                                  !.do_play = stream[i].do_play /\ m = NoMux,
                                  !.timeout = stream[i].timeout /\ ~never,
                                  !.owner = IF i \in Resumable(c) THEN stream[i].owner \cup {c}
                                            ELSE stream[i].owner]
<1>2. /\ e \in StreamType /\ e.state = "live" /\ stream[i].owner \subseteq e.owner
      /\ e.adapter = stream[i].adapter /\ (i \in Resumable(c) => c \in e.owner)
  BY <1>1 DEF StreamType
<1>3. stream' = [stream EXCEPT ![i] = e] /\ conn' = [conn EXCEPT ![c].sid = i]
  BY DEF OldStream
<1> HIDE DEF e
<1>4. stream' \in [Sids -> StreamType] /\ conn' \in [Conns -> ConnType]
  BY <1>1, <1>2, <1>3 DEF OwnInv, Types, ConnType
<1>5. \A j \in Sids : /\ stream'[j].state = stream[j].state /\ stream[j].owner \subseteq stream'[j].owner
                      /\ stream'[j].adapter = stream[j].adapter
  BY <1>1, <1>2, <1>3 DEF OwnInv, Types
<1>6. ASSUME NEW d \in RtspConns
      PROVE  \/ conn'[d].sid \in {conn[d].sid, -1}
             \/ /\ stream'[conn'[d].sid].state = "live" /\ d \in stream'[conn'[d].sid].owner
  <2>1. CASE d = c /\ i \in Resumable(c)
    BY <1>1, <1>2, <1>3, <2>1 DEF OwnInv, Types, Conns, ConnType
  <2>2. CASE d # c \/ conn[c].sid = i
    BY <1>3, <2>2 DEF OwnInv, Types, Conns, ConnType
  <2>3. QED
    BY <2>1, <2>2
<1>7. QED
  BY <1>1, <1>4, <1>5, <1>6

LEMMA NewStreamOwn ==
    ASSUME OwnInv, NEW c \in Conns, NEW i \in Sids,
           NEW m \in Muxes \cup {NoMux}, NEW never \in BOOLEAN, NewStream(c, i, m, never)
    PROVE  /\ stream' \in [Sids -> StreamType] /\ conn' \in [Conns -> ConnType]
           /\ stream[i].state = "free" /\ stream'[i].state = "live" /\ stream'[i].adapter = -1
           /\ \A j \in Sids \ {i} : stream'[j] = stream[j]
           /\ \A d \in RtspConns : \/ conn'[d].sid \in {conn[d].sid, -1}
                                   \/ /\ stream'[conn'[d].sid].state = "live"
                                      /\ d \in stream'[conn'[d].sid].owner
<1> DEFINE e == [Released(i) EXCEPT !.state = "live", !.tp = m, !.timeout = ~never, !.owner = {c},
                        !.type = IF c \in HttpConns THEN "http" ELSE "none",
                        !.dest = IF c \in HttpConns THEN Main ELSE Released(i).dest]
<1>1. Released(i) \in StreamType /\ Released(i).adapter = -1
  BY ReleasedType DEF OwnInv
<1>2. e \in StreamType /\ e.state = "live" /\ e.owner = {c} /\ e.adapter = -1
  BY <1>1 DEF StreamType
<1>3. stream' = [stream EXCEPT ![i] = e] /\ conn' = [conn EXCEPT ![c].sid = i] /\ stream[i].state = "free"
  BY DEF NewStream
<1> HIDE DEF e
<1>4. stream' \in [Sids -> StreamType] /\ conn' \in [Conns -> ConnType]
  BY <1>2, <1>3 DEF OwnInv, Types, ConnType
<1>5. ASSUME NEW d \in RtspConns
      PROVE  \/ conn'[d].sid \in {conn[d].sid, -1}
             \/ /\ stream'[conn'[d].sid].state = "live" /\ d \in stream'[conn'[d].sid].owner
  <2>1. CASE d = c
    BY <1>2, <1>3, <2>1 DEF OwnInv, Types, Conns, ConnType
  <2>2. CASE d # c
    BY <1>3, <2>2 DEF OwnInv, Types, Conns, ConnType
  <2>3. QED
    BY <2>1, <2>2
<1>6. /\ \A j \in Sids \ {i} : stream'[j] = stream[j]
      /\ stream'[i].state = "live" /\ stream'[i].adapter = -1
  BY <1>2, <1>3 DEF OwnInv, Types
<1>7. QED
  BY <1>3, <1>4, <1>5, <1>6

LEMMA OwnPlayRequest ==
    ASSUME OwnInv, NEW c \in Conns, NEW m \in Muxes \cup {NoMux}, NEW never \in BOOLEAN,
           PlayRequest(c, m, never)
    PROVE  OwnInv'
<1>1. PICK i \in Sids :
        /\ \/ conn[c].sid = i /\ OldStream(c, i, m, never)
           \/ i \in Resumable(c) /\ OldStream(c, i, m, never)
           \/ ~Live(conn[c].sid) /\ NewStream(c, i, m, never)
        /\ proc' = [proc EXCEPT ![Main] = [pc |-> "play", sid |-> i, ad |-> -1]]
  BY DEF PlayRequest
<1>2. /\ stream' \in [Sids -> StreamType] /\ conn' \in [Conns -> ConnType]
      /\ \A j \in Sids : \/ stream'[j].state = stream[j].state /\ stream[j].owner \subseteq stream'[j].owner
                         \/ stream[j].state = "free" /\ stream'[j].state = "live"
      /\ \A d \in RtspConns : \/ conn'[d].sid \in {conn[d].sid, -1}
                              \/ /\ stream'[conn'[d].sid].state = "live"
                                 /\ d \in stream'[conn'[d].sid].owner
  <2>1. CASE OldStream(c, i, m, never) /\ (i \in Resumable(c) \/ conn[c].sid = i)
    BY <2>1, OldStreamOwn
  <2>2. CASE NewStream(c, i, m, never)
    BY <2>2, NewStreamOwn
  <2>3. QED
    BY <1>1, <2>1, <2>2
<1>3. proc[Main].pc = "idle" /\ ad' = ad /\ fault' = fault /\ lost' = lost
  BY DEF PlayRequest
<1>4. Types' /\ Busy'
  BY <1>1, <1>2, <1>3, Indices DEF OwnInv, Types, Busy, ProcType, PcType
<1>5. \A t \in Threads : Closing(t) \/ Closing(t)' => proc'[t] = proc[t]
  BY <1>1, <1>3 DEF OwnInv, Types, Closing
<1>6. QED
  BY <1>2, <1>4, <1>5, OwnGeneral

LEMMA OwnKeepAlive == ASSUME OwnInv, NEW c \in Conns, KeepAlive(c) PROVE OwnInv'
<1>1. PICK i \in Resumable(c) : OldStream(c, i, NoMux, FALSE)
  BY DEF KeepAlive
<1>2. proc' = proc /\ ad' = ad /\ fault' = fault /\ lost' = lost
  BY DEF KeepAlive
<1>3. Types' /\ Busy'
  BY <1>1, <1>2, OldStreamOwn DEF OwnInv, Types, Busy
<1>4. QED
  BY <1>1, <1>2, <1>3, OldStreamOwn, OwnGeneral

LEMMA OwnTeardown == ASSUME OwnInv, NEW c \in Conns, Teardown(c) PROVE OwnInv'
<1>1. PICK i \in {conn[c].sid} \cup Resumable(c) :
        /\ OldStream(c, i, NoMux, FALSE)
        /\ proc' = [proc EXCEPT ![Main] = [pc |-> "disable", sid |-> i, ad |-> -1]]
  BY DEF Teardown
<1>2. proc[Main].pc = "idle" /\ ad' = ad /\ fault' = fault /\ lost' = lost
  BY DEF Teardown
<1>3. /\ i \in Sids /\ stream' \in [Sids -> StreamType] /\ conn' \in [Conns -> ConnType]
      /\ \A j \in Sids : stream'[j].state = stream[j].state /\ stream[j].owner \subseteq stream'[j].owner
      /\ \A d \in RtspConns : \/ conn'[d].sid \in {conn[d].sid, -1}
                              \/ /\ stream'[conn'[d].sid].state = "live"
                                 /\ d \in stream'[conn'[d].sid].owner
  BY <1>1, OldStreamOwn
<1>4. Types' /\ Busy'
  BY <1>1, <1>2, <1>3, Indices DEF OwnInv, Types, Busy, ProcType, PcType
<1>5. \A t \in Threads : Closing(t) \/ Closing(t)' => proc'[t] = proc[t]
  BY <1>1, <1>2 DEF OwnInv, Types, Closing
<1>6. QED
  BY <1>3, <1>4, <1>5, OwnGeneral

\* the record SETUP leaves in stream i, and the streams it closes
SetupOld(i) == IF Live(i) THEN stream[i] ELSE [Released(i) EXCEPT !.state = "live"]
SetupTp(i, m) == IF m = NoMux THEN SetupOld(i).tp ELSE m
SetupLeaves(i, m, pidsOnly) ==
    SetupOld(i).adapter # -1 /\ m # NoMux /\ ~pidsOnly /\ Differs(SetupOld(i).adapter, SetupTp(i, m))

SetupDone(c, i, m, pidsOnly, same, e) ==
    /\ i \notin same /\ \A j \in same : stream[j].state = "live"
    /\ Live(i) \/ stream[i].state = "free"
    /\ e.state = "live" /\ c \in e.owner
    /\ Live(i) => stream[i].owner \subseteq e.owner
    /\ e.tp = SetupTp(i, m) /\ (e.do_play => m = NoMux /\ SetupOld(i).do_play)
    /\ e.adapter = IF SetupLeaves(i, m, pidsOnly) THEN -1 ELSE SetupOld(i).adapter
    /\ stream' = [StreamsWithout(same) EXCEPT ![i] = e]
    /\ conn' = [ConnsWithout(same) EXCEPT ![c].sid = i]
    /\ ad' = AdsWithout(same \cup (IF SetupLeaves(i, m, pidsOnly) THEN {i} ELSE {}))

LEMMA SetupEffect ==
    ASSUME OwnInv, NEW c \in RtspConns, NEW i \in Sids, NEW m \in Muxes \cup {NoMux}, NEW ty \in Transports,
           NEW never \in BOOLEAN, NEW pidsOnly \in BOOLEAN, NEW sockFail \in BOOLEAN,
           SetupRequest(c, i, m, ty, never, pidsOnly, sockFail)
    PROVE  \E same \in SUBSET Sids, e \in StreamType : SetupDone(c, i, m, pidsOnly, same, e)
<1> DEFINE new == SetupOld(i)
           tp == SetupTp(i, m)
           leaves == SetupLeaves(i, m, pidsOnly)
           moves == ty = "udp" /\ (new.type = "none" \/ (new.type = "udp" /\ new.dest # c))
           same == IF moves /\ ~sockFail THEN {j \in Sids \ {i} : Live(j) /\ stream[j].dest = c} ELSE {}
           type == IF ty = "udp" /\ new.type = "tcp" THEN "tcp" ELSE ty
           own == IF ~Live(i) \/ i \in Resumable(c) THEN new.owner \cup {c} ELSE new.owner
           dest == IF type = "udp" THEN c ELSE Main
           timeout == new.timeout /\ ~never
           play == new.do_play /\ m = NoMux
           at == IF leaves THEN -1 ELSE new.adapter
           e == [new EXCEPT !.tp = tp, !.type = type, !.dest = dest, !.timeout = timeout,
                            !.do_play = play, !.owner = own, !.adapter = at]
<1>1. /\ new \in StreamType /\ new.state = "live" /\ (Live(i) => new = stream[i])
      /\ ~Live(i) => new.adapter = -1
  <2>1. CASE Live(i)
    BY <2>1 DEF OwnInv, Types, Live, SetupOld
  <2>2. CASE ~Live(i)
    BY <2>2, ReleasedType DEF OwnInv, SetupOld, StreamType
  <2>3. QED
    BY <2>1, <2>2
<1>2. tp \in Muxes \cup {NoMux} /\ type \in {"udp", "tcp"} /\ own \subseteq Conns /\ new.owner \subseteq own
  <2>1. new.tp \in Muxes \cup {NoMux} /\ new.owner \subseteq Conns
    BY <1>1 DEF StreamType
  <2>2. QED
    BY <2>1, SessionsAssumption DEF SetupTp, Conns
<1>3. c \in own
  <2>1. CASE conn[c].sid = i /\ Live(i)
    BY <1>1, <1>2, <2>1, Indices DEF OwnInv, Owned
  <2>2. CASE ~Live(i) \/ i \in Resumable(c)
    BY <2>2
  <2>3. QED
    BY <2>1, <2>2, Indices DEF SetupRequest, Live
<1>4. /\ e \in StreamType /\ e.state = "live" /\ e.owner = own /\ e.tp = tp
      /\ e.do_play = play /\ e.adapter = at
  <2>1. dest \in Conns \cup {Main} /\ timeout \in BOOLEAN /\ play \in BOOLEAN
    BY <1>1 DEF Conns, StreamType
  <2>2. at \in Adapters \cup {-1}
    BY <1>1 DEF StreamType
  <2>3. new \in StreamType /\ new.state = "live"
    BY <1>1
  <2>4. own \in SUBSET Conns
    BY <1>2
  <2> DEFINE r == [new EXCEPT !.tp = tp, !.type = type, !.dest = dest, !.timeout = timeout]
  <2>5. e = [r EXCEPT !.do_play = play, !.owner = own, !.adapter = at]
    OBVIOUS
  <2> HIDE DEF e, new, tp, type, own, leaves, dest, timeout, play, at
  <2>6. r \in StreamType /\ r.state = new.state /\ r.tp = tp
    BY ONLY <1>2, <2>1, <2>3 DEF StreamType
  <2> HIDE DEF r
  <2>7. QED
    BY ONLY <2>1, <2>2, <2>3, <2>4, <2>5, <2>6 DEF StreamType
<1>5. same \in SUBSET Sids /\ i \notin same /\ \A j \in same : stream[j].state = "live"
  BY DEF Live
<1>6. Live(i) \/ stream[i].state = "free"
  BY DEF SetupRequest, Resumable
<1>7. /\ stream' = [StreamsWithout(same) EXCEPT ![i] = e]
      /\ conn' = [ConnsWithout(same) EXCEPT ![c].sid = i]
      /\ ad' = AdsWithout(same \cup (IF leaves THEN {i} ELSE {}))
  BY DEF SetupRequest, SetupOld, SetupTp, SetupLeaves
<1> HIDE DEF same, e
<1>8. QED
  <2>1. Live(i) => stream[i].owner \subseteq e.owner
    BY <1>1, <1>2, <1>4
  <2>2. e.do_play => m = NoMux /\ new.do_play
    BY <1>4
  <2>3. c \in e.owner
    BY <1>3, <1>4
  <2>4. QED
    BY <1>4, <1>5, <1>6, <1>7, <2>1, <2>2, <2>3 DEF SetupDone

LEMMA OwnSetupRequest ==
    ASSUME OwnInv, NEW c \in RtspConns, NEW i \in Sids, NEW m \in Muxes \cup {NoMux}, NEW ty \in Transports,
           NEW never \in BOOLEAN, NEW pidsOnly \in BOOLEAN, NEW sockFail \in BOOLEAN,
           SetupRequest(c, i, m, ty, never, pidsOnly, sockFail)
    PROVE  OwnInv'
<1>0. PICK same \in SUBSET Sids, e \in StreamType : SetupDone(c, i, m, pidsOnly, same, e)
  BY SetupEffect
<1>1. /\ i \notin same /\ \A j \in same : stream[j].state = "live"
      /\ Live(i) \/ stream[i].state = "free"
      /\ e.state = "live" /\ c \in e.owner
      /\ Live(i) => stream[i].owner \subseteq e.owner
      /\ stream' = [StreamsWithout(same) EXCEPT ![i] = e]
      /\ conn' = [ConnsWithout(same) EXCEPT ![c].sid = i]
      /\ ad' = AdsWithout(same \cup (IF SetupLeaves(i, m, pidsOnly) THEN {i} ELSE {}))
  BY <1>0 DEF SetupDone
<1>2. proc' = proc /\ fault' = fault /\ lost' = lost
  BY DEF SetupRequest
<1>3. /\ stream' \in [Sids -> StreamType] /\ conn' \in [Conns -> ConnType]
      /\ ad' \in [Adapters -> AdType]
  <2>1. stream' \in [Sids -> StreamType]
    BY <1>1, StreamsWithoutType DEF OwnInv
  <2>2. conn' \in [Conns -> ConnType]
    <3>1. ConnsWithout(same) \in [Conns -> ConnType] /\ c \in Conns
      BY ConnsWithoutType DEF OwnInv, Conns
    <3>2. conn' = [ConnsWithout(same) EXCEPT ![c] = [ConnsWithout(same)[c] EXCEPT !.sid = i]]
      BY <1>1
    <3>3. [ConnsWithout(same)[c] EXCEPT !.sid = i] \in ConnType
      BY <3>1 DEF ConnType
    <3>4. QED
      BY <3>1, <3>2, <3>3
  <2>3. same \cup (IF SetupLeaves(i, m, pidsOnly) THEN {i} ELSE {}) \subseteq Sids
    OBVIOUS
  <2>4. QED
    BY <1>1, <2>1, <2>2, <2>3, AdsWithoutType DEF OwnInv
<1>4. Types' /\ Busy'
  BY <1>2, <1>3 DEF OwnInv, Types, Busy
<1>5. /\ \A j \in Sids : stream'[j] = IF j = i THEN e ELSE IF j \in same THEN Released(j) ELSE stream[j]
      /\ \A d \in RtspConns : conn'[d].sid = IF d = c THEN i
                                             ELSE IF conn[d].sid \in same THEN -1 ELSE conn[d].sid
  <2>1. \A j \in Sids : stream'[j] = IF j = i THEN e ELSE IF j \in same THEN Released(j) ELSE stream[j]
    BY <1>1, StreamsWithoutType DEF OwnInv
  <2>2. \A d \in RtspConns : conn'[d].sid = IF d = c THEN i
                                            ELSE IF conn[d].sid \in same THEN -1 ELSE conn[d].sid
    BY <1>1, ConnsWithoutType DEF OwnInv, ConnType, Conns
  <2>3. QED
    BY <2>1, <2>2
<1>6. ASSUME NEW j \in Sids
      PROVE  \/ stream'[j].state = stream[j].state /\ stream[j].owner \subseteq stream'[j].owner
             \/ stream[j].state = "free" /\ stream'[j].state = "live"
             \/ stream[j].state = "live" /\ \A d \in RtspConns : conn'[d].sid # j
  <2>1. CASE j = i
    BY <1>1, <1>5, <2>1 DEF Live
  <2>2. CASE j \in same
    BY <1>1, <1>5, <2>2, Indices
  <2>3. CASE j # i /\ j \notin same
    BY <1>5, <2>3
  <2>4. QED
    BY <2>1, <2>2, <2>3
<1>7. ASSUME NEW d \in RtspConns
      PROVE  \/ conn'[d].sid \in {conn[d].sid, -1}
             \/ stream'[conn'[d].sid].state = "live" /\ d \in stream'[conn'[d].sid].owner
  BY <1>1, <1>5
<1>8. QED
  BY <1>2, <1>4, <1>6, <1>7, OwnGeneral

\* A step of start_play: Main goes on or replies, and of a stream nothing changes that
\* says whose it is.
LEMMA OwnPlayStep ==
    ASSUME OwnInv, stream' \in [Sids -> StreamType], ad' \in [Adapters -> AdType], fault' \in BOOLEAN,
           proc[Main].pc \in {"play", "select", "attach", "params", "tune"},
           conn' = conn, lost' = lost,
           \/ proc' = [proc EXCEPT ![Main] = Idle]
           \/ \E label \in {"select", "attach", "params", "tune"} : proc' = [proc EXCEPT ![Main].pc = label],
           \A i \in Sids : stream'[i].state = stream[i].state /\ stream'[i].owner = stream[i].owner
    PROVE  OwnInv'
<1>1. /\ proc' \in [Threads -> ProcType] /\ \A t \in Threads \ {Main} : proc'[t] = proc[t]
      /\ proc'[Main].pc \in {"idle", "select", "attach", "params", "tune"}
      /\ proc'[Main].pc # "idle" => proc'[Main].sid = proc[Main].sid
  <2>1. CASE proc' = [proc EXCEPT ![Main] = Idle]
    BY <2>1, IdleType, Indices DEF OwnInv, Types
  <2>2. CASE \E label \in {"select", "attach", "params", "tune"} : proc' = [proc EXCEPT ![Main].pc = label]
    BY <2>2, Indices DEF OwnInv, Types, ProcType, PcType
  <2>3. QED
    BY <2>1, <2>2
<1>2. Types' /\ Busy'
  BY <1>1 DEF OwnInv, Types, Busy
<1>3. \A t \in Threads : Closing(t) \/ Closing(t)' => proc'[t] = proc[t]
  BY <1>1 DEF Closing
<1>4. QED
  BY <1>2, <1>3, OwnGeneral

LEMMA OwnPlayCheck == ASSUME OwnInv, NEW conf, PlayCheck(conf) PROVE OwnInv'
<1> DEFINE i == Played
           a == stream[i].adapter
           once == Detach(ad[a], a, {i})
<1>1. i \in Sids /\ proc[Main].pc = "play" /\ conn' = conn /\ lost' = lost
  BY Indices DEF OwnInv, Busy, PlayCheck, Playing, Played
<1>2. Up(a) => once \in AdType /\ Detach(once, a, {i}) \in AdType
  <2>1. a \in Adapters \cup {-1}
    BY <1>1 DEF OwnInv, Types, StreamType
  <2>2. ASSUME Up(a) PROVE once \in AdType
    BY <1>1, <2>1, <2>2, DetachType DEF Up, OwnInv, Types
  <2>3. ASSUME Up(a) PROVE Detach(once, a, {i}) \in AdType
    <3> HIDE DEF once
    <3> QED BY <1>1, <2>2, <2>3, DetachType DEF OwnInv
  <2>4. QED
    BY <2>2, <2>3
<1>3. \/ ad' = ad
      \/ Up(a) /\ (ad' = [ad EXCEPT ![a] = once] \/ ad' = [ad EXCEPT ![a] = Detach(once, a, {i})])
  BY DEF PlayCheck
<1>4. ad' \in [Adapters -> AdType]
  <2> HIDE DEF once
  <2> QED BY <1>2, <1>3 DEF OwnInv, Types
<1>5. stream' = stream \/ stream' = [stream EXCEPT ![i].adapter = -1]
  BY DEF PlayCheck
<1>6. /\ stream' \in [Sids -> StreamType]
      /\ \A j \in Sids : stream'[j].state = stream[j].state /\ stream'[j].owner = stream[j].owner
  <2> HIDE DEF i
  <2> QED BY <1>1, <1>5 DEF OwnInv, Types, StreamType
<1>7. \/ proc' = [proc EXCEPT ![Main] = Idle]
      \/ \E label \in {"select", "attach", "params", "tune"} : proc' = [proc EXCEPT ![Main].pc = label]
  BY DEF PlayCheck, Reply, Goto
<1>8. fault' \in BOOLEAN
  BY DEF PlayCheck, OwnInv, Types
<1>9. QED
  BY <1>1, <1>4, <1>6, <1>7, <1>8, OwnPlayStep

\* the adapter get_free_adapter returns
LEMMA GetFreeAdapterType ==
    ASSUME NEW tp, NEW conf \in SUBSET Adapters, NEW broken
    PROVE  GetFreeAdapter(tp, conf, broken) \in Adapters \cup {-1}
<1> DEFINE same == {a \in Adapters : Up(a) /\ ad[a].tp = tp}
           free == {a \in Adapters \ conf : IF Up(a) THEN ad[a].cnt = 0 ELSE a \notin broken}
           slave == {a \in conf : Up(a) /\ ad[a].cnt = 0}
<1>1. \A S \in SUBSET Adapters : S # {} => Min(S) \in S
  BY Indices, FS_Subset, MinIsLeast
<1>2. same \in SUBSET Adapters /\ free \in SUBSET Adapters /\ slave \in SUBSET Adapters
  OBVIOUS
<1>3. GetFreeAdapter(tp, conf, broken) = IF same # {} THEN Min(same) ELSE IF free # {} THEN Min(free) ELSE First(slave)
  BY DEF GetFreeAdapter
<1> HIDE DEF same, free, slave
<1>4. QED
  BY <1>1, <1>2, <1>3 DEF First

LEMMA OwnPlaySelect ==
    ASSUME OwnInv, NEW conf \in SUBSET SlaveAdapters, NEW broken, PlaySelect(conf, broken) PROVE OwnInv'
<1> DEFINE i == Played
           a == GetFreeAdapter(stream[i].tp, conf, broken)
<1>1. i \in Sids /\ proc[Main].pc = "select" /\ conn' = conn /\ lost' = lost /\ fault' = fault
  BY Indices DEF OwnInv, Busy, PlaySelect, Playing, Played
<1>2. a \in Adapters \cup {-1}
  BY GetFreeAdapterType, SessionsAssumption
<1>3. \/ ad' = ad
      \/ a # -1 /\ ad' = [ad EXCEPT ![a] = Opened]
  BY DEF PlaySelect
<1>4. ad' \in [Adapters -> AdType]
  <2> HIDE DEF a
  <2> QED BY <1>2, <1>3, ClosedType DEF OwnInv, Types
<1>5. \/ stream' = stream \/ stream' = [stream EXCEPT ![i].do_play = TRUE]
      \/ stream' = [stream EXCEPT ![i].adapter = a]
  BY DEF PlaySelect
<1>6. /\ stream' \in [Sids -> StreamType]
      /\ \A j \in Sids : stream'[j].state = stream[j].state /\ stream'[j].owner = stream[j].owner
  <2>1. stream \in [Sids -> StreamType] /\ i \in Sids /\ a \in Adapters \cup {-1}
    BY <1>1, <1>2 DEF OwnInv, Types
  <2> HIDE DEF i, a
  <2>2. CASE stream' = [stream EXCEPT ![i].do_play = TRUE]
    BY <2>1, <2>2, PlayWanted
  <2>3. CASE stream' = [stream EXCEPT ![i].adapter = a]
    BY <2>1, <2>3 DEF StreamType
  <2>4. QED
    BY <1>5, <2>1, <2>2, <2>3
<1>7. \/ proc' = [proc EXCEPT ![Main] = Idle]
      \/ \E label \in {"select", "attach", "params", "tune"} : proc' = [proc EXCEPT ![Main].pc = label]
  BY DEF PlaySelect, Reply, Goto
<1>8. fault' \in BOOLEAN
  BY <1>1 DEF OwnInv, Types
<1>9. QED
  BY <1>1, <1>4, <1>6, <1>7, <1>8, OwnPlayStep

LEMMA OwnPlayAttach == ASSUME OwnInv, PlayAttach PROVE OwnInv'
<1> DEFINE i == Played
           a == stream[i].adapter
           master == IF ad[a].master = -1 THEN i ELSE ad[a].master
           tp == IF ad[a].cnt = 0 THEN NoMux ELSE ad[a].tp
           r == [ad[a] EXCEPT !.master = master, !.cnt = ad[a].cnt + 1, !.tp = tp]
<1>1. i \in Sids /\ proc[Main].pc = "attach" /\ conn' = conn /\ lost' = lost /\ fault' = fault /\ stream' = stream
  BY Indices DEF OwnInv, Busy, PlayAttach, Playing, Played
<1>2. a \in Adapters \cup {-1}
  BY <1>1 DEF OwnInv, Types, StreamType
<1>3. ad' = ad \/ (a # -1 /\ ad' = [ad EXCEPT ![a] = r])
  BY DEF PlayAttach, Up
<1>4. a # -1 => r \in AdType
  <2>1. a # -1 => ad[a] \in AdType
    BY <1>2 DEF OwnInv, Types
  <2>2. a # -1 => master \in Sids \cup {-1} /\ tp \in Muxes \cup {NoMux} /\ ad[a].cnt + 1 \in Nat
    BY <1>1, <2>1 DEF AdType
  <2> HIDE DEF i, a, master, tp
  <2>3. QED
    BY <2>1, <2>2 DEF AdType
<1>5. ad' \in [Adapters -> AdType]
  <2> HIDE DEF a, r
  <2> QED BY <1>2, <1>3, <1>4 DEF OwnInv, Types
<1>6. \E label \in {"select", "attach", "params", "tune"} : proc' = [proc EXCEPT ![Main].pc = label]
  BY DEF PlayAttach, Goto
<1>7. stream' \in [Sids -> StreamType] /\ fault' \in BOOLEAN
  BY <1>1 DEF OwnInv, Types
<1>8. QED
  BY <1>1, <1>5, <1>6, <1>7, OwnPlayStep

\* The five ways set_adapter_parameters can go.
ParamsRec(r, master, tune, tp, owners) ==
    [r EXCEPT !.master = master, !.do_tune = tune, !.tp = tp, !.owners = owners]

LEMMA ParamsRecType ==
    ASSUME NEW r \in AdType, NEW master \in Sids \cup {-1}, NEW tune \in BOOLEAN,
           NEW tp \in Muxes \cup {NoMux}, NEW owners \in SUBSET Sids
    PROVE  /\ ParamsRec(r, master, tune, tp, owners) \in AdType
           /\ ParamsRec(r, master, tune, tp, owners).enabled = r.enabled
           /\ ParamsRec(r, master, tune, tp, owners).cnt = r.cnt
           /\ ParamsRec(r, master, tune, tp, owners).master = master
           /\ ParamsRec(r, master, tune, tp, owners).do_tune = tune
           /\ ParamsRec(r, master, tune, tp, owners).tp = tp
           /\ ParamsRec(r, master, tune, tp, owners).owners = owners
  BY DEF ParamsRec, AdType

\* what set_adapter_parameters leaves: nothing when the adapter is gone, otherwise a
\* record of the adapter, and the stream plays only when all went well
ParamsDone(i, a, master, tune, tp, owners) ==
    /\ Up(a) /\ ad' = [ad EXCEPT ![a] = ParamsRec(ad[a], master, tune, tp, owners)]
    /\ master \in {ad[a].master, i} /\ (master # ad[a].master => ad[a].master = -1)
    /\ owners \subseteq ad[a].owners \cup {i}
    /\ \/ /\ stream' = stream /\ proc' = [proc EXCEPT ![Main] = Idle]
          /\ tp = ad[a].tp /\ ~tune
       \/ /\ stream' = stream /\ proc' = [proc EXCEPT ![Main] = Idle]
          /\ tp = stream[i].tp /\ tune = (ad[a].tp # stream[i].tp)
       \/ /\ stream' = [stream EXCEPT ![i].do_play = TRUE,
                               ![i].thread = IF @ = Main THEN a ELSE @]
          /\ proc' = [proc EXCEPT ![Main].pc = "tune"]
          /\ tp = stream[i].tp /\ tune = (ad[a].tp # stream[i].tp) /\ (tune => master = i)

LEMMA ParamsEffect ==
    ASSUME OwnInv, NEW pids, PlayParams(pids)
    PROVE  \/ /\ ~Up(stream[Played].adapter) /\ ad' = ad /\ stream' = stream
              /\ proc' = [proc EXCEPT ![Main] = Idle]
           \/ \E master \in Sids \cup {-1}, tune \in BOOLEAN, tp \in Muxes \cup {NoMux}, owners \in SUBSET Sids :
                 ParamsDone(Played, stream[Played].adapter, master, tune, tp, owners)
<1> DEFINE i == Played
           a == stream[i].adapter
           r == ad[a]
           master == IF r.master = -1 THEN i ELSE r.master
           retune == r.tp # stream[i].tp
           rest == IF retune THEN {} ELSE r.owners
<1>1. i \in Sids
  BY Indices DEF OwnInv, Busy, PlayParams, Playing, Played
<1>2. a \in Adapters \cup {-1} /\ stream[i].tp \in Muxes \cup {NoMux}
  BY <1>1 DEF OwnInv, Types, StreamType
<1>3. Up(a) => r \in AdType
  BY <1>2 DEF Up, OwnInv, Types
<1>4. Up(a) => /\ master \in Sids \cup {-1} /\ r.master \in Sids \cup {-1} /\ r.tp \in Muxes \cup {NoMux}
               /\ r.owners \in SUBSET Sids /\ rest \in SUBSET Sids /\ rest \cup {i} \in SUBSET Sids
               /\ rest \subseteq r.owners
  BY <1>1, <1>3 DEF AdType
<1>5. CASE ~Up(a) /\ Reply /\ UNCHANGED <<stream, ad>>
  BY <1>5 DEF Reply
<1>6. CASE /\ Up(a) /\ retune /\ master # i
           /\ ad' = [ad EXCEPT ![a].do_tune = FALSE]
           /\ Reply
           /\ UNCHANGED stream
  <2>1. ad' = [ad EXCEPT ![a] = ParamsRec(r, r.master, FALSE, r.tp, r.owners)]
    <3>1. ParamsRec(r, r.master, FALSE, r.tp, r.owners) = [r EXCEPT !.do_tune = FALSE]
      BY <1>3, <1>6 DEF ParamsRec, AdType
    <3>2. QED
      BY <1>6, <3>1
  <2>2. ParamsDone(i, a, r.master, FALSE, r.tp, r.owners)
    BY <1>6, <2>1 DEF ParamsDone, Reply
  <2>3. QED
    BY <1>4, <1>6, <2>2
<1>7. CASE /\ Up(a) /\ retune /\ master = i
           /\ ad' = [ad EXCEPT ![a].master = i, ![a].do_tune = FALSE, ![a].owners = {}]
           /\ Reply
           /\ UNCHANGED stream
  <2>1. ad' = [ad EXCEPT ![a] = ParamsRec(r, i, FALSE, r.tp, {})]
    <3>1. ParamsRec(r, i, FALSE, r.tp, {}) = [r EXCEPT !.master = i, !.do_tune = FALSE, !.owners = {}]
      BY <1>3, <1>7 DEF ParamsRec, AdType
    <3>2. QED
      BY <1>7, <3>1
  <2>2. ParamsDone(i, a, i, FALSE, r.tp, {})
    BY <1>7, <2>1 DEF ParamsDone, Reply
  <2>3. QED
    BY <1>1, <1>4, <1>7, <2>2
<1>8. CASE /\ Up(a) /\ (retune => master = i)
           /\ \E owners \in {rest, rest \cup {i}} :
                 ad' = [ad EXCEPT ![a].master = master, ![a].do_tune = retune,
                                  ![a].tp = stream[i].tp, ![a].owners = owners]
           /\ Reply
           /\ UNCHANGED stream
  <2>1. PICK owners \in {rest, rest \cup {i}} :
                 ad' = [ad EXCEPT ![a].master = master, ![a].do_tune = retune,
                                  ![a].tp = stream[i].tp, ![a].owners = owners]
    BY <1>8
  <2>2. ad' = [ad EXCEPT ![a] = ParamsRec(r, master, retune, stream[i].tp, owners)]
    BY <2>1 DEF ParamsRec
  <2>3. owners \subseteq r.owners \cup {i} /\ owners \in SUBSET Sids
    BY <1>4, <1>8
  <2>4. ParamsDone(i, a, master, retune, stream[i].tp, owners)
    BY <1>8, <2>2, <2>3 DEF ParamsDone, Reply
  <2>5. retune \in BOOLEAN
    OBVIOUS
  <2> HIDE DEF master, retune
  <2>6. QED
    BY <1>2, <1>4, <1>8, <2>3, <2>4, <2>5
<1>9. CASE /\ Up(a) /\ (retune => master = i)
           /\ ad' = [ad EXCEPT ![a].master = master, ![a].do_tune = retune,
                               ![a].tp = stream[i].tp, ![a].owners = rest \cup {i}]
           /\ stream' = [stream EXCEPT ![i].do_play = TRUE, ![i].thread = IF @ = Main THEN a ELSE @]
           /\ Goto(Main, "tune")
  <2>1. ad' = [ad EXCEPT ![a] = ParamsRec(r, master, retune, stream[i].tp, rest \cup {i})]
    BY <1>9 DEF ParamsRec
  <2>2. rest \cup {i} \subseteq r.owners \cup {i}
    BY <1>4, <1>9
  <2>3. ParamsDone(i, a, master, retune, stream[i].tp, rest \cup {i})
    BY <1>9, <2>1, <2>2 DEF ParamsDone, Goto
  <2>4. retune \in BOOLEAN
    OBVIOUS
  <2> HIDE DEF master, retune, rest
  <2>5. QED
    BY <1>2, <1>4, <1>9, <2>3, <2>4
<1>10. QED
  BY <1>5, <1>6, <1>7, <1>8, <1>9 DEF PlayParams

LEMMA OwnPlayParams == ASSUME OwnInv, NEW pids, PlayParams(pids) PROVE OwnInv'
<1> DEFINE i == Played
           a == stream[i].adapter
<1>1. i \in Sids /\ proc[Main].pc = "params" /\ conn' = conn /\ lost' = lost
  BY Indices DEF OwnInv, Busy, PlayParams, Playing, Played
<1>2. fault' \in BOOLEAN
  BY DEF PlayParams, OwnInv, Types
<1>3. CASE ad' = ad /\ stream' = stream /\ proc' = [proc EXCEPT ![Main] = Idle]
  BY <1>1, <1>2, <1>3, OwnPlayStep DEF OwnInv, Types
<1>4. CASE \E master \in Sids \cup {-1}, tune \in BOOLEAN, tp \in Muxes \cup {NoMux}, owners \in SUBSET Sids :
              ParamsDone(i, a, master, tune, tp, owners)
  <2>1. PICK master \in Sids \cup {-1}, tune \in BOOLEAN, tp \in Muxes \cup {NoMux}, owners \in SUBSET Sids :
              ParamsDone(i, a, master, tune, tp, owners)
    BY <1>4
  <2>2. a \in Adapters /\ ad[a] \in AdType /\ stream \in [Sids -> StreamType]
    BY <1>1, <2>1 DEF ParamsDone, Up, OwnInv, Types, StreamType
  <2>3. ad' \in [Adapters -> AdType]
    BY <2>1, <2>2, ParamsRecType DEF ParamsDone, OwnInv, Types
  <2>4. \/ stream' = stream
        \/ stream' = [stream EXCEPT ![i].do_play = TRUE, ![i].thread = IF @ = Main THEN a ELSE @]
    BY <2>1 DEF ParamsDone
  <2>5. /\ stream' \in [Sids -> StreamType]
        /\ \A j \in Sids : stream'[j].state = stream[j].state /\ stream'[j].owner = stream[j].owner
    <3> DEFINE th == IF stream[i].thread = Main THEN a ELSE stream[i].thread
               e == [stream[i] EXCEPT !.do_play = TRUE, !.thread = th]
    <3>1. th \in Threads /\ stream[i] \in StreamType
      BY <1>1, <2>2, Indices DEF StreamType
    <3>2. stream' = stream \/ stream' = [stream EXCEPT ![i] = e]
      BY <2>4
    <3>3. e \in StreamType /\ e.state = stream[i].state /\ e.owner = stream[i].owner
      <4> HIDE DEF th, i
      <4> QED BY <3>1 DEF StreamType
    <3> HIDE DEF e, i
    <3>4. QED
      BY <1>1, <2>2, <3>2, <3>3
  <2>6. \/ proc' = [proc EXCEPT ![Main] = Idle]
        \/ \E label \in {"select", "attach", "params", "tune"} : proc' = [proc EXCEPT ![Main].pc = label]
    BY <2>1 DEF ParamsDone
  <2>7. QED
    BY <1>1, <1>2, <2>3, <2>5, <2>6, OwnPlayStep
<1>5. QED
  BY <1>3, <1>4, ParamsEffect

LEMMA OwnPlayTune == ASSUME OwnInv, NEW hwFail, PlayTune(hwFail) PROVE OwnInv'
<1> DEFINE i == Played
           a == stream[i].adapter
           tunes == Up(a) /\ ad[a].master = i /\ ad[a].do_tune
           others == IF tunes /\ ad[a].cnt > 1 THEN Attached(a) \ {i} ELSE {}
           r == IF others = {} THEN ad[a] ELSE Detach(ad[a], a, others)
           owners == IF hwFail THEN r.owners \ {i} ELSE r.owners
<1>1. i \in Sids /\ proc[Main].pc = "tune" /\ lost' = lost /\ fault' = fault
  BY Indices DEF OwnInv, Busy, PlayTune, Playing, Played
<1>2. a \in Adapters \cup {-1} /\ others \subseteq Sids /\ \A j \in others : stream[j].state = "live"
  BY <1>1 DEF OwnInv, Types, StreamType, Attached
<1>3. /\ stream' = StreamsWithout(others) /\ conn' = ConnsWithout(others)
      /\ proc' = [proc EXCEPT ![Main] = Idle]
      /\ ad' = IF ~Up(a) THEN ad ELSE [ad EXCEPT ![a] = [r EXCEPT !.do_tune = FALSE, !.owners = owners]]
  BY DEF PlayTune, Reply
<1>4. Up(a) => [r EXCEPT !.do_tune = FALSE, !.owners = owners] \in AdType
  <2>1. Up(a) => r \in AdType
    <3>1. Up(a) => ad[a] \in AdType
      BY <1>2 DEF Up, OwnInv, Types
    <3> HIDE DEF others, a
    <3>2. QED
      BY <1>2, <3>1, DetachType DEF OwnInv
  <2> HIDE DEF r
  <2>2. QED
    BY <2>1 DEF AdType
<1> HIDE DEF others, r, owners
<1>5. /\ stream' \in [Sids -> StreamType] /\ conn' \in [Conns -> ConnType]
      /\ \A j \in Sids : stream'[j] = IF j \in others THEN Released(j) ELSE stream[j]
      /\ \A c \in RtspConns : conn'[c].sid = IF conn[c].sid \in others THEN -1 ELSE conn[c].sid
  BY <1>2, <1>3, StreamsWithoutType, ConnsWithoutType DEF OwnInv
<1>6. Types' /\ Busy'
  <2>1. ad' \in [Adapters -> AdType]
    <3> HIDE DEF a
    <3> QED BY <1>2, <1>3, <1>4 DEF OwnInv, Types
  <2>2. proc' \in [Threads -> ProcType] /\ Busy'
    BY <1>3, IdleType, Indices DEF OwnInv, Types, Busy
  <2>3. QED
    BY <1>1, <1>5, <2>1, <2>2 DEF OwnInv, Types
<1>7. \A t \in Threads : Closing(t) \/ Closing(t)' => proc'[t] = proc[t]
  BY <1>1, <1>3, IdleType DEF OwnInv, Types, Closing
<1>8. \A j \in others : \A c \in RtspConns : conn'[c].sid # j
  BY <1>2, <1>5, Indices
<1>9. QED
  BY <1>2, <1>5, <1>6, <1>7, <1>8, OwnGeneral

LEMMA OwnConnClose == ASSUME OwnInv, NEW c \in Conns, ConnClose(c) PROVE OwnInv'
<1>1. /\ proc[Main].pc = "idle" /\ stream' = stream /\ ad' = ad /\ fault' = fault /\ lost' = lost
      /\ conn' = [conn EXCEPT ![c] = [open |-> FALSE, sid |-> -1, cb |-> TRUE]]
  BY DEF ConnClose
<1>2. \/ proc' = proc
      \/ Live(conn[c].sid) /\ proc' = [proc EXCEPT ![Main] = [pc |-> "disable", sid |-> conn[c].sid, ad |-> -1]]
  BY DEF ConnClose
<1>3. conn' \in [Conns -> ConnType] /\ \A d \in RtspConns : conn'[d].sid \in {conn[d].sid, -1}
  BY <1>1 DEF OwnInv, Types, ConnType, Conns
<1>4. Live(conn[c].sid) => conn[c].sid \in Sids
  BY DEF Live, OwnInv, Types, ConnType
<1>5. Types' /\ Busy'
  BY <1>1, <1>2, <1>3, <1>4, Indices DEF OwnInv, Types, Busy, ProcType, PcType
<1>6. \A t \in Threads : Closing(t) \/ Closing(t)' => proc'[t] = proc[t]
  BY <1>1, <1>2 DEF OwnInv, Types, Closing
<1>7. QED
  BY <1>1, <1>3, <1>5, <1>6, OwnGeneral

LEMMA OwnRtpSocketError == ASSUME OwnInv, NEW i \in Sids, RtpSocketError(i) PROVE OwnInv'
<1>1. /\ stream' \in [Sids -> StreamType]
      /\ \A j \in Sids : stream'[j].state = stream[j].state /\ stream'[j].owner = stream[j].owner
  <2>1. stream \in [Sids -> StreamType] /\ stream' = [stream EXCEPT ![i].timeout = TRUE]
    BY DEF RtpSocketError, OwnInv, Types
  <2>2. QED
    BY <2>1, TimerSet
<1>2. Types' /\ Busy' /\ proc' = proc /\ conn' = conn
  BY <1>1 DEF RtpSocketError, OwnInv, Types, Busy
<1>3. QED
  BY <1>1, <1>2, OwnGeneral

LEMMA OwnStreamTimeout == ASSUME OwnInv, NEW t \in Threads, NEW i \in Sids, StreamTimeout(t, i) PROVE OwnInv'
<1>1. /\ proc[t].pc = "idle" /\ proc' = [proc EXCEPT ![t] = [pc |-> "disable", sid |-> i, ad |-> -1]]
      /\ UNCHANGED <<stream, conn, ad, fault, lost>>
  BY DEF StreamTimeout
<1>2. Types' /\ Busy'
  BY <1>1 DEF OwnInv, Types, Busy, ProcType, PcType
<1>3. \A u \in Threads : Closing(u) \/ Closing(u)' => proc'[u] = proc[u]
  BY <1>1 DEF OwnInv, Types, Closing
<1>4. QED
  BY <1>1, <1>2, <1>3, OwnGeneral

\* The adapters' threads, while they do not close a stream.
LEMMA OwnAdapter ==
    ASSUME OwnInv, NEW a \in Adapters, AdapterTimeout(a) \/ AdapterError(a) \/ CloseAdapter(a)
    PROVE  OwnInv'
<1>1. /\ proc[a].pc \in {"idle", "adclose"} /\ stream' = stream /\ conn' = conn /\ fault' = fault
      /\ proc' = [proc EXCEPT ![a].pc = "adclose"] \/ proc' = [proc EXCEPT ![a] = Idle]
      /\ ad' = ad \/ ad' = [ad EXCEPT ![a] = ClosedAdapter]
      /\ lost' = lost \/ lost' = lost \cup {a}
  BY DEF AdapterTimeout, AdapterError, CloseAdapter
<1>2. a \in Threads
  BY Indices
<1>3. /\ proc' \in [Threads -> ProcType] /\ \A t \in Threads \ {a} : proc'[t] = proc[t]
      /\ proc'[a].pc \in {"idle", "adclose"}
  BY <1>1, <1>2, IdleType DEF OwnInv, Types, ProcType, PcType
<1>4. ad' \in [Adapters -> AdType] /\ lost' \subseteq Adapters
  BY <1>1, ClosedType DEF OwnInv, Types
<1>5. Types' /\ Busy'
  BY <1>1, <1>3, <1>4 DEF OwnInv, Types, Busy
<1>6. \A t \in Threads : Closing(t) \/ Closing(t)' => proc'[t] = proc[t]
  BY <1>1, <1>3 DEF Closing
<1>7. QED
  BY <1>1, <1>5, <1>6, OwnGeneral

\* close_stream: the stream is disabled under its mutex, so one thread goes on.
LEMMA OwnCloseDisable == ASSUME OwnInv, NEW t \in Threads, CloseDisable(t) PROVE OwnInv'
<1> DEFINE i == proc[t].sid
<1>1. i \in Sids /\ proc[t].pc = "disable" /\ UNCHANGED <<conn, ad, fault, lost>>
  BY DEF CloseDisable, OwnInv, Busy
<1>2. CASE ~Live(i) /\ proc' = [proc EXCEPT ![t] = Idle] /\ stream' = stream
  <2>1. Types' /\ Busy'
    BY <1>1, <1>2, IdleType DEF OwnInv, Types, Busy
  <2>2. \A u \in Threads : Closing(u) \/ Closing(u)' => proc'[u] = proc[u]
    BY <1>1, <1>2, IdleType DEF OwnInv, Types, Closing
  <2>3. QED
    BY <1>1, <1>2, <2>1, <2>2, OwnGeneral
<1>3. CASE /\ Live(i) /\ stream' = [stream EXCEPT ![i].state = "closing"]
           /\ proc' = [proc EXCEPT ![t].pc = "detach", ![t].ad = stream[i].adapter]
  <2>1. /\ stream' \in [Sids -> StreamType] /\ stream[i].state = "live" /\ stream'[i].state = "closing"
        /\ \A j \in Sids : stream'[j].owner = stream[j].owner
        /\ \A j \in Sids \ {i} : stream'[j].state = stream[j].state
    <3> HIDE DEF i
    <3> QED BY <1>1, <1>3 DEF OwnInv, Types, StreamType, Live
  <2>2. /\ proc' \in [Threads -> ProcType] /\ proc'[t].pc = "detach" /\ proc'[t].sid = i
        /\ \A u \in Threads \ {t} : proc'[u] = proc[u]
    <3>1. stream[i].adapter \in Adapters \cup {-1}
      BY <1>1 DEF OwnInv, Types, StreamType
    <3>2. QED
      BY <1>3, <3>1 DEF OwnInv, Types, ProcType, PcType
  <2> HIDE DEF i
  <2>3. Types' /\ Busy'
    BY <1>1, <2>1, <2>2 DEF OwnInv, Types, Busy
  <2>4. CloseOne'
    <3>1. \A u \in Threads \ {t} : Closing(u) => proc[u].sid # i /\ proc[u].sid \in Sids
      BY <2>1 DEF OwnInv, CloseOne, Busy, Closing
    <3>2. \A u \in Threads : Closing(u)' => stream'[proc'[u].sid].state = "closing"
      BY <2>1, <2>2, <3>1 DEF OwnInv, CloseOne, Closing
    <3>3. \A u, v \in Threads : Closing(u)' /\ Closing(v)' /\ proc'[u].sid = proc'[v].sid => u = v
      BY <2>2, <3>1 DEF OwnInv, CloseOne, Closing
    <3>4. QED
      BY <3>2, <3>3 DEF CloseOne
  <2>5. Owned'
    <3>1. SUFFICES ASSUME NEW c \in RtspConns, conn[c].sid # -1
                   PROVE  /\ stream'[conn[c].sid].state # "free" /\ c \in stream'[conn[c].sid].owner
                          /\ \A u \in Threads : proc'[u].pc = "release" => proc'[u].sid # conn[c].sid
      BY <1>1 DEF Owned
    <3>2. conn[c].sid \in Sids
      BY <3>1 DEF OwnInv, Types, ConnType, Conns
    <3>3. QED
      BY <2>1, <2>2, <3>1, <3>2 DEF OwnInv, Owned
  <2>6. QED
    BY <2>3, <2>4, <2>5 DEF OwnInv
<1>4. QED
  BY <1>2, <1>3 DEF CloseDisable

LEMMA OwnCloseDetach == ASSUME OwnInv, NEW t \in Threads, CloseDetach(t) PROVE OwnInv'
<1> DEFINE a == proc[t].ad
           r == Detach(ad[a], a, {proc[t].sid})
<1>1. /\ proc[t].pc = "detach" /\ proc[t].sid \in Sids /\ UNCHANGED <<stream, conn, fault, lost>>
      /\ proc' = [proc EXCEPT ![t].pc = "unlink"]
      /\ ad' = ad \/ (Up(a) /\ ad' = [ad EXCEPT ![a] = r])
  BY DEF CloseDetach, Goto, OwnInv, Busy
<1>2. Up(a) => r \in AdType
  <2>1. Up(a) => ad[a] \in AdType
    BY DEF Up, OwnInv, Types, ProcType
  <2>2. QED
    BY <1>1, <2>1, DetachType DEF OwnInv
<1> HIDE DEF r
<1>3. ad' \in [Adapters -> AdType]
  BY <1>1, <1>2 DEF OwnInv, Types
<1>4. /\ proc' \in [Threads -> ProcType] /\ proc'[t].pc = "unlink"
      /\ \A u \in Threads : proc'[u].sid = proc[u].sid /\ (u # t => proc'[u] = proc[u])
  BY <1>1 DEF OwnInv, Types, ProcType, PcType
<1>5. Types' /\ Busy'
  BY <1>1, <1>3, <1>4 DEF OwnInv, Types, Busy
<1>6. CloseOne'
  BY <1>1, <1>4 DEF OwnInv, CloseOne, Closing
<1>7. Owned'
  BY <1>1, <1>4 DEF OwnInv, Owned
<1>8. QED
  BY <1>5, <1>6, <1>7 DEF OwnInv

\* sockets_del_for_sid: from here on no RTSP connection has the number.
LEMMA OwnCloseUnlink == ASSUME OwnInv, NEW t \in Threads, CloseUnlink(t) PROVE OwnInv'
<1>1. /\ proc[t].pc = "unlink" /\ proc[t].sid \in Sids /\ UNCHANGED <<stream, ad, fault, lost>>
      /\ proc' = [proc EXCEPT ![t].pc = "release"] /\ conn' = ConnsWithout({proc[t].sid})
  BY DEF CloseUnlink, Goto, OwnInv, Busy
<1>2. /\ conn' \in [Conns -> ConnType]
      /\ \A c \in RtspConns : conn'[c].sid = IF conn[c].sid = proc[t].sid THEN -1 ELSE conn[c].sid
  BY <1>1, ConnsWithoutType DEF OwnInv
<1>3. /\ proc' \in [Threads -> ProcType] /\ proc'[t].pc = "release"
      /\ \A u \in Threads : proc'[u].sid = proc[u].sid /\ (u # t => proc'[u] = proc[u])
  BY <1>1 DEF OwnInv, Types, ProcType, PcType
<1>4. Types' /\ Busy'
  BY <1>1, <1>2, <1>3 DEF OwnInv, Types, Busy
<1>5. CloseOne'
  BY <1>1, <1>3 DEF OwnInv, CloseOne, Closing
<1>6. Owned'
  <2>1. SUFFICES ASSUME NEW c \in RtspConns, conn'[c].sid # -1
                 PROVE  /\ stream[conn'[c].sid].state # "free" /\ c \in stream[conn'[c].sid].owner
                        /\ \A u \in Threads : proc'[u].pc = "release" => proc'[u].sid # conn'[c].sid
    BY <1>1 DEF Owned
  <2>2. conn'[c].sid = conn[c].sid /\ conn[c].sid # proc[t].sid
    BY <1>2, <2>1
  <2>3. QED
    BY <1>3, <2>1, <2>2 DEF OwnInv, Owned
<1>7. QED
  BY <1>4, <1>5, <1>6 DEF OwnInv

LEMMA OwnCloseRelease == ASSUME OwnInv, NEW t \in Threads, CloseRelease(t) PROVE OwnInv'
<1> DEFINE i == proc[t].sid
<1>1. /\ proc[t].pc = "release" /\ i \in Sids /\ UNCHANGED <<conn, ad, fault, lost>>
      /\ proc' = [proc EXCEPT ![t] = Idle] /\ stream' = [stream EXCEPT ![i] = Released(i)]
  BY DEF CloseRelease, OwnInv, Busy
<1>2. /\ stream' \in [Sids -> StreamType] /\ \A j \in Sids \ {i} : stream'[j] = stream[j]
  BY <1>1, ReleasedType DEF OwnInv, Types
<1>3. proc' \in [Threads -> ProcType] /\ proc'[t].pc = "idle" /\ \A u \in Threads \ {t} : proc'[u] = proc[u]
  BY <1>1, IdleType DEF OwnInv, Types
<1>4. Types' /\ Busy'
  BY <1>1, <1>2, <1>3 DEF OwnInv, Types, Busy
<1>5. \A u \in Threads \ {t} : Closing(u) => proc[u].sid # i /\ proc[u].sid \in Sids
  BY <1>1 DEF OwnInv, CloseOne, Busy, Closing
<1>6. CloseOne'
  BY <1>2, <1>3, <1>5 DEF OwnInv, CloseOne, Closing
<1>7. Owned'
  <2>1. \A c \in RtspConns : conn[c].sid # -1 => conn[c].sid \in Sids \ {i}
    BY <1>1 DEF OwnInv, Owned, Types, ConnType, Conns
  <2>2. QED
    BY <1>1, <1>2, <1>3, <2>1 DEF OwnInv, Owned
<1>8. QED
  BY <1>4, <1>6, <1>7 DEF OwnInv

-----------------------------------------------------------------------------
(* Theorems about the ownership of streams *)

LEMMA InitOwn == ASSUME Init PROVE OwnInv
<1>1. Types
  <2>1. stream \in [Sids -> StreamType] /\ ad \in [Adapters -> AdType] /\ proc \in [Threads -> ProcType]
    BY FreeStreamType, ClosedType, IdleType DEF Init
  <2>2. conn \in [Conns -> ConnType] /\ fault \in BOOLEAN /\ lost \subseteq Adapters
    BY DEF Init, ConnType
  <2>3. QED
    BY <2>1, <2>2 DEF Types
<1>2. Busy /\ CloseOne
  BY IdleType DEF Init, Busy, CloseOne, Closing
<1>3. Owned
  BY DEF Init, Owned, Conns
<1>4. QED
  BY <1>1, <1>2, <1>3 DEF OwnInv

THEOREM OwnInvariant == Spec => []OwnInv
<1>1. Init => OwnInv
  BY InitOwn
<1>2. OwnInv /\ [Next]_vars => OwnInv'
  <2> SUFFICES ASSUME OwnInv, [Next]_vars PROVE OwnInv'
    OBVIOUS
  <2>1. CASE UNCHANGED vars
    BY <2>1 DEF vars, OwnInv, Types, Busy, CloseOne, Closing, Owned
  <2>2. ASSUME NEW c \in Conns, ConnOpen(c) \/ KeepAlive(c) \/ Teardown(c) \/ ConnClose(c) PROVE OwnInv'
    BY <2>2, OwnConnOpen, OwnKeepAlive, OwnTeardown, OwnConnClose
  <2>3. ASSUME NEW c \in Conns, NEW m \in Muxes \cup {NoMux}, NEW never \in {FALSE, NeverTimesOut},
               PlayRequest(c, m, never)
        PROVE  OwnInv'
    BY <2>3, OwnPlayRequest, SessionsAssumption
  <2>4. ASSUME NEW c \in RtspConns, NEW m \in Muxes \cup {NoMux}, NEW never \in {FALSE, NeverTimesOut},
               NEW i \in Sids, NEW ty \in Transports, NEW pidsOnly \in BOOLEAN, NEW sockFail \in BOOLEAN,
               SetupRequest(c, i, m, ty, never, pidsOnly, sockFail)
        PROVE  OwnInv'
    <3>1. never \in BOOLEAN
      BY SessionsAssumption
    <3>2. QED
      BY <2>4, <3>1, OwnSetupRequest
  <2>5. ASSUME NEW conf \in SUBSET SlaveAdapters, PlayCheck(conf) PROVE OwnInv'
    BY <2>5, OwnPlayCheck
  <2>6. ASSUME NEW conf \in SUBSET SlaveAdapters, NEW broken \in SUBSET Adapters, PlaySelect(conf, broken)
        PROVE  OwnInv'
    BY <2>6, OwnPlaySelect
  <2>7. CASE PlayAttach \/ (\E pids : PlayParams(pids)) \/ \E hwFail \in BOOLEAN : PlayTune(hwFail)
    BY <2>7, OwnPlayAttach, OwnPlayParams, OwnPlayTune
  <2>8. ASSUME NEW i \in Sids, RtpSocketError(i) \/ \E t \in Threads : StreamTimeout(t, i) PROVE OwnInv'
    BY <2>8, OwnRtpSocketError, OwnStreamTimeout
  <2>9. ASSUME NEW t \in Threads, CloseDisable(t) \/ CloseDetach(t) \/ CloseUnlink(t) \/ CloseRelease(t)
        PROVE  OwnInv'
    BY <2>9, OwnCloseDisable, OwnCloseDetach, OwnCloseUnlink, OwnCloseRelease
  <2>10. ASSUME NEW a \in Adapters, AdapterTimeout(a) \/ AdapterError(a) \/ CloseAdapter(a) PROVE OwnInv'
    BY <2>10, OwnAdapter
  <2>11. CASE Next
    <3>1. CASE \E c \in Conns : ConnOpen(c) \/ KeepAlive(c) \/ Teardown(c) \/ ConnClose(c)
      BY <2>2, <3>1
    <3>2. CASE \E c \in Conns, m \in Muxes \cup {NoMux}, never \in {FALSE, NeverTimesOut} :
          \/ PlayRequest(c, m, never)
          \/ \E i \in Sids, ty \in Transports, pidsOnly, sockFail \in BOOLEAN :
                c \in RtspConns /\ SetupRequest(c, i, m, ty, never, pidsOnly, sockFail)
      <4>1. PICK c \in Conns, m \in Muxes \cup {NoMux}, never \in {FALSE, NeverTimesOut} :
          \/ PlayRequest(c, m, never)
          \/ \E i \in Sids, ty \in Transports, pidsOnly, sockFail \in BOOLEAN :
                c \in RtspConns /\ SetupRequest(c, i, m, ty, never, pidsOnly, sockFail)
        BY <3>2
      <4>2. CASE PlayRequest(c, m, never)
        BY <2>3, <4>2
      <4>3. ASSUME NEW i \in Sids, NEW ty \in Transports, NEW pidsOnly \in BOOLEAN, NEW sockFail \in BOOLEAN,
                   c \in RtspConns, SetupRequest(c, i, m, ty, never, pidsOnly, sockFail)
            PROVE  OwnInv'
        BY <2>4, <4>3
      <4>4. QED
        BY <4>1, <4>2, <4>3
    <3>3. CASE \E conf \in SUBSET SlaveAdapters :
          \/ PlayCheck(conf)
          \/ \E broken \in SUBSET Adapters : PlaySelect(conf, broken)
      BY <2>5, <2>6, <3>3
    <3>4. QED
      BY <2>7, <2>8, <2>9, <2>10, <2>11, <3>1, <3>2, <3>3 DEF Next
  <2>12. QED
    BY <2>1, <2>11
<1>3. QED
  BY <1>1, <1>2, PTL DEF Spec

\* Every stream, connection, adapter and thread has its fields in their types.
THEOREM SessionsTypeCorrect == Spec => []TypeOK
<1>1. OwnInv => TypeOK
  BY DEF OwnInv, Types, TypeOK, StreamType, ConnType, AdType, ProcType, PcType
<1>2. QED
  BY <1>1, OwnInvariant, PTL

\* close_http never closes the stream of another client: the number an RTSP connection
\* keeps is that of a stream it created or resumed, whoever closed it in between and
\* whatever became of the requests under way.
THEOREM SessionsOwnStream == Spec => []RtspOwnsStream
<1>1. OwnInv => RtspOwnsStream
  BY DEF OwnInv, Owned, RtspOwnsStream, Live
<1>2. QED
  BY <1>1, OwnInvariant, PTL

-----------------------------------------------------------------------------
(* What the streams share: the inductive invariant *)

PlayPcs == {"select", "attach", "params", "tune"}

\* While start_play holds the mutex of its stream nobody closes it, and before it looks
\* for an adapter the stream has none that is open.
PlayingHere ==
    /\ proc[Main].pc \in PlayPcs => stream[Played].state = "live"
    /\ proc[Main].pc = "select" => ~Up(stream[Played].adapter)

\* An adapter closes, short of a loss, only when nobody uses it.
GoneEmpty == \A a \in Adapters \ lost : ~Up(a) => Attached(a) = {} /\ Leaving(a) = {}

Counted == \A a \in Adapters \ lost : Up(a) =>
    /\ ad[a].cnt = Cardinality(Users(a))
    /\ ad[a].master # -1 => ad[a].master \in Attached(a) \cup Leaving(a)

PidsOwned == \A a \in Adapters : Up(a) => ad[a].owners \subseteq Users(a)

\* The stream that is about to tune is the master and the adapter has its parameters.
TuneMine == proc[Main].pc = "tune" =>
    LET a == stream[Played].adapter
    IN  a \notin lost /\ Up(a) => /\ ad[a].do_tune => ad[a].master = Played
                                  /\ ad[a].tp \in {stream[Played].tp, NoMux}

\* get_free_adapter returned an adapter that has the parameters, or is free and will lose
\* its own.
ArriveMux == proc[Main].pc = "attach" =>
    LET a == stream[Played].adapter
    IN  a \notin lost /\ Up(a) => ad[a].cnt = 0 \/ ad[a].tp \in {stream[Played].tp, NoMux}

\* OwnMux, which start_play may suspend only until its stream is counted
OnMux == \A i \in Sids :
    Live(i) /\ stream[i].do_play /\ stream[i].adapter \notin lost /\ Up(stream[i].adapter) =>
        \/ ad[stream[i].adapter].tp \in {stream[i].tp, NoMux}
        \/ ad[stream[i].adapter].do_tune \/ (proc[Main].pc = "attach" /\ Played = i)

Share == PlayingHere /\ GoneEmpty /\ Counted /\ PidsOwned /\ TuneMine /\ ArriveMux /\ OnMux

ShareInv == OwnInv /\ (~fault => Share)

-----------------------------------------------------------------------------
(* Sets of streams *)

LEMMA UsersType ==
    ASSUME OwnInv, NEW a \in Adapters
    PROVE  /\ Attached(a) \subseteq Sids /\ Leaving(a) \subseteq Sids /\ Users(a) \subseteq Sids
           /\ Attached(a) \cap Leaving(a) = {} /\ Users(a) \subseteq Attached(a) \cup Leaving(a)
<1>1. Attached(a) \subseteq Sids /\ \A i \in Attached(a) : stream[i].state = "live"
  BY DEF Attached
<1>2. Leaving(a) \subseteq Sids /\ \A i \in Leaving(a) : stream[i].state = "closing"
  BY DEF Leaving, OwnInv, CloseOne, Closing, Busy
<1>3. Users(a) \subseteq Attached(a) \cup Leaving(a)
  BY DEF Users
<1>4. QED
  BY <1>1, <1>2, <1>3

\* Who uses an adapter, by what each stream and each thread say.
LEMMA InUsers ==
    ASSUME OwnInv, NEW a \in Adapters, NEW i \in Sids
    PROVE  /\ i \in Attached(a) <=> stream[i].state = "live" /\ stream[i].adapter = a
           /\ i \in Leaving(a) <=> \E t \in Threads : proc[t].pc = "detach" /\ proc[t].ad = a /\ proc[t].sid = i
           /\ i \in Users(a) <=> \/ i \in Attached(a) /\ ~(proc[Main].pc = "attach" /\ Played = i)
                                 \/ i \in Leaving(a)
<1>1. i \in Attached(a) <=> stream[i].state = "live" /\ stream[i].adapter = a
  BY DEF Attached
<1>2. i \in Leaving(a) <=> \E t \in Threads : proc[t].pc = "detach" /\ proc[t].ad = a /\ proc[t].sid = i
  BY DEF Leaving
<1>3. QED
  BY <1>1, <1>2 DEF Users, Arriving, Attached

LEMMA InUsersNext ==
    ASSUME NEW a \in Adapters, NEW i \in Sids
    PROVE  /\ i \in Attached(a)' <=> stream'[i].state = "live" /\ stream'[i].adapter = a
           /\ i \in Leaving(a)' <=> \E t \in Threads : proc'[t].pc = "detach" /\ proc'[t].ad = a /\ proc'[t].sid = i
           /\ i \in Users(a)' <=> \/ i \in Attached(a)' /\ ~(proc'[Main].pc = "attach" /\ Played' = i)
                                  \/ i \in Leaving(a)'
<1>1. i \in Attached(a)' <=> stream'[i].state = "live" /\ stream'[i].adapter = a
  BY DEF Attached
<1>2. i \in Leaving(a)' <=> \E t \in Threads : proc'[t].pc = "detach" /\ proc'[t].ad = a /\ proc'[t].sid = i
  BY DEF Leaving
<1>3. QED
  BY <1>1, <1>2 DEF Users, Arriving, Attached

LEMMA UsersTypeNext ==
    ASSUME OwnInv', NEW a \in Adapters
    PROVE  Attached(a)' \subseteq Sids /\ Leaving(a)' \subseteq Sids /\ Users(a)' \subseteq Sids
<1>1. Attached(a)' \subseteq Sids
  BY DEF Attached
<1>2. Leaving(a)' \subseteq Sids
  BY DEF Leaving, OwnInv, Busy
<1>3. QED
  BY <1>1, <1>2 DEF Users

-----------------------------------------------------------------------------
(* close_adapter_for_stream *)

\* What it leaves of an adapter, whatever the streams.
DetachLeaves(r, d, a, S) ==
    /\ d.tp \in {r.tp, NoMux} /\ (d.do_tune <=> r.do_tune) /\ d.owners \subseteq r.owners \ S
    /\ d.master # -1 => (d.master = r.master /\ r.master \notin S) \/ d.master \in Attached(a) \ S
    /\ d.cnt # 0 /\ r.master \notin S => d.master = r.master
    /\ d.cnt = Max({0, r.cnt - Cardinality(S)})

LEMMA DetachFields ==
    ASSUME Types, NEW r \in AdType, NEW a, NEW S, S \subseteq Sids
    PROVE  DetachLeaves(r, Detach(r, a, S), a, S)
<1> DEFINE rest == Attached(a) \ S
           cnt == Max({0, r.cnt - Cardinality(S)})
           master == CASE r.master \notin S           -> r.master
                       [] r.master \in S /\ rest # {} -> Max(rest)
                       [] OTHER                       -> -1
           last == [r EXCEPT !.master = -1, !.cnt = 0, !.tp = NoMux, !.owners = {}]
           less == [r EXCEPT !.master = master, !.cnt = cnt, !.owners = r.owners \ S]
           d == Detach(r, a, S)
<1>1. d = IF cnt = 0 THEN last ELSE less
  BY DEF Detach
<1>2. master # -1 => (master = r.master /\ r.master \notin S) \/ master \in rest
  <2>1. rest # {} => Max(rest) \in rest
    <3>1. rest \subseteq Sids
      BY DEF Attached
    <3> HIDE DEF rest
    <3>2. QED
      BY <3>1, SidsFinite, MaxIsGreatest
  <2> HIDE DEF rest
  <2>2. QED
    BY <2>1
<1>3. r.master \notin S => master = r.master
  OBVIOUS
<1>4. CASE cnt = 0
  <2>1. d = last
    BY <1>1, <1>4
  <2>2. /\ last.tp = NoMux /\ last.do_tune = r.do_tune /\ last.owners = {} /\ last.master = -1 /\ last.cnt = 0
    BY DEF AdType
  <2> HIDE DEF last, cnt, d
  <2>3. DetachLeaves(r, d, a, S)
    BY <1>4, <2>1, <2>2 DEF cnt, DetachLeaves
  <2>4. QED
    BY <2>3 DEF d
<1>5. CASE cnt # 0
  <2>1. d = less
    BY <1>1, <1>5
  <2> HIDE DEF master, cnt
  <2>2. /\ less.tp = r.tp /\ less.do_tune = r.do_tune /\ less.owners = r.owners \ S /\ less.master = master
        /\ less.cnt = cnt
    BY DEF AdType
  <2> HIDE DEF less, d
  <2>3. DetachLeaves(r, d, a, S)
    BY <1>2, <1>3, <2>1, <2>2 DEF cnt, DetachLeaves
  <2>4. QED
    BY <2>3 DEF d
<1>6. QED
  BY <1>4, <1>5

\* The count goes down by the streams that leave.
LEMMA DetachCount ==
    ASSUME Types, NEW r \in AdType, NEW a, NEW U, U \subseteq Sids, NEW S, S \subseteq U, r.cnt = Cardinality(U)
    PROVE  Detach(r, a, S).cnt = Cardinality(U \ S)
<1>1. /\ Cardinality(U \ S) = Cardinality(U) - Cardinality(S) /\ Cardinality(S) <= Cardinality(U)
      /\ Cardinality(U) \in Nat /\ Cardinality(S) \in Nat
  BY SidsFinite, CardinalityMinus
<1>2. Detach(r, a, S).cnt = Max({0, r.cnt - Cardinality(S)})
  BY DetachFields DEF DetachLeaves
<1>3. QED
  BY <1>1, <1>2, MaxOfTwo

-----------------------------------------------------------------------------
(* Steps that move no stream to or from an adapter *)

\* a stream stays where it is, or one that was not live is not live or nowhere
Stays(j) ==
    \/ /\ stream'[j].state = stream[j].state /\ stream'[j].adapter = stream[j].adapter
       /\ stream'[j].do_play => stream[j].do_play /\ stream'[j].tp = stream[j].tp
       /\ proc[Main].pc \in PlayPcs => stream'[j].tp = stream[j].tp
    \/ stream[j].state # "live" /\ (stream'[j].state # "live" \/ stream'[j].adapter = -1)

LEMMA UsersQuiet ==
    ASSUME OwnInv, OwnInv', NEW a \in Adapters,
           \A j \in Sids : Stays(j),
           \A t \in Threads : proc[t].pc = "detach" \/ proc'[t].pc = "detach" => proc'[t] = proc[t],
           proc[Main].pc \in PlayPcs \/ proc'[Main].pc \in PlayPcs => proc'[Main] = proc[Main]
    PROVE  Attached(a)' = Attached(a) /\ Leaving(a)' = Leaving(a) /\ Users(a)' = Users(a)
<1>1. \A i \in Sids : i \in Attached(a)' <=> i \in Attached(a)
  BY Indices DEF Attached, Stays
<1>2. Attached(a)' = Attached(a)
  BY <1>1 DEF Attached
<1>3. Leaving(a)' = Leaving(a)
  BY DEF Leaving
<1>4. \A i \in Sids : i \in Users(a)' <=> i \in Users(a)
  <2>1. SUFFICES ASSUME NEW i \in Sids PROVE i \in Users(a)' <=> i \in Users(a)
    OBVIOUS
  <2>2. i \in Users(a) <=> \/ i \in Attached(a) /\ ~(proc[Main].pc = "attach" /\ proc[Main].sid = i)
                           \/ i \in Leaving(a)
    BY InUsers DEF Played
  <2>3. i \in Users(a)' <=> \/ i \in Attached(a)' /\ ~(proc'[Main].pc = "attach" /\ proc'[Main].sid = i)
                            \/ i \in Leaving(a)'
    BY <1>1 DEF Users, Arriving, Attached, Played
  <2>4. QED
    BY <1>2, <1>3, <2>2, <2>3 DEF PlayPcs
<1>5. Users(a) \subseteq Sids /\ Users(a)' \subseteq Sids
  <2>1. Users(a) \subseteq Sids
    BY UsersType
  <2>2. Users(a)' \subseteq Attached(a)' \cup Leaving(a)'
    BY DEF Users
  <2>3. Attached(a) \subseteq Sids /\ Leaving(a) \subseteq Sids
    BY UsersType
  <2>4. QED
    BY <1>2, <1>3, <2>1, <2>2, <2>3
<1>6. QED
  BY <1>2, <1>3, <1>4, <1>5

LEMMA ShareQuiet ==
    ASSUME OwnInv, OwnInv', Share, ad' = ad, lost' = lost,
           \A j \in Sids : Stays(j),
           \A t \in Threads : proc[t].pc = "detach" \/ proc'[t].pc = "detach" => proc'[t] = proc[t],
           proc[Main].pc \in PlayPcs \/ proc'[Main].pc \in PlayPcs => proc'[Main] = proc[Main]
    PROVE  Share'
<1>1. \A a \in Adapters : Attached(a)' = Attached(a) /\ Leaving(a)' = Leaving(a) /\ Users(a)' = Users(a)
  BY UsersQuiet
<1>2. GoneEmpty' /\ Counted' /\ PidsOwned'
  BY <1>1 DEF Share, GoneEmpty, Counted, PidsOwned, Up
<1>3. ASSUME proc'[Main].pc \in PlayPcs
      PROVE  /\ proc'[Main] = proc[Main] /\ stream[Played].state = "live" /\ Played' = Played
             /\ Played \in Sids /\ stream'[Played].state = "live"
             /\ stream'[Played].adapter = stream[Played].adapter /\ stream'[Played].tp = stream[Played].tp
  <2>1. proc'[Main] = proc[Main] /\ proc[Main].pc \in PlayPcs /\ Played' = Played
    BY <1>3 DEF Played
  <2>2. Played \in Sids /\ stream[Played].state = "live"
    BY <2>1, Indices DEF OwnInv, Busy, Share, PlayingHere, Played, PlayPcs
  <2>3. QED
    BY <2>1, <2>2 DEF Stays
<1>4. PlayingHere'
  BY <1>3 DEF Share, PlayingHere, PlayPcs, Up
<1>5. TuneMine' /\ ArriveMux'
  BY <1>3 DEF Share, TuneMine, ArriveMux, PlayPcs, Up
<1>6. OnMux'
  <2>1. SUFFICES ASSUME NEW i \in Sids, Live(i)', stream'[i].do_play, stream'[i].adapter \notin lost,
                        Up(stream'[i].adapter)
                 PROVE  \/ ad[stream'[i].adapter].tp \in {stream'[i].tp, NoMux}
                        \/ ad[stream'[i].adapter].do_tune \/ (proc'[Main].pc = "attach" /\ Played' = i)
    BY DEF OnMux, Up
  <2>2. /\ stream'[i].state = stream[i].state /\ stream'[i].adapter = stream[i].adapter
        /\ stream[i].do_play /\ stream'[i].tp = stream[i].tp
    BY <2>1 DEF Stays, Live, Up
  <2>3. proc[Main].pc = "attach" /\ Played = i => proc'[Main].pc = "attach" /\ Played' = i
    BY DEF PlayPcs, Played
  <2>4. QED
    BY <2>1, <2>2, <2>3 DEF Share, OnMux, Live
<1>7. QED
  BY <1>2, <1>4, <1>5, <1>6 DEF Share

LEMMA ShareConnOpen == ASSUME OwnInv, OwnInv', Share, NEW c \in Conns, ConnOpen(c) PROVE Share'
  BY ShareQuiet DEF ConnOpen, Stays

\* setup_stream: a stream that gets other parameters stops playing
LEMMA OldStreamStays ==
    ASSUME OwnInv, NEW c \in Conns, NEW i, i \in Resumable(c) \/ conn[c].sid = i,
           NEW m \in Muxes \cup {NoMux}, NEW never \in BOOLEAN, OldStream(c, i, m, never),
           proc[Main].pc = "idle"
    PROVE  \A j \in Sids : Stays(j)
<1>1. stream' = [stream EXCEPT ![i].tp = IF m = NoMux THEN @ ELSE m,
                               ![i].do_play = @ /\ m = NoMux,
                               ![i].timeout = @ /\ ~never,
                               ![i].owner = IF i \in Resumable(c) THEN @ \cup {c} ELSE @]
  BY DEF OldStream
<1>2. \A j \in Sids : stream'[j].state = stream[j].state /\ stream'[j].adapter = stream[j].adapter
  BY OldStreamOwn
<1>3. \A j \in Sids : stream'[j].do_play => stream[j].do_play /\ stream'[j].tp = stream[j].tp
  BY <1>1 DEF OwnInv, Types, StreamType
<1>4. QED
  BY <1>2, <1>3 DEF Stays, PlayPcs

LEMMA SharePlayRequest ==
    ASSUME OwnInv, OwnInv', Share, NEW c \in Conns, NEW m \in Muxes \cup {NoMux}, NEW never \in BOOLEAN,
           PlayRequest(c, m, never)
    PROVE  Share'
<1>1. PICK i \in Sids :
        /\ \/ conn[c].sid = i /\ OldStream(c, i, m, never)
           \/ i \in Resumable(c) /\ OldStream(c, i, m, never)
           \/ ~Live(conn[c].sid) /\ NewStream(c, i, m, never)
        /\ proc' = [proc EXCEPT ![Main] = [pc |-> "play", sid |-> i, ad |-> -1]]
  BY DEF PlayRequest
<1>2. proc[Main].pc = "idle" /\ ad' = ad /\ lost' = lost
  BY DEF PlayRequest
<1>3. \A j \in Sids : Stays(j)
  <2>1. CASE OldStream(c, i, m, never) /\ (i \in Resumable(c) \/ conn[c].sid = i)
    BY <1>2, <2>1, OldStreamStays
  <2>2. CASE NewStream(c, i, m, never)
    BY <2>2, NewStreamOwn DEF Stays
  <2>3. QED
    BY <1>1, <2>1, <2>2
<1>4. /\ \A t \in Threads : proc[t].pc = "detach" \/ proc'[t].pc = "detach" => proc'[t] = proc[t]
      /\ proc[Main].pc \notin PlayPcs /\ proc'[Main].pc \notin PlayPcs
  BY <1>1, <1>2, Indices DEF OwnInv, Types, PlayPcs
<1>5. QED
  BY <1>2, <1>3, <1>4, ShareQuiet

LEMMA ShareKeepAlive == ASSUME OwnInv, OwnInv', Share, NEW c \in Conns, KeepAlive(c) PROVE Share'
<1>1. PICK i \in Resumable(c) : OldStream(c, i, NoMux, FALSE)
  BY DEF KeepAlive
<1>2. proc[Main].pc = "idle" /\ proc' = proc /\ ad' = ad /\ lost' = lost
  BY DEF KeepAlive
<1>3. \A j \in Sids : Stays(j)
  BY <1>1, <1>2, OldStreamStays
<1>4. QED
  BY <1>2, <1>3, ShareQuiet

LEMMA ShareTeardown == ASSUME OwnInv, OwnInv', Share, NEW c \in Conns, Teardown(c) PROVE Share'
<1>1. PICK i \in {conn[c].sid} \cup Resumable(c) :
        /\ OldStream(c, i, NoMux, FALSE)
        /\ proc' = [proc EXCEPT ![Main] = [pc |-> "disable", sid |-> i, ad |-> -1]]
  BY DEF Teardown
<1>2. proc[Main].pc = "idle" /\ ad' = ad /\ lost' = lost
  BY DEF Teardown
<1>3. \A j \in Sids : Stays(j)
  BY <1>1, <1>2, OldStreamStays
<1>4. /\ \A t \in Threads : proc[t].pc = "detach" \/ proc'[t].pc = "detach" => proc'[t] = proc[t]
      /\ proc[Main].pc \notin PlayPcs /\ proc'[Main].pc \notin PlayPcs
  BY <1>1, <1>2, Indices DEF OwnInv, Types, PlayPcs
<1>5. QED
  BY <1>2, <1>3, <1>4, ShareQuiet

LEMMA ShareConnClose == ASSUME OwnInv, OwnInv', Share, NEW c \in Conns, ConnClose(c) PROVE Share'
<1>1. proc[Main].pc = "idle" /\ stream' = stream /\ ad' = ad /\ lost' = lost
  BY DEF ConnClose
<1>2. proc' = proc \/ proc' = [proc EXCEPT ![Main] = [pc |-> "disable", sid |-> conn[c].sid, ad |-> -1]]
  BY DEF ConnClose
<1>3. /\ \A t \in Threads : proc[t].pc = "detach" \/ proc'[t].pc = "detach" => proc'[t] = proc[t]
      /\ proc[Main].pc \notin PlayPcs /\ proc'[Main].pc \notin PlayPcs
  BY <1>1, <1>2, Indices DEF OwnInv, Types, PlayPcs
<1>4. \A j \in Sids : Stays(j)
  BY <1>1 DEF Stays
<1>5. QED
  BY <1>1, <1>3, <1>4, ShareQuiet

LEMMA ShareRtpSocketError == ASSUME OwnInv, OwnInv', Share, NEW i \in Sids, RtpSocketError(i) PROVE Share'
<1>1. proc' = proc /\ ad' = ad /\ lost' = lost /\ stream' = [stream EXCEPT ![i].timeout = TRUE]
  BY DEF RtpSocketError
<1>2. \A j \in Sids : Stays(j)
  BY <1>1 DEF Stays, OwnInv, Types, StreamType
<1>3. QED
  BY <1>1, <1>2, ShareQuiet

LEMMA ShareStreamTimeout ==
    ASSUME OwnInv, OwnInv', Share, NEW t \in Threads, NEW i \in Sids, StreamTimeout(t, i) PROVE Share'
<1>1. /\ proc[t].pc = "idle" /\ proc' = [proc EXCEPT ![t] = [pc |-> "disable", sid |-> i, ad |-> -1]]
      /\ stream' = stream /\ ad' = ad /\ lost' = lost
  BY DEF StreamTimeout
<1>2. /\ \A u \in Threads : proc[u].pc = "detach" \/ proc'[u].pc = "detach" => proc'[u] = proc[u]
      /\ proc[Main].pc \in PlayPcs \/ proc'[Main].pc \in PlayPcs => proc'[Main] = proc[Main]
  BY <1>1, Indices DEF OwnInv, Types, PlayPcs
<1>3. \A j \in Sids : Stays(j)
  BY <1>1 DEF Stays
<1>4. QED
  BY <1>1, <1>2, <1>3, ShareQuiet

LEMMA ShareCloseUnlink == ASSUME OwnInv, OwnInv', Share, NEW t \in Threads, CloseUnlink(t) PROVE Share'
<1>1. /\ proc[t].pc = "unlink" /\ proc' = [proc EXCEPT ![t].pc = "release"]
      /\ stream' = stream /\ ad' = ad /\ lost' = lost
  BY DEF CloseUnlink, Goto
<1>2. /\ \A u \in Threads : proc[u].pc = "detach" \/ proc'[u].pc = "detach" => proc'[u] = proc[u]
      /\ proc[Main].pc \in PlayPcs \/ proc'[Main].pc \in PlayPcs => proc'[Main] = proc[Main]
  BY <1>1, Indices DEF OwnInv, Types, PlayPcs, ProcType
<1>3. \A j \in Sids : Stays(j)
  BY <1>1 DEF Stays
<1>4. QED
  BY <1>1, <1>2, <1>3, ShareQuiet

LEMMA ShareCloseRelease == ASSUME OwnInv, OwnInv', Share, NEW t \in Threads, CloseRelease(t) PROVE Share'
<1>1. /\ proc[t].pc = "release" /\ proc[t].sid \in Sids /\ proc' = [proc EXCEPT ![t] = Idle]
      /\ stream' = [stream EXCEPT ![proc[t].sid] = Released(proc[t].sid)] /\ ad' = ad /\ lost' = lost
  BY DEF CloseRelease, OwnInv, Busy
<1>2. /\ \A u \in Threads : proc[u].pc = "detach" \/ proc'[u].pc = "detach" => proc'[u] = proc[u]
      /\ proc[Main].pc \in PlayPcs \/ proc'[Main].pc \in PlayPcs => proc'[Main] = proc[Main]
  BY <1>1, Indices, IdleType DEF OwnInv, Types, PlayPcs
<1>3. stream[proc[t].sid].state = "closing" /\ Released(proc[t].sid).state = "free"
  BY <1>1, ReleasedType DEF OwnInv, CloseOne, Closing
<1>4. \A j \in Sids : Stays(j)
  BY <1>1, <1>3 DEF Stays, OwnInv, Types
<1>5. QED
  BY <1>1, <1>2, <1>4, ShareQuiet

LEMMA ShareAdapterAsked ==
    ASSUME OwnInv, OwnInv', Share, NEW a \in Adapters, AdapterTimeout(a) \/ AdapterError(a) PROVE Share'
<1>1. /\ proc[a].pc = "idle" /\ proc' = [proc EXCEPT ![a].pc = "adclose"]
      /\ stream' = stream /\ ad' = ad /\ lost' = lost
  BY DEF AdapterTimeout, AdapterError
<1>2. /\ \A u \in Threads : proc[u].pc = "detach" \/ proc'[u].pc = "detach" => proc'[u] = proc[u]
      /\ proc[Main].pc \in PlayPcs \/ proc'[Main].pc \in PlayPcs => proc'[Main] = proc[Main]
  BY <1>1, Indices DEF OwnInv, Types, PlayPcs, ProcType
<1>3. \A j \in Sids : Stays(j)
  BY <1>1 DEF Stays
<1>4. QED
  BY <1>1, <1>2, <1>3, ShareQuiet

-----------------------------------------------------------------------------
(* Steps by which streams leave adapters *)

\* what a step leaves of adapter a when the streams S leave it
Without(a, S) == IF Up(a) /\ S # {} THEN Detach(ad[a], a, S) ELSE ad[a]

LEMMA WithoutFields ==
    ASSUME OwnInv, NEW a \in Adapters, NEW S, S \subseteq Sids
    PROVE  /\ Without(a, S) \in AdType /\ Without(a, S).enabled = ad[a].enabled
           /\ Without(a, S).tp \in {ad[a].tp, NoMux} /\ (Without(a, S).do_tune <=> ad[a].do_tune)
           /\ Up(a) => Without(a, S).owners \subseteq ad[a].owners \ S
           /\ Up(a) /\ Without(a, S).master # -1 =>
                 \/ Without(a, S).master = ad[a].master /\ ad[a].master \notin S
                 \/ Without(a, S).master \in Attached(a) \ S
           /\ Without(a, S).cnt # 0 /\ ad[a].master \notin S => Without(a, S).master = ad[a].master
<1>1. ad[a] \in AdType /\ Types
  BY DEF OwnInv, Types
<1>2. CASE Up(a) /\ S # {}
  <2>1. Without(a, S) = Detach(ad[a], a, S)
    BY <1>2 DEF Without
  <2> DEFINE d == Detach(ad[a], a, S)
  <2>2. d \in AdType /\ d.enabled = ad[a].enabled /\ DetachLeaves(ad[a], d, a, S)
    BY <1>1, DetachType, DetachFields
  <2>3. Without(a, S) = d
    BY <2>1
  <2> HIDE DEF d
  <2>4. QED
    BY <2>2, <2>3 DEF DetachLeaves
<1>3. CASE ~(Up(a) /\ S # {})
  <2>1. Without(a, S) = ad[a]
    BY <1>3 DEF Without
  <2>2. QED
    BY <1>1, <1>3, <2>1
<1>4. QED
  BY <1>2, <1>3

LEMMA WithoutCount ==
    ASSUME OwnInv, NEW a \in Adapters, Up(a), ad[a].cnt = Cardinality(Users(a)), NEW S, S \subseteq Users(a)
    PROVE  Without(a, S).cnt = Cardinality(Users(a) \ S)
<1>1. ad[a] \in AdType /\ Types /\ Users(a) \subseteq Sids
  BY UsersType DEF OwnInv, Types
<1>2. CASE S # {}
  BY <1>1, <1>2, DetachCount DEF Without
<1>3. CASE S = {}
  <2>1. Users(a) \ S = Users(a)
    BY <1>3
  <2>2. QED
    BY <1>3, <2>1 DEF Without
<1>4. QED
  BY <1>2, <1>3

\* The count, the master and the pids stay right when each adapter a loses the streams
\* G[a] that it counted.
LEMMA ShareLeave ==
    ASSUME OwnInv, Share, lost' = lost, NEW G \in [Adapters -> SUBSET Sids],
           \A a \in Adapters : /\ Users(a)' = Users(a) \ G[a]
                               /\ (Attached(a) \cup Leaving(a))' = (Attached(a) \cup Leaving(a)) \ G[a]
                               /\ Up(a) => G[a] \subseteq Users(a)
                               /\ ad'[a].enabled = Without(a, G[a]).enabled /\ ad'[a].cnt = Without(a, G[a]).cnt
                               /\ ad'[a].master = Without(a, G[a]).master
                               /\ ad'[a].owners \subseteq Without(a, G[a]).owners
    PROVE  GoneEmpty' /\ Counted' /\ PidsOwned'
<1>1. \A a \in Adapters : Up(a)' <=> Up(a)
  BY WithoutFields DEF Up
<1>2. GoneEmpty'
  <2>1. SUFFICES ASSUME NEW a \in Adapters \ lost, ~Up(a) PROVE Attached(a)' = {} /\ Leaving(a)' = {}
    BY <1>1 DEF GoneEmpty
  <2>2. Attached(a) \cup Leaving(a) = {}
    BY <2>1 DEF Share, GoneEmpty
  <2>3. (Attached(a) \cup Leaving(a))' = {}
    BY <2>2
  <2>4. QED
    BY <2>3
<1>3. Counted'
  <2>1. SUFFICES ASSUME NEW a \in Adapters \ lost, Up(a)
                 PROVE  /\ ad'[a].cnt = Cardinality(Users(a)')
                        /\ ad'[a].master # -1 => ad'[a].master \in Attached(a)' \cup Leaving(a)'
    BY <1>1 DEF Counted
  <2>2. ad[a].cnt = Cardinality(Users(a)) /\ G[a] \subseteq Users(a)
    BY <2>1 DEF Share, Counted
  <2>3. ad'[a].cnt = Cardinality(Users(a)')
    BY <2>1, <2>2, WithoutCount
  <2>4. ASSUME ad'[a].master # -1 PROVE ad'[a].master \in (Attached(a) \cup Leaving(a)) \ G[a]
    <3>1. \/ ad'[a].master = ad[a].master /\ ad[a].master \notin G[a]
          \/ ad'[a].master \in Attached(a) \ G[a]
      BY <2>1, <2>4, WithoutFields
    <3>2. QED
      BY <2>1, <2>4, <3>1 DEF Share, Counted
  <2>5. QED
    BY <2>3, <2>4
<1>4. PidsOwned'
  <2>1. SUFFICES ASSUME NEW a \in Adapters, Up(a) PROVE ad'[a].owners \subseteq Users(a)'
    BY <1>1 DEF PidsOwned
  <2>2. ad'[a].owners \subseteq ad[a].owners \ G[a]
    BY <2>1, WithoutFields
  <2>3. QED
    BY <2>1, <2>2 DEF Share, PidsOwned
<1>5. QED
  BY <1>2, <1>3, <1>4

\* The streams that stay where they are keep receiving what they did.
LEMMA OnMuxKept ==
    ASSUME OwnInv, OnMux, lost' = lost,
           \A j \in Sids : Live(j)' /\ stream'[j].do_play /\ Up(stream[j].adapter)' =>
              /\ Live(j) /\ stream[j].do_play /\ stream'[j].adapter = stream[j].adapter
              /\ stream'[j].tp = stream[j].tp
              /\ proc[Main].pc = "attach" /\ Played = j => proc'[Main].pc = "attach" /\ Played' = j,
           \A a \in Adapters : /\ ad'[a].enabled = ad[a].enabled /\ ad'[a].tp \in {ad[a].tp, NoMux}
                               /\ ad'[a].do_tune <=> ad[a].do_tune,
           \A j \in Sids : stream'[j].adapter \in Adapters \cup {-1}
    PROVE  OnMux'
<1>1. SUFFICES ASSUME NEW i \in Sids, Live(i)', stream'[i].do_play, stream'[i].adapter \notin lost,
                      Up(stream[i].adapter)'
               PROVE  \/ ad'[stream'[i].adapter].tp \in {stream'[i].tp, NoMux}
                      \/ ad'[stream'[i].adapter].do_tune \/ (proc'[Main].pc = "attach" /\ Played' = i)
  BY DEF OnMux, Up
<1> DEFINE a == stream[i].adapter
<1>2. /\ Live(i) /\ stream[i].do_play /\ stream'[i].adapter = a
      /\ stream'[i].tp = stream[i].tp
      /\ proc[Main].pc = "attach" /\ Played = i => proc'[Main].pc = "attach" /\ Played' = i
  BY <1>1
<1>3. a \in Adapters /\ Up(a)
  BY <1>1, <1>2 DEF Up
<1>4. ad[a].tp \in {stream[i].tp, NoMux} \/ ad[a].do_tune \/ (proc[Main].pc = "attach" /\ Played = i)
  BY <1>1, <1>2, <1>3 DEF OnMux
<1>5. QED
  BY <1>2, <1>3, <1>4

LEMMA ShareCloseAdapter == ASSUME OwnInv, OwnInv', Share, NEW a \in Adapters, CloseAdapter(a) PROVE Share'
<1>1. /\ proc[a].pc = "adclose" /\ proc' = [proc EXCEPT ![a] = Idle] /\ stream' = stream
      /\ ad' = [ad EXCEPT ![a] = ClosedAdapter]
      /\ lost' = IF Attached(a) \cup Leaving(a) = {} THEN lost ELSE lost \cup {a}
  BY DEF CloseAdapter
<1>2. /\ \A u \in Threads : proc[u].pc = "detach" \/ proc'[u].pc = "detach" => proc'[u] = proc[u]
      /\ proc[Main].pc \in PlayPcs \/ proc'[Main].pc \in PlayPcs => proc'[Main] = proc[Main]
      /\ proc'[Main] = proc[Main]
  BY <1>1, Indices, IdleType DEF OwnInv, Types, PlayPcs
<1>3. \A j \in Sids : Stays(j)
  BY <1>1 DEF Stays
<1>4. \A b \in Adapters : Attached(b)' = Attached(b) /\ Leaving(b)' = Leaving(b) /\ Users(b)' = Users(b)
  BY <1>2, <1>3, UsersQuiet
<1>5. /\ ~ad'[a].enabled /\ \A b \in Adapters \ {a} : ad'[b] = ad[b]
      /\ lost \subseteq lost' /\ (a \notin lost' => Attached(a) = {} /\ Leaving(a) = {})
      /\ lost' \subseteq lost \cup {a}
  BY <1>1 DEF OwnInv, Types, ClosedAdapter
<1>6. \A b : b \in Adapters \cup {-1} /\ Up(b)' => b # a /\ b \in Adapters /\ Up(b) /\ ad'[b] = ad[b]
  BY <1>5, Indices DEF Up
<1>7. GoneEmpty' /\ Counted' /\ PidsOwned'
  <2>1. GoneEmpty'
    BY <1>4, <1>5 DEF Share, GoneEmpty, Up
  <2>2. Counted'
    BY <1>4, <1>5, <1>6 DEF Share, Counted
  <2>3. PidsOwned'
    BY <1>4, <1>6 DEF Share, PidsOwned
  <2>4. QED
    BY <2>1, <2>2, <2>3
<1>8. \A j \in Sids : stream[j].adapter \in Adapters \cup {-1}
  BY DEF OwnInv, Types, StreamType
<1>9. proc[Main].pc \in PlayPcs => Played \in Sids
  BY Indices DEF OwnInv, Busy, Played, PlayPcs
<1>10. PlayingHere'
  <2>2. Played' = Played /\ proc'[Main].pc = proc[Main].pc
    BY <1>2 DEF Played
  <2>1. proc[Main].pc = "select" => ~Up(stream[Played].adapter)'
    BY <1>1, <1>6, <1>8, <1>9, <2>2 DEF Share, PlayingHere, PlayPcs, Up
  <2>3. QED
    BY <1>1, <2>1, <2>2 DEF Share, PlayingHere, Up
<1>11. TuneMine' /\ ArriveMux'
  <2>1. Played' = Played /\ proc'[Main].pc = proc[Main].pc
    BY <1>2 DEF Played
  <2>2. TuneMine'
    BY <1>1, <1>5, <1>6, <1>8, <1>9, <2>1 DEF Share, TuneMine, PlayPcs
  <2>3. ArriveMux'
    BY <1>1, <1>5, <1>6, <1>8, <1>9, <2>1 DEF Share, ArriveMux, PlayPcs
  <2>4. QED
    BY <2>2, <2>3
<1>12. OnMux'
  <2>1. Played' = Played /\ proc'[Main].pc = proc[Main].pc
    BY <1>2 DEF Played
  <2>2. QED
    BY <1>1, <1>5, <1>6, <1>8, <2>1 DEF Share, OnMux, Live
<1>13. QED
  BY <1>7, <1>10, <1>11, <1>12 DEF Share

\* The stream is disabled: it counts until its adapter is told.
LEMMA ShareCloseDisable == ASSUME OwnInv, OwnInv', Share, NEW t \in Threads, CloseDisable(t) PROVE Share'
<1> DEFINE i == proc[t].sid
<1>1. i \in Sids /\ proc[t].pc = "disable" /\ ad' = ad /\ lost' = lost /\ (t # Main => ~InPlay(i))
  BY DEF CloseDisable, OwnInv, Busy
<1>2. CASE ~Live(i) /\ proc' = [proc EXCEPT ![t] = Idle] /\ stream' = stream
  <2>1. /\ \A u \in Threads : proc[u].pc = "detach" \/ proc'[u].pc = "detach" => proc'[u] = proc[u]
        /\ proc[Main].pc \in PlayPcs \/ proc'[Main].pc \in PlayPcs => proc'[Main] = proc[Main]
    BY <1>1, <1>2, Indices, IdleType DEF OwnInv, Types, PlayPcs
  <2>2. \A j \in Sids : Stays(j)
    BY <1>2 DEF Stays
  <2>3. QED
    BY <1>1, <2>1, <2>2, ShareQuiet
<1>3. CASE /\ Live(i) /\ stream' = [stream EXCEPT ![i].state = "closing"]
           /\ proc' = [proc EXCEPT ![t].pc = "detach", ![t].ad = stream[i].adapter]
  <2>1. /\ stream[i].state = "live" /\ stream'[i].state = "closing"
        /\ \A j \in Sids \ {i} : stream'[j] = stream[j]
    <3> HIDE DEF i
    <3> QED BY <1>1, <1>3 DEF OwnInv, Types, StreamType, Live
  <2>2. /\ proc'[t].pc = "detach" /\ proc'[t].sid = i /\ proc'[t].ad = stream[i].adapter
        /\ \A u \in Threads \ {t} : proc'[u] = proc[u]
    BY <1>3 DEF OwnInv, Types, ProcType
  <2>3. proc[Main].pc \in PlayPcs \/ proc'[Main].pc \in PlayPcs =>
           /\ proc'[Main] = proc[Main] /\ Played' = Played /\ Played \in Sids \ {i}
           /\ stream'[Played] = stream[Played]
    <3>1. ASSUME proc[Main].pc \in PlayPcs \/ proc'[Main].pc \in PlayPcs
          PROVE  t # Main /\ proc'[Main] = proc[Main] /\ proc[Main].pc \in PlayPcs
      BY <1>1, <2>2, <3>1, Indices DEF PlayPcs
    <3>2. proc[Main].pc \in PlayPcs => Played \in Sids
      BY Indices DEF OwnInv, Busy, Played, PlayPcs
    <3>3. QED
      BY <1>1, <2>1, <3>1, <3>2 DEF Played, InPlay, PlayPcs
  <2> HIDE DEF i
  <2>4. ASSUME NEW a \in Adapters
        PROVE  Users(a)' = Users(a) /\ (Attached(a) \cup Leaving(a))' = Attached(a) \cup Leaving(a)
    <3>1. ASSUME NEW j \in Sids
          PROVE  /\ j \in Users(a)' <=> j \in Users(a)
                 /\ j \in Attached(a)' \cup Leaving(a)' <=> j \in Attached(a) \cup Leaving(a)
      <4>1. CASE j = i
        <5>1. j \in Attached(a) <=> stream[i].adapter = a
          BY <2>1, <4>1, InUsers
        <5>2. j \notin Leaving(a)
          BY <2>1, <4>1, InUsers DEF OwnInv, CloseOne, Closing
        <5>3. ~(proc[Main].pc = "attach" /\ Played = j)
          BY <2>3, <4>1 DEF PlayPcs
        <5>4. j \notin Attached(a)'
          BY <2>1, <4>1, InUsersNext
        <5>5. j \in Leaving(a)' <=> stream[i].adapter = a
          <6>1. ASSUME NEW u \in Threads, proc'[u].pc = "detach", proc'[u].sid = i PROVE u = t
            BY <2>2, <6>1, OwnInv' DEF OwnInv, CloseOne, Closing
          <6>2. QED
            BY <2>2, <4>1, <6>1, InUsersNext
        <5>6. QED
          BY <5>1, <5>2, <5>3, <5>4, <5>5, InUsers, InUsersNext
      <4>2. CASE j # i
        <5>1. j \in Attached(a)' <=> j \in Attached(a)
          BY <2>1, <4>2, InUsers, InUsersNext
        <5>2. j \in Leaving(a)' <=> j \in Leaving(a)
          <6>1. j \in Leaving(a) <=> \E u \in Threads : proc[u].pc = "detach" /\ proc[u].ad = a /\ proc[u].sid = j
            BY InUsers
          <6>2. j \in Leaving(a)' <=> \E u \in Threads : proc'[u].pc = "detach" /\ proc'[u].ad = a /\ proc'[u].sid = j
            BY InUsersNext
          <6>3. QED
            BY <1>1, <2>2, <4>2, <6>1, <6>2
        <5>3. (proc[Main].pc = "attach" /\ Played = j) <=> (proc'[Main].pc = "attach" /\ Played' = j)
          BY <2>3 DEF PlayPcs
        <5>4. QED
          BY <5>1, <5>2, <5>3, InUsers, InUsersNext
      <4>3. QED
        BY <4>1, <4>2
    <3>2. QED
      BY <3>1, UsersType, UsersTypeNext
  <2>5. GoneEmpty' /\ Counted' /\ PidsOwned'
    BY <1>1, <2>4 DEF Share, GoneEmpty, Counted, PidsOwned, Up
  <2>6. PlayingHere' /\ TuneMine' /\ ArriveMux'
    BY <1>1, <2>3 DEF Share, PlayingHere, TuneMine, ArriveMux, PlayPcs, Up
  <2>7. OnMux'
    <3>1. \A j \in Sids : Live(j)' => j # i /\ stream'[j] = stream[j]
      BY <2>1 DEF Live
    <3>2. QED
      BY <1>1, <2>3, <3>1 DEF Share, OnMux, PlayPcs, Up, Live
  <2>8. QED
    BY <2>5, <2>6, <2>7 DEF Share
<1>4. QED
  BY <1>2, <1>3 DEF CloseDisable

\* close_adapter_for_stream in the thread that closes the stream: the one start_play is
\* about to tune for stays the master.
LEMMA ShareCloseDetach == ASSUME OwnInv, OwnInv', Share, NEW t \in Threads, CloseDetach(t) PROVE Share'
<1> DEFINE i == proc[t].sid
           a == proc[t].ad
           G == [b \in Adapters |-> IF b = a THEN {i} ELSE {}]
<1>1. /\ proc[t].pc = "detach" /\ i \in Sids /\ stream' = stream /\ lost' = lost
      /\ proc' = [proc EXCEPT ![t].pc = "unlink"] /\ a \in Adapters \cup {-1}
      /\ ad' = IF Up(a) THEN [ad EXCEPT ![a] = Detach(ad[a], a, {i})] ELSE ad
  BY DEF CloseDetach, Goto, OwnInv, Busy, Types, ProcType
<1>2. /\ proc'[t].pc = "unlink" /\ \A u \in Threads \ {t} : proc'[u] = proc[u]
      /\ stream[i].state = "closing"
      /\ \A u \in Threads : proc[u].pc = "detach" /\ proc[u].sid = i => u = t
  BY <1>1 DEF OwnInv, Types, ProcType, CloseOne, Closing
<1>3. G \in [Adapters -> SUBSET Sids]
  BY <1>1
<1>4. ASSUME NEW b \in Adapters PROVE ad'[b] = Without(b, G[b])
  <2>1. b = a /\ Up(a) => ad'[b] = Detach(ad[b], b, {i})
    BY <1>1 DEF OwnInv, Types
  <2>2. ~(b = a /\ Up(a)) => ad'[b] = ad[b]
    BY <1>1 DEF OwnInv, Types
  <2>3. G[b] = IF b = a THEN {i} ELSE {}
    OBVIOUS
  <2> HIDE DEF G, i
  <2>4. QED
    BY <2>1, <2>2, <2>3 DEF Without
<1>5. ASSUME NEW b \in Adapters
      PROVE  /\ Users(b)' = Users(b) \ G[b] /\ G[b] \subseteq Users(b)
             /\ (Attached(b) \cup Leaving(b))' = (Attached(b) \cup Leaving(b)) \ G[b]
  <2> HIDE DEF i
  <2>1. ASSUME NEW j \in Sids
        PROVE  /\ j \in Attached(b)' <=> j \in Attached(b)
               /\ j \in Leaving(b)' <=> j \in Leaving(b) /\ ~(b = a /\ j = i)
               /\ (proc[Main].pc = "attach" /\ Played = j) <=> (proc'[Main].pc = "attach" /\ Played' = j)
    <3>1. j \in Attached(b)' <=> j \in Attached(b)
      BY <1>1, InUsers, InUsersNext
    <3>2. j \in Leaving(b)' <=> \E u \in Threads \ {t} : proc[u].pc = "detach" /\ proc[u].ad = b /\ proc[u].sid = j
      BY <1>2, InUsersNext
    <3>3. j \in Leaving(b) <=> \E u \in Threads : proc[u].pc = "detach" /\ proc[u].ad = b /\ proc[u].sid = j
      BY InUsers
    <3>4. j \in Leaving(b)' <=> j \in Leaving(b) /\ ~(b = a /\ j = i)
      BY <1>1, <1>2, <3>2, <3>3 DEF i
    <3>5. (proc[Main].pc = "attach" /\ Played = j) <=> (proc'[Main].pc = "attach" /\ Played' = j)
      BY <1>1, <1>2, Indices DEF Played
    <3>6. QED
      BY <3>1, <3>4, <3>5
  <2>2. i \notin Attached(b) /\ (b = a => i \in Leaving(b) /\ i \in Users(b))
    BY <1>1, <1>2, InUsers DEF i
  <2>3. G[b] = IF b = a THEN {i} ELSE {}
    OBVIOUS
  <2> HIDE DEF G
  <2>4. \A j \in Sids : /\ j \in Users(b)' <=> j \in Users(b) \ G[b]
                        /\ j \in Attached(b)' \cup Leaving(b)' <=> j \in (Attached(b) \cup Leaving(b)) \ G[b]
    BY <2>1, <2>2, <2>3, InUsers, InUsersNext
  <2>5. QED
    BY <2>2, <2>3, <2>4, UsersType, UsersTypeNext
<1> HIDE DEF G, i
<1>6. GoneEmpty' /\ Counted' /\ PidsOwned'
  BY <1>1, <1>3, <1>4, <1>5, ShareLeave
<1>7. \A b \in Adapters : /\ ad'[b].enabled = ad[b].enabled /\ ad'[b].tp \in {ad[b].tp, NoMux}
                          /\ ad'[b].do_tune <=> ad[b].do_tune
                          /\ ad'[b].cnt # 0 /\ ad[b].master # i => ad'[b].master = ad[b].master
  <2>1. \A b \in Adapters : G[b] \subseteq {i} /\ G[b] \subseteq Sids
    BY <1>1 DEF G
  <2>2. QED
    BY <1>4, <2>1, WithoutFields
<1>8. proc[Main].pc \in PlayPcs \/ proc'[Main].pc \in PlayPcs =>
        /\ proc'[Main] = proc[Main] /\ proc[Main].pc \in PlayPcs /\ Played' = Played /\ Played \in Sids
        /\ stream[Played].state = "live" /\ Played # i /\ stream[Played].adapter \in Adapters \cup {-1}
  <2>1. ASSUME proc[Main].pc \in PlayPcs \/ proc'[Main].pc \in PlayPcs
        PROVE  proc'[Main] = proc[Main] /\ proc[Main].pc \in PlayPcs /\ Played' = Played
    BY <1>1, <1>2, <2>1, Indices DEF PlayPcs, Played
  <2>2. proc[Main].pc \in PlayPcs => Played \in Sids
    BY Indices DEF OwnInv, Busy, Played, PlayPcs
  <2>3. \A j \in Sids : stream[j].adapter \in Adapters \cup {-1}
    BY DEF OwnInv, Types, StreamType
  <2>4. QED
    BY <1>2, <2>1, <2>2, <2>3 DEF Share, PlayingHere
<1>9. PlayingHere'
  BY <1>1, <1>7, <1>8 DEF Share, PlayingHere, PlayPcs, Up
<1>10. TuneMine'
  <2>1. SUFFICES ASSUME proc'[Main].pc = "tune", stream[Played].adapter \notin lost, Up(stream[Played].adapter)
                 PROVE  LET b == stream[Played].adapter
                        IN  /\ ad'[b].do_tune => ad'[b].master = Played
                            /\ ad'[b].tp \in {stream[Played].tp, NoMux}
    BY <1>1, <1>7, <1>8 DEF TuneMine, PlayPcs, Up
  <2>0. PICK b \in Adapters : b = stream[Played].adapter
    BY <1>8, <2>1 DEF PlayPcs, Up
  <2>2. /\ proc[Main].pc = "tune" /\ Played \in Sids /\ Played # i
        /\ stream[Played].state = "live"
    BY <1>8, <2>1 DEF PlayPcs
  <2>3. Played \in Users(b)'
    <3>1. Played \in Users(b)
      BY <2>0, <2>2, InUsers
    <3>2. G[b] \subseteq {i}
      BY DEF G
    <3>3. QED
      BY <1>5, <2>2, <3>1, <3>2
  <2>4. ad'[b].cnt # 0
    <3>1. ad'[b].cnt = Cardinality(Users(b)')
      BY <1>1, <1>6, <1>7, <2>0, <2>1 DEF Counted, Up
    <3>2. IsFiniteSet(Users(b)')
      BY UsersTypeNext, SidsFinite
    <3>3. QED
      BY <2>3, <3>1, <3>2, FS_EmptySet
  <2>5. (ad[b].do_tune => ad[b].master = Played) /\ ad[b].tp \in {stream[Played].tp, NoMux}
    BY <2>0, <2>1, <2>2 DEF Share, TuneMine
  <2>6. (ad'[b].do_tune => ad'[b].master = Played) /\ ad'[b].tp \in {stream[Played].tp, NoMux}
    BY <1>7, <2>2, <2>4, <2>5
  <2>7. QED
    BY <2>0, <2>6
<1>11. ArriveMux'
  <2>1. SUFFICES ASSUME proc'[Main].pc = "attach", stream[Played].adapter \notin lost, Up(stream[Played].adapter)
                 PROVE  LET b == stream[Played].adapter
                        IN  ad'[b].cnt = 0 \/ ad'[b].tp \in {stream[Played].tp, NoMux}
    BY <1>1, <1>7, <1>8 DEF ArriveMux, PlayPcs, Up
  <2>0. PICK b \in Adapters : b = stream[Played].adapter
    BY <1>8, <2>1 DEF PlayPcs, Up
  <2>2. proc[Main].pc = "attach"
    BY <1>8, <2>1 DEF PlayPcs
  <2>3. ad[b].cnt = 0 \/ ad[b].tp \in {stream[Played].tp, NoMux}
    BY <2>0, <2>1, <2>2 DEF Share, ArriveMux
  <2>4. ad[b].cnt = 0 => ad'[b].cnt = 0
    <3>1. ad[b].cnt = Cardinality(Users(b)) /\ ad'[b].cnt = Cardinality(Users(b)')
      BY <1>1, <1>6, <1>7, <2>0, <2>1 DEF Share, Counted, Up
    <3>2. IsFiniteSet(Users(b)) /\ Users(b)' \subseteq Users(b)
      BY <1>5, UsersType, SidsFinite
    <3>3. QED
      BY <3>1, <3>2, FS_EmptySet
  <2>5. ad'[b].cnt = 0 \/ ad'[b].tp \in {stream[Played].tp, NoMux}
    BY <1>7, <2>3, <2>4
  <2>6. QED
    BY <2>0, <2>5
<1>12. OnMux'
  <2>1. \A j \in Sids : stream'[j].adapter \in Adapters \cup {-1}
    BY <1>1 DEF OwnInv, Types, StreamType
  <2>2. \A b \in Adapters \cup {-1} : Up(b)' <=> Up(b)
    BY <1>7 DEF Up
  <2>3. ASSUME NEW j \in Sids, Live(j)', stream'[j].do_play, Up(stream[j].adapter)'
        PROVE  /\ Live(j) /\ stream[j].do_play /\ stream'[j].adapter = stream[j].adapter
               /\ stream'[j].tp = stream[j].tp
               /\ proc[Main].pc = "attach" /\ Played = j => proc'[Main].pc = "attach" /\ Played' = j
    BY <1>1, <1>8, <2>3 DEF Live, PlayPcs
  <2>4. OnMux
    BY DEF Share
  <2>5. QED
    BY <1>1, <1>7, <2>1, <2>3, <2>4, OnMuxKept
<1>13. QED
  BY <1>6, <1>9, <1>10, <1>11, <1>12 DEF Share

\* SETUP: a stream whose parameters change leaves its adapter and stops playing; those that
\* sent to the same client are closed.
LEMMA ShareSetupRequest ==
    ASSUME OwnInv, OwnInv', Share, NEW c \in RtspConns, NEW i \in Sids, NEW m \in Muxes \cup {NoMux},
           NEW ty \in Transports, NEW never \in BOOLEAN, NEW pidsOnly \in BOOLEAN, NEW sockFail \in BOOLEAN,
           SetupRequest(c, i, m, ty, never, pidsOnly, sockFail)
    PROVE  Share'
<1>1. PICK same \in SUBSET Sids, e \in StreamType : SetupDone(c, i, m, pidsOnly, same, e)
  BY SetupEffect
<1>2. proc' = proc /\ lost' = lost /\ proc[Main].pc = "idle" /\ Played' = Played
  BY DEF SetupRequest, Played
<1> DEFINE leaves == SetupLeaves(i, m, pidsOnly)
           S == same \cup (IF leaves THEN {i} ELSE {})
           G == [a \in Adapters |-> S \cap Attached(a)]
<1>3. /\ i \notin same /\ e.state = "live"
      /\ e.tp = SetupTp(i, m) /\ (e.do_play => m = NoMux /\ SetupOld(i).do_play)
      /\ e.adapter = IF leaves THEN -1 ELSE SetupOld(i).adapter
      /\ leaves => SetupOld(i).adapter # -1 /\ m # NoMux
      /\ Live(i) \/ stream[i].state = "free"
  BY <1>1 DEF SetupDone, SetupLeaves
<1>4. \A j \in Sids : stream'[j] = IF j = i THEN e ELSE IF j \in same THEN Released(j) ELSE stream[j]
  BY <1>1, StreamsWithoutType DEF SetupDone, OwnInv
<1>5. /\ Live(i) => SetupOld(i) = stream[i]
      /\ ~Live(i) => SetupOld(i).adapter = -1
      /\ Live(i) <=> stream[i].state = "live"
  BY ReleasedType, Indices DEF SetupOld, OwnInv, StreamType, Live
<1>6. S \subseteq Sids /\ G \in [Adapters -> SUBSET Sids]
  OBVIOUS
<1>7. ASSUME NEW a \in Adapters PROVE ad'[a] = Without(a, G[a])
  <2>1. ad' = AdsWithout(S)
    BY <1>1 DEF SetupDone
  <2>2. G[a] = S \cap Attached(a)
    OBVIOUS
  <2> HIDE DEF G, S
  <2>3. QED
    BY <2>1, <2>2 DEF AdsWithout, Without
<1>8. ASSUME NEW a \in Adapters
      PROVE  /\ Users(a)' = Users(a) \ G[a] /\ G[a] \subseteq Users(a)
             /\ (Attached(a) \cup Leaving(a))' = (Attached(a) \cup Leaving(a)) \ G[a]
  <2>1. ASSUME NEW j \in Sids PROVE j \in Attached(a)' <=> j \in Attached(a) /\ j \notin S
    <3>1. j \in Attached(a)' <=> stream'[j].state = "live" /\ stream'[j].adapter = a
      BY InUsersNext
    <3>2. j \in Attached(a) <=> stream[j].state = "live" /\ stream[j].adapter = a
      BY InUsers
    <3>3. CASE j = i
      <4>1. i \in S <=> leaves
        BY <1>3
      <4> HIDE DEF leaves, S
      <4>2. QED
        BY <1>3, <1>4, <1>5, <3>1, <3>2, <3>3, <4>1, Indices
    <3>4. CASE j # i /\ j \in same
      BY <1>4, <3>1, <3>4, ReleasedType DEF OwnInv
    <3>5. CASE j # i /\ j \notin same
      <4>1. j \notin S
        BY <3>5
      <4>2. QED
        BY <1>4, <3>1, <3>2, <3>5, <4>1
    <3>6. QED
      BY <3>3, <3>4, <3>5
  <2>2. Attached(a)' = Attached(a) \ G[a]
    <3>1. G[a] = S \cap Attached(a)
      OBVIOUS
    <3> HIDE DEF G, S
    <3>2. QED
      BY <2>1, <3>1, UsersType, UsersTypeNext
  <2>3. Leaving(a)' = Leaving(a)
    BY <1>2 DEF Leaving
  <2>4. Users(a) = Attached(a) \cup Leaving(a) /\ Users(a)' = Attached(a)' \cup Leaving(a)'
    BY <1>2 DEF Users, Arriving
  <2>5. Attached(a) \cap Leaving(a) = {} /\ G[a] \subseteq Attached(a)
    BY UsersType
  <2> HIDE DEF G
  <2>6. QED
    BY <2>2, <2>3, <2>4, <2>5
<1> HIDE DEF G, S, leaves
<1>9. GoneEmpty' /\ Counted' /\ PidsOwned'
  BY <1>2, <1>6, <1>7, <1>8, ShareLeave
<1>10. PlayingHere' /\ TuneMine' /\ ArriveMux'
  BY <1>2 DEF PlayingHere, TuneMine, ArriveMux, PlayPcs
<1>11. OnMux'
  <2>1. \A j \in Sids : stream'[j].adapter \in Adapters \cup {-1}
    BY DEF OwnInv, Types, StreamType
  <2>2. \A b \in Adapters : /\ ad'[b].enabled = ad[b].enabled /\ ad'[b].tp \in {ad[b].tp, NoMux}
                            /\ ad'[b].do_tune <=> ad[b].do_tune
    BY <1>6, <1>7, WithoutFields
  <2>3. ASSUME NEW j \in Sids, Live(j)', stream'[j].do_play, Up(stream[j].adapter)'
        PROVE  /\ Live(j) /\ stream[j].do_play /\ stream'[j].adapter = stream[j].adapter
               /\ stream'[j].tp = stream[j].tp
               /\ proc[Main].pc = "attach" /\ Played = j => proc'[Main].pc = "attach" /\ Played' = j
    <3>1. stream'[j].state = "live" /\ stream'[j].adapter # -1
      BY <2>3 DEF Live, Up
    <3>2. CASE j = i
      <4>1. e.do_play /\ ~leaves /\ m = NoMux /\ Live(i) /\ SetupOld(i) = stream[i]
        BY <1>3, <1>4, <1>5, <2>3, <3>1, <3>2
      <4>2. QED
        BY <1>2, <1>3, <1>4, <3>2, <4>1 DEF SetupTp
    <3>3. CASE j # i
      <4>1. j \notin same
        BY <1>4, <3>1, <3>3, ReleasedType DEF OwnInv
      <4>2. QED
        BY <1>2, <1>4, <2>3, <3>3, <4>1 DEF Live
    <3>4. QED
      BY <3>2, <3>3
  <2>4. OnMux
    BY DEF Share
  <2>5. QED
    BY <1>2, <2>1, <2>2, <2>3, <2>4, OnMuxKept
<1>12. QED
  BY <1>9, <1>10, <1>11 DEF Share

\* start_play leaves the adapter that is tuned elsewhere, once: the stream is still open.
LEMMA SharePlayCheck ==
    ASSUME OwnInv, OwnInv', Share, ~fault', NEW conf \in SUBSET SlaveAdapters, PlayCheck(conf) PROVE Share'
<1> DEFINE i == Played
           a == stream[i].adapter
           leaves == Up(a) /\ Differs(a, stream[i].tp) /\ (a \notin conf \/ ad[a].master # i)
           once == Detach(ad[a], a, {i})
           G == [b \in Adapters |-> IF leaves /\ stream[i].type # "none" /\ b = a THEN {i} ELSE {}]
<1>1. i \in Sids /\ proc[Main].pc = "play" /\ lost' = lost /\ Live(i) /\ stream[i].state = "live"
  BY Indices DEF OwnInv, Busy, PlayCheck, Playing, Played, Live
<1>2. a \in Adapters \cup {-1}
  BY <1>1 DEF OwnInv, Types, StreamType
<1>3. CASE stream[i].type = "none" /\ Reply /\ UNCHANGED <<stream, ad>>
  <2>1. proc' = [proc EXCEPT ![Main] = Idle] /\ stream' = stream /\ ad' = ad
    BY <1>3 DEF Reply
  <2>2. /\ \A u \in Threads : proc[u].pc = "detach" \/ proc'[u].pc = "detach" => proc'[u] = proc[u]
        /\ proc[Main].pc \in PlayPcs \/ proc'[Main].pc \in PlayPcs => proc'[Main] = proc[Main]
    BY <1>1, <2>1, Indices, IdleType DEF OwnInv, Types, PlayPcs
  <2>3. \A j \in Sids : Stays(j)
    BY <2>1 DEF Stays
  <2>4. QED
    BY <1>1, <2>1, <2>2, <2>3, ShareQuiet
<1>4. CASE /\ stream[i].type # "none"
           /\ Goto(Main, IF leaves \/ ~Up(a) THEN "select" ELSE "params")
           /\ ad' = IF ~leaves THEN ad ELSE [ad EXCEPT ![a] = once]
           /\ stream' = IF leaves THEN [stream EXCEPT ![i].adapter = -1] ELSE stream
  <2>1. /\ proc'[Main].pc = IF leaves \/ ~Up(a) THEN "select" ELSE "params"
        /\ Played' = i /\ \A u \in Threads \ {Main} : proc'[u] = proc[u]
    <3> DEFINE l == IF leaves \/ ~Up(a) THEN "select" ELSE "params"
    <3>1. proc' = [proc EXCEPT ![Main].pc = l]
      BY <1>4 DEF Goto
    <3> HIDE DEF l, i
    <3>2. proc'[Main].pc = l /\ proc'[Main].sid = proc[Main].sid /\ \A u \in Threads \ {Main} : proc'[u] = proc[u]
      BY <3>1, Indices DEF OwnInv, Types, ProcType
    <3>3. QED
      BY <3>2 DEF l, i, Played
  <2>2. /\ stream'[i].adapter = IF leaves THEN -1 ELSE a
        /\ stream'[i].state = "live" /\ stream'[i].do_play = stream[i].do_play /\ stream'[i].tp = stream[i].tp
        /\ \A j \in Sids \ {i} : stream'[j] = stream[j]
    <3>1. CASE leaves
      <4>1. stream' = [stream EXCEPT ![i].adapter = -1]
        BY <1>4, <3>1
      <4> HIDE DEF i
      <4>2. /\ stream'[i].adapter = -1
            /\ stream'[i].state = "live" /\ stream'[i].do_play = stream[i].do_play /\ stream'[i].tp = stream[i].tp
            /\ \A j \in Sids \ {i} : stream'[j] = stream[j]
        BY <1>1, <4>1 DEF OwnInv, Types, StreamType
      <4>3. QED
        BY <3>1, <4>2 DEF i
    <3>2. CASE ~leaves
      BY <1>1, <1>4, <3>2
    <3>3. QED
      BY <3>1, <3>2
  <2>3. G \in [Adapters -> SUBSET Sids] /\ (leaves => a \in Adapters /\ Up(a))
    BY <1>1, <1>2 DEF Up
  <2>4. ASSUME NEW b \in Adapters PROVE G[b] = IF leaves /\ b = a THEN {i} ELSE {}
    BY <1>4
  <2>5. ASSUME NEW b \in Adapters PROVE ad'[b] = Without(b, G[b])
    <3>1. leaves /\ b = a => ad'[b] = Detach(ad[b], b, {i}) /\ Up(b)
      BY <1>4, <2>3 DEF OwnInv, Types
    <3>2. ~(leaves /\ b = a) => ad'[b] = ad[b]
      BY <1>4, <2>3 DEF OwnInv, Types
    <3> HIDE DEF G, i, leaves, a
    <3>3. QED
      BY <2>4, <3>1, <3>2 DEF Without
  <2>6. ASSUME NEW b \in Adapters
        PROVE  /\ Users(b)' = Users(b) \ G[b] /\ G[b] \subseteq Users(b)
               /\ (Attached(b) \cup Leaving(b))' = (Attached(b) \cup Leaving(b)) \ G[b]
    <3> HIDE DEF G, i, leaves, a
    <3>1. Users(b) = Attached(b) \cup Leaving(b)
      BY <1>1 DEF Users, Arriving
    <3>2. Users(b)' = Attached(b)' \cup Leaving(b)'
      BY <2>1 DEF Users, Arriving
    <3>3. Leaving(b)' = Leaving(b)
      <4>1. \A u \in Threads : (proc'[u].pc = "detach" <=> proc[u].pc = "detach") /\ (proc[u].pc = "detach" => proc'[u] = proc[u])
        BY <1>1, <2>1
      <4>2. QED
        BY <4>1 DEF Leaving
    <3>4. \A j \in Sids : j \in Attached(b)' <=> j \in Attached(b) /\ j \notin G[b]
      BY <1>1, <2>2, <2>3, <2>4, InUsers, InUsersNext, Indices DEF a
    <3>5. Attached(b)' = Attached(b) \ G[b]
      BY <3>4, UsersType, UsersTypeNext
    <3>6. G[b] \subseteq Attached(b)
      BY <1>1, <2>4, InUsers DEF a
    <3>7. Attached(b) \cap Leaving(b) = {}
      BY UsersType
    <3>8. QED
      BY <3>1, <3>2, <3>3, <3>5, <3>6, <3>7
  <2> HIDE DEF G, leaves
  <2>7. GoneEmpty' /\ Counted' /\ PidsOwned'
    <3> HIDE DEF i
    <3> QED BY <1>1, <2>3, <2>5, <2>6, ShareLeave
  <2>8. \A b \in Adapters : /\ ad'[b].enabled = ad[b].enabled /\ ad'[b].tp \in {ad[b].tp, NoMux}
                            /\ ad'[b].do_tune <=> ad[b].do_tune
    BY <2>3, <2>5, WithoutFields
  <2>9. PlayingHere' /\ TuneMine' /\ ArriveMux'
    <3>1. proc'[Main].pc = "select" => ~Up(stream[Played].adapter)'
      <4>1. stream'[i].adapter \in Adapters \cup {-1}
        BY <1>2, <2>2
      <4>2. \A b \in Adapters \cup {-1} : Up(b)' <=> Up(b)
        BY <2>8 DEF Up
      <4>3. ASSUME proc'[Main].pc = "select" PROVE ~Up(stream'[i].adapter)
        BY <2>1, <2>2, <4>3 DEF Up
      <4>4. QED
        BY <2>1, <2>8, <4>1, <4>3 DEF Up
    <3>2. QED
      BY <2>1, <2>2, <3>1 DEF PlayingHere, TuneMine, ArriveMux
  <2>10. OnMux'
    <3>1. \A j \in Sids : stream'[j].adapter \in Adapters \cup {-1}
      BY DEF OwnInv, Types, StreamType
    <3>2. ASSUME NEW j \in Sids, Live(j)', stream'[j].do_play, Up(stream[j].adapter)'
          PROVE  /\ Live(j) /\ stream[j].do_play /\ stream'[j].adapter = stream[j].adapter
                 /\ stream'[j].tp = stream[j].tp
                 /\ proc[Main].pc = "attach" /\ Played = j => proc'[Main].pc = "attach" /\ Played' = j
      <4> HIDE DEF i
      <4>1. stream'[j].adapter # -1
        BY <3>2 DEF Up
      <4>2. QED
        BY <1>1, <2>2, <3>2, <4>1 DEF Live
    <3>3. OnMux
      BY DEF Share
    <3>4. QED
      BY <1>1, <2>8, <3>1, <3>2, <3>3, OnMuxKept
  <2>11. QED
    BY <2>7, <2>9, <2>10 DEF Share
<1>5. QED
  BY <1>1, <1>3, <1>4 DEF PlayCheck

-----------------------------------------------------------------------------
(* Steps of start_play by which no stream leaves *)

\* Only the pc of Main changes, and not to or from a step that matters to the count.
LEMMA UsersSame ==
    ASSUME OwnInv, OwnInv', NEW a \in Adapters,
           {proc[Main].pc, proc'[Main].pc} \cap {"attach", "detach"} = {},
           \A u \in Threads \ {Main} : proc'[u] = proc[u],
           \A j \in Sids : stream'[j].state = stream[j].state /\ stream'[j].adapter = stream[j].adapter
    PROVE  Attached(a)' = Attached(a) /\ Leaving(a)' = Leaving(a) /\ Users(a)' = Users(a)
<1>1. Attached(a)' = Attached(a)
  BY DEF Attached
<1>2. Leaving(a)' = Leaving(a)
  <2>1. \A u \in Threads : (proc'[u].pc = "detach" <=> proc[u].pc = "detach") /\ (proc[u].pc = "detach" => proc'[u] = proc[u])
    OBVIOUS
  <2>2. QED
    BY <2>1 DEF Leaving
<1>3. Users(a) = Attached(a) \cup Leaving(a) /\ Users(a)' = Attached(a)' \cup Leaving(a)'
  BY DEF Users, Arriving
<1>4. QED
  BY <1>1, <1>2, <1>3

\* Of an adapter that is open, get_free_adapter returns one on the mux or one nobody uses.
LEMMA GetFreeAdapterFits ==
    ASSUME NEW tp, NEW conf \in SUBSET Adapters, NEW broken, NEW a, a = GetFreeAdapter(tp, conf, broken),
           a # -1, Up(a)
    PROVE  ad[a].tp = tp \/ ad[a].cnt = 0
<1> DEFINE same == {b \in Adapters : Up(b) /\ ad[b].tp = tp}
           free == {b \in Adapters \ conf : IF Up(b) THEN ad[b].cnt = 0 ELSE b \notin broken}
           slave == {b \in conf : Up(b) /\ ad[b].cnt = 0}
<1>1. \A S \in SUBSET Adapters : S # {} => Min(S) \in S
  BY Indices, FS_Subset, MinIsLeast
<1>2. same \in SUBSET Adapters /\ free \in SUBSET Adapters /\ slave \in SUBSET Adapters
  OBVIOUS
<1>3. a = IF same # {} THEN Min(same) ELSE IF free # {} THEN Min(free) ELSE First(slave)
  BY DEF GetFreeAdapter
<1>4. a \in same \/ a \in free \/ a \in slave
  <2> HIDE DEF same, free, slave
  <2> QED BY <1>1, <1>2, <1>3 DEF First
<1>5. QED
  BY <1>4

LEMMA SharePlaySelect ==
    ASSUME OwnInv, OwnInv', Share, NEW conf \in SUBSET SlaveAdapters, NEW broken, PlaySelect(conf, broken)
    PROVE  Share'
<1>1. PICK i \in Sids : i = Played
  BY Indices DEF OwnInv, Busy, PlaySelect, Playing, Played
<1>2. /\ proc[Main].pc = "select" /\ lost' = lost /\ stream[i].state = "live" /\ ~Up(stream[i].adapter)
      /\ stream[i] \in StreamType
  BY <1>1 DEF PlaySelect, Playing, Share, PlayingHere, PlayPcs, OwnInv, Types
<1>3. stream[i].adapter \notin Adapters \ lost
  BY <1>2, InUsers DEF Share, GoneEmpty
<1>4. CASE /\ stream' = [stream EXCEPT ![i].do_play = TRUE] \/ stream' = stream
           /\ Reply /\ ad' = ad
  <2>1. /\ \A j \in Sids : stream'[j].state = stream[j].state /\ stream'[j].adapter = stream[j].adapter
        /\ \A j \in Sids \ {i} : stream'[j] = stream[j]
    <3>1. CASE stream' = [stream EXCEPT ![i].do_play = TRUE]
      BY <3>1 DEF OwnInv, Types, StreamType
    <3>2. CASE stream' = stream
      BY <3>2
    <3>3. QED
      BY <1>4, <3>1, <3>2
  <2>2. proc'[Main].pc = "idle" /\ \A u \in Threads \ {Main} : proc'[u] = proc[u]
    BY <1>4, IdleType, Indices DEF Reply, OwnInv, Types
  <2>3. \A a \in Adapters : Attached(a)' = Attached(a) /\ Leaving(a)' = Leaving(a) /\ Users(a)' = Users(a)
    BY <1>2, <2>1, <2>2, UsersSame
  <2>4. GoneEmpty' /\ Counted' /\ PidsOwned'
    BY <1>2, <1>4, <2>3 DEF Share, GoneEmpty, Counted, PidsOwned, Up
  <2>5. PlayingHere' /\ TuneMine' /\ ArriveMux'
    BY <2>2 DEF PlayingHere, TuneMine, ArriveMux, PlayPcs
  <2>6. OnMux'
    <3>1. SUFFICES ASSUME NEW j \in Sids, Live(j)', stream'[j].do_play, stream'[j].adapter \notin lost,
                          Up(stream[j].adapter)'
                   PROVE  ad[stream'[j].adapter].tp \in {stream'[j].tp, NoMux} \/ ad[stream'[j].adapter].do_tune
      BY <1>2, <1>4 DEF OnMux, Up
    <3>2. j # i /\ stream'[j] = stream[j]
      BY <1>2, <1>4, <2>1, <3>1 DEF Up
    <3>3. QED
      BY <1>2, <1>4, <3>1, <3>2 DEF Share, OnMux, Live, Up
  <2>7. QED
    BY <2>4, <2>5, <2>6 DEF Share
<1>5. ASSUME NEW a \in Adapters, a = GetFreeAdapter(stream[i].tp, conf, broken),
             stream' = [stream EXCEPT ![i].adapter = a],
             ad' = IF Up(a) THEN ad ELSE [ad EXCEPT ![a] = Opened],
             Goto(Main, "attach")
      PROVE  Share'
  <2>1. /\ stream'[i].adapter = a /\ stream'[i].state = "live" /\ stream'[i].tp = stream[i].tp
        /\ \A j \in Sids \ {i} : stream'[j] = stream[j]
    BY <1>2, <1>5 DEF OwnInv, Types, StreamType
  <2>2. proc'[Main].pc = "attach" /\ Played' = i /\ \A u \in Threads \ {Main} : proc'[u] = proc[u]
    BY <1>1, <1>5, Indices DEF Goto, OwnInv, Types, ProcType, Played
  <2>3. /\ \A b \in Adapters \ {a} : ad'[b] = ad[b]
        /\ ad'[a].enabled /\ (Up(a) => ad'[a] = ad[a])
        /\ ~Up(a) => ad'[a].cnt = 0 /\ ad'[a].master = -1 /\ ad'[a].owners = {}
    <3>1. \A b \in Adapters \ {a} : ad'[b] = ad[b]
      BY <1>5 DEF OwnInv, Types
    <3>2. Up(a) => ad'[a] = ad[a] /\ ad[a].enabled
      BY <1>5 DEF Up
    <3>3. ~Up(a) => ad'[a] = Opened
      BY <1>5 DEF OwnInv, Types
    <3>4. Opened.enabled /\ Opened.cnt = 0 /\ Opened.master = -1 /\ Opened.owners = {}
      BY DEF Opened, ClosedAdapter
    <3>5. QED
      BY <3>1, <3>2, <3>3, <3>4
  <2>4. ASSUME NEW b \in Adapters
        PROVE  /\ Leaving(b)' = Leaving(b)
               /\ b # stream[i].adapter => Users(b)' = Users(b) /\ Attached(b) \subseteq Attached(b)'
               /\ b # a => Attached(b)' \subseteq Attached(b)
               /\ Users(b)' \subseteq Users(b)
    <3>1. Leaving(b)' = Leaving(b)
      <4>1. \A u \in Threads : (proc'[u].pc = "detach" <=> proc[u].pc = "detach") /\ (proc[u].pc = "detach" => proc'[u] = proc[u])
        BY <1>2, <2>2
      <4>2. QED
        BY <4>1 DEF Leaving
    <3>2. i \notin Leaving(b)
      BY <1>2, InUsers DEF OwnInv, CloseOne, Closing
    <3>3. ASSUME NEW j \in Sids
          PROVE  /\ j # i => (j \in Attached(b)' <=> j \in Attached(b)) /\ (j \in Users(b)' <=> j \in Users(b))
                 /\ i \in Attached(b)' <=> b = a
                 /\ i \in Attached(b) <=> b = stream[i].adapter
                 /\ i \in Users(b) <=> b = stream[i].adapter
                 /\ i \notin Users(b)'
      BY <1>2, <2>1, <2>2, <3>1, <3>2, InUsers, InUsersNext
    <3>4. QED
      BY <3>1, <3>3, UsersType, UsersTypeNext
  <2>5. a \notin lost /\ ~Up(a) => Attached(a) = {} /\ Leaving(a) = {} /\ Users(a) = {}
    BY UsersType DEF Share, GoneEmpty
  <2>6. \A b \in Adapters : Up(b)' <=> b = a \/ Up(b)
    BY <2>3, Indices DEF Up
  <2>7. GoneEmpty'
    BY <1>2, <2>4, <2>6 DEF Share, GoneEmpty
  <2>8. Counted'
    <3>1. SUFFICES ASSUME NEW b \in Adapters \ lost, Up(b)'
                   PROVE  /\ ad'[b].cnt = Cardinality(Users(b)')
                          /\ ad'[b].master # -1 => ad'[b].master \in Attached(b)' \cup Leaving(b)'
      BY <1>2 DEF Counted
    <3>2. CASE Up(b)
      <4>1. b # stream[i].adapter /\ ad'[b] = ad[b]
        BY <1>3, <2>3, <3>2
      <4>2. QED
        BY <2>4, <3>2, <4>1 DEF Share, Counted
    <3>3. CASE ~Up(b)
      <4>1. b = a /\ Users(b)' = {}
        BY <2>4, <2>5, <2>6, <3>1, <3>3
      <4>2. QED
        BY <2>3, <3>3, <4>1, FS_EmptySet
    <3>4. QED
      BY <3>2, <3>3
  <2>9. PidsOwned'
    <3>1. SUFFICES ASSUME NEW b \in Adapters, Up(b)' PROVE ad'[b].owners \subseteq Users(b)'
      BY DEF PidsOwned
    <3>2. CASE Up(b)
      <4>1. b # stream[i].adapter /\ ad'[b] = ad[b]
        BY <1>2, <2>3, <3>2
      <4>2. QED
        BY <2>4, <3>2, <4>1 DEF Share, PidsOwned
    <3>3. CASE ~Up(b)
      BY <2>3, <2>6, <3>1, <3>3
    <3>4. QED
      BY <3>2, <3>3
  <2>10. PlayingHere' /\ TuneMine'
    BY <2>1, <2>2 DEF PlayingHere, TuneMine
  <2>11. ArriveMux'
    <3>1. ad'[a].cnt = 0 \/ ad'[a].tp = stream[i].tp
      <4>1. CASE Up(a)
        BY <1>5, <2>3, <4>1, GetFreeAdapterFits, SessionsAssumption, Indices
      <4>2. CASE ~Up(a)
        BY <2>3, <4>2
      <4>3. QED
        BY <4>1, <4>2
    <3>2. QED
      BY <2>1, <2>2, <3>1 DEF ArriveMux
  <2>12. OnMux'
    <3>1. SUFFICES ASSUME NEW j \in Sids, j # i, Live(j)', stream'[j].do_play, stream'[j].adapter \notin lost,
                          Up(stream[j].adapter)'
                   PROVE  ad'[stream'[j].adapter].tp \in {stream'[j].tp, NoMux} \/ ad'[stream'[j].adapter].do_tune
      BY <1>2, <2>2 DEF OnMux, Up
    <3>2. /\ stream'[j] = stream[j] /\ stream[j].state = "live" /\ stream[j].adapter \in Adapters
          /\ stream[j].do_play /\ Live(j)
      <4>1. stream'[j] = stream[j] /\ stream[j].adapter # -1 /\ stream[j].state = "live" /\ Live(j)
        BY <2>1, <3>1 DEF Up, Live
      <4>2. QED
        BY <3>1, <4>1 DEF OwnInv, Types, StreamType
    <3>3. Up(stream[j].adapter)
      <4>1. stream[j].adapter = a /\ ~Up(a) => j \in Attached(a) /\ a \notin lost
        BY <3>1, <3>2, InUsers
      <4>2. Up(stream[j].adapter) \/ stream[j].adapter = a
        BY <2>3, <3>1, <3>2 DEF Up
      <4>3. QED
        BY <2>5, <4>1, <4>2
    <3>4. ad'[stream[j].adapter] = ad[stream[j].adapter]
      BY <2>3, <3>2, <3>3
    <3>5. ad[stream[j].adapter].tp \in {stream[j].tp, NoMux} \/ ad[stream[j].adapter].do_tune
      BY <1>2, <3>1, <3>2, <3>3 DEF Share, OnMux
    <3>6. QED
      BY <3>2, <3>4, <3>5
  <2>13. QED
    BY <2>7, <2>8, <2>9, <2>10, <2>11, <2>12 DEF Share
<1>6. QED
  <2>1. GetFreeAdapter(stream[i].tp, conf, broken) \in Adapters \cup {-1}
    BY GetFreeAdapterType, SessionsAssumption
  <2>2. \/ /\ stream' = [stream EXCEPT ![i].do_play = TRUE] \/ stream' = stream
           /\ Reply /\ ad' = ad
        \/ LET a == GetFreeAdapter(stream[i].tp, conf, broken)
           IN  /\ a # -1 /\ stream' = [stream EXCEPT ![i].adapter = a]
               /\ ad' = IF Up(a) THEN ad ELSE [ad EXCEPT ![a] = Opened]
               /\ Goto(Main, "attach")
    BY <1>1 DEF PlaySelect
  <2>3. QED
    BY <1>4, <1>5, <2>1, <2>2

\* set_adapter_for_stream counts the stream; an adapter nobody used forgets its mux.
LEMMA SharePlayAttach == ASSUME OwnInv, OwnInv', Share, PlayAttach PROVE Share'
<1>1. PICK i \in Sids : i = Played
  BY Indices DEF OwnInv, Busy, PlayAttach, Playing, Played
<1>2. PICK a \in Adapters \cup {-1} : a = stream[i].adapter
  BY DEF OwnInv, Types, StreamType
<1>3. /\ proc[Main].pc = "attach" /\ lost' = lost /\ stream' = stream /\ stream[i].state = "live"
      /\ ad' = IF ~Up(a) THEN ad
               ELSE [ad EXCEPT ![a].master = IF @ = -1 THEN i ELSE @, ![a].cnt = @ + 1,
                               ![a].tp = IF ad[a].cnt = 0 THEN NoMux ELSE @]
  BY <1>1, <1>2 DEF PlayAttach, Playing, Share, PlayingHere, PlayPcs
<1>4. proc'[Main].pc = "params" /\ Played' = i /\ \A u \in Threads \ {Main} : proc'[u] = proc[u]
  <2>1. proc' = [proc EXCEPT ![Main].pc = "params"]
    BY DEF PlayAttach, Goto
  <2>2. QED
    BY <1>1, <2>1, Indices DEF OwnInv, Types, ProcType, Played
<1>5. ASSUME NEW b \in Adapters
      PROVE  /\ Attached(b)' = Attached(b) /\ Leaving(b)' = Leaving(b)
             /\ i \notin Users(b) /\ (b = a => i \in Attached(b))
             /\ Users(b)' = Users(b) \cup (IF b = a THEN {i} ELSE {})
  <2>1. Attached(b)' = Attached(b)
    BY <1>3 DEF Attached
  <2>2. Leaving(b)' = Leaving(b)
    <3>1. \A u \in Threads : (proc'[u].pc = "detach" <=> proc[u].pc = "detach") /\ (proc[u].pc = "detach" => proc'[u] = proc[u])
      BY <1>3, <1>4
    <3>2. QED
      BY <3>1 DEF Leaving
  <2>3. i \notin Leaving(b)
    BY <1>3, InUsers DEF OwnInv, CloseOne, Closing
  <2>4. ASSUME NEW j \in Sids
        PROVE  /\ j \in Users(b) <=> (j \in Attached(b) /\ j # i) \/ j \in Leaving(b)
               /\ j \in Users(b)' <=> j \in Attached(b) \/ j \in Leaving(b)
               /\ i \in Attached(b) <=> b = a
    BY <1>1, <1>2, <1>3, <1>4, <2>1, <2>2, InUsers, InUsersNext
  <2>5. QED
    BY <2>1, <2>2, <2>3, <2>4, UsersType, UsersTypeNext
<1>6. /\ \A b \in Adapters \ {a} : ad'[b] = ad[b]
      /\ ~Up(a) /\ a \in Adapters => ad'[a] = ad[a]
      /\ Up(a) => /\ a \in Adapters /\ ad'[a].enabled /\ ad'[a].cnt = ad[a].cnt + 1
                  /\ ad'[a].master = IF ad[a].master = -1 THEN i ELSE ad[a].master
                  /\ ad'[a].tp = IF ad[a].cnt = 0 THEN NoMux ELSE ad[a].tp
                  /\ ad'[a].do_tune <=> ad[a].do_tune
                  /\ ad'[a].owners = ad[a].owners
  <2>1. CASE ~Up(a)
    BY <1>3, <2>1
  <2>2. CASE Up(a)
    <3> DEFINE master == IF ad[a].master = -1 THEN i ELSE ad[a].master
               tp == IF ad[a].cnt = 0 THEN NoMux ELSE ad[a].tp
               e == [ad[a] EXCEPT !.master = master, !.cnt = ad[a].cnt + 1, !.tp = tp]
    <3>1. a \in Adapters /\ ad[a].enabled /\ ad[a] \in AdType
      BY <2>2 DEF Up, OwnInv, Types
    <3>2. ad' = [ad EXCEPT ![a] = e]
      BY <1>3, <2>2
    <3>3. /\ e.enabled = ad[a].enabled /\ e.cnt = ad[a].cnt + 1 /\ e.master = master /\ e.tp = tp
          /\ e.do_tune = ad[a].do_tune /\ e.owners = ad[a].owners
      <4> HIDE DEF master, tp
      <4> QED BY <3>1 DEF AdType
    <3>4. ad'[a] = e /\ \A b \in Adapters \ {a} : ad'[b] = ad[b]
      <4> HIDE DEF e
      <4> QED BY <3>1, <3>2 DEF OwnInv, Types
    <3> HIDE DEF e
    <3>5. QED
      BY <2>2, <3>1, <3>3, <3>4
  <2>3. QED
    BY <2>1, <2>2
<1>7. \A b \in Adapters : Up(b)' <=> Up(b)
  BY <1>2, <1>6 DEF Up
<1>8. GoneEmpty'
  BY <1>3, <1>5, <1>7 DEF Share, GoneEmpty
<1>9. Counted'
  <2>1. SUFFICES ASSUME NEW b \in Adapters \ lost, Up(b)
                 PROVE  /\ ad'[b].cnt = Cardinality(Users(b)')
                        /\ ad'[b].master # -1 => ad'[b].master \in Attached(b)' \cup Leaving(b)'
    BY <1>3, <1>7 DEF Counted
  <2>2. /\ ad[b].cnt = Cardinality(Users(b))
        /\ ad[b].master # -1 => ad[b].master \in Attached(b) \cup Leaving(b)
    BY <2>1 DEF Share, Counted
  <2>3. CASE b # a
    BY <1>5, <1>6, <2>2, <2>3
  <2>4. CASE b = a
    <3>1. Users(b)' = Users(b) \cup {i} /\ i \notin Users(b) /\ IsFiniteSet(Users(b))
      BY <1>5, <2>4, UsersType, SidsFinite
    <3>2. Cardinality(Users(b)') = Cardinality(Users(b)) + 1
      BY <3>1, FS_AddElement
    <3>3. QED
      BY <1>5, <1>6, <2>1, <2>2, <2>4, <3>2
  <2>5. QED
    BY <2>3, <2>4
<1>10. PidsOwned'
  <2>1. \A b \in Adapters : Up(b) => ad'[b].owners = ad[b].owners
    BY <1>6
  <2>2. QED
    BY <1>5, <1>7, <2>1 DEF Share, PidsOwned
<1>11. PlayingHere' /\ TuneMine' /\ ArriveMux'
  BY <1>3, <1>4 DEF PlayingHere, TuneMine, ArriveMux
<1>12. OnMux'
  <2>1. SUFFICES ASSUME NEW j \in Sids, Live(j), stream[j].do_play, stream[j].adapter \notin lost,
                        Up(stream[j].adapter)'
                 PROVE  ad'[stream[j].adapter].tp \in {stream[j].tp, NoMux} \/ ad'[stream[j].adapter].do_tune
    BY <1>3 DEF OnMux, Live, Up
  <2>2. PICK b \in Adapters : b = stream[j].adapter
    BY <1>3, <2>1 DEF OwnInv, Types, StreamType, Up
  <2>3. Up(b)
    BY <1>3, <1>7, <2>1, <2>2 DEF Up
  <2>4. ad[b].tp \in {stream[j].tp, NoMux} \/ ad[b].do_tune \/ j = i
    BY <1>1, <2>1, <2>2, <2>3 DEF Share, OnMux
  <2>5. j = i => b = a /\ (ad[b].cnt = 0 \/ ad[b].tp \in {stream[j].tp, NoMux})
    BY <1>1, <1>2, <1>3, <2>1, <2>2, <2>3 DEF Share, ArriveMux
  <2>6. ad'[b].tp \in {stream[j].tp, NoMux} \/ ad'[b].do_tune
    BY <1>6, <2>3, <2>4, <2>5
  <2>7. QED
    BY <2>2, <2>6
<1>13. QED
  BY <1>8, <1>9, <1>10, <1>11, <1>12 DEF Share

\* set_adapter_parameters: the mux changes only with do_tune, and only for the master.
LEMMA SharePlayParams == ASSUME OwnInv, OwnInv', Share, ~fault', NEW pids, PlayParams(pids) PROVE Share'
<1>1. PICK i \in Sids : i = Played
  BY Indices DEF OwnInv, Busy, PlayParams, Playing, Played
<1>2. PICK a \in Adapters \cup {-1} : a = stream[i].adapter
  BY DEF OwnInv, Types, StreamType
<1>3. /\ proc[Main].pc = "params" /\ lost' = lost /\ stream[i].state = "live" /\ stream[i] \in StreamType
      /\ Up(a) /\ ad[a].do_tune => ad'[a].do_tune
  BY <1>1, <1>2 DEF PlayParams, Playing, Share, PlayingHere, PlayPcs, OwnInv, Types
<1>4. CASE ~Up(a) /\ ad' = ad /\ stream' = stream /\ proc' = [proc EXCEPT ![Main] = Idle]
  <2>1. proc'[Main].pc = "idle" /\ \A u \in Threads \ {Main} : proc'[u] = proc[u]
    BY <1>4, IdleType, Indices DEF OwnInv, Types
  <2>2. \A b \in Adapters : Attached(b)' = Attached(b) /\ Leaving(b)' = Leaving(b) /\ Users(b)' = Users(b)
    BY <1>3, <1>4, <2>1, UsersSame
  <2>3. GoneEmpty' /\ Counted' /\ PidsOwned'
    BY <1>3, <1>4, <2>2 DEF Share, GoneEmpty, Counted, PidsOwned, Up
  <2>4. PlayingHere' /\ TuneMine' /\ ArriveMux'
    BY <2>1 DEF PlayingHere, TuneMine, ArriveMux, PlayPcs
  <2>5. OnMux'
    BY <1>3, <1>4 DEF Share, OnMux, Live, Up
  <2>6. QED
    BY <2>3, <2>4, <2>5 DEF Share
<1>5. ASSUME NEW master \in Sids \cup {-1}, NEW tune \in BOOLEAN, NEW tp \in Muxes \cup {NoMux},
             NEW owners \in SUBSET Sids, ParamsDone(i, a, master, tune, tp, owners)
      PROVE  Share'
  <2>1. /\ Up(a) /\ a \in Adapters /\ ad[a] \in AdType
        /\ ad' = [ad EXCEPT ![a] = ParamsRec(ad[a], master, tune, tp, owners)]
        /\ master \in {ad[a].master, i} /\ owners \subseteq ad[a].owners \cup {i}
    BY <1>5 DEF ParamsDone, Up, OwnInv, Types
  <2>2. /\ \A b \in Adapters \ {a} : ad'[b] = ad[b]
        /\ ad'[a].enabled = ad[a].enabled /\ ad'[a].cnt = ad[a].cnt
        /\ ad'[a].master = master /\ ad'[a].tp = tp /\ ad'[a].owners = owners
        /\ ad'[a].do_tune <=> tune
    <3> DEFINE e == ParamsRec(ad[a], master, tune, tp, owners)
    <3>1. /\ e.enabled = ad[a].enabled /\ e.cnt = ad[a].cnt /\ e.master = master /\ e.tp = tp
          /\ e.owners = owners /\ (e.do_tune <=> tune)
      BY <2>1 DEF ParamsRec, AdType
    <3> HIDE DEF e
    <3>2. ad'[a] = e /\ \A b \in Adapters \ {a} : ad'[b] = ad[b]
      BY <2>1 DEF OwnInv, Types, e
    <3>3. QED
      BY <3>1, <3>2
  <2>3. /\ \A j \in Sids : /\ stream'[j].state = stream[j].state /\ stream'[j].adapter = stream[j].adapter
                           /\ stream'[j].tp = stream[j].tp
        /\ \A j \in Sids \ {i} : stream'[j] = stream[j]
        /\ proc'[Main].pc # "tune" => stream' = stream
    <3>1. CASE stream' = stream
      BY <3>1
    <3>2. CASE /\ stream' = [stream EXCEPT ![i].do_play = TRUE, ![i].thread = IF @ = Main THEN a ELSE @]
               /\ proc' = [proc EXCEPT ![Main].pc = "tune"]
      BY <1>3, <3>2, Indices DEF OwnInv, Types, StreamType, ProcType
    <3>3. QED
      BY <1>5, <3>1, <3>2 DEF ParamsDone
  <2>4. /\ proc'[Main].pc \in {"idle", "tune"} /\ \A u \in Threads \ {Main} : proc'[u] = proc[u]
        /\ proc'[Main].pc = "tune" => Played' = i
    <3>1. CASE proc' = [proc EXCEPT ![Main] = Idle]
      BY <3>1, IdleType, Indices DEF OwnInv, Types
    <3>2. CASE proc' = [proc EXCEPT ![Main].pc = "tune"]
      BY <1>1, <3>2, Indices DEF OwnInv, Types, ProcType, Played
    <3>3. QED
      BY <1>5, <3>1, <3>2 DEF ParamsDone
  <2>5. /\ tune \/ (tp = ad[a].tp /\ ~ad[a].do_tune)
        /\ proc'[Main].pc = "tune" => tp = stream[i].tp /\ (tune => master = i)
    <3>1. ad[a].do_tune => tune
      BY <1>3, <2>1, <2>2
    <3>2. \/ proc' = [proc EXCEPT ![Main] = Idle] /\ tp = ad[a].tp /\ ~tune
          \/ proc' = [proc EXCEPT ![Main] = Idle] /\ tp = stream[i].tp /\ tune = (ad[a].tp # stream[i].tp)
          \/ tp = stream[i].tp /\ tune = (ad[a].tp # stream[i].tp) /\ (tune => master = i)
      BY <1>5 DEF ParamsDone
    <3>3. proc' = [proc EXCEPT ![Main] = Idle] => proc'[Main].pc # "tune"
      BY IdleType, Indices DEF OwnInv, Types
    <3>4. QED
      BY <3>1, <3>2, <3>3
  <2>6. \A b \in Adapters : Attached(b)' = Attached(b) /\ Leaving(b)' = Leaving(b) /\ Users(b)' = Users(b)
    BY <1>3, <2>3, <2>4, UsersSame
  <2>7. i \in Attached(a) /\ i \in Users(a)
    BY <1>2, <1>3, <2>1, InUsers
  <2>8. \A b \in Adapters : Up(b)' <=> Up(b)
    BY <2>2 DEF Up
  <2>9. GoneEmpty'
    BY <1>3, <2>6, <2>8 DEF Share, GoneEmpty
  <2>10. Counted'
    <3>1. \A b \in Adapters : ad'[b].cnt = ad[b].cnt /\ (ad'[b].master = ad[b].master \/ (b = a /\ ad'[b].master = i))
      BY <2>1, <2>2
    <3>2. QED
      BY <1>3, <2>6, <2>7, <2>8, <3>1 DEF Share, Counted
  <2>11. PidsOwned'
    <3>1. SUFFICES ASSUME NEW b \in Adapters, Up(b) PROVE ad'[b].owners \subseteq Users(b)
      BY <2>6, <2>8 DEF PidsOwned
    <3>2. ad[b].owners \subseteq Users(b)
      BY <3>1 DEF Share, PidsOwned
    <3>3. QED
      BY <2>1, <2>2, <2>7, <3>2
  <2>12. PlayingHere' /\ ArriveMux'
    BY <1>3, <2>3, <2>4 DEF PlayingHere, ArriveMux, PlayPcs
  <2>13. TuneMine'
    <3>1. proc'[Main].pc = "tune" => stream'[i].adapter = a /\ stream'[i].tp = stream[i].tp
      BY <1>2, <2>3
    <3>2. QED
      BY <2>2, <2>4, <2>5, <3>1 DEF TuneMine
  <2>14. OnMux'
    <3>1. SUFFICES ASSUME NEW j \in Sids, stream[j].state = "live", stream'[j].do_play, stream[j].adapter \notin lost,
                          Up(stream[j].adapter)'
                   PROVE  ad'[stream[j].adapter].tp \in {stream[j].tp, NoMux} \/ ad'[stream[j].adapter].do_tune
      BY <1>3, <2>3 DEF OnMux, Live, Up
    <3>2. PICK b \in Adapters : b = stream[j].adapter
      <4>1. stream'[j].adapter = stream[j].adapter /\ stream[j].adapter \in Adapters \cup {-1}
        BY <2>3 DEF OwnInv, Types, StreamType
      <4>2. QED
        BY <3>1, <4>1 DEF Up
    <3>3. Up(b)
      BY <2>3, <2>8, <3>1, <3>2 DEF Up
    <3>4. CASE stream[j].do_play
      <4>1. ad[b].tp \in {stream[j].tp, NoMux} \/ ad[b].do_tune
        BY <1>3, <3>1, <3>2, <3>3, <3>4, Indices DEF Share, OnMux, Live
      <4>2. QED
        BY <2>2, <2>5, <3>2, <4>1
    <3>5. CASE ~stream[j].do_play
      <4>1. j = i /\ proc'[Main].pc = "tune"
        BY <2>3, <3>1, <3>5
      <4>2. QED
        BY <1>2, <2>2, <2>5, <4>1
    <3>6. QED
      BY <3>4, <3>5
  <2>15. QED
    BY <2>9, <2>10, <2>11, <2>12, <2>13, <2>14 DEF Share
<1>6. QED
  BY <1>1, <1>2, <1>4, <1>5, ParamsEffect

\* tune: when the mux changes the others go, and a count of one says there is no other.
LEMMA SharePlayTune == ASSUME OwnInv, OwnInv', Share, NEW hwFail \in BOOLEAN, PlayTune(hwFail) PROVE Share'
<1>1. PICK i \in Sids : i = Played
  BY Indices DEF OwnInv, Busy, PlayTune, Playing, Played
<1>2. PICK a \in Adapters \cup {-1} : a = stream[i].adapter
  BY DEF OwnInv, Types, StreamType
<1> DEFINE tunes == Up(a) /\ ad[a].master = i /\ ad[a].do_tune
           others == IF tunes /\ ad[a].cnt > 1 THEN Attached(a) \ {i} ELSE {}
           r == IF others = {} THEN ad[a] ELSE Detach(ad[a], a, others)
           owners == IF hwFail THEN r.owners \ {i} ELSE r.owners
           G == [b \in Adapters |-> IF b = a THEN others ELSE {}]
<1>3. /\ proc[Main].pc = "tune" /\ lost' = lost /\ stream[i].state = "live"
      /\ stream' = StreamsWithout(others) /\ proc' = [proc EXCEPT ![Main] = Idle]
      /\ ad' = IF ~Up(a) THEN ad ELSE [ad EXCEPT ![a] = [r EXCEPT !.do_tune = FALSE, !.owners = owners]]
  BY <1>1, <1>2 DEF PlayTune, Playing, Reply, Share, PlayingHere, PlayPcs
<1>4. proc'[Main].pc = "idle" /\ \A u \in Threads \ {Main} : proc'[u] = proc[u]
  BY <1>3, IdleType, Indices DEF OwnInv, Types
<1>5. /\ others \subseteq Sids \ {i} /\ others \subseteq Attached(a) /\ (others # {} => Up(a))
      /\ G \in [Adapters -> SUBSET Sids]
  BY DEF Attached
<1>6. \A j \in Sids : stream'[j] = IF j \in others THEN Released(j) ELSE stream[j]
  <2> HIDE DEF others
  <2> QED BY <1>3, <1>5, StreamsWithoutType DEF OwnInv
<1>7. /\ \A b \in Adapters \ {a} : ad'[b] = ad[b]
      /\ ~Up(a) /\ a \in Adapters => ad'[a] = ad[a]
      /\ Up(a) => /\ a \in Adapters /\ Without(a, others) \in AdType
                  /\ ad'[a].enabled = Without(a, others).enabled /\ ad'[a].cnt = Without(a, others).cnt
                  /\ ad'[a].master = Without(a, others).master /\ ad'[a].tp = Without(a, others).tp
                  /\ ad'[a].owners \subseteq Without(a, others).owners
                  /\ ~ad'[a].do_tune
  <2>1. CASE ~Up(a)
    BY <1>3, <2>1
  <2>2. CASE Up(a)
    <3>1. a \in Adapters /\ r = Without(a, others)
      BY <2>2 DEF Up, Without
    <3>2. r \in AdType
      <4> HIDE DEF others, r
      <4> QED BY <1>5, <3>1, WithoutFields
    <3> DEFINE e == [r EXCEPT !.do_tune = FALSE, !.owners = owners]
    <3>3. /\ e.enabled = r.enabled /\ e.cnt = r.cnt /\ e.master = r.master /\ e.tp = r.tp
          /\ e.owners \subseteq r.owners /\ ~e.do_tune
      <4>1. owners \subseteq r.owners
        OBVIOUS
      <4> HIDE DEF r, owners
      <4>2. QED
        BY <3>2, <4>1 DEF AdType
    <3> HIDE DEF e
    <3>4. ad'[a] = e /\ \A b \in Adapters \ {a} : ad'[b] = ad[b]
      BY <1>3, <2>2, <3>1 DEF OwnInv, Types, e
    <3> HIDE DEF r, others
    <3>5. QED
      BY <2>2, <3>1, <3>2, <3>3, <3>4
  <2>3. QED
    BY <2>1, <2>2
<1>8. \A b \in Adapters : G[b] = IF b = a THEN others ELSE {}
  OBVIOUS
<1> HIDE DEF others, r, owners, G
<1>9. ASSUME NEW b \in Adapters
      PROVE  /\ Users(b)' = Users(b) \ G[b] /\ G[b] \subseteq Users(b)
             /\ (Attached(b) \cup Leaving(b))' = (Attached(b) \cup Leaving(b)) \ G[b]
  <2>1. Users(b) = Attached(b) \cup Leaving(b)
    BY <1>3 DEF Users, Arriving
  <2>2. Users(b)' = Attached(b)' \cup Leaving(b)'
    BY <1>4 DEF Users, Arriving
  <2>3. Leaving(b)' = Leaving(b)
    <3>1. \A u \in Threads : (proc'[u].pc = "detach" <=> proc[u].pc = "detach") /\ (proc[u].pc = "detach" => proc'[u] = proc[u])
      BY <1>3, <1>4
    <3>2. QED
      BY <3>1 DEF Leaving
  <2>4. \A j \in Sids : j \in Attached(b)' <=> j \in Attached(b) /\ j \notin G[b]
    <3>1. SUFFICES ASSUME NEW j \in Sids PROVE j \in Attached(b)' <=> j \in Attached(b) /\ j \notin G[b]
      OBVIOUS
    <3>2. CASE j \in others
      <4>1. j \notin Attached(b)'
        BY <1>6, <3>2, ReleasedType, InUsersNext DEF OwnInv
      <4>2. a \in Adapters /\ j \in Attached(a)
        BY <1>5, <3>2 DEF Up
      <4>3. b # a => j \notin Attached(b)
        BY <4>2, InUsers
      <4>4. QED
        BY <1>8, <3>2, <4>1, <4>3
    <3>3. CASE j \notin others
      BY <1>6, <1>8, <3>3, InUsers, InUsersNext
    <3>4. QED
      BY <3>2, <3>3
  <2>5. Attached(b)' = Attached(b) \ G[b]
    BY <2>4, UsersType, UsersTypeNext
  <2>6. G[b] \subseteq Attached(b) /\ Attached(b) \cap Leaving(b) = {}
    BY <1>5, <1>8, UsersType
  <2>7. QED
    BY <2>1, <2>2, <2>3, <2>5, <2>6
<1>10. \A b \in Adapters : /\ ad'[b].enabled = Without(b, G[b]).enabled /\ ad'[b].cnt = Without(b, G[b]).cnt
                           /\ ad'[b].master = Without(b, G[b]).master
                           /\ ad'[b].owners \subseteq Without(b, G[b]).owners
  <2>1. \A b \in Adapters \ {a} : Without(b, G[b]) = ad[b]
    BY <1>8 DEF Without
  <2>2. a \in Adapters /\ ~Up(a) => Without(a, G[a]) = ad[a]
    BY DEF Without
  <2>3. QED
    BY <1>7, <1>8, <2>1, <2>2
<1>11. GoneEmpty' /\ Counted' /\ PidsOwned'
  BY <1>3, <1>5, <1>9, <1>10, ShareLeave
<1>12. PlayingHere' /\ TuneMine' /\ ArriveMux'
  BY <1>4 DEF PlayingHere, TuneMine, ArriveMux, PlayPcs
<1>13. OnMux'
  <2>1. SUFFICES ASSUME NEW j \in Sids, Live(j)', stream'[j].do_play, stream'[j].adapter \notin lost,
                        Up(stream[j].adapter)'
                 PROVE  ad'[stream'[j].adapter].tp \in {stream'[j].tp, NoMux} \/ ad'[stream'[j].adapter].do_tune
    BY <1>3 DEF OnMux, Up
  <2>2. j \notin others /\ stream'[j] = stream[j] /\ stream[j].state = "live" /\ Live(j)
    BY <1>6, <2>1, ReleasedType DEF Live, OwnInv
  <2>3. PICK b \in Adapters : b = stream[j].adapter
    <3>1. stream[j].adapter \in Adapters \cup {-1}
      BY DEF OwnInv, Types, StreamType
    <3>2. QED
      BY <2>1, <2>2, <3>1 DEF Up
  <2>4. Up(b)
    BY <1>5, <1>7, <2>1, <2>2, <2>3, WithoutFields DEF Up
  <2>5. ad[b].tp \in {stream[j].tp, NoMux} \/ ad[b].do_tune
    BY <1>3, <2>1, <2>2, <2>3, <2>4 DEF Share, OnMux
  <2>6. CASE b # a
    BY <1>7, <2>2, <2>3, <2>5, <2>6
  <2>7. CASE b = a
    <3>1. ad'[b].tp \in {ad[b].tp, NoMux}
      BY <1>5, <1>7, <2>4, <2>7, WithoutFields
    <3>2. b \notin lost /\ (ad[b].do_tune => ad[b].master = i) /\ ad[b].tp \in {stream[i].tp, NoMux}
      BY <1>1, <1>2, <1>3, <2>1, <2>2, <2>3, <2>4, <2>7 DEF Share, TuneMine
    <3>3. ad[b].do_tune => j = i
      <4>1. SUFFICES ASSUME ad[b].do_tune, j # i PROVE FALSE
        OBVIOUS
      <4>2. i \in Users(b) /\ j \in Users(b) /\ j \in Attached(b)
        BY <1>2, <1>3, <2>2, <2>3, <2>7, InUsers
      <4>3. ~(ad[b].cnt > 1)
        BY <2>2, <2>4, <2>7, <3>2, <4>1, <4>2 DEF others
      <4>4. ad[b].cnt = Cardinality(Users(b)) /\ IsFiniteSet(Users(b))
        BY <2>4, <3>2, UsersType, SidsFinite DEF Share, Counted
      <4>5. Cardinality({i, j}) = 2
        <5>1. {i, j} = {i} \cup {j} /\ j \notin {i}
          BY <4>1
        <5>2. IsFiniteSet({i}) /\ Cardinality({i}) = 1
          BY FS_Singleton
        <5>3. Cardinality({i} \cup {j}) = 2
          BY <5>1, <5>2, FS_AddElement
        <5>4. QED
          BY <5>1, <5>3
      <4>6. Cardinality({i, j}) <= Cardinality(Users(b)) /\ Cardinality(Users(b)) \in Nat
        BY <4>2, <4>4, FS_Subset, FS_CardinalityType
      <4>7. QED
        BY <4>3, <4>4, <4>5, <4>6
    <3>4. ad[b].tp \in {stream[j].tp, NoMux}
      BY <2>5, <3>2, <3>3
    <3>5. QED
      BY <2>2, <2>3, <3>1, <3>4
  <2>8. QED
    BY <2>6, <2>7
<1>14. QED
  BY <1>11, <1>12, <1>13 DEF Share

-----------------------------------------------------------------------------
(* Theorems about what the streams share *)

\* A step out of a state without a fault, into one without a fault, preserves Share.
LEMMA ShareNext == ASSUME OwnInv, OwnInv', Share, ~fault', [Next]_vars PROVE Share'
<1>1. CASE UNCHANGED vars
  BY <1>1, ShareQuiet DEF vars, Stays
<1>2. ASSUME NEW c \in Conns, ConnOpen(c) \/ KeepAlive(c) \/ Teardown(c) \/ ConnClose(c) PROVE Share'
  BY <1>2, ShareConnOpen, ShareKeepAlive, ShareTeardown, ShareConnClose
<1>3. ASSUME NEW c \in Conns, NEW m \in Muxes \cup {NoMux}, NEW never \in {FALSE, NeverTimesOut},
             PlayRequest(c, m, never)
      PROVE  Share'
  BY <1>3, SharePlayRequest, SessionsAssumption
<1>4. ASSUME NEW c \in RtspConns, NEW m \in Muxes \cup {NoMux}, NEW never \in {FALSE, NeverTimesOut},
             NEW i \in Sids, NEW ty \in Transports, NEW pidsOnly \in BOOLEAN, NEW sockFail \in BOOLEAN,
             SetupRequest(c, i, m, ty, never, pidsOnly, sockFail)
      PROVE  Share'
  <2>1. never \in BOOLEAN
    BY SessionsAssumption
  <2>2. QED
    BY <1>4, <2>1, ShareSetupRequest
<1>5. ASSUME NEW conf \in SUBSET SlaveAdapters, PlayCheck(conf) PROVE Share'
  BY <1>5, SharePlayCheck
<1>6. ASSUME NEW conf \in SUBSET SlaveAdapters, NEW broken \in SUBSET Adapters, PlaySelect(conf, broken)
      PROVE  Share'
  BY <1>6, SharePlaySelect
<1>7. CASE PlayAttach \/ (\E pids : PlayParams(pids)) \/ \E hwFail \in BOOLEAN : PlayTune(hwFail)
  BY <1>7, SharePlayAttach, SharePlayParams, SharePlayTune
<1>8. ASSUME NEW i \in Sids, RtpSocketError(i) \/ \E t \in Threads : StreamTimeout(t, i) PROVE Share'
  BY <1>8, ShareRtpSocketError, ShareStreamTimeout
<1>9. ASSUME NEW t \in Threads, CloseDisable(t) \/ CloseDetach(t) \/ CloseUnlink(t) \/ CloseRelease(t)
      PROVE  Share'
  BY <1>9, ShareCloseDisable, ShareCloseDetach, ShareCloseUnlink, ShareCloseRelease
<1>10. ASSUME NEW a \in Adapters, AdapterTimeout(a) \/ AdapterError(a) \/ CloseAdapter(a) PROVE Share'
  BY <1>10, ShareAdapterAsked, ShareCloseAdapter
<1>11. CASE Next
  <2>1. CASE \E c \in Conns : ConnOpen(c) \/ KeepAlive(c) \/ Teardown(c) \/ ConnClose(c)
    BY <1>2, <2>1
  <2>2. CASE \E c \in Conns, m \in Muxes \cup {NoMux}, never \in {FALSE, NeverTimesOut} :
        \/ PlayRequest(c, m, never)
        \/ \E i \in Sids, ty \in Transports, pidsOnly, sockFail \in BOOLEAN :
              c \in RtspConns /\ SetupRequest(c, i, m, ty, never, pidsOnly, sockFail)
    <3>1. PICK c \in Conns, m \in Muxes \cup {NoMux}, never \in {FALSE, NeverTimesOut} :
        \/ PlayRequest(c, m, never)
        \/ \E i \in Sids, ty \in Transports, pidsOnly, sockFail \in BOOLEAN :
              c \in RtspConns /\ SetupRequest(c, i, m, ty, never, pidsOnly, sockFail)
      BY <2>2
    <3>2. CASE PlayRequest(c, m, never)
      BY <1>3, <3>2
    <3>3. ASSUME NEW i \in Sids, NEW ty \in Transports, NEW pidsOnly \in BOOLEAN, NEW sockFail \in BOOLEAN,
                 c \in RtspConns, SetupRequest(c, i, m, ty, never, pidsOnly, sockFail)
          PROVE  Share'
      BY <1>4, <3>3
    <3>4. QED
      BY <3>1, <3>2, <3>3
  <2>3. CASE \E conf \in SUBSET SlaveAdapters :
        \/ PlayCheck(conf)
        \/ \E broken \in SUBSET Adapters : PlaySelect(conf, broken)
    BY <1>5, <1>6, <2>3
  <2>4. QED
    BY <1>7, <1>8, <1>9, <1>10, <1>11, <2>1, <2>2, <2>3 DEF Next
<1>12. QED
  BY <1>1, <1>11

\* The history only grows: a behaviour with no fault now never had one.
LEMMA FaultStays == ASSUME OwnInv, [Next]_vars, fault PROVE fault'
<1>1. CASE UNCHANGED vars
  BY <1>1 DEF vars
<1>2. CASE \E conf : PlayCheck(conf)
  BY <1>2 DEF PlayCheck
<1>3. CASE \E pids : PlayParams(pids)
  BY <1>3 DEF PlayParams
<1>4. \A c : ConnOpen(c) \/ KeepAlive(c) \/ Teardown(c) \/ ConnClose(c) => fault' = fault
  BY DEF ConnOpen, KeepAlive, Teardown, ConnClose
<1>5. \A c, m, never : PlayRequest(c, m, never) => fault' = fault
  BY DEF PlayRequest
<1>6. \A c, i, m, ty, never, pidsOnly, sockFail :
         SetupRequest(c, i, m, ty, never, pidsOnly, sockFail) => fault' = fault
  BY DEF SetupRequest
<1>7. \A conf, broken : PlaySelect(conf, broken) => fault' = fault
  BY DEF PlaySelect
<1>8. PlayAttach \/ (\E hwFail : PlayTune(hwFail)) => fault' = fault
  BY DEF PlayAttach, PlayTune
<1>9. \A i, t : RtpSocketError(i) \/ StreamTimeout(t, i) => fault' = fault
  BY DEF RtpSocketError, StreamTimeout
<1>10. \A t : CloseDisable(t) \/ CloseDetach(t) \/ CloseUnlink(t) \/ CloseRelease(t) => fault' = fault
  BY DEF CloseDisable, CloseDetach, CloseUnlink, CloseRelease
<1>11. \A a : AdapterTimeout(a) \/ AdapterError(a) \/ CloseAdapter(a) => fault' = fault
  BY DEF AdapterTimeout, AdapterError, CloseAdapter
<1>12. QED
  BY <1>1, <1>2, <1>3, <1>4, <1>5, <1>6, <1>7, <1>8, <1>9, <1>10, <1>11 DEF Next

THEOREM ShareInvariant == Spec => []ShareInv
<1>1. Init => ShareInv
  <2> SUFFICES ASSUME Init, OwnInv PROVE Share
    <3>1. Init => OwnInv
      BY InitOwn
    <3>2. QED
      BY <3>1 DEF ShareInv
  <2>1. proc[Main].pc = "idle" /\ \A t \in Threads : proc[t].pc = "idle"
    BY IdleType, Indices DEF Init
  <2>2. /\ \A i \in Sids : stream[i].state = "free"
        /\ \A a \in Adapters : ~Up(a)
    BY DEF Init, FreeStream, ClosedAdapter, Up
  <2>3. \A a \in Adapters : Attached(a) = {} /\ Leaving(a) = {}
    BY <2>1, <2>2 DEF Attached, Leaving
  <2>4. PlayingHere /\ TuneMine /\ ArriveMux
    BY <2>1 DEF PlayingHere, TuneMine, ArriveMux, PlayPcs
  <2>5. GoneEmpty /\ Counted /\ PidsOwned
    BY <2>2, <2>3 DEF GoneEmpty, Counted, PidsOwned
  <2>6. OnMux
    BY <2>2 DEF OnMux, Live
  <2>7. QED
    BY <2>4, <2>5, <2>6 DEF Share
<1>2. OwnInv /\ OwnInv' /\ ShareInv /\ [Next]_vars => ShareInv'
  <2> SUFFICES ASSUME OwnInv, OwnInv', ShareInv, [Next]_vars, ~fault' PROVE Share'
    BY DEF ShareInv
  <2>1. ~fault
    BY FaultStays
  <2>2. QED
    BY <2>1, ShareNext DEF ShareInv
<1>3. QED
  BY <1>1, <1>2, OwnInvariant, PTL DEF Spec

\* sid_cnt is the number of the streams on an adapter and master_sid names one of them or
\* the one that is about to be counted, for any number of streams and adapters: as long as
\* no start_play went on with a stream that was closed after its lookup, and for the
\* adapters that did not close while streams used them.  In those two cases the code
\* miscounts; the theorem is about all the other ones.
THEOREM SessionsCount == Spec => []CountExact
<1>1. ShareInv => CountExact
  BY DEF ShareInv, Share, Counted, CountExact
<1>2. QED
  BY <1>1, ShareInvariant, PTL

\* No pid is left open for a stream that is gone.
THEOREM SessionsPids == Spec => []PidOwnersAttached
<1>1. ShareInv => PidOwnersAttached
  BY DEF ShareInv, Share, PidsOwned, PidOwnersAttached
<1>2. QED
  BY <1>1, ShareInvariant, PTL

\* A playing stream is on its own mux, on none, or about to be tuned: the master's retune
\* never takes another stream along.
THEOREM SessionsOwnMux == Spec => []OwnMux
<1>1. ShareInv => OwnMux
  BY DEF ShareInv, Share, OnMux, OwnMux, InPlay, Played
<1>2. QED
  BY <1>1, ShareInvariant, PTL
=============================================================================
