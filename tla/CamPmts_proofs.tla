--------------------------- MODULE CamPmts_proofs ---------------------------
(***************************************************************************)
(* Proofs about CamPmts, for any pool of programs, any number of CAPMTs a  *)
(* CAM accepts, any stream loops and service ids, and any bound on faults  *)
(* and operations: programs that share a CAM never share a program number  *)
(* (NumbersDiffer), and a program that counts as sent is what the CAM has  *)
(* under its number (SentIsThere).                                         *)
(***************************************************************************)
EXTENDS CamPmts, FiniteSetTheorems, WellFoundedInduction, TLAPS

\* The job is for a program that runs; until its masks are written the program does not count as sent.
AtWork ==
    /\ job.pc = "idle" => job = Idle
    /\ job.pc # "idle" => job.p \in Pmts /\ pmt[job.p].state = "running"
    /\ job.pc \in {"epoch", "tell", "set", "release"} => ~pmt[job.p].sent
    /\ job.pc = "parse" => (pmt[job.p].sent => job.update)

\* A program that was sent is registered, so that it is released before it goes.
SentRegistered == \A p \in Pmts : pmt[p].sent => pmt[p].reg /\ pmt[p].state # "free"

\* The numbers of all CAPMTs differ, from the first program on.
Distinct(table) == Active(table) # {} => \A s, t \in Slots : s # t => table[s].sid # table[t].sid

\* What a CAPMT keeps as sent is of programs it has, under its number, and the CAM has it.
ListedIn(h) == {h.es[i] : i \in Places} \ {NoStreams}
HashOf(c, told) ==
    c.hash # Nothing => /\ Used(c) # {} /\ c.hash.sid = c.sid
                        /\ dev = "initialized" => ListedIn(c.hash) \subseteq told[c.sid]
Hashes(table, told) == \A s \in Slots : HashOf(table[s], told)

\* A program that counts as sent, or will once the masks are written, is there.
Marked(p) == \/ pmt[p].sent /\ job.p # p
             \/ job.p = p /\ job.pc = "set" /\ job.result = "ok" /\ ~job.torn
There(p, table, told) ==
    \E s \in Slots : /\ HasPmt(table[s], p)
                     /\ table[s].hash # Nothing /\ dev = "initialized" => pmt[p].es \in told[table[s].sid]

PackInv == /\ TypeOK /\ AtWork /\ SentRegistered
           /\ Distinct(capmt) /\ Hashes(capmt, cam)
           /\ \A p \in Pmts : Marked(p) => There(p, capmt, cam)

-----------------------------------------------------------------------------
(* The operators on a CAPMT *)

USE DEF MaxPlaces, Places

LEMMA MinOf ==
    ASSUME NEW S \in SUBSET Nat, S # {}
    PROVE  Min(S) \in S /\ \A y \in S : Min(S) <= y
<1> DEFINE less == {p \in Nat \X Nat : p[1] < p[2]}
<1>1. \A x, y \in S : <<y, x>> \in less <=> y < x
  OBVIOUS
<1>2. IsWellFoundedOn(less, Nat)
  BY NatLessThanWellFounded, Zenon DEF OpToRel
<1> HIDE DEF less
<1>3. \E x \in S : \A y \in S : ~ (<<y, x>> \in less)
  BY <1>2, WFMin
<1>4. \E x \in S : \A y \in S : x <= y
  <2>1. PICK x \in S : \A y \in S : ~ (<<y, x>> \in less)
    BY <1>3
  <2>2. \A y \in S : y \in Nat /\ x \in Nat /\ ~ (y < x)
    BY <1>1, <2>1
  <2>3. QED
    BY <2>2
<1>5. QED
  BY <1>4 DEF Min

LEMMA SlotsAre == /\ Slots \in SUBSET Nat /\ SpareSid \in Nat \ Slots /\ -1 \notin Slots
                  /\ Slots \subseteq Sids /\ SpareSid \in Sids
<1>1. Cardinality(Slots) \in Nat
  BY CamPmtsAssumption, FS_CardinalityType
<1>2. QED
  BY <1>1, CamPmtsAssumption DEF SpareSid, Sids

LEMMA PlacesCount == IsFiniteSet(Places) /\ Cardinality(Places) = 3
<1>1. IsFiniteSet(1 .. 3) /\ Cardinality(1 .. 3) = IF 1 > 3 THEN 0 ELSE 3 - 1 + 1
  BY FS_Interval, 1 \in Int, 3 \in Int, Zenon
<1>2. QED
  BY <1>1

\* What is moved to the front is what was there before.
LEMMA PackedKeeps ==
    ASSUME NEW T, NEW none, NEW f \in [Places -> T \cup {none}]
    PROVE  /\ Packed(f, none) \in [Places -> T \cup {none}]
           /\ \A x : x # none => ((\E i \in Places : Packed(f, none)[i] = x) <=> (\E i \in Places : f[i] = x))
<1> DEFINE used == {i \in Places : f[i] # none}
           upto(j) == {k \in used : k <= j}
           at(i) == {j \in used : Cardinality(upto(j)) = i}
           g == [i \in Places |-> IF at(i) = {} THEN none ELSE f[Min(at(i))]]
<1>1. Packed(f, none) = g
  BY DEF Packed
<1>2. IsFiniteSet(Places) /\ Cardinality(Places) = 3
  BY PlacesCount
<1>3. \A j \in used : IsFiniteSet(upto(j)) /\ Cardinality(upto(j)) \in Places
  <2>1. SUFFICES ASSUME NEW j \in used PROVE IsFiniteSet(upto(j)) /\ Cardinality(upto(j)) \in Places
    OBVIOUS
  <2>2. upto(j) \in SUBSET Places /\ j \in upto(j)
    OBVIOUS
  <2>3. IsFiniteSet(upto(j)) /\ Cardinality(upto(j)) <= 3
    BY <1>2, <2>2, FS_Subset
  <2>4. Cardinality(upto(j)) \in Nat /\ Cardinality(upto(j)) # 0
    BY <2>2, <2>3, FS_CardinalityType, FS_EmptySet
  <2>5. QED
    BY <2>3, <2>4
<1>4. \A j, k \in used : Cardinality(upto(j)) = Cardinality(upto(k)) => j = k
  <2>1. ASSUME NEW j \in used, NEW k \in used, j < k, Cardinality(upto(j)) = Cardinality(upto(k))
        PROVE  FALSE
    <3>1. upto(j) \in SUBSET upto(k) /\ k \in upto(k) /\ k \notin upto(j)
      BY <2>1
    <3>2. upto(j) = upto(k)
      BY <1>3, <2>1, <3>1, FS_Subset
    <3>3. QED
      BY <3>1, <3>2
  <2>2. QED
    BY <2>1
<1>5. \A i \in Places : at(i) # {} => Min(at(i)) \in at(i)
  <2>1. SUFFICES ASSUME NEW i \in Places, at(i) # {} PROVE Min(at(i)) \in at(i)
    OBVIOUS
  <2>2. at(i) \in SUBSET Nat
    OBVIOUS
  <2>3. QED
    <3> HIDE DEF at
    <3> QED BY <2>1, <2>2, MinOf
<1>6. \A i \in Places : \A j \in at(i) : g[i] = f[j]
  <2>1. SUFFICES ASSUME NEW i \in Places, NEW j \in at(i) PROVE g[i] = f[j]
    OBVIOUS
  <2>2. Min(at(i)) = j
    BY <1>4, <1>5
  <2>3. QED
    BY <2>2
<1>7. g \in [Places -> T \cup {none}]
  BY <1>5
<1>8. ASSUME NEW x, x # none, NEW i \in Places, f[i] = x
      PROVE  \E j \in Places : g[j] = x
  <2>1. i \in at(Cardinality(upto(i))) /\ Cardinality(upto(i)) \in Places
    BY <1>3, <1>8
  <2>2. QED
    BY <1>6, <1>8, <2>1
<1>9. ASSUME NEW x, x # none, NEW i \in Places, g[i] = x
      PROVE  \E j \in Places : f[j] = x
  BY <1>5, <1>9
<1>10. QED
  <2> HIDE DEF g
  <2> QED BY <1>1, <1>7, <1>8, <1>9

\* The stream loops a CAPMT carries: those of the programs it has, and they alone unless the kept ones are repeated.
PmtsOK == /\ pmt \in [Pmts -> PmtType]
          /\ \A p \in Pmts : pmt[p].state # "free" => pmt[p].es \in Streams
Told(c) == {pmt[q].es : q \in {r \in Pmts : HasPmt(c, r) /\ pmt[r].state # "free"}}
LoopsIn(f) == {f[i] : i \in Places} \ {NoStreams}

LEMMA LoopsTell ==
    ASSUME PmtsOK, NEW c \in CapmtType, NEW keep \in BOOLEAN
    PROVE  /\ Loops(c, keep) \in LoopsType /\ Told(c) \subseteq LoopsIn(Loops(c, keep))
           /\ ~keep => Told(c) = LoopsIn(Loops(c, keep))
           /\ Told(c) \subseteq Streams
<1>0. /\ c.place \in [Places -> Pmts \cup {NoPmt}] /\ c.kept \in [Places -> Streams \cup {NoStreams}]
      /\ NoStreams \notin Streams /\ NoPmt \notin Pmts
  BY CamPmtsAssumption DEF CapmtType, LoopsType
<1>1. \A i \in Places : c.place[i] # NoPmt => c.place[i] \in Pmts
  BY <1>0
<1>2. \A q \in Pmts : pmt[q].state # "free" => Live(q) /\ pmt[q].es \in Streams
  BY <1>0 DEF Live, PmtsOK
<1>3. \A q \in Pmts \cup {NoPmt} : Live(q) => q \in Pmts /\ pmt[q].state # "free"
  BY DEF Live
<1>4. Loops(c, keep) \in LoopsType
  BY <1>0, <1>2, <1>3 DEF Loops, LoopsType
<1>5. \A q \in Pmts : HasPmt(c, q) /\ pmt[q].state # "free" => pmt[q].es \in LoopsIn(Loops(c, keep))
  <2>1. ASSUME NEW q \in Pmts, NEW i \in Places, c.place[i] = q, pmt[q].state # "free"
        PROVE  Loops(c, keep)[i] = pmt[q].es /\ pmt[q].es # NoStreams
    BY <1>0, <1>2, <2>1 DEF Loops
  <2>2. QED
    BY <2>1 DEF HasPmt, LoopsIn
<1>6. Told(c) \subseteq LoopsIn(Loops(c, keep))
  BY <1>5 DEF Told
<1>7. ASSUME ~keep, NEW i \in Places, Loops(c, keep)[i] # NoStreams
      PROVE  Loops(c, keep)[i] \in Told(c)
  <2>1. Live(c.place[i]) /\ Loops(c, keep)[i] = pmt[c.place[i]].es
    BY <1>7 DEF Loops
  <2>2. c.place[i] \in Pmts /\ pmt[c.place[i]].state # "free" /\ HasPmt(c, c.place[i])
    BY <1>0, <1>3, <2>1 DEF HasPmt
  <2>3. QED
    BY <2>1, <2>2 DEF Told
<1>8. ~keep => LoopsIn(Loops(c, keep)) \subseteq Told(c)
  BY <1>7 DEF LoopsIn
<1>9. Told(c) \subseteq Streams
  BY <1>2 DEF Told
<1>10. QED
  BY <1>4, <1>6, <1>8, <1>9

LEMMA ContentsTell ==
    ASSUME PmtsOK, NEW c \in CapmtType, NEW keep \in BOOLEAN, NEW reason \in {"ok_descrambling", "not_selected"}
    PROVE  /\ Contents(c, reason, keep) \in ContentsType /\ Contents(c, reason, keep).sid = c.sid
           /\ Told(c) \subseteq ListedIn(Contents(c, reason, keep))
           /\ ~keep => Told(c) = ListedIn(Contents(c, reason, keep))
<1>1. Loops(c, keep) \in [Places -> Streams \cup {NoStreams}]
  BY LoopsTell DEF LoopsType
<1>2. /\ Packed(Loops(c, keep), NoStreams) \in LoopsType
      /\ \A x : x # NoStreams => ((\E i \in Places : Packed(Loops(c, keep), NoStreams)[i] = x)
                                     <=> (\E i \in Places : Loops(c, keep)[i] = x))
  BY <1>1, PackedKeeps DEF LoopsType
<1>3. LoopsIn(Packed(Loops(c, keep), NoStreams)) = LoopsIn(Loops(c, keep))
  BY <1>2 DEF LoopsIn
<1>4. ListedIn(Contents(c, reason, keep)) = LoopsIn(Loops(c, keep))
  BY <1>3 DEF ListedIn, LoopsIn, Contents
<1>5. Contents(c, reason, keep) \in ContentsType /\ Contents(c, reason, keep).sid = c.sid
  BY <1>2 DEF Contents, ContentsType, CapmtType
<1>6. QED
  BY <1>4, <1>5, LoopsTell

LEMMA CompactKeeps ==
    ASSUME NEW c \in CapmtType
    PROVE  /\ Compact(c) \in CapmtType /\ Compact(c).sid = c.sid /\ Compact(c).hash = c.hash
           /\ \A p : p # NoPmt => (HasPmt(Compact(c), p) <=> HasPmt(c, p))
<1>1. /\ Packed(c.place, NoPmt) \in [Places -> Pmts \cup {NoPmt}]
      /\ \A x : x # NoPmt => ((\E i \in Places : Packed(c.place, NoPmt)[i] = x)
                                 <=> (\E i \in Places : c.place[i] = x))
  BY PackedKeeps DEF CapmtType
<1>2. QED
  BY <1>1 DEF Compact, CapmtType, HasPmt

\* A CAPMT that is sent keeps its programs and its number; what is written is what it lists from then on, and
\* what is not written again was written before.
SentFrom(c, r) ==
    /\ r.c \in CapmtType /\ r.c.sid = c.sid
    /\ r.rc \in {"ok", "retry"} /\ r.written \in BOOLEAN
    /\ \A p : p # NoPmt => (HasPmt(r.c, p) <=> HasPmt(c, p))
    /\ r.written => /\ r.rc = "ok" /\ r.c.hash.sid = c.sid /\ ListedIn(r.c.hash) = Told(c)
    /\ ~r.written => r.c.hash = c.hash
    /\ ~r.written /\ r.rc = "ok" => Told(c) \subseteq ListedIn(c.hash)

LEMMA SendTells ==
    ASSUME PmtsOK, NEW c \in CapmtType, NEW reason \in {"ok_descrambling", "not_selected"},
           NEW force, NEW ok
    PROVE  SentFrom(c, SendCapmt(c, reason, force, ok))
<1> DEFINE d == Compact(c)
           r == SendCapmt(c, reason, force, ok)
<1>0. /\ d \in CapmtType /\ d.sid = c.sid /\ d.hash = c.hash
      /\ \A p : p # NoPmt => (HasPmt(d, p) <=> HasPmt(c, p))
  BY CompactKeeps
<1>1. NoneKept \in LoopsType /\ Loops(d, FALSE) \in LoopsType
  BY <1>0, LoopsTell DEF NoneKept, LoopsType
<1>2. Told(d) = Told(c)
  BY <1>0, CamPmtsAssumption DEF Told
<1> HIDE DEF d, r
<1>3. SUFFICES SentFrom(c, r)
  BY DEF r
<1>4. CASE ~force /\ c.hash = Contents(c, reason, TRUE)
  <2>1. r = [c |-> c, rc |-> "ok", written |-> FALSE]
    BY <1>4 DEF SendCapmt, r
  <2>2. Told(c) \subseteq ListedIn(c.hash)
    BY <1>4, ContentsTell
  <2>3. QED
    BY <2>1, <2>2 DEF SentFrom
<1>5. CASE ~(~force /\ c.hash = Contents(c, reason, TRUE)) /\ ~ok
  <2>1. r = [c |-> [d EXCEPT !.kept = NoneKept], rc |-> "retry", written |-> FALSE]
    BY <1>5 DEF SendCapmt, d, r
  <2> DEFINE e == [d EXCEPT !.kept = NoneKept]
  <2>2. /\ e \in CapmtType /\ e.sid = c.sid /\ e.hash = c.hash
        /\ \A p : HasPmt(e, p) <=> HasPmt(d, p)
    BY <1>0, <1>1 DEF CapmtType, HasPmt
  <2> HIDE DEF e
  <2>3. r.c = e /\ r.rc = "retry" /\ r.written = FALSE
    BY <2>1 DEF e
  <2>4. QED
    BY <1>0, <2>2, <2>3 DEF SentFrom
<1>6. CASE ~(~force /\ c.hash = Contents(c, reason, TRUE)) /\ ok
  <2> DEFINE h == Contents(d, reason, FALSE)
             k == Loops(d, FALSE)
  <2>1. r = [c |-> [d EXCEPT !.hash = h, !.kept = k], rc |-> "ok", written |-> TRUE]
    BY <1>6 DEF SendCapmt, d, r
  <2>2. h \in ContentsType /\ h.sid = c.sid /\ ListedIn(h) = Told(c)
    BY <1>0, <1>2, ContentsTell
  <2> HIDE DEF h, k
  <2> DEFINE e == [d EXCEPT !.hash = h, !.kept = k]
  <2>3. /\ e \in CapmtType /\ e.sid = c.sid /\ e.hash = h
        /\ \A p : HasPmt(e, p) <=> HasPmt(d, p)
    BY <1>0, <1>1, <2>2 DEF CapmtType, HasPmt, k
  <2> HIDE DEF e
  <2>4. r.c = e /\ r.rc = "ok" /\ r.written = TRUE
    BY <2>1 DEF e
  <2>5. QED
    BY <1>0, <2>2, <2>3, <2>4 DEF SentFrom
<1>7. QED
  BY <1>4, <1>5, <1>6

-----------------------------------------------------------------------------
(* The operators on the table *)

\* A CAPMT is in use when it has a program.
LEMMA UsedHas ==
    ASSUME NEW c \in CapmtType
    PROVE  /\ Used(c) # {} <=> \E q \in Pmts : HasPmt(c, q)
           /\ \A i \in Used(c) : c.place[i] \in Pmts
           /\ Used(c) # {} => First(c) \in Pmts /\ HasPmt(c, First(c))
<1>1. c.place \in [Places -> Pmts \cup {NoPmt}] /\ NoPmt \notin Pmts
  BY CamPmtsAssumption DEF CapmtType
<1>2. \A i \in Used(c) : c.place[i] \in Pmts
  BY <1>1 DEF Used
<1>3. Used(c) # {} <=> \E q \in Pmts : HasPmt(c, q)
  BY <1>1, <1>2 DEF Used, HasPmt
<1>4. ASSUME Used(c) # {}
      PROVE  First(c) \in Pmts /\ HasPmt(c, First(c))
  <2>1. Used(c) \in SUBSET Nat /\ Used(c) \subseteq Places
    BY DEF Used
  <2>2. Min(Used(c)) \in Used(c)
    BY <1>4, <2>1, MinOf
  <2>3. First(c) = c.place[Min(Used(c))]
    BY <1>4 DEF First
  <2>4. QED
    BY <1>2, <2>1, <2>2, <2>3 DEF HasPmt
<1>5. QED
  BY <1>2, <1>3, <1>4

\* The place found for a program is its own or an empty one.
LEMMA PlaceFor ==
    ASSUME capmt \in [Slots -> CapmtType], NEW p \in Pmts, NEW at, at = AddPmtToCapmt(p)
    PROVE  \/ at.slot = -1
           \/ /\ at.slot \in Slots /\ at.place \in Places
              /\ capmt[at.slot].place[at.place] = IF p \in Placed THEN p ELSE NoPmt
<1> DEFINE member == {s \in Slots : HasPmt(capmt[s], p)}
           in(s) == {i \in Places : capmt[s].place[i] = p}
           back   == {s \in Slots : \E i \in Left(capmt[s]) : capmt[s].kept[i] = pmt[p].es}
           left(s) == {i \in Left(capmt[s]) : capmt[s].kept[i] = pmt[p].es}
           empty  == Slots \ Active(capmt)
           room   == {s \in Slots : Multiple > 0 /\ Cardinality(Used(capmt[s])) < Multiple + 1}
           least  == {s \in room : \A t \in room : Load(s) <= Load(t)}
           At(s, is, rejoined) == [slot |-> s, place |-> Min(is), rejoined |-> rejoined]
<1>1. at = CASE member # {} -> At(Min(member), in(Min(member)), FALSE)
             [] member = {} /\ back # {} -> At(Min(back), left(Min(back)), TRUE)
             [] member = {} /\ back = {} /\ empty # {} -> At(Min(empty), {1}, FALSE)
             [] member = {} /\ back = {} /\ empty = {} /\ least # {} ->
                   At(Min(least), Places \ Used(capmt[Min(least)]), FALSE)
             [] OTHER -> [slot |-> -1, place |-> 0, rejoined |-> FALSE]
  BY DEF AddPmtToCapmt
<1>2. p \in Placed <=> member # {}
  BY DEF Placed
<1>3. /\ member \in SUBSET Nat /\ back \in SUBSET Nat /\ empty \in SUBSET Nat /\ least \in SUBSET Nat
      /\ member \subseteq Slots /\ back \subseteq Slots /\ empty \subseteq Slots /\ least \subseteq room
      /\ room \subseteq Slots
  BY SlotsAre
<1>4. \A s \in Slots : in(s) \in SUBSET Nat /\ left(s) \in SUBSET Nat /\ left(s) \subseteq Places \ Used(capmt[s])
  BY DEF Left
<1>5. \A s \in Slots : \A i \in Places \ Used(capmt[s]) : capmt[s].place[i] = NoPmt
  BY DEF Used
<1>6. CASE member # {}
  <2>1. Min(member) \in member
    <3> HIDE DEF member
    <3> QED BY <1>3, <1>6, MinOf
  <2>2. in(Min(member)) # {} /\ Min(member) \in Slots
    BY <2>1 DEF HasPmt
  <2>3. Min(in(Min(member))) \in in(Min(member))
    <3> HIDE DEF in
    <3> QED BY <1>4, <2>2, MinOf
  <2>4. at = At(Min(member), in(Min(member)), FALSE)
    <3> HIDE DEF member, in, At, back, left, empty, least
    <3> QED BY ONLY <1>1, <1>6, Zenon
  <2>5. QED
    BY <1>2, <1>6, <2>2, <2>3, <2>4
<1>7. CASE member = {} /\ back # {}
  <2>1. Min(back) \in back
    <3> HIDE DEF back
    <3> QED BY <1>3, <1>7, MinOf
  <2>2. left(Min(back)) # {} /\ Min(back) \in Slots
    BY <2>1
  <2>3. Min(left(Min(back))) \in left(Min(back))
    <3> HIDE DEF left
    <3> QED BY <1>4, <2>2, MinOf
  <2>4. at = At(Min(back), left(Min(back)), TRUE)
    <3> HIDE DEF member, in, At, back, left, empty, least
    <3> QED BY <1>1, <1>7
  <2>5. Min(left(Min(back))) \in Places \ Used(capmt[Min(back)])
    <3>1. left(Min(back)) \subseteq Places \ Used(capmt[Min(back)])
      <4> HIDE DEF left, back
      <4> QED BY <1>4, <2>2
    <3>2. QED
      <4> HIDE DEF left, back
      <4> QED BY <2>3, <3>1
  <2>6. p \notin Placed
    BY <1>2, <1>7
  <2>7. at.slot = Min(back) /\ at.place = Min(left(Min(back)))
    <3> HIDE DEF left, back
    <3> QED BY <2>4
  <2>8. QED
    <3> HIDE DEF left, back
    <3> QED BY <1>5, <2>2, <2>5, <2>6, <2>7
<1>8. CASE member = {} /\ back = {} /\ empty # {}
  <2>1. Min(empty) \in empty
    <3> HIDE DEF empty
    <3> QED BY <1>3, <1>8, MinOf
  <2>2. Min(empty) \in Slots /\ Used(capmt[Min(empty)]) = {}
    BY <2>1 DEF Active
  <2>3. {1} \in SUBSET Nat /\ {1} # {}
    OBVIOUS
  <2>4. Min({1}) = 1
    BY <2>3, MinOf
  <2>5. at = At(Min(empty), {1}, FALSE)
    <3> HIDE DEF member, in, At, back, left, empty, least
    <3> QED BY <1>1, <1>8
  <2>6. 1 \in Places \ Used(capmt[Min(empty)])
    BY <2>2
  <2>7. QED
    BY <1>2, <1>5, <1>8, <2>2, <2>4, <2>5, <2>6
<1>9. CASE member = {} /\ back = {} /\ empty = {} /\ least # {}
  <2>1. Min(least) \in least
    <3> HIDE DEF least
    <3> QED BY <1>3, <1>9, MinOf
  <2>2. Min(least) \in Slots /\ Cardinality(Used(capmt[Min(least)])) < Multiple + 1
    BY <2>1
  <2> DEFINE s == Min(least)
             u == Used(capmt[s])
  <2>3. Places \ u # {}
    <3>1. SUFFICES ASSUME u = Places PROVE FALSE
      BY DEF Used
    <3>2. Cardinality(Places) = 3
      BY PlacesCount
    <3>3. Multiple \in 0 .. 2
      BY CamPmtsAssumption
    <3>4. QED
      BY <2>2, <3>1, <3>2, <3>3
  <2>4. Places \ u \in SUBSET Nat
    OBVIOUS
  <2>5. Min(Places \ u) \in Places \ u
    <3> HIDE DEF u
    <3> QED BY <2>3, <2>4, MinOf
  <2>6. at = At(s, Places \ u, FALSE)
    <3> HIDE DEF member, in, At, back, left, empty, least
    <3> QED BY <1>1, <1>9
  <2>7. QED
    BY <1>2, <1>5, <1>9, <2>2, <2>5, <2>6
<1>10. CASE member = {} /\ back = {} /\ empty = {} /\ least = {}
  <2>1. at = [slot |-> -1, place |-> 0, rejoined |-> FALSE]
    <3> HIDE DEF member, in, At, back, left, empty, least
    <3> QED BY <1>1, <1>10
  <2>2. QED
    BY <2>1
<1>11. QED
  BY <1>6, <1>7, <1>8, <1>9, <1>10

Tables == [Slots -> CapmtType]

\* Two entries of which one is set.
LEMMA UsedTwo ==
    ASSUME NEW c \in CapmtType, Cardinality(Used(c)) <= 1, NEW i \in Used(c), NEW j \in Used(c)
    PROVE  i = j
<1>1. IsFiniteSet(Used(c))
  BY PlacesCount, FS_Subset DEF Used
<1>2. {i, j} \in SUBSET Used(c)
  OBVIOUS
<1>3. Cardinality({i, j}) <= Cardinality(Used(c)) /\ Cardinality(Used(c)) \in Nat /\ Cardinality({i, j}) \in Nat
  BY <1>1, <1>2, FS_Subset, FS_CardinalityType
<1>4. IsFiniteSet({i}) /\ Cardinality({i}) = 1
  BY FS_Singleton
<1>5. Cardinality({i} \cup {j}) = IF j \in {i} THEN Cardinality({i}) ELSE Cardinality({i}) + 1
  BY <1>4, FS_AddElement
<1>6. {i} \cup {j} = {i, j}
  OBVIOUS
<1>7. QED
  BY <1>3, <1>4, <1>5, <1>6

JoinAt(slot, place, p) == [capmt EXCEPT ![slot].place[place] = p]

\* A program joins the table in an empty place, or has its place already.
LEMMA Joined ==
    ASSUME capmt \in Tables, NEW p \in Pmts, NEW slot \in Slots, NEW place \in Places,
           capmt[slot].place[place] = IF p \in Placed THEN p ELSE NoPmt
    PROVE  LET join == JoinAt(slot, place, p) IN
           /\ join \in Tables
           /\ \A s \in Slots : /\ join[s].sid = capmt[s].sid /\ join[s].hash = capmt[s].hash
                               /\ \A q \in Pmts : HasPmt(join[s], q) <=> HasPmt(capmt[s], q) \/ (s = slot /\ q = p)
           /\ p \notin Placed /\ Cardinality(Used(join[slot])) = 1 => Used(capmt[slot]) = {}
           /\ HasPmt(join[slot], p)
<1>0. NoPmt \notin Pmts /\ capmt \in [Slots -> CapmtType]
  BY CamPmtsAssumption DEF Tables
<1> DEFINE join == JoinAt(slot, place, p)
           c == capmt[slot]
           d == [c EXCEPT !.place[place] = p]
<1>1. c \in CapmtType /\ d \in CapmtType /\ d.sid = c.sid /\ d.hash = c.hash
  BY <1>0 DEF CapmtType
<1>2. d.place = [c.place EXCEPT ![place] = p] /\ c.place \in [Places -> Pmts \cup {NoPmt}]
  BY <1>1 DEF CapmtType
<1>3. join = [capmt EXCEPT ![slot] = d]
  BY <1>0 DEF CapmtType, JoinAt
<1> HIDE DEF d, join
<1>4. join \in Tables
  BY <1>0, <1>1, <1>3 DEF Tables
<1>5. d.place[place] = p /\ \A i \in Places : i # place => d.place[i] = c.place[i]
  BY <1>2
<1>6. \A q \in Pmts : HasPmt(d, q) <=> HasPmt(c, q) \/ q = p
  BY <1>0, <1>5 DEF HasPmt
<1>7. \A s \in Slots : s # slot => join[s] = capmt[s]
  BY <1>0, <1>3
<1>8. join[slot] = d
  BY <1>0, <1>3
<1>9. ASSUME p \notin Placed, Cardinality(Used(d)) = 1
      PROVE  Used(c) = {}
  <2>1. place \in Used(d) /\ c.place[place] = NoPmt
    BY <1>0, <1>5, <1>9 DEF Used
  <2>2. \A i \in Used(c) : i \in Used(d) /\ i # place
    BY <1>5, <2>1 DEF Used
  <2>3. \A i \in Used(d) : i = place
    BY <1>1, <1>9, <2>1, UsedTwo
  <2>4. QED
    BY <2>2, <2>3
<1>10. HasPmt(d, p)
  BY <1>5 DEF HasPmt
<1>11. /\ join \in Tables
       /\ \A s \in Slots : /\ join[s].sid = capmt[s].sid /\ join[s].hash = capmt[s].hash
                           /\ \A q \in Pmts : HasPmt(join[s], q) <=> HasPmt(capmt[s], q) \/ (s = slot /\ q = p)
       /\ p \notin Placed /\ Cardinality(Used(join[slot])) = 1 => Used(capmt[slot]) = {}
       /\ HasPmt(join[slot], p)
  BY <1>1, <1>4, <1>6, <1>7, <1>8, <1>9, <1>10
<1>12. QED
  BY <1>11 DEF join

\* When one CAPMT is in use alone all numbers are given anew, and differ; nothing else changes.
Renumbered(table, slot, fresh, t) ==
    /\ t \in Tables
    /\ \A s \in Slots : /\ t[s].hash = table[s].hash
                        /\ \A q : HasPmt(t[s], q) <=> HasPmt(table[s], q)
    /\ Active(table) # {slot} => t = table
    /\ ~fresh => t[slot].sid = table[slot].sid
    /\ Active(table) = {slot} => \A r, s \in Slots : r # s => t[r].sid # t[s].sid

LEMMA NumberedIs ==
    ASSUME PmtsOK, NEW table \in Tables, NEW slot \in Slots, NEW fresh, Live(First(table[slot])),
           Used(table[slot]) # {}
    PROVE  Renumbered(table, slot, fresh, Numbered(table, slot, fresh))
<1> DEFINE sid == IF fresh THEN RealSid[pmt[First(table[slot])].es] ELSE table[slot].sid
           n == [s \in Slots |-> IF s = slot THEN sid ELSE IF sid = SlotSid(s) THEN SpareSid ELSE SlotSid(s)]
           u == [s \in Slots |-> [table[s] EXCEPT !.sid = n[s]]]
<1>0. table \in [Slots -> CapmtType]
  BY DEF Tables
<1>1. sid \in Sids
  <2>1. First(table[slot]) \in Pmts
    BY <1>0, UsedHas
  <2>2. pmt[First(table[slot])].es \in Streams
    BY <2>1 DEF Live, PmtsOK
  <2>3. RealSid[pmt[First(table[slot])].es] \in Sids
    BY <2>2 DEF Sids
  <2>4. table[slot].sid \in Sids
    BY <1>0 DEF CapmtType
  <2>5. QED
    BY <2>3, <2>4
<1>2. n \in [Slots -> Sids]
  <2> HIDE DEF sid
  <2> QED BY <1>1, SlotsAre DEF SlotSid
<1>3. \A r, s \in Slots : r # s => n[r] # n[s]
  <2> HIDE DEF sid
  <2> QED BY <1>1, SlotsAre DEF SlotSid
<1>4. n[slot] = sid
  OBVIOUS
<1> DEFINE t == Numbered(table, slot, fresh)
<1>5. t = IF Active(table) # {slot} THEN table ELSE u
  <2>1. t = IF Active(table) # {slot} THEN table
            ELSE [s \in Slots |-> [table[s] EXCEPT !.sid = IF s = slot THEN sid
                                                            ELSE IF sid = SlotSid(s) THEN SpareSid ELSE SlotSid(s)]]
    BY DEF Numbered
  <2> HIDE DEF sid
  <2>2. u = [s \in Slots |-> [table[s] EXCEPT !.sid = IF s = slot THEN sid
                                                       ELSE IF sid = SlotSid(s) THEN SpareSid ELSE SlotSid(s)]]
    OBVIOUS
  <2>3. QED
    BY <2>1, <2>2
<1> HIDE DEF n
<1>6. \A s \in Slots : /\ u[s] \in CapmtType /\ u[s].sid = n[s] /\ u[s].hash = table[s].hash
                       /\ u[s].place = table[s].place
  BY <1>0, <1>2 DEF CapmtType
<1>7. u \in Tables /\ \A s \in Slots : \A q : HasPmt(u[s], q) <=> HasPmt(table[s], q)
  BY <1>6 DEF Tables, HasPmt
<1>8. ~fresh => u[slot].sid = table[slot].sid
  BY <1>4, <1>6
<1>9. \A r, s \in Slots : r # s => u[r].sid # u[s].sid
  BY <1>3, <1>6
<1> HIDE DEF u
<1>10. QED
  BY <1>5, <1>6, <1>7, <1>8, <1>9 DEF Renumbered

\* A program leaves: the numbers stay, and a CAPMT without a program forgets what it sent.
LEMMA Removed ==
    ASSUME NEW table \in Tables, NEW p \in Pmts
    PROVE  LET d == RemovePmt(table, p) IN
           /\ d \in Tables
           /\ \A s \in Slots : /\ d[s].sid = table[s].sid /\ d[s].hash \in {table[s].hash, Nothing}
                               /\ \A q \in Pmts : HasPmt(d[s], q) <=> HasPmt(table[s], q) /\ q # p
                               /\ ~HasPmt(table[s], p) => d[s] = table[s]
                               /\ HasPmt(table[s], p) /\ Used(d[s]) = {} => d[s].hash = Nothing
<1>0. NoPmt \notin Pmts /\ table \in [Slots -> CapmtType]
  BY CamPmtsAssumption DEF Tables
<1> DEFINE e(s) == [table[s] EXCEPT !.place = [i \in Places |-> IF @[i] = p THEN NoPmt ELSE @[i]]]
<1>1. ASSUME NEW s \in Slots
      PROVE  /\ e(s) \in CapmtType /\ e(s).sid = table[s].sid /\ e(s).hash = table[s].hash
             /\ e(s).place = [i \in Places |-> IF table[s].place[i] = p THEN NoPmt ELSE table[s].place[i]]
  <2>1. table[s] \in CapmtType
    BY <1>0
  <2>2. QED
    BY <2>1, <1>0 DEF CapmtType
<1>2. \A s \in Slots : \A q \in Pmts : HasPmt(e(s), q) <=> HasPmt(table[s], q) /\ q # p
  <2>1. ASSUME NEW s \in Slots, NEW q \in Pmts
        PROVE  HasPmt(e(s), q) <=> HasPmt(table[s], q) /\ q # p
    BY <1>0, <1>1 DEF HasPmt
  <2>2. QED
    BY <2>1
<1>3. NoneKept \in LoopsType
  BY DEF NoneKept, LoopsType
<1> DEFINE f(s) == [e(s) EXCEPT !.hash = Nothing, !.kept = NoneKept]
<1> DEFINE d == RemovePmt(table, p)
<1>4. d = [s \in Slots |-> CASE ~HasPmt(table[s], p) -> table[s]
                             [] HasPmt(table[s], p) /\ Used(e(s)) # {} -> e(s)
                             [] OTHER -> f(s)]
  BY DEF RemovePmt
<1> HIDE DEF e
<1>5. ASSUME NEW s \in Slots
      PROVE  /\ f(s) \in CapmtType /\ f(s).sid = table[s].sid /\ f(s).hash = Nothing
             /\ f(s).place = e(s).place
  BY <1>1, <1>3 DEF CapmtType
<1> HIDE DEF f, d
<1>6. \A s \in Slots : d[s] = IF ~HasPmt(table[s], p) THEN table[s] ELSE IF Used(e(s)) # {} THEN e(s) ELSE f(s)
  BY <1>4
<1>7. \A s \in Slots : Used(f(s)) = Used(e(s)) /\ \A q : HasPmt(f(s), q) <=> HasPmt(e(s), q)
  BY <1>5 DEF Used, HasPmt
<1>8. d \in Tables
  <2>1. \A s \in Slots : d[s] \in CapmtType
    BY <1>0, <1>1, <1>5, <1>6
  <2>2. QED
    BY <1>4, <2>1 DEF Tables
<1>9. ASSUME NEW s \in Slots
      PROVE  /\ d[s].sid = table[s].sid /\ d[s].hash \in {table[s].hash, Nothing}
             /\ \A q \in Pmts : HasPmt(d[s], q) <=> HasPmt(table[s], q) /\ q # p
             /\ ~HasPmt(table[s], p) => d[s] = table[s]
             /\ HasPmt(table[s], p) /\ Used(d[s]) = {} => d[s].hash = Nothing
  BY <1>1, <1>2, <1>5, <1>6, <1>7
<1>10. QED
  BY <1>8, <1>9 DEF d

\* What the CAM has after a message: the loops of the CAPMT under its number, the others as before or nothing.
LEMMA Receives ==
    ASSUME PmtsOK, cam \in [Sids -> SUBSET Streams], NEW c \in CapmtType, NEW listmgmt,
           NEW reason \in {"ok_descrambling", "not_selected"}
    PROVE  LET told == Received(c, listmgmt, reason) IN
           /\ told \in [Sids -> SUBSET Streams]
           /\ reason = "ok_descrambling" => told[c.sid] = Told(c)
           /\ listmgmt # "only" => \A sid \in Sids : sid # c.sid => told[sid] = cam[sid]
<1> DEFINE told == Received(c, listmgmt, reason)
<1>1. told = [sid \in Sids |-> IF sid = c.sid THEN IF reason = "ok_descrambling" THEN Told(c) ELSE {}
                               ELSE IF listmgmt = "only" THEN {} ELSE cam[sid]]
  <2>1. LoopsIn(Loops(c, FALSE)) = Told(c)
    BY LoopsTell
  <2>2. QED
    BY <2>1 DEF Received, LoopsIn
<1>2. Told(c) \subseteq Streams /\ c.sid \in Sids
  BY LoopsTell DEF CapmtType
<1> HIDE DEF told
<1>3. /\ told \in [Sids -> SUBSET Streams]
      /\ reason = "ok_descrambling" => told[c.sid] = Told(c)
      /\ listmgmt # "only" => \A sid \in Sids : sid # c.sid => told[sid] = cam[sid]
  BY <1>1, <1>2
<1>4. QED
  BY <1>3 DEF told

Good(table, told) == Distinct(table) /\ Hashes(table, told)
StayThere(p, table, told) ==
    \A q \in Pmts : q # p /\ pmt[q].state # "free" /\ There(q, capmt, cam) => There(q, table, told)

\* Dropping a program loses no other, whatever the CAM was told under numbers of CAPMTs that it leaves empty.
LEMMA RemoveKeeps ==
    ASSUME NEW table \in Tables, NEW told, NEW p \in Pmts, Good(table, told)
    PROVE  LET d == RemovePmt(table, p) IN
           d \in Tables /\ Good(d, told) /\ \A q \in Pmts : q # p /\ There(q, table, told) => There(q, d, told)
<1> DEFINE d == RemovePmt(table, p)
<1>1. /\ d \in Tables
      /\ \A s \in Slots : /\ d[s].sid = table[s].sid /\ d[s].hash \in {table[s].hash, Nothing}
                          /\ \A q \in Pmts : HasPmt(d[s], q) <=> HasPmt(table[s], q) /\ q # p
                          /\ ~HasPmt(table[s], p) => d[s] = table[s]
                          /\ HasPmt(table[s], p) /\ Used(d[s]) = {} => d[s].hash = Nothing
  BY Removed
<1> HIDE DEF d
<1>2. \A s \in Slots : table[s] \in CapmtType /\ d[s] \in CapmtType
  BY <1>1 DEF Tables
<1>3. \A s \in Slots : Used(d[s]) # {} => Used(table[s]) # {}
  BY <1>1, <1>2, UsedHas
<1>4. Distinct(d)
  BY <1>1, <1>3 DEF Distinct, Active, Good
<1>5. ASSUME NEW s \in Slots, d[s].hash # Nothing
      PROVE  HashOf(d[s], told)
  <2>1. HashOf(table[s], told) /\ d[s].hash = table[s].hash /\ d[s].sid = table[s].sid
    BY <1>1, <1>5 DEF Good, Hashes
  <2>2. Used(d[s]) # {}
    BY <1>1, <1>5, <2>1 DEF HashOf
  <2>3. QED
    BY <1>5, <2>1, <2>2 DEF HashOf
<1>6. Hashes(d, told)
  BY <1>5 DEF Hashes, HashOf
<1>7. ASSUME NEW q \in Pmts, q # p, There(q, table, told)
      PROVE  There(q, d, told)
  <2>1. PICK s \in Slots : /\ HasPmt(table[s], q)
                           /\ table[s].hash # Nothing /\ dev = "initialized" => pmt[q].es \in told[table[s].sid]
    BY <1>7 DEF There
  <2>2. HasPmt(d[s], q) /\ d[s].sid = table[s].sid /\ d[s].hash \in {table[s].hash, Nothing}
    BY <1>1, <1>7, <2>1
  <2>3. QED
    BY <2>1, <2>2 DEF There
<1>8. d \in Tables /\ Good(d, told)
  BY <1>1, <1>4, <1>6 DEF Good
<1>9. QED
  BY <1>7, <1>8 DEF d

\* dvbca_process_pmt keeps the table right and loses no other program; if it says so, the program is there.
LEMMA ProcessKeeps ==
    ASSUME PmtsOK, capmt \in Tables, cam \in [Sids -> SUBSET Streams], Good(capmt, cam),
           NEW p \in Pmts, pmt[p].state # "free", NEW update \in BOOLEAN, NEW ok \in BOOLEAN,
           NEW r, r = ProcessPmt(p, update, ok)
    PROVE  /\ r.capmt \in Tables /\ r.cam \in [Sids -> SUBSET Streams] /\ Good(r.capmt, r.cam)
           /\ StayThere(p, r.capmt, r.cam)
           /\ r.result \in Results
           /\ r.result = "ok" => There(p, r.capmt, r.cam)
<1> DEFINE at    == AddPmtToCapmt(p)
           slot  == at.slot
           place == at.place
           join  == JoinAt(slot, place, p)
           fresh == p \notin Placed /\ Cardinality(Used(join[slot])) = 1
           table == Numbered(join, slot, fresh)
           only  == Active(join) = {slot} /\ fresh /\ table[slot].sid # join[slot].sid
           force == ~update /\ ~at.rejoined
           sent  == SendCapmt(table[slot], "ok_descrambling", force, ok)
           after == [table EXCEPT ![slot] = sent.c]
           told  == IF sent.written THEN Received(sent.c, IF only THEN "only" ELSE "update", "ok_descrambling") ELSE cam
<1>1. r = CASE dev # "initialized" \/ slot = -1 -> [capmt |-> capmt, cam |-> cam, result |-> "retry"]
            [] dev = "initialized" /\ slot # -1 /\ ~Live(First(join[slot])) ->
                  [capmt |-> join, cam |-> cam, result |-> "noretry"]
            [] dev = "initialized" /\ slot # -1 /\ Live(First(join[slot])) /\ sent.rc # "ok" ->
                  [capmt |-> IF update THEN after ELSE RemovePmt(after, p), cam |-> cam, result |-> sent.rc]
            [] OTHER -> [capmt |-> after, result |-> "ok", cam |-> told]
  BY DEF ProcessPmt, JoinAt
<1>2. \/ slot = -1
      \/ /\ slot \in Slots /\ place \in Places
         /\ capmt[slot].place[place] = IF p \in Placed THEN p ELSE NoPmt
  <2> HIDE DEF at
  <2>1. at = AddPmtToCapmt(p) /\ capmt \in [Slots -> CapmtType]
    BY DEF at, Tables
  <2>2. QED
    BY <2>1, PlaceFor
<1>3. fresh \in BOOLEAN /\ only \in BOOLEAN /\ force \in BOOLEAN
  OBVIOUS
<1> HIDE DEF at, slot, place, join, fresh, table, only, force, sent, after, told
<1>4. CASE dev # "initialized" \/ slot = -1
  <2>1. r.capmt = capmt /\ r.cam = cam /\ r.result = "retry"
    BY <1>1, <1>4
  <2>2. QED
    BY <2>1 DEF StayThere, Results
<1>5. ASSUME dev = "initialized", slot # -1
      PROVE  /\ join \in Tables /\ HasPmt(join[slot], p)
             /\ \A s \in Slots : /\ join[s].sid = capmt[s].sid /\ join[s].hash = capmt[s].hash
                                 /\ \A q \in Pmts : HasPmt(join[s], q) <=> HasPmt(capmt[s], q) \/ (s = slot /\ q = p)
             /\ fresh => Used(capmt[slot]) = {}
  <2>1. slot \in Slots /\ place \in Places /\ capmt[slot].place[place] = IF p \in Placed THEN p ELSE NoPmt
    BY <1>2, <1>5
  <2>2. join = JoinAt(slot, place, p)
    BY DEF join
  <2>3. fresh = (p \notin Placed /\ Cardinality(Used(join[slot])) = 1)
    BY DEF fresh
  <2>4. /\ join \in Tables
        /\ \A s \in Slots : /\ join[s].sid = capmt[s].sid /\ join[s].hash = capmt[s].hash
                            /\ \A q \in Pmts : HasPmt(join[s], q) <=> HasPmt(capmt[s], q) \/ (s = slot /\ q = p)
        /\ p \notin Placed /\ Cardinality(Used(join[slot])) = 1 => Used(capmt[slot]) = {}
        /\ HasPmt(join[slot], p)
    BY <2>1, Joined, Zenon DEF join
  <2>5. QED
    BY <2>3, <2>4
<1>6. CASE dev = "initialized" /\ slot # -1 /\ ~Live(First(join[slot]))
  <2>1. r.capmt = join /\ r.cam = cam /\ r.result = "noretry"
    BY <1>1, <1>6
  <2>2. slot \in Slots /\ \A s \in Slots : capmt[s] \in CapmtType /\ join[s] \in CapmtType
    BY <1>2, <1>5, <1>6 DEF Tables
  <2>3. \A s \in Slots : Used(capmt[s]) # {} => Used(join[s]) # {}
    BY <1>5, <1>6, <2>2, UsedHas
  <2>4. Active(capmt) # {}
    <3>1. SUFFICES ASSUME Active(capmt) = {} PROVE FALSE
      OBVIOUS
    <3>2. Used(capmt[slot]) = {} /\ Used(join[slot]) # {}
      BY <1>5, <1>6, <2>2, <3>1, UsedHas DEF Active
    <3>3. First(join[slot]) \in Pmts /\ HasPmt(join[slot], First(join[slot]))
      BY <2>2, <3>2, UsedHas
    <3>4. First(join[slot]) = p
      BY <1>5, <1>6, <2>2, <3>2, <3>3, UsedHas
    <3>5. QED
      BY <1>6, <3>4, CamPmtsAssumption DEF Live
  <2>5. Distinct(join)
    BY <1>5, <1>6, <2>4 DEF Distinct, Good
  <2>6. Hashes(join, cam)
    <3>1. ASSUME NEW s \in Slots
          PROVE  HashOf(join[s], cam)
      <4>1. HashOf(capmt[s], cam) /\ join[s].sid = capmt[s].sid /\ join[s].hash = capmt[s].hash
        BY <1>5, <1>6 DEF Good, Hashes
      <4>2. QED
        BY <2>3, <4>1 DEF HashOf
    <3>2. QED
      BY <3>1 DEF Hashes
  <2>7. StayThere(p, join, cam)
    <3>1. ASSUME NEW q \in Pmts, There(q, capmt, cam)
          PROVE  There(q, join, cam)
      <4>1. PICK s \in Slots : /\ HasPmt(capmt[s], q)
                               /\ capmt[s].hash # Nothing /\ dev = "initialized" => pmt[q].es \in cam[capmt[s].sid]
        BY <3>1 DEF There
      <4>2. HasPmt(join[s], q) /\ join[s].sid = capmt[s].sid /\ join[s].hash = capmt[s].hash
        BY <1>5, <1>6, <4>1
      <4>3. QED
        BY <4>1, <4>2 DEF There
    <3>2. QED
      BY <3>1 DEF StayThere
  <2>8. QED
    BY <1>5, <1>6, <2>1, <2>5, <2>6, <2>7 DEF Good, Results
<1>7. ASSUME dev = "initialized", slot # -1, Live(First(join[slot]))
      PROVE  /\ after \in Tables /\ told \in [Sids -> SUBSET Streams] /\ Good(after, told)
             /\ StayThere(p, after, told)
             /\ sent.rc \in {"ok", "retry"}
             /\ sent.rc = "ok" => There(p, after, told)
             /\ sent.rc # "ok" => told = cam
  <2>1. /\ join \in Tables /\ HasPmt(join[slot], p) /\ slot \in Slots
        /\ \A s \in Slots : /\ join[s].sid = capmt[s].sid /\ join[s].hash = capmt[s].hash
                            /\ \A q \in Pmts : HasPmt(join[s], q) <=> HasPmt(capmt[s], q) \/ (s = slot /\ q = p)
        /\ fresh => Used(capmt[slot]) = {}
    BY <1>2, <1>5, <1>7
  <2>2. \A s \in Slots : capmt[s] \in CapmtType /\ join[s] \in CapmtType
    BY <2>1 DEF Tables
  <2>3. Used(join[slot]) # {} /\ \A s \in Slots : s # slot => (Used(join[s]) # {} <=> Used(capmt[s]) # {})
    BY <2>1, <2>2, UsedHas
  <2>4. /\ table \in Tables
        /\ \A s \in Slots : /\ table[s].hash = join[s].hash
                            /\ \A q : HasPmt(table[s], q) <=> HasPmt(join[s], q)
        /\ Active(join) # {slot} => table = join
        /\ ~fresh => table[slot].sid = join[slot].sid
        /\ Active(join) = {slot} => \A t, s \in Slots : t # s => table[t].sid # table[s].sid
    <3>0. join \in Tables /\ slot \in Slots /\ Live(First(join[slot])) /\ Used(join[slot]) # {}
      BY <1>7, <2>1, <2>3
    <3>1. Renumbered(join, slot, fresh, table)
      BY <3>0, NumberedIs DEF table
    <3>2. QED
      BY <3>1 DEF Renumbered

  \* the numbers
  <2>5. \A t, s \in Slots : t # s => table[t].sid # table[s].sid
    <3>1. CASE Active(join) = {slot}
      BY <2>4, <3>1
    <3>2. CASE Active(join) # {slot}
      <4>1. PICK s \in Slots : s # slot /\ Used(join[s]) # {}
        BY <2>1, <2>3, <3>2 DEF Active
      <4>2. Active(capmt) # {}
        BY <2>3, <4>1 DEF Active
      <4>3. QED
        BY <2>1, <2>4, <3>2, <4>2 DEF Good, Distinct
    <3>3. QED
      BY <3>1, <3>2
  <2>6. \A s \in Slots : Used(capmt[s]) # {} => table[s].sid = capmt[s].sid
    <3>1. ASSUME NEW s \in Slots, Used(capmt[s]) # {}
          PROVE  table[s].sid = capmt[s].sid
      <4>1. CASE s = slot
        BY <2>1, <2>4, <3>1, <4>1
      <4>2. CASE s # slot
        <5>1. Active(join) # {slot}
          BY <2>3, <3>1, <4>2 DEF Active
        <5>2. QED
          BY <2>1, <2>4, <5>1
      <4>3. QED
        BY <4>1, <4>2
    <3>2. QED
      BY <3>1
  \* the message
  <2>7. table[slot] \in CapmtType
    BY <2>1, <2>4 DEF Tables
  <2>8. /\ sent.c \in CapmtType /\ sent.c.sid = table[slot].sid
        /\ sent.rc \in {"ok", "retry"} /\ sent.written \in BOOLEAN
        /\ \A q : q # NoPmt => (HasPmt(sent.c, q) <=> HasPmt(table[slot], q))
        /\ sent.written => sent.rc = "ok" /\ sent.c.hash.sid = table[slot].sid /\ ListedIn(sent.c.hash) = Told(table[slot])
        /\ ~sent.written => sent.c.hash = table[slot].hash
        /\ ~sent.written /\ sent.rc = "ok" => Told(table[slot]) \subseteq ListedIn(table[slot].hash)
    <3>1. "ok_descrambling" \in {"ok_descrambling", "not_selected"}
      OBVIOUS
    <3>2. SentFrom(table[slot], sent)
      BY <2>7, <3>1, SendTells DEF sent
    <3>3. QED
      BY <3>2 DEF SentFrom
  <2>9. /\ after \in Tables /\ after[slot] = sent.c
        /\ \A s \in Slots : s # slot => after[s] = table[s]
    BY <2>1, <2>4, <2>8 DEF Tables, after
  <2>10. \A s \in Slots : after[s].sid = table[s].sid /\ \A q \in Pmts : HasPmt(after[s], q) <=> HasPmt(join[s], q)
    BY <2>4, <2>8, <2>9, CamPmtsAssumption
  <2>11. Told(sent.c) = Told(table[slot])
    BY <2>8, CamPmtsAssumption DEF Told
  <2>12. /\ told \in [Sids -> SUBSET Streams]
         /\ sent.written => told[table[slot].sid] = Told(table[slot])
         /\ ~(sent.written /\ only) => \A sid \in Sids : sid # table[slot].sid => told[sid] = cam[sid]
         /\ ~sent.written => told = cam
    <3>1. CASE sent.written
      <4> DEFINE lm == IF only THEN "only" ELSE "update"
      <4>1. told = Received(sent.c, lm, "ok_descrambling")
        BY <3>1 DEF told
      <4>2. lm # "only" <=> ~only
        OBVIOUS
      <4> HIDE DEF lm
      <4>3. /\ told \in [Sids -> SUBSET Streams] /\ told[sent.c.sid] = Told(sent.c)
            /\ lm # "only" => \A sid \in Sids : sid # sent.c.sid => told[sid] = cam[sid]
        BY <2>8, <4>1, Receives
      <4>4. QED
        BY <2>8, <2>11, <3>1, <4>2, <4>3
    <3>2. CASE ~sent.written
      BY <3>2 DEF told
    <3>3. QED
      BY <2>8, <3>1, <3>2
  <2>13. only => \A s \in Slots : Used(capmt[s]) = {}
    BY <2>1, <2>3 DEF Active, only
  \* the other CAPMTs in use are told nothing
  <2>14. \A s \in Slots : s # slot /\ Used(capmt[s]) # {} => told[after[s].sid] = cam[capmt[s].sid]
    <3>1. ASSUME NEW s \in Slots, s # slot, Used(capmt[s]) # {}
          PROVE  told[after[s].sid] = cam[capmt[s].sid]
      <4>1. after[s].sid = table[s].sid /\ table[s].sid = capmt[s].sid /\ table[s].sid # table[slot].sid
        BY <2>1, <2>5, <2>6, <2>10, <3>1
      <4>2. ~only /\ capmt[s].sid \in Sids
        BY <2>2, <2>13, <3>1 DEF CapmtType
      <4>3. QED
        BY <2>12, <4>1, <4>2
    <3>2. QED
      BY <3>1
  <2>15. \A s \in Slots : Used(capmt[s]) # {} => Used(after[s]) # {}
    <3>1. \A s \in Slots : after[s] \in CapmtType
      BY <2>9 DEF Tables
    <3>2. QED
      BY <2>1, <2>2, <2>10, <3>1, UsedHas
  <2>16. Distinct(after)
    BY <2>5, <2>10 DEF Distinct
  <2>17. ASSUME NEW s \in Slots
         PROVE  HashOf(after[s], told)
    <3>1. HashOf(capmt[s], cam) /\ join[s].hash = capmt[s].hash /\ table[s].hash = capmt[s].hash
      BY <2>1, <2>4 DEF Good, Hashes
    <3>2. CASE s # slot
      <4>1. after[s].hash = capmt[s].hash
        BY <2>9, <3>1, <3>2
      <4>2. ASSUME after[s].hash # Nothing
            PROVE  /\ Used(after[s]) # {} /\ after[s].hash.sid = after[s].sid
                   /\ ListedIn(after[s].hash) \subseteq told[after[s].sid]
        <5>1. Used(capmt[s]) # {} /\ capmt[s].hash.sid = capmt[s].sid /\ ListedIn(capmt[s].hash) \subseteq cam[capmt[s].sid]
          BY <1>7, <3>1, <4>1, <4>2 DEF HashOf
        <5>2. after[s].sid = capmt[s].sid
          BY <2>6, <2>10, <5>1
        <5>3. QED
          BY <2>14, <2>15, <3>2, <4>1, <5>1, <5>2
      <4>3. QED
        BY <4>2 DEF HashOf
    <3>3. CASE s = slot /\ sent.written
      <4>1. Used(after[slot]) # {}
        BY <2>1, <2>8, <2>9, <2>10, UsedHas
      <4>2. after[slot].hash.sid = after[slot].sid /\ ListedIn(after[slot].hash) = told[after[slot].sid]
        BY <2>8, <2>9, <2>12, <3>3
      <4>3. QED
        BY <3>3, <4>1, <4>2 DEF HashOf
    <3>4. CASE s = slot /\ ~sent.written
      <4>1. after[s].hash = capmt[s].hash /\ told = cam
        BY <2>8, <2>9, <2>12, <3>1, <3>4
      <4>2. ASSUME after[s].hash # Nothing
            PROVE  /\ Used(after[s]) # {} /\ after[s].hash.sid = after[s].sid
                   /\ ListedIn(after[s].hash) \subseteq told[after[s].sid]
        <5>1. Used(capmt[s]) # {} /\ capmt[s].hash.sid = capmt[s].sid /\ ListedIn(capmt[s].hash) \subseteq cam[capmt[s].sid]
          BY <1>7, <3>1, <4>1, <4>2 DEF HashOf
        <5>2. QED
          BY <2>6, <2>10, <2>15, <4>1, <5>1
      <4>3. QED
        BY <4>2 DEF HashOf
    <3>5. QED
      BY <2>8, <3>2, <3>3, <3>4
  <2>18. ASSUME NEW q \in Pmts, pmt[q].state # "free", sent.written, HasPmt(table[slot], q)
         PROVE  pmt[q].es \in told[after[slot].sid]
    <3>1. pmt[q].es \in Told(table[slot])
      BY <2>18 DEF Told
    <3>2. QED
      BY <2>1, <2>10, <2>12, <2>18, <3>1
  <2>19. ASSUME NEW q \in Pmts, q # p, pmt[q].state # "free", There(q, capmt, cam)
         PROVE  There(q, after, told)
    <3>1. PICK s \in Slots : /\ HasPmt(capmt[s], q)
                             /\ capmt[s].hash # Nothing => pmt[q].es \in cam[capmt[s].sid]
      BY <1>7, <2>19 DEF There
    <3>2. HasPmt(after[s], q) /\ Used(capmt[s]) # {} /\ HasPmt(table[s], q)
      BY <2>1, <2>2, <2>4, <2>10, <3>1, UsedHas
    <3>3. CASE s # slot
      <4>1. after[s].hash = capmt[s].hash /\ told[after[s].sid] = cam[capmt[s].sid]
        BY <2>1, <2>4, <2>9, <2>14, <3>2, <3>3
      <4>2. QED
        BY <3>1, <3>2, <4>1 DEF There
    <3>4. CASE s = slot /\ sent.written
      BY <2>18, <2>19, <3>2, <3>4 DEF There
    <3>5. CASE s = slot /\ ~sent.written
      <4>1. after[s].hash = capmt[s].hash /\ told = cam /\ after[s].sid = capmt[s].sid
        BY <2>1, <2>4, <2>6, <2>8, <2>9, <2>10, <2>12, <3>2, <3>5
      <4>2. QED
        BY <3>1, <3>2, <4>1 DEF There
    <3>6. QED
      BY <2>8, <3>3, <3>4, <3>5
  <2>20. ASSUME sent.rc = "ok"
         PROVE  There(p, after, told)
    <3>1. HasPmt(after[slot], p) /\ HasPmt(table[slot], p)
      BY <2>1, <2>4, <2>10
    <3>2. CASE sent.written
      BY <2>1, <2>18, <3>1, <3>2 DEF There
    <3>3. CASE ~sent.written
      <4>1. pmt[p].es \in ListedIn(after[slot].hash)
        BY <2>8, <2>9, <2>20, <3>1, <3>3 DEF Told
      <4>2. after[slot].hash # Nothing => pmt[p].es \in told[after[slot].sid]
        BY <1>7, <2>1, <2>17, <4>1 DEF HashOf
      <4>3. QED
        BY <2>1, <3>1, <4>2 DEF There
    <3>4. QED
      BY <2>8, <3>2, <3>3
  <2>21. Hashes(after, told)
    BY <2>17 DEF Hashes
  <2>22. QED
    BY <2>8, <2>9, <2>12, <2>16, <2>19, <2>20, <2>21 DEF Good, StayThere
<1>8. CASE dev = "initialized" /\ slot # -1 /\ Live(First(join[slot])) /\ sent.rc # "ok"
  <2>1. r.capmt = (IF update THEN after ELSE RemovePmt(after, p)) /\ r.cam = cam /\ r.result = "retry"
    BY <1>1, <1>7, <1>8
  <2>2. after \in Tables /\ Good(after, cam) /\ StayThere(p, after, cam)
    BY <1>7, <1>8
  <2>3. CASE update
    BY <2>1, <2>2, <2>3 DEF Results
  <2>4. CASE ~update
    <3>1. /\ r.capmt \in Tables /\ Good(r.capmt, cam)
          /\ \A q \in Pmts : q # p /\ There(q, after, cam) => There(q, r.capmt, cam)
      BY <2>1, <2>2, <2>4, RemoveKeeps
    <3>2. StayThere(p, r.capmt, cam)
      BY <2>2, <3>1 DEF StayThere
    <3>3. QED
      BY <2>1, <3>1, <3>2 DEF Results
  <2>5. QED
    BY <2>3, <2>4
<1>9. CASE dev = "initialized" /\ slot # -1 /\ Live(First(join[slot])) /\ sent.rc = "ok"
  <2>1. r.capmt = after /\ r.cam = told /\ r.result = "ok"
    BY <1>1, <1>9
  <2>2. QED
    BY <1>7, <1>9, <2>1 DEF Results
<1>10. QED
  BY <1>4, <1>6, <1>8, <1>9

\* dvbca_del_pmt keeps the table right and loses no other program.
LEMMA DelKeeps ==
    ASSUME PmtsOK, capmt \in Tables, cam \in [Sids -> SUBSET Streams], Good(capmt, cam),
           NEW p \in Pmts, NEW ok \in BOOLEAN, NEW r, r = DelPmt(p, ok)
    PROVE  r.capmt \in Tables /\ r.cam \in [Sids -> SUBSET Streams] /\ Good(r.capmt, r.cam) /\ StayThere(p, r.capmt, r.cam)
<1> DEFINE s     == CHOOSE t \in Slots : HasPmt(capmt[t], p)
           sent  == SendCapmt(capmt[s], "not_selected", TRUE, ok)
           after == [capmt EXCEPT ![s] = sent.c]
           told  == IF sent.written THEN Received(sent.c, "update", "not_selected") ELSE cam
<1>1. r = CASE dev # "initialized" \/ p \notin Placed -> [capmt |-> capmt, cam |-> cam]
            [] dev = "initialized" /\ p \in Placed /\ Cardinality(Used(capmt[s])) > 1 ->
                  [capmt |-> RemovePmt(capmt, p), cam |-> cam]
            [] OTHER -> [capmt |-> RemovePmt(after, p), cam |-> told]
  BY DEF DelPmt
<1>2. p \in Placed => s \in Slots /\ HasPmt(capmt[s], p)
  BY DEF Placed
<1> HIDE DEF s, sent, after, told
<1>3. CASE dev # "initialized" \/ p \notin Placed
  <2>1. r.capmt = capmt /\ r.cam = cam
    BY <1>1, <1>3
  <2>2. QED
    BY <2>1 DEF StayThere
<1>4. CASE dev = "initialized" /\ p \in Placed /\ Cardinality(Used(capmt[s])) > 1
  <2>1. r.capmt = RemovePmt(capmt, p) /\ r.cam = cam
    BY <1>1, <1>4
  <2>2. QED
    BY <2>1, RemoveKeeps DEF StayThere
<1>5. CASE dev = "initialized" /\ p \in Placed /\ ~(Cardinality(Used(capmt[s])) > 1)
  <2>1. r.capmt = RemovePmt(after, p) /\ r.cam = told
    BY <1>1, <1>5
  <2>2. s \in Slots /\ HasPmt(capmt[s], p) /\ \A t \in Slots : capmt[t] \in CapmtType
    BY <1>2, <1>5 DEF Tables
  <2>3. \A q \in Pmts : HasPmt(capmt[s], q) => q = p
    <3>1. IsFiniteSet(Used(capmt[s])) /\ Cardinality(Used(capmt[s])) \in Nat
      BY PlacesCount, FS_Subset, FS_CardinalityType DEF Used
    <3>2. Cardinality(Used(capmt[s])) <= 1
      BY <1>5, <3>1
    <3>3. \A i, j \in Used(capmt[s]) : i = j
      BY <2>2, <3>2, UsedTwo
    <3>4. QED
      BY <2>2, <3>3, CamPmtsAssumption DEF HasPmt, Used
  <2>4. /\ sent.c \in CapmtType /\ sent.c.sid = capmt[s].sid /\ sent.written \in BOOLEAN
        /\ \A q : q # NoPmt => (HasPmt(sent.c, q) <=> HasPmt(capmt[s], q))
    <3>1. "not_selected" \in {"ok_descrambling", "not_selected"} /\ capmt[s] \in CapmtType
      BY <2>2
    <3>2. SentFrom(capmt[s], sent)
      BY <3>1, SendTells DEF sent
    <3>3. QED
      BY <3>2 DEF SentFrom
  <2>5. after \in Tables /\ after[s] = sent.c /\ \A t \in Slots : t # s => after[t] = capmt[t]
    BY <2>2, <2>4 DEF Tables, after
  <2>6. told \in [Sids -> SUBSET Streams] /\ \A sid \in Sids : sid # capmt[s].sid => told[sid] = cam[sid]
    <3>1. CASE sent.written
      <4>1. "not_selected" \in {"ok_descrambling", "not_selected"} /\ "update" # "only"
        OBVIOUS
      <4>2. told = Received(sent.c, "update", "not_selected")
        BY <3>1 DEF told
      <4>3. QED
        BY <2>4, <4>1, <4>2, Receives
    <3>2. CASE ~sent.written
      BY <3>2 DEF told
    <3>3. QED
      BY <2>4, <3>1, <3>2
  <2> DEFINE d == RemovePmt(after, p)
  <2>7. /\ d \in Tables
        /\ \A t \in Slots : /\ d[t].sid = after[t].sid /\ d[t].hash \in {after[t].hash, Nothing}
                            /\ \A q \in Pmts : HasPmt(d[t], q) <=> HasPmt(after[t], q) /\ q # p
                            /\ ~HasPmt(after[t], p) => d[t] = after[t]
                            /\ HasPmt(after[t], p) /\ Used(d[t]) = {} => d[t].hash = Nothing
    BY <2>5, Removed
  <2> HIDE DEF d
  <2>8. \A t \in Slots : d[t] \in CapmtType
    BY <2>7 DEF Tables
  <2>9. Used(d[s]) = {} /\ d[s].hash = Nothing
    <3>1. \A q \in Pmts : ~HasPmt(d[s], q)
      BY <2>2, <2>3, <2>4, <2>5, <2>7, CamPmtsAssumption
    <3>2. Used(d[s]) = {}
      BY <2>2, <2>8, <3>1, UsedHas
    <3>3. HasPmt(after[s], p)
      BY <2>2, <2>4, <2>5, CamPmtsAssumption
    <3>4. QED
      BY <2>2, <2>7, <3>2, <3>3
  <2>10. \A t \in Slots : t # s /\ Used(capmt[t]) # {} => told[capmt[t].sid] = cam[capmt[t].sid]
    <3>1. \A t \in Slots : t # s /\ Used(capmt[t]) # {} => capmt[t].sid # capmt[s].sid /\ capmt[t].sid \in Sids
      BY <2>2 DEF Good, Distinct, Active, CapmtType
    <3>2. QED
      BY <2>6, <3>1
  <2>11. \A t \in Slots : t # s =>
             /\ d[t].sid = capmt[t].sid /\ d[t].hash \in {capmt[t].hash, Nothing}
             /\ \A q \in Pmts : HasPmt(d[t], q) <=> HasPmt(capmt[t], q) /\ q # p
             /\ ~HasPmt(capmt[t], p) => d[t] = capmt[t]
             /\ HasPmt(capmt[t], p) /\ Used(d[t]) = {} => d[t].hash = Nothing
    BY <2>5, <2>7
  <2>12. Distinct(d)
    <3>1. \A t \in Slots : d[t].sid = capmt[t].sid
      BY <2>4, <2>5, <2>7
    <3>2. Active(capmt) # {}
      BY <2>2, UsedHas DEF Active
    <3>3. QED
      BY <3>1, <3>2 DEF Distinct, Good
  <2>13. Hashes(d, told)
    <3>1. ASSUME NEW t \in Slots, d[t].hash # Nothing
          PROVE  HashOf(d[t], told)
      <4>1. t # s
        BY <2>9, <3>1
      <4>2. HashOf(capmt[t], cam) /\ d[t].hash = capmt[t].hash /\ d[t].sid = capmt[t].sid
        BY <2>11, <3>1, <4>1 DEF Good, Hashes
      <4>3. Used(capmt[t]) # {} /\ Used(d[t]) # {}
        BY <2>11, <3>1, <4>1, <4>2 DEF HashOf
      <4>4. told[capmt[t].sid] = cam[capmt[t].sid]
        BY <2>10, <4>1, <4>3
      <4>5. QED
        BY <3>1, <4>2, <4>3, <4>4 DEF HashOf
    <3>2. QED
      BY <3>1 DEF Hashes, HashOf
  <2>14. ASSUME NEW q \in Pmts, q # p, There(q, capmt, cam)
         PROVE  There(q, d, told)
    <3>1. PICK t \in Slots : /\ HasPmt(capmt[t], q)
                             /\ capmt[t].hash # Nothing /\ dev = "initialized" => pmt[q].es \in cam[capmt[t].sid]
      BY <2>14 DEF There
    <3>2. t # s /\ Used(capmt[t]) # {}
      BY <2>2, <2>3, <2>14, <3>1, UsedHas
    <3>3. HasPmt(d[t], q) /\ d[t].sid = capmt[t].sid /\ d[t].hash \in {capmt[t].hash, Nothing}
      BY <2>11, <2>14, <3>1, <3>2
    <3>4. told[capmt[t].sid] = cam[capmt[t].sid]
      BY <2>10, <3>2
    <3>5. QED
      BY <3>1, <3>3, <3>4 DEF There
  <2>15. StayThere(p, d, told)
    BY <2>14 DEF StayThere
  <2>16. QED
    BY <2>1, <2>6, <2>7, <2>12, <2>13, <2>15 DEF Good, d
<1>6. QED
  BY <1>3, <1>4, <1>5

-----------------------------------------------------------------------------
(* The steps *)

JobType == [pc : {"idle", "parse", "epoch", "tell", "set", "release"}, p : Pmts \cup {NoPmt},
            update : BOOLEAN, torn : BOOLEAN, result : Results]

\* The parts of the invariant that a step changes together: the types of the rest, the table, the masks.
RestType == dev \in {"inactive", "active", "initialized"} /\ locked \in BOOLEAN /\ known \in BOOLEAN
TableOK == capmt \in Tables /\ cam \in [Sids -> SUBSET Streams] /\ Good(capmt, cam)
PmtOK == /\ pmt \in [Pmts -> PmtType] /\ job \in JobType
         /\ \A p \in Pmts : IF pmt[p].state = "free" THEN pmt[p] = EmptyPmt ELSE pmt[p].es \in Streams
MasksOK == PmtOK /\ AtWork /\ SentRegistered
MarkedOK == \A p \in Pmts : Marked(p) => There(p, capmt, cam)

LEMMA Parts == PackInv <=> RestType /\ TableOK /\ MasksOK /\ MarkedOK
  BY DEF PackInv, TypeOK, RestType, TableOK, PmtOK, MasksOK, MarkedOK, JobType, Tables, Good

LEMMA PackInit == Init => PackInv
<1> SUFFICES ASSUME Init PROVE PackInv
  OBVIOUS
<1>1. RestType
  BY DEF Init, RestType
<1>2. NoneKept \in LoopsType /\ EmptyCapmt \in CapmtType /\ EmptyCapmt.hash = Nothing /\ Used(EmptyCapmt) = {}
  BY DEF EmptyCapmt, NoneKept, LoopsType, CapmtType, Sids, Used
<1>3. capmt \in Tables /\ cam \in [Sids -> SUBSET Streams] /\ \A s \in Slots : capmt[s] = EmptyCapmt
  BY <1>2 DEF Init, Tables
<1>4. TableOK
  BY <1>2, <1>3 DEF TableOK, Good, Distinct, Hashes, HashOf, Active
<1>5. \A p \in Pmts : pmt[p] = EmptyPmt
  BY DEF Init
<1>6. MasksOK
  BY <1>5, CamPmtsAssumption
     DEF Init, MasksOK, PmtOK, AtWork, SentRegistered, EmptyPmt, PmtType, Idle, JobType, Results
<1>7. MarkedOK
  BY <1>5, CamPmtsAssumption DEF Init, MarkedOK, Marked, EmptyPmt, Idle
<1>8. QED
  BY <1>1, <1>4, <1>6, <1>7, Parts

LEMMA PmtsAre == PackInv => PmtsOK
  BY CamPmtsAssumption DEF PackInv, TypeOK, PmtsOK

\* A step that leaves the table and the CAM alone, or one that takes the CAM down without them.
LEMMA TableStays ==
    ASSUME PackInv, capmt' = capmt, cam' = cam, dev' = dev,
           \A p \in Pmts : Marked(p)' => Marked(p) /\ pmt'[p].es = pmt[p].es
    PROVE  TableOK' /\ MarkedOK'
<1>1. TableOK /\ MarkedOK
  BY Parts
<1>2. TableOK'
  BY <1>1 DEF TableOK, Good, Distinct, Hashes, HashOf, Active, Used, Tables
<1>3. ASSUME NEW p \in Pmts, Marked(p)'
      PROVE  There(p, capmt, cam)'
  <2>1. There(p, capmt, cam) /\ pmt'[p].es = pmt[p].es
    BY <1>1, <1>3 DEF MarkedOK
  <2>2. QED
    BY <2>1 DEF There, HasPmt
<1>4. QED
  BY <1>2, <1>3 DEF MarkedOK

\* A step whose table and CAM are what an operator on them returns for the program p.
LEMMA TableBecomes ==
    ASSUME PackInv, dev' = dev, NEW p \in Pmts,
           capmt' \in Tables, cam' \in [Sids -> SUBSET Streams], Good(capmt', cam'), StayThere(p, capmt', cam'),
           \A q \in Pmts : Marked(q)' => pmt'[q].es = pmt[q].es /\ (q # p => Marked(q)),
           Marked(p)' => There(p, capmt', cam')
    PROVE  TableOK' /\ MarkedOK'
<1>1. TableOK'
  BY DEF TableOK, Good, Distinct, Hashes, HashOf, Active, Used, Tables
<1>2. ASSUME NEW q \in Pmts, Marked(q)'
      PROVE  There(q, capmt, cam)'
  <2>1. There(q, capmt', cam')
    <3>1. CASE q = p
      BY <1>2, <3>1
    <3>2. CASE q # p
      <4>1. Marked(q) /\ There(q, capmt, cam)
        BY <1>2, <3>2, Parts DEF MarkedOK
      <4>2. pmt[q].state # "free"
        BY <4>1 DEF PackInv, SentRegistered, AtWork, Marked
      <4>3. QED
        BY <3>2, <4>1, <4>2 DEF StayThere
    <3>3. QED
      BY <3>1, <3>2
  <2>2. QED
    BY <1>2, <2>1 DEF There, HasPmt
<1>3. QED
  BY <1>1, <1>2 DEF MarkedOK

LEMMA MasksStay ==
    ASSUME PackInv, pmt' = pmt, job' = job
    PROVE  MasksOK'
<1>1. MasksOK
  BY Parts
<1>2. QED
  BY <1>1 DEF MasksOK, PmtOK, AtWork, SentRegistered

LEMMA Whole == RestType' /\ TableOK' /\ MasksOK' /\ MarkedOK' => PackInv'
  BY DEF PackInv, TypeOK, RestType, TableOK, PmtOK, MasksOK, MarkedOK, JobType, Tables, Good

\* A new program has no mask; a started one keeps those it has.
LEMMA PmtAddOK ==
    ASSUME PackInv, NEW p \in Pmts, NEW es \in Streams, PmtAdd(p, es)
    PROVE  PackInv'
<1>1. RestType /\ MasksOK
  BY Parts
<1>2. RestType'
  BY <1>1 DEF PmtAdd, Op, RestType
<1> DEFINE m == [EmptyPmt EXCEPT !.state = "stopped", !.es = es]
<1>3. /\ m \in PmtType /\ m.state = "stopped" /\ m.es = es /\ ~m.sent
      /\ pmt' = [pmt EXCEPT ![p] = m] /\ job' = job /\ job = Idle /\ pmt \in [Pmts -> PmtType]
  BY <1>1 DEF PmtAdd, EmptyPmt, PmtType, MasksOK, PmtOK
<1> HIDE DEF m
<1>4. pmt'[p] = m /\ \A q \in Pmts : q # p => pmt'[q] = pmt[q]
  BY <1>3
<1>5. MasksOK'
  <2>1. PmtOK'
    BY <1>1, <1>3, <1>4 DEF PmtOK, MasksOK
  <2>2. AtWork'
    BY <1>1, <1>3 DEF AtWork, Idle
  <2>3. SentRegistered'
    BY <1>1, <1>3, <1>4 DEF SentRegistered, MasksOK
  <2>4. QED
    BY <2>1, <2>2, <2>3 DEF MasksOK
<1>6. \A q \in Pmts : Marked(q)' => Marked(q) /\ pmt'[q].es = pmt[q].es
  BY <1>3, <1>4 DEF Marked, Idle
<1>7. TableOK' /\ MarkedOK'
  BY <1>6, TableStays DEF PmtAdd, Op
<1>8. QED
  BY <1>2, <1>5, <1>7, Whole

LEMMA StartPmtOK ==
    ASSUME PackInv, NEW p \in Pmts, StartPmt(p)
    PROVE  PackInv'
<1>1. RestType /\ MasksOK
  BY Parts
<1>2. RestType'
  BY <1>1 DEF StartPmt, RestType
<1>3. /\ pmt' = [pmt EXCEPT ![p].state = "running"] /\ job' = job /\ job = Idle /\ pmt \in [Pmts -> PmtType]
      /\ pmt[p].state = "stopped"
  BY <1>1 DEF StartPmt, MasksOK, PmtOK
<1>4. /\ pmt' \in [Pmts -> PmtType] /\ pmt'[p].state = "running" /\ pmt'[p].es = pmt[p].es
      /\ pmt'[p].sent = pmt[p].sent /\ pmt'[p].reg = pmt[p].reg
      /\ \A q \in Pmts : q # p => pmt'[q] = pmt[q]
  BY <1>3 DEF PmtType
<1>5. MasksOK'
  <2>1. PmtOK'
    BY <1>1, <1>3, <1>4 DEF PmtOK, MasksOK
  <2>2. AtWork'
    BY <1>1, <1>3 DEF AtWork, Idle
  <2>3. SentRegistered'
    BY <1>1, <1>4 DEF SentRegistered, MasksOK
  <2>4. QED
    BY <2>1, <2>2, <2>3 DEF MasksOK
<1>6. \A q \in Pmts : Marked(q)' => Marked(q) /\ pmt'[q].es = pmt[q].es
  BY <1>3, <1>4 DEF Marked, Idle
<1>7. TableOK' /\ MarkedOK'
  BY <1>6, TableStays DEF StartPmt
<1>8. QED
  BY <1>2, <1>5, <1>7, Whole

\* Releasing a program: close_pmt_for_cas tells the CAM if the program is registered, and its masks go.  m is
\* what becomes of the program.
LEMMA CloseOK ==
    ASSUME PackInv, NEW p \in Pmts, NEW m \in PmtType, NEW ok \in BOOLEAN, CloseFor(p, m, ok), dev' = dev,
           \A q \in Pmts : Marked(q)' => q # p /\ Marked(q)
    PROVE  /\ TableOK' /\ MarkedOK'
           /\ pmt' = [pmt EXCEPT ![p] = IF pmt[p].reg THEN Cleared(m) ELSE m]
<1>1. TableOK /\ pmt \in [Pmts -> PmtType]
  BY Parts DEF MasksOK, PmtOK
<1>2. pmt' = [pmt EXCEPT ![p] = IF pmt[p].reg THEN Cleared(m) ELSE m]
  BY DEF CloseFor
<1>3. \A q \in Pmts : q # p => pmt'[q] = pmt[q]
  BY <1>1, <1>2
<1>4. CASE pmt[p].reg
  <2>1. capmt' = DelPmt(p, ok).capmt /\ cam' = DelPmt(p, ok).cam
    BY <1>4 DEF CloseFor
  <2>2. capmt' \in Tables /\ cam' \in [Sids -> SUBSET Streams] /\ Good(capmt', cam') /\ StayThere(p, capmt', cam')
    BY <1>1, <2>1, PmtsAre, DelKeeps DEF TableOK
  <2>3. QED
    BY <1>2, <1>3, <2>2, TableBecomes
<1>5. CASE ~pmt[p].reg
  <2>1. capmt' = capmt /\ cam' = cam
    BY <1>5 DEF CloseFor
  <2>2. QED
    BY <1>2, <1>3, <2>1, TableStays
<1>6. QED
  BY <1>4, <1>5

LEMMA StopPmtOK ==
    ASSUME PackInv, NEW p \in Pmts, NEW ok \in BOOLEAN, StopPmt(p, ok)
    PROVE  PackInv'
<1>1. RestType /\ MasksOK
  BY Parts
<1>2. RestType' /\ dev' = dev
  BY <1>1 DEF StopPmt, Op, RestType
<1> DEFINE m == [pmt[p] EXCEPT !.state = "stopped"]
           n == IF pmt[p].reg THEN Cleared(m) ELSE m
<1>3. /\ m \in PmtType /\ n \in PmtType /\ n.state = "stopped" /\ n.es = pmt[p].es /\ ~n.sent
      /\ pmt[p].es \in Streams
  BY <1>1 DEF StopPmt, PmtType, MasksOK, PmtOK, SentRegistered, Cleared
<1>4. CloseFor(p, m, ok) /\ job' = job /\ job = Idle
  BY DEF StopPmt
<1>5. pmt' = [pmt EXCEPT ![p] = n]
  BY <1>4 DEF CloseFor
<1> HIDE DEF m, n
<1>6. pmt'[p] = n /\ pmt' \in [Pmts -> PmtType] /\ \A q \in Pmts : q # p => pmt'[q] = pmt[q]
  BY <1>1, <1>3, <1>5 DEF MasksOK, PmtOK
<1>7. MasksOK'
  <2>1. PmtOK'
    BY <1>1, <1>3, <1>4, <1>6 DEF PmtOK, MasksOK
  <2>2. AtWork'
    BY <1>1, <1>4 DEF AtWork, Idle
  <2>3. SentRegistered'
    BY <1>1, <1>3, <1>6 DEF SentRegistered, MasksOK
  <2>4. QED
    BY <2>1, <2>2, <2>3 DEF MasksOK
<1>8. \A q \in Pmts : Marked(q)' => q # p /\ Marked(q)
  BY <1>3, <1>4, <1>6 DEF Marked, Idle
<1>9. TableOK' /\ MarkedOK'
  BY <1>2, <1>3, <1>4, <1>8, CloseOK
<1>10. QED
  BY <1>2, <1>7, <1>9, Whole

LEMMA PmtDelOK ==
    ASSUME PackInv, NEW p \in Pmts, NEW ok \in BOOLEAN, PmtDel(p, ok)
    PROVE  PackInv'
<1>1. RestType /\ MasksOK
  BY Parts
<1>2. RestType' /\ dev' = dev
  BY <1>1 DEF PmtDel, Op, RestType
<1>3. EmptyPmt \in PmtType /\ Cleared(EmptyPmt) = EmptyPmt /\ ~EmptyPmt.sent /\ EmptyPmt.state = "free"
  <2>1. EmptyPmt \in PmtType /\ ~EmptyPmt.sent /\ ~EmptyPmt.reg /\ EmptyPmt.state = "free"
    BY DEF PmtType, EmptyPmt
  <2>2. \A m \in PmtType : ~m.sent /\ ~m.reg => Cleared(m) = m
    BY DEF PmtType, Cleared
  <2>3. QED
    BY <2>1, <2>2
<1>4. CloseFor(p, EmptyPmt, ok) /\ job' = job /\ job = Idle
  BY DEF PmtDel
<1>5. pmt' = [pmt EXCEPT ![p] = EmptyPmt]
  BY <1>3, <1>4 DEF CloseFor
<1>6. pmt'[p] = EmptyPmt /\ pmt' \in [Pmts -> PmtType] /\ \A q \in Pmts : q # p => pmt'[q] = pmt[q]
  BY <1>1, <1>3, <1>5 DEF MasksOK, PmtOK
<1>7. MasksOK'
  <2>1. PmtOK'
    BY <1>1, <1>3, <1>4, <1>6 DEF PmtOK, MasksOK
  <2>2. AtWork'
    BY <1>1, <1>4 DEF AtWork, Idle
  <2>3. SentRegistered'
    BY <1>1, <1>3, <1>6 DEF SentRegistered, MasksOK
  <2>4. QED
    BY <2>1, <2>2, <2>3 DEF MasksOK
<1>8. \A q \in Pmts : Marked(q)' => q # p /\ Marked(q)
  BY <1>3, <1>4, <1>6 DEF Marked, Idle
<1>9. TableOK' /\ MarkedOK'
  BY <1>2, <1>3, <1>4, <1>8, CloseOK
<1>10. QED
  BY <1>2, <1>7, <1>9, Whole

\* A new version: the program is parsed with the registered mask as it was.
LEMMA ProcessPmtTableOK ==
    ASSUME PackInv, NEW p \in Pmts, NEW es \in Streams, ProcessPmtTable(p, es)
    PROVE  PackInv'
<1>1. RestType /\ MasksOK
  BY Parts
<1>2. RestType' /\ dev' = dev
  BY <1>1 DEF ProcessPmtTable, Op, RestType
<1> DEFINE j == [Idle EXCEPT !.pc = "parse", !.p = p, !.update = pmt[p].reg]
<1>3. /\ pmt' = [pmt EXCEPT ![p].es = es] /\ pmt \in [Pmts -> PmtType] /\ pmt[p].state = "running"
      /\ job = Idle /\ job' = j /\ j \in JobType /\ j.pc = "parse" /\ j.p = p /\ j.update = pmt[p].reg
  BY <1>1 DEF ProcessPmtTable, MasksOK, PmtOK, PmtType, JobType, Idle, Results
<1> HIDE DEF j
<1>4. /\ pmt' \in [Pmts -> PmtType] /\ pmt'[p].es = es /\ pmt'[p].state = "running"
      /\ pmt'[p].sent = pmt[p].sent /\ pmt'[p].reg = pmt[p].reg
      /\ \A q \in Pmts : q # p => pmt'[q] = pmt[q]
  BY <1>3 DEF PmtType
<1>5. MasksOK'
  <2>1. PmtOK'
    BY <1>1, <1>3, <1>4 DEF PmtOK, MasksOK
  <2>2. AtWork'
    BY <1>1, <1>3, <1>4 DEF AtWork, SentRegistered, MasksOK
  <2>3. SentRegistered'
    BY <1>1, <1>4 DEF SentRegistered, MasksOK
  <2>4. QED
    BY <2>1, <2>2, <2>3 DEF MasksOK
<1>6. \A q \in Pmts : Marked(q)' => Marked(q) /\ pmt'[q].es = pmt[q].es
  BY <1>3, <1>4, CamPmtsAssumption DEF Marked, Idle
<1>7. TableOK' /\ MarkedOK'
  BY <1>2, <1>6, TableStays DEF ProcessPmtTable
<1>8. QED
  BY <1>2, <1>5, <1>7, Whole

\* The end of the parse clears the send mask, or releases a program that is clear now.
LEMMA ParseDoneOK ==
    ASSUME PackInv, NEW ok \in BOOLEAN, ParseDone(ok)
    PROVE  PackInv'
<1>1. RestType /\ TableOK /\ MasksOK /\ job.pc = "parse"
  BY Parts DEF ParseDone
<1>2. RestType' /\ dev' = dev /\ job' = Idle
  BY <1>1 DEF ParseDone, RestType
<1> DEFINE p == job.p
           m == [pmt[p] EXCEPT !.reg = job.update]
           clear == pmt[p].es \in Clear
           n == IF clear /\ m.reg THEN Cleared(m)
                ELSE IF clear THEN m ELSE [m EXCEPT !.sent = FALSE, !.dis = FALSE]
<1>3. /\ p \in Pmts /\ pmt \in [Pmts -> PmtType] /\ pmt[p].state = "running" /\ job.update \in BOOLEAN
      /\ pmt[p].sent => job.update
      /\ pmt[p].es \in Streams
  BY <1>1 DEF MasksOK, PmtOK, AtWork, JobType
<1>4. n \in PmtType /\ n.state = "running" /\ n.es = pmt[p].es /\ ~n.sent
  <2>1. pmt[p] \in PmtType /\ m \in PmtType /\ m.reg = job.update /\ m.sent = pmt[p].sent /\ m.es = pmt[p].es
        /\ m.state = "running"
    BY <1>3 DEF PmtType
  <2> HIDE DEF m
  <2>2. QED
    BY <1>3, <2>1 DEF PmtType, Cleared
<1>5. pmt' = [pmt EXCEPT ![p] = n]
  BY DEF ParseDone
<1>6. \/ capmt' = capmt /\ cam' = cam
      \/ capmt' = DelPmt(p, ok).capmt /\ cam' = DelPmt(p, ok).cam
  BY DEF ParseDone
<1> HIDE DEF p, m, n, clear
<1>7. pmt'[p] = n /\ pmt' \in [Pmts -> PmtType] /\ \A q \in Pmts : q # p => pmt'[q] = pmt[q]
  BY <1>3, <1>4, <1>5
<1>8. MasksOK'
  <2>1. Idle \in JobType
    BY DEF Idle, JobType, Results
  <2>2. PmtOK'
    BY <1>1, <1>2, <1>3, <1>4, <1>7, <2>1 DEF PmtOK, MasksOK
  <2>3. AtWork'
    BY <1>2 DEF AtWork, Idle
  <2>4. SentRegistered'
    BY <1>1, <1>4, <1>7 DEF SentRegistered, MasksOK
  <2>5. QED
    BY <2>2, <2>3, <2>4 DEF MasksOK
<1>9. \A q \in Pmts : Marked(q)' => q # p /\ Marked(q) /\ pmt'[q].es = pmt[q].es
  BY <1>1, <1>2, <1>4, <1>7 DEF Marked, Idle, p
<1>10. TableOK' /\ MarkedOK'
  <2>1. CASE capmt' = capmt /\ cam' = cam
    BY <1>2, <1>9, <2>1, TableStays
  <2>2. CASE capmt' = DelPmt(p, ok).capmt /\ cam' = DelPmt(p, ok).cam
    <3>1. capmt' \in Tables /\ cam' \in [Sids -> SUBSET Streams] /\ Good(capmt', cam') /\ StayThere(p, capmt', cam')
      BY <1>1, <1>3, <2>2, PmtsAre, DelKeeps DEF TableOK
    <3>2. QED
      BY <1>2, <1>3, <1>9, <3>1, TableBecomes
  <2>3. QED
    BY <1>6, <2>1, <2>2
<1>11. QED
  BY <1>2, <1>8, <1>10, Whole

LEMMA ReadMasksOK ==
    ASSUME PackInv, NEW p \in Pmts, ReadMasks(p)
    PROVE  PackInv'
<1>1. RestType /\ MasksOK
  BY Parts
<1>2. RestType' /\ dev' = dev /\ pmt' = pmt
  BY <1>1 DEF ReadMasks, RestType
<1> DEFINE j == [Idle EXCEPT !.pc = "epoch", !.p = p, !.update = pmt[p].reg]
<1>3. /\ job' = j /\ j \in JobType /\ j.pc = "epoch" /\ j.p = p /\ job = Idle
      /\ pmt[p].state = "running" /\ ~pmt[p].sent
  BY <1>1 DEF ReadMasks, Pending, MasksOK, PmtOK, PmtType, JobType, Idle, Results
<1> HIDE DEF j
<1>4. MasksOK'
  <2>1. PmtOK'
    BY <1>1, <1>2, <1>3 DEF PmtOK, MasksOK
  <2>2. AtWork'
    BY <1>1, <1>2, <1>3 DEF AtWork
  <2>3. SentRegistered'
    BY <1>1, <1>2 DEF SentRegistered, MasksOK
  <2>4. QED
    BY <2>1, <2>2, <2>3 DEF MasksOK
<1>5. \A q \in Pmts : Marked(q)' => Marked(q) /\ pmt'[q].es = pmt[q].es
  BY <1>2, <1>3, CamPmtsAssumption DEF Marked, Idle
<1>6. TableOK' /\ MarkedOK'
  BY <1>2, <1>5, TableStays DEF ReadMasks
<1>7. QED
  BY <1>2, <1>4, <1>6, Whole

LEMMA ReadEpochOK ==
    ASSUME PackInv, ReadEpoch
    PROVE  PackInv'
<1>1. RestType /\ MasksOK
  BY Parts
<1>2. RestType' /\ dev' = dev /\ pmt' = pmt
  BY <1>1 DEF ReadEpoch, RestType
<1> DEFINE j == [job EXCEPT !.pc = "tell", !.torn = FALSE]
<1>3. /\ job' = j /\ j \in JobType /\ j.pc = "tell" /\ j.p = job.p /\ job.pc = "epoch"
  BY <1>1 DEF ReadEpoch, MasksOK, PmtOK, JobType
<1> HIDE DEF j
<1>4. MasksOK'
  <2>1. PmtOK'
    BY <1>1, <1>2, <1>3 DEF PmtOK, MasksOK
  <2>2. AtWork'
    BY <1>1, <1>2, <1>3 DEF AtWork, MasksOK
  <2>3. SentRegistered'
    BY <1>1, <1>2 DEF SentRegistered, MasksOK
  <2>4. QED
    BY <2>1, <2>2, <2>3 DEF MasksOK
<1>5. \A q \in Pmts : Marked(q)' => Marked(q) /\ pmt'[q].es = pmt[q].es
  BY <1>2, <1>3 DEF Marked
<1>6. TableOK' /\ MarkedOK'
  BY <1>2, <1>5, TableStays DEF ReadEpoch
<1>7. QED
  BY <1>2, <1>4, <1>6, Whole

LEMMA TellCamOK ==
    ASSUME PackInv, NEW ok \in BOOLEAN, TellCam(ok)
    PROVE  PackInv'
<1>1. RestType /\ TableOK /\ MasksOK /\ job.pc = "tell"
  BY Parts DEF TellCam
<1>2. PICK p \in Pmts : p = job.p
  BY <1>1 DEF MasksOK, AtWork
<1> DEFINE r == ProcessPmt(p, job.update, ok)
<1>3. RestType' /\ dev' = dev /\ pmt' = pmt
  BY <1>1 DEF TellCam, RestType
<1>4. job.update \in BOOLEAN /\ pmt[p].state = "running" /\ ~pmt[p].sent
  BY <1>1, <1>2 DEF MasksOK, AtWork, PmtOK, JobType
<1>5. \/ job' = [job EXCEPT !.pc = "set", !.result = "noretry"] /\ capmt' = capmt /\ cam' = cam
      \/ job' = [job EXCEPT !.pc = "set", !.result = r.result] /\ capmt' = r.capmt /\ cam' = r.cam
  BY <1>2 DEF TellCam
<1> HIDE DEF r
<1>6. /\ r.capmt \in Tables /\ r.cam \in [Sids -> SUBSET Streams] /\ Good(r.capmt, r.cam)
      /\ StayThere(p, r.capmt, r.cam)
      /\ r.result \in Results
      /\ r.result = "ok" => There(p, r.capmt, r.cam)
  <2>1. r = ProcessPmt(p, job.update, ok) /\ pmt[p].state # "free" /\ PmtsOK
    BY <1>4, PmtsAre DEF r
  <2>2. QED
    BY <1>1, <1>4, <2>1, ProcessKeeps DEF TableOK
<1>7. ASSUME NEW res \in Results, job' = [job EXCEPT !.pc = "set", !.result = res]
      PROVE  /\ MasksOK'
             /\ job'.p = p /\ job'.pc = "set" /\ job'.result = res
  <2>1. job' \in JobType /\ job'.p = p /\ job'.pc = "set" /\ job'.result = res
    BY <1>1, <1>2, <1>7 DEF MasksOK, PmtOK, JobType
  <2>2. PmtOK'
    BY <1>1, <1>3, <2>1 DEF PmtOK, MasksOK
  <2>3. AtWork'
    BY <1>3, <1>4, <2>1 DEF AtWork
  <2>4. SentRegistered'
    BY <1>1, <1>3 DEF SentRegistered, MasksOK
  <2>5. QED
    BY <2>1, <2>2, <2>3, <2>4 DEF MasksOK
<1>8. CASE job' = [job EXCEPT !.pc = "set", !.result = "noretry"] /\ capmt' = capmt /\ cam' = cam
  <2>1. MasksOK' /\ job'.p = p /\ job'.result = "noretry"
    BY <1>7, <1>8 DEF Results
  <2>2. \A q \in Pmts : Marked(q)' => Marked(q) /\ pmt'[q].es = pmt[q].es
    BY <1>2, <1>3, <2>1 DEF Marked
  <2>3. TableOK' /\ MarkedOK'
    BY <1>3, <1>8, <2>2, TableStays
  <2>4. QED
    BY <1>3, <2>1, <2>3, Whole
<1>9. CASE job' = [job EXCEPT !.pc = "set", !.result = r.result] /\ capmt' = r.capmt /\ cam' = r.cam
  <2>1. MasksOK' /\ job'.p = p /\ job'.pc = "set" /\ job'.result = r.result
    BY <1>6, <1>7, <1>9
  <2>2. \A q \in Pmts : Marked(q)' => pmt'[q].es = pmt[q].es /\ (q # p => Marked(q))
    BY <1>2, <1>3, <2>1 DEF Marked
  <2>3. Marked(p)' => There(p, capmt', cam')
    BY <1>6, <1>9, <2>1 DEF Marked
  <2>4. capmt' \in Tables /\ cam' \in [Sids -> SUBSET Streams] /\ Good(capmt', cam') /\ StayThere(p, capmt', cam')
    BY <1>6, <1>9
  <2>5. TableOK' /\ MarkedOK'
    BY <1>3, <2>2, <2>3, <2>4, TableBecomes
  <2>6. QED
    BY <1>3, <2>1, <2>5, Whole
<1>10. QED
  BY <1>5, <1>8, <1>9

\* The masks are written unless a teardown came in between, so what is marked is there.
LEMMA SetMasksOK ==
    ASSUME PackInv, SetMasks
    PROVE  PackInv'
<1> DEFINE p == job.p
<1>1. RestType /\ MasksOK /\ job.pc = "set"
  BY Parts DEF SetMasks
<1>2. RestType' /\ dev' = dev
  BY <1>1 DEF SetMasks, RestType
<1>3. /\ p \in Pmts /\ pmt[p].state = "running" /\ ~pmt[p].sent /\ pmt \in [Pmts -> PmtType] /\ job \in JobType
  BY <1>1 DEF MasksOK, AtWork, PmtOK, JobType
<1>4. Idle \in JobType /\ Idle.pc = "idle" /\ Idle.p = NoPmt /\ NoPmt \notin Pmts
  BY CamPmtsAssumption DEF Idle, JobType, Results
<1>5. \/ job' = Idle /\ pmt' = pmt
      \/ job' = Idle /\ pmt' = [pmt EXCEPT ![p].sent = TRUE, ![p].reg = TRUE] /\ job.result = "ok" /\ ~job.torn
      \/ pmt' = [pmt EXCEPT ![p].dis = TRUE] /\ job' \in {Idle, [job EXCEPT !.pc = "release"]}
  BY DEF SetMasks
<1>6. /\ pmt' \in [Pmts -> PmtType] /\ \A q \in Pmts : q # p => pmt'[q] = pmt[q]
      /\ pmt'[p].state = "running" /\ pmt'[p].es = pmt[p].es
      /\ pmt'[p].sent => pmt'[p].reg /\ job' = Idle /\ job.result = "ok" /\ ~job.torn
  <2>1. CASE pmt' = pmt
    BY <1>3, <2>1
  <2>2. CASE job' = Idle /\ pmt' = [pmt EXCEPT ![p].sent = TRUE, ![p].reg = TRUE] /\ job.result = "ok" /\ ~job.torn
    <3> DEFINE n == [pmt[p] EXCEPT !.sent = TRUE, !.reg = TRUE]
    <3>1. pmt' = [pmt EXCEPT ![p] = n]
      BY <1>3, <2>2
    <3>2. n \in PmtType /\ n.reg /\ n.state = "running" /\ n.es = pmt[p].es
      <4>1. pmt[p] \in PmtType
        BY <1>3
      <4>2. QED
        BY <1>3, <4>1 DEF PmtType
    <3> HIDE DEF n, p
    <3>3. QED
      BY <1>3, <2>2, <3>1, <3>2
  <2>3. CASE pmt' = [pmt EXCEPT ![p].dis = TRUE]
    BY <1>3, <2>3 DEF PmtType
  <2>4. QED
    BY <1>5, <2>1, <2>2, <2>3
<1>7. job' \in JobType /\ (job' = Idle \/ (job'.pc = "release" /\ job'.p = p))
  BY <1>3, <1>4, <1>5 DEF JobType
<1> HIDE DEF p
<1>8. MasksOK'
  <2>1. PmtOK'
    BY <1>1, <1>3, <1>6, <1>7 DEF PmtOK, MasksOK
  <2>2. AtWork'
    <3>1. CASE job' = Idle
      BY <1>4, <3>1 DEF AtWork
    <3>2. CASE job'.pc = "release" /\ job'.p = p
      <4>1. ~pmt'[p].sent
        BY <1>4, <1>6, <3>2
      <4>2. QED
        BY <1>3, <1>6, <3>2, <4>1 DEF AtWork
    <3>3. QED
      BY <1>7, <3>1, <3>2
  <2>3. SentRegistered'
    BY <1>1, <1>6 DEF SentRegistered, MasksOK
  <2>4. QED
    BY <2>1, <2>2, <2>3 DEF MasksOK
<1>9. ASSUME NEW q \in Pmts, Marked(q)'
      PROVE  Marked(q) /\ pmt'[q].es = pmt[q].es
  <2>1. pmt'[q].sent
    BY <1>4, <1>7, <1>9 DEF Marked
  <2>2. CASE q = p
    BY <1>1, <1>6, <2>1, <2>2 DEF Marked, p
  <2>3. CASE q # p
    BY <1>6, <2>1, <2>3 DEF Marked, p
  <2>4. QED
    BY <2>2, <2>3
<1>10. TableOK' /\ MarkedOK'
  BY <1>2, <1>9, TableStays DEF SetMasks
<1>11. QED
  BY <1>2, <1>8, <1>10, Whole

LEMMA ReleaseRejectedOK ==
    ASSUME PackInv, NEW ok \in BOOLEAN, ReleaseRejected(ok)
    PROVE  PackInv'
<1> DEFINE p == job.p
           n == Cleared(pmt[p])
<1>1. RestType /\ TableOK /\ MasksOK /\ job.pc = "release"
  BY Parts DEF ReleaseRejected
<1>2. RestType' /\ dev' = dev /\ job' = Idle
  BY <1>1 DEF ReleaseRejected, RestType
<1>3. p \in Pmts /\ pmt[p].state = "running" /\ pmt \in [Pmts -> PmtType] /\ pmt[p].es \in Streams
  BY <1>1 DEF MasksOK, AtWork, PmtOK
<1>4. n \in PmtType /\ n.state = "running" /\ n.es = pmt[p].es /\ ~n.sent
  <2>1. pmt[p] \in PmtType
    BY <1>3
  <2> HIDE DEF p
  <2>2. QED
    BY <1>3, <2>1 DEF PmtType, Cleared
<1>5. pmt' = [pmt EXCEPT ![p] = n] /\ capmt' = DelPmt(p, ok).capmt /\ cam' = DelPmt(p, ok).cam
  BY DEF ReleaseRejected
<1> HIDE DEF p, n
<1>6. pmt'[p] = n /\ pmt' \in [Pmts -> PmtType] /\ \A q \in Pmts : q # p => pmt'[q] = pmt[q]
  BY <1>3, <1>4, <1>5
<1>7. Idle \in JobType /\ Idle.pc = "idle" /\ Idle.p = NoPmt /\ NoPmt \notin Pmts
  BY CamPmtsAssumption DEF Idle, JobType, Results
<1>8. MasksOK'
  <2>1. PmtOK'
    BY <1>1, <1>2, <1>3, <1>4, <1>6, <1>7 DEF PmtOK, MasksOK
  <2>2. AtWork'
    BY <1>2, <1>7 DEF AtWork
  <2>3. SentRegistered'
    BY <1>1, <1>4, <1>6 DEF SentRegistered, MasksOK
  <2>4. QED
    BY <2>1, <2>2, <2>3 DEF MasksOK
<1>9. \A q \in Pmts : Marked(q)' => q # p /\ Marked(q) /\ pmt'[q].es = pmt[q].es
  BY <1>1, <1>2, <1>4, <1>6, <1>7 DEF Marked, p
<1>10. capmt' \in Tables /\ cam' \in [Sids -> SUBSET Streams] /\ Good(capmt', cam') /\ StayThere(p, capmt', cam')
  BY <1>1, <1>3, <1>5, PmtsAre, DelKeeps DEF TableOK
<1>11. TableOK' /\ MarkedOK'
  BY <1>2, <1>3, <1>9, <1>10, TableBecomes
<1>12. QED
  BY <1>2, <1>8, <1>11, Whole

\* A step of the socket thread that leaves the programs in place, while the CAM is not up or keeps no hash.
LEMMA TableDown ==
    ASSUME PackInv, capmt' \in Tables, cam' \in [Sids -> SUBSET Streams], pmt' = pmt, job' = job,
           \A s \in Slots : capmt'[s].sid = capmt[s].sid /\ capmt'[s].place = capmt[s].place,
           dev' # "initialized" \/ \A s \in Slots : capmt'[s].hash = Nothing,
           \A s \in Slots : capmt'[s].hash \in {capmt[s].hash, Nothing}
    PROVE  TableOK' /\ MarkedOK'
<1>1. TableOK /\ MarkedOK
  BY Parts
<1>2. \A s \in Slots : Used(capmt'[s]) = Used(capmt[s]) /\ \A p : HasPmt(capmt'[s], p) <=> HasPmt(capmt[s], p)
  BY DEF Used, HasPmt
<1>3. Distinct(capmt)'
  BY <1>1, <1>2 DEF TableOK, Good, Distinct, Active
<1>4. ASSUME NEW s \in Slots, NEW c, c = capmt'[s]
      PROVE  HashOf(c, cam)'
  <2>1. HashOf(capmt[s], cam)
    BY <1>1 DEF TableOK, Good, Hashes
  <2>2. QED
    BY <1>2, <1>4, <2>1 DEF HashOf, Used
<1>5. Hashes(capmt, cam)'
  BY <1>4 DEF Hashes
<1>6. ASSUME NEW p \in Pmts, Marked(p)'
      PROVE  There(p, capmt, cam)'
  <2>1. Marked(p)
    BY <1>6 DEF Marked
  <2>2. PICK s \in Slots : HasPmt(capmt[s], p)
    BY <1>1, <2>1 DEF MarkedOK, There
  <2>3. HasPmt(capmt'[s], p)
    BY <1>2, <2>2
  <2>4. QED
    BY <2>3 DEF There, HasPmt
<1>7. QED
  BY <1>3, <1>5, <1>6 DEF TableOK, Good, MarkedOK

LEMMA ReconnectOK ==
    ASSUME PackInv, Reconnect
    PROVE  PackInv'
<1>1. RestType /\ TableOK
  BY Parts
<1>2. RestType' /\ dev' # "initialized"
  BY <1>1 DEF Reconnect, RestType
<1>3. MasksOK'
  BY MasksStay DEF Reconnect
<1>4. TableOK' /\ MarkedOK'
  BY <1>1, <1>2, TableDown DEF Reconnect, TableOK
<1>5. QED
  BY <1>2, <1>3, <1>4, Whole

LEMMA CaInfoOK ==
    ASSUME PackInv, CaInfo
    PROVE  PackInv'
<1>1. RestType /\ TableOK
  BY Parts
<1>2. RestType'
  BY <1>1 DEF CaInfo, RestType
<1>3. MasksOK'
  BY MasksStay DEF CaInfo
<1>4. NoneKept \in LoopsType /\ capmt \in [Slots -> CapmtType]
  BY <1>1 DEF NoneKept, LoopsType, TableOK, Tables
<1>5. \A s \in Slots : /\ Forgotten[s] \in CapmtType /\ Forgotten[s].hash = Nothing
                       /\ Forgotten[s].sid = capmt[s].sid /\ Forgotten[s].place = capmt[s].place
  <2>1. SUFFICES ASSUME NEW s \in Slots
                 PROVE  /\ Forgotten[s] \in CapmtType /\ Forgotten[s].hash = Nothing
                        /\ Forgotten[s].sid = capmt[s].sid /\ Forgotten[s].place = capmt[s].place
    OBVIOUS
  <2>2. Forgotten[s] = [capmt[s] EXCEPT !.hash = Nothing, !.kept = NoneKept] /\ capmt[s] \in CapmtType
    BY <1>4 DEF Forgotten
  <2>3. QED
    BY <1>4, <2>2 DEF CapmtType
<1>6. Forgotten \in Tables
  <2>1. Forgotten = [s \in Slots |-> Forgotten[s]]
    BY DEF Forgotten
  <2>2. QED
    BY <1>5, <2>1 DEF Tables
<1>7. capmt' = Forgotten /\ cam' \in [Sids -> SUBSET Streams] /\ pmt' = pmt /\ job' = job
  BY DEF CaInfo
<1>8. TableOK' /\ MarkedOK'
  BY <1>5, <1>6, <1>7, TableDown
<1>9. QED
  BY <1>2, <1>3, <1>8, Whole

LEMMA AppCaCloseOK ==
    ASSUME PackInv, AppCaClose
    PROVE  PackInv'
<1>1. RestType /\ TableOK
  BY Parts
<1>2. RestType' /\ dev' # "initialized"
  BY <1>1 DEF AppCaClose, RestType
<1>3. MasksOK'
  BY MasksStay DEF AppCaClose
<1>4. capmt' = capmt /\ cam' \in [Sids -> SUBSET Streams] /\ pmt' = pmt /\ job' = job
  BY DEF AppCaClose
<1>5. TableOK' /\ MarkedOK'
  BY <1>1, <1>2, <1>4, TableDown DEF TableOK
<1>6. QED
  BY <1>2, <1>3, <1>5, Whole

LEMMA TeardownBeginOK ==
    ASSUME PackInv, TeardownBegin
    PROVE  PackInv'
<1>1. RestType'
  BY Parts DEF TeardownBegin, RestType
<1>2. MasksOK'
  BY MasksStay DEF TeardownBegin
<1>3. \A p \in Pmts : Marked(p)' => Marked(p) /\ pmt'[p].es = pmt[p].es
  BY DEF Marked, TeardownBegin
<1>4. TableOK' /\ MarkedOK'
  BY <1>3, TableStays DEF TeardownBegin
<1>5. QED
  BY <1>1, <1>2, <1>4, Whole

\* The teardown takes the masks of every program that has a place, and makes a send under way stale: nothing
\* stays marked.
LEMMA TeardownEndOK ==
    ASSUME PackInv, TeardownEnd
    PROVE  PackInv'
<1>1. RestType /\ TableOK /\ MasksOK /\ MarkedOK
  BY Parts
<1>2. RestType' /\ dev' = "inactive"
  BY <1>1 DEF TeardownEnd, RestType
<1> DEFINE gone(p) == [Cleared(pmt[p]) EXCEPT !.dis = FALSE]
<1>3. ASSUME NEW p \in Pmts
      PROVE  /\ gone(p) \in PmtType /\ gone(p).state = pmt[p].state /\ gone(p).es = pmt[p].es
             /\ ~gone(p).sent /\ (pmt[p] = EmptyPmt => gone(p) = EmptyPmt)
  <2>1. pmt[p] \in PmtType
    BY <1>1 DEF MasksOK, PmtOK
  <2>2. \A m \in PmtType : [Cleared(m) EXCEPT !.dis = FALSE] \in PmtType
    BY DEF PmtType, Cleared
  <2>3. \A m \in PmtType : /\ [Cleared(m) EXCEPT !.dis = FALSE].state = m.state
                           /\ [Cleared(m) EXCEPT !.dis = FALSE].es = m.es
                           /\ ~[Cleared(m) EXCEPT !.dis = FALSE].sent
    BY DEF PmtType, Cleared
  <2>4. \A m \in PmtType : ~m.sent /\ ~m.reg /\ ~m.dis => [Cleared(m) EXCEPT !.dis = FALSE] = m
    BY DEF PmtType, Cleared
  <2>5. ~EmptyPmt.sent /\ ~EmptyPmt.reg /\ ~EmptyPmt.dis
    BY DEF EmptyPmt
  <2>6. QED
    BY <2>1, <2>2, <2>3, <2>4, <2>5
<1>4. pmt' = [p \in Pmts |-> IF p \in Placed THEN gone(p) ELSE pmt[p]]
  BY DEF TeardownEnd
<1> HIDE DEF gone
<1>5. \A p \in Pmts : /\ pmt'[p] = (IF p \in Placed THEN gone(p) ELSE pmt[p])
                      /\ pmt'[p] \in PmtType /\ pmt'[p].state = pmt[p].state /\ pmt'[p].es = pmt[p].es
                      /\ pmt'[p].sent => p \notin Placed /\ pmt[p].sent
  BY <1>1, <1>3, <1>4 DEF MasksOK, PmtOK
<1>6. /\ job' \in JobType /\ job'.pc = job.pc /\ job'.p = job.p /\ job'.update = job.update /\ job'.result = job.result
      /\ job'.torn = (job.torn \/ (Placed # {} /\ job # Idle))
      /\ job = Idle => job' = Idle
  <2>1. job \in JobType
    BY <1>1 DEF MasksOK, PmtOK
  <2>2. CASE Placed # {} /\ job # Idle
    <3>1. job' = [job EXCEPT !.torn = TRUE]
      BY <2>2 DEF TeardownEnd
    <3>2. QED
      BY <2>1, <2>2, <3>1 DEF JobType
  <2>3. CASE ~(Placed # {} /\ job # Idle)
    <3>1. job' = job
      BY <2>3 DEF TeardownEnd
    <3>2. QED
      BY <2>1, <2>3, <3>1 DEF JobType
  <2>4. QED
    BY <2>2, <2>3
<1>7. MasksOK'
  <2>1. pmt' \in [Pmts -> PmtType]
    BY <1>4, <1>5
  <2>2. PmtOK'
    BY <1>1, <1>3, <1>5, <1>6, <2>1 DEF PmtOK, MasksOK
  <2>3. AtWork'
    BY <1>1, <1>5, <1>6 DEF AtWork, MasksOK
  <2>4. SentRegistered'
    BY <1>1, <1>5 DEF SentRegistered, MasksOK
  <2>5. QED
    BY <2>2, <2>3, <2>4 DEF MasksOK
<1>8. capmt' = [s \in Slots |-> EmptyCapmt] /\ cam' \in [Sids -> SUBSET Streams]
  BY DEF TeardownEnd
<1>9. NoneKept \in LoopsType /\ EmptyCapmt \in CapmtType /\ EmptyCapmt.hash = Nothing /\ Used(EmptyCapmt) = {}
  BY DEF EmptyCapmt, NoneKept, LoopsType, CapmtType, Sids, Used
<1>10. TableOK'
  <2>1. capmt' \in Tables /\ \A s \in Slots : capmt'[s] = EmptyCapmt
    BY <1>8, <1>9 DEF Tables
  <2>2. Distinct(capmt)'
    BY <1>9, <2>1 DEF Distinct, Active, Used
  <2>3. Hashes(capmt, cam)'
    BY <1>9, <2>1 DEF Hashes, HashOf
  <2>4. QED
    BY <1>8, <2>1, <2>2, <2>3 DEF TableOK, Good
<1>11. ASSUME NEW p \in Pmts, Marked(p)'
       PROVE  FALSE
  <2>1. ASSUME Marked(p)
        PROVE  p \in Placed
    BY <1>1, <2>1 DEF MarkedOK, There, Placed
  <2>2. CASE pmt'[p].sent /\ job'.p # p
    BY <1>5, <1>6, <2>1, <2>2 DEF Marked
  <2>3. CASE job'.p = p /\ job'.pc = "set" /\ job'.result = "ok" /\ ~job'.torn
    <3>1. Marked(p)
      BY <1>6, <2>3 DEF Marked
    <3>2. job # Idle /\ Placed # {}
      BY <1>6, <2>1, <2>3, <3>1 DEF Idle
    <3>3. QED
      BY <1>6, <2>3, <3>2
  <2>4. QED
    BY <1>11, <2>2, <2>3 DEF Marked
<1>12. MarkedOK'
  BY <1>11 DEF MarkedOK
<1>13. QED
  BY <1>2, <1>7, <1>10, <1>12, Whole

LEMMA ClearedElsewhereOK ==
    ASSUME PackInv, ClearedElsewhere
    PROVE  PackInv'
<1>1. RestType /\ MasksOK
  BY Parts
<1>2. RestType' /\ pmt' = pmt
  BY <1>1 DEF ClearedElsewhere, RestType
<1>3. /\ job' \in JobType /\ job'.pc = job.pc /\ job'.p = job.p /\ job'.update = job.update /\ job'.torn
      /\ job.pc # "idle"
  BY <1>1 DEF ClearedElsewhere, MasksOK, PmtOK, JobType
<1>4. MasksOK'
  BY <1>1, <1>2, <1>3 DEF MasksOK, PmtOK, AtWork, SentRegistered
<1>5. \A p \in Pmts : Marked(p)' => Marked(p) /\ pmt'[p].es = pmt[p].es
  BY <1>2, <1>3 DEF Marked
<1>6. TableOK' /\ MarkedOK'
  BY <1>5, TableStays DEF ClearedElsewhere
<1>7. QED
  BY <1>2, <1>4, <1>6, Whole

-----------------------------------------------------------------------------
LEMMA PackNext ==
    ASSUME PackInv, [Next]_vars
    PROVE  PackInv'
<1>1. ASSUME NEW p \in Pmts, NEW es \in Streams, PmtAdd(p, es) \/ ProcessPmtTable(p, es)
      PROVE  PackInv'
  BY <1>1, PmtAddOK, ProcessPmtTableOK
<1>2. ASSUME NEW p \in Pmts, StartPmt(p) \/ ReadMasks(p)
      PROVE  PackInv'
  BY <1>2, StartPmtOK, ReadMasksOK
<1>3. ASSUME NEW p \in Pmts, NEW ok \in BOOLEAN, StopPmt(p, ok) \/ PmtDel(p, ok)
      PROVE  PackInv'
  BY <1>3, StopPmtOK, PmtDelOK
<1>4. ASSUME NEW ok \in BOOLEAN, ParseDone(ok) \/ TellCam(ok) \/ ReleaseRejected(ok)
      PROVE  PackInv'
  BY <1>4, ParseDoneOK, TellCamOK, ReleaseRejectedOK
<1>5. CASE ReadEpoch \/ SetMasks
  BY <1>5, ReadEpochOK, SetMasksOK
<1>6. CASE Reconnect \/ CaInfo \/ AppCaClose \/ TeardownBegin \/ TeardownEnd \/ ClearedElsewhere
  BY <1>6, ReconnectOK, CaInfoOK, AppCaCloseOK, TeardownBeginOK, TeardownEndOK, ClearedElsewhereOK
<1>7. CASE UNCHANGED vars
  <2>1. RestType' /\ MasksOK'
    BY <1>7, Parts, MasksStay DEF vars, RestType
  <2>2. TableOK' /\ MarkedOK'
    <3>1. \A p \in Pmts : Marked(p)' => Marked(p) /\ pmt'[p].es = pmt[p].es
      BY <1>7 DEF Marked, vars
    <3>2. QED
      BY <1>7, <3>1, TableStays DEF vars
  <2>3. QED
    BY <2>1, <2>2, Whole
<1>8. QED
  BY <1>1, <1>2, <1>3, <1>4, <1>5, <1>6, <1>7 DEF Next

\* The variables keep their types and the parts of the invariant hold, whatever the broadcasters, the viewers
\* and the CAM do.
THEOREM CamPmtsInvariant == Spec => []PackInv
<1>1. PackInv /\ [Next]_vars => PackInv'
  BY PackNext
<1>2. QED
  BY PackInit, <1>1, PTL DEF Spec

\* Two CAPMTs with programs never share a program number: the numbers are given anew when one is in use alone,
\* and the spare one is there for the channel whose service id is the number of a slot.
THEOREM CamPmtsNumbersDiffer == Spec => []NumbersDiffer
<1>1. PackInv => NumbersDiffer
  BY DEF PackInv, Distinct, NumbersDiffer, Active
<1>2. QED
  BY <1>1, CamPmtsInvariant, PTL

\* A program that counts as sent is in a CAPMT and the CAM has its current streams under the number of it, also
\* when the message was left out because an equal one was sent before, and when a teardown overtook the send.
THEOREM CamPmtsSentIsThere == Spec => []SentIsThere
<1>1. PackInv => SentIsThere
  BY DEF PackInv, Marked, There, SentIsThere
<1>2. QED
  BY <1>1, CamPmtsInvariant, PTL
=============================================================================
