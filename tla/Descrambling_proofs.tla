------------------------ MODULE Descrambling_proofs ------------------------
(***************************************************************************)
(* Proofs about Descrambling, for any programs, any size of the table of   *)
(* words and any number of periods: what a batch is decrypted with         *)
(* (OwnWord, NoGarbage), that no word is missed (Noticed), and that the    *)
(* word in use stays the newest (LateWordsOlder).                          *)
(***************************************************************************)
EXTENDS Descrambling, FiniteSetTheorems, WellFoundedInduction, TLAPS

\* Max of a finite set of numbers is in it: the element with the fewest above it.
LEMMA MaxIsGreatest ==
    ASSUME NEW S, S \in SUBSET Int, IsFiniteSet(S), S # {}
    PROVE  Max(S) \in S /\ \A y \in S : y <= Max(S)
<1> DEFINE above == [x \in S |-> {y \in S : y > x}]
           family == {above[x] : x \in S}
<1>1. family \subseteq FiniteSubsetsOf(S) /\ family # {}
  <2>1. \A x \in S : above[x] \in FiniteSubsetsOf(S)
    BY FS_Subset DEF FiniteSubsetsOf
  <2>2. QED
    BY <2>1
<1>2. \E a \in family : \A b \in family : ~ (<<b, a>> \in StrictSubsetOrdering(S))
  <2> HIDE DEF family
  <2> QED BY <1>1, FS_StrictSubsetOrderingWellFounded, WFMin
<1>3. PICK s \in S : \A y \in S : ~ (<<above[y], above[s]>> \in StrictSubsetOrdering(S))
  BY <1>2
<1>4. \A y \in S : s >= y
  <2>1. SUFFICES ASSUME NEW y \in S, y > s PROVE FALSE
    OBVIOUS
  <2>2. y \in above[s] /\ y \notin above[y] /\ \A z \in S : z > y => z > s
    BY <2>1
  <2>3. above[y] \subseteq above[s] /\ above[s] \subseteq S
    BY <2>2
  <2>4. QED
    BY <1>3, <2>2, <2>3 DEF StrictSubsetOrdering
<1>5. QED
  BY <1>4 DEF Max

\* Min of a finite set of numbers is in it: the element with the fewest below it.
LEMMA MinIsLeast ==
    ASSUME NEW S, S \in SUBSET Int, IsFiniteSet(S), S # {}
    PROVE  Min(S) \in S /\ \A y \in S : Min(S) <= y
<1> DEFINE below == [x \in S |-> {y \in S : y < x}]
           family == {below[x] : x \in S}
<1>1. family \subseteq FiniteSubsetsOf(S) /\ family # {}
  <2>1. \A x \in S : below[x] \in FiniteSubsetsOf(S)
    BY FS_Subset DEF FiniteSubsetsOf
  <2>2. QED
    BY <2>1
<1>2. \E a \in family : \A b \in family : ~ (<<b, a>> \in StrictSubsetOrdering(S))
  <2> HIDE DEF family
  <2> QED BY <1>1, FS_StrictSubsetOrderingWellFounded, WFMin
<1>3. PICK s \in S : \A y \in S : ~ (<<below[y], below[s]>> \in StrictSubsetOrdering(S))
  BY <1>2
<1>4. \A y \in S : s <= y
  <2>1. SUFFICES ASSUME NEW y \in S, y < s PROVE FALSE
    OBVIOUS
  <2>2. y \in below[s] /\ y \notin below[y] /\ \A z \in S : z < y => z < s
    BY <2>1
  <2>3. below[y] \subseteq below[s] /\ below[s] \subseteq S
    BY <2>2
  <2>4. QED
    BY <1>3, <2>2, <2>3 DEF StrictSubsetOrdering
<1>5. QED
  BY <1>4 DEF Min

-----------------------------------------------------------------------------
(* The table of words *)

LEMMA SlotsFinite == Slots \in SUBSET Int /\ IsFiniteSet(Slots)
<1>1. MaxCw \in Int
  BY DescramblingAssumption
<1>2. IsFiniteSet(1 .. MaxCw)
  BY <1>1, FS_Interval
<1>3. QED
  BY <1>1, <1>2 DEF Slots

\* The last enabled slot is where the search of the table ends.
\* The first of some slots is one of them.
LEMMA FirstIsOne ==
    ASSUME NEW S \in SUBSET Slots, S # {}
    PROVE  (CHOOSE j \in S : \A k \in S : j <= k) \in S
<1>1. S \in SUBSET Int /\ IsFiniteSet(S)
  BY SlotsFinite, FS_Subset
<1>2. \E m \in S : \A y \in S : m <= y
  BY <1>1, MinIsLeast
<1>3. QED
  BY <1>2

LEMMA LastEnabled ==
    ASSUME NEW S \in SUBSET Slots
    PROVE  Max(S \union {0}) \in 0 .. MaxCw /\ \A i \in S : i <= Max(S \union {0})
<1>1. S \union {0} \subseteq 0 .. MaxCw
  BY DescramblingAssumption DEF Slots
<1>2. IsFiniteSet(S \union {0})
  <2>1. IsFiniteSet(0 .. MaxCw)
    BY FS_Interval, DescramblingAssumption
  <2>2. QED
    BY <1>1, <2>1, FS_Subset
<1>3. S \union {0} \in SUBSET Int /\ S \union {0} # {}
  BY <1>1
<1>4. Max(S \union {0}) \in S \union {0} /\ \A y \in S \union {0} : y <= Max(S \union {0})
  BY <1>2, <1>3, MaxIsGreatest
<1>5. QED
  BY <1>1, <1>4

\* The parity of a period is that of the period after the next, and not that of the next.
LEMMA ParityAlternates ==
    ASSUME NEW n \in Nat
    PROVE  Parity(n) \in {0, 1} /\ Parity(n + 1) # Parity(n)
  BY DEF Parity

-----------------------------------------------------------------------------
(* The inductive invariant *)

\* the period of the packets the program counts as its current ones
Current(p) == IF pmt[p].parity = Parity(period[p]) THEN period[p] ELSE period[p] - 1

\* A slot a program has taken is enabled and its own, checked or not: this keeps send_cw from reusing it.
Held == \A p \in Pmts : pmt[p].cw # NoCw => cws[pmt[p].cw].enabled /\ cws[pmt[p].cw].pmt = p

\* The parity a program has noted is that of its period or of the one before; without one it has no batch and no word.
Follows ==
    \A p \in Pmts :
        /\ pmt[p].parity # NoParity => Current(p) \in Nat /\ pmt[p].parity = Parity(Current(p))
        /\ pmt[p].parity = NoParity => pmt[p].update /\ pmt[p].cw = NoCw /\ pmt[p].batch = NoBatch

\* The packets of a batch are those of the current period, and a thread decrypts only what there is.
BatchIsCurrent ==
    \A p \in Pmts : /\ pmt[p].batch # NoBatch => pmt[p].batch.word = Current(p)
                    /\ at = p => pmt[p].batch # NoBatch

\* A word that was checked is the one of the current period, until the program is asked to look again.
CheckedIsRight == \A p \in Pmts : Checked(p) => cws[pmt[p].cw].word = Current(p)

WordsInv == /\ TypeOK /\ Held /\ Follows /\ BatchIsCurrent /\ CheckedIsRight
            /\ OwnWord /\ NoGarbage /\ Noticed

\* A word that comes keeps the order: the words before it are before all the others.
LEMMA TimedOrdered ==
    ASSUME Ordered, NEW i \in Slots, Enabled' = Enabled \union {i}, NEW before \in SUBSET (Enabled \ {i}),
           \A j \in before, k \in Enabled \ {i} : <<k, j>> \in older => k \in before,
           older' = Timed(i, before)
    PROVE  Ordered'
<1> DEFINE E == Enabled
           O == older
           after == E \ (before \union {i})
<1>1. /\ O \subseteq E \X E
      /\ \A a, b \in E : <<a, b>> \in O <=> a # b /\ <<b, a>> \notin O
      /\ \A a, b, c \in E : <<a, b>> \in O /\ <<b, c>> \in O => <<a, c>> \in O
  BY DEF Ordered
<1>2. \A a, b \in E \union {i} : <<a, b>> \in older' <=>
        \/ a # i /\ b # i /\ <<a, b>> \in O
        \/ a \in before /\ b = i
        \/ a = i /\ b \in after
  <2> HIDE DEF E, O, after
  <2>1. older' = {e \in O : i \notin {e[1], e[2]}} \union (before \X {i}) \union ({i} \X after)
    BY DEF Timed, E, O, after
  <2>2. i \notin before /\ i \notin after
    BY DEF after
  <2>3. QED
    BY <2>1, <2>2
<1>3. older' \subseteq (E \union {i}) \X (E \union {i})
  <2>1. before \subseteq E \union {i} /\ after \subseteq E \union {i}
    OBVIOUS
  <2> HIDE DEF E, O, after
  <2>2. older' = {e \in O : i \notin {e[1], e[2]}} \union (before \X {i}) \union ({i} \X after)
    BY DEF Timed, E, O, after
  <2>3. QED
    BY <1>1, <2>1, <2>2
<1>4. /\ i \notin before /\ i \notin after /\ \A a \in E \union {i} : a = i \/ a \in before \/ a \in after
      /\ before \subseteq E /\ after \subseteq E /\ \A a \in after : a \notin before
      /\ \A a, b \in E : a # i /\ b \in before /\ <<a, b>> \in O => a \in before
  OBVIOUS
<1> HIDE DEF E, O, after
<1>5. \A a, b \in E \union {i} : <<a, b>> \in older' <=> a # b /\ <<b, a>> \notin older'
  BY <1>1, <1>2, <1>4
<1>6. ASSUME NEW a \in E \union {i}, NEW b \in E \union {i}, NEW c \in E \union {i},
             <<a, b>> \in older', <<b, c>> \in older'
      PROVE  <<a, c>> \in older'
  <2>1. CASE a = i
    BY <1>1, <1>2, <1>4, <1>6, <2>1
  <2>2. CASE b = i
    BY <1>1, <1>2, <1>4, <1>6, <2>2
  <2>3. CASE c = i
    BY <1>1, <1>2, <1>4, <1>6, <2>3
  <2>4. CASE a # i /\ b # i /\ c # i
    BY <1>1, <1>2, <1>6, <2>4
  <2>5. QED
    BY <2>1, <2>2, <2>3, <2>4
<1>7. QED
  BY <1>3, <1>5, <1>6 DEF Ordered, E

\* So do words that go.
LEMMA FewerOrdered ==
    ASSUME Ordered, Enabled' \subseteq Enabled, older' = {e \in older : e[1] \in Enabled' /\ e[2] \in Enabled'}
    PROVE  Ordered'
<1> DEFINE E == Enabled
           F == Enabled'
<1>1. /\ older \subseteq E \X E
      /\ \A a, b \in E : <<a, b>> \in older <=> a # b /\ <<b, a>> \notin older
      /\ \A a, b, c \in E : <<a, b>> \in older /\ <<b, c>> \in older => <<a, c>> \in older
      /\ F \subseteq E /\ older' = {e \in older : e[1] \in F /\ e[2] \in F}
  BY DEF Ordered
<1> HIDE DEF E, F
<1>2. \A a, b \in F : <<a, b>> \in older' <=> <<a, b>> \in older
  BY <1>1
<1>3. older' \subseteq F \X F
  BY <1>1
<1>4. QED
  BY <1>1, <1>2, <1>3 DEF Ordered, F

LEMMA WordsInit == Init => WordsInv
<1> SUFFICES ASSUME Init PROVE WordsInv
  OBVIOUS
<1> USE DescramblingAssumption DEF Init, Unused, NewPmt, NoBatch, NoCw, NoParity
<1>1. 0 \in Words
  BY DEF Words
<1>2. TypeOK
  BY <1>1 DEF TypeOK, Ordered, Enabled, Slots, SlotType, PmtType
<1>3. Held /\ CheckedIsRight /\ OwnWord /\ NoGarbage
  BY DEF Held, CheckedIsRight, Checked, OwnWord, NoGarbage
<1>4. Follows /\ BatchIsCurrent /\ Noticed
  BY DEF Follows, BatchIsCurrent, Noticed
<1>5. QED
  BY <1>2, <1>3, <1>4 DEF WordsInv

\* One field of a program's or a word's record changes.
LEMMA Asked == ASSUME NEW r \in PmtType PROVE [r EXCEPT !.update = TRUE] \in PmtType
  BY DEF PmtType

LEMMA Applied == ASSUME NEW r \in PmtType PROVE [r EXCEPT !.batch = NoBatch] \in PmtType
  BY DEF PmtType, NoBatch

\* What leaves the enabled slots and the times alone keeps the order.
LEMMA OrderStays == ASSUME Ordered, Enabled' = Enabled, older' = older PROVE Ordered'
  BY DEF Ordered

LEMMA Expired ==
    ASSUME NEW c \in SlotType
    PROVE  LET d == [c EXCEPT !.expired = TRUE]
           IN  d \in SlotType /\ d.enabled = c.enabled /\ d.made = c.made /\ d.pmt = c.pmt
  BY DEF SlotType

\* Expiry takes a slot out of the search and changes nothing else.
LEMMA ExpireStep == ASSUME WordsInv, NEW i \in Slots, Expire(i) PROVE WordsInv'
<1> USE DEF WordsInv, Expire, TypeOK
<1>1. TypeOK'
  <2> DEFINE d == [cws[i] EXCEPT !.expired = TRUE]
  <2>1. cws \in [Slots -> SlotType] /\ cws' = [cws EXCEPT ![i] = d]
    OBVIOUS
  <2>2. d \in SlotType /\ d.enabled = cws[i].enabled /\ d.made = cws[i].made /\ d.pmt = cws[i].pmt
    BY <2>1, Expired
  <2> HIDE DEF d
  <2>3. cws' \in [Slots -> SlotType]
    BY <2>1, <2>2
  <2>4. \A j \in Slots : cws'[j].enabled => cws'[j].made /\ cws'[j].pmt \in Pmts /\ j <= ncws'
    BY <2>1, <2>2
  <2>5. Enabled' = Enabled
    BY <2>1, <2>2 DEF Enabled
  <2>6. Ordered'
    BY <2>5, OrderStays
  <2>7. QED
    BY <2>3, <2>4, <2>6
<1>2. Held' /\ Follows' /\ BatchIsCurrent' /\ CheckedIsRight'
  BY DEF Held, Follows, BatchIsCurrent, CheckedIsRight, Checked, Current, NoCw, SlotType, PmtType
<1>3. OwnWord' /\ NoGarbage'
  BY DEF OwnWord, NoGarbage, NoCw, SlotType, PmtType
<1>4. Noticed'
  BY DEF Noticed, Fresh
<1>5. QED
  BY <1>1, <1>2, <1>3, <1>4

LEMMA disable_cwStep == ASSUME WordsInv, NEW p \in Pmts, disable_cw(p) PROVE WordsInv'
<1> USE DEF WordsInv, disable_cw, TypeOK, PmtType
<1>1. TypeOK'
  <2> HIDE DEF PmtType
  <2>1. pmt \in [Pmts -> PmtType]
    OBVIOUS
  <2>2. [pmt[p] EXCEPT !.update = TRUE] \in PmtType
    BY <2>1, Asked
  <2>3. pmt' \in [Pmts -> PmtType]
    BY <2>1, <2>2
  <2>4. Ordered'
    BY OrderStays DEF Enabled
  <2>5. QED
    BY <2>3, <2>4
<1>2. Held' /\ Follows' /\ BatchIsCurrent' /\ CheckedIsRight'
  BY DEF Held, Follows, BatchIsCurrent, CheckedIsRight, Checked, Current
<1>3. OwnWord' /\ NoGarbage'
  BY DEF OwnWord, NoGarbage
<1>4. Noticed'
  BY DEF Noticed, Fresh
<1>5. QED
  BY <1>1, <1>2, <1>3, <1>4

LEMMA ApplyStep == ASSUME WordsInv, NEW p \in Pmts, Apply(p) PROVE WordsInv'
<1> USE DescramblingAssumption DEF WordsInv, Apply, TypeOK, NoBatch, PmtType
<1>1. TypeOK'
  <2> HIDE DEF PmtType
  <2>1. pmt \in [Pmts -> PmtType]
    OBVIOUS
  <2>2. [pmt[p] EXCEPT !.batch = NoBatch] \in PmtType
    <3> HIDE DEF NoBatch
    <3> QED BY <2>1, Applied
  <2>3. pmt' \in [Pmts -> PmtType]
    BY <2>1, <2>2
  <2>4. Ordered'
    BY OrderStays DEF Enabled
  <2>5. QED
    BY <2>3, <2>4
<1>2. Held' /\ Follows' /\ BatchIsCurrent' /\ CheckedIsRight'
  BY DEF Held, Follows, BatchIsCurrent, CheckedIsRight, Checked, Current
<1>3. OwnWord' /\ NoGarbage'
  BY DEF OwnWord, NoGarbage
<1>4. Noticed'
  BY DEF Noticed, Fresh
<1>5. QED
  BY <1>1, <1>2, <1>3, <1>4

LEMMA send_ecmStep == ASSUME WordsInv, NEW p \in Pmts, send_ecm(p) PROVE WordsInv'
<1> USE DescramblingAssumption DEF WordsInv, send_ecm, TypeOK
<1>1. {w \in {period[p], period[p] + 1} : w <= LastPeriod[p]} \subseteq Words
  BY DEF Words
<1>2. TypeOK'
  <2>1. Ordered'
    BY OrderStays DEF Enabled
  <2>2. QED
    BY <1>1, <2>1, ParityAlternates
<1>3. Held' /\ Follows' /\ BatchIsCurrent' /\ CheckedIsRight'
  BY DEF Held, Follows, BatchIsCurrent, CheckedIsRight, Checked, Current
<1>4. OwnWord' /\ NoGarbage' /\ Noticed'
  BY DEF OwnWord, NoGarbage, Noticed, Fresh
<1>5. QED
  BY <1>2, <1>3, <1>4

LEMMA NextPeriodStep == ASSUME WordsInv, NEW p \in Pmts, NextPeriod(p) PROVE WordsInv'
<1> USE DescramblingAssumption DEF WordsInv, NextPeriod, TypeOK
<1>1. Parity(period[p] + 1) # Parity(period[p]) /\ Parity(period[p]) # NoParity
  BY ParityAlternates DEF NoParity
<1>2. TypeOK'
  <2>1. period' \in [Pmts -> Nat]
    OBVIOUS
  <2>2. period[p] + 1 <= LastPeriod[p]
    <3>1. period[p] \in Nat /\ LastPeriod[p] \in Nat /\ period[p] < LastPeriod[p]
      OBVIOUS
    <3>2. QED
      BY ONLY <3>1
  <2>3. \A q \in Pmts : period'[q] <= LastPeriod[q]
    BY <2>2
  <2>4. Ordered'
    BY OrderStays DEF Enabled
  <2>5. QED
    BY <2>1, <2>3, <2>4
<1>3. \A q \in Pmts : pmt[q].parity # NoParity => Current(q)' = Current(q)
  BY <1>1 DEF Current
<1>4. Held' /\ Follows' /\ BatchIsCurrent' /\ CheckedIsRight'
  <2>1. Held'
    BY DEF Held
  <2>2. Follows'
    BY <1>3 DEF Follows
  <2>3. BatchIsCurrent'
    BY <1>3 DEF Follows, BatchIsCurrent
  <2>4. CheckedIsRight'
    BY <1>3 DEF Follows, CheckedIsRight, Checked
  <2>5. QED
    BY <2>1, <2>2, <2>3, <2>4
<1>5. OwnWord' /\ NoGarbage'
  BY DEF OwnWord, NoGarbage
<1>6. Noticed'
  BY <1>1 DEF Noticed, Fresh
<1>7. QED
  BY <1>2, <1>4, <1>5, <1>6

\* A packet joins the batch: at a change of parity the program is told to look again, so a checked word stays the
\* word of the current period.
LEMMA PacketStep == ASSUME WordsInv, NEW p \in Pmts, NEW pusi \in BOOLEAN, Packet(p, pusi) PROVE WordsInv'
<1> USE DescramblingAssumption DEF WordsInv
<1>1. at = 0 /\ at' = 0 /\ cws' = cws /\ ncws' = ncws /\ period' = period /\ ecm' = ecm
  BY DEF Packet
<1>2. pmt' \in [Pmts -> PmtType] /\ \A q \in Pmts \ {p} : pmt'[q] = pmt[q]
  <2>1. period[p] \in Words /\ Parity(period[p]) \in 0 .. 2
    BY ParityAlternates DEF TypeOK, Words
  <2>2. pmt[p] \in PmtType
    BY DEF TypeOK
  <2>3. DEFINE u == pmt[p].update \/ pmt[p].parity \notin {NoParity, Parity(period[p])}
               r == [pmt[p] EXCEPT !.parity = Parity(period[p]), !.update = u,
                                   !.batch = [word |-> period[p], pusi |-> pusi]]
  <2>4. pmt' = [pmt EXCEPT ![p] = r]
    BY DEF Packet, TypeOK
  <2>5. u \in BOOLEAN
    OBVIOUS
  <2>6. r \in PmtType
    <3> HIDE DEF u
    <3> QED BY <2>1, <2>2, <2>5 DEF PmtType
  <2>7. QED
    <3> HIDE DEF r
    <3> QED BY <2>4, <2>6 DEF TypeOK
<1>3. /\ pmt'[p].parity = Parity(period[p]) /\ pmt'[p].cw = pmt[p].cw
      /\ pmt'[p].batch.word = period[p]
      /\ ~pmt'[p].update => ~pmt[p].update /\ pmt[p].parity \in {NoParity, Parity(period[p])}
  BY DEF Packet, TypeOK, PmtType
<1>4. ~pmt'[p].update => pmt[p].parity = Parity(period[p])
  BY <1>3 DEF Follows
<1>5. Parity(period[p]) # NoParity /\ period[p] \in Nat
  BY ParityAlternates DEF NoParity, TypeOK
<1>6. TypeOK'
  <2>1. older' = older /\ Enabled' = Enabled
    BY <1>1 DEF Packet, Enabled
  <2>2. Ordered'
    BY <2>1, OrderStays DEF TypeOK
  <2>3. QED
    BY <1>1, <1>2, <2>2 DEF TypeOK
<1>7. Current(p)' = period[p] /\ \A q \in Pmts \ {p} : Current(q)' = Current(q)
  BY <1>1, <1>2, <1>3 DEF Current
<1>8. Held'
  BY <1>1, <1>2, <1>3 DEF Held
<1>9. Follows' /\ BatchIsCurrent'
  BY <1>1, <1>2, <1>3, <1>5, <1>7 DEF Follows, BatchIsCurrent
<1>10. CheckedIsRight'
  BY <1>1, <1>2, <1>3, <1>4, <1>7 DEF CheckedIsRight, Checked, Current
<1>11. OwnWord' /\ NoGarbage'
  BY <1>1 DEF OwnWord, NoGarbage
<1>12. Noticed'
  BY <1>1, <1>2, <1>3, <1>4 DEF Noticed, Fresh
<1>13. QED
  BY <1>6, <1>8, <1>9, <1>10, <1>11, <1>12

\* A search takes a fresh word of the parity of the batch, the right one if the batch shows it, or none.
LEMMA SearchStep == ASSUME WordsInv, NEW p \in Pmts, Search(p) PROVE WordsInv'
<1> USE DescramblingAssumption DEF WordsInv
<1> DEFINE b == pmt[p].batch
           looks == pmt[p].update \/ (pmt[p].cw = NoCw /\ b.pusi)
<1>1. at = 0 /\ at' = p /\ cws' = cws /\ ncws' = ncws /\ period' = period /\ ecm' = ecm /\ b # NoBatch
  BY DEF Search
<1>2. b.word = Current(p) /\ Current(p) \in Nat /\ pmt[p].parity = Parity(b.word)
  BY <1>1 DEF Follows, BatchIsCurrent
<1>2a. Ordered'
  <2>1. older' = older /\ Enabled' = Enabled
    BY <1>1 DEF Search, Enabled
  <2>2. QED
    BY <2>1, OrderStays DEF TypeOK
<1>3. CASE ~looks
  <2>1. pmt' = pmt
    BY <1>3 DEF Search
  <2>2. TypeOK'
    BY <1>1, <1>2a, <2>1 DEF TypeOK
  <2>3. Held' /\ Follows' /\ BatchIsCurrent' /\ CheckedIsRight' /\ Noticed'
    BY <1>1, <2>1 DEF Held, Follows, BatchIsCurrent, CheckedIsRight, Checked, Current, Noticed, Fresh
  <2>4. pmt[p].cw # NoCw => cws[pmt[p].cw].enabled /\ cws[pmt[p].cw].pmt = p /\ cws[pmt[p].cw].word = b.word
    BY <1>2, <1>3 DEF Held, CheckedIsRight, Checked
  <2>5. OwnWord' /\ NoGarbage'
    BY <1>1, <2>1, <2>4 DEF OwnWord, NoGarbage
  <2>6. QED
    BY <2>2, <2>3, <2>5
<1>4. CASE looks
  <2>1. PICK i \in Found(p) : pmt' = [pmt EXCEPT ![p].cw = i, ![p].update = ~b.pusi]
    BY <1>4 DEF Search
  <2>2. /\ i # NoCw => /\ i \in Fresh(p, pmt[p].parity)
                       /\ b.pusi => cws[i].word = b.word
        /\ i = NoCw /\ b.pusi => \A j \in Fresh(p, pmt[p].parity) : cws[j].word # b.word
    <3>1. \A j \in Fresh(p, pmt[p].parity) : j <= ncws
      BY DEF Fresh, TypeOK
    <3>2. NoCw \notin Candidates(p)
      BY DEF Candidates, Fresh, Slots, NoCw
    <3>3. QED
      BY <3>1, <3>2 DEF Found, Newest, Candidates
  <2>3. i \in Slots \union {NoCw}
    BY <2>2 DEF Fresh
  <2>4. /\ pmt' \in [Pmts -> PmtType] /\ \A q \in Pmts \ {p} : pmt'[q] = pmt[q]
        /\ pmt'[p].cw = i /\ pmt'[p].update = ~b.pusi /\ pmt'[p].batch = b /\ pmt'[p].parity = pmt[p].parity
    <3>1. pmt \in [Pmts -> PmtType]
      BY DEF TypeOK
    <3>2. pmt[p] \in PmtType
      BY <3>1
    <3> DEFINE r == [pmt[p] EXCEPT !.cw = i, !.update = ~b.pusi]
    <3>3. /\ r \in PmtType /\ r.cw = i /\ r.update = ~b.pusi /\ r.batch = b
          /\ r.parity = pmt[p].parity
      BY <2>3, <3>2 DEF PmtType
    <3>4. pmt' = [pmt EXCEPT ![p] = r]
      BY <2>1, <3>1
    <3> HIDE DEF r
    <3>5. QED
      BY <3>1, <3>3, <3>4
  <2>5. TypeOK'
    BY <1>1, <1>2a, <2>4 DEF TypeOK
  <2>6. \A q \in Pmts : Current(q)' = Current(q)
    BY <1>1, <2>4 DEF Current
  <2>7. i # NoCw => cws[i].enabled /\ cws[i].pmt = p /\ Parity(cws[i].word) = pmt[p].parity
    BY <2>2 DEF Fresh
  <2>8. Held'
    BY <1>1, <2>4, <2>7 DEF Held
  <2>9. Follows' /\ BatchIsCurrent'
    BY <1>1, <1>2, <2>4, <2>6 DEF Follows, BatchIsCurrent
  <2>10. CheckedIsRight'
    <3>1. \A q \in Pmts \ {p} : Checked(q)' => Checked(q) /\ pmt'[q].cw = pmt[q].cw
      BY <2>4 DEF Checked
    <3>2. Checked(p)' => i # NoCw /\ b.pusi
      BY <2>4 DEF Checked
    <3>3. Checked(p)' => cws[i].word = Current(p)
      BY <1>2, <2>2, <3>2
    <3>4. QED
      BY <1>1, <2>4, <2>6, <3>1, <3>3 DEF CheckedIsRight
  <2>11. OwnWord'
    BY <1>1, <1>2, <2>4, <2>7 DEF OwnWord
  <2>12. NoGarbage'
    BY <1>1, <2>2, <2>4 DEF NoGarbage
  <2>13. Noticed'
    <3>1. ASSUME i = NoCw, b.pusi, NEW j \in Fresh(p, pmt[p].parity) PROVE cws[j].word # period[p]
      BY <1>2, <2>2, <3>1 DEF Current, Fresh
    <3>2. ~pmt'[p].update => b.pusi
      BY <2>4
    <3>3. ASSUME NEW q \in Pmts, pmt'[q].cw = NoCw, ~pmt'[q].update, NEW j \in Fresh(q, pmt[q].parity)
          PROVE  cws[j].word # period[q]
      BY <2>4, <3>1, <3>2, <3>3 DEF Noticed
    <3>4. QED
      BY <1>1, <2>4, <3>3 DEF Noticed, Fresh
  <2>14. QED
    BY <2>5, <2>8, <2>9, <2>10, <2>11, <2>12, <2>13
<1>5. QED
  BY <1>3, <1>4

\* A new word takes a slot nobody holds; a program without a word is told to look.
LEMMA SetDescrStep == ASSUME WordsInv, NEW p \in Pmts, NEW w \in Words, SetDescr(p, w) PROVE WordsInv'
<1> USE DescramblingAssumption DEF WordsInv
<1> DEFINE free == {j \in Slots : Takes(j, p)}
           i == CHOOSE j \in free : \A k \in free : j <= k
           c == [made |-> TRUE, enabled |-> TRUE, pmt |-> p, word |-> w, algo |-> Algo[p], expired |-> FALSE]
<1>1. /\ free # {} /\ cws' = [cws EXCEPT ![i] = c]
      /\ pmt' = [pmt EXCEPT ![p].update = @ \/ pmt[p].cw = NoCw]
      /\ ncws' = IF i > ncws THEN i ELSE ncws
      /\ \E before \in Before(i, p, w) : older' = Timed(i, before)
      /\ period' = period /\ ecm' = ecm /\ at' = at
  BY DEF SetDescr, send_cw
<1>2. i \in Slots /\ Takes(i, p)
  <2>1. free \in SUBSET Slots
    OBVIOUS
  <2>2. i \in free
    <3> HIDE DEF free
    <3> QED BY <1>1, <2>1, FirstIsOne
  <2>3. QED
    BY <2>2
<1> HIDE DEF i
<1>3. ASSUME NEW q \in Pmts PROVE pmt[q].cw # i
  <2>1. SUFFICES ASSUME pmt[q].cw = i PROVE FALSE
    OBVIOUS
  <2>2. i # NoCw
    BY <1>2 DEF Slots, NoCw
  <2>3. cws[i].enabled /\ cws[i].pmt = q
    BY <2>1, <2>2 DEF Held
  <2>4. cws[i].made
    BY <1>2, <2>3 DEF TypeOK
  <2>5. QED
    BY <1>2, <2>1, <2>3, <2>4 DEF Takes, cw_in_use
<1>4. /\ pmt' \in [Pmts -> PmtType] /\ \A q \in Pmts \ {p} : pmt'[q] = pmt[q]
      /\ pmt'[p].cw = pmt[p].cw /\ pmt'[p].parity = pmt[p].parity /\ pmt'[p].batch = pmt[p].batch
      /\ pmt[p].update => pmt'[p].update
      /\ pmt[p].cw = NoCw => pmt'[p].update
  <2>1. DEFINE u == pmt[p].update \/ pmt[p].cw = NoCw
               r == [pmt[p] EXCEPT !.update = u]
  <2>2. pmt' = [pmt EXCEPT ![p] = r]
    BY <1>1 DEF TypeOK
  <2>3. u \in BOOLEAN /\ pmt[p] \in PmtType
    BY DEF TypeOK
  <2>4. /\ r \in PmtType /\ r.cw = pmt[p].cw /\ r.parity = pmt[p].parity /\ r.batch = pmt[p].batch
        /\ r.update = u
    <3> HIDE DEF u
    <3> QED BY <2>3 DEF PmtType
  <2>5. (pmt[p].update => u) /\ (pmt[p].cw = NoCw => u)
    OBVIOUS
  <2>6. QED
    <3> HIDE DEF r, u
    <3> QED BY <2>2, <2>4, <2>5 DEF TypeOK
<1>5. cws' \in [Slots -> SlotType] /\ cws'[i] = c /\ \A j \in Slots \ {i} : cws'[j] = cws[j]
  <2>1. c \in SlotType
    BY DEF SlotType
  <2>2. QED
    BY <1>1, <1>2, <2>1 DEF TypeOK
<1>6. \A q \in Pmts : pmt[q].cw # NoCw => cws'[pmt[q].cw] = cws[pmt[q].cw]
  BY <1>3, <1>5 DEF TypeOK, PmtType
<1>7. TypeOK'
  <2>1. ncws' \in 0 .. MaxCw /\ i <= ncws' /\ ncws <= ncws'
    BY <1>1, <1>2 DEF TypeOK, Slots
  <2>2. \A j \in Slots : cws'[j].enabled => cws'[j].made /\ cws'[j].pmt \in Pmts /\ j <= ncws'
    <3>1. cws'[i].made /\ cws'[i].pmt \in Pmts /\ i <= ncws'
      BY <1>5, <2>1
    <3>2. ASSUME NEW j \in Slots \ {i}, cws[j].enabled PROVE cws[j].made /\ cws[j].pmt \in Pmts /\ j <= ncws'
      <4>1. cws[j].made /\ cws[j].pmt \in Pmts /\ j <= ncws
        BY <3>2 DEF TypeOK
      <4>2. j \in Int /\ ncws \in Int /\ ncws' \in Int
        BY <2>1 DEF TypeOK, Slots
      <4>3. QED
        BY <2>1, <4>1, <4>2
    <3>3. QED
      BY <1>5, <3>1, <3>2
  <2>3. Ordered'
    <3>1. Enabled' = Enabled \union {i}
      BY <1>2, <1>5 DEF Enabled
    <3>2. PICK before \in Before(i, p, w) : older' = Timed(i, before)
      BY <1>1
    <3>3. /\ before \in SUBSET (Enabled \ {i})
          /\ \A j \in before, k \in Enabled \ {i} : <<k, j>> \in older => k \in before
      BY DEF Before
    <3>4. Ordered
      BY DEF TypeOK
    <3>5. QED
      BY <1>2, <3>1, <3>2, <3>3, <3>4, TimedOrdered
  <2>4. QED
    BY <1>1, <1>4, <1>5, <2>1, <2>2, <2>3 DEF TypeOK
<1>8. \A q \in Pmts : Current(q)' = Current(q)
  BY <1>1, <1>4 DEF Current
<1>9. Held' /\ Follows' /\ BatchIsCurrent'
  BY <1>1, <1>4, <1>6, <1>8 DEF Held, Follows, BatchIsCurrent
<1>10. CheckedIsRight'
  BY <1>4, <1>6, <1>8 DEF CheckedIsRight, Checked
<1>11. OwnWord' /\ NoGarbage'
  BY <1>1, <1>4, <1>6 DEF OwnWord, NoGarbage
<1>12. Noticed'
  <2>1. ASSUME NEW q \in Pmts, pmt'[q].cw = NoCw, ~pmt'[q].update, NEW j \in Fresh(q, pmt[q].parity)'
        PROVE  cws'[j].word # period[q]
    <3>1. q # p /\ pmt'[q] = pmt[q]
      BY <1>4, <2>1
    <3>2. j # i
      BY <1>5, <2>1, <3>1 DEF Fresh
    <3>3. cws'[j] = cws[j] /\ j \in Fresh(q, pmt[q].parity)
      BY <1>5, <2>1, <3>1, <3>2 DEF Fresh
    <3>4. QED
      BY <2>1, <3>1, <3>3 DEF Noticed
  <2>2. QED
    BY <1>1, <2>1 DEF Noticed
<1>13. QED
  BY <1>7, <1>9, <1>10, <1>11, <1>12

\* A program that goes takes its words along, and only those.
LEMMA ResetStep == ASSUME WordsInv, NEW p \in Pmts, Reset(p) PROVE WordsInv'
<1> USE DescramblingAssumption DEF WordsInv
<1> DEFINE S == {j \in Slots : Cleared(p)[j].enabled}
<1>1. /\ at # p /\ at' = at /\ cws' = Cleared(p) /\ ncws' = Max(S \union {0})
      /\ older' = {e \in older : cws'[e[1]].enabled /\ cws'[e[2]].enabled}
      /\ pmt' = [pmt EXCEPT ![p] = NewPmt]
      /\ ecm' = [ecm EXCEPT ![p].parity = NoParity]
      /\ period' = [period EXCEPT ![p] = @ + 2] /\ period[p] + 2 <= LastPeriod[p]
  BY DEF Reset
<1>2. cws' \in [Slots -> SlotType]
  <2>1. 0 \in Words
    BY DEF Words
  <2>2. \A j \in Slots : Cleared(p)[j] \in SlotType
    <3> SUFFICES ASSUME NEW j \in Slots PROVE Cleared(p)[j] \in SlotType
      OBVIOUS
    <3>1. cws[j] \in SlotType
      BY DEF TypeOK
    <3>2. [Unused EXCEPT !.made = TRUE, !.algo = cws[j].algo] \in SlotType
      BY <2>1, <3>1 DEF Unused, SlotType
    <3>3. QED
      BY <3>1, <3>2 DEF Cleared
  <2>3. QED
    BY <1>1, <2>2 DEF Cleared
<1>2a. ASSUME NEW j \in Slots, cws'[j].enabled \/ cws[j].pmt # p PROVE cws'[j] = cws[j] /\ cws[j].pmt # p
  <2>1. cws'[j] = IF cws[j].pmt = p THEN [Unused EXCEPT !.made = TRUE, !.algo = cws[j].algo] ELSE cws[j]
    BY <1>1 DEF Cleared
  <2>2. ~[Unused EXCEPT !.made = TRUE, !.algo = cws[j].algo].enabled
    BY DEF Unused
  <2>3. QED
    BY <1>2a, <2>1, <2>2
<1>3. /\ pmt' \in [Pmts -> PmtType] /\ pmt'[p] = NewPmt /\ \A q \in Pmts \ {p} : pmt'[q] = pmt[q]
      /\ \A q \in Pmts \ {p} : period'[q] = period[q]
  BY <1>1 DEF TypeOK, PmtType, NewPmt, NoParity, NoCw, NoBatch
<1>4. TypeOK'
  <2>1. S \in SUBSET Slots
    OBVIOUS
  <2>2. ncws' \in 0 .. MaxCw /\ \A j \in S : j <= ncws'
    <3> HIDE DEF S
    <3> QED BY <1>1, <2>1, LastEnabled
  <2>3. \A j \in Slots : cws'[j].enabled => cws'[j].made /\ cws'[j].pmt \in Pmts /\ j <= ncws'
    <3> SUFFICES ASSUME NEW j \in Slots, cws'[j].enabled
                 PROVE  cws'[j].made /\ cws'[j].pmt \in Pmts /\ j <= ncws'
      OBVIOUS
    <3>1. cws'[j] = cws[j] /\ j \in S
      BY <1>1, <1>2a
    <3>2. QED
      BY <2>2, <3>1 DEF TypeOK
  <2>4. period' \in [Pmts -> Nat] /\ \A q \in Pmts : period'[q] <= LastPeriod[q]
    BY <1>1 DEF TypeOK
  <2>5. ecm' \in [Pmts -> [parity : 0 .. 2, asked : SUBSET Words]]
    BY <1>1 DEF TypeOK, NoParity
  <2>6. Ordered'
    <3>1. Enabled' \subseteq Enabled /\ Enabled' = {j \in Slots : cws'[j].enabled} /\ Enabled \subseteq Slots
      BY <1>2a DEF Enabled
    <3>2. Ordered
      BY DEF TypeOK
    <3>3. older' = {e \in older : e[1] \in Enabled' /\ e[2] \in Enabled'}
      <4> DEFINE kept == Enabled'
      <4>1. older \subseteq Slots \X Slots
        BY <3>1, <3>2 DEF Ordered
      <4>2. \A j \in Slots : j \in kept <=> cws'[j].enabled
        BY <3>1
      <4> HIDE DEF kept
      <4>3. QED
        BY <1>1, <4>1, <4>2 DEF kept
    <3>4. QED
      BY <3>1, <3>2, <3>3, FewerOrdered
  <2>7. QED
    BY <1>1, <1>2, <1>3, <2>2, <2>3, <2>4, <2>5, <2>6 DEF TypeOK
<1>5. \A q \in Pmts \ {p} : Current(q)' = Current(q)
  BY <1>3 DEF Current
<1>6. ASSUME NEW q \in Pmts \ {p}, pmt[q].cw # NoCw PROVE cws'[pmt[q].cw] = cws[pmt[q].cw]
  <2>1. pmt[q].cw \in Slots
    BY <1>6 DEF TypeOK, PmtType
  <2>2. cws[pmt[q].cw].pmt = q
    BY <1>6 DEF Held
  <2>3. QED
    BY <1>2a, <2>1, <2>2
<1> USE DEF NewPmt
<1>7. Held' /\ Follows'
  BY <1>1, <1>3, <1>5, <1>6 DEF Held, Follows
<1>8. BatchIsCurrent' /\ CheckedIsRight'
  BY <1>1, <1>3, <1>5, <1>6 DEF BatchIsCurrent, CheckedIsRight, Checked
<1>9. OwnWord' /\ NoGarbage'
  BY <1>1, <1>3, <1>6 DEF OwnWord, NoGarbage
<1>10. Noticed'
  <2>1. ASSUME NEW q \in Pmts \ {p}, NEW j \in Fresh(q, pmt[q].parity)'
        PROVE  j \in Fresh(q, pmt[q].parity) /\ cws'[j] = cws[j]
    <3>1. j \in Slots /\ cws'[j].enabled
      BY DEF Fresh
    <3>2. cws'[j] = cws[j]
      BY <1>2a, <3>1
    <3>3. QED
      BY <1>3, <3>2 DEF Fresh
  <2>2. QED
    BY <1>3, <2>1 DEF Noticed
<1>11. QED
  BY <1>4, <1>7, <1>8, <1>9, <1>10

-----------------------------------------------------------------------------
(* The newest word *)

StaysNewest(p) == StillUsed(p) => pmt[p].cw \in Newest(Fresh(p, pmt[p].parity))'

\* What makes no word enabled and no time other leaves the newest the newest.
LEMMA NewestOfFewer ==
    ASSUME NEW p \in Pmts, StillUsed(p),
           \A j \in Fresh(p, pmt[p].parity)' : j = pmt[p].cw \/ <<j, pmt[p].cw>> \in older'
    PROVE  pmt[p].cw \in Newest(Fresh(p, pmt[p].parity))'
<1>1. pmt'[p].cw = pmt[p].cw /\ pmt[p].cw \in Fresh(p, pmt[p].parity)'
  BY DEF StillUsed
<1>2. QED
  BY <1>1 DEF Newest

LEMMA NewestOfSame ==
    ASSUME NEW p \in Pmts, StillUsed(p), older' = older,
           \A j \in Slots : cws'[j] = cws[j] \/ (cws'[j].expired /\ cws[j].enabled)
    PROVE  pmt[p].cw \in Newest(Fresh(p, pmt[p].parity))'
<1>1. ASSUME NEW j \in Fresh(p, pmt[p].parity)' PROVE j \in Fresh(p, pmt[p].parity)
  BY DEF StillUsed, Fresh
<1>2. QED
  BY <1>1, NewestOfFewer DEF StillUsed, Newest

LEMMA NewestSetDescr ==
    ASSUME TypeOK, NEW q \in Pmts, NEW w \in Words, SetDescr(q, w), NEW p \in Pmts, StillUsed(p)
    PROVE  pmt[p].cw \in Newest(Fresh(p, pmt[p].parity))'
<1> DEFINE free == {j \in Slots : Takes(j, q)}
           i == CHOOSE j \in free : \A k \in free : j <= k
           d == [made |-> TRUE, enabled |-> TRUE, pmt |-> q, word |-> w, algo |-> Algo[q], expired |-> FALSE]
           c == pmt[p].cw
<1>1. free # {} /\ cws' = [cws EXCEPT ![i] = d] /\ \E before \in Before(i, q, w) : older' = Timed(i, before)
  BY DEF SetDescr, send_cw
<1>2. i \in Slots /\ Takes(i, q)
  <2>1. free \in SUBSET Slots
    OBVIOUS
  <2>2. i \in free
    <3> HIDE DEF free
    <3> QED BY <1>1, <2>1, FirstIsOne
  <2>3. QED
    BY <2>2
<1> HIDE DEF i
<1>3. PICK before \in Before(i, q, w) : older' = Timed(i, before)
  BY <1>1
<1>4. cws'[i] = d /\ \A j \in Slots \ {i} : cws'[j] = cws[j]
  BY <1>1, <1>2 DEF TypeOK
<1> HIDE DEF d
<1>5. /\ c \in Slots /\ cws[c].enabled /\ cws[c].pmt = p /\ cws[c].made
      /\ Checked(p) /\ c \in Newest(Fresh(p, pmt[p].parity)) /\ pmt'[p].parity = pmt[p].parity
  <2>1. /\ c \in Slots /\ cws[c].enabled /\ cws[c].pmt = p
        /\ Checked(p) /\ c \in Newest(Fresh(p, pmt[p].parity)) /\ pmt'[p].parity = pmt[p].parity
    BY DEF StillUsed, Fresh, Newest
  <2> HIDE DEF c
  <2>2. cws[c].made
    BY <2>1 DEF TypeOK
  <2>3. QED
    BY <2>1, <2>2
<1>6. c # i
  BY <1>2, <1>5 DEF Takes, cw_in_use
<1>7. ASSUME NEW j \in Fresh(p, pmt[p].parity)', j # c, j # i
      PROVE  <<j, c>> \in older'
  <2>1. j \in Slots /\ cws'[j] = cws[j]
    BY <1>4, <1>7 DEF Fresh
  <2>2. j \in Fresh(p, pmt[p].parity)
    BY <1>5, <2>1 DEF Fresh
  <2>3. <<j, c>> \in older
    BY <1>5, <1>7, <2>2 DEF Newest
  <2>4. QED
    BY <1>3, <1>6, <1>7, <2>3 DEF Timed
<1>8. ASSUME i \in Fresh(p, pmt[p].parity)'
      PROVE  <<i, c>> \in older'
  <2>1. q = p /\ Parity(w) = pmt[p].parity
    BY <1>4, <1>5, <1>8 DEF Fresh, d
  <2>2. c \notin before
    BY <1>3, <1>5, <2>1 DEF Before
  <2>3. c \in Enabled
    BY <1>5 DEF Enabled
  <2>4. QED
    BY <1>3, <1>6, <2>2, <2>3 DEF Timed
<1>9. QED
  BY <1>7, <1>8, NewestOfFewer

LEMMA NewestReset ==
    ASSUME TypeOK, NEW q \in Pmts, Reset(q), NEW p \in Pmts, StillUsed(p)
    PROVE  pmt[p].cw \in Newest(Fresh(p, pmt[p].parity))'
<1> DEFINE c == pmt[p].cw
<1>1. /\ cws' = Cleared(q) /\ pmt' = [pmt EXCEPT ![q] = NewPmt]
      /\ older' = {e \in older : cws'[e[1]].enabled /\ cws'[e[2]].enabled}
  BY DEF Reset
<1>2. /\ c \in Newest(Fresh(p, pmt[p].parity)) /\ pmt'[p].parity = pmt[p].parity
      /\ c \in Slots /\ cws'[c].enabled
  BY DEF StillUsed, Fresh
<1>3. \A j \in Slots : cws'[j].enabled => cws'[j] = cws[j]
  <2>1. \A j \in Slots :
          cws'[j] = IF cws[j].pmt = q THEN [Unused EXCEPT !.made = TRUE, !.algo = cws[j].algo] ELSE cws[j]
    BY <1>1 DEF Cleared
  <2>2. \A j \in Slots : ~[Unused EXCEPT !.made = TRUE, !.algo = cws[j].algo].enabled
    BY DEF Unused
  <2>3. QED
    BY <2>1, <2>2
<1>4. ASSUME NEW j \in Fresh(p, pmt[p].parity)', j # c
      PROVE  <<j, c>> \in older'
  <2>1. j \in Slots /\ cws'[j].enabled
    BY DEF Fresh
  <2>2. j \in Fresh(p, pmt[p].parity)
    BY <1>2, <1>3, <2>1 DEF Fresh
  <2>3. <<j, c>> \in older
    BY <1>2, <1>4, <2>2 DEF Newest
  <2>4. QED
    BY <1>1, <1>2, <2>1, <2>3
<1>5. QED
  BY <1>4, NewestOfFewer

LEMMA NewestStays == ASSUME TypeOK, Next, NEW p \in Pmts PROVE StaysNewest(p)
<1> SUFFICES ASSUME StillUsed(p) PROVE pmt[p].cw \in Newest(Fresh(p, pmt[p].parity))'
  BY DEF StaysNewest
<1>1. ASSUME NEW q \in Pmts, NEW w \in Words, SetDescr(q, w) PROVE pmt[p].cw \in Newest(Fresh(p, pmt[p].parity))'
  BY <1>1, NewestSetDescr
<1>2. ASSUME NEW q \in Pmts, Reset(q) PROVE pmt[p].cw \in Newest(Fresh(p, pmt[p].parity))'
  BY <1>2, NewestReset
<1>3. ASSUME NEW i \in Slots, Expire(i) PROVE pmt[p].cw \in Newest(Fresh(p, pmt[p].parity))'
  <2>1. cws[i].enabled /\ cws' = [cws EXCEPT ![i].expired = TRUE] /\ older' = older
    BY <1>3 DEF Expire
  <2>2. \A j \in Slots : cws'[j] = cws[j] \/ (cws'[j].expired /\ cws[j].enabled)
    BY <2>1 DEF TypeOK, SlotType
  <2>3. QED
    BY <2>1, <2>2, NewestOfSame
<1>4. ASSUME cws' = cws, older' = older PROVE pmt[p].cw \in Newest(Fresh(p, pmt[p].parity))'
  BY <1>4, NewestOfSame
<1>5. ASSUME NEW q \in Pmts,
             \/ NextPeriod(q) \/ (\E pusi \in BOOLEAN : Packet(q, pusi)) \/ Search(q)
             \/ Apply(q) \/ disable_cw(q) \/ send_ecm(q)
      PROVE  cws' = cws /\ older' = older
  BY <1>5 DEF NextPeriod, Packet, Search, Apply, disable_cw, send_ecm
<1>6. QED
  BY <1>1, <1>2, <1>3, <1>4, <1>5 DEF Next

-----------------------------------------------------------------------------
(* The theorems *)

\* In every reachable state the table of words, what each program holds of it and the batches agree.
THEOREM WordsInvariant == Spec => []WordsInv
<1>1. Init => WordsInv
  BY WordsInit
<1>2. WordsInv /\ [Next]_vars => WordsInv'
  <2> SUFFICES ASSUME WordsInv, [Next]_vars PROVE WordsInv'
    OBVIOUS
  <2>1. CASE Next
    BY <2>1, SetDescrStep, ResetStep, NextPeriodStep, PacketStep, SearchStep, ApplyStep, disable_cwStep,
       send_ecmStep, ExpireStep DEF Next
  <2>2. CASE UNCHANGED vars
    <3> USE <2>2 DEF WordsInv, vars
    <3>1. TypeOK'
      BY DEF TypeOK, Ordered, Enabled
    <3>2. Held' /\ Follows' /\ BatchIsCurrent' /\ CheckedIsRight'
      BY DEF Held, Follows, BatchIsCurrent, CheckedIsRight, Checked, Current
    <3>3. OwnWord' /\ NoGarbage' /\ Noticed'
      BY DEF OwnWord, NoGarbage, Noticed, Fresh
    <3>4. QED
      BY <3>1, <3>2, <3>3
  <2>3. QED
    BY <2>1, <2>2
<1>3. QED
  BY <1>1, <1>2, PTL DEF Spec

\* No slot, parity, period or batch is out of range, and every word in use is within the part of the table that is
\* searched.
THEOREM WordsTypeCorrect == Spec => []TypeOK
  BY WordsInvariant, PTL DEF WordsInv

\* decrypt_batch works with a slot of its own program and parity from the search to the end: send_cw, the expiry and
\* the removal of other programs never take it away.
THEOREM WordsOwn == Spec => []OwnWord
  BY WordsInvariant, PTL DEF WordsInv

\* A batch whose word can be seen, or that follows a checked one, is decrypted with the word of its period or not at
\* all.
THEOREM WordsNoGarbage == Spec => []NoGarbage
  BY WordsInvariant, PTL DEF WordsInv

\* A program that gave up its search is told of every word that could help it.
THEOREM WordsNoticed == Spec => []Noticed
  BY WordsInvariant, PTL DEF WordsInv
\* A checked word that is the newest stays so whatever words come or go: a second word of the current parity is
\* given a time before it, one of the other parity or of another program is not compared with it.
THEOREM WordsLateOlder == Spec => LateWordsOlder
<1>1. TypeOK /\ [Next]_vars => [\A p \in Pmts : StaysNewest(p)]_vars
  BY NewestStays
<1>2. QED
  BY <1>1, WordsTypeCorrect, PTL DEF Spec, LateWordsOlder, StaysNewest
=============================================================================
