---------------------------- MODULE Descrambling ----------------------------
(***************************************************************************)
(* Control words and the decryption of a program's packets (pmt.cpp), with *)
(* the ECMs that ask for the words and the message that brings them        *)
(* (dvbapi.cpp).                                                           *)
(*                                                                         *)
(* A broadcaster scrambles a program with one word after the other.  The   *)
(* words of a program are numbered by the period they are used in; the     *)
(* parity of the number is in the header of each packet.  The adapter's    *)
(* thread gathers a program's packets of one parity (Packet) and decrypts  *)
(* them as a batch: update_cw looks for a word in the table under          *)
(* cws_mutex (Search), the batch is decrypted without it (Apply).  On      *)
(* another thread send_cw puts words into the table.  A batch that has the *)
(* first packet of a PES (`pusi`) shows which word is the right one; for   *)
(* one without, the newest is taken.                                       *)
(*                                                                         *)
(* The times of the words are an order, `older`, of the enabled slots;     *)
(* that the expiry of a word is over (45 s, or 10 s once another was       *)
(* checked) is the step Expire.  A program is received without a gap of a whole period.  The    *)
(* periods of a new program with the id and key of a removed one follow    *)
(* the periods of that, whose words may come late.                         *)
(*                                                                         *)
(* Left out: the ciphers, initialisation vectors, ICAM; the words of a     *)
(* CAM, which come through the same send_cw; that read_dmx waits a little  *)
(* for a packet with `pusi` after a change of parity.                      *)
(***************************************************************************)
EXTENDS Integers, FiniteSets, FiniteSetsExt

CONSTANTS Pmts,        \* the programs, all of one adapter
          Algo,        \* program -> the algorithm of its words
          MaxCw,       \* MAX_CW
          LastPeriod   \* bound: program -> its last period

ASSUME DescramblingAssumption ==
    /\ Pmts # {} /\ 0 \notin Pmts
    /\ MaxCw \in Nat \ {0} /\ LastPeriod \in [Pmts -> Nat]

NoCw == 0
NoParity == 2
Slots == 1 .. MaxCw
Parity(w) == w % 2
Words == UNION {0 .. LastPeriod[p] : p \in Pmts}
NoBatch == [word |-> -1, pusi |-> FALSE]

VARIABLES cws,     \* slot -> [made, enabled, pmt, word, algo, expired], the table of control words
          ncws,    \* the table is searched up to this slot
          older,   \* the pairs <<i, j>> of enabled slots such that the word in i is of an earlier time than that in j
          pmt,     \* program -> [parity, cw, update, batch]
          period,  \* program -> the period of its packets
          ecm,     \* program -> [parity, asked]: parity of the last ECM sent, words the server may send
          at       \* the program whose batch the adapter's thread decrypts, 0: none

vars == <<cws, ncws, older, pmt, period, ecm, at>>

Unused == [made |-> FALSE, enabled |-> FALSE, pmt |-> 0, word |-> 0, algo |-> 0, expired |-> FALSE]
\* pmt_add
NewPmt == [parity |-> NoParity, cw |-> NoCw, update |-> TRUE, batch |-> NoBatch]

Init ==
    /\ cws = [i \in Slots |-> Unused] /\ ncws = 0 /\ older = {}
    /\ pmt = [p \in Pmts |-> NewPmt]
    /\ period = [p \in Pmts |-> 0]
    /\ ecm = [p \in Pmts |-> [parity |-> NoParity, asked |-> {}]]
    /\ at = 0

-----------------------------------------------------------------------------
(* The table of words *)

Fresh(p, q) == {i \in Slots : /\ cws[i].enabled /\ cws[i].pmt = p /\ Parity(cws[i].word) = q
                              /\ ~cws[i].expired}

\* a faulty variant: a program's word is reused once it has expired
in_use_never(i) == FALSE

\* an expired word may still decrypt
cw_in_use(i) == cws[i].enabled /\ pmt[cws[i].pmt].cw = i

\* the slots that can take a word of program p
Takes(i, p) == \/ ~cws[i].made
               \/ cws[i].algo = Algo[p] /\ ~cw_in_use(i) /\ (~cws[i].enabled \/ cws[i].expired)

Checked(p) == pmt[p].cw # NoCw /\ ~pmt[p].update

Enabled == {i \in Slots : cws[i].enabled}

\* a faulty variant: the newest is always the one that came last
BeforeLast(i, p, w) == {Enabled \ {i}}

\* the slots whose words may be of an earlier time than the new one in slot i: a second one of the current parity,
\* while a checked word is in use, counts as older than that
Before(i, p, w) ==
    LET others == Enabled \ {i} IN
    IF Checked(p) /\ Parity(w) = pmt[p].parity
    THEN {before \in SUBSET (others \ {pmt[p].cw}) :
             \A j \in before, k \in others : <<k, j>> \in older => k \in before}
    ELSE {others}

\* the word in slot i is a new one, with these before it
Timed(i, before) == {e \in older : i \notin {e[1], e[2]}} \union (before \X {i})
                    \union ({i} \X (Enabled \ (before \union {i})))

\* a faulty variant: a program that searched in vain is not told
send_cwQuiet(p, w) ==
    LET free == {i \in Slots : Takes(i, p)}
        i == CHOOSE j \in free : \A k \in free : j <= k IN
    /\ free # {} /\ \A j \in Fresh(p, Parity(w)) : cws[j].word # w
    /\ cws' = [cws EXCEPT ![i] = [made |-> TRUE, enabled |-> TRUE, pmt |-> p, word |-> w, algo |-> Algo[p],
                                  expired |-> FALSE]]
    /\ \E before \in Before(i, p, w) : older' = Timed(i, before)
    /\ ncws' = IF i > ncws THEN i ELSE ncws
    /\ UNCHANGED pmt

\* a word that is there already changes nothing, and one for which there is no slot is lost
send_cw(p, w) ==
    LET dup == \E i \in Fresh(p, Parity(w)) : cws[i].word = w
        free == {i \in Slots : Takes(i, p)}
        i == CHOOSE j \in free : \A k \in free : j <= k IN
    /\ ~dup /\ free # {}
    /\ cws' = [cws EXCEPT ![i] = [made |-> TRUE, enabled |-> TRUE, pmt |-> p, word |-> w, algo |-> Algo[p],
                                  expired |-> FALSE]]
    /\ \E before \in Before(i, p, w) : older' = Timed(i, before)
    /\ pmt' = [pmt EXCEPT ![p].update = @ \/ pmt[p].cw = NoCw]
    /\ ncws' = IF i > ncws THEN i ELSE ncws

\* CA_SET_DESCR: the answer to an ECM, at once or late, never or again
SetDescr(p, w) ==
    /\ w \in ecm[p].asked
    /\ send_cw(p, w)
    /\ UNCHANGED <<period, ecm, at>>

Expire(i) ==
    /\ cws[i].enabled /\ ~cws[i].expired
    /\ cws' = [cws EXCEPT ![i].expired = TRUE]
    /\ UNCHANGED <<ncws, older, pmt, period, ecm, at>>

\* clear_cw_for_pmt, for both parities
Cleared(p) == [i \in Slots |-> IF cws[i].pmt = p THEN [Unused EXCEPT !.made = TRUE, !.algo = cws[i].algo] ELSE cws[i]]

\* pmt_del and pmt_add: the same id and key serve another program
Reset(p) ==
    /\ at # p /\ period[p] + 2 <= LastPeriod[p]
    /\ cws' = Cleared(p)
    /\ older' = {e \in older : Cleared(p)[e[1]].enabled /\ Cleared(p)[e[2]].enabled}
    /\ ncws' = Max({i \in Slots : Cleared(p)[i].enabled} \union {0})
    /\ pmt' = [pmt EXCEPT ![p] = NewPmt]
    /\ ecm' = [ecm EXCEPT ![p].parity = NoParity]
    /\ period' = [period EXCEPT ![p] = @ + 2]
    /\ UNCHANGED at

-----------------------------------------------------------------------------
(* The stream *)

\* the packets that follow are of the next word
NextPeriod(p) ==
    /\ period[p] < LastPeriod[p] /\ pmt[p].parity = Parity(period[p])
    /\ period' = [period EXCEPT ![p] = @ + 1]
    /\ UNCHANGED <<cws, ncws, older, pmt, ecm, at>>

\* a faulty variant: the change of parity is not noticed
PacketQuiet(p, pusi) ==
    /\ at = 0
    /\ pmt[p].batch \in {NoBatch, [word |-> period[p], pusi |-> FALSE]}
    /\ pmt' = [pmt EXCEPT ![p].parity = Parity(period[p]), ![p].batch = [word |-> period[p], pusi |-> pusi]]
    /\ UNCHANGED <<cws, ncws, older, period, ecm, at>>

\* pmt_decrypt_stream: a scrambled packet of p joins the batch; at a change of parity the batch before was decrypted
Packet(p, pusi) ==
    LET s == pmt[p]
        cp == Parity(period[p])
        changed == s.parity \notin {NoParity, cp} IN
    /\ at = 0
    /\ s.batch \in {NoBatch, [word |-> period[p], pusi |-> FALSE]}
    /\ pmt' = [pmt EXCEPT ![p].parity = cp, ![p].update = @ \/ changed,
                          ![p].batch = [word |-> period[p], pusi |-> pusi]]
    /\ UNCHANGED <<cws, ncws, older, period, ecm, at>>

\* the slots update_cw may find: one that decrypts, or the newest when that cannot be seen
Candidates(p) == {i \in Fresh(p, pmt[p].parity) : i <= ncws}
Newest(s) == {i \in s : \A j \in s : j = i \/ <<j, i>> \in older}
Found(p) ==
    LET fits == {i \in Candidates(p) : cws[i].word = pmt[p].batch.word}
        from == IF pmt[p].batch.pusi THEN fits ELSE Candidates(p) IN
    IF from = {} THEN {NoCw} ELSE Newest(from)

\* decrypt_batch up to the word, with update_cw
Search(p) ==
    LET s == pmt[p]
        looks == s.update \/ (s.cw = NoCw /\ s.batch.pusi) IN
    /\ at = 0 /\ s.batch # NoBatch
    /\ IF looks
       THEN \E i \in Found(p) : pmt' = [pmt EXCEPT ![p].cw = i, ![p].update = ~s.batch.pusi]
       ELSE pmt' = pmt
    /\ at' = p
    /\ UNCHANGED <<cws, ncws, older, period, ecm>>

\* decrypt_batch: the batch is decrypted, or stays scrambled without a word
Apply(p) ==
    /\ at = p
    /\ pmt' = [pmt EXCEPT ![p].batch = NoBatch]
    /\ at' = 0
    /\ UNCHANGED <<cws, ncws, older, period, ecm>>

\* disable_cw: the program was sent to a CAM again, or the CAM has a new key
disable_cw(p) ==
    /\ ~pmt[p].update
    /\ pmt' = [pmt EXCEPT ![p].update = TRUE]
    /\ UNCHANGED <<cws, ncws, older, period, ecm, at>>

-----------------------------------------------------------------------------
(* The ECMs *)

\* an ECM has the word in use and the next one; one of a parity already sent is repeated while there is no word
send_ecm(p) ==
    /\ Parity(period[p]) # ecm[p].parity \/ pmt[p].cw = NoCw
    /\ ecm' = [ecm EXCEPT ![p] = [parity |-> Parity(period[p]),
                                 asked |-> @.asked \union {w \in {period[p], period[p] + 1} : w <= LastPeriod[p]}]]
    /\ UNCHANGED <<cws, ncws, older, pmt, period, at>>

-----------------------------------------------------------------------------
Next ==
    \/ \E p \in Pmts :
        \/ \E w \in Words : SetDescr(p, w)
        \/ Reset(p) \/ NextPeriod(p)
        \/ \E pusi \in BOOLEAN : Packet(p, pusi)
        \/ Search(p) \/ Apply(p) \/ disable_cw(p)
        \/ send_ecm(p)
    \/ \E i \in Slots : Expire(i)

Spec == Init /\ [][Next]_vars

-----------------------------------------------------------------------------
(* Properties *)

SlotType == [made : BOOLEAN, enabled : BOOLEAN, pmt : Pmts \union {0}, word : Words,
             algo : {Algo[p] : p \in Pmts} \union {0}, expired : BOOLEAN]
PmtType == [parity : 0 .. 2, cw : Slots \union {NoCw}, update : BOOLEAN,
            batch : [word : Words \union {-1}, pusi : BOOLEAN]]

Ordered ==
    /\ older \subseteq Enabled \X Enabled
    /\ \A i, j \in Enabled : <<i, j>> \in older <=> i # j /\ <<j, i>> \notin older
    /\ \A i, j, k \in Enabled : <<i, j>> \in older /\ <<j, k>> \in older => <<i, k>> \in older

\* The state has its type, no enabled word is beyond ncws, and the times of the enabled words are an order.
TypeOK ==
    /\ cws \in [Slots -> SlotType]
    /\ ncws \in 0 .. MaxCw
    /\ pmt \in [Pmts -> PmtType]
    /\ period \in [Pmts -> Nat] /\ \A p \in Pmts : period[p] <= LastPeriod[p]
    /\ ecm \in [Pmts -> [parity : 0 .. 2, asked : SUBSET Words]]
    /\ at \in Pmts \union {0}
    /\ Ordered
    /\ \A i \in Slots : cws[i].enabled => cws[i].made /\ cws[i].pmt \in Pmts /\ i <= ncws

\* The slot a batch is decrypted with is, from the search to the end, one of the program and of the parity of the
\* batch: send_cw on the other thread does not reuse a slot that has expired while it is in use, and pmt_del drops
\* the words with the program.
OwnWord ==
    \A p \in Pmts : at = p /\ pmt[p].cw # NoCw =>
        LET c == cws[pmt[p].cw] IN c.enabled /\ c.pmt = p /\ Parity(c.word) = Parity(pmt[p].batch.word)

\* A batch that shows which word is right, or that counts for last_decrypt_ok, is decrypted with the right word or
\* left scrambled: late words, words of an earlier program and expired ones never garble it.
NoGarbage ==
    \A p \in Pmts : at = p /\ pmt[p].cw # NoCw /\ (pmt[p].batch.pusi \/ ~pmt[p].update) =>
        cws[pmt[p].cw].word = pmt[p].batch.word

\* A program without a word looks for one at its next batch, whatever that shows, as soon as the right one is there:
\* a word that comes after the search for it failed is not missed.
Noticed ==
    \A p \in Pmts : pmt[p].cw = NoCw /\ ~pmt[p].update =>
        \A i \in Fresh(p, pmt[p].parity) : cws[i].word # period[p]

\* the step leaves the checked word in use, which is the newest of its parity
StillUsed(p) == LET c == pmt[p].cw IN
    /\ Checked(p) /\ Checked(p)' /\ pmt'[p].cw = c /\ pmt'[p].parity = pmt[p].parity
    /\ c \in Fresh(p, pmt[p].parity)' /\ c \in Newest(Fresh(p, pmt[p].parity))

\* While a checked word that is also the newest is in use, no word that comes makes it less than the newest: a
\* search that cannot see which is right (the program was sent to the CAM again) finds it once more.
LateWordsOlder ==
    [][\A p \in Pmts : StillUsed(p) => pmt[p].cw \in Newest(Fresh(p, pmt[p].parity))']_vars
=============================================================================
