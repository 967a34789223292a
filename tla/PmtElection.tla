---------------------------- MODULE PmtElection ----------------------------
(***************************************************************************)
(* Which programs (PMTs) of an adapter run, and which program owns which   *)
(* pid (pmt.cpp).  A transponder may carry several PMTs that share pids;   *)
(* each pid is claimed by at most one of them, and packets of the pid are  *)
(* descrambled with the CWs of the claimant.  The election is run after    *)
(* every change of the pids and in every pass of the demux; PATs and PMTs  *)
(* arrive in between, add and retire programs and change their streams.    *)
(*                                                                         *)
(* One adapter that is not a CI one.  Its pid table, PMT list and claims   *)
(* are changed with the adapter's mutex held, so each handler is one step. *)
(* The order in which clients subscribed is kept as a rank: only           *)
(* comparisons of it matter.  PMT_STARTING and PMT_STOPPING only exist     *)
(* within a handler.                                                       *)
(***************************************************************************)
EXTENDS Integers, Sequences, FiniteSets, SequencesExt, Functions

CONSTANTS
    Pmts,     \* the programs, 1 .. n
    Streams,  \* the pids of streams and ECMs
    Layouts   \* program -> the layouts its versions of the PMT may have

\* a layout: audio and video pids, other stream pids, ECM pids (none: free to air)
ASSUME ElectionAssumption ==
    /\ Pmts = 1 .. Cardinality(Pmts) /\ Streams \subseteq Nat /\ Streams \intersect Pmts = {}
    /\ \A m \in Pmts : \A l \in Layouts[m] : l.av # {} /\ (l.av \union l.data \union l.ecm) \subseteq Streams

VARIABLES
    pids,    \* pid -> state in the table, subscribed by a client, rank of the subscription, claimant
    pmt,     \* program -> state, layout, registered at the CA, CA told of the current layout
    list,    \* ad->active_pmt
    pat,     \* the programs of the last PAT: their PMT filters exist
    passed   \* the last step was a pass of the election

vars == <<pids, pmt, list, pat, passed>>

NoPmt == 0
Unordered == Cardinality(Pmts) + 1             \* UINT32_MAX: not subscribed
NoLayout == [av |-> {}, data |-> {}, ecm |-> {}]
PmtPid(m) == m                                 \* pmt->pid
Pids == Streams \union {PmtPid(m) : m \in Pmts}
NoPid == [flags |-> "none", sub |-> FALSE, order |-> Unordered, pmt |-> NoPmt]
NewPmt == [state |-> "unknown", layout |-> NoLayout, reg |-> FALSE]

Init ==
    /\ pids = [p \in Pids |-> NoPid]
    /\ pmt = [m \in Pmts |-> NewPmt]
    /\ list = <<>> /\ pat = {} /\ passed = FALSE

\* The operators below work on the adapter's state as one record.
Adapter == [pids |-> pids, pmt |-> pmt, list |-> list]
Becomes(s) == pids' = s.pids /\ pmt' = s.pmt /\ list' = s.list

StreamsOf(l) == l.av \union l.data
Running(s, m) == s.pmt[m].state = "running"

(***************************************************************************)
(* Subscriptions                                                           *)
(***************************************************************************)
\* ranks stay dense: the one that leaves closes its gap
Ranked(ps) ==
    LET used == {ps[PmtPid(m)].order : m \in Pmts} \ {Unordered}
        rank(o) == IF o = Unordered THEN o ELSE Cardinality({u \in used : u <= o})
    IN  [p \in Pids |-> [ps[p] EXCEPT !.order = rank(@)]]

\* next_pid_order: after every rank in use
NextOrder == Cardinality({m \in Pmts : pids[PmtPid(m)].order # Unordered}) + 1
IsPmtPid(p) == p \notin Streams

\* mark_pid_add by the first client of a pid
Subscribe(p) ==
    /\ ~pids[p].sub
    /\ pids' = [pids EXCEPT ![p] =
                   [@ EXCEPT !.sub = TRUE, !.order = IF IsPmtPid(p) THEN NextOrder ELSE @,
                             !.flags = IF @ \in {"none", "deleted"} THEN "new" ELSE @]]
    /\ passed' = FALSE /\ UNCHANGED <<pmt, list, pat>>

\* mark_pid_deleted by the last client of a pid; a filter with ADD_REMOVE keeps the
\* pid of a PMT in the table
Unsubscribe(p) ==
    /\ pids[p].sub
    /\ \E keep \in {FALSE, IsPmtPid(p)} :
           pids' = Ranked([pids EXCEPT ![p].sub = FALSE, ![p].order = Unordered,
                                       ![p].flags = IF keep THEN @ ELSE "deleted"])
    /\ passed' = FALSE /\ UNCHANGED <<pmt, list, pat>>

(***************************************************************************)
(* Stop, release                                                           *)
(***************************************************************************)
\* release_pmt_claims
Released(s, m) == [s EXCEPT !.pids = [p \in Pids |-> IF @[p].pmt = m THEN [@[p] EXCEPT !.pmt = NoPmt] ELSE @[p]]]

\* stop_pmt, with close_pmt_for_cas
StopPmt(s, m) ==
    IF s.pmt[m].state = "stopped" THEN s ELSE [s EXCEPT !.pmt[m].state = "stopped", !.pmt[m].reg = FALSE]

StoppedAndReleased(s, m) == Released(StopPmt(s, m), m)
StoppedAll(s, ms) == FoldSet(LAMBDA m, t : StoppedAndReleased(t, m), s, ms)

(***************************************************************************)
(* The election                                                            *)
(***************************************************************************)
InTable(s, p) == s.pids[p].flags # "none"                              \* find_pid
Live(s, p) == s.pids[p].flags = "active" /\ s.pids[p].sub              \* pid_subscribed, in the snapshot

\* pmt_completeness_pct: a stream pid that is an ECM pid too counts twice
Completeness(s, m) ==
    LET l == s.pmt[m].layout
        within(ps) == Cardinality(StreamsOf(l) \cap ps) + Cardinality(l.ecm \cap ps)
    IN  IF within(Pids) = 0 THEN 0 ELSE (within({p \in Pids : Live(s, p)}) * 100) \div within(Pids)

\* the order of a program is that of its PMT pid, when that pid is active
Order(s, m) == IF s.pids[PmtPid(m)].flags = "active" THEN s.pids[PmtPid(m)].order ELSE Unordered

\* choice_outranks
Outranks(o, c, ro, rc) == IF o # ro THEN o < ro ELSE c > rc
Beats(s, m, h) == Outranks(Order(s, m), Completeness(s, m), Order(s, h), Completeness(s, h))

\* a faulty variant: the own pid is asked of the programs that run
IsCandidateNegated(s, m) ==
    /\ ~Running(s, m) \/ Live(s, PmtPid(m))
    /\ \E p \in s.pmt[m].layout.av : Live(s, p)
\* is_start_candidate
IsCandidate(s, m) ==
    /\ Running(s, m) \/ Live(s, PmtPid(m))
    /\ \E p \in s.pmt[m].layout.av : Live(s, p)

\* stable_sort of the candidates by rank
Candidates(s) ==
    LET c == SelectSeq(s.list, LAMBDA m : IsCandidate(s, m))
        before(i, j) == Beats(s, c[i], c[j]) \/ (~Beats(s, c[j], c[i]) /\ i < j)
        sorted == SortSeq([i \in DOMAIN c |-> i], before)
    IN  [i \in DOMAIN c |-> c[sorted[i]]]

\* each candidate with the streams and CA descriptors of an earlier one is dropped
\* (same_stream_pids, best)
Elected(s) ==
    LET c == Candidates(s)
        first(i) == \A j \in 1 .. i - 1 : s.pmt[c[j]].layout # s.pmt[c[i]].layout
    IN  [k \in 1 .. Cardinality({i \in DOMAIN c : first(i)}) |->
            c[CHOOSE i \in DOMAIN c : first(i) /\ Cardinality({j \in 1 .. i : first(j)}) = k]]

\* a faulty variant: a claim that is held is never taken over
MayClaimFree(s, m, p) == Live(s, p) /\ s.pids[p].pmt = NoPmt
\* a program takes the live pids that are free or held by one it beats
MayClaim(s, m, p) ==
    LET h == s.pids[p].pmt
    IN  Live(s, p) /\ h # m /\ (h # NoPmt => Beats(s, m, h))
Claimed(s, m) ==
    [s EXCEPT !.pids = [p \in Pids |-> IF p \in StreamsOf(s.pmt[m].layout) /\ MayClaim(s, m, p)
                                       THEN [@[p] EXCEPT !.pmt = m] ELSE @[p]]]

\* holds_av_claim
HoldsAv(s, m) == \E p \in s.pmt[m].layout.av : Live(s, p) /\ s.pids[p].pmt = m

\* claim, then start, or stop when no audio or video is left to it
ClaimedAndStarted(s, m) ==
    LET c == Claimed(s, m)
    IN  IF HoldsAv(c, m) THEN [c EXCEPT !.pmt[m].state = "running"]
        ELSE IF Running(c, m) THEN StoppedAndReleased(c, m)
        ELSE c

\* pmt_pid_updated_pids
Election(s) ==
    LET e == Elected(s)
        losers == {m \in ToSet(s.list) : Running(s, m) /\ m \notin ToSet(e)}
    IN  FoldLeft(ClaimedAndStarted, StoppedAll(s, losers), e)

(***************************************************************************)
(* Handlers                                                                *)
(***************************************************************************)
\* has_live_av: new pids count
HasLiveAv(s, m) == \E q \in s.pmt[m].layout.av : s.pids[q].flags \in {"active", "new"} /\ s.pids[q].sub
\* pmt_pid_del: a program whose own pid goes stays while audio or video does; the
\* claimant of the pid stops when none of its other streams is in the table
PidDel(s, p) ==
    LET own == {m \in ToSet(s.list) : PmtPid(m) = p /\ Running(s, m) /\ ~HasLiveAv(s, m)}
        t == StoppedAll(s, own)
        h == t.pids[p].pmt
    IN  IF h = NoPmt \/ \E q \in StreamsOf(t.pmt[h].layout) \ {p} : t.pids[q].flags \in {"active", "new"}
        THEN t ELSE StoppedAndReleased(t, h)

\* update_pids: the pids marked deleted and new, then the election
Updated(s) ==
    LET gone == {p \in Pids : s.pids[p].flags = "deleted"}
        t == FoldLeft(PidDel, s, SetToSeq(gone))
    IN  Election([t EXCEPT !.pids = [p \in Pids |->
            IF p \in gone THEN NoPid
            ELSE IF @[p].flags = "new" THEN [@[p] EXCEPT !.flags = "active"] ELSE @[p]]])

UpdatePids ==
    /\ Becomes(Updated(Adapter))
    /\ passed' = TRUE /\ UNCHANGED pat

\* pmt_add_active_pmt
Activated(s, m) ==
    IF m \in ToSet(s.list) THEN s
    ELSE [s EXCEPT !.list = Append(@, m),
                   !.pmt[m].state = IF @ \in {"cached", "unknown"} THEN "stopped" ELSE @]

\* a faulty variant: a program that leaves keeps its claims
CachedKeepsClaims(s, m) == [s EXCEPT !.pmt[m].state = "cached", !.pmt[m].reg = FALSE]
\* cache_pmt_for_adapter
Cached(s, m) ==
    [Released(s, m) EXCEPT !.pmt[m].state = "cached", !.pmt[m].reg = FALSE,
                           !.list = SelectSeq(@, LAMBDA k : k # m)]

\* process_pat: the programs it names that are known become the list, known ones it
\* does not name are cached
ProcessPat(named) ==
    LET known == {m \in Pmts : pmt[m].state # "unknown"}
        s == FoldLeft(Activated, [Adapter EXCEPT !.list = <<>>], SetToSortSeq(named \intersect known, <))
        leave == {m \in known \ named : pmt[m].state # "cached"}
    IN  /\ named # pat
        /\ Becomes(Updated(FoldSet(LAMBDA m, t : Cached(t, m), s, leave)))
        /\ pat' = named /\ passed' = TRUE

\* is_pmt_subscribed
Subscribed(s, m) == Live(s, PmtPid(m)) /\ \E p \in s.pmt[m].layout.av : Live(s, p)

\* handover_claims_from_lower_priority; here the order of a PMT pid that is not active
\* yet counts
HandoverOrder(s, m) == s.pids[PmtPid(m)].order
HandedOver(s, m) ==
    StoppedAll(s, {h \in Pmts \ {m} :
        /\ Running(s, h)
        /\ \E p \in s.pmt[m].layout.av : s.pids[p].flags = "active" /\ s.pids[p].pmt = h
        /\ Outranks(HandoverOrder(s, m), Completeness(s, m), HandoverOrder(s, h), Completeness(s, h))})

\* the streams and CA descriptors of the table replace the old ones; a registration goes
\* when no CA descriptor is left
LayoutOf(s, m, l) == [s EXCEPT !.pmt[m].layout = l, !.pmt[m].reg = Running(s, m) /\ @ /\ l.ecm # {}]
\* process_pmt: a new version, or the first one.  A running program keeps running and
\* keeps its claims
ProcessPmt(m, l) ==
    LET a == Activated(Adapter, m)
        b == IF Running(a, m) THEN a ELSE Released(a, m)
        c == LayoutOf(b, m, l)
    IN  /\ m \in pat /\ InTable(Adapter, PmtPid(m))
        /\ IF l = pmt[m].layout THEN Becomes(a)
           ELSE Becomes(IF Subscribed(c, m) THEN HandedOver(c, m) ELSE c)
        /\ passed' = FALSE /\ UNCHANGED pat

\* start_active_pmts: the election, then the programs are sent to the CA, which may
\* refuse one
Pass ==
    LET s == Election(Adapter)
    IN  /\ \E sent \in SUBSET {m \in ToSet(s.list) : Running(s, m) /\ s.pmt[m].layout.ecm # {}} :
               Becomes([s EXCEPT !.pmt = [m \in Pmts |-> IF m \in sent THEN [@[m] EXCEPT !.reg = TRUE] ELSE @[m]]])
        /\ passed' = TRUE /\ UNCHANGED pat

\* del_ca
DelCa ==
    /\ \E m \in Pmts : pmt[m].reg
    /\ pmt' = [m \in Pmts |-> [pmt[m] EXCEPT !.reg = FALSE]]
    /\ UNCHANGED <<pids, list, pat, passed>>

\* clear_pmt_for_adapter
Retuned(s) == [FoldLeft(Cached, s, s.list) EXCEPT !.list = <<>>]
\* pmt_tune
Tune ==
    /\ list # <<>> \/ pat # {}
    /\ Becomes(Retuned(Adapter))
    /\ pat' = {} /\ passed' = FALSE

Next ==
    \/ \E p \in Pids : Subscribe(p) \/ Unsubscribe(p)
    \/ \E named \in SUBSET Pmts : ProcessPat(named)
    \/ \E m \in Pmts : \E l \in Layouts[m] : ProcessPmt(m, l)
    \/ UpdatePids \/ Pass \/ DelCa \/ Tune

Spec == Init /\ [][Next]_vars

-----------------------------------------------------------------------------
TypeOK ==
    /\ pids \in [Pids -> [flags : {"none", "new", "active", "deleted"}, sub : BOOLEAN,
                          order : 1 .. Unordered, pmt : Pmts \union {NoPmt}]]
    /\ \A m \in Pmts : pmt[m].state \in {"unknown", "stopped", "running", "cached"}
    /\ \A m \in Pmts : pmt[m].layout \in Layouts[m] \union {NoLayout} /\ pmt[m].reg \in BOOLEAN
    /\ list \in Seq(Pmts) /\ IsInjective(list)
    /\ pat \subseteq Pmts /\ passed \in BOOLEAN

\* An audio or video pid is only ever claimed by a program that runs, so its packets
\* never wait for the CWs of a program no CA works for.
AvClaimsRun ==
    \A p \in Pids : LET m == pids[p].pmt
                    IN  m # NoPmt /\ p \in pmt[m].layout.av => pmt[m].state = "running"

\* After a pass the claimant of a live audio or video pid is not outranked by another
\* program that was elected and carries the pid.
EarliestOwns ==
    passed => \A p \in Streams : \A m \in ToSet(Elected(Adapter)) :
        Live(Adapter, p) /\ p \in pmt[m].layout.av /\ pids[p].pmt \notin {NoPmt, m} => ~Beats(Adapter, m, pids[p].pmt)

\* With nothing new, the next pass starts and stops no program and takes no audio or
\* video pid from one, and the pass after it changes nothing at all: programs do not take
\* pids from each other for ever.  (The next pass may still give data pids to a program
\* that lost its video, even ones of a program that runs: it waits stopped, and keeps
\* them.)
Stable ==
    passed => LET e == Election(Adapter)
              IN  /\ e.pmt = pmt /\ Election(e) = e
                  /\ \A p \in Pids : LET m == pids[p].pmt
                                     IN  m # NoPmt /\ p \in pmt[m].layout.av => e.pids[p] = pids[p]
=============================================================================
