----------------------------- MODULE PidFilters -----------------------------
(***************************************************************************)
(* The pid table of one adapter (adapter.cpp), the demultiplexer filters   *)
(* it opens in the hardware, and the section filters chained on its pids   *)
(* (pmt.cpp).  Streams, section filters and the tuner defaults ask for     *)
(* pids by marking table entries; update_pids brings the hardware in line. *)
(* Marking and updating are separate critical sections in start_play, so   *)
(* anything may happen between them.                                       *)
(*                                                                         *)
(* The table is a function of the pid: entries are found by a scan of the  *)
(* whole table and their position shows only in the order in which         *)
(* update_pids visits them, which is left open here.                       *)
(***************************************************************************)
EXTENDS Integers, FiniteSets, FiniteSetsExt

CONSTANTS Pids,        \* the pids anyone asks for
          AllPid,      \* 8192, which pids=all emulation does not open
          Setups,      \* the installations: opts.emulate_pids_all, MAX_PIDS, MAX_FILTERS,
                       \* and how many filters the hardware can open (a bound)
          AllOf,       \* what pids=all stands for: the pids of the PMTs and the
                       \* enforced ones
          Sids,        \* streams on this adapter
          MinPids,     \* MIN_ADAPTER_PIDS
          NumFilters,  \* the largest MAX_FILTERS
          Retunes,     \* bound: whether all pids are ever dropped at once
          MaxLeaked    \* bound: how far active_pids may be too high

Fids == 0 .. NumFilters - 1
\* of the flags of a filter, the one that matters to its pid; CRC and REVERSE do not
Flags == {"add_remove", "permanent", "none"}

ASSUME PidFiltersAssumption ==
    /\ IsFiniteSet(Pids) /\ AllOf \subseteq Pids /\ Retunes \in BOOLEAN
    /\ MinPids \in Nat /\ NumFilters \in Nat /\ MaxLeaked \in Nat
    /\ Setups \subseteq [emulate : BOOLEAN, pids : Nat, limit : Nat, filters : 0 .. NumFilters]

VARIABLES pt,      \* the pid side of the adapter
          filters, \* the pool of section filters
          setup    \* the installation, which never changes

vars == <<pt, filters, setup>>

\* fd > 0 is "open"; a failed set_pid and an emulated pid leave -1
NoEntry == [flags |-> "inactive", fd |-> "none", sid |-> {}, filter |-> -1]
NoFilter == [enabled |-> FALSE, pid |-> -1, flags |-> "none", next |-> -1, master |-> -1]

TypeOK ==
    /\ pt \in [table : [Pids -> [flags : {"inactive", "new", "active", "deleted"},
                                 fd : {"none", "open", "minus1"},
                                 sid : SUBSET Sids, filter : Fids \cup {-1}]],
               open : SUBSET Pids, active_pids : Nat, max_active_pids : Nat,
               max_pids : Nat]
    /\ filters \in [Fids -> [enabled : BOOLEAN, pid : Pids \cup {-1},
                             flags : Flags,
                             next : Fids \cup {-1}, master : Fids \cup {-1}]]
    /\ setup \in Setups

Init == /\ pt = [table |-> [p \in Pids |-> NoEntry], open |-> {},
                 active_pids |-> 0, max_active_pids |-> 0, max_pids |-> 0]
        /\ filters = [f \in Fids |-> NoFilter]
        /\ setup \in Setups

----------------------------------------------------------------------------
(* Filter chains *)

Enabled(fs, f) == f # -1 /\ fs[f].enabled                \* get_filter(f) # NULL
FiltersOf(fs, p) == {f \in Fids : fs[f].enabled /\ fs[f].pid = p}

\* the n-th filter of the chain that starts at f, -1 past its end
Hop(fs, f) ==
    LET hop[n \in 0 .. NumFilters] ==
            IF n = 0 THEN (IF Enabled(fs, f) THEN f ELSE -1)
            ELSE IF hop[n - 1] = -1 THEN -1
            ELSE LET g == fs[hop[n - 1]].next IN IF Enabled(fs, g) THEN g ELSE -1
    IN  hop

Chain(fs, f) == {Hop(fs, f)[n] : n \in 0 .. NumFilters} \ {-1}

\* get_pid_filter: the master of the first filter on the pid
PidFilter(fs, p) ==
    IF FiltersOf(fs, p) = {} THEN -1 ELSE fs[Min(FiltersOf(fs, p))].master

\* get_active_filters_for_pid(start, aid, p, kinds) # 0
ActiveFilters(fs, start, p, kinds) ==
    LET f == IF start = -1 THEN PidFilter(fs, p) ELSE start
    IN  \E g \in Chain(fs, f) : fs[g].flags \in kinds

----------------------------------------------------------------------------
(* The pid table *)

Found(t, p) == t[p].flags # "inactive"                   \* find_pid
Room(t) == setup.pids - Cardinality({p \in Pids : Found(t, p)})
HasRoom(t) == Room(t) > 0
Fresh(t, S) == {p \in S : ~Found(t, p)}                   \* those that need an entry

\* a faulty variant: an entry on its way out is overwritten, its fd forgotten
ReplaceDeleted(t, S, p) ==
    IF t[p].flags \in {"new", "active"} THEN [t EXCEPT ![p].sid = @ \cup S]
    ELSE IF Found(t, p) \/ HasRoom(t)
    THEN [t EXCEPT ![p] = [NoEntry EXCEPT !.flags = "new", !.sid = S]]
    ELSE t

\* a faulty variant: an entry on its way out is joined but not revived
JoinDeleted(t, S, p) ==
    IF Found(t, p) THEN [t EXCEPT ![p].sid = @ \cup S]
    ELSE IF HasRoom(t)
    THEN [t EXCEPT ![p] = [NoEntry EXCEPT !.flags = "new", !.sid = S]]
    ELSE t

\* mark_pid_add for the streams S ({}: PID_STREAM_ID_UNDEFINED); a full table
\* stays as it is
MarkAdd(t, S, p) ==
    IF Found(t, p)
    THEN [t EXCEPT ![p].sid = @ \cup S,
                   ![p].flags = IF @ = "deleted" THEN "new" ELSE @]
    ELSE IF HasRoom(t)
    THEN [t EXCEPT ![p] = [NoEntry EXCEPT !.flags = "new", !.sid = S]]
    ELSE t

\* the same for the pids T, for which there is room
MarkAddAll(t, S, T) == [p \in Pids |-> IF p \in T THEN MarkAdd(t, S, p)[p] ELSE t[p]]

\* mark_pid_deleted with a stream
Unsubscribed(fs, e, p, s) ==
    LET sid == e.sid \ {s}
        keep == e.filter # -1 /\ ActiveFilters(fs, e.filter, p, {"add_remove"})
    IN  [e EXCEPT !.sid = sid,
                  !.flags = IF sid = {} /\ @ # "inactive" /\ ~keep
                            THEN "deleted" ELSE @]

\* mark_pid_deleted with PID_STREAM_ID_UNDEFINED
Dropped(e) == [e EXCEPT !.sid = {},
                        !.flags = IF @ = "inactive" THEN @ ELSE "deleted"]

\* mark_pids_deleted(aid, s, NULL)
Without(fs, t, s) == [p \in Pids |-> Unsubscribed(fs, t[p], p, s)]

----------------------------------------------------------------------------
(* update_pids *)

\* emulate_add_all_pids: the streams of pids=all subscribe to its pids, as many as
\* fit; every outcome
EmulateAll(t) ==
    IF setup.emulate /\ AllPid \in Pids /\ t[AllPid].sid # {}
    THEN LET fresh == Fresh(t, AllOf)
         IN  {MarkAddAll(t, t[AllPid].sid, T) :
                T \in {T \in SUBSET AllOf : /\ AllOf \ fresh \subseteq T
                                           /\ \/ T = AllOf /\ Cardinality(fresh) <= Room(t)
                                              \/ /\ Cardinality(fresh) > Room(t)
                                                 /\ Cardinality(T \cap fresh) = Room(t)}}
    ELSE {t}

\* first the deleted entries go and new ones learn their filter chain
Removed(fs, r) ==
    LET gone == {p \in Pids : r.table[p].flags = "deleted"}
        closed == {p \in gone : r.table[p].fd = "open"}
    IN  [r EXCEPT !.open = @ \ closed,
                  !.active_pids = Max({0, @ - Cardinality(closed)}),
                  !.table = [p \in Pids |->
                      IF p \in gone THEN NoEntry
                      ELSE IF r.table[p].flags = "new"
                      THEN [r.table[p] EXCEPT !.filter = PidFilter(fs, p)]
                      ELSE r.table[p]]]

Emulated(p) == setup.emulate /\ p = AllPid
Wanted(r) == {p \in Pids : r.table[p].flags = "new"}
\* a faulty variant: an entry that is revived counts again
CountRevived(r, A) == A
ToOpen(r, A) == {p \in A : r.table[p].fd # "open"}
Limited(r, n) == r.max_pids # 0 /\ r.max_pids < n

\* the new entries A become active, in any order that never meets the limit
CanActivate(r, A) ==
    LET n == Cardinality(ToOpen(r, A))
    IN  A # {} => ~Limited(r, r.active_pids + (IF n = 0 THEN 0 ELSE n - 1))

Activated(r, A) ==
    LET n == r.active_pids + Cardinality(ToOpen(r, A))
    IN  [r EXCEPT !.open = @ \cup {p \in ToOpen(r, A) : ~Emulated(p)},
                  !.active_pids = n,
                  !.max_active_pids = Max({@, n}),
                  !.table = [p \in Pids |->
                     IF p \in A
                     THEN [r.table[p] EXCEPT !.flags = "active",
                             !.fd = IF @ = "open" THEN @
                                    ELSE IF Emulated(p) THEN "minus1" ELSE "open"]
                     ELSE r.table[p]]]

\* set_pid fails for entry p after the others of A: the limit is lowered
Refused(r, p) == [r EXCEPT !.table[p].fd = "minus1",
                           !.max_pids = Max({MinPids, r.max_active_pids - 1})]

\* the new entries are opened one by one, until the limit or a failure
Opened(r) ==
    LET new == Wanted(r)
        stops == {A \in SUBSET new : CanActivate(r, A)}
        limited(A) == Limited(r, Activated(r, A).active_pids)
        refusable(A) == {p \in ToOpen(r, new \ A) : ~limited(A) /\ ~Emulated(p)}
    IN  {Activated(r, A) : A \in {A \in stops : A = new \/ limited(A)}}
        \cup UNION {{Refused(Activated(r, A), p) : p \in refusable(A)} : A \in stops}

\* every outcome of update_pids
Updated(fs, pids) ==
    UNION {Opened(Removed(fs, [pids EXCEPT !.table = t])) : t \in EmulateAll(pids.table)}

InBounds(r) == /\ Cardinality(r.open) <= setup.limit
               /\ r.active_pids <= Cardinality(r.open) + MaxLeaked

Update(t, fs) == pt' \in {r \in Updated(fs, [pt EXCEPT !.table = t]) : InBounds(r)}

----------------------------------------------------------------------------
(* Operations on the table *)

\* sync_pids: the stream wants exactly the pids S.  When the table has no room
\* it stops at the first pid that does not fit.
SyncPids(s, S) ==
    LET t == [p \in Pids |-> IF Found(pt.table, p) /\ s \in pt.table[p].sid /\ p \notin S
                             THEN Unsubscribed(filters, pt.table[p], p, s)
                             ELSE pt.table[p]]
        fresh == Fresh(t, S)
    IN  \E T \in SUBSET S :
          /\ \/ T = S /\ Cardinality(fresh) <= Room(t)
             \/ Cardinality(fresh) > Room(t) /\ Cardinality(T \cap fresh) = Room(t)
          /\ pt' = [pt EXCEPT !.table = MarkAddAll(t, {s}, T)]
          /\ UNCHANGED filters

\* the end of tune, dvbapi, pmt: the hardware follows the table
UpdatePids == Update(pt.table, filters) /\ UNCHANGED filters

\* close_adapter_for_stream while other streams stay
LeaveStream(s) == Update(Without(filters, pt.table, s), filters) /\ UNCHANGED filters

\* the last stream leaves, the master retunes, the adapter closes or opens
DropAll == /\ Retunes
           /\ Update([p \in Pids |-> Dropped(pt.table[p])], filters)
           /\ UNCHANGED filters

\* post_tune: a default pid nobody asked for
DefaultPid(p) == /\ pt.table[p].flags \in {"inactive", "deleted"}
                 /\ pt' = [pt EXCEPT !.table = MarkAdd(@, {}, p)]
                 /\ UNCHANGED filters

----------------------------------------------------------------------------
(* Operations on section filters, under filters_mutex *)

\* set_filter_flags_locked with FILTER_ADD_REMOVE
EnsurePid(t, p, fl) ==
    IF fl = "add_remove" /\ ~Found(t, p) THEN MarkAdd(t, {}, p) ELSE t

\* add_filter_mask; the pool returns any free filter
AddFilter(f, p, fl) ==
    LET tails == {g \in FiltersOf(filters, p) : filters[g].next = -1}
        master == IF tails = {} THEN f ELSE filters[Max(tails)].master
        t == EnsurePid(pt.table, p, fl)
    IN  /\ ~filters[f].enabled /\ f < setup.filters
        /\ filters' = [g \in Fids |->
             IF g = f THEN [enabled |-> TRUE, pid |-> p, flags |-> fl, next |-> -1,
                            master |-> master]
             ELSE IF g \in tails THEN [filters[g] EXCEPT !.next = f]
             ELSE filters[g]]
        /\ pt' = [pt EXCEPT !.table = IF Found(t, p) THEN [t EXCEPT ![p].filter = f]
                                                    ELSE t]

SetFilterFlags(f, fl) ==
    /\ filters[f].enabled
    /\ filters' = [filters EXCEPT ![f].flags = fl]
    /\ pt' = [pt EXCEPT !.table = EnsurePid(@, filters[f].pid, fl)]

\* set_filter_flags_locked(f, 0), which has cleared the flags in fs: whether
\* nothing holds the pid any more
PidUnused(fs, f) ==
    LET p == fs[f].pid
        e == pt.table[p]
    IN  /\ ~ActiveFilters(fs, fs[f].master, p, {"add_remove", "permanent"})
        /\ e.flags \in {"new", "active"} /\ e.sid = {}

\* the outcomes for the pid table of clearing the flags of f
FlagsCleared(fs, f) ==
    {r \in IF PidUnused(fs, f)
           THEN Updated(fs, [pt EXCEPT !.table[fs[f].pid] = Dropped(@)])
           ELSE {pt} : InBounds(r)}

\* set_filter_flags(f, 0): its PMT stops
ClearFilterFlags(f) ==
    LET fs == [filters EXCEPT ![f].flags = "none"]
    IN  /\ filters[f].enabled
        /\ filters' = fs
        /\ pt' \in FlagsCleared(fs, f)

\* a faulty variant: the predecessor keeps pointing at the filter that goes
Dangling(fs, f) ==
    LET others == FiltersOf(fs, fs[f].pid)
        heir == IF others # {} THEN Min(others) ELSE -1
    IN  [g \in Fids |->
           IF g = f THEN [fs[f] EXCEPT !.pid = -1]
           ELSE IF fs[f].master = f /\ g \in others
           THEN [fs[g] EXCEPT !.master = heir]
           ELSE fs[g]]

\* the chain without f, which is disabled already
Unlinked(fs, f) ==
    LET p == fs[f].pid
        others == FiltersOf(fs, p)
        heir == IF Enabled(fs, fs[f].next) THEN fs[f].next
                ELSE IF others # {} THEN Min(others) ELSE -1
        prev == {g \in others : fs[g].next = f}
    IN  [g \in Fids |->
           IF g = f THEN [fs[f] EXCEPT !.pid = -1]
           ELSE IF fs[f].master = f /\ heir # -1 /\ g \in others
           THEN [fs[g] EXCEPT !.master = heir]
           ELSE IF fs[f].master # f /\ prev # {} /\ g = Min(prev)
           THEN [fs[g] EXCEPT !.next = fs[f].next]
           ELSE fs[g]]

\* del_filter
DelFilter(f) ==
    LET fs == [filters EXCEPT ![f].enabled = FALSE, ![f].flags = "none"]
        p == fs[f].pid
        alone == fs[f].master = f /\ ~Enabled(fs, fs[f].next)
        clear(r) == IF alone /\ Found(r.table, p)
                    THEN [r EXCEPT !.table[p].filter = -1] ELSE r
    IN  /\ filters[f].enabled
        /\ filters' = Unlinked(fs, f)
        /\ \E r \in FlagsCleared(fs, f) : pt' = clear(r)

\* process_filters: a packet of pid p repairs the entry's filter first
Repaired(fs, e, p) ==
    IF Enabled(fs, e.filter) /\ fs[e.filter].master = e.filter /\ fs[e.filter].pid = p
    THEN e.filter ELSE PidFilter(fs, p)

Packet(p) == /\ pt.table[p].flags = "active"
             /\ pt' = [pt EXCEPT !.table[p].filter = Repaired(filters, pt.table[p], p)]
             /\ UNCHANGED filters

Next == /\ \/ \E s \in Sids : LeaveStream(s) \/ \E S \in SUBSET Pids : SyncPids(s, S)
           \/ UpdatePids \/ DropAll
           \/ \E p \in Pids : Packet(p) \/ DefaultPid(p)
           \/ \E f \in Fids : \/ DelFilter(f) \/ ClearFilterFlags(f)
                              \/ \E fl \in Flags : SetFilterFlags(f, fl)
                              \/ \E p \in Pids \ {AllPid}, fl \in Flags : AddFilter(f, p, fl)
        /\ UNCHANGED setup

Spec == Init /\ [][Next]_vars

----------------------------------------------------------------------------
(* Correctness *)

(* No demultiplexer filter is leaked or opened twice: the hardware has a    *)
(* filter for exactly the entries with an open descriptor, and a slot of    *)
(* the table is never given up while its descriptor is open.                *)
HardwareMatches == pt.open = {p \in Pids : pt.table[p].fd = "open"}

(* active_pids, which decides whether the next pid still fits, counts the   *)
(* descriptors that are open, over any sequence of failed opens, deletions, *)
(* revivals of deleted entries and limits.  (While pids=all is emulated it  *)
(* may be too high, never too low: the entry of pid 8192 is counted when it *)
(* is added and not when it goes.)                                          *)
ActiveCount == /\ ~setup.emulate => pt.active_pids = Cardinality(pt.open)
               /\ pt.active_pids >= Cardinality(pt.open)

(* A pid some stream subscribes to is never on its way out of the table.    *)
(* (A pid with nothing but section filters can be: see del_filter.)         *)
SubscribedKept == \A p \in Pids :
    pt.table[p].sid # {} => pt.table[p].flags \in {"new", "active"}

(* A section reaches every filter of its pid: the chain process_filters     *)
(* walks ends, and contains exactly the filters that are enabled on it.     *)
DeliversAll == \A p \in Pids :
    LET head == Repaired(filters, pt.table[p], p)
    IN  /\ Chain(filters, head) = FiltersOf(filters, p)
        /\ Hop(filters, head)[NumFilters] = -1
=============================================================================
