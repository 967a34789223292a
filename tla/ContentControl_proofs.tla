----------------------- MODULE ContentControl_proofs -----------------------
(***************************************************************************)
(* Proofs about ContentControl, for any number of exchanges, keys, faults, *)
(* programs and entries of the file: what minisatip keeps of a pairing     *)
(* agrees (CredentialsAgree), the file is in order (FileOrdered), both     *)
(* sides of the secure channel hold the same keys (KeysAgree) and the key  *)
(* in use is where it is needed (KeyInUse).                                *)
(***************************************************************************)
EXTENDS ContentControl, FiniteSetTheorems, SequenceTheorems, TLAPS

Akhs == Pairings \union {NoValue, Zeros}
Seeds == {NoSeed} \union (Akhs \X Akhs \X Nat)
ContentKeys == (1 .. MaxKeys) \union {NoValue}

CcType == [open : BOOLEAN, akh : Akhs, host : HostIds, dhsk : Pairings \union {NoValue}, index : 0 .. LastIndex,
           exp : Pairings \union {NoValue}, got : SUBSET {8, 14, 16, 18, 19}, seed : Seeds,
           unsigned : BOOLEAN]
Phases == {"closed", "akh", "auth", "refused", "certs", "confirm", "ns", "sac", "sync"}
CamType == [phase : Phases, known : SUBSET Entries, tries : 0 .. LastIndex - 1, exp : Pairings \union {NoValue},
            pair : Pairings \union {NoValue}, host : HostIds, seed : Seeds, key : [Parities -> ContentKeys],
            using : Parities \union {NoValue}, sent : 0 .. MaxKeys]

Types == /\ cc \in CcType /\ keys \in [Parities -> ContentKeys] /\ joined \in SUBSET Programs
         /\ cw \in [Programs -> [Parities -> ContentKeys]]
         /\ cert \in Certs /\ cam \in CamType
         /\ drawn \in Seq(HostIds) /\ Len(drawn) <= MaxExchanges /\ faults \in 0 .. MaxFaults

\* A pairing of the exchanges so far, and the host id it was made with.
MadeOf(e, ds) == e.pair \in 1 .. Len(ds) /\ e.host = ds[e.pair]

\* What the file holds was exchanged, the newest first.
ListOK(f, ds) == /\ f \in Seq(Entries) /\ Len(f) <= Kept
                 /\ \A i \in DOMAIN f : MadeOf(f[i], ds)
                 /\ \A i, j \in DOMAIN f : i < j => f[i].pair > f[j].pair

\* The credentials are those of one exchange, but for a host id no exchange was signed with.
CcOK(c, ds) ==
    c.akh \in Pairings => c.dhsk = c.akh /\ c.akh \in 1 .. Len(ds) /\ (c.unsigned \/ c.host = ds[c.akh])

\* During an exchange the two sides are at the newest exponent, and the host id is the one it
\* was signed with.
InExchange == cam.phase \in {"certs", "confirm"} =>
    /\ cc.exp = Len(drawn) /\ cam.exp = cc.exp /\ Len(drawn) > 0 /\ cc.host = drawn[cc.exp]
    /\ ~cc.unsigned /\ cam.host = cc.host

\* What the CAM remembers was exchanged.
KnownOK(known, ds) == \A k \in known : MadeOf(k, ds)

\* After it they use the same pairing, and then the same keys.
SamePairing == cam.phase \in {"ns", "sac", "sync"} =>
    cam.pair \in Pairings /\ cc.akh = cam.pair /\ cc.host = drawn[cc.akh]

\* The registers of the two sides agree, and the programs with a place have the keys.
SameKeys == /\ keys = cam.key
            /\ \A r \in Parities : keys[r] \notin ZeroFirst \union {NoValue} => \A p \in joined : cw[p][r] = keys[r]
            /\ cam.using # NoValue => cam.key[cam.using] # NoValue
            /\ cam.phase = "sync" => cam.key[Other] # NoValue

ChannelInv == /\ Types /\ ListOK(file, drawn) /\ CcOK(cc, drawn) /\ KnownOK(cam.known, drawn)
              /\ InExchange /\ SamePairing /\ KeysAgree /\ SameKeys

-----------------------------------------------------------------------------
(* The file of pairings *)

LEMMA MinOfTwo ==
    ASSUME NEW a \in Int, NEW b \in Int
    PROVE  Min({a, b}) = IF a <= b THEN a ELSE b
  BY DEF Min

LEMMA PrefixOK ==
    ASSUME NEW f, NEW ds, ListOK(f, ds), NEW n \in 0 .. Len(f)
    PROVE  ListOK(SubSeq(f, 1, n), ds) /\ Len(SubSeq(f, 1, n)) = n
<1> DEFINE g == SubSeq(f, 1, n)
<1>1. f \in Seq(Entries) /\ Len(f) \in Nat /\ Len(f) <= Kept /\ DOMAIN f = 1 .. Len(f) /\ Kept \in Nat
  BY ContentControlAssumption DEF ListOK
<1>2. g \in Seq(Entries) /\ Len(g) = n /\ DOMAIN g = 1 .. n /\ \A i \in 1 .. n : g[i] = f[i]
  BY <1>1, SubSeqProperties
<1> HIDE DEF g
<1>3. \A i \in DOMAIN g : i \in DOMAIN f /\ g[i] = f[i]
  BY <1>1, <1>2
<1>4. QED
  BY <1>1, <1>2, <1>3 DEF ListOK, g

\* write_authdata: the entry of the newest exchange in front of the others
LEMMA StoredOK ==
    ASSUME NEW ds, ListOK(file, ds), NEW e \in Entries, MadeOf(e, ds), e.pair = Len(ds)
    PROVE  ListOK(Stored(e), ds)
<1>1. CASE \E i \in DOMAIN file : file[i].pair = e.pair
  BY <1>1 DEF Stored
<1>2. CASE ~\E i \in DOMAIN file : file[i].pair = e.pair
  <2> DEFINE n == Min({Len(file), Kept - 1})
             g == SubSeq(file, 1, n)
             f == <<e>> \o g
  <2>1. Stored(e) = f
    BY <1>2 DEF Stored
  <2>2. Len(file) \in Nat /\ Kept \in Nat \ {0} /\ Len(file) <= Kept
    BY ContentControlAssumption DEF ListOK
  <2>3. n \in 0 .. Len(file) /\ n <= Kept - 1
    BY <2>2, MinOfTwo
  <2> HIDE DEF n
  <2>4. ListOK(g, ds) /\ Len(g) = n /\ g \in Seq(Entries)
    BY <2>3, PrefixOK DEF ListOK
  <2>5. \A i \in DOMAIN g : i \in 1 .. n /\ g[i].pair \in Int /\ g[i].pair < e.pair
    <3>1. DOMAIN g = 1 .. n /\ DOMAIN file = 1 .. Len(file) /\ \A i \in 1 .. n : g[i] = file[i]
      BY <2>2, <2>3, SubSeqProperties DEF ListOK
    <3>2. \A i \in 1 .. n : i \in DOMAIN file /\ file[i].pair # e.pair /\ file[i].pair \in 1 .. Len(ds)
      BY <1>2, <2>2, <2>3, <3>1 DEF ListOK, MadeOf
    <3>3. Len(ds) \in Int
      BY DEF Entries, Pairings
    <3> HIDE DEF g
    <3>4. QED
      BY <3>1, <3>2, <3>3
  <2> HIDE DEF g
  <2>6. <<e>> \in Seq(Entries) /\ Len(<<e>>) = 1
    OBVIOUS
  <2>7. /\ f \in Seq(Entries) /\ Len(f) = n + 1 /\ f[1] = e /\ DOMAIN f = 1 .. n + 1
        /\ \A i \in 2 .. n + 1 : f[i] = g[i - 1] /\ i - 1 \in DOMAIN g
    BY <2>3, <2>4, <2>6, ConcatProperties
  <2> HIDE DEF f
  <2>8. \A i \in DOMAIN f : MadeOf(f[i], ds)
    <3> SUFFICES ASSUME NEW i \in DOMAIN f PROVE MadeOf(f[i], ds)
      OBVIOUS
    <3>1. i = 1 \/ i \in 2 .. n + 1
      BY <2>3, <2>7
    <3>2. QED
      BY <2>4, <2>7, <3>1 DEF ListOK
  <2>9. \A i, j \in DOMAIN f : i < j => f[i].pair > f[j].pair
    <3> SUFFICES ASSUME NEW i \in DOMAIN f, NEW j \in DOMAIN f, i < j PROVE f[i].pair > f[j].pair
      OBVIOUS
    <3>1. j \in 2 .. n + 1 /\ f[j] = g[j - 1] /\ j - 1 \in DOMAIN g /\ i \in Int /\ j \in Int
      BY <2>3, <2>7
    <3>2. CASE i = 1
      BY <2>5, <2>7, <3>1, <3>2 DEF Entries, Pairings
    <3>3. CASE i # 1
      <4>1. f[i] = g[i - 1] /\ i - 1 \in DOMAIN g
        BY <2>3, <2>7, <3>3
      <4>2. i - 1 < j - 1
        BY <3>1
      <4>3. QED
        BY <2>4, <3>1, <4>1, <4>2 DEF ListOK
    <3>4. QED
      BY <3>2, <3>3
  <2>10. QED
    BY <2>1, <2>2, <2>3, <2>7, <2>8, <2>9 DEF ListOK
<1>3. QED
  BY <1>1, <1>2

\* a new exponent changes nothing about the pairings so far
LEMMA DrawnGrows ==
    ASSUME NEW ds \in Seq(HostIds), NEW h \in HostIds
    PROVE  /\ Append(ds, h) \in Seq(HostIds) /\ Len(Append(ds, h)) = Len(ds) + 1 /\ Append(ds, h)[Len(ds) + 1] = h
           /\ \A f : ListOK(f, ds) => ListOK(f, Append(ds, h))
           /\ \A c : CcOK(c, ds) => CcOK(c, Append(ds, h))
           /\ \A known : KnownOK(known, ds) => KnownOK(known, Append(ds, h))
<1> DEFINE es == Append(ds, h)
<1>1. Len(ds) \in Nat /\ es \in Seq(HostIds) /\ Len(es) = Len(ds) + 1 /\ es[Len(ds) + 1] = h
      /\ \A i \in 1 .. Len(ds) : es[i] = ds[i]
  BY AppendProperties, LenProperties
<1> HIDE DEF es
<1>2. \A i \in 1 .. Len(ds) : i \in 1 .. Len(es) /\ es[i] = ds[i]
  BY <1>1
<1>3. \A f : ListOK(f, ds) => ListOK(f, es)
  BY <1>2 DEF ListOK, MadeOf
<1>4. \A c : CcOK(c, ds) => CcOK(c, es)
  BY <1>2 DEF CcOK
<1>5. \A known : KnownOK(known, ds) => KnownOK(known, es)
  BY <1>2 DEF KnownOK, MadeOf
<1>6. QED
  BY <1>1, <1>3, <1>4, <1>5 DEF es

-----------------------------------------------------------------------------
(* The credentials *)

LEMMA Values == /\ NoValue \notin Pairings /\ Zeros \notin Pairings /\ NoValue \notin 1 .. MaxKeys
                /\ NoSeed \in Seeds /\ NoValue \notin Parities /\ NoValue # Zeros
                /\ LastIndex = 5 /\ Kept \in 1 .. 5 /\ MaxKeys \in Nat \ {0} /\ MaxExchanges \in Nat \ {0} /\ MaxFaults \in Nat
  BY ContentControlAssumption DEF NoValue, Zeros, Pairings, Seeds, Parities, LastIndex

LEMMA NoCredentialsOK ==
    ASSUME NEW ds PROVE NoCredentials \in CcType /\ CcOK(NoCredentials, ds)
<1>1. /\ NoCredentials.akh = NoValue /\ NoValue \in Akhs /\ LastIndex \in 0 .. LastIndex /\ "garbage" \in HostIds
  BY Values DEF NoCredentials, Akhs, HostIds
<1>2. NoCredentials \in CcType
  BY <1>1, Values DEF NoCredentials, CcType
<1>3. QED
  BY <1>1, <1>2, Values DEF CcOK

\* an entry of the file is a pair of credentials that agree
LEMMA EntryOK ==
    ASSUME ListOK(file, drawn), NEW i \in Nat, HasEntry(i)
    PROVE  /\ Entry(i).pair \in Pairings /\ Entry(i).host \in HostIds
           /\ Entry(i).pair \in 1 .. Len(drawn) /\ Entry(i).host = drawn[Entry(i).pair]
           /\ i + 1 \in 0 .. LastIndex /\ Entry(i).pair \in Akhs
<1>1. i + 1 \in DOMAIN file /\ file \in Seq(Entries) /\ i + 1 <= Kept
  BY Values DEF HasEntry, ListOK
<1>2. file[i + 1] \in Entries /\ MadeOf(file[i + 1], drawn)
  BY <1>1 DEF ListOK
<1>3. QED
  BY <1>1, <1>2, Values DEF Entry, MadeOf, Entries, Akhs

\* data_initialize
LEMMA InitializedOK ==
    ASSUME ListOK(file, drawn) PROVE Initialized \in CcType /\ CcOK(Initialized, drawn)
<1> DEFINE e == Entry(0)
           c == [NoCredentials EXCEPT !.open = TRUE, !.akh = e.pair, !.host = e.host, !.dhsk = e.pair, !.index = 0]
           z == [NoCredentials EXCEPT !.open = TRUE, !.akh = Zeros]
<1>1. CASE HasEntry(0)
  <2>1. /\ e.pair \in Pairings /\ e.host \in HostIds /\ e.pair \in 1 .. Len(drawn) /\ e.host = drawn[e.pair]
        /\ e.pair \in Akhs
    BY <1>1, EntryOK
  <2>2. Initialized = c /\ 0 \in 0 .. LastIndex
    BY <1>1, Values DEF Initialized
  <2> HIDE DEF e
  <2>3. c \in CcType /\ c.akh = e.pair /\ c.dhsk = e.pair /\ c.host = e.host
    BY <2>1, <2>2, NoCredentialsOK DEF CcType
  <2>4. QED
    BY <2>1, <2>2, <2>3 DEF CcOK
<1>2. CASE ~HasEntry(0)
  <2>1. Initialized = z /\ Zeros \in Akhs
    BY <1>2 DEF Initialized, Akhs
  <2>2. z \in CcType /\ z.akh = Zeros
    BY <2>1, NoCredentialsOK DEF CcType
  <2>3. QED
    BY <2>1, <2>2, Values DEF CcOK
<1>3. QED
  BY <1>1, <1>2

\* data_req_handle_new
LEMMA NextPairingOK ==
    ASSUME ListOK(file, drawn), NEW c \in CcType, CcOK(c, drawn)
    PROVE  /\ NextPairing(c) \in CcType /\ CcOK(NextPairing(c), drawn)
           /\ ~c.unsigned => ~NextPairing(c).unsigned
<1> DEFINE e == Entry(c.index)
           k == c.index + 1
           d == [c EXCEPT !.akh = e.pair, !.host = e.host, !.dhsk = e.pair, !.index = k, !.unsigned = FALSE]
           z == [c EXCEPT !.akh = Zeros, !.host = "garbage", !.index = LastIndex, !.unsigned = FALSE]
<1>1. c.index \in Nat
  BY DEF CcType
<1>2. CASE c.index = LastIndex
  BY <1>2 DEF NextPairing
<1>3. CASE c.index # LastIndex /\ HasEntry(c.index)
  <2>1. /\ e.pair \in Pairings /\ e.host \in HostIds /\ e.pair \in 1 .. Len(drawn) /\ e.host = drawn[e.pair]
        /\ k \in 0 .. LastIndex /\ e.pair \in Akhs
    BY <1>1, <1>3, EntryOK
  <2>2. NextPairing(c) = d
    BY <1>3 DEF NextPairing
  <2> HIDE DEF e, k
  <2>3. d \in CcType /\ d.akh = e.pair /\ d.dhsk = e.pair /\ d.host = e.host /\ ~d.unsigned
    BY <2>1 DEF CcType
  <2>4. QED
    BY <2>1, <2>2, <2>3 DEF CcOK
<1>4. CASE c.index # LastIndex /\ ~HasEntry(c.index)
  <2>1. NextPairing(c) = z /\ Zeros \in Akhs /\ LastIndex \in 0 .. LastIndex /\ "garbage" \in HostIds
    BY <1>4, Values DEF NextPairing, Akhs, HostIds
  <2>2. z \in CcType /\ z.akh = Zeros /\ ~z.unsigned
    BY <2>1 DEF CcType
  <2>3. QED
    BY <2>1, <2>2, Values DEF CcOK
<1>5. QED
  BY <1>2, <1>3, <1>4

-----------------------------------------------------------------------------
(* The steps *)

LEMMA OpenReqStep == ChannelInv /\ OpenReq => ChannelInv'
<1> SUFFICES ASSUME ChannelInv, OpenReq PROVE ChannelInv'
  OBVIOUS
<1>1. /\ cam.phase = "closed" /\ cc' = Initialized /\ cam' = [cam EXCEPT !.phase = "akh", !.tries = 0]
      /\ UNCHANGED <<keys, joined, cw, file, cert, drawn, faults>>
  BY DEF OpenReq
<1>2. cc' \in CcType /\ CcOK(cc', drawn)
  BY <1>1, InitializedOK DEF ChannelInv
<1>3. cam' \in CamType /\ cam'.phase = "akh" /\ cam'.key = cam.key /\ cam'.known = cam.known /\ cam'.using = cam.using
  <2>1. 0 \in 0 .. LastIndex - 1
    BY Values
  <2>2. QED
    BY <1>1, <2>1 DEF ChannelInv, Types, CamType, Phases
<1>4. Types'
  BY <1>1, <1>2, <1>3 DEF ChannelInv, Types
<1>5. SameKeys'
  BY <1>1, <1>3 DEF ChannelInv, SameKeys
<1>6. InExchange' /\ SamePairing' /\ KeysAgree'
  BY <1>3 DEF InExchange, SamePairing, KeysAgree
<1>7. QED
  BY <1>1, <1>2, <1>3, <1>4, <1>5, <1>6 DEF ChannelInv

LEMMA AskAkhStep == ChannelInv /\ AskAkh => ChannelInv'
<1> SUFFICES ASSUME ChannelInv, AskAkh PROVE ChannelInv'
  OBVIOUS
<1>1. /\ cc' = NextPairing(cc) /\ UNCHANGED <<keys, joined, cw, file, cert, drawn, faults>>
      /\ \/ /\ \E k \in cam.known : k.pair = cc'.akh /\ k.host = cc'.host
            /\ cam' = [cam EXCEPT !.phase = "ns", !.pair = cc'.akh, !.host = cc'.host]
         \/ cam' = [cam EXCEPT !.phase = "auth"]
         \/ cam.phase = "akh" /\ cam.tries + 1 < LastIndex /\ cam' = [cam EXCEPT !.tries = cam.tries + 1]
  BY DEF AskAkh
<1>2. cc' \in CcType /\ CcOK(cc', drawn)
  BY <1>1, NextPairingOK DEF ChannelInv, Types
<1>3. /\ cam' \in CamType /\ cam'.key = cam.key /\ cam'.known = cam.known /\ cam'.using = cam.using
      /\ cam'.phase \in {"auth", "akh"} \/ 
         (cam'.phase = "ns" /\ cam'.pair = cc'.akh /\ cc'.akh \in Pairings /\ cc'.host = drawn[cc'.akh])
  <2>1. CASE /\ \E k \in cam.known : k.pair = cc'.akh /\ k.host = cc'.host
             /\ cam' = [cam EXCEPT !.phase = "ns", !.pair = cc'.akh, !.host = cc'.host]
    <3>1. cc'.akh \in Pairings /\ cc'.host \in HostIds /\ cc'.host = drawn[cc'.akh]
      BY <2>1 DEF ChannelInv, Types, CamType, Entries, KnownOK, MadeOf
    <3>2. QED
      BY <2>1, <3>1 DEF ChannelInv, Types, CamType, Phases
  <2>2. CASE cam' = [cam EXCEPT !.phase = "auth"]
    BY <2>2 DEF ChannelInv, Types, CamType, Phases
  <2>3. CASE cam.phase = "akh" /\ cam.tries + 1 < LastIndex /\ cam' = [cam EXCEPT !.tries = cam.tries + 1]
    <3>1. cam.tries + 1 \in 0 .. LastIndex - 1
      BY <2>3, Values DEF ChannelInv, Types, CamType
    <3>2. QED
      BY <2>3, <3>1 DEF ChannelInv, Types, CamType
  <2>4. QED
    BY <1>1, <2>1, <2>2, <2>3
<1>4. Types'
  BY <1>1, <1>2, <1>3 DEF ChannelInv, Types
<1>5. SameKeys'
  BY <1>1, <1>3 DEF ChannelInv, SameKeys
<1>6. InExchange' /\ SamePairing' /\ KeysAgree'
  BY <1>1, <1>3 DEF InExchange, SamePairing, KeysAgree
<1>7. QED
  BY <1>1, <1>2, <1>3, <1>4, <1>5, <1>6 DEF ChannelInv

LEMMA AuthNonceStep == ChannelInv /\ AuthNonce => ChannelInv'
<1> SUFFICES ASSUME ChannelInv, AuthNonce PROVE ChannelInv'
  OBVIOUS
<1> DEFINE n == Len(drawn) + 1
           h == HostIdOfCert
           got == cc.got \union {19}
           w == [cc EXCEPT !.got = got]
           u == [w EXCEPT !.host = h, !.unsigned = TRUE]
           c == [w EXCEPT !.exp = n, !.host = h, !.akh = NoValue, !.got = got \ {14, 18}, !.unsigned = FALSE]
<1>1. /\ UNCHANGED <<keys, joined, cw, file, cert, faults>> /\ Len(drawn) < MaxExchanges
      /\ w \in CcType /\ w.akh = cc.akh /\ w.dhsk = cc.dhsk /\ w.host = cc.host /\ w.got = got
      /\ w.unsigned = cc.unsigned /\ got \in SUBSET {8, 14, 16, 18, 19}
  BY DEF AuthNonce, ChannelInv, Types, CcType
<1>2. CertLoaded => h \in HostIds
  BY DEF CertLoaded, HostIdOfCert, HostIds, ChannelInv, Types, Certs
<1>3. CASE ~(CertLoaded /\ KeyOpens)
  <2>1. cam' = [cam EXCEPT !.phase = "refused"] /\ drawn' = drawn
    BY <1>3 DEF AuthNonce
  <2>2. cc' = w \/ (CertLoaded /\ cc' = u)
    BY <1>3 DEF AuthNonce, Restarted, WithElements
  <2>3. /\ cam' \in CamType /\ cam'.phase = "refused" /\ cam'.key = cam.key /\ cam'.using = cam.using
        /\ cam'.known = cam.known
    BY <2>1 DEF ChannelInv, Types, CamType, Phases
  <2> HIDE DEF w, h
  <2>4. cc' \in CcType /\ CcOK(cc', drawn)
    <3>1. CASE cc' = w
      BY <1>1, <3>1 DEF ChannelInv, CcOK
    <3>2. CASE CertLoaded /\ cc' = u
      <4>1. u \in CcType /\ u.akh = w.akh /\ u.dhsk = w.dhsk /\ u.unsigned
        BY <1>1, <1>2, <3>2 DEF CcType
      <4>2. QED
        BY <1>1, <3>2, <4>1 DEF ChannelInv, CcOK
    <3>3. QED
      BY <2>2, <3>1, <3>2
  <2>5. Types'
    BY <1>1, <2>1, <2>3, <2>4 DEF ChannelInv, Types
  <2>6. SameKeys'
    BY <1>1, <2>3 DEF ChannelInv, SameKeys
  <2>7. InExchange' /\ SamePairing' /\ KeysAgree'
    BY <2>3 DEF InExchange, SamePairing, KeysAgree
  <2>8. QED
    BY <1>1, <2>1, <2>3, <2>4, <2>5, <2>6, <2>7 DEF ChannelInv
<1>4. CASE CertLoaded /\ KeyOpens
  <2>1. /\ cc' = c /\ cam' = [cam EXCEPT !.phase = "certs", !.exp = n, !.host = h]
        /\ drawn' = Append(drawn, h) /\ h \in HostIds
    BY <1>2, <1>4 DEF AuthNonce, Restarted, WithElements, NewExponent
  <2>2. n \in Pairings /\ NoValue \in Akhs
    BY <1>1, Values DEF ChannelInv, Types, Pairings, Akhs
  <2>3. /\ drawn' \in Seq(HostIds) /\ Len(drawn') = n /\ drawn'[n] = h
        /\ ListOK(file, drawn') /\ KnownOK(cam.known, drawn')
    BY <2>1, DrawnGrows DEF ChannelInv, Types
  <2> HIDE DEF w, got, n, h
  <2>4. /\ cam' \in CamType /\ cam'.phase = "certs" /\ cam'.key = cam.key /\ cam'.using = cam.using /\ cam'.exp = n
        /\ cam'.known = cam.known /\ cam'.host = h
    BY <2>1, <2>2 DEF ChannelInv, Types, CamType, Phases
  <2>5. c \in CcType /\ c.akh = NoValue /\ c.exp = n /\ c.host = h /\ ~c.unsigned
    BY <1>1, <2>1, <2>2 DEF CcType
  <2>6. CcOK(cc', drawn')
    BY <2>1, <2>5, Values DEF CcOK
  <2>7. Types'
    <3>1. n <= MaxExchanges /\ n > 0
      BY <2>2, Values DEF Pairings
    <3>2. QED
      BY <1>1, <2>1, <2>3, <2>4, <2>5, <3>1 DEF ChannelInv, Types
  <2>8. SameKeys'
    BY <1>1, <2>4 DEF ChannelInv, SameKeys
  <2>9. InExchange' /\ SamePairing' /\ KeysAgree'
    <3>1. n > 0
      BY <2>2 DEF Pairings
    <3>2. QED
      BY <2>1, <2>3, <2>4, <2>5, <3>1 DEF InExchange, SamePairing, KeysAgree
  <2>10. QED
    BY <1>1, <2>3, <2>4, <2>6, <2>7, <2>8, <2>9 DEF ChannelInv
<1>5. QED
  BY <1>3, <1>4

LEMMA CertificatesStep == ChannelInv /\ Certificates => ChannelInv'
<1> SUFFICES ASSUME ChannelInv, Certificates PROVE ChannelInv'
  OBVIOUS
<1> DEFINE got == cc.got \union {14, 18, 16, 8}
           c == [cc EXCEPT !.got = got]
           e == [host |-> c.host, pair |-> c.exp]
           f == Stored(e)
           d == [c EXCEPT !.dhsk = c.exp, !.akh = c.exp, !.index = LastIndex]
<1>1. /\ cam.phase \in {"certs", "confirm"} /\ UNCHANGED <<keys, joined, cw, cert, drawn>>
      /\ cam' = [cam EXCEPT !.phase = "confirm"]
      /\ \/ cc' = d /\ file' = f
         \/ cc' = d /\ file' \in CutOff(f) \union {file}
         \/ cc' = c /\ file' = file
      /\ faults' \in 0 .. MaxFaults
  <2>1. (Fault \/ UNCHANGED faults) => faults' \in 0 .. MaxFaults
    BY Values DEF Fault, ChannelInv, Types
  <2>2. Fault \/ UNCHANGED faults
    BY DEF Certificates
  <2>3. QED
    BY <2>1, <2>2 DEF Certificates, WithElements, Challenged
<1>2. /\ cc.exp = Len(drawn) /\ cam.exp = cc.exp /\ Len(drawn) > 0 /\ cc.host = drawn[cc.exp] /\ cc.exp \in Pairings
      /\ ~cc.unsigned /\ cam.host = cc.host
  <2>1. Len(drawn) \in Nat /\ Len(drawn) <= MaxExchanges
    BY DEF ChannelInv, Types
  <2>2. QED
    BY <1>1, <2>1, Values DEF ChannelInv, InExchange, Pairings
<1>3. /\ c \in CcType /\ c.akh = cc.akh /\ c.dhsk = cc.dhsk /\ c.host = cc.host /\ c.exp = cc.exp
      /\ c.unsigned = cc.unsigned
  BY DEF ChannelInv, Types, CcType
<1> HIDE DEF c
<1>4. e \in Entries /\ e.pair = Len(drawn) /\ e.host = drawn[e.pair] /\ MadeOf(e, drawn)
  BY <1>2, <1>3 DEF Entries, MadeOf, CcType, Pairings
<1> HIDE DEF e
<1>5. ListOK(f, drawn)
  BY <1>4, StoredOK DEF ChannelInv
<1> HIDE DEF f
<1>6. ListOK(file', drawn)
  <2>1. Len(f) \in Nat
    BY <1>5 DEF ListOK
  <2>2. CASE file' \in CutOff(f)
    <3>1. PICK n \in 0 .. Len(f) - 1 : file' = SubSeq(f, 1, n)
      BY <2>2 DEF CutOff
    <3>2. n \in 0 .. Len(f)
      BY <2>1
    <3>3. QED
      BY <1>5, <3>1, <3>2, PrefixOK
  <2>3. QED
    BY <1>1, <1>5, <2>2 DEF ChannelInv
<1>7. /\ d \in CcType /\ d.akh = cc.exp /\ d.dhsk = cc.exp /\ d.host = cc.host /\ d.exp = cc.exp
      /\ d.unsigned = cc.unsigned
  <2>1. LastIndex \in 0 .. LastIndex /\ c.exp \in Akhs
    BY <1>2, <1>3, Values DEF Akhs
  <2>2. QED
    BY <1>2, <1>3, <2>1 DEF CcType
<1> HIDE DEF d
<1>8. cc' \in CcType /\ CcOK(cc', drawn) /\ cc'.exp = cc.exp /\ cc'.host = cc.host
      /\ cc'.unsigned = cc.unsigned
  <2>1. CASE cc' = d
    BY <1>2, <1>7, <2>1 DEF CcOK, Pairings
  <2>2. CASE cc' = c
    BY <1>3, <2>2 DEF CcOK, ChannelInv
  <2>3. QED
    BY <1>1, <2>1, <2>2
<1>9. cam' \in CamType /\ cam'.phase = "confirm" /\ cam'.key = cam.key /\ cam'.using = cam.using /\ cam'.exp = cam.exp
      /\ cam'.known = cam.known /\ cam'.host = cam.host
  BY <1>1 DEF ChannelInv, Types, CamType, Phases
<1>10. Types'
  BY <1>1, <1>8, <1>9 DEF ChannelInv, Types
<1>11. SameKeys'
  BY <1>1, <1>9 DEF ChannelInv, SameKeys
<1>12. InExchange' /\ SamePairing' /\ KeysAgree'
  BY <1>1, <1>2, <1>8, <1>9 DEF InExchange, SamePairing, KeysAgree
<1>13. QED
  BY <1>1, <1>6, <1>8, <1>9, <1>10, <1>11, <1>12 DEF ChannelInv

LEMMA ConfirmAkhStep == ChannelInv /\ ConfirmAkh => ChannelInv'
<1> SUFFICES ASSUME ChannelInv, ConfirmAkh PROVE ChannelInv'
  OBVIOUS
<1> DEFINE known == cam.known \union {[host |-> cam.host, pair |-> cam.exp]}
<1>1. /\ cam.phase = "confirm" /\ cc' = NextPairing(cc) /\ UNCHANGED <<keys, joined, cw, file, cert, drawn, faults>>
      /\ \/ cc'.akh = cam.exp /\ cam' = [cam EXCEPT !.phase = "ns", !.pair = cam.exp, !.known = known]
         \/ cam' = [cam EXCEPT !.phase = "auth"]
  BY DEF ConfirmAkh
<1>2. cc' \in CcType /\ CcOK(cc', drawn) /\ ~cc'.unsigned
  BY <1>1, NextPairingOK DEF ChannelInv, Types, InExchange
<1>3. cam.exp \in Pairings
  <2>1. Len(drawn) \in Nat /\ Len(drawn) <= MaxExchanges
    BY DEF ChannelInv, Types
  <2>2. QED
    BY <1>1, <2>1, Values DEF ChannelInv, InExchange, Pairings
<1>4. known \in SUBSET Entries /\ KnownOK(known, drawn)
  <2>1. cam.exp = Len(drawn) /\ cam.exp \in 1 .. Len(drawn) /\ cam.host = drawn[cam.exp]
    BY <1>1, <1>3 DEF ChannelInv, InExchange, Pairings
  <2>2. QED
    BY <1>3, <2>1 DEF ChannelInv, Types, CamType, Entries, KnownOK, MadeOf
<1> HIDE DEF known
<1>5. /\ cam' \in CamType /\ cam'.key = cam.key /\ cam'.using = cam.using /\ KnownOK(cam'.known, drawn)
      /\ cam'.phase = "auth" \/ (cam'.phase = "ns" /\ cam'.pair = cam.exp /\ cc'.akh = cam.exp)
  <2>1. CASE cam' = [cam EXCEPT !.phase = "auth"]
    BY <2>1 DEF ChannelInv, Types, CamType, Phases
  <2>2. CASE cc'.akh = cam.exp /\ cam' = [cam EXCEPT !.phase = "ns", !.pair = cam.exp, !.known = known]
    BY <1>3, <1>4, <2>2 DEF ChannelInv, Types, CamType, Phases
  <2>3. QED
    BY <1>1, <2>1, <2>2
<1>6. Types'
  BY <1>1, <1>2, <1>5 DEF ChannelInv, Types
<1>7. SameKeys'
  BY <1>1, <1>5 DEF ChannelInv, SameKeys
<1>8. InExchange' /\ SamePairing' /\ KeysAgree'
  BY <1>1, <1>2, <1>3, <1>5 DEF InExchange, SamePairing, KeysAgree, CcOK
<1>9. QED
  BY <1>1, <1>2, <1>5, <1>6, <1>7, <1>8 DEF ChannelInv

LEMMA NsModuleStep == ChannelInv /\ NsModule => ChannelInv'
<1> SUFFICES ASSUME ChannelInv, NsModule PROVE ChannelInv'
  OBVIOUS
<1> DEFINE n == cam.sent + 1
           mine == <<cc.dhsk, cc.akh, n>>
           its == <<cam.pair, cam.pair, n>>
<1>1. /\ cam.phase \in {"ns", "sac"} /\ cam.sent < MaxKeys /\ UNCHANGED <<keys, joined, cw, file, cert, drawn, faults>>
      /\ cc' = [cc EXCEPT !.seed = mine] /\ cam' = [cam EXCEPT !.phase = "sac", !.sent = n, !.seed = its]
  BY DEF NsModule, Seed
<1>2. cam.pair \in Pairings /\ cc.akh = cam.pair /\ cc.dhsk = cam.pair /\ cc.host = drawn[cc.akh]
  BY <1>1 DEF ChannelInv, SamePairing, CcOK
<1>3. n \in 0 .. MaxKeys /\ n \in Nat
  BY <1>1, Values DEF ChannelInv, Types, CamType
<1>4. mine = its /\ mine \in Seeds
  BY <1>2, <1>3 DEF Seeds, Akhs
<1> HIDE DEF n, mine, its
<1>5. cc' \in CcType /\ cc'.seed = mine /\ cc'.akh = cc.akh /\ cc'.dhsk = cc.dhsk /\ cc'.host = cc.host
      /\ cc'.unsigned = cc.unsigned
  BY <1>1, <1>4 DEF ChannelInv, Types, CcType
<1>6. /\ cam' \in CamType /\ cam'.seed = its /\ cam'.phase = "sac" /\ cam'.pair = cam.pair
      /\ cam'.key = cam.key /\ cam'.using = cam.using /\ cam'.known = cam.known
  BY <1>1, <1>3, <1>4 DEF ChannelInv, Types, CamType, Phases
<1>7. Types' /\ CcOK(cc', drawn)
  BY <1>1, <1>5, <1>6 DEF ChannelInv, Types, CcOK
<1>8. SameKeys'
  BY <1>1, <1>6 DEF ChannelInv, SameKeys
<1>9. InExchange' /\ SamePairing' /\ KeysAgree'
  BY <1>1, <1>2, <1>4, <1>5, <1>6 DEF InExchange, SamePairing, KeysAgree
<1>10. QED
  BY <1>1, <1>6, <1>7, <1>8, <1>9 DEF ChannelInv

LEMMA SacKeyStep == ChannelInv /\ SacKey => ChannelInv'
<1> SUFFICES ASSUME ChannelInv, SacKey PROVE ChannelInv'
  OBVIOUS
<1> DEFINE k == cam.sent + 1
           r == Other
           ks == [cam.key EXCEPT ![r] = k]
<1>1. /\ cam.phase = "sac" /\ cam.sent < MaxKeys /\ UNCHANGED <<cc, joined, file, cert, drawn, faults>>
      /\ cc.seed = cam.seed
  BY DEF SacKey, ChannelInv, KeysAgree
<1>2. cam' = [cam EXCEPT !.sent = k, !.key = ks, !.phase = "sync"] /\ Installed(r, k)
  BY <1>1 DEF SacKey, Authentic
<1>3. r \in Parities /\ k \in 0 .. MaxKeys /\ k \in 1 .. MaxKeys /\ k \in ContentKeys /\ k # NoValue
  BY <1>1, Values DEF ChannelInv, Types, CamType, Parities, Other, NoValue, ContentKeys
<1> HIDE DEF k, r
<1>4. /\ ks \in [Parities -> ContentKeys] /\ keys' = ks /\ ks[r] = k /\ \A q \in Parities \ {r} : ks[q] = keys[q]
  <2>1. keys = cam.key /\ keys' = [keys EXCEPT ![r] = k] /\ keys \in [Parities -> ContentKeys]
    BY <1>2 DEF Installed, ChannelInv, SameKeys, Types
  <2>2. QED
    BY <1>3, <2>1
<1>5. /\ cw' \in [Programs -> [Parities -> ContentKeys]]
      /\ \A p \in joined : cw'[p][r] = k /\ \A q \in Parities \ {r} : cw'[p][q] = cw[p][q]
  <2>1. cw' = [p \in Programs |-> IF p \in joined THEN [cw[p] EXCEPT ![r] = k] ELSE cw[p]]
    BY <1>2 DEF Installed, Shared
  <2>2. joined \subseteq Programs /\ cw \in [Programs -> [Parities -> ContentKeys]]
    BY DEF ChannelInv, Types
  <2>3. QED
    BY <1>3, <2>1, <2>2
<1> HIDE DEF ks
<1>6. /\ cam' \in CamType /\ cam'.key = ks /\ cam'.using = cam.using /\ cam'.phase = "sync"
      /\ cam'.pair = cam.pair /\ cam'.seed = cam.seed /\ cam'.known = cam.known
  BY <1>2, <1>3, <1>4 DEF ChannelInv, Types, CamType, Phases
<1>7. Types'
  BY <1>1, <1>4, <1>5, <1>6 DEF ChannelInv, Types
<1>8. SameKeys'
  <2>1. Other' = r
    BY <1>6 DEF Other, r
  <2>2. ASSUME NEW q \in Parities, ks[q] \notin ZeroFirst \union {NoValue}, NEW p \in joined PROVE cw'[p][q] = ks[q]
    <3>1. CASE q = r
      BY <1>4, <1>5, <3>1
    <3>2. CASE q # r
      BY <1>4, <1>5, <2>2, <3>2 DEF ChannelInv, SameKeys
    <3>3. QED
      BY <3>1, <3>2
  <2>3. cam.using # NoValue => ks[cam.using] # NoValue
    <3>1. cam.using # NoValue => cam.using \in Parities /\ keys[cam.using] # NoValue
      BY DEF ChannelInv, Types, CamType, SameKeys
    <3>2. QED
      BY <1>3, <1>4, <3>1
  <2>4. QED
    BY <1>1, <1>3, <1>4, <1>6, <2>1, <2>2, <2>3 DEF SameKeys
<1>9. InExchange' /\ SamePairing' /\ KeysAgree'
  BY <1>1, <1>6 DEF ChannelInv, InExchange, SamePairing, KeysAgree
<1>10. QED
  BY <1>1, <1>6, <1>7, <1>8, <1>9 DEF ChannelInv

LEMMA SacSyncStep == ChannelInv /\ SacSync => ChannelInv'
<1> SUFFICES ASSUME ChannelInv, SacSync PROVE ChannelInv'
  OBVIOUS
<1>1. /\ cam.phase = "sync" /\ UNCHANGED <<cc, keys, joined, cw, file, cert, drawn, faults>>
      /\ cam' = [cam EXCEPT !.phase = "sac", !.using = Other] /\ cam.key[Other] # NoValue
  BY DEF SacSync, ChannelInv, SameKeys
<1>2. Other \in Parities
  BY DEF Other, ChannelInv, Types, CamType, Parities, NoValue
<1>3. /\ cam' \in CamType /\ cam'.key = cam.key /\ cam'.using = Other /\ cam'.phase = "sac"
      /\ cam'.pair = cam.pair /\ cam'.seed = cam.seed /\ cam'.known = cam.known
  BY <1>1, <1>2 DEF ChannelInv, Types, CamType, Phases
<1>4. Types'
  BY <1>1, <1>3 DEF ChannelInv, Types
<1>5. SameKeys'
  BY <1>1, <1>3 DEF ChannelInv, SameKeys
<1>6. InExchange' /\ SamePairing' /\ KeysAgree'
  BY <1>1, <1>3 DEF ChannelInv, InExchange, SamePairing, KeysAgree
<1>7. QED
  BY <1>1, <1>3, <1>4, <1>5, <1>6 DEF ChannelInv

LEMMA JoinStep == ASSUME NEW p \in Programs PROVE ChannelInv /\ Join(p) => ChannelInv'
<1> SUFFICES ASSUME ChannelInv, Join(p) PROVE ChannelInv'
  OBVIOUS
<1>1. /\ UNCHANGED <<cc, keys, file, cert, cam, drawn, faults>> /\ joined' = joined \union {p}
      /\ cw' = [cw EXCEPT ![p] = Given(p)]
      /\ joined \subseteq Programs /\ cw \in [Programs -> [Parities -> ContentKeys]] /\ keys \in [Parities -> ContentKeys]
  BY DEF Join, ChannelInv, Types
<1>2. /\ Given(p) \in [Parities -> ContentKeys]
      /\ \A r \in Parities : keys[r] \notin ZeroFirst \union {NoValue} => Given(p)[r] = keys[r]
  BY <1>1 DEF Given
<1>3. /\ cw' \in [Programs -> [Parities -> ContentKeys]] /\ joined' \subseteq Programs
      /\ cw'[p] = Given(p) /\ \A q \in Programs \ {p} : cw'[q] = cw[q]
  BY <1>1, <1>2
<1>4. Types'
  BY <1>1, <1>3 DEF ChannelInv, Types
<1>5. SameKeys'
  <2>1. ASSUME NEW r \in Parities, keys[r] \notin ZeroFirst \union {NoValue}, NEW q \in joined' PROVE cw'[q][r] = keys[r]
    BY <1>1, <1>2, <1>3, <2>1 DEF ChannelInv, SameKeys
  <2>2. QED
    BY <1>1, <2>1 DEF ChannelInv, SameKeys, Other
<1>6. InExchange' /\ SamePairing' /\ KeysAgree' /\ CcOK(cc', drawn')
  BY <1>1 DEF ChannelInv, InExchange, SamePairing, KeysAgree
<1>7. QED
  BY <1>1, <1>4, <1>5, <1>6 DEF ChannelInv

LEMMA FreshOK ==
    ASSUME NEW known \in SUBSET Entries, NEW n \in 0 .. MaxKeys
    PROVE  LET c == [FreshCam(known) EXCEPT !.sent = n]
           IN  /\ c \in CamType /\ c.phase = "closed" /\ c.using = NoValue
               /\ c.key = [r \in Parities |-> NoValue] /\ c.known = known
<1>1. /\ [r \in Parities |-> NoValue] \in [Parities -> ContentKeys] /\ 0 \in 0 .. LastIndex - 1 /\ 0 \in 0 .. MaxKeys
  BY Values DEF ContentKeys
<1>2. FreshCam(known) \in CamType
  BY <1>1, Values DEF FreshCam, CamType, Phases, HostIds
<1>3. QED
  BY <1>2 DEF FreshCam, CamType

\* the CAM or minisatip starts again
LEMMA ResetStep ==
    ASSUME ChannelInv, CamReset \/ Restart PROVE ChannelInv'
<1> DEFINE none == [r \in Parities |-> NoValue]
<1>1. /\ UNCHANGED <<file, cert, drawn>> /\ keys' = none /\ joined' = {} /\ faults' \in 0 .. MaxFaults
      /\ cc' \in {cc, NoCredentials} /\ cw' \in {cw, [p \in Programs |-> none]}
  BY Values DEF CamReset, Restart, Fault, ChannelInv, Types
<1>2. PICK known \in {cam.known, {}} : cam' = [FreshCam(known) EXCEPT !.sent = cam.sent]
  BY DEF CamReset, Restart
<1>3. known \in SUBSET Entries /\ KnownOK(known, drawn) /\ cam.sent \in 0 .. MaxKeys
  BY DEF ChannelInv, Types, CamType, KnownOK
<1>4. cam' \in CamType /\ cam'.phase = "closed" /\ cam'.using = NoValue /\ cam'.key = none
      /\ KnownOK(cam'.known, drawn)
  BY <1>2, <1>3, FreshOK
<1>5. /\ none \in [Parities -> ContentKeys] /\ cw' \in [Programs -> [Parities -> ContentKeys]]
  BY <1>1 DEF ContentKeys, ChannelInv, Types
<1>6. cc' \in CcType /\ CcOK(cc', drawn)
  BY <1>1, NoCredentialsOK DEF ChannelInv, Types
<1> HIDE DEF none
<1>7. Types'
  BY <1>1, <1>4, <1>5, <1>6 DEF ChannelInv, Types
<1>8. SameKeys'
  BY <1>1, <1>4 DEF SameKeys
<1>9. InExchange' /\ SamePairing' /\ KeysAgree'
  BY <1>4 DEF InExchange, SamePairing, KeysAgree
<1>10. QED
  BY <1>1, <1>4, <1>6, <1>7, <1>8, <1>9 DEF ChannelInv

LEMMA RetryStep == ChannelInv /\ CamRetry => ChannelInv'
<1> SUFFICES ASSUME ChannelInv, CamRetry PROVE ChannelInv'
  OBVIOUS
<1>1. /\ UNCHANGED <<cc, keys, joined, cw, file, cert, drawn>> /\ faults' \in 0 .. MaxFaults
      /\ cam' = [cam EXCEPT !.phase = "akh", !.tries = 0]
  BY Values DEF CamRetry, Fault, ChannelInv, Types
<1>2. /\ cam' \in CamType /\ cam'.phase = "akh" /\ cam'.key = cam.key /\ cam'.using = cam.using
      /\ cam'.known = cam.known
  <2>1. 0 \in 0 .. LastIndex - 1
    BY Values
  <2>2. QED
    BY <1>1, <2>1 DEF ChannelInv, Types, CamType, Phases
<1>3. Types'
  BY <1>1, <1>2 DEF ChannelInv, Types
<1>4. SameKeys'
  BY <1>1, <1>2 DEF ChannelInv, SameKeys
<1>5. InExchange' /\ SamePairing' /\ KeysAgree'
  BY <1>2 DEF InExchange, SamePairing, KeysAgree
<1>6. QED
  BY <1>1, <1>2, <1>3, <1>4, <1>5 DEF ChannelInv

LEMMA StaysStep ==
    ASSUME ChannelInv, NewCertificate \/ UNCHANGED vars PROVE ChannelInv'
<1>1. /\ UNCHANGED <<cc, keys, joined, cw, file, cam, drawn>> /\ faults' \in 0 .. MaxFaults
      /\ cert' \in Certs
  BY Values DEF NewCertificate, Fault, vars, ChannelInv, Types
<1>2. Types'
  BY <1>1 DEF ChannelInv, Types
<1>3. SameKeys'
  BY <1>1 DEF ChannelInv, SameKeys, Other
<1>4. InExchange' /\ SamePairing' /\ KeysAgree' /\ CcOK(cc', drawn')
  BY <1>1 DEF ChannelInv, InExchange, SamePairing, KeysAgree
<1>5. QED
  BY <1>1, <1>2, <1>3, <1>4 DEF ChannelInv

-----------------------------------------------------------------------------
(* The theorems *)

LEMMA InitInv == Init => ChannelInv
<1> SUFFICES ASSUME Init PROVE ChannelInv
  OBVIOUS
<1> DEFINE none == [r \in Parities |-> NoValue]
<1>1. /\ cc = NoCredentials /\ keys = none /\ joined = {} /\ cw = [p \in Programs |-> none] /\ file = <<>>
      /\ cert = "first" /\ cam = FreshCam({}) /\ drawn = <<>> /\ faults = 0
  BY DEF Init
<1>2. /\ [FreshCam({}) EXCEPT !.sent = 0] = FreshCam({}) /\ 0 \in 0 .. MaxKeys
  BY Values DEF FreshCam
<1>3. cam \in CamType /\ cam.phase = "closed" /\ cam.using = NoValue /\ cam.key = none
      /\ KnownOK(cam.known, drawn)
  BY <1>1, <1>2, FreshOK DEF KnownOK
<1>4. none \in [Parities -> ContentKeys] /\ cw \in [Programs -> [Parities -> ContentKeys]]
  BY <1>1 DEF ContentKeys
<1>5. <<>> \in Seq(HostIds) /\ Len(<<>>) <= MaxExchanges /\ 0 \in 0 .. MaxFaults
  BY Values
<1>6. ListOK(<<>>, drawn)
  BY Values DEF ListOK
<1> HIDE DEF none
<1>7. Types
  BY <1>1, <1>3, <1>4, <1>5, NoCredentialsOK DEF Types, Certs
<1>8. SameKeys
  BY <1>1, <1>3 DEF SameKeys
<1>9. InExchange /\ SamePairing /\ KeysAgree
  BY <1>3 DEF InExchange, SamePairing, KeysAgree
<1>10. QED
  BY <1>1, <1>3, <1>6, <1>7, <1>8, <1>9, NoCredentialsOK DEF ChannelInv

LEMMA StepInv == ChannelInv /\ [Next]_vars => ChannelInv'
  BY OpenReqStep, AskAkhStep, AuthNonceStep, CertificatesStep, ConfirmAkhStep, NsModuleStep, SacKeyStep, SacSyncStep,
     JoinStep, ResetStep, RetryStep, StaysStep DEF Next, Protocol

\* The inductive invariant: the file, the credentials, the exchange under way, the pairing and
\* the keys of the two sides agree.
THEOREM ChannelInvariant == Spec => []ChannelInv
  BY InitInv, StepInv, PTL DEF Spec

\* Every variable keeps its type: akh_index stays within the entries of the file, and the file
\* within its bound.
THEOREM ChannelTypeCorrect == Spec => []TypeOK
<1>1. ChannelInv => TypeOK
  BY DEF ChannelInv, Types, ListOK, TypeOK, CcType, CamType, Akhs, ContentKeys, Phases
<1>2. QED
  BY <1>1, ChannelInvariant, PTL

\* AKH, secret and host id belong to one exchange, whatever loads from the file, exchanges,
\* refused certificates, resets and restarts came before.  The host id may be another one
\* after restart_dh_challenge failed to read the key of a new certificate, but never once the
\* secure channel is up.
THEOREM ChannelCredentials == Spec => []CredentialsAgree
<1>1. ChannelInv => CredentialsAgree
  BY Values DEF ChannelInv, CcOK, SamePairing, CredentialsAgree
<1>2. QED
  BY <1>1, ChannelInvariant, PTL

\* write_authdata keeps each pairing once, the newest first, also after a write that was cut off.
THEOREM ChannelFile == Spec => []FileOrdered
<1>1. ChannelInv => FileOrdered
  BY DEF ChannelInv, ListOK, FileOrdered
<1>2. QED
  BY <1>1, ChannelInvariant, PTL

\* Both sides of the secure channel hold the same keys: no message of the CAM is dropped.
THEOREM ChannelKeys == Spec => []KeysAgree
<1>1. ChannelInv => KeysAgree
  BY DEF ChannelInv
<1>2. QED
  BY <1>1, ChannelInvariant, PTL

\* The key the CAM scrambles with is in the device's register and with every program that has a
\* place, unless its first byte is 0.
THEOREM ChannelKeyInUse == Spec => []KeyInUse
<1>1. ChannelInv => KeyInUse
  <2> SUFFICES ASSUME ChannelInv, cam.using # NoValue
               PROVE  /\ keys[cam.using] = cam.key[cam.using]
                      /\ keys[cam.using] \notin ZeroFirst => \A p \in joined : cw[p][cam.using] = cam.key[cam.using]
    BY DEF KeyInUse
  <2>1. cam.using \in Parities /\ keys = cam.key /\ cam.key[cam.using] # NoValue
    BY DEF ChannelInv, Types, CamType, SameKeys
  <2>2. QED
    BY <2>1 DEF ChannelInv, SameKeys
<1>2. QED
  BY <1>1, ChannelInvariant, PTL
=============================================================================
