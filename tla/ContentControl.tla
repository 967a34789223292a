--------------------------- MODULE ContentControl ---------------------------
(***************************************************************************)
(* CI+ content control (ca.cpp): how minisatip and a CAM authenticate each *)
(* other, agree on the keys of their secure channel (SAC), remember the    *)
(* pairing in a file, and how the CAM hands over the keys of the content.  *)
(*                                                                         *)
(* All handlers run on the thread of the CAM's socket.  What is hard is    *)
(* the order: the CAM may be reset, exchanged or lose its memory, and      *)
(* minisatip may stop, at any point; the file may be cut off in the middle *)
(* of a write; and the credentials are spread over elements that arrive,   *)
(* are computed and are invalidated one by one.                            *)
(*                                                                         *)
(* A pairing is one Diffie-Hellman exchange, named by the exponent the     *)
(* host drew for it: DHSK and AKH stand for that name.  Hashes and ciphers *)
(* are taken to be perfect: two keys agree when what they are made of      *)
(* agrees.                                                                 *)
(***************************************************************************)
EXTENDS Integers, Sequences, FiniteSets, FiniteSetsExt, SequencesExt

CONSTANTS
    MaxExchanges,  \* bound on Diffie-Hellman exchanges
    MaxKeys,       \* bound on content keys (and on SAC keys)
    MaxFaults,     \* bound on resets, restarts, failed writes, changed certificates
    Kept,          \* entries the file keeps: 3 old ones and the new one
    Programs,      \* programs that may be sent to the CAM
    ZeroFirst      \* content keys whose first byte is 0

ASSUME ContentControlAssumption ==
    MaxExchanges \in Nat \ {0} /\ MaxKeys \in Nat \ {0} /\ MaxFaults \in Nat /\ Kept \in 1 .. 5
    /\ ZeroFirst \subseteq 1 .. MaxKeys

VARIABLES
    cc,      \* private_data: elements, dhsk, exponent, SAC keys
    keys,    \* the two key registers of the device
    joined,  \* the programs that have a place in the CAM's CAPMTs
    cw,      \* the newest CW each program was given, by parity
    file,    \* the pairings on disk, the newest first
    cert,    \* the device certificate
    cam,     \* the CAM
    drawn,   \* the exponents drawn so far: the host id each was signed with
    faults

vars == <<cc, keys, joined, cw, file, cert, cam, drawn, faults>>

NoValue == -1                     \* an element that is not valid
Zeros == 0                        \* an AKH of zeros: no pairing known
LastIndex == 5                    \* akh_index when there is nothing more to try
Pairings == 1 .. MaxExchanges
HostIds == {"first", "second", "garbage"}   \* garbage: never initialised
\* device.pem: "keyless" is the second one without a readable private key, "none" no
\* certificate that can be loaded
Certs == {"first", "second", "keyless", "none"}
NoSeed == <<>>
Parities == {0, 1}

(***************************************************************************)
(* The file of pairings                                                    *)
(***************************************************************************)
Entries == [host : HostIds, pair : Pairings]

\* get_authdata: the entry at an index, if the file has one
HasEntry(i) == i < Len(file)
Entry(i) == file[i + 1]

\* write_authdata: the new entry first, then the old ones up to the bound; nothing
\* when the pairing is there already
Stored(e) ==
    IF \E i \in DOMAIN file : file[i].pair = e.pair THEN file
    ELSE <<e>> \o SubSeq(file, 1, Min({Len(file), Kept - 1}))
\* the file is truncated and written entry by entry: what is left when that fails
CutOff(f) == {SubSeq(f, 1, n) : n \in 0 .. Len(f) - 1}

(***************************************************************************)
(* Elements.  akh is element 22, host 5, got the elements of the CAM that  *)
(* are valid (19 auth_nonce, 14 DHPM, 18 Signature_B, 16 and 8 the         *)
(* certificates).  seed is what the keys of the secure channel are made of. *)
(* unsigned is a history: the host id is that of a certificate whose key   *)
(* could not be read, so no exchange was signed with it.                   *)
(***************************************************************************)
NoCredentials ==
    [open |-> FALSE, akh |-> NoValue, host |-> "garbage", dhsk |-> NoValue, index |-> LastIndex, exp |-> NoValue,
     got |-> {}, seed |-> NoSeed, unsigned |-> FALSE]

\* element_set: the elements of a message become valid
WithElements(c, ids) == [c EXCEPT !.got = @ \union ids]
\* element_get_req: only a valid element is answered, else the whole message is not
Answered(c) == c.akh # NoValue

\* data_initialize: the first stored pairing; without one host_id is not initialised
Initialized ==
    IF HasEntry(0)
    THEN [NoCredentials EXCEPT !.open = TRUE, !.akh = Entry(0).pair, !.host = Entry(0).host,
                               !.dhsk = Entry(0).pair, !.index = 0]
    ELSE [NoCredentials EXCEPT !.open = TRUE, !.akh = Zeros]

\* a faulty variant: the shared secret of the entry is not loaded with its AKH
NextPairingNoDhsk(c) ==
    IF c.index = LastIndex THEN c
    ELSE IF HasEntry(c.index)
    THEN [c EXCEPT !.akh = Entry(c.index).pair, !.host = Entry(c.index).host, !.index = @ + 1,
                   !.unsigned = FALSE]
    ELSE [c EXCEPT !.akh = Zeros, !.host = "garbage", !.index = LastIndex, !.unsigned = FALSE]

\* data_req_handle_new: the CAM asks for the AKH, each time for the next stored one
NextPairing(c) ==
    IF c.index = LastIndex THEN c
    ELSE IF HasEntry(c.index)
    THEN [c EXCEPT !.akh = Entry(c.index).pair, !.host = Entry(c.index).host,
                   !.dhsk = Entry(c.index).pair, !.index = @ + 1, !.unsigned = FALSE]
    ELSE [c EXCEPT !.akh = Zeros, !.host = "garbage", !.index = LastIndex, !.unsigned = FALSE]

CertLoaded == cert # "none"
HostIdOfCert == IF cert = "keyless" THEN "second" ELSE cert
\* rsa_privatekey_open
KeyOpens == cert # "keyless"
NewExponent == Len(drawn) + 1
\* restart_dh_challenge: a new exponent, and what the old exchange gave is dropped.
\* Without the certificate nothing changes.  Without its key the host id is the new one
\* already while AKH, secret and exponent are still the old ones.  Either way the CAM is
\* to be driven as a plain CI one from its next start (force_ci)
Restarted(c) ==
    CASE ~CertLoaded -> c
      [] CertLoaded /\ ~KeyOpens -> [c EXCEPT !.host = HostIdOfCert, !.unsigned = TRUE]
      [] CertLoaded /\ KeyOpens ->
            [c EXCEPT !.exp = NewExponent, !.host = HostIdOfCert, !.akh = NoValue, !.got = @ \ {14, 18},
                      !.unsigned = FALSE]

\* a faulty variant: the stored pairings are still tried after the exchange
ChallengedKeepsIndex(c) == [c EXCEPT !.dhsk = c.exp, !.akh = c.exp]
\* check_dh_challenge: everything the keys are made of is there
CanChallenge(c) == {8, 14, 16, 18, 19} \subseteq c.got
\* its DHSK and AKH, and no more tries of stored pairings
Challenged(c) == [c EXCEPT !.dhsk = c.exp, !.akh = c.exp, !.index = LastIndex]

\* generate_key_seed and generate_SAK_SEK: from dhsk, the AKH and the two nonces
Seed(c, ns) == <<c.dhsk, c.akh, ns>>

(***************************************************************************)
(* The CAM (external): phase of the protocol, the pairings it remembers,   *)
(* the one it uses, the keys it computed, the content keys it sent and the *)
(* register it scrambles with.                                             *)
(***************************************************************************)
FreshCam(known) ==
    [phase |-> "closed", known |-> known, tries |-> 0, exp |-> NoValue, pair |-> NoValue, host |-> "garbage",
     seed |-> NoSeed, key |-> [r \in Parities |-> NoValue], using |-> NoValue, sent |-> 0]

Init ==
    /\ cc = NoCredentials
    /\ keys = [r \in Parities |-> NoValue]
    /\ joined = {}
    /\ cw = [p \in Programs |-> [r \in Parities |-> NoValue]]
    /\ file = <<>> /\ cert = "first"
    /\ cam = FreshCam({})
    /\ drawn = <<>> /\ faults = 0

\* ci_ccmgr_cc_open_cnf
OpenReq ==
    /\ cam.phase = "closed"
    /\ cc' = Initialized
    /\ cam' = [cam EXCEPT !.phase = "akh", !.tries = 0]
    /\ UNCHANGED <<keys, joined, cw, file, cert, drawn, faults>>

\* cc_data_req for the AKH and the host id (data_req_loop): the CAM takes a pairing it
\* knows, with the host id it knows for it; else it asks again or starts the exchange
AskAkh ==
    /\ cam.phase = "akh" /\ cc.open
    /\ cc' = NextPairing(cc)
    /\ IF \E k \in cam.known : k.pair = cc'.akh /\ k.host = cc'.host
       THEN cam' = [cam EXCEPT !.phase = "ns", !.pair = cc'.akh, !.host = cc'.host]
       ELSE \/ cam' = [cam EXCEPT !.phase = "auth"]
            \/ cc'.akh # Zeros /\ cam.tries + 1 < LastIndex /\ cam' = [cam EXCEPT !.tries = @ + 1]
    /\ UNCHANGED <<keys, joined, cw, file, cert, drawn, faults>>

\* cc_data_req with the auth_nonce: DHPH and Signature_A go back.  When the exchange
\* could not be started there are none, or those of an older nonce, and the CAM refuses
AuthNonce ==
    /\ cam.phase = "auth" /\ cc.open /\ Len(drawn) < MaxExchanges
    /\ cc' = Restarted(WithElements(cc, {19}))
    /\ IF CertLoaded /\ KeyOpens
       THEN /\ cam' = [cam EXCEPT !.phase = "certs", !.exp = NewExponent, !.host = HostIdOfCert]
            /\ drawn' = Append(drawn, HostIdOfCert)
       ELSE cam' = [cam EXCEPT !.phase = "refused"] /\ UNCHANGED drawn
    /\ UNCHANGED <<keys, joined, cw, file, cert, faults>>

Fault == faults < MaxFaults /\ faults' = faults + 1

\* cc_data_req with DHPM, Signature_B and the certificates, the brand certificate
\* last: data_get_handle_new computes the pairing and stores it.  The check of the
\* certificates may fail, the file may not be opened for writing (the old one stays) or
\* not be written to its end, and the CAM may repeat the message
Certificates ==
    /\ cam.phase \in {"certs", "confirm"} /\ cc.open
    /\ cam.phase = "confirm" => Fault
    /\ LET c == WithElements(cc, {14, 18, 16, 8})
           f == Stored([host |-> c.host, pair |-> c.exp])
       IN  \/ /\ CanChallenge(c) /\ cc' = Challenged(c) /\ file' = f
              /\ cam.phase = "certs" => UNCHANGED faults
           \/ Fault /\ CanChallenge(c) /\ cc' = Challenged(c) /\ f # file /\ file' \in CutOff(f) \union {file}
           \/ Fault /\ cc' = c /\ UNCHANGED file      \* check_ci_certificates
    /\ cam' = [cam EXCEPT !.phase = "confirm"]
    /\ UNCHANGED <<keys, joined, cw, cert, drawn>>

\* the CAM asks for the AKH to compare it with its own
ConfirmAkh ==
    /\ cam.phase = "confirm" /\ cc.open
    /\ cc' = NextPairing(cc)
    /\ cam' = IF Answered(cc') /\ cc'.akh = cam.exp
              THEN [cam EXCEPT !.phase = "ns", !.pair = cam.exp,
                               !.known = @ \union {[host |-> cam.host, pair |-> cam.exp]}]
              ELSE [cam EXCEPT !.phase = "auth"]
    /\ UNCHANGED <<keys, joined, cw, file, cert, drawn, faults>>

\* Ns_module, which triggers the SAC keys; the CAM computes its own
NsModule ==
    /\ cam.phase \in {"ns", "sac"} /\ cc.open /\ cam.sent < MaxKeys
    /\ cc' = [cc EXCEPT !.seed = Seed(cc, cam.sent + 1)]
    /\ cam' = [cam EXCEPT !.phase = "sac", !.sent = @ + 1, !.seed = <<cam.pair, cam.pair, cam.sent + 1>>]
    /\ UNCHANGED <<keys, joined, cw, file, cert, drawn, faults>>

\* send_cw_to_all_pmts
Shared(r, k) == [p \in Programs |-> IF p \in joined THEN [cw[p] EXCEPT ![r] = k] ELSE cw[p]]
\* check_new_key: precursor and register of the message make a key, which goes to the
\* register and to the programs that have a place
Installed(r, k) == keys' = [keys EXCEPT ![r] = k] /\ cw' = Shared(r, k)

\* sac_check_auth after sac_crypt
Authentic == cc.seed = cam.seed

\* the register the CAM is not scrambling with
Other == IF cam.using = NoValue THEN 0 ELSE 1 - cam.using

\* cc_sac_data_req with keyprecursor and key register: a message that does not
\* authenticate under the SAC keys is dropped
SacKey ==
    /\ cam.phase = "sac" /\ cc.open /\ cam.sent < MaxKeys
    /\ LET k == cam.sent + 1
       IN  IF Authentic
           THEN cam' = [cam EXCEPT !.sent = k, !.key[Other] = k, !.phase = "sync"] /\ Installed(Other, k)
           ELSE cam' = [cam EXCEPT !.sent = k] /\ UNCHANGED <<keys, cw>>
    /\ UNCHANGED <<cc, joined, file, cert, drawn, faults>>

\* cc_sac_sync_req: the CAM scrambles with the new key from now on
SacSync ==
    /\ cam.phase = "sync" /\ cc.open
    /\ cam' = [cam EXCEPT !.phase = "sac", !.using = Other]
    /\ UNCHANGED <<cc, keys, joined, cw, file, cert, drawn, faults>>

\* a faulty variant: a program that joins waits for the next key
GivenNone(p) == cw[p]
\* the end of ca_send_pmt: a program that joins is given the keys the device holds; a
\* key is taken to be absent when its first byte is 0
Given(p) ==
    [r \in Parities |-> IF keys[r] \notin ZeroFirst \union {NoValue} THEN keys[r] ELSE cw[p][r]]
Join(p) ==
    /\ p \notin joined /\ cam.phase # "closed"
    /\ joined' = joined \union {p}
    /\ cw' = [cw EXCEPT ![p] = Given(p)]
    /\ UNCHANGED <<cc, keys, file, cert, cam, drawn, faults>>

(***************************************************************************)
(* Faults                                                                  *)
(***************************************************************************)
\* the CAM starts again, may have lost its memory or be another one.  ca_teardown: the
\* keys are wiped and no program has a place; the credentials and the CWs stay
CamReset ==
    /\ Fault /\ cam.phase # "closed"
    /\ \E known \in {cam.known, {}} : cam' = [FreshCam(known) EXCEPT !.sent = cam.sent]
    /\ keys' = [r \in Parities |-> NoValue] /\ joined' = {}
    /\ UNCHANGED <<cc, cw, file, cert, drawn>>
\* minisatip stops and starts again
Restart ==
    /\ Fault
    /\ cc' = NoCredentials
    /\ keys' = [r \in Parities |-> NoValue] /\ joined' = {}
    /\ cw' = [p \in Programs |-> [r \in Parities |-> NoValue]]
    /\ cam' = [FreshCam(cam.known) EXCEPT !.sent = cam.sent]
    /\ UNCHANGED <<file, cert, drawn>>
\* another device certificate, and so another host id, is installed, with its key or
\* without, or none is left
NewCertificate ==
    /\ Fault /\ cert' \in Certs \ {"first", cert}
    /\ UNCHANGED <<cc, keys, joined, cw, file, cam, drawn>>
\* a CAM that was refused asks for the AKH again, without a new start
CamRetry ==
    /\ Fault /\ cam.phase = "refused" /\ cam' = [cam EXCEPT !.phase = "akh", !.tries = 0]
    /\ UNCHANGED <<cc, keys, joined, cw, file, cert, drawn>>

\* what the CAM does on its own, one thing after the other
Protocol ==
    OpenReq \/ AskAkh \/ AuthNonce \/ Certificates \/ ConfirmAkh \/ NsModule \/ SacKey \/ SacSync

Next == Protocol \/ (\E p \in Programs : Join(p)) \/ CamReset \/ Restart \/ NewCertificate \/ CamRetry

Spec == Init /\ [][Next]_vars

\* The CAM's socket is polled and each message answered on its thread.
FairSpec == Spec /\ WF_vars(Protocol)

-----------------------------------------------------------------------------
TypeOK ==
    /\ cc.akh \in Pairings \union {NoValue, Zeros} /\ cc.dhsk \in Pairings \union {NoValue}
    /\ cc.index \in 0 .. LastIndex /\ cc.host \in HostIds
    /\ cc.got \subseteq {8, 14, 16, 18, 19}
    /\ joined \subseteq Programs
    /\ keys \in [Parities -> 1 .. MaxKeys \union {NoValue}]
    /\ cw \in [Programs -> [Parities -> 1 .. MaxKeys \union {NoValue}]]
    /\ file \in Seq(Entries) /\ Len(file) <= Kept
    /\ cam.phase \in {"closed", "akh", "auth", "refused", "certs", "confirm", "ns", "sac", "sync"}
    /\ cam.tries \in 0 .. LastIndex - 1 /\ cam.sent \in 0 .. MaxKeys
    /\ cert \in Certs
    /\ drawn \in Seq(HostIds) /\ Len(drawn) <= MaxExchanges /\ faults \in 0 .. MaxFaults

\* The AKH minisatip offers, the secret it keeps for it and the host id it names belong
\* to one pairing, however loads from the file, exchanges, refused certificates and
\* restarts alternate: data_req_handle_new, restart_dh_challenge and
\* check_dh_challenge change them one by one.  The host id is the exception: once the
\* key of a new certificate could not be read, restart_dh_challenge has left the new host
\* id beside the old AKH, and it stays there until the next start, the next stored
\* pairing or the next exchange that can be signed.  No secure channel comes up on such
\* credentials.
CredentialsAgree ==
    cc.akh \in Pairings =>
        /\ cc.dhsk = cc.akh
        /\ cc.host = drawn[cc.akh] \/ (cc.unsigned /\ cam.phase \notin {"ns", "sac", "sync"})

\* Once the CAM sends over the secure channel both sides hold the same keys
\* (generate_key_seed, generate_SAK_SEK), whichever pairing they settled on: no message
\* of cc_sac_data_req is dropped.
KeysAgree == cam.phase \in {"sac", "sync"} => cc.seed = cam.seed

\* write_authdata keeps each pairing once and the newest first, also when the CAM
\* repeats its certificates and when a write was cut off.
FileOrdered == \A i, j \in DOMAIN file : i < j => file[i].pair > file[j].pair

\* The key the CAM scrambles with is in the device's register and with every program
\* that has a place, whether it was there when the key came or joined later; keys that
\* begin with a 0 byte are the exception ca_send_pmt makes.
KeyInUse ==
    cam.using # NoValue =>
        /\ keys[cam.using] = cam.key[cam.using]
        /\ keys[cam.using] \notin ZeroFirst => \A p \in joined : cw[p][cam.using] = cam.key[cam.using]

\* When the faults stop the two sides settle: the CAM ends its tries of stored pairings
\* (akh_index) and an exchange, if it needs one, is accepted.  A CAM that was refused
\* because the certificate or its key could not be loaded waits for its next start.
Settles == <>[](cam.phase \in {"sac", "sync", "refused"} \/ cam.sent = MaxKeys)

=============================================================================
