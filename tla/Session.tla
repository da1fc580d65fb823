------------------------------ MODULE Session ------------------------------
(***************************************************************************)
(* One connection: handle_client (src/server/dispatcher.c) on the server  *)
(* side, and on the other side either the honest client of                 *)
(* src/client/client_core.c (perform_dh_handshake, perform_ride_request)  *)
(* or an adversary that sends any sequence of framed messages, among them *)
(* the forged request of src/client/malicious_client.c.                    *)
(*                                                                         *)
(* TCP delivers in order and loses nothing while the connection is open,  *)
(* so each direction is a sequence of whole messages.  A message is a     *)
(* record of the header fields (type, opcode, len, checksum) and a body   *)
(* of bytes.  The business logic behind a ride request (rate limit,       *)
(* matching) is RideDispatch's; here its answer is one of its three reply *)
(* texts.                                                                  *)
(***************************************************************************)
EXTENDS Codec, FiniteSets

CONSTANTS
    PrivKeys,       \* values generate_private_key may return
    ClientIds,      \* client ids a request may carry
    AtkPubs,        \* public keys an adversary may send (any int64)
    WrongKeys,      \* session keys (byte strings) an adversary may encrypt with
    Peers,          \* subset of {"honest", "adversary", "malicious"}
    MaxSends,       \* bound on the adversary's messages
    Timeouts        \* TRUE: the client's 2 s SO_RCVTIMEO may expire

ASSUME Peers \subseteq {"honest", "adversary", "malicious"} /\ MaxSends \in Nat

\* protocol.h
MSG_TYPE_RIDE_REQ == 1
MSG_TYPE_RIDE_RESP == 2
MSG_TYPE_HANDSHAKE == 3
MSG_TYPE_HANDSHAKE_ACK == 4
OP_REQ_RIDE == 1
OP_DRIVER_JOIN == 2
OP_RESPONSE == 32768
OP_HANDSHAKE == 4
MaxBody == 1024

\* Little-endian bytes of a uint32 (the x86 layout of the packed structs).
LE32(n) == [i \in 1..4 |-> (n \div (2 ^ (8 * (i - 1)))) % 256]

\* lat = 25.0330 and lon = 121.5654 as IEEE-754 doubles, little-endian.
LatBytes == <<156, 196, 32, 176, 114, 8, 57, 64>>
LonBytes == <<35, 74, 123, 131, 47, 100, 94, 64>>

\* RideRequestData {client_id, type, lat, lon}: 24 bytes.
RequestBytes(cid, vip) == LE32(cid) \o LE32(vip) \o LatBytes \o LonBytes

\* The replies of process_ride_request_wrapper, reduced to the words the
\* client looks for ("Ride Confirmed!", "Blocked.") or does not.
Confirmed == <<82, 105, 100, 101, 32, 67, 111, 110, 102, 105, 114, 109, 101, 100, 33>>
Blocked == <<69, 114, 114, 111, 114, 58, 32, 66, 108, 111, 99, 107, 101, 100, 46>>
NoDrivers == <<69, 114, 114, 111, 114, 58, 32, 78, 111, 32, 100, 114, 105, 118,
               101, 114, 115, 32, 97, 118, 97, 105, 108, 97, 98, 108, 101, 46>>
ReplyTexts == {Confirmed, Blocked, NoDrivers}
BlockedWord == <<66, 108, 111, 99, 107, 101, 100, 46>>          \* "Blocked."

\* strstr(text, word) != NULL
Strstr(text, word) == \E t \in {text} : word \in SubSeqs(t)

\* enc is a ghost field: the key the sender encrypted the body with.
Msg(type, opcode, len, ck, body, enc) ==
    [type |-> type, opcode |-> opcode, len |-> len, ck |-> ck, body |-> body,
     enc |-> enc]

\* Public keys travel as int64 bodies; the model keeps the number.  No
\* checksum is computed for a handshake (checksum = 0).
HandshakeMsg(type, opcode, pub) == Msg(type, opcode, 8, 0, <<pub>>, <<>>)

VARIABLES
    c2s, s2c,       \* the two directions of the connection
    hpc,            \* handle_client: "recv", "closed" (normal end), "dropped"
    skey,           \* its session_key (<<>> until a handshake)
    established,    \* is_key_established
    peer,           \* who is on the other end
    cpc,            \* the client's step
    cpriv, ckey,    \* its private key and session key
    sent,           \* messages the adversary has sent
    peerClosed,     \* the client has closed its socket
    dispatched      \* ghost: log of requests given to process_ride_request_wrapper

vars == <<c2s, s2c, hpc, skey, established, peer, cpc, cpriv, ckey, sent,
          peerClosed, dispatched>>
srvVars == <<hpc, skey, established>>
cliVars == <<peer, cpc, cpriv, ckey, sent, peerClosed>>

Init ==
    /\ c2s = <<>> /\ s2c = <<>>
    /\ hpc = "recv" /\ skey = <<>> /\ established = FALSE
    /\ peer \in Peers
    /\ cpc = "start" /\ cpriv = 0 /\ ckey = <<>>
    /\ sent = 0 /\ peerClosed = FALSE
    /\ dispatched = <<>>
-----------------------------------------------------------------------------
(* handle_client: one loop iteration per message at the head of c2s.      *)

\* recv_n of the header returns 0: the peer closed; break and close.
SrvEOF ==
    /\ hpc = "recv"
    /\ c2s = <<>>
    /\ peerClosed
    /\ hpc' = "closed"
    /\ UNCHANGED <<c2s, s2c, skey, established, cliVars, dispatched>>

\* header.length > 1024: break before reading the body.
SrvOversize ==
    /\ hpc = "recv"
    /\ c2s # <<>>
    /\ Head(c2s).len > MaxBody
    /\ hpc' = "dropped"
    /\ UNCHANGED <<c2s, s2c, skey, established, cliVars, dispatched>>

\* MSG_TYPE_HANDSHAKE: a fresh key pair, the shared secret from the
\* client's public key, the session key; reply with the server's public key
\* and wait for the next message (continue).
SrvHandshake ==
    /\ hpc = "recv"
    /\ c2s # <<>>
    /\ Head(c2s).len <= MaxBody
    /\ Head(c2s).type = MSG_TYPE_HANDSHAKE
    /\ \E srv_priv \in PrivKeys :
         /\ skey' = derive_session_key(
                      calculate_shared_secret(Head(c2s).body[1], srv_priv))
         /\ s2c' = Append(s2c, HandshakeMsg(MSG_TYPE_HANDSHAKE_ACK, OP_HANDSHAKE,
                                            calculate_public_key(srv_priv)))
    /\ established' = TRUE
    /\ c2s' = Tail(c2s)
    /\ UNCHANGED <<hpc, cliVars, dispatched>>

\* process_driver_join: the join itself is RideDispatch's DriverJoin; the
\* reply is a bare header (length 0), then break.
JoinReply == Msg(MSG_TYPE_RIDE_RESP, OP_RESPONSE, 0, 0, <<>>, <<>>)

\* MSG_TYPE_RIDE_REQ before any handshake: break, no reply.
SrvRequestNoKey ==
    /\ hpc = "recv"
    /\ c2s # <<>>
    /\ Head(c2s).len <= MaxBody
    /\ Head(c2s).type = MSG_TYPE_RIDE_REQ
    /\ ~established
    /\ hpc' = "dropped"
    /\ UNCHANGED <<c2s, s2c, skey, established, cliVars, dispatched>>

\* Mutant: the checksum comparison is dropped.
VerifiedUnchecked(m, key) == TRUE

\* rc4_crypt(body, header.length, session_key), then
\* calculate_checksum(body, header.length) == header.checksum.
Verified(m, key) == calculate_checksum(rc4_crypt(m.body, key)) = m.ck

\* Mutant: the reply's checksum is taken after encryption, over the
\* ciphertext.
send_response_packet_late_checksum(text, key) ==
    LET cipher == rc4_crypt(text, key) IN
    Msg(MSG_TYPE_RIDE_RESP, OP_RESPONSE, Len(text), calculate_checksum(cipher),
        cipher, key)

\* send_response_packet: checksum over the plaintext, then encrypt with the
\* session key.
send_response_packet(text, key) ==
    Msg(MSG_TYPE_RIDE_RESP, OP_RESPONSE, Len(text), calculate_checksum(text),
        rc4_crypt(text, key), key)

\* A MSG_TYPE_RIDE_REQ message after a handshake.
RideReqArrived ==
    /\ hpc = "recv"
    /\ c2s # <<>>
    /\ Head(c2s).len <= MaxBody
    /\ Head(c2s).type = MSG_TYPE_RIDE_REQ
    /\ established

\* Checksum mismatch (a wrong key): return, no reply.
SrvBadChecksum ==
    /\ RideReqArrived
    /\ ~Verified(Head(c2s), skey)
    /\ hpc' = "dropped"
    /\ UNCHANGED <<c2s, s2c, skey, established, cliVars, dispatched>>

\* OP_REQ_RIDE: process_ride_request_wrapper answers with one of its texts,
\* encrypted with the session key; then break.
SrvRide ==
    LET m == Head(c2s) IN
    /\ RideReqArrived
    /\ Verified(m, skey)
    /\ m.opcode = OP_REQ_RIDE
    /\ c2s' = Tail(c2s)
    /\ dispatched' = Append(dispatched,
                            [plain |-> rc4_crypt(m.body, skey), enc |-> m.enc, key |-> skey])
    /\ \E text \in ReplyTexts : s2c' = Append(s2c, send_response_packet(text, skey))
    /\ hpc' = "closed"
    /\ UNCHANGED <<skey, established, cliVars>>

\* OP_DRIVER_JOIN under the request type falls through to the join; any
\* other opcode falls through both and the loop reads the next message.
SrvRideOtherOp ==
    LET m == Head(c2s) IN
    /\ RideReqArrived
    /\ Verified(m, skey)
    /\ m.opcode # OP_REQ_RIDE
    /\ c2s' = Tail(c2s)
    /\ IF m.opcode = OP_DRIVER_JOIN
       THEN /\ s2c' = Append(s2c, JoinReply)
            /\ hpc' = "closed"
       ELSE UNCHANGED <<hpc, s2c>>
    /\ UNCHANGED <<skey, established, cliVars, dispatched>>

\* Any other type: OP_DRIVER_JOIN joins a driver (no handshake needed);
\* anything else is ignored.
SrvOther ==
    LET m == Head(c2s) IN
    /\ hpc = "recv"
    /\ c2s # <<>>
    /\ m.len <= MaxBody
    /\ m.type \notin {MSG_TYPE_RIDE_REQ, MSG_TYPE_HANDSHAKE}
    /\ c2s' = Tail(c2s)
    /\ IF m.opcode = OP_DRIVER_JOIN
       THEN /\ s2c' = Append(s2c, JoinReply)
            /\ hpc' = "closed"
       ELSE UNCHANGED <<hpc, s2c>>
    /\ UNCHANGED <<skey, established, cliVars, dispatched>>
-----------------------------------------------------------------------------
(* The honest client: perform_ride_request of client_core.c, then close   *)
(* (single_client.c, stress_client.c).  cpc: "start", "ack" (waiting for  *)
(* the handshake reply), "resp" (waiting for the answer), then "served"   *)
(* (Ride Confirmed!, returns 0), "blocked" (returns -2), "refused" (a     *)
(* verified reply without either word, returns -1) or "failed" (any other *)
(* -1).                                                                    *)

Answered == {"served", "blocked", "refused"}
Finished == Answered \cup {"failed"}

\* perform_dh_handshake: send the public key.
CliHandshake ==
    /\ peer = "honest"
    /\ cpc = "start"
    /\ \E my_priv \in PrivKeys :
         /\ cpriv' = my_priv
         /\ c2s' = Append(c2s, HandshakeMsg(MSG_TYPE_HANDSHAKE, OP_HANDSHAKE,
                                            calculate_public_key(my_priv)))
    /\ cpc' = "ack"
    /\ UNCHANGED <<s2c, srvVars, peer, ckey, sent, peerClosed, dispatched>>

\* The reply must be MSG_TYPE_HANDSHAKE_ACK (else return -1); derive the
\* key, then send the request: checksum over the plaintext, then encrypt.
\* type is 1 for client ids <= 10.
CliRecvAck ==
    LET m == Head(s2c) IN
    /\ peer = "honest"
    /\ cpc = "ack"
    /\ s2c # <<>>
    /\ s2c' = Tail(s2c)
    /\ IF m.type # MSG_TYPE_HANDSHAKE_ACK
       THEN /\ cpc' = "failed"
            /\ peerClosed' = TRUE
            /\ UNCHANGED <<c2s, ckey>>
       ELSE LET key == derive_session_key(calculate_shared_secret(m.body[1], cpriv))
            IN  /\ ckey' = key
                /\ \E cid \in ClientIds :
                     LET plain == RequestBytes(cid, IF cid <= 10 THEN 1 ELSE 0) IN
                     c2s' = Append(c2s, Msg(MSG_TYPE_RIDE_REQ, OP_REQ_RIDE, Len(plain),
                                            calculate_checksum(plain),
                                            rc4_crypt(plain, key), key))
                /\ cpc' = "resp"
                /\ UNCHANGED peerClosed
    /\ UNCHANGED <<srvVars, peer, cpriv, sent, dispatched>>

\* The answer: 0 < length < 1024, decrypt, verify the checksum, look for
\* the words; then close.
CliRecvResp ==
    LET m    == Head(s2c)
        text == rc4_crypt(m.body, ckey)
    IN
    /\ peer = "honest"
    /\ cpc = "resp"
    /\ s2c # <<>>
    /\ s2c' = Tail(s2c)
    /\ cpc' = CASE ~(m.len > 0 /\ m.len < 1024)          -> "failed"
                [] calculate_checksum(text) # m.ck        -> "failed"
                [] Strstr(text, Confirmed)                -> "served"
                [] Strstr(text, BlockedWord)              -> "blocked"
                [] OTHER                                  -> "refused"
    /\ peerClosed' = TRUE
    /\ UNCHANGED <<c2s, srvVars, peer, cpriv, ckey, sent, dispatched>>

\* recv_n returns <= 0 while the client waits for the acknowledgement or
\* the answer: the server has closed without a reply (EOF), or the 2 s
\* SO_RCVTIMEO expired while it has not answered yet; return -1.
CliRecvFail ==
    /\ peer = "honest"
    /\ cpc \in {"ack", "resp"}
    /\ s2c = <<>>
    /\ hpc # "recv" \/ Timeouts
    /\ cpc' = "failed"
    /\ peerClosed' = TRUE
    /\ UNCHANGED <<c2s, s2c, srvVars, peer, cpriv, ckey, sent, dispatched>>

-----------------------------------------------------------------------------
(* The adversary writes whatever frames it likes, up to MaxSends of them. *)

AtkCanSend == peer = "adversary" /\ ~peerClosed /\ sent < MaxSends

\* A handshake with a public key of its own key pair, or any number.
AtkHandshake ==
    /\ AtkCanSend
    /\ \/ \E p \in PrivKeys :
            /\ cpriv' = p
            /\ c2s' = Append(c2s, HandshakeMsg(MSG_TYPE_HANDSHAKE, OP_HANDSHAKE,
                                               calculate_public_key(p)))
       \/ \E pub \in AtkPubs :
            /\ cpriv' = 0
            /\ c2s' = Append(c2s, HandshakeMsg(MSG_TYPE_HANDSHAKE, OP_HANDSHAKE, pub))
    /\ sent' = sent + 1
    /\ UNCHANGED <<s2c, srvVars, peer, cpc, ckey, peerClosed, dispatched>>

\* A ride request (or a join, or another opcode, under the request type) with a correct
\* checksum over the plaintext, encrypted with a wrong key or with the key
\* it derived from an acknowledged handshake (malicious_client.c: a wrong
\* key and no handshake at all).
AtkRequest ==
    /\ AtkCanSend
    /\ \E cid \in ClientIds, vip \in {0, 1},
          op \in {OP_REQ_RIDE, OP_DRIVER_JOIN, OP_HANDSHAKE},
          k \in WrongKeys \cup (IF ckey = <<>> THEN {} ELSE {ckey}) :
         LET plain == RequestBytes(cid, vip) IN
         c2s' = Append(c2s, Msg(MSG_TYPE_RIDE_REQ, op, Len(plain),
                                calculate_checksum(plain), rc4_crypt(plain, k), k))
    /\ sent' = sent + 1
    /\ UNCHANGED <<s2c, srvVars, peer, cpc, cpriv, ckey, peerClosed, dispatched>>

\* A header declaring more than 1024 bytes, or a frame of another type.
AtkJunk ==
    /\ AtkCanSend
    /\ \/ c2s' = Append(c2s, Msg(MSG_TYPE_RIDE_REQ, OP_REQ_RIDE, 2000, 0, <<>>, <<>>))
       \/ \E op \in {OP_REQ_RIDE, OP_DRIVER_JOIN} :
            c2s' = Append(c2s, Msg(MSG_TYPE_RIDE_RESP, op, 4, 0, LE32(7), <<>>))
    /\ sent' = sent + 1
    /\ UNCHANGED <<s2c, srvVars, peer, cpc, cpriv, ckey, peerClosed, dispatched>>

\* Read what the server sent; an acknowledgement of its own handshake gives
\* it the session key.
AtkRead ==
    LET m == Head(s2c) IN
    /\ peer = "adversary"
    /\ s2c # <<>>
    /\ s2c' = Tail(s2c)
    /\ ckey' = IF m.type = MSG_TYPE_HANDSHAKE_ACK /\ cpriv # 0
               THEN derive_session_key(calculate_shared_secret(m.body[1], cpriv))
               ELSE ckey
    /\ UNCHANGED <<c2s, srvVars, peer, cpc, cpriv, sent, peerClosed, dispatched>>

AtkClose ==
    /\ peer = "adversary"
    /\ ~peerClosed
    /\ peerClosed' = TRUE
    /\ UNCHANGED <<c2s, s2c, srvVars, peer, cpc, cpriv, ckey, sent, dispatched>>

-----------------------------------------------------------------------------
Server == SrvEOF \/ SrvOversize \/ SrvHandshake \/ SrvRequestNoKey
          \/ SrvBadChecksum \/ SrvRide \/ SrvRideOtherOp \/ SrvOther

Honest == CliHandshake \/ CliRecvAck \/ CliRecvResp \/ CliRecvFail

Adversary == AtkHandshake \/ AtkRequest \/ AtkJunk \/ AtkRead \/ AtkClose

\* The session is over once the handler has returned and the client has
\* closed (what the server wrote after a timeout is never read; the
\* SIGPIPE that write raises is RideDispatch's ReplyToClosed).
Done == hpc # "recv" /\ peerClosed

Next == Server \/ Honest \/ Adversary \/ (Done /\ UNCHANGED vars)

\* handle_client runs in its own worker process and the client in its own
\* process: each keeps running while it has input.
Spec == Init /\ [][Next]_vars /\ WF_vars(Server) /\ WF_vars(Honest)
-----------------------------------------------------------------------------
(* Properties                                                              *)

\* The session keys a connection can hold: none yet, or the key derived
\* from a shared secret, a residue mod DH_PRIME.
\* power_mod reduces with C's truncating %, so a negative public key gives
\* a secret in -(P-1)..-1 and the key carries the minus sign.
SessionKeys == {<<>>} \cup {derive_session_key(x) : x \in (1 - DH_PRIME)..(DH_PRIME - 1)}

\* Every variable holds a value of its type; in particular both session
\* keys come from a shared secret power_mod has reduced modulo P, whatever
\* int64 public key the peer sent.
TypeOK ==
    /\ hpc \in {"recv", "closed", "dropped"}
    /\ skey \in SessionKeys
    /\ ckey \in SessionKeys
    /\ established \in BOOLEAN
    /\ peer \in Peers
    /\ cpc \in {"start", "ack", "resp"} \cup Finished
    /\ sent \in 0..MaxSends
    /\ peerClosed \in BOOLEAN
    /\ Len(dispatched) \in Nat

\* DH agreement across the two processes: once the honest client has sent
\* its request, its session key (from the server's public key and its own
\* private key) is the handler's session key (from the client's public key
\* and the server's private key), whichever keys both drew (spec 4.2).
KeysAgree ==
    peer = "honest" /\ cpc \in {"resp"} \cup Answered => ckey = skey

\* Every request handle_client passes to process_ride_request_wrapper was
\* encrypted with this connection's session key: a request without a
\* handshake, or encrypted with any other key, is dropped (spec 4.8 and
\* its test scenarios: no handshake; valid checksum under a wrong key).
NoForgedDispatch ==
    \A i \in DOMAIN dispatched : dispatched[i].enc = dispatched[i].key

\* An honest client is always answered with a reply it can verify and read
\* (confirmed, blocked or no drivers) when no receive timeout cuts it off.
HonestAnswered == peer = "honest" ~> cpc \in Answered

=============================================================================
