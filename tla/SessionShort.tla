---------------------------- MODULE SessionShort ----------------------------
(***************************************************************************)
(* Session with one more frame the adversary may write: a ride request    *)
(* whose header.length is shorter than RideRequestData.  handle_client    *)
(* decrypts and checksums only header.length bytes (dispatcher.c 169-172) *)
(* and process_ride_request_wrapper then reads the 24-byte struct from    *)
(* body[] as it is (line 81): what the handshake left there.              *)
(***************************************************************************)
EXTENDS Session

\* A ride request with length 0: nothing to encrypt, and the checksum of
\* no bytes, ~0 = 0xFFFF, which the peer can compute without any key.
AtkEmptyRequest ==
    /\ AtkCanSend
    /\ c2s' = Append(c2s, Msg(MSG_TYPE_RIDE_REQ, OP_REQ_RIDE, 0,
                              calculate_checksum(<<>>), <<>>, <<>>))
    /\ sent' = sent + 1
    /\ UNCHANGED <<s2c, srvVars, peer, cpc, cpriv, ckey, peerClosed, dispatched>>

ShortNext == Next \/ AtkEmptyRequest

ShortSpec == Init /\ [][ShortNext]_vars

=============================================================================
