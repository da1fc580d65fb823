----------------------------- MODULE MCSession -----------------------------
(***************************************************************************)
(* Session with a small Diffie-Hellman group.  Session keys are the       *)
(* strings "KEY_<secret>_SECURE" of derive_session_key; the adversary's   *)
(* wrong keys are malicious_client.c's WRONG_SECRET_KEY and session keys  *)
(* of secrets this connection does not use.                                *)
(***************************************************************************)
EXTENDS Session

\* "HACKER_WRONG_2025_KEY!"
WRONG_SECRET_KEY ==
    <<72, 65, 67, 75, 69, 82, 95, 87, 82, 79, 78, 71, 95, 50, 48, 50, 53, 95,
      75, 69, 89, 33>>

\* Public keys of the adversary's own: 0 and a negative int64.
MCAtkPubs == {0, -5}

MCWrongKeys == {WRONG_SECRET_KEY} \cup {derive_session_key(n) : n \in {7, 12}}

=============================================================================
