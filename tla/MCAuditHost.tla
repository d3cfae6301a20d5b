----------------------------- MODULE MCAuditHost ----------------------------
(***************************************************************************)
(* Small sets of events for the host.  The host takes any event at any     *)
(* time and any number of times, so each set holds the events whose        *)
(* interplay is delicate rather than what one tool would send.             *)
(***************************************************************************)
EXTENDS AuditHost

CONSTANTS s1, s2, a, b, k1, k2, pk1, pk2

Signed(id, s, outcome, keyId, seq, signer) ==
    [id |-> id, session_id |-> s, outcome |-> outcome,
     reason |-> IF outcome = "aborted" THEN "host-unavailable" ELSE NoReason,
     body |-> "action", key_id |-> keyId, signer_seq |-> seq, signed_by |-> signer]

Plain(id, s, outcome) == Signed(id, s, outcome, NoKey, 0, Forged)

\* One session under one key: two attempts under number 0, a second attempt of
\* the same id, a success and a refusal under number 1, and a conflicting
\* terminal outcome whose number skips ahead.
WindowEvents ==
    { Signed(a, s1, "attempted", k1, 0, pk1),
      Signed(b, s1, "attempted", k1, 0, pk1),
      Signed(a, s1, "attempted", k1, 1, pk1),
      Signed(a, s1, "success", k1, 1, pk1),
      Signed(a, s1, "failed", k1, 2, pk1),
      Signed(b, s1, "aborted", k1, 1, pk1) }

\* Two sessions and two keys: the same number under both keys and in both
\* sessions, an event signed by another key than the one it names, and one
\* without the Level-2 fields.
KeyEvents ==
    { Signed(a, s1, "attempted", k1, 0, pk1),
      Signed(a, s1, "success", k2, 0, pk2),
      Signed(b, s2, "attempted", k1, 0, pk1),
      Signed(b, s1, "attempted", k1, 0, pk2),
      Plain(b, s1, "attempted") }

\* Two sessions at Level 1 and one id in both of them: attempted and refused in
\* either, succeeded in one.
PlainEvents ==
    { Plain(a, s1, "attempted"),
      Plain(a, s1, "success"),
      Plain(a, s1, "aborted"),
      Plain(a, s2, "attempted"),
      Plain(a, s2, "aborted"),
      Plain(b, s2, "attempted") }
=============================================================================
