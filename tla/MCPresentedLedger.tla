-------------------------- MODULE MCPresentedLedger -------------------------
(***************************************************************************)
(* Three chains: two of one host that happen to hold the same events, and  *)
(* one of another host under the name of the first.                        *)
(***************************************************************************)
EXTENDS PresentedLedger

CONSTANTS s1, a, b, k1, pk1, h1, h2, pkH1, pkH2, c1, c2, c3

At(version, id, outcome, number) ==
    [id |-> id, session_id |-> s1, outcome |-> outcome,
     reason |-> IF outcome = "aborted" THEN "host-rejected" ELSE NoReason,
     body |-> "action", key_id |-> k1, signer_seq |-> number, signed_by |-> pk1,
     version |-> version]

\* Two operations of an earlier version, numbered across calls, then one of this.
Upgraded == <<At(0, a, "attempted", 7), At(1, b, "attempted", 0), At(1, b, "success", 1)>>

\* A refusal, and an operation nobody numbered.
Plain ==
    <<At(1, a, "aborted", 1),
      [At(1, b, "attempted", 0) EXCEPT !.key_id = NoKey, !.signed_by = Forged]>>

Scripts == [c \in Chains |-> IF c = c3 THEN Plain ELSE Upgraded]

Names == [c \in Chains |-> IF c = c2 THEN "second" ELSE "first"]

HostIds == [c \in Chains |-> IF c = c3 THEN h2 ELSE h1]

KeysOfHosts == [k \in {h1, h2} |-> IF k = h1 THEN pkH1 ELSE pkH2]

NoEvents == {}

\* The scripts are ones a host can have sealed of a tool that follows the protocol.
ASSUME ConformingAssumption == ScriptsConform
=============================================================================
