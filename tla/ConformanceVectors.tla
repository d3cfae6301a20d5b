-------------------------- MODULE ConformanceVectors -------------------------
(***************************************************************************)
(* The pinned vectors an implementation must meet, one after the other: a  *)
(* run is the replay window against a host or one of the verifier's cases. *)
(***************************************************************************)
EXTENDS ReplayVectors, VerifierVectors

conformanceVars == <<replayVars, chainVars>>

NoCase ==
    /\ chain = << >> /\ rest = << >> /\ expected = << >>
    /\ inputs = [anchored |-> {}, keyRegistry |-> {}, hostKeyRegistry |-> {},
                 expectedIdentity |-> {}, countersignatureRequired |-> FALSE]

ConformanceInit == ReplayInit /\ (NoCase \/ CasesInit)

ConformanceNext ==
    \/ rest = << >> /\ ReplayNext /\ UNCHANGED chainVars
    \/ CasesNext /\ UNCHANGED replayVars

ConformanceSpec == ConformanceInit /\ [][ConformanceNext]_conformanceVars

\* Every session a vector names.
AllSessions == CaseSessions \cup {SESSION_XYZ, SESSION_L2}
=============================================================================
