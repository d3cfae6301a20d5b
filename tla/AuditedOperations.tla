------------------------- MODULE AuditedOperations --------------------------
(***************************************************************************)
(* What audit-before-act promises of the operations of audited calls, as   *)
(* somebody sees it who knows nothing of attempts repeated, answers late,  *)
(* numbers, hashes or signatures: of every operation, whether it is acted  *)
(* on, and what the ledger has on record of it.                            *)
(***************************************************************************)
CONSTANTS Sessions, Ids, SessionOf

VARIABLES
    open, ended,     \* the sessions of calls under way, and of those over
    act,             \* of an operation: undecided, running, done, refused
    record           \* the entries the ledger has of an operation

operationVars == <<open, ended, act, record>>

Init ==
    /\ open = {} /\ ended = {}
    /\ act = [i \in Ids |-> "undecided"]
    /\ record = [i \in Ids |-> {}]

-----------------------------------------------------------------------------

\* A session is begun once.
Begin(s) ==
    /\ s \notin open \cup ended
    /\ open' = open \cup {s}
    /\ UNCHANGED <<ended, act, record>>

End(s) ==
    /\ s \in open
    /\ open' = open \ {s}
    /\ ended' = ended \cup {s}
    /\ UNCHANGED <<act, record>>

Becomes(i, from, to) ==
    /\ act[i] = from
    /\ act' = [act EXCEPT ![i] = to]
    /\ UNCHANGED <<open, ended, record>>

\* Nothing is acted on that is not on record.
Perform(i) == "attempt" \in record[i] /\ Becomes(i, "undecided", "running")

Finish(i) == Becomes(i, "running", "done")

\* For good: nothing leads from here to acting.
Refuse(i) == Becomes(i, "undecided", "refused")

\* The record grows only while the call is under way.
Enters(i, entry) ==
    /\ SessionOf[i] \in open
    /\ record' = [record EXCEPT ![i] = @ \cup {entry}]
    /\ UNCHANGED <<open, ended, act>>

\* The first entry, or none: also of an operation refused meanwhile.
EnterAttempt(i) == record[i] = {} /\ Enters(i, "attempt")

\* How the operation ended, once, as it did end; "done" only behind its attempt.
EnterEnd(i) ==
    /\ act[i] \in {"done", "refused"}
    /\ record[i] \subseteq {"attempt"}
    /\ act[i] = "done" => "attempt" \in record[i]
    /\ Enters(i, act[i])

Next ==
    \/ \E s \in Sessions : Begin(s) \/ End(s)
    \/ \E i \in Ids : Perform(i) \/ Finish(i) \/ Refuse(i) \/ EnterAttempt(i) \/ EnterEnd(i)

Spec == Init /\ [][Next]_operationVars
=============================================================================
