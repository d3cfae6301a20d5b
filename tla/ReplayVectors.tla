---------------------------- MODULE ReplayVectors ---------------------------
(***************************************************************************)
(* The pinned replay window (vectors/fixtures.ts, vectors/generate.ts):    *)
(* twelve steps against one Level-2 host with what each implementation     *)
(* must answer, seal and flag.  Here the steps are not alone: the pinned   *)
(* error cases may arrive before any of them, and so may byte-identical    *)
(* repeats of whatever was settled already.                                *)
(***************************************************************************)
EXTENDS AuditHost, Fixtures

ASSUME ReplayAssumption == Level = "L2"

\* An event of operation n, as yet unsigned.
l2(n, outcome) ==
    [id |-> n, session_id |-> SESSION_L2, outcome |-> outcome,
     reason |-> IF outcome = "aborted" THEN "host-unavailable" ELSE NoReason,
     body |-> "db.write", key_id |-> NoKey, signer_seq |-> 0, signed_by |-> Forged]

signEvent(event, n) ==
    [event EXCEPT !.key_id = TOOL_KEY_ID, !.signer_seq = n, !.signed_by = ToolKey]

Step(channel, available, n, event, expect, flags) ==
    [channel |-> channel, host_available |-> available, event |-> signEvent(event, n),
     expect |-> expect, anomalies |-> flags]

Accepted(seq) == [status |-> "accept", seq |-> seq]

Replayed == {"replay-detected"}

A == l2(20, "attempted")
B == l2(21, "attempted")
C == l2(23, "attempted")

\* The expectation of an attempt is its response, of an outcome whether it is sealed.
REPLAY_STEPS == <<
    Step("attempt", FALSE, 0, A, Unavailable, {}),
    Step("attempt", TRUE,  1, B, Accepted(0), {}),
    Step("attempt", TRUE,  0, A, Accepted(1), {}),
    Step("attempt", TRUE,  1, B, Accepted(0), {}),
    Step("attempt", TRUE,  1, l2(22, "attempted"), Reject("replay-detected"), Replayed),
    Step("outcome", TRUE,  2, l2(21, "success"), TRUE, {}),
    Step("outcome", TRUE,  3, l2(21, "failed"), FALSE, Replayed),
    Step("outcome", TRUE,  2, l2(21, "success"), FALSE, {}),
    Step("outcome", TRUE,  4, l2(20, "success"), TRUE, {}),
    Step("attempt", FALSE, 5, C, Unavailable, {}),
    Step("outcome", TRUE,  6, l2(23, "aborted"), TRUE, {}),
    Step("attempt", TRUE,  5, C, Reject("replay-detected"), Replayed) >>

\* An error case whose event fails the schema, whatever is wrong with it.
Unreadable(channel, expect) ==
    [channel |-> channel, event |-> Nothing, expect |-> expect, anomalies |-> {"schema-invalid"}]

\* Seven attempts fail the schema and one outcome does.  Two cases pass it: an
\* outcome on the attempt channel, and an outcome of another session.
ERROR_CASES ==
    { Unreadable("attempt", Reject("schema-invalid")), Unreadable("outcome", FALSE) } \cup
    { [channel |-> "attempt", event |-> l2(24, "success"),
       expect |-> Reject("schema-invalid"), anomalies |-> {"schema-invalid"}],
      [channel |-> "outcome", event |-> [l2(24, "success") EXCEPT !.session_id = SESSION_XYZ],
       expect |-> FALSE, anomalies |-> {"replay-detected"}] }

ReplayEvents ==
    ({REPLAY_STEPS[n].event : n \in DOMAIN REPLAY_STEPS} \cup {c.event : c \in ERROR_CASES})
      \ {Nothing}

-----------------------------------------------------------------------------
VARIABLE next     \* the step to run next; 0: the session is not open yet

replayVars == <<vars, next>>

ReplayInit == InitWith(toolRegistry) /\ next = 0

openReplaySession == next = 0 /\ openSession(SESSION_L2) /\ next' = 1

\* The transport of the vectors is bound to the one call.
handle(case) ==
    \/ case.event = Nothing /\ handleMalformed(24, case.channel = "attempt")
    \/ /\ case.event # Nothing
       /\ \/ case.channel = "attempt" /\ handleAttempt(case.event, Sessions)
          \/ case.channel = "outcome" /\ handleOutcome(case.event, Sessions)

Running == next \in DOMAIN REPLAY_STEPS

\* Each step names whether the host can seal; between steps it may be either.
switch == Running /\ setUnavailable /\ UNCHANGED next

runStep ==
    /\ Running /\ unavailable # REPLAY_STEPS[next].host_available
    /\ handle(REPLAY_STEPS[next])
    /\ next' = next + 1

errorCase ==
    /\ next > 0
    /\ \E case \in ERROR_CASES : handle(case)
    /\ UNCHANGED next

\* The steps that ended in a record, or in the answer to one.
Settled(step) ==
    IF step.channel = "attempt" THEN step.expect.status = "accept" ELSE step.expect

\* One of them arrives again.
repeatStep(n) ==
    /\ n < next /\ Settled(REPLAY_STEPS[n])
    /\ handle(REPLAY_STEPS[n])
    /\ UNCHANGED next

ReplayNext ==
    \/ openReplaySession \/ switch \/ runStep \/ errorCase
    \/ \E n \in DOMAIN REPLAY_STEPS : repeatStep(n)

ReplaySpec == ReplayInit /\ [][ReplayNext]_replayVars
-----------------------------------------------------------------------------

KindsFlagged == {a.kind : a \in anomalies}

Answered(response, expect) ==
    \/ response.status = "accept" /\ expect.status = "accept" /\ response.seq = expect.seq
    \/ response.status # "accept" /\ response = expect

AsPinned(case) ==
    /\ KindsFlagged' = case.anomalies
    /\ case.channel = "attempt" => \E reply \in answer' : Answered(reply.response, case.expect)
    /\ case.channel = "outcome" => (Len(ledger') > Len(ledger)) = case.expect

\* Every step ends as the vector pins it - its answer, its record, its flags -
\* and so does every error case, whatever error cases and repeats came in between
\* and whether or not the host could seal while they did.  A repeat of what is
\* settled gets the pinned answer again and changes nothing.
StepsAsPinned ==
    [][/\ runStep => AsPinned(REPLAY_STEPS[next])
       /\ \A case \in ERROR_CASES : errorCase /\ handle(case) => AsPinned(case)
       /\ \A n \in DOMAIN REPLAY_STEPS : repeatStep(n) =>
             /\ UNCHANGED <<ledger, decided, received, accepted, outcomes>>
             /\ anomalies' = {}
             /\ \A reply \in answer' : Answered(reply.response, REPLAY_STEPS[n].expect)]_replayVars
=============================================================================
