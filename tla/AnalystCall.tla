----------------------------- MODULE AnalystCall ----------------------------
(***************************************************************************)
(* The example tool (tool/sqlAnalystTool.ts, sql_analyst_tool.py): a call  *)
(* reads a database, sends what it read to a geocoder and writes the       *)
(* result back.  Each operation is awaited before the next one starts, and *)
(* an operation that is aborted ends the call: AmcpAbortedError passes     *)
(* through analyze and becomes the call's error result.                    *)
(***************************************************************************)
EXTENDS AuditedCall

CONSTANTS StepsOf      \* the ids of a call's operations, in the order of the program

ActionTypes == <<"db.query", "ext.geocode", "db.write">>

ASSUME StepsAssumption ==
    /\ StepsOf \in [Sessions -> [DOMAIN ActionTypes -> Ids]]
    /\ \A s \in Sessions : {StepsOf[s][n] : n \in DOMAIN ActionTypes} = OpsOf(s)
    /\ \A s \in Sessions, m, n \in DOMAIN ActionTypes : StepsOf[s][m] = StepsOf[s][n] => m = n
    /\ \A n \in DOMAIN ActionTypes : ActionTypes[n] \in Bodies

\* Variant: an operation is started without being awaited.
resolved_unawaited(i) == phase[i] # "idle"

\* audited() returned: the operation was performed and its outcome sent, or lost.
resolved(i) == phase[i] = "concluded" /\ performed[i] = 1

\* audited() threw AmcpAbortedError.
rejectedOp(i) == phase[i] = "concluded" /\ performed[i] = 0

\* None of the three callbacks throws.
performReturns(i) ==
    /\ phase[i] = "performing"
    /\ concludes(i, "success", NoReason)
    /\ UNCHANGED <<performed, toTool>>

\* The next operation starts.
proceeds(s) ==
    \E n \in DOMAIN ActionTypes :
       /\ \A m \in 1..(n - 1) : resolved(StepsOf[s][m])
       /\ audited(StepsOf[s][n], ActionTypes[n])

analyze(s) ==
    \/ proceeds(s)
    \/ \E i \in OpsOf(s) : unanswered(i) \/ answered(i) \/ performReturns(i)

\* Variant: an abort is caught and nothing returned for it.
analyzeReturns_contentOnly(s) ==
    /\ \A n \in DOMAIN ActionTypes : resolved(StepsOf[s][n])
    /\ respond(s)

\* The result, or the error that an abort became.
analyzeReturns(s) ==
    /\ \/ \A n \in DOMAIN ActionTypes : resolved(StepsOf[s][n])
       \/ \E n \in DOMAIN ActionTypes : rejectedOp(StepsOf[s][n])
    /\ respond(s)

\* abort() could not send its outcome: the transport's error is thrown in place of
\* AmcpAbortedError.
abortMasked(i) == rejectedOp(i) /\ \E e \in lost : e.id = i /\ e.outcome = "aborted"

\* What the caller gets: content, an error result that names the aborted operation,
\* or, for any other error of the handler, a protocol error.
resultOf(s) ==
    LET steps == {StepsOf[s][n] : n \in DOMAIN ActionTypes} IN
    CASE \A i \in steps : resolved(i)    -> "content"
      [] \E i \in steps : abortMasked(i) -> "error"
      [] \E i \in steps : rejectedOp(i) /\ ~abortMasked(i) -> "audit_aborted"
      [] OTHER -> "none"

AnalystNext ==
    \/ \E s \in Sessions : callAudited(s) \/ callGivenUp(s)
    \/ \E s \in Sessions : (analyze(s) \/ analyzeReturns(s)) /\ UNCHANGED <<vars, callVars>>
    \/ receive
    \/ \E i \in Ids : misdeliver(i)
    \/ switchDurability
    \/ provisionTool

AnalystSpec == CallInit /\ [][AnalystNext]_allVars

\* The connection delivers, a wait ends - answered or not -, a callback returns,
\* and the program goes on where an await resolved.  No call is ever made or given
\* up for fairness's sake, and nothing says that the host can seal.
FairAnalystSpec ==
    /\ AnalystSpec
    /\ WF_allVars(receive)
    /\ \A i \in Ids :
          /\ WF_allVars((unanswered(i) \/ answered(i)) /\ UNCHANGED <<vars, callVars>>)
          /\ WF_allVars(performReturns(i) /\ UNCHANGED <<vars, callVars>>)
    /\ \A s \in Sessions :
          WF_allVars((proceeds(s) \/ analyzeReturns(s)) /\ UNCHANGED <<vars, callVars>>)
-----------------------------------------------------------------------------
(***************************************************************************)
(* Properties.  The first is FairCallSpec itself: the example tool uses    *)
(* the tool session the way AuditedCall allows, and goes on as it must, so *)
(* what holds there holds here - that every call ends included.            *)
(***************************************************************************)

StepOf(e) ==
    CHOOSE n \in DOMAIN ActionTypes : StepsOf[e.session_id][n] = e.id

\* The ledger shows the program, although attempts are repeated, answered late or
\* not at all and outcomes are lost: the records of one call come in the order of
\* its operations, each of its attempts before the outcome; nothing follows a
\* refusal; and nothing is performed unless the operations before it were sealed -
\* a host that cannot record one operation stops the whole call there.
RecordsFollowProgram ==
    /\ \A m, n \in DOMAIN ledger :
          LET e == ledger[m].event
              f == ledger[n].event
          IN m < n /\ e.session_id = f.session_id =>
               /\ e.outcome # "aborted"
               /\ \/ StepOf(e) < StepOf(f)
                  \/ StepOf(e) = StepOf(f) /\ IsAttempt(e) /\ ~IsAttempt(f)
    /\ \A s \in Sessions, n \in DOMAIN ActionTypes :
          performed[StepsOf[s][n]] > 0 =>
            \A m \in 1..(n - 1) :
               \E k \in DOMAIN ledger : ledger[k].event = sent[StepsOf[s][m]]

Sealed(e) == \E n \in DOMAIN ledger : ledger[n].event = e

UnderWay(i, outcome) ==
    \E n \in DOMAIN toHost :
       toHost[n].method = "audit/outcome" /\ toHost[n].event.id = i /\ toHost[n].event.outcome = outcome

\* What the caller of the tool may conclude from the result of a call.  Content:
\* all three operations were performed, each with its attempt sealed.  A reported
\* abort: one operation was not performed, the ledger has or is about to get its
\* refusal - unless the host itself had trouble or gave the call up - and no later
\* operation was even attempted.  A protocol error: the record will never show
\* that refusal, and nothing was performed after it either.
ResultTellsRecord ==
    \A s \in Sessions :
       LET step(n)     == StepsOf[s][n]
           notAfter(n) == \A m \in (n + 1)..Len(ActionTypes) : phase[step(m)] = "idle"
           recorded(i) ==
              \/ \E n \in DOMAIN ledger :
                    ledger[n].event.id = i /\ ledger[n].event.outcome = "aborted"
              \/ UnderWay(i, "aborted")
       IN
       /\ resultOf(s) = "content" =>
            \A n \in DOMAIN ActionTypes : performed[step(n)] = 1 /\ Sealed(sent[step(n)])
       /\ resultOf(s) = "audit_aborted" =>
            \E n \in DOMAIN ActionTypes :
               /\ performed[step(n)] = 0 /\ notAfter(n)
               /\ recorded(step(n)) \/ s \in outage \cup givenUp
       /\ resultOf(s) = "error" =>
            \E n \in DOMAIN ActionTypes :
               performed[step(n)] = 0 /\ notAfter(n) /\ ~recorded(step(n))
=============================================================================
