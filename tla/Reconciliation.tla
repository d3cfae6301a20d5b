---------------------------- MODULE Reconciliation --------------------------
(***************************************************************************)
(* Reconciliation of what a tool reported with what a boundary - a gateway *)
(* the calls go through - saw (l2/reconcile.ts, reconcile.py).  The calls  *)
(* are AuditedCall's; of an event, `body` says whether the operation is an *)
(* egress and where it goes.  The boundary is not omniscient: it may see   *)
(* an egress or not.  A tool may also act without telling anyone.          *)
(***************************************************************************)
EXTENDS AuditedCall

CONSTANTS Destinations

ASSUME BodiesAssumption == Bodies \subseteq [egress : BOOLEAN, target : Destinations]

VARIABLES
    observations,    \* what the boundary saw
    covert           \* history: what the tool did outside audited()

reconciliationVars == <<observations, covert>>

EgressObservation == [session_id : Sessions, destination : Destinations]

ReconciliationInit ==
    /\ CallInit
    /\ observations = {}
    /\ covert = {}

\* Variant: the destinations reported in any session.
reported_anySession(s) ==
    {ledger[n].event.body.target : n \in {m \in DOMAIN ledger : ledger[m].event.body.egress}}

\* The destinations reported in a session, attempt or outcome.
reported(s) ==
    {ledger[n].event.body.target :
        n \in {m \in DOMAIN ledger : /\ ledger[m].event.session_id = s
                                     /\ ledger[m].event.body.egress}}

\* The destinations of unreported-egress, so far.
reconcile(s) ==
    {o.destination : o \in {p \in observations : p.session_id = s}} \ reported(s)

\* The boundary sees an operation that perform was called for.
observeEgress(i) ==
    /\ performed[i] > 0
    /\ sent[i].body.egress
    /\ observations' = observations \cup
         {[session_id |-> SessionOf[i], destination |-> sent[i].body.target]}
    /\ UNCHANGED <<allVars, covert>>

\* The tool reaches out past audited(), and the boundary sees it.
covertEgress(s, destination) ==
    /\ s \in calls
    /\ LET o == [session_id |-> s, destination |-> destination] IN
          /\ covert' = covert \cup {o}
          /\ observations' = observations \cup {o}
    /\ UNCHANGED allVars

ReconciliationNext ==
    \/ CallNext /\ UNCHANGED reconciliationVars
    \/ \E i \in Ids : observeEgress(i)
    \/ \E s \in Sessions, d \in Destinations : covertEgress(s, d)

ReconciliationSpec ==
    ReconciliationInit /\ [][ReconciliationNext]_<<allVars, reconciliationVars>>
-----------------------------------------------------------------------------
(***************************************************************************)
(* Properties.                                                             *)
(***************************************************************************)

\* No false alarm, at any moment: reconciling in the middle of a call, with its
\* outcomes lost, late or dropped, never accuses a tool of an egress it audited -
\* the attempt was sealed before the boundary could see anything.
AlarmsAreCovert ==
    \A s \in Sessions, d \in Destinations :
       d \in reconcile(s) => [session_id |-> s, destination |-> d] \in covert

\* A suppressed egress is found, whatever the other calls reported: unless an
\* operation of that very session named the destination as an egress of its own.
CovertIsFound ==
    \A o \in covert :
       \/ o.destination \in reconcile(o.session_id)
       \/ \E i \in OpsOf(o.session_id) :
             phase[i] # "idle" /\ sent[i].body = [egress |-> TRUE, target |-> o.destination]
=============================================================================
