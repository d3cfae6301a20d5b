------------------------------ MODULE AuditHost -----------------------------
(***************************************************************************)
(* The host-side audit subsystem (host/auditHost.ts, host.py): it issues   *)
(* audit sessions, answers attempts with accept, reject or unavailable,    *)
(* takes outcomes without an answer, and seals what it accepts into the    *)
(* ledger.  Each handler runs to its end without awaiting, so one handler  *)
(* call is one step.  Any event may arrive at any time, any number of      *)
(* times, on any connection: the host trusts nothing about its order.      *)
(*                                                                         *)
(* `anomalies` holds the entries the last call appended to the host's      *)
(* write-only anomaly list and `answer` what the last call returned.       *)
(* `verified` and `refused` are history: the events of open sessions whose *)
(* signature verified, and those whose signer_seq was then decided without *)
(* a record being sealed.                                                  *)
(***************************************************************************)
EXTENDS AuditExchange

CONSTANTS
    Level,           \* the host's declared level, "L1" or "L2"
    Countersigns,    \* whether the host declares countersign "host"
    MaxHostClock     \* bound: ticks of the host's clock, hence records sealed

ASSUME HostAssumption ==
    /\ Level \in {"L1", "L2"}
    /\ Countersigns \in BOOLEAN
    /\ MaxHostClock \in Nat

SealedAttempts == [canonical : Events, response : Responses]

ASSUME NothingAssumption ==
    /\ Nothing \notin Events
    /\ Nothing \notin SealedAttempts

VARIABLES
    issued, sessions,            \* session ids ever issued, and those still open
    decided, received,           \* the replay window of each key in each session
    accepted, rejected,          \* attempt ids per session
    outcomes,                    \* the terminal outcome sealed for an id, per session
    sealedAttempts,              \* the partition's sealed attempt of an id
    ledger, hostClock,
    unavailable,                 \* the durability switch
    registry,                    \* the tool-key registry
    anomalies, answer,           \* output of the last call
    verified, refused            \* history

sessionVars == <<issued, sessions>>
windowVars  == <<decided, received>>
bookVars    == <<accepted, rejected, outcomes>>
sealVars    == <<sealedAttempts, ledger, hostClock>>
envVars     == <<unavailable, registry>>
outputVars  == <<anomalies, answer>>
historyVars == <<verified, refused>>

vars == <<issued, sessions, decided, received, accepted, rejected, outcomes,
          sealedAttempts, ledger, hostClock, unavailable, registry,
          anomalies, answer, verified, refused>>

\* "Nothing received yet" is -1 in `received`, so that "the first value is not
\* 0" and "more than one past the highest" are one comparison.
NoneReceived == 0 - 1

Anomaly(id, kind, detail) == [id |-> id, kind |-> kind, detail |-> detail]

Reply(e, response) == {[event |-> e, response |-> response]}

NoReply == {}

InitWith(keys) ==
    /\ issued = {} /\ sessions = {}
    /\ decided = [s \in Sessions |-> [k \in KeyIds |-> {}]]
    /\ received = [s \in Sessions |-> [k \in KeyIds |-> NoneReceived]]
    /\ accepted = [s \in Sessions |-> {}]
    /\ rejected = [s \in Sessions |-> {}]
    /\ outcomes = [s \in Sessions |-> [i \in Ids |-> Nothing]]
    /\ sealedAttempts = [i \in Ids |-> Nothing]
    /\ ledger = << >>
    /\ hostClock = 0
    /\ unavailable = FALSE
    /\ registry = keys
    /\ anomalies = {}
    /\ answer = NoReply
    /\ verified = {} /\ refused = {}

\* The registry is handed to the host with whatever was registered before.
Init == \E keys \in KeyRegistryType : InitWith(keys)

-----------------------------------------------------------------------------
(***************************************************************************)
(* What a handler asks of an event.                                        *)
(***************************************************************************)

WrongChannel(e, attempt) == (e.outcome = "attempted") # attempt

\* `arrivedOn` is the set of sessions of the calls in flight on the connection
\* the event arrived on; a transport bound to one call passes none, which is as
\* if it passed every session.  The handler only asks whether the event's own
\* session is among them, so Next passes that session or nothing.
NotInFlight(e, arrivedOn) ==
    e.session_id \notin sessions \/ e.session_id \notin arrivedOn

Admitted(e, attempt, arrivedOn) ==
    ~WrongChannel(e, attempt) /\ ~NotInFlight(e, arrivedOn)

AdmissionFault(e, attempt) ==
    IF WrongChannel(e, attempt)
    THEN [reason |-> "schema-invalid", detail |-> "channel"]
    ELSE [reason |-> "replay-detected", detail |-> "session"]

KnownKey(e) == isCurrent(registry, e.key_id)

verifyEventSignature(e) == e.signed_by = get(registry, e.key_id).publicKey

SignatureVerifies(e) ==
    Level = "L2" => ~Unsigned(e) /\ KnownKey(e) /\ verifyEventSignature(e)

SignatureFault(e) ==
    CASE Unsigned(e)                  -> "l2-unsigned"
      [] ~Unsigned(e) /\ ~KnownKey(e) -> "unknown-key"
      [] OTHER                        -> "signature-invalid"

\* More than one past the highest received, or a first value other than 0.
SkipsAhead(e) ==
    Level = "L2" /\ e.signer_seq > received[e.session_id][e.key_id] + 1

\* Variant: only the highest decided value is remembered.
alreadyDecided_highest(e) ==
    /\ Level = "L2"
    /\ e.signer_seq \in decided[e.session_id][e.key_id]
    /\ \A n \in decided[e.session_id][e.key_id] : n <= e.signer_seq

alreadyDecided(e) ==
    Level = "L2" /\ e.signer_seq \in decided[e.session_id][e.key_id]

AttemptSealed(e) == sealedAttempts[e.id] # Nothing

\* Variant: a repeat is recognised by its id alone.
SameAttempt_byId(e) == sealedAttempts[e.id].canonical.id = e.id

SameAttempt(e) == sealedAttempts[e.id].canonical = e

Concluded(e) == outcomes[e.session_id][e.id] # Nothing

SameOutcome(e) == outcomes[e.session_id][e.id] = e

\* Variant: an attempt sealed in any session of the partition will do.
Correlated_anySession(e) == sealedAttempts[e.id] # Nothing

Correlated(e) == e.id \in accepted[e.session_id]

-----------------------------------------------------------------------------
(***************************************************************************)
(* What a handler does with it.                                            *)
(***************************************************************************)

\* Variant: the last value received, not the highest.
markReceived_latest(e) ==
    /\ received' = IF Level = "L2"
                   THEN [received EXCEPT ![e.session_id][e.key_id] = e.signer_seq]
                   ELSE received
    /\ verified' = verified \cup {e}

\* The event counts as received as soon as its signature verifies, whatever is
\* decided about it; a skipped value is flagged, never rejected.
markReceived(e) ==
    /\ received' =
         IF Level = "L2" /\ e.signer_seq > received[e.session_id][e.key_id]
         THEN [received EXCEPT ![e.session_id][e.key_id] = e.signer_seq]
         ELSE received
    /\ verified' = verified \cup {e}

gapFlag(e) ==
    IF SkipsAhead(e) THEN {Anomaly(e.id, "signer-seq-gap", "gap")} ELSE {}

decide(e) ==
    decided' = IF Level = "L2"
               THEN [decided EXCEPT ![e.session_id][e.key_id] = @ \cup {e.signer_seq}]
               ELSE decided

seal(e) ==
    /\ hostClock < MaxHostClock
    /\ hostClock' = hostClock + 1
    /\ ledger' = Append(ledger, sealedRecord(ledger, e, hostClock', Countersigns))

\* The countersigner throws inside Ledger.append, after the clock has ticked and
\* before the record is pushed: the handler throws with it.
signerThrows ==
    /\ Countersigns
    /\ hostClock < MaxHostClock
    /\ hostClock' = hostClock + 1
    /\ UNCHANGED ledger

-----------------------------------------------------------------------------
(***************************************************************************)
(* Sessions, the registry and the durability switch.                       *)
(***************************************************************************)

\* Variant: the id of a session that ended may be issued again.
openSession_reissues(s) ==
    /\ s \notin sessions
    /\ issued' = issued \cup {s}
    /\ sessions' = sessions \cup {s}
    /\ anomalies' = {} /\ answer' = NoReply
    /\ UNCHANGED <<windowVars, bookVars, sealVars, envVars, historyVars>>

openSession(s) ==
    /\ s \notin issued
    /\ issued' = issued \cup {s}
    /\ sessions' = sessions \cup {s}
    /\ anomalies' = {} /\ answer' = NoReply
    /\ UNCHANGED <<windowVars, bookVars, sealVars, envVars, historyVars>>

\* Variant: a terminal outcome sealed in any session will do.
Unresolved_anySession(s) ==
    {i \in accepted[s] : \A t \in Sessions : outcomes[t][i] = Nothing}

Unresolved(s) == {i \in accepted[s] : outcomes[s][i] = Nothing}

\* Variant: the replay window outlives its session.
forgetSession_keepsWindow(s) ==
    /\ sessions' = sessions \ {s}
    /\ accepted' = [accepted EXCEPT ![s] = {}]
    /\ rejected' = [rejected EXCEPT ![s] = {}]
    /\ outcomes' = [outcomes EXCEPT ![s] = [i \in Ids |-> Nothing]]
    /\ verified' = {e \in verified : e.session_id # s}
    /\ refused' = {e \in refused : e.session_id # s}
    /\ UNCHANGED <<decided, received>>

\* The session's entry is deleted, and its replay window and books with it.
forgetSession(s) ==
    /\ sessions' = sessions \ {s}
    /\ decided' = [decided EXCEPT ![s] = [k \in KeyIds |-> {}]]
    /\ received' = [received EXCEPT ![s] = [k \in KeyIds |-> NoneReceived]]
    /\ accepted' = [accepted EXCEPT ![s] = {}]
    /\ rejected' = [rejected EXCEPT ![s] = {}]
    /\ outcomes' = [outcomes EXCEPT ![s] = [i \in Ids |-> Nothing]]
    /\ verified' = {e \in verified : e.session_id # s}
    /\ refused' = {e \in refused : e.session_id # s}

\* The call ended: an accepted attempt without a terminal outcome is unresolved.
closeSession(s) ==
    /\ s \in sessions
    /\ anomalies' = {Anomaly(i, "unresolved-attempt", "unresolved") : i \in Unresolved(s)}
    /\ forgetSession(s)
    /\ answer' = NoReply
    /\ UNCHANGED <<issued, sealVars, envVars>>

setUnavailable ==
    /\ unavailable' = ~unavailable
    /\ anomalies' = {} /\ answer' = NoReply
    /\ UNCHANGED <<sessionVars, windowVars, bookVars, sealVars, registry, historyVars>>

registerKey(keyId, publicKey) ==
    /\ mayRegister(registry, keyId, publicKey)
    /\ registry' = register(registry, keyId, publicKey)
    /\ anomalies' = {} /\ answer' = NoReply
    /\ UNCHANGED <<sessionVars, windowVars, bookVars, sealVars, unavailable, historyVars>>

revokeKey(keyId) ==
    /\ isRegistered(registry, keyId)
    /\ registry' = revoke(registry, keyId)
    /\ anomalies' = {} /\ answer' = NoReply
    /\ UNCHANGED <<sessionVars, windowVars, bookVars, sealVars, unavailable, historyVars>>

-----------------------------------------------------------------------------
(***************************************************************************)
(* handleAttempt: one disjunct per way out of the handler, in its order.   *)
(***************************************************************************)

\* Structure or session: nothing about the event is remembered.
rejectInadmissible(e, arrivedOn) ==
    LET fault == AdmissionFault(e, TRUE) IN
    /\ ~Admitted(e, TRUE, arrivedOn)
    /\ anomalies' = {Anomaly(e.id, fault.reason, fault.detail)}
    /\ answer' = Reply(e, Reject(fault.reason))
    /\ UNCHANGED <<sessionVars, windowVars, bookVars, sealVars, envVars, historyVars>>

rejectUnverified(e) ==
    /\ ~SignatureVerifies(e)
    /\ rejected' = [rejected EXCEPT ![e.session_id] = @ \cup {e.id}]
    /\ anomalies' = {Anomaly(e.id, "signature-invalid", SignatureFault(e))}
    /\ answer' = Reply(e, Reject(SignatureFault(e)))
    /\ UNCHANGED <<sessionVars, windowVars, accepted, outcomes, sealVars, envVars, historyVars>>

\* A byte-identical repeat of a sealed attempt gets the response it got then.
answerFromLedger(e) ==
    /\ AttemptSealed(e) /\ SameAttempt(e)
    /\ markReceived(e)
    /\ anomalies' = gapFlag(e)
    /\ answer' = Reply(e, sealedAttempts[e.id].response)
    /\ UNCHANGED <<sessionVars, decided, bookVars, sealVars, envVars, refused>>

\* Why an attempt that verified is a replay, in the order the handler asks.
ReplayDetail(e) ==
    CASE AttemptSealed(e)                    -> "id-replay"
      [] ~AttemptSealed(e) /\ Concluded(e)   -> "concluded"
      [] OTHER                               -> "sequence"

ReplayedAttempt(e) ==
    \/ AttemptSealed(e) /\ ~SameAttempt(e)
    \/ ~AttemptSealed(e) /\ (Concluded(e) \/ alreadyDecided(e))

\* Deciding a value that is already decided changes nothing, so the three
\* replays decide alike.
rejectReplay(e) ==
    /\ ReplayedAttempt(e)
    /\ markReceived(e)
    /\ decide(e)
    /\ rejected' = [rejected EXCEPT ![e.session_id] = @ \cup {e.id}]
    /\ anomalies' = gapFlag(e) \cup {Anomaly(e.id, "replay-detected", ReplayDetail(e))}
    /\ answer' = Reply(e, Reject("replay-detected"))
    /\ refused' = IF alreadyDecided(e) THEN refused ELSE refused \cup {e}
    /\ UNCHANGED <<sessionVars, accepted, outcomes, sealVars, envVars>>

\* Variants: concluded operations are not asked about; ids are unique per session.
FreshAttempt_concludedToo(e) == ~AttemptSealed(e) /\ ~alreadyDecided(e)

FreshAttempt_perSession(e) ==
    e.id \notin accepted[e.session_id] /\ ~Concluded(e) /\ ~alreadyDecided(e)

FreshAttempt(e) == ~AttemptSealed(e) /\ ~Concluded(e) /\ ~alreadyDecided(e)

\* Nothing is decided: the identical attempt may come again.
answerUnavailable(e) ==
    /\ FreshAttempt(e)
    /\ unavailable
    /\ markReceived(e)
    /\ anomalies' = gapFlag(e)
    /\ answer' = Reply(e, Unavailable)
    /\ UNCHANGED <<sessionVars, decided, bookVars, sealVars, envVars, refused>>

\* Variant: the countersignature is not kept for a repeat.
acceptAttempt_keepsNoSignature(e) ==
    LET response == Accept(ledger'[Len(ledger')]) IN
    /\ FreshAttempt(e)
    /\ ~unavailable
    /\ markReceived(e)
    /\ seal(e)
    /\ decide(e)
    /\ accepted' = [accepted EXCEPT ![e.session_id] = @ \cup {e.id}]
    /\ sealedAttempts' = [sealedAttempts EXCEPT ![e.id] =
         [canonical |-> e, response |-> [response EXCEPT !.host_signature = {}]]]
    /\ anomalies' = gapFlag(e)
    /\ answer' = Reply(e, response)
    /\ UNCHANGED <<sessionVars, rejected, outcomes, envVars, refused>>

acceptAttempt(e) ==
    LET response == Accept(ledger'[Len(ledger')]) IN
    /\ FreshAttempt(e)
    /\ ~unavailable
    /\ markReceived(e)
    /\ seal(e)
    /\ decide(e)
    /\ accepted' = [accepted EXCEPT ![e.session_id] = @ \cup {e.id}]
    /\ sealedAttempts' = [sealedAttempts EXCEPT ![e.id] = [canonical |-> e, response |-> response]]
    /\ anomalies' = gapFlag(e)
    /\ answer' = Reply(e, response)
    /\ UNCHANGED <<sessionVars, rejected, outcomes, envVars, refused>>

\* Variant: the number is decided before the record is sealed.
attemptSealThrows_decides(e) ==
    /\ FreshAttempt(e)
    /\ ~unavailable
    /\ markReceived(e)
    /\ signerThrows
    /\ decide(e)
    /\ anomalies' = gapFlag(e)
    /\ answer' = NoReply
    /\ UNCHANGED <<sessionVars, bookVars, sealedAttempts, envVars, refused>>

attemptSealThrows(e) ==
    /\ FreshAttempt(e)
    /\ ~unavailable
    /\ markReceived(e)
    /\ signerThrows
    /\ anomalies' = gapFlag(e)
    /\ answer' = NoReply
    /\ UNCHANGED <<sessionVars, decided, bookVars, sealedAttempts, envVars, refused>>

handleAttempt(e, arrivedOn) ==
    \/ rejectInadmissible(e, arrivedOn)
    \/ /\ Admitted(e, TRUE, arrivedOn)
       /\ \/ rejectUnverified(e)
          \/ /\ SignatureVerifies(e)
             /\ \/ answerFromLedger(e)
                \/ rejectReplay(e)
                \/ answerUnavailable(e)
                \/ acceptAttempt(e)
                \/ attemptSealThrows(e)

-----------------------------------------------------------------------------
(***************************************************************************)
(* handleOutcome: no answer; what is not sealed is dropped.                *)
(***************************************************************************)

dropInadmissible(e, arrivedOn) ==
    LET fault == AdmissionFault(e, FALSE) IN
    /\ ~Admitted(e, FALSE, arrivedOn)
    /\ anomalies' = {Anomaly(e.id, fault.reason, fault.detail)}
    /\ UNCHANGED <<windowVars, bookVars, sealVars, historyVars>>

dropUnverified(e) ==
    /\ ~SignatureVerifies(e)
    /\ anomalies' = {Anomaly(e.id, "signature-invalid", SignatureFault(e))}
    /\ UNCHANGED <<windowVars, bookVars, sealVars, historyVars>>

\* A byte-identical repeat of the sealed outcome is not processed further.
ignoreRepeat(e) ==
    /\ Concluded(e) /\ SameOutcome(e)
    /\ markReceived(e)
    /\ anomalies' = gapFlag(e)
    /\ UNCHANGED <<decided, bookVars, sealVars, refused>>

ReplayedOutcome(e) ==
    \/ Concluded(e) /\ ~SameOutcome(e)
    \/ ~Concluded(e) /\ alreadyDecided(e)

dropReplay(e) ==
    /\ ReplayedOutcome(e)
    /\ markReceived(e)
    /\ decide(e)
    /\ anomalies' = gapFlag(e) \cup
         {Anomaly(e.id, "replay-detected",
                  IF Concluded(e) THEN "correlation" ELSE "sequence")}
    /\ refused' = IF alreadyDecided(e) THEN refused ELSE refused \cup {e}
    /\ UNCHANGED <<bookVars, sealVars>>

\* Variant: a second terminal outcome is looked for by its number only.
FreshOutcome_byNumber(e) == ~alreadyDecided(e)

FreshOutcome(e) == ~Concluded(e) /\ ~alreadyDecided(e)

Orphaned(e) == ~Correlated(e) /\ e.outcome # "aborted"

\* Variant: an orphan leaves its number undecided.
dropOrphan_undecided(e) ==
    /\ FreshOutcome(e) /\ Orphaned(e)
    /\ markReceived(e)
    /\ anomalies' = gapFlag(e) \cup
         {Anomaly(e.id, "orphaned-outcome",
                  IF e.id \in rejected[e.session_id] THEN "after-reject" ELSE "never-accepted")}
    /\ refused' = refused \cup {e}
    /\ UNCHANGED <<decided, bookVars, sealVars>>

dropOrphan(e) ==
    /\ FreshOutcome(e) /\ Orphaned(e)
    /\ markReceived(e)
    /\ decide(e)
    /\ anomalies' = gapFlag(e) \cup
         {Anomaly(e.id, "orphaned-outcome",
                  IF e.id \in rejected[e.session_id] THEN "after-reject" ELSE "never-accepted")}
    /\ refused' = refused \cup {e}
    /\ UNCHANGED <<bookVars, sealVars>>

\* Dropped without a flag and without deciding its signer_seq.
dropUnavailable(e) ==
    /\ FreshOutcome(e) /\ ~Orphaned(e)
    /\ unavailable
    /\ markReceived(e)
    /\ anomalies' = gapFlag(e)
    /\ UNCHANGED <<decided, bookVars, sealVars, refused>>

sealOutcome(e) ==
    /\ FreshOutcome(e) /\ ~Orphaned(e)
    /\ ~unavailable
    /\ markReceived(e)
    /\ seal(e)
    /\ decide(e)
    /\ outcomes' = [outcomes EXCEPT ![e.session_id][e.id] = e]
    /\ anomalies' = gapFlag(e)
    /\ UNCHANGED <<accepted, rejected, sealedAttempts, refused>>

outcomeSealThrows(e) ==
    /\ FreshOutcome(e) /\ ~Orphaned(e)
    /\ ~unavailable
    /\ markReceived(e)
    /\ signerThrows
    /\ anomalies' = gapFlag(e)
    /\ UNCHANGED <<decided, bookVars, sealedAttempts, refused>>

handleOutcome(e, arrivedOn) ==
    /\ answer' = NoReply
    /\ UNCHANGED <<sessionVars, envVars>>
    /\ \/ dropInadmissible(e, arrivedOn)
       \/ /\ Admitted(e, FALSE, arrivedOn)
          /\ \/ dropUnverified(e)
             \/ /\ SignatureVerifies(e)
                /\ \/ ignoreRepeat(e)
                   \/ dropReplay(e)
                   \/ dropOrphan(e)
                   \/ dropUnavailable(e)
                   \/ sealOutcome(e)
                   \/ outcomeSealThrows(e)

\* A message that fails the schema is no event: it is flagged under whatever id it
\* carries, and answered where it was meant for an attempt.
handleMalformed(id, attempt) ==
    /\ anomalies' = {Anomaly(id, "schema-invalid", "structure")}
    /\ answer' = IF attempt THEN Reply(Nothing, Reject("schema-invalid")) ELSE NoReply
    /\ UNCHANGED <<sessionVars, windowVars, bookVars, sealVars, envVars, historyVars>>

-----------------------------------------------------------------------------

Next ==
    \/ \E s \in Sessions : openSession(s) \/ closeSession(s)
    \/ setUnavailable
    \/ \E k \in KeyIds : revokeKey(k) \/ \E p \in PublicKeys : registerKey(k, p)
    \/ \E id \in Ids, attempt \in BOOLEAN : handleMalformed(id, attempt)
    \/ \E e \in Events : \E arrivedOn \in {{e.session_id}, {}} :
          handleAttempt(e, arrivedOn) \/ handleOutcome(e, arrivedOn)

Spec == Init /\ [][Next]_vars
-----------------------------------------------------------------------------
(***************************************************************************)
(* Properties.                                                             *)
(***************************************************************************)

Details == {"structure", "channel", "session", "l2-unsigned", "unknown-key",
            "signature-invalid", "gap", "id-replay", "concluded", "sequence",
            "correlation", "after-reject", "never-accepted", "unresolved"}

AnomalyKinds == {"schema-invalid", "replay-detected", "signature-invalid",
                 "signer-seq-gap", "orphaned-outcome", "unresolved-attempt"}

AnomalyEntries == [id : Ids, kind : AnomalyKinds, detail : Details]

Answers ==
         [event : Events, response : Responses]
    \cup [event : {Nothing}, response : {Reject("schema-invalid")}]

SessionsOK == issued \subseteq Sessions /\ sessions \subseteq issued

WindowOK ==
    /\ decided \in [Sessions -> [KeyIds -> SUBSET Nat]]
    /\ received \in [Sessions -> [KeyIds -> Nat \cup {NoneReceived}]]

BooksOK ==
    /\ accepted \in [Sessions -> SUBSET Ids]
    /\ rejected \in [Sessions -> SUBSET Ids]
    /\ outcomes \in [Sessions -> [Ids -> Events \cup {Nothing}]]

SealedOK ==
    /\ sealedAttempts \in [Ids -> SealedAttempts \cup {Nothing}]
    /\ ledger \in Seq(SealedRecords(Events))
    /\ hostClock \in 0..MaxHostClock

EnvOK == unavailable \in BOOLEAN /\ registry \in KeyRegistryType

OutputOK ==
    /\ anomalies \subseteq AnomalyEntries
    /\ answer \subseteq Answers

HistoryOK == verified \subseteq Events /\ refused \subseteq verified

\* A session that is not open - not issued yet, or ended - has left nothing
\* behind in the window or the books: closeSession deletes the whole entry.
EndedIsForgotten ==
    \A s \in Sessions \ sessions :
       /\ accepted[s] = {} /\ rejected[s] = {}
       /\ outcomes[s] = [i \in Ids |-> Nothing]
       /\ decided[s] = [k \in KeyIds |-> {}]
       /\ received[s] = [k \in KeyIds |-> NoneReceived]

\* Every variable has its type, and a session that is not open has no entry.
TypeOK ==
    /\ SessionsOK /\ WindowOK /\ BooksOK /\ SealedOK
    /\ EnvOK /\ OutputOK /\ HistoryOK /\ EndedIsForgotten

\* No two sealed records share a signer_seq within one key and one audit session
\* (section 7.4), whatever is retried, repeated or reordered: the check against
\* `decided` comes after the check against the sealed ids in handleAttempt and
\* after the check against the sealed outcomes in handleOutcome.
NoSharedSignerSeq ==
    Level = "L2" =>
      \A i, j \in DOMAIN ledger :
         i # j /\ SameWindow(ledger[i].event, ledger[j].event)
           => ledger[i].event.signer_seq # ledger[j].event.signer_seq

AttemptRecords == {i \in DOMAIN ledger : IsAttempt(ledger[i].event)}

TerminalRecords == {i \in DOMAIN ledger : ~IsAttempt(ledger[i].event)}

OfOperation(i, s, id) == ledger[i].event.session_id = s /\ ledger[i].event.id = id

\* The books of an open session agree with the ledger: it accepted an id if and
\* only if an attempt of its own is sealed under it, holds an outcome if and only
\* if its terminal record is sealed, and the partition's index of sealed attempts
\* knows them all.  No record is of a session never issued, so a session starts
\* with empty books and no records: its id is never issued again.
BooksMatchLedger ==
    /\ \A i \in DOMAIN ledger : ledger[i].event.session_id \in issued
    /\ \A s \in sessions, id \in Ids :
          /\ id \in accepted[s] <=> \E i \in AttemptRecords : OfOperation(i, s, id)
          /\ outcomes[s][id] # Nothing <=> \E i \in TerminalRecords : OfOperation(i, s, id)
    /\ \A i \in AttemptRecords : sealedAttempts[ledger[i].event.id] # Nothing

\* An operation has at most one terminal record (section 7.2).
OneTerminalRecord ==
    \A i, j \in TerminalRecords :
       SameOperation(ledger[i].event, ledger[j].event) => i = j

\* No attempt is sealed after its own operation's terminal record: an attempt
\* that arrives late, after the tool gave up and its refusal was sealed, is
\* refused as concluded.
NoAttemptAfterTerminal ==
    \A i \in AttemptRecords, j \in TerminalRecords :
       SameOperation(ledger[i].event, ledger[j].event) => i < j

\* A success or failed record always follows the sealed attempt of its own
\* operation, in its own session; only an aborted one may stand alone.
OutcomeHasAttempt ==
    \A j \in DOMAIN ledger :
       ledger[j].event.outcome \in {"success", "failed"}
         => \E i \in AttemptRecords :
               i < j /\ SameOperation(ledger[i].event, ledger[j].event)

\* An attempt id is sealed once in the partition, also across sessions.
OneAttemptPerId ==
    \A i, j \in AttemptRecords :
       ledger[i].event.id = ledger[j].event.id => i = j

\* An accept tells the truth, the first time and on every repeat: the record it
\* names is in the ledger at that seq, holds that very event, and has the hash
\* the tool recomputes from the response (the polluted-stop check).
AcceptIsSealed ==
    \A a \in answer :
       a.response.status = "accept" =>
         LET r == a.response IN
         /\ r.seq + 1 \in DOMAIN ledger
         /\ ledger[r.seq + 1].event = a.event
         /\ ledger[r.seq + 1].record_hash = r.record_hash
         /\ r.record_hash = computeRecordHash(a.event, r.seq, r.host_ts, r.previous_hash)

SealedEvents == {ledger[i].event : i \in DOMAIN ledger}

\* The replay window is exact while the session is open: a value is decided if
\* and only if a record was sealed under it or an event that verified was
\* refused under it.  So `unavailable`, a dropped outcome, a throwing
\* countersigner and an idempotent repeat leave the value free for a retry, and
\* nothing else does.
WindowIsExact ==
    Level = "L2" =>
      \A s \in sessions, k \in KeyIds :
         decided[s][k] = {e.signer_seq : e \in {f \in SealedEvents \cup refused :
                                                 f.session_id = s /\ f.key_id = k}}

\* Every sealed Level-2 record still verifies against the registry, whatever was
\* registered or revoked since: a key id binds one key for its lifetime, and a
\* revoked entry is kept.
RecordsStillVerify ==
    Level = "L2" =>
      \A i \in DOMAIN ledger :
         LET e == ledger[i].event IN
         isRegistered(registry, e.key_id) /\ verifyEventSignature(e)

\* The chain holds: positions without a gap, each record committing to the one
\* before it, and host time strictly increasing although a throwing
\* countersigner loses ticks.
ChainHolds ==
    \A i \in DOMAIN ledger :
       LET r == ledger[i] IN
       /\ r.seq = i - 1
       /\ r.previous_hash = IF i = 1 THEN GENESIS_HASH ELSE ledger[i - 1].record_hash
       /\ r.record_hash = computeRecordHash(r.event, r.seq, r.host_ts, r.previous_hash)
       /\ i > 1 => ledger[i - 1].host_ts < r.host_ts

\* When a call ends, exactly the operations whose attempt was sealed in it and
\* whose terminal record was not are flagged unresolved - also when the outcome
\* was dropped, or a repeat of the attempt was refused meanwhile.
UnresolvedAtEnd ==
    [][\A s \in sessions \ sessions' :
         anomalies' =
           {Anomaly(i, "unresolved-attempt", "unresolved") :
              i \in {id \in Ids :
                 /\ \E n \in AttemptRecords : OfOperation(n, s, id)
                 /\ ~\E n \in TerminalRecords : OfOperation(n, s, id)}}]_vars

\* A signer_seq gap is flagged the moment it opens and only then: when an event
\* verifies for the first time and some value below its own lies above every
\* value received before.
GapsAreFlagged ==
    [][\A e \in verified' \ verified :
         Level = "L2" =>
           (Anomaly(e.id, "signer-seq-gap", "gap") \in anomalies'
              <=> \E m \in 0..(e.signer_seq - 1) :
                     \A f \in verified : SameWindow(e, f) => f.signer_seq < m)]_vars

\* What a Level-2 host has refused stays refused: an event that verified and was
\* refused is never sealed later in its session, however often it comes again.
RefusedStaysRefused ==
    [][Level = "L2" /\ ledger' # ledger => ledger'[Len(ledger')].event \notin refused]_vars
=============================================================================
