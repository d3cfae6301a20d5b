# AMCP in TLA+

A TLA+ verification project for the reference implementation of the auditable MCP extension: an
audit exchange in which a tool asks the host to *seal* a record of every internal operation before
it performs it. The repository implements the same protocol twice, in TypeScript
(`reference/typescript/src`) and in Python (`reference/python/src/auditable_mcp`), from one text
(`spec/auditable-mcp.md`). The modules here are translated from the code; `PROJECT.json` names, for every
definition, the lines it stands for. Since the two implementations mirror one another, the map uses
both: decisions and checks of the host are often mapped to `host.py`, its steps and the tool's to
the TypeScript. Where the two differ, the difference is named below.

- [1 The system](#1-the-system)
- [2 The modules](#2-the-modules)
- [3 How the models correspond to the code](#3-how-the-models-correspond-to-the-code)
- [4 The runs](#4-the-runs)
- [5 Bounds and fairness](#5-bounds-and-fairness)
- [6 The proofs](#6-the-proofs)
- [7 Two disagreements between comments and the code](#7-two-disagreements-between-comments-and-the-code)
- [8 What is not modelled](#8-what-is-not-modelled)
- [9 Plan](#9-plan)

## 1 The system

### Parts, their state and their operations

| Part | Code (TypeScript; Python alongside) | State | Operations |
|---|---|---|---|
| Audit host | `host/auditHost.ts`, `host.py` | open sessions with, per session, the replay window of each key (`decided`, highest received), the accepted and rejected ids, the sealed outcomes; the sealed attempts of the partition; the durability switch; the anomaly list | `openSession`, `closeSession`, `handleAttempt`, `handleOutcome`, `setUnavailable` |
| Ledger | `ledger/ledger.ts`, `ledger.py` | the sealed records, the host's clock | `append`, `digest` |
| Key registry | `l2/keys.ts` | key id -> public key, revoked or not | `register`, `revoke`, `get`, `current` |
| Tool session | `tool/amcp.ts`, `amcp.py` | none but what its awaits hold; a `KeySigner` with the next `signer_seq` of each session, and a registry of host keys | `audited` |
| Event signing | `l2/signing.ts` | the counters | `sign`, `verifyEventSignature`, `countersignatureCheck` |
| MCP wiring | `mcp/wiring.ts` | the sessions in flight on a connection | `connectAuditPair`, `createToolServer`, `callAudited` |
| Negotiation | `schema/capability.ts`, `transport/degradation.ts` | the declarations | `compare`, `negotiateCapability`, `transportFor` |
| Verifier | `verify/verify.ts` | none: a function of a ledger, a registry, digests and a declared capability | `verifyLedger`, `unaccountedSignerSeq` |
| Reconciliation | `l2/reconcile.ts` | none: a function of observations and records | `reconcile` |
| Example tool | `tool/sqlAnalystTool.ts` | none | `analyze`: three audited operations in sequence |
| Schemas, canonicalization, salted hashes | `schema/`, `ledger/canonical.ts`, `ledger/saltedHash.ts` | none | pure data transformations |
| Conformance vectors | `vectors/generate.ts`, `vectors/fixtures.ts` | none: pinned inputs with pinned results | steps and cases run against an implementation |
| Demonstrations, command line | `demo/`, `verify/cli.ts` | none | scripted runs, printing |

### Interactions

A call of the host's client opens a session and carries its id to the tool. The tool wraps each
operation: it stamps (and at Level 2 numbers and signs) an *attempt*, sends it as a request, and
waits a bounded time. The host answers `accept` with the record it sealed, `reject` or
`unavailable`. The tool retries the identical attempt when no answer or `unavailable` comes,
aborts when an answer fails one of its checks, and otherwise performs the operation and sends one
terminal *outcome*, a notification nobody answers. When the call ends - by its result, or because
the host's client gave it up - the host closes the session. All of it shares one connection, so an
outcome is behind its attempt and a result behind the outcomes, as long as the tool sends them in
that order. The verifier and the reconciliation read the ledger from outside.

### What is hard about it

* The host trusts no order: any event can arrive again, late, before its attempt, in a session that
  has ended, or on another call's connection. Three memories (sealed attempts, sealed outcomes,
  decided numbers) are consulted in a fixed order, and which answer an event gets depends on it.
* A number must be *spent* by a refusal and a record, and must *not* be spent by `unavailable`, by a
  throwing countersigner, by a dropped outcome or by an idempotent repeat, or a retry locks the tool out.
* The tool's patience races the host's answer: an accept may arrive after the retry it was asked
  for again, or after the refusal it led to was sent; the host has then sealed an attempt that is
  never performed.
* Operations of one call may overlap and share a counter; two calls may overlap on one connection.
* The client may give a call up while the tool is still at work.
* The host's ability to seal, the validity of a key - a tool's in the host's registry, the host's in the
  tool's - and the countersigner may change between any two events.
* The verifier must tell a suppressed record from a legitimate refusal from numbers alone, in one
  pass over a ledger in which events of many operations are interleaved.
* The verifier's inputs are given or not - two registries, a digest, an identity, a requirement - and a check
  it has no input for must not look like one that passed; its records may be of several versions, partly countersigned,
  or of a kind that has no hash.
* What the caller of a tool learns from a result comes another way than what the ledger learns, and either may be lost.

`PROJECT.json` lists these at the lines where they bite (`hazards`), each with the properties that
would notice it going wrong.

### What makes each part correct

* *Host.* One terminal record per operation, never its attempt behind it; `success` and `failed` only
  after the attempt; numbers unique within key and session; what was refused stays refused; an accept
  names a record that is really sealed; exactly the unresolved attempts are flagged at a call's end.
* *Ledger and registry.* Positions, links and times form a chain although sealing may fail half way;
  what was sealed keeps verifying although keys are revoked.
* *Tool and call.* Nothing is performed that is not sealed; an accept of the host is refused for want of a trusted host key only; the record tells the truth about what was
  performed; a flag against an honest tool always has a cause; a call ends.
* *Verifier.* It finds nothing in an honest ledger; it finds every change that an anchor, an expected
  identity or required countersignatures fix; it skips nothing in silence; its accounting of numbers is exact.
* *Negotiation.* The sides, comparing separately, agree; a call recorded with the host can be.
* *Reconciliation.* No false alarm at any moment, and no suppressed egress that stays unseen.
* *Example tool.* Its records follow its program, its result tells what is on record, and it ends.
* *Vectors.* An implementation that meets them step by step meets them in company, too.

## 2 The modules

```
 Ledger    KeyRegistry                          Negotiation        AuditedOperations
      \     /                                  (stands alone)      (abstract; stands alone)
   AuditExchange --------------+---------------------+
     /        \                |                     |
 AuditHost   AmcpTool      Verifier               Fixtures
     |  \      /           /   |   \               |    |
     |  AuditedCall ------     |    VerifierReport |    |
     |   |   |    \      /     |     |         \   |    |
     |   | AnalystCall  |      |  PresentedLedger \ |    |
     |   |         VerifiedCall|           VerifierVectors
     |  Reconciliation         |                   |
     |                         |                   |
     +------ VerifiedHost -----+                   |
     |                                             |
     +------ ReplayVectors ---- ConformanceVectors-+

  AuditHost -- AuditHostProofs                      Negotiation -- NegotiationProofs
                     |
  AuditedCall -- AuditedCallProofs                  Verifier -- AccountingProofs
                  /           \                                /      |       \
       CallUsesProofs       VerifierProofs -------------------        |    PresentedLedgerProofs
   (AnalystCall, Reconciliation)                             ConformanceProofs  (PresentedLedger)
                                                            (ConformanceVectors)
```

| Module | What it is |
|---|---|
| `Ledger` | records, the record hash, the countersignature payload, `append`, `digest`; hashes and signatures are ideal |
| `KeyRegistry` | register, revoke, look up, compare two registries |
| `AuditExchange` | the audit event and the Attempt Response |
| `AuditHost` | the host: one action per outcome of a handler, one handler call per step; **the core** |
| `AmcpTool` | the tool session, from one await to the next, over a queue that may lose events |
| `AuditedCall` | host and tool over a connection, calls opened, ended and given up |
| `AuditedOperations` | the abstract specification of an audited operation, which `AuditedCall` implements |
| `Verifier` | the checks of `verifyLedger` that need a ledger alone, and the accounting of numbers |
| `VerifierReport` | the whole of `verifyLedger`: inputs that may be missing, versions, spoilt records, names, the report |
| `VerifiedHost`, `VerifiedCall` | the ledger of `AuditHost` / `AuditedCall` read by the verifier in every state |
| `PresentedLedger` | ledgers of several hosts, and one that is presented to the verifier after storage changed it |
| `Negotiation` | the comparison functions and one connection that uses them |
| `Reconciliation` | `AuditedCall` observed at a boundary |
| `AnalystCall` | the example tool as a schedule of `AuditedCall`, and what it returns |
| `Fixtures` | sessions and keys of the vectors |
| `ReplayVectors` | the pinned replay window and error cases, against `AuditHost` |
| `VerifierVectors` | the pinned verifier and accounting cases, against `VerifierReport` |
| `ConformanceVectors` | one run over both |
| `MC...` | small sets of events, assignments of operations to calls, three chains of two hosts |
| `AuditHostProofs` | theorems about `AuditHost`: types, books, pairing, numbers, chain, gaps, repeats |
| `AuditedCallProofs` | `AuditedCall` implements `AuditHost`, audits before it acts, tells the truth, implements `AuditedOperations`; the host's answers are refused for want of a trusted key only; the host flags an honest tool with a cause only |
| `CallUsesProofs` | what is built on calls: the example tool implements `AuditedCall`, its records and its result; reconciliation |
| `AccountingProofs` | what the accounting of numbers computes, for any records |
| `VerifierProofs` | what the verifier finds in a ledger the host sealed, and in that of honest calls |
| `PresentedLedgerProofs` | what a clean report fixes of a copy, and that an original has one |
| `ConformanceProofs` | the accounting of the pinned cases, in any company |
| `NegotiationProofs` | theorems about `Negotiation` |

`AuditHost` alone takes *any* event at *any* time, which is what the host has to bear; in
`AuditedCall` the same handlers get only what a tool that follows `AmcpTool` sends, so that the
composition can promise what the host alone cannot (`PerformedIsSealed`, `RecordTellsTruth`).

Three refinements tie the modules together. `AuditedCall` implements `AuditHost` (proved; the variables are the
same). `AuditedCall` implements `AuditedOperations` (checked and proved) under a mapping: of an operation, `act` is
what its phase and its performing amount to, and `record` the set of entries the ledger has of it; attempts sent again, answers, numbers, hashes,
the durability switch and the whole connection are not to be seen. `AnalystCall` implements `AuditedCall`
(proved: `AnalystIsCall`) with its fairness (checked: `FairCallSpec` is a property of `FairAnalystSpec`), which is
why what holds of every tool - that its calls end included - holds of the example.

## 3 How the models correspond to the code

**Atomicity.** In both implementations a handler of the host runs to its end without awaiting, so one
call of `handleAttempt`, `handleOutcome`, `openSession`, `closeSession` is one step, everything it
writes included. The tool awaits in three places - the answer to an attempt, `perform`, the
result - and `AmcpTool` has exactly the steps between them: `audited` (stamp, sign, send),
`unanswered` and `answered` (one await ends), `performEnds`, `respond`.

**Handlers as disjunctions.** `handleAttempt` is the disjunction of the ways it can return
(`rejectInadmissible`, `rejectUnverified`, `answerFromLedger`, `rejectReplay`, `answerUnavailable`,
`acceptAttempt`, `attemptSealThrows`); their guards are the code's early returns in order, factored into
named predicates (`Admitted`, `SignatureVerifies`, `AttemptSealed`, `Concluded`, `alreadyDecided`,
`FreshAttempt`). `handleOutcome` likewise.

**State.** `sessions`, `decided`, `received`, `accepted`, `rejected`, `outcomes` are the fields of the
code's per-session object, as functions of the session; closing deletes the object, so an ended
session's entries are reset (`EndedIsForgotten`, part of `TypeOK`). The code has `received` start as undefined and treats
a first value other than 0 as a gap; here that is -1, which makes it one comparison. The anomaly
list is only ever appended to: `anomalies` holds what the last call appended, and `answer` what it
returned. `verified` and `refused` in `AuditHost`, `performed` and `lost` in `AmcpTool`,
`givenUp`, `outage`, `misdelivered` in `AuditedCall`, and `covert` in `Reconciliation` are history that
no guard reads, apart from the bounds on `lost` and `misdelivered`.

**Data.** An event is a record of the fields the protocol decides on: id, session, outcome, abort
reason, key id, number, and who signed it. `body` stands for the rest. A hash is the tuple of what it
is taken over, so it is injective; a signature is the signer together with what was signed, so it cannot be made by
another. `record_hash` nests the previous one, as the chain does. Everything a schema can object to is one
event that is none (`handleMalformed`): an attempt is rejected as `schema-invalid`, an outcome flagged, and nothing else happens. The host's clock is a counter; `append` ticks it before the countersigner
is called, so a countersigner that throws loses a tick and nothing else, in the model as in the code.

**Environment.** Flipping the durability switch, registering and revoking tool keys at the host, registering the host's key (or
another one under its id) and revoking it at the tool, a throwing countersigner, losing
an event, an answer that comes late or never, a call that is given up are steps that may happen whenever the code
lets them. In `call_answers` an answer may also be replaced on its way by one the host gave for
another record (`misdeliver`), which is what the tool's checks of an accept are there for. The check of a countersignature
(`countersignatureVerifies`) resolves the host's key id in the tool's own registry (`hostRegistry`) and, as `countersignatureCheck`
does for a tool, takes a key that is registered and not revoked; the registry changes between the steps of a call (`provisionTool`).

**Variants.** A definition named `x_something`, marked *Variant* in its comment, is a plausible
wrong version of the definition `x` after it. The specification never uses it; it is there so that each
property can be shown to notice the mistake (`mutants` in `PROJECT.json`).

**Where the implementations differ.** Python's `_ask` takes only transport errors, `OSError` and a
timeout for "no answer" where TypeScript takes any exception; `unanswered` follows TypeScript. Of a record that is verified, `verify.ts`
asks whether the whole record is in the canonicalization domain, any member besides those of the schema included, where `verify.py` asks only of its event and of `seq`,
`host_ts` and `previous_hash`; `hashable` in `VerifierReport` follows TypeScript.

**Verifier.** `VerifierReport` has `verifyLedger` whole. Its out-of-band inputs are sets of at most one element (given, or not).
A version's rules are data of the schemas; there is the current version and one before it, which
is all the code tells apart outside the schemas. `OutOfDomain` stands for any value outside the
canonicalization domain and may be in the event or next to it, because the code asks of one in one
place and of both in another (section 7). `Verifier`, which the runs of host and calls use, has the checks
that need none of this; `VerifierReport` reuses those that are the same and states the others again for records of this wider kind.
The code goes through sorted numbers and sorted refusals; `missingRuns` and `unaccountedRuns` are the same passes as functions of the
numbers and the refusals gone through so far, the last one in the code's order being the last step.

**Vectors.** The steps and cases of `vectors/fixtures.ts` with their expectations as `vectors/generate.ts` pins them,
except for bytes: a hash is whatever the ideal hash is, and an error case that fails the schema is an event that is none, with the answer or
the flag that is pinned for it. The error cases are fed to the host of the replay window, between its steps; the code runs them against a Level-1 host, which makes no difference to
them, because the schema and the session are looked at before a signature is. `TopOfDomain` stands for 2^53 - 1.

**Negotiation and calls.** `AuditedCall` assumes of its constants that a Level-2 host has a tool that
signs and that a tool which requires countersignatures has a host that makes them
(`CallAssumption`). `RecordedCallFits` of `Negotiation` is what justifies it, together with the tool keeping its
own declaration. The server of `wiring.ts` takes the mandatory posture and does not go through
`transportFor`; `Negotiation` has both ways to serve a call. `createToolServer` constructs its tool sessions
with default dependencies - no signer, no retries - whatever it declared; the cfg of `call_given_up` is
that configuration.

## 4 The runs

| Run | Instance | What it shows | Distinct states |
|---|---|---|---|
| `host_window` | one Level-2 session, one key, six events that compete for ids and numbers | types; numbers unique; one terminal record, no attempt behind it; accepts are sealed, first and repeated; the window is exact; gaps flagged when and only when they open; refused stays refused | 132 720 |
| `host_keys` | two sessions, two keys, a countersigner that may throw, a forged and an unsigned event | sealed records verify whatever is registered and revoked later; the chain holds; the window is exact per key and session; the verifier finds nothing in the ledger but missing numbers | 305 010 |
| `host_plain` | two Level-1 sessions that use one id, six unsigned events | books and ledger agree; the pairing of attempts and outcomes without any help of numbers; the end of a call flags exactly the unresolved | 192 756 |
| `call_record` | one Level-2 call, two operations that may overlap, one retry, one lost event, outages, giving up, fairness | the call implements `AuditedOperations`; the record tells the truth; flags have a cause; the verifier's number of missing values is exact; an honest call verifies; every call ends | 251 888 |
| `call_answers` | one call of a tool that requires countersignatures, two operations that may overlap, one retry, one answer replaced on its way; the host's key unknown to the tool, bound to another key or revoked at any moment | audit before act survives replaced answers; an unreplaced accept is refused exactly when the tool does not hold the host's key as a current one | 788 154 |
| `call_given_up` | the wiring's default tool, the client may give up | *violation*: see section 7 | - |
| `negotiation` | all pairs of capabilities and declarations of two versions | the sides agree; a recorded call can be recorded; never silent, never stuck | 15 838 |
| `reconciliation` | two Level-1 calls, one destination, egress or not, covert egress | no false alarm at any moment; a covert egress is found | 1 319 310 |
| `analyst` | the example tool, three operations, two losses, one retry, outages, giving up, fairness | records follow the program and stop at a refusal; the result tells what is on record; the example implements `AuditedCall`, fairness included | 81 824 |
| `presented` | three chains of two hosts, one name used by both, a version change in one; up to two changes; every choice of inputs | an original verifies, also after a key of its host was revoked; an expected identity, an anchored digest and required countersignatures each fix what they should; a check without its input is reported | 23 829 |
| `presented_spoilt` | the same, and `host_ts` may be spoilt | *violation*: see section 7 | - |
| `vectors` | the pinned vectors: twelve steps of the replay window with error cases, repeats and switches between them; the verifier's cases with any further inputs; every two accounting cases in one chain | each step, each error case and each verifier case ends as pinned; the accounting of numbers is exact | 17 680 |

Some of the properties deserve a word.

* `WindowIsExact` says both that a number is spent by every record and refusal (or a number could be sealed
  twice) and that nothing else spends one (or a tool that retries after `unavailable` is refused as
  a replay and can never record that operation). It relates the window to the ledger and to history.
* `GapsAreFlagged` states when a gap *opens* from the events that verified so far, with no
  reference to the counter the code keeps.
* `FlagsHaveCause` is about fairness towards the tool: over a lossless connection, with a host that can seal
  and a call that is not given up, an honest tool is never flagged - not by its retries, not by overlapping operations.
* `UnaccountedIsExact` compares what the verifier reports from the ledger with what the tool
  numbered. Only the *number* of values can be exact: a refusal accounts for the smallest missing value
  below it, which need not be its own attempt's. The model showed the stronger statement to be false when operations overlap.
* `IdentityBinds` and `AnchoredCopyIsOriginal` say what a clean report is worth: the first leaves a beginning of
  that host's chain of that name (records removed from the end are not seen without an anchor), the second
  the whole chain, up to its countersignatures. `RequiredMeansSealed` is what remains without either.
* `NothingSkippedInSilence` compares two verifications of the same records: one that is complete for want
  of a registry finds nothing when it is repeated with the registry.
* `AnswersVerify` says when the tool refuses an accept, and when it does not. A key that is revoked between sealing and the tool's check - of the first answer or of
  the repeat after a retry - stops the operation although its attempt is sealed; nothing else about an honest host's accept does.
* `AuditBeforeAct` is a refinement, so it is about steps as well as states: acting *follows* the sealed attempt, the end of an
  operation enters the record once, and no record is added to a call that is over.
* `ResultTellsRecord` relates what the caller is told to what the ledger shows: content, an abort that names its
  operation, or, when the abort's own outcome could not be sent, a protocol error whose refusal the ledger never gets.
* `StepsAsPinned` is stronger than running the vectors: between any two steps any error case, any repeat of what is settled
  and any switch may come, and the pinned answers, records and flags still hold.
* `AccountingIsExact` states what the accounting is for as a matching problem - the largest set of refusals that
  can each be given a missing value of their own below them - and shows that the code's single greedy pass over runs solves it,
  for every two of the pinned cases sealed into one chain, in sessions of their own or in the same ones, in every order that keeps each one's.
* `CovertIsFound` has its exception in the property: a destination reported by one audited egress of a session
  hides other egresses to it in that session, which is how `reconcile` compares.

## 5 Bounds and fairness

| Bound | Where | Why it is enough |
|---|---|---|
| `MaxHostClock` | host | ticks of the clock, hence records. Three hold an operation's attempt and outcome and a competing record, the most any host property relates; in calls without a countersigner it is the number of records the operations can cause (two operations: 4, three: 6), so it never blocks; in `call_answers` there is one more for a tick lost to a throw, and in `reconciliation` one less, where the second call's last record cannot be sealed and its message stays on the connection unless the host is unavailable by then |
| `MaxSignerSeq` | tool | numbers of a session: an attempt and an outcome for each operation, so it never blocks |
| `AttemptRetries` | tool | a parameter of the code; one retry gives every race between the first answer and the second request |
| `MaxLost` | tool | one loss separates the two ends of any pair of events, two are allowed in `analyst`, where operations do not overlap |
| `MaxMisdelivered` | connection | one replaced answer is one chance to fool the checks of an accept |
| `HostKeyVaries` | tool | a switch; on in `call_answers`, whose properties depend on it. Elsewhere the tool holds the host's key throughout: an accept it cannot check makes it abort, as it would on a refusal, which those runs have |
| `MayGiveUp` | call | a switch; on in `call_record`, `call_given_up`, `analyst` and `reconciliation`, where giving up matters to a property. It does not make `CallsEnd` easy: no fairness makes anyone give a call up |
| `MaxEdits` | presented ledger | two changes are one alteration with what it takes to hide it - rehashing, relabelling, stripping or countersigning anew |
| `MaySpoil` | presented ledger | which part of a record may leave the domain; the passing run has the event, the other the time |
| `TopOfDomain` | vectors | only its being the largest matters: 12, above every other number of the cases |

The events of the host's runs are chosen, not enumerated: the host takes any of them any number of times in any
order, so a few that compete for the same ids, numbers, keys or sessions produce the interesting
states, and a comment in `MCAuditHost` says what each set is for. The runs of the calls use every event
the tool can build (`ToolEvents`). No run uses symmetry or a state constraint. The vectors are data of the code.

`CHECK_DEADLOCK FALSE` is set in four runs whose system really stops: `presented` and
`presented_spoilt` with no changes left, `vectors` at the end of a case, `negotiation` with its call over.
The other systems go on (the switch can always be flipped), and their deadlock check is on.

*Fairness* is assumed in `call_record` (`FairCallSpec`), for `CallsEnd`:

* `receive` - the connection delivers what is on it, and the host's handlers run to completion;
* `unanswered \/ answered` - every attempt is a `server.request` of the MCP SDK (`transport/mcpTransport.ts`), whose request timeout bounds the
  wait; section 6 of the specification text leaves the bound to the binding and the SDK, and the Python `AuditTransport` documents it; so a
  wait ends one way or the other;
* `performEnds` - an operation ends. This is a promise of the tool, not of the code: an operation that never
  returns keeps its call open, as it would any MCP call;
* `respond` - a handler with nothing left to await returns.

`analyst` assumes the same of the example tool (`FairAnalystSpec`), with one more: `proceeds` - where an `await` resolved,
the program goes on to its next operation or returns, as JavaScript does. It checks that this implies
`FairCallSpec`, that is, each of the conditions above.

All are weak fairness. Nothing is assumed of the durability switch (a host that never recovers ends
calls too), of starting operations, or of the host giving up.

## 6 The proofs

Those of the host hold for every set of events, sessions, ids and keys, every bound on the clock,
both levels, with and without countersigning; those of calls for every assignment of operations to calls, every
number of retries, losses and replaced answers besides.

*Assumptions.* `EventsAssumption` (events are well-formed, the marker values for "no key" and
"forged" are no key), `HostAssumption` (`Level`, `Countersigns` and the bound have their types),
`NothingAssumption` (the value for an absent map entry is no entry) and `NotRegisteredAssumption` (likewise in the registry)
for the host; `ToolAssumption` (types, and that the tool's events are among the host's) and `CallAssumption` (the sides fit
each other, section 3) for calls; `StepsAssumption` (each call of the example tool has three operations, with fresh ids) for the example;
`BodiesAssumption` (a body says whether it is an egress and where to) for reconciliation;
`DeclarationAssumption` (the values for a missing and a malformed declaration are no capability) for negotiation; and
`PresentedAssumption` (the types of scripts, names and keys; no host has the tool's key; a host names each of its ledgers differently, as section 7.1 of the specification text
has it) with `PresentAssumption` (a countersignature and a name that are there are not the value for an absent one) and `OutOfDomainAssumption` for presented ledgers;
`CasesAssumption` (the largest number is above those of the cases) for the vectors. TLC evaluates all of them.

Some theorems have a hypothesis in their statement, because they are false without it:

* `MaxMisdelivered = 0 \/ Signs \/ RequireCountersign` - a tool that neither signs nor requires countersignatures takes an answer to
  another attempt for its own - in `PerformedTheorem`, `RefinementTheorem`, `FlagsTheorem`, `AlarmsTheorem`, `ProgramTheorem`
  and `ResultTheorem`;
* `MaxMisdelivered = 0` in `UnaccountedTheorem`: a tool that gets another attempt's answer aborts for a reason of its own
  (`host-signature-invalid`, say) while its own attempt may not be sealed, and the verifier does not count such an abort as a refusal;
* `"host_ts" \notin MaySpoil` in `AnchoredTheorem`, `RequiredTheorem` and `IdentityTheorem` (section 7, second disagreement), and in the
  last two `OwnKeys`: no two host key ids share a key;
* `ScriptsConform` in `OriginalTheorem`: the scripts of the chains are what a host seals of a tool that follows the protocol, performs one operation after the other and loses nothing. `conforms` says it event by
  event: well-formed, of a version no lower than those before, signed by the tool's key or not at all, no success or failure without its attempt, no number twice, and every
  number below one that was used is used by then or belongs to an attempt that was refused, each refusal standing for its own. (Where operations overlap and the host is unable to seal an attempt,
  a ledger that is read between another operation's record and that refusal does report the number, as it should: it may never come.) The last is *not* how the verifier
  counts: it says where a host's numbers went, and leaves it to the theorem that the smallest-first accounting of the verifier gets along with it. TLC evaluates `ScriptsConform` of the chains of `presented` (`ConformingAssumption`).

`TypeCorrect` to `RepeatTheorem`, `TruthTheorem`, `AnswersTheorem`, `VerifiesTheorem`, `HonestTheorem`, `NothingSkippedTheorem`, `ConformanceTheorem` and the
theorems of negotiation have none; those of `AccountingProofs` ask of the records that their numbers are numbers.

*Argument.*

1. `AuditHostProofs` proves `TypeCorrect`: `TypeOK`, which includes `EndedIsForgotten`, is inductive by itself,
   one lemma per handler (`AttemptKeepsType`, `OutcomeKeepsType`, `CloseKeepsType`,
   `EnvironmentKeepsType`) and one per helper that builds records, answers and anomalies.
2. It then reduces fifteen ways a handler can return to two: `StepKind` says
   that every step `Seals` an event - and then it was admitted, verified and fresh, and exactly these
   maps changed in this way - or `SealsNothing`. Everything later argues about these two kinds.
   `BooksTheorem` proves `BooksMatchLedger`: the host never reads its ledger, it decides from its books, so
   every statement about the ledger needs them to agree. It is inductive with `TypeOK`; the conjunct that no
   record is of a session never issued is what makes a fresh session start right.
   `PairingTheorem` then proves `OneTerminalRecord`, `NoAttemptAfterTerminal`, `OutcomeHasAttempt` and `OneAttemptPerId`
   together. None of them is inductive alone: sealing an attempt must know from the books that no terminal record is
   there, sealing an outcome that the attempt is.
3. Of the numbers: `SealedIsDecided` - the number of every record of an open session is in
   `decided` - gives `NoSharedSignerSeqTheorem`; `UnresolvedTheorem`, the action property
   `UnresolvedAtEnd`, follows directly from the books.
   `WindowTheorem` is both halves of `WindowIsExact`: `StepNumber` says of every step which number it spends, and for what.
   `RefusedTheorem` follows: what would seal an event finds its number decided.
   `GapTheorem` uses `HighestReceived`: the counter the code keeps is the
   highest number among the events that verified in that session under that key, so a step flags a gap exactly if the property's own
   definition, which does not mention the counter, says that one opens.
4. Of the chain: `ChainTheorem` with `ClockIsAhead` (no record is later than the clock, so a tick lost to
   a throwing countersigner is harmless); `AcceptTheorem` from `IndexIsSealed` (an entry of the index of sealed attempts is the
   accept of a record in the ledger) and `AcceptIsIndexed` (an accept is such an entry); and
   `StillVerifyTheorem` from `RegistryGrows` (a registered key id keeps its key).
   `RepeatTheorem` is the action property `RepeatsChangeNothing`: a byte-identical repeat of a sealed event, if its session is open and it still verifies, leaves every variable as it was,
   flags nothing, and an attempt gets the answer of its own record - while the host cannot seal, too, and however many events came in between. It needs `SealedIsKnown`
   (the host keeps the response of every attempt it sealed, and of its open sessions every outcome it sealed and the fact that each event verified), which turns the early
   returns of the handlers into one way out, and `HighestReceived`, by which a number that was received before opens no gap.
5. `AuditedCallProofs` proves `CallImplementsHost`, `CallSpec => Spec`: the variables of the host are the same, so the
   mapping is the identity, and what has to be shown is that the events on the connection are events the host is
   specified for. That needs an invariant of tool and connection (`ToolInv`): an attempt on the connection is the stamped attempt of its
   operation, of a session that was issued. Every theorem above then holds of calls as it stands.
   `PerformedTheorem` uses two of them. Its invariant `AcceptsAreSealed` says that an accept that waits at the tool is of *some*
   sealed record, and of the right one unless an answer was replaced; what closes the gap is `Polluted`: the tool recomputes the hash over
   its own attempt, and the hash tells events apart.
6. `TruthTheorem` uses `TruthInv`: what an outcome says *while it is on the connection* is how its operation
   ended (`OutcomesTold`), which stays true because an operation moves forward only (`ToolMoves`, `EndStays`), until the
   host seals the very event it takes off (`LedgerStep`).
   `RefinementTheorem` is `AuditBeforeAct`. `StepImplements` maps every step: the tool's moves to `Perform`, `Finish`, `Refuse` or
   nothing, sealing to `EnterAttempt` or `EnterEnd` - whose guards are the pairing theorem, read of the ledger *after* the step - and
   opening and closing to `Begin` and `End`. `AnswersTheorem` sharpens `AcceptsAreSealed`: with no answer replaced,
   an accept at the tool is, field by field, the record of the attempt it answers (`AnswersRecorded`). By `ChainTheorem` its hash and its countersigned payload are those the
   tool recomputes, so whether the tool takes it is left to one look into its registry: as the host signs under one key (`TrustedHostKey`), the check passes exactly when that key is
   what the registry holds, registered and not revoked.
7. The last part of `AuditedCallProofs` proves `FlagsTheorem`. A step's flags depend on where every number of a session is, so the invariant `FlagInv` says it of the
   whole connection: no two events share a number (`NumbersTell`); events arrive in the order of their numbers, and one that has not arrived is still on its way
   or lost (`NumbersInOrder`); an operation's outcome comes after everything else of it (`OutcomeIsLast`); what is sent in a call is sent before its result, so that the
   end of the call finds nothing still on its way (`CallsFit`); and an operation that ended was told of, is being told of, or has a cause (`EndReported`). None of these mentions
   the host's books; what `AuditHostProofs` knows of those turns them into what the handlers decide. A step is one of few kinds
   (`ToolKind`, `RestKind`), and an event that is received is late or is taken (`Takes`).
8. `CallUsesProofs` proves `AnalystIsCall`, so all of this holds of the example tool. `ProgramTheorem` is `RecordsFollowProgram`, from `StepsInOrder` (an operation
   begins when those before it were performed) and `ProgramOrder`: what is sealed *and what is under way* is in the order of
   the program, which is preserved because the connection keeps order and the ledger takes from its front. `ResultTheorem` adds `LostForGood` - an outcome that was lost is
   neither under way nor sealed, ever - without which a missing refusal could still arrive.
9. `AccountingProofs` proves `AccountingTheorem`: *of any records whose numbers are numbers*, what the verifier's procedure leaves of a key's numbers in a session is what
   section 11.4 defines - maximal ascending runs; the smallest values accounted for; and as many of them as refusals can be assigned a missing
   value below their own, each a different one. The procedure is a recursive function over the subsets of the refusals, and the library's induction is out of reach, so
   `SubsetInduction` and `SubsetRecursion` are proved from well-foundedness for functions. `AccountsForMore` is the step, the exchange argument for a greedy assignment: the refusals come in ascending order, so
   giving the next one the smallest value that is left never costs a later one its own, and if even that is not below it, no assignment serves more.
   `AccountingDetermined` is the converse: whatever satisfies `AccountsFor` *is* what the procedure leaves, so two verifiers that meet the definition report the same runs. Two answers settle equally many of
   the smallest values, hence the same ones, and maximal ascending runs are determined by their values (`RunsAreTheirValues`: look at the first place where two lists of them differ).
   `NothingUnaccounted` is what a ledger can be read with: if each missing value can be given a refusal of its own above it, by whatever assignment, the procedure leaves nothing. And
   `AccountingIsLocal` says that sessions do not touch each other: two ledgers with the same records of a session in the same order leave the same runs of it, whatever
   other sessions are sealed before, after and in between. Positions differ between the two, and refusals are known by position, so an assignment in the one is carried over to the other
   (`AssignableElsewhere`); then both runs satisfy the same definition, and `AccountingDetermined` makes them one.
10. `VerifierProofs` proves `VerifiesTheorem`, and `CallsVerifyTheorem` of calls: in a ledger its host sealed the verifier finds nothing but, perhaps, numbers
   that are missing. It combines `ChainTheorem`, `StillVerifyTheorem`, the pairing and the numbers, check by check. The one hard part is that the hashes the
   verifier recomputes are those the records carry: the recomputation is a recursive function, and induction
   is replaced by a minimal counterexample - of two functions that satisfy the same recursion, look at the
   least place where they differ.
11. `HonestTheorem` is about calls: numbers are found missing only of sessions with a cause. `NumbersReported` is the invariant: without a cause every number used is on the connection or
   sealed. That alone would do for ended calls; that the ledger has no gap *at any moment*, retries and overlapping operations included, is `NumbersAscend`: whatever is
   sealed or on the connection has every lower number sealed or ahead of it. A repeated attempt joins the end of the queue under an old number, which keeps the order because all below it were used earlier,
   and what the host takes off the front it seals, has sealed, or has a cause for (`TakenIsRecorded`). `UnaccountedTheorem` compares two counts of different things: what the verifier reports, from
   sealed records alone, and what the tool numbered and the ledger lacks. Each sealed refusal is sent to the number of *its own* attempt. This is an assignment in the sense of the
   `AccountingTheorem`: the attempt's number is missing, since a sealed attempt would precede and excuse nothing (pairing, `NumbersTell`), it is below the refusal's own (`EndsNumberedLater`), and no two refusals
   share one. So all refusals can be served, the procedure serves as many - other values, perhaps - and what remains is equally many. An operation that was aborted although its attempt is sealed - the tool had no
   key to check the answer under - has nothing missing to account for. That every other abort is the host's refusal (`AbortsAreHosts`) is where the hypothesis is used.
12. `PresentedLedgerProofs` proves the five properties of a report over any chains and *any number* of changes. The inductive invariant is weak, `PresentedInv`: each record of the copy has the shape of one, and each
   countersignature in it was made by a host for a record it sealed, or by the tool. Everything else comes from the report. If the hashes fit they are those of the
   contents (`RecordsFit`, `HashIsWhole`); equal hashes mean equal histories (`SameHistory`), which gives `AnchoredTheorem`; and a countersignature over a hash fixes
   chain and position (`CountersignatureBinds`), which gives `RequiredTheorem` and `IdentityTheorem`. `NothingSkippedTheorem` compares two reports of the same records, check by check.
   `OriginalTheorem` goes the other way: a copy that is a beginning of a chain has a complete report without findings. `BeginningIsSound` and `BeginningIsSigned` go through the checks; the hashes need the minimal
   counterexample of item 10 again. `BeginningAccounted` is the hard one: the verifier hides what earlier versions sealed and drops what nobody numbered, so the numbers it works with have to be found in
   the script (`BeginningNumbered`); then each number that is missing belongs to a refused attempt, and `NothingUnaccounted` does the rest. That it holds of *every* beginning is why
   `conforms` asks that a number is accounted for by the records up to the one that shows it missing.
13. `NegotiationProofs` proves all three properties, for every set of versions, from `StagesFit`, which says of each
   stage what was decided in terms of the declarations, and `ComparisonsFit`: each comparison
   function, called from its side, comes to whether the two capabilities fit.
14. `CallUsesProofs` also proves both properties of reconciliation. `AlarmsTheorem` is `PerformedTheorem` put to use: what the boundary sees was
   performed, so its attempt is on record, and records stay. `CovertTheorem` needs `BodiesFit`: an event on the
   connection or in the ledger has the body its operation was started with.
15. `ConformanceProofs` proves `AccountingIsExact` of whichever pinned cases are sealed, in whatever order and on whichever side: `CasesInv`, that what is sealed and what is left to
   seal are events of the cases, is inductive, so the numbers are numbers and `AccountingTheorem` applies to every key and session.

Each property of the list in `PROJECT.json` is also checked by a run, on a small instance.

*Only model-checked.*

* Liveness (`CallsEnd`, and the fairness half of `FairCallSpec` for the example tool), as the prover does not reason about ENABLED.
* `CasesAsPinned` and `StepsAsPinned`, which compare tables of concrete cases with tables of concrete results. They have no parameters, so the run
  already goes through all there is, and a proof would repeat it.

## 7 Two disagreements between comments and the code

### A call that is given up

`closeSession` says of the moment it is called that "every outcome of the session has been delivered"
(`host/auditHost.ts:115`, following section 6.3 of the specification text). That holds when a call
ends with its result. But `callAudited` closes the session in a `finally` (`mcp/wiring.ts:154`), also when
`client.callTool` rejected because the request timed out or was cancelled; the tool's handler does
not look at the cancellation signal and goes on. Run `call_given_up` checks the comment's statement as
`AllDeliveredAtEnd` and shows the whole course: the host seals the attempt and accepts it; the call is given up before the outcome is sent, and closing the session flags the
operation as `unresolved-attempt`; on the accept the tool performs the operation all the same and reports success; and this truthful outcome comes to a session that ended and is
dropped as `replay-detected`. What the ledger
says remains true (`RecordTellsTruth` holds in `call_record`, which allows giving up), and nothing is performed
unrecorded (`PerformedIsSealed`); what is lost is the outcome of an operation that was performed.
`FlagsHaveCause` therefore names giving a call up among the causes of a flag.

### A record that cannot be hashed

`verifyLedger` says of a record outside the canonicalization domain that it "has no record hash to
recompute; it is reported above" (`verify/verify.ts:253`; the same in `verify.py:267`). What is
above, `structureError`, looks at the record's event alone, while `hashable` asks of the whole record. A record whose
event is in the domain and whose `host_ts` is not - a time beyond 2^53 - 1, say - is reported by nothing, and its hash and
countersignature are passed over. Run `presented_spoilt` checks the comment's statement as `UnhashableIsReported` and shows
such a record; `presented` allows the event alone to be spoilt, where the comment is right and the other
properties hold.

## 8 What is not modelled

* Canonicalization, hashing, salted hashes, signature encodings, JWK and the check that a key fits its algorithm:
  byte-level data transformations without state, with ideal hashes and signatures in their place. So are the
  vectors that pin them.
* The JSON schemas: a message validates or does not, and a record of an earlier version is one of an earlier version.
* The binding of section 6.4 of the specification text, for MCP versions without a handshake, in which the
  exchange rides `tools/call` itself: the code has its schemas and no behaviour. The models follow the binding of section 6.5, which
  `mcp/wiring.ts` implements.
* Persistence: the ledger lives in memory and the code has no restart, so there is no crash recovery to model; section 6.3
  asks of a host that resumes a chain what no code here does. A *stored* ledger is the verifier's input, and is modelled as such.
* Closing a client-server pair, the demonstrations and the command line: scripts over the components above, and printing.
* The texts of anomalies and issues, and the order of a report's issues.

## 9 Plan

Done: host, tool, call, verifier, negotiation, reconciliation, example tool and the vectors that are not about bytes
are modelled and checked. Every safety property the runs check is proved for all values of the constants, but for the two tables of pinned results; liveness is checked.

What would add most next:

1. That the ledger of calls without a cause is a script that `conforms`. `PairingTheorem`, `NumbersTell` and `NumbersAscend` say this part by part, of the events of calls; the events of presented ledgers
   have a version besides, and the two modules would have to be joined.
2. A ledger whose host changed its key along the way: an expected identity may name several keys, and each chain here has one.
