---------------------------- MODULE PresentedLedger -------------------------
(***************************************************************************)
(* Ledgers of several hosts, some of them with the same name, and one that *)
(* is presented to a verifier: a beginning of one of theirs in which       *)
(* storage may have changed, exchanged, relabelled or spoilt anything.     *)
(* Hashes can be recomputed by anyone; a signature is made by who holds    *)
(* the key, and a tool holds its own.                                      *)
(***************************************************************************)
EXTENDS VerifierReport

CONSTANTS
    Chains,          \* the ledgers the hosts sealed
    ScriptOf,        \* the events of each, in order
    LogOf,           \* its name
    KeyOf,           \* the host key id it is countersigned under, or Nothing
    HostKeys,        \* the key behind each host key id
    ToolKeyId, ToolKey,
    MaySpoil,        \* what may end up outside the canonicalization domain
    MaxEdits         \* bound: changes to the presented copy

HostKeyIds == DOMAIN HostKeys

\* Events as they are stored: of whatever version.
VersionedEvents ==
    [id : Ids, session_id : Sessions, outcome : Outcomes,
     reason : AbortReasons \cup {NoReason}, body : Bodies,
     key_id : KeyIds \cup {NoKey}, signer_seq : Nat,
     signed_by : PublicKeys \cup {Forged}, version : Nat]

ASSUME PresentedAssumption ==
    /\ ScriptOf \in [Chains -> Seq(VersionedEvents)]
    /\ LogOf \in [Chains -> STRING]
    /\ KeyOf \in [Chains -> HostKeyIds \cup {Nothing}]
    \* Section 7.1: a host names each of its ledgers differently.
    /\ \A c, d \in Chains :
          KeyOf[c] # Nothing /\ KeyOf[c] = KeyOf[d] /\ LogOf[c] = LogOf[d] => c = d
    /\ ToolKeyId \in KeyIds /\ ToolKey \in PublicKeys
    /\ \A k \in HostKeyIds : HostKeys[k] \in PublicKeys \ {ToolKey}
    /\ MaySpoil \subseteq {"event", "host_ts"}
    /\ MaxEdits \in Nat

\* The record with its triple, if the host countersigns.
sealedBy(c, r) ==
    LET plain    == [event |-> r.event, seq |-> r.seq, host_ts |-> r.host_ts,
                     previous_hash |-> r.previous_hash, record_hash |-> r.record_hash,
                     host_signature |-> Nothing, host_key_id |-> Nothing, log_id |-> Nothing]
        labelled == [plain EXCEPT !.host_key_id = KeyOf[c], !.log_id = LogOf[c]]
    IN IF KeyOf[c] = Nothing THEN plain
       ELSE [labelled EXCEPT !.host_signature =
               [payload |-> payloadOf(labelled), by |-> HostKeys[KeyOf[c]]]]

\* Every chain as its host sealed it.
sealChain ==
    [c \in Chains |->
       LET sealed[n \in 0..Len(ScriptOf[c])] ==
             IF n = 0 THEN << >>
             ELSE Append(sealed[n - 1],
                         sealedBy(c, sealedRecord(sealed[n - 1], ScriptOf[c][n], n, FALSE)))
       IN sealed[Len(ScriptOf[c])]]

Originals == UNION {Range(sealChain[c]) : c \in Chains}

\* A countersignature and a name that are there are not absent.
ASSUME PresentAssumption ==
    \A c \in Chains :
       KeyOf[c] # Nothing =>
         /\ LogOf[c] # Nothing
         /\ \A n \in DOMAIN sealChain[c] : sealChain[c][n].host_signature # Nothing

-----------------------------------------------------------------------------
(***************************************************************************)
(* What a host seals of a tool that follows the protocol, performs one     *)
(* operation after the other and loses nothing on the way.                 *)
(***************************************************************************)

\* The events that are numbered the way this version numbers them.
numberedNow(script) ==
    {n \in DOMAIN script : ~Unsigned(script[n]) /\ ~isEarlier(script[n])}

\* An attempt of the same operation was sealed before event n.
attempted(script, n) ==
    \E m \in 1..(n - 1) : IsAttempt(script[m]) /\ SameOperation(script[m], script[n])

\* Every number below that of an event is one of an event that was sealed by then, or
\* of an attempt that was not, and whose refusal was: `attemptOf` has its number.
\* "By then", as a ledger may be read at any moment: were another operation begun before
\* the refusal is sealed, the number would be missing as long.
numbersAccountedFor(script, attemptOf) ==
    \A n \in numberedNow(script) : \A v \in 0..(script[n].signer_seq - 1) :
       \E m \in numberedNow(script) \cap 1..n :
          /\ SameWindow(script[m], script[n])
          /\ \/ script[m].signer_seq = v
             \/ /\ script[m].outcome = "aborted"
                /\ script[m].reason \in {"host-rejected", "host-unavailable"}
                /\ ~attempted(script, m)
                /\ attemptOf[m] = v /\ v < script[m].signer_seq

conforms(script) ==
    /\ \A n \in DOMAIN script :
          /\ ~structureError(script[n])
          /\ \A m \in 1..(n - 1) : script[m].version <= script[n].version
          /\ script[n].outcome \in {"success", "failed"} => attempted(script, n)
          /\ Unsigned(script[n]) \/ (script[n].key_id = ToolKeyId /\ script[n].signed_by = ToolKey)
    /\ \A m, n \in numberedNow(script) :
          m < n /\ SameWindow(script[m], script[n]) => script[m].signer_seq # script[n].signer_seq
    /\ \E attemptOf \in [DOMAIN script -> UNION {0..script[n].signer_seq : n \in DOMAIN script}] :
          numbersAccountedFor(script, attemptOf)

ScriptsConform == \A c \in Chains : conforms(ScriptOf[c])

\* What an event may be replaced by: another one, or one whose signature does not
\* fit it.
Replacements ==
    LET events == {r.event : r \in Originals} IN
    events \cup {[e EXCEPT !.signed_by = Forged] : e \in {f \in events : ~Unsigned(f)}}

-----------------------------------------------------------------------------
VARIABLES presented, edits

presentedVars == <<presented, edits>>

PresentedInit ==
    /\ \E c \in Chains : \E n \in 0..Len(sealChain[c]) : presented = SubSeq(sealChain[c], 1, n)
    /\ edits = 0

becomes(records) ==
    /\ edits < MaxEdits
    /\ records # presented
    /\ presented' = records
    /\ edits' = edits + 1

alterEvent(n) == \E e \in Replacements : becomes([presented EXCEPT ![n].event = e])

alterTime(n) == presented[n].host_ts # OutOfDomain /\ becomes([presented EXCEPT ![n].host_ts = @ + 1])

\* A record once more, or one of another chain, in between.
insert(n) == \E r \in Originals : becomes(InsertAt(presented, n, r))

\* A record of another chain, or of elsewhere in this one.
substitute(n) == \E r \in Originals : becomes([presented EXCEPT ![n] = r])

remove(n) == becomes(RemoveAt(presented, n))

\* One member of the triple as some record has it, absent included.
relabel(n) ==
    \E m \in triple, r \in Originals :
       becomes([presented EXCEPT ![n] = [@ EXCEPT ![m] = r[m]]])

strip(n) ==
    becomes([presented EXCEPT ![n] = [@ EXCEPT !.host_signature = Nothing,
                                               !.host_key_id = Nothing, !.log_id = Nothing]])

spoil(n) ==
    \/ "event" \in MaySpoil /\ becomes([presented EXCEPT ![n].event.body = OutOfDomain])
    \/ "host_ts" \in MaySpoil /\ becomes([presented EXCEPT ![n].host_ts = OutOfDomain])

\* Every position and hash made to fit what the records now say.
rehash ==
    LET placed == [n \in DOMAIN presented |-> [presented[n] EXCEPT !.seq = n - 1]]
        hash   == chainHash(placed)
    IN becomes([n \in DOMAIN presented |->
                  [placed[n] EXCEPT !.previous_hash = hash[n - 1], !.record_hash = hash[n]]])

\* The tool countersigns a record itself, under a name of its choice.
countersignedByTool(n) ==
    \E k \in HostKeyIds, c \in Chains :
       LET named == [presented[n] EXCEPT !.host_key_id = k, !.log_id = LogOf[c]] IN
       becomes([presented EXCEPT ![n] =
                  [named EXCEPT !.host_signature = [payload |-> payloadOf(named), by |-> ToolKey]]])

PresentedNext ==
    \/ \E n \in DOMAIN presented :
          \/ alterEvent(n) \/ alterTime(n) \/ insert(n) \/ substitute(n) \/ remove(n)
          \/ relabel(n) \/ strip(n) \/ spoil(n) \/ countersignedByTool(n)
    \/ rehash

PresentedSpec == PresentedInit /\ [][PresentedNext]_presentedVars
-----------------------------------------------------------------------------
(***************************************************************************)
(* The registries, identities and digests a verifier may have been given.  *)
(***************************************************************************)

toolRegistry == register(emptyRegistry, ToolKeyId, ToolKey)

hostRegistry == [k \in HostKeyIds |-> [publicKey |-> HostKeys[k], revoked |-> FALSE]]

\* And registries that bind the tool's key to a host, or did until it was revoked.
HostRegistries ==
    LET confused(k) == [hostRegistry EXCEPT ![k].publicKey = ToolKey]
    IN {hostRegistry} \cup UNION {{confused(k), revoke(confused(k), k)} : k \in HostKeyIds}

identityOf(c) == [logId |-> LogOf[c], hostKeyIds |-> {KeyOf[c]}]

Countersigned == {c \in Chains : KeyOf[c] # Nothing}

Inputs ==
    {inputs \in InputsOf({}, {toolRegistry}, HostRegistries, {identityOf(c) : c \in Countersigned}) :
        /\ \A keys, other \in inputs.hostKeyRegistry : keys = other
        /\ \A identity, other \in inputs.expectedIdentity : identity = other}
-----------------------------------------------------------------------------
(***************************************************************************)
(* Properties.                                                             *)
(***************************************************************************)

\* A chain its host sealed is complete and without findings, for a verifier that
\* expects that host and that name and has the registries - also after a key of
\* the host was revoked, after an upgrade in the middle of the chain, and of
\* whatever length it is when it is read.
OriginalVerifies ==
    \A c \in Chains :
       IsPrefix(presented, sealChain[c]) =>
         \A keys \in {hostRegistry} \cup {revoke(hostRegistry, k) : k \in HostKeyIds} :
            complete(presented,
                     [anchored                 |-> {},
                      keyRegistry              |-> {toolRegistry},
                      hostKeyRegistry          |-> {keys},
                      expectedIdentity         |-> {identityOf(c) : x \in {c} \cap Countersigned},
                      countersignatureRequired |-> c \in Countersigned])

\* An expected identity binds (section 10.10): of what is presented under the name
\* and the keys of a host, a complete report leaves nothing but the beginning of
\* that host's chain of that name - not a record of another host under the same
\* name, nor one of the same host's other chains, although their hashes agree.
IdentityBinds ==
    \A c \in Countersigned, inputs \in Inputs :
       (/\ inputs.expectedIdentity = {identityOf(c)}
        /\ inputs.hostKeyRegistry = {hostRegistry}
        /\ complete(presented, inputs))
         => IsPrefix(presented, sealChain[c])

\* What a record says, its countersignature aside.
Content(records) ==
    [n \in DOMAIN records |->
       [event |-> records[n].event, seq |-> records[n].seq, host_ts |-> records[n].host_ts,
        previous_hash |-> records[n].previous_hash, record_hash |-> records[n].record_hash]]

\* An anchored digest fixes the whole ledger (section 8.3), without a registry or
\* an identity: a copy in which the verifier finds nothing against a chain's digest
\* has that chain's content, record by record - no alteration, removal or exchange,
\* rehashed or not, gets by, nor does a beginning of the chain.
AnchoredCopyIsOriginal ==
    \A c \in Chains :
       issuesOf(presented, [anchored                 |-> {digest(sealChain[c])},
                            keyRegistry              |-> {},
                            hostKeyRegistry          |-> {},
                            expectedIdentity         |-> {},
                            countersignatureRequired |-> FALSE]) = {}
         => Content(presented) = Content(sealChain[c])

\* Without an expected identity, but with a required countersignature, a complete
\* report still means that a host sealed every record: a tool whose key got into
\* the host registry cannot pass for one, as the verifier then refuses to report
\* (section 10.9).
RequiredMeansSealed ==
    \A inputs \in Inputs :
       (/\ inputs.countersignatureRequired
        /\ inputs.keyRegistry # {} /\ inputs.hostKeyRegistry # {}
        /\ complete(presented, inputs))
         => \A n \in DOMAIN presented : \E c \in Countersigned : presented[n] \in Range(sealChain[c])

\* A report that is complete without some registry has nothing to fear from it:
\* with the registry the verifier finds the same.  What it could have found is
\* never simply absent (section 11.4).
NothingSkippedInSilence ==
    \A less \in Inputs : complete(presented, less) =>
       \A more \in {m \in Inputs :
                      /\ less.keyRegistry \subseteq m.keyRegistry
                      /\ less.hostKeyRegistry \subseteq m.hostKeyRegistry
                      /\ less.expectedIdentity = m.expectedIdentity
                      /\ less.countersignatureRequired = m.countersignatureRequired} :
          issuesOf(presented, more) = {}

\* What verifyLedger's comment says of a record outside the canonicalization
\* domain, whose hash and countersignature it passes over: it is reported above,
\* as schema-invalid.
UnhashableIsReported ==
    \A n \in DOMAIN presented :
       ~hashable(presented[n])
         => \E issue \in schemaIssues(presented) : issue.record = n
=============================================================================
