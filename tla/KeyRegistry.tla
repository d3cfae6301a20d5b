----------------------------- MODULE KeyRegistry ----------------------------
(***************************************************************************)
(* A key registry (l2/keys.ts) as a value: a function from key ids to      *)
(* entries, NotRegistered where the registry holds none.  A public key     *)
(* stands for the key pair: an event signed with its private half verifies *)
(* under it and under no other (verifyEventSignature).                     *)
(***************************************************************************)
CONSTANTS KeyIds, PublicKeys, NotRegistered

ASSUME NotRegisteredAssumption ==
    NotRegistered \notin [publicKey : PublicKeys, revoked : BOOLEAN]

RegisteredKey == [publicKey : PublicKeys, revoked : BOOLEAN]

KeyRegistryType == [KeyIds -> RegisteredKey \cup {NotRegistered}]

emptyRegistry == [keyId \in KeyIds |-> NotRegistered]

\* The entry, revoked or not: what a verifier checks a sealed record against.
get(registry, keyId) == registry[keyId]

isRegistered(registry, keyId) == registry[keyId] # NotRegistered

\* There is an entry an event arriving now may be accepted under.
isCurrent(registry, keyId) ==
    isRegistered(registry, keyId) /\ ~registry[keyId].revoked

\* A key id binds one key for its lifetime: another key under it is refused.
mayRegister(registry, keyId, publicKey) ==
    isRegistered(registry, keyId) => registry[keyId].publicKey = publicKey

\* Registering again leaves the entry as it is: it does not undo a revocation.
register(registry, keyId, publicKey) ==
    IF isRegistered(registry, keyId)
    THEN registry
    ELSE [registry EXCEPT ![keyId] = [publicKey |-> publicKey, revoked |-> FALSE]]

publicKeysOf(registry) ==
    {registry[keyId].publicKey : keyId \in {k \in DOMAIN registry : isRegistered(registry, k)}}

\* Variant: a revoked entry is no longer a key of the registry.
sharesKeyWith_current(registry, other) ==
    \E k \in DOMAIN registry, j \in DOMAIN other :
       /\ isCurrent(registry, k) /\ isCurrent(other, j)
       /\ registry[k].publicKey = other[j].publicKey

\* Under whatever ids, revoked or not.
sharesKeyWith(registry, other) == publicKeysOf(registry) \cap publicKeysOf(other) # {}

\* Variant: revocation deletes the entry.
revoke_deletes(registry, keyId) == [registry EXCEPT ![keyId] = NotRegistered]

revoke(registry, keyId) ==
    [registry EXCEPT ![keyId] = [publicKey |-> registry[keyId].publicKey, revoked |-> TRUE]]
=============================================================================
