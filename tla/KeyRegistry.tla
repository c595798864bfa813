----------------------------- MODULE KeyRegistry -----------------------------
(***************************************************************************)
(* Organisations, API keys and signing keys (services/api/src/registry.ts, *)
(* auth.ts, routes/orgs.ts, bin/thenar-admin.ts) and the gates that a      *)
(* signed claim or episode passes before it is logged (routes/claims.ts,   *)
(* routes/episodes.ts).                                                    *)
(*                                                                         *)
(* A refused request changes nothing, so it is not a step. A digest is the *)
(* text it was made from, a key's id is its public key; nobody signs with  *)
(* another's key. An attestation is stored and never read back, and no     *)
(* program writes an API key's revoked_at: both are left out.              *)
(***************************************************************************)
EXTENDS Integers, Sequences, FiniteSets

CONSTANTS
    OrgIds, Secrets,     \* sequences: what newUlid and randomBytes return
    OrgKinds, Roles,
    Pubkeys,             \* public key -> [length, lead, curve]
    OperatorKey, VerifierKey,  \* OPERATOR_KEY and VERIFIER_KEY
    Objects,             \* hashes that may be signed
    MaxLogged, EndOfTime \* bounds

\* The server's own keys are derived from seeds of ed25519.
ASSUME KeyAssumption ==
    /\ Pubkeys[OperatorKey].length = 32 /\ Pubkeys[VerifierKey].length = 32
    /\ EndOfTime \in Nat

VARIABLES
    orgs,         \* org id -> kind
    apiKeys,      \* secret -> [org, role]
    signingKeys,  \* public key -> [org, alg, validFrom, validTo]
    now,          \* the server's second
    passed,       \* claims and episodes between their gates and the log
    logged        \* those that were logged

keyVars == <<orgs, apiKeys, signingKeys, now, passed, logged>>

Unset == -1
OperatorOrg == "org_operator"
VerifierOrg == "org_verifier"
Algs == {"ed25519", "p256", "secp256k1"}

-----------------------------------------------------------------------------
(* packages/protocol/src/sign.ts, and apps/web/verify.js                   *)

Domains == {"manifest", "revoke", "claim", "appendReceipt"}
Message(domain, object) == <<domain, object>>

\* A signature is known by the key that made it and what it is over.
Sign(domain, object, pubkey) ==
    [by |-> pubkey, over |-> Message(domain, object), length |-> 64]

Verify(alg, domain, object, sig, pubkey) ==
    LET bytes == Pubkeys[pubkey] IN
    /\ alg = bytes.curve
    /\ \/ alg = "ed25519" /\ bytes.length = 32
       \/ alg = "p256" /\ bytes.length = 65 /\ bytes.lead = 4
    /\ sig.length = 64
    /\ sig.by = pubkey /\ sig.over = Message(domain, object)

\* The page knows one domain and one algorithm.
VerifyManifestSignature(object, sig, pubkey) ==
    /\ Pubkeys[pubkey].length = 32 /\ sig.length = 64
    /\ Pubkeys[pubkey].curve = "ed25519"
    /\ sig.by = pubkey /\ sig.over = Message("manifest", object)

-----------------------------------------------------------------------------
(* services/log/src/store.ts; a row that is looked up is a set with at     *)
(* most one                                                                *)

\* The rows of a table, and others where it has none.
With(table, others) ==
    [k \in DOMAIN table \cup DOMAIN others |-> IF k \in DOMAIN table THEN table[k] ELSE others[k]]

InsertOrg(org, kind)          == orgs' = With(orgs, [o \in {org} |-> kind])
InsertApiKey(secret, row)     == apiKeys' = With(apiKeys, [s \in {secret} |-> row])
ApiKeyByHash(secret)          == {apiKeys[s] : s \in DOMAIN apiKeys \cap {secret}}
InsertSigningKey(pubkey, row) == signingKeys' = With(signingKeys, [k \in {pubkey} |-> row])
SigningKey(pubkey)            == {signingKeys[k] : k \in DOMAIN signingKeys \cap {pubkey}}
RevokeSigningKey(pubkey, at)  == signingKeys' = [signingKeys EXCEPT ![pubkey].validTo = at]
SigningKeysForOrg(org)        == {k \in DOMAIN signingKeys : signingKeys[k].org = org}

-----------------------------------------------------------------------------
(* registry.ts and auth.ts                                                 *)

PubkeyBytes == [ed25519 |-> {32}, p256 |-> {65}, secp256k1 |-> {33, 65}]
ValidPubkey(alg, pubkey) ==
    LET bytes == Pubkeys[pubkey] IN
    /\ bytes.length \in PubkeyBytes[alg]
    /\ alg # "ed25519" /\ bytes.length = 65 => bytes.lead = 4

\* registerKey; a key that is registered stays with its organisation.
RegisterKey(org, alg, pubkey) ==
    /\ org \in DOMAIN orgs
    /\ ValidPubkey(alg, pubkey)
    /\ SigningKey(pubkey) = {}
    /\ InsertSigningKey(pubkey, [org |-> org, alg |-> alg, validFrom |-> now, validTo |-> Unset])

\* A slip used as a mutant: a key may be revoked again.
RevokeKeyAgain(org, pubkey) ==
    \E row \in SigningKey(pubkey) : row.org = org /\ RevokeSigningKey(pubkey, now)

\* revokeKey
RevokeKey(org, pubkey) ==
    \E row \in SigningKey(pubkey) :
        row.org = org /\ row.validTo = Unset /\ RevokeSigningKey(pubkey, now)

\* The row of a key that was valid at that second.
ResolveKey(pubkey, at) ==
    {row \in SigningKey(pubkey) :
        row.validFrom <= at /\ (row.validTo = Unset \/ at < row.validTo)}

\* What everybody may read: the rows of an organisation, without attestations.
PublicSigningKey(pubkey) ==
    LET row == signingKeys[pubkey] IN
    [key |-> pubkey, alg |-> row.alg, validFrom |-> row.validFrom, validTo |-> row.validTo,
     attestationLevel |-> 1]
ListKeys(org) ==
    {PublicSigningKey(k) : k \in SigningKeysForOrg(org)}

\* The principal behind a bearer key.
RequireAuth(secret) == ApiKeyByHash(secret)
RequireOwnOrg(principal, org) == principal.org = org

-----------------------------------------------------------------------------
(* The commands of thenar-admin, for who has the token                     *)

\* The keys that organisations hold.
HeldKeys == DOMAIN Pubkeys \ {OperatorKey, VerifierKey}

CreateOrg ==
    /\ Cardinality(DOMAIN orgs \cap {OrgIds[k] : k \in DOMAIN OrgIds}) < Len(OrgIds)
    /\ \E kind \in OrgKinds :
           LET new == CHOOSE k \in DOMAIN OrgIds :
                          /\ OrgIds[k] \notin DOMAIN orgs
                          /\ \A l \in 1 .. k - 1 : OrgIds[l] \in DOMAIN orgs
           IN  InsertOrg(OrgIds[new], kind)
    /\ UNCHANGED <<apiKeys, signingKeys, now, passed, logged>>

IssueApiKey ==
    /\ Cardinality(DOMAIN apiKeys) < Len(Secrets)
    /\ \E org \in DOMAIN orgs, role \in Roles :
           InsertApiKey(Secrets[Cardinality(DOMAIN apiKeys) + 1], [org |-> org, role |-> role])
    /\ UNCHANGED <<orgs, signingKeys, now, passed, logged>>

RegisterVerifier ==
    /\ \E org \in DOMAIN orgs, pubkey \in HeldKeys, alg \in Algs : RegisterKey(org, alg, pubkey)
    /\ UNCHANGED <<orgs, apiKeys, now, passed, logged>>

-----------------------------------------------------------------------------
(* Boot, and the routes                                                    *)

\* ensureOperatorKey and ensureVerifierKey: a key that is registered is left as
\* it is, and so is an organisation that exists.
Ensured(key, org) == [pubkey \in {key} \ DOMAIN signingKeys |->
    [org |-> org, alg |-> "ed25519", validFrom |-> now, validTo |-> Unset]]
Boot ==
    LET added == With(Ensured(OperatorKey, OperatorOrg), Ensured(VerifierKey, VerifierOrg)) IN
    /\ signingKeys' = With(signingKeys, added)
    /\ orgs' = With(orgs, [org \in {added[k].org : k \in DOMAIN added} |-> "verifier"])
    /\ UNCHANGED <<apiKeys, now, passed, logged>>

PostKey ==
    /\ \E secret \in DOMAIN apiKeys, org \in DOMAIN orgs, pubkey \in HeldKeys, alg \in Algs :
           \E principal \in RequireAuth(secret) :
               RequireOwnOrg(principal, org) /\ RegisterKey(org, alg, pubkey)
    /\ UNCHANGED <<orgs, apiKeys, now, passed, logged>>

PostRevoke ==
    /\ \E secret \in DOMAIN apiKeys, org \in DOMAIN orgs, pubkey \in HeldKeys :
           \E principal \in RequireAuth(secret) :
               RequireOwnOrg(principal, org) /\ RevokeKey(org, pubkey)
    /\ UNCHANGED <<orgs, apiKeys, now, passed, logged>>

\* The gates are passed before the signature is awaited, the rest comes after.
Passes(domain, object, key, sig, org) ==
    /\ passed' = passed \cup {[domain |-> domain, object |-> object, key |-> key, sig |-> sig,
                               org |-> org, at |-> now]}
    /\ UNCHANGED <<orgs, apiKeys, signingKeys, now, logged>>

\* Every signature that a holder of a key may have made.
Signatures == {Sign(domain, object, pubkey) :
                  domain \in Domains, object \in Objects, pubkey \in DOMAIN Pubkeys}

PostClaim ==
    /\ Cardinality(passed \cup logged) < MaxLogged
    /\ \E secret \in DOMAIN apiKeys, key \in DOMAIN signingKeys :
           \E principal \in RequireAuth(secret), row \in ResolveKey(key, now) :
               /\ principal.role = "verifier"
               /\ orgs[row.org] = "verifier"
               /\ \E object \in Objects, sig \in Signatures, alg \in Algs :
                      /\ Verify(alg, "claim", object, sig, key)
                      /\ Passes("claim", object, key, sig, principal.org)

PostEpisode ==
    /\ Cardinality(passed \cup logged) < MaxLogged
    /\ \E secret \in DOMAIN apiKeys, key \in DOMAIN signingKeys, org \in DOMAIN orgs :
           \E principal \in RequireAuth(secret), row \in ResolveKey(key, now) :
               /\ org = principal.org
               /\ row.org = principal.org
               /\ \E object \in Objects, sig \in Signatures, alg \in Algs :
                      /\ Verify(alg, "manifest", object, sig, key)
                      /\ Passes("manifest", object, key, sig, org)

\* Appended, or given up.
Commit ==
    /\ \E r \in passed : passed' = passed \ {r} /\ logged' \in {logged, logged \cup {r}}
    /\ UNCHANGED <<orgs, apiKeys, signingKeys, now>>

Tick ==
    /\ now < EndOfTime /\ now' = now + 1
    /\ UNCHANGED <<orgs, apiKeys, signingKeys, passed, logged>>

KeyInit == orgs = <<>> /\ apiKeys = <<>> /\ signingKeys = <<>> /\ now = 0
           /\ passed = {} /\ logged = {}

KeyNext ==
    \/ CreateOrg \/ IssueApiKey \/ RegisterVerifier \/ Boot
    \/ PostKey \/ PostRevoke \/ PostClaim \/ PostEpisode \/ Commit \/ Tick

-----------------------------------------------------------------------------
\* Whatever is logged, even after its key was revoked in the meantime, can be
\* checked by anybody, for ever: the organisation still lists the key, the
\* second of the gates falls within its validity (or is the second of its
\* revocation), the organisation is the caller's (for an episode) or a verifier
\* (for a claim), and the page accepts what it has a verifier for
\* (claims.ts:42-64, episodes.ts:25-49, registry.ts:179-190).
RowsKeepTheirKeys ==
    \A r \in logged :
        \E org \in DOMAIN orgs : \E key \in ListKeys(org) :
            /\ key.key = r.key
            /\ key.validFrom <= r.at /\ (key.validTo = Unset \/ r.at <= key.validTo)
            /\ IF r.domain = "manifest" THEN org = r.org ELSE orgs[org] = "verifier"
            /\ VerifyManifestSignature(r.object, r.sig, r.key)
                 <=> r.domain = "manifest" /\ key.alg = "ed25519"

\* What a key was worth at a second that is over never changes again: no second
\* revocation, no registration of a known key and no boot moves the past.
PastIsSettled ==
    \A at \in 0 .. now - 1, key \in DOMAIN Pubkeys :
        {[row EXCEPT !.validTo = Unset] : row \in ResolveKey(key, at)'}
            = {[row EXCEPT !.validTo = Unset] : row \in ResolveKey(key, at)}

\* Only a holder of one of the organisation's API keys revokes its keys.
OwnersRevoke ==
    \A key \in DOMAIN signingKeys :
        signingKeys'[key] # signingKeys[key] =>
            \E secret \in DOMAIN apiKeys : \E principal \in RequireAuth(secret) :
                principal.org = signingKeys[key].org

\* A key speaks for the organisation that registered it, from then until that
\* organisation takes it back, and for what it signed then, for ever
\* (registry.ts:137-185, orgs.ts:34-41).
KeysSpeakForTheirOwners == []RowsKeepTheirKeys /\ [][PastIsSettled /\ OwnersRevoke]_keyVars
=============================================================================
