---------------------------- MODULE RulesProofs ----------------------------
(***************************************************************************)
(* The theorems of the rules: what the key registry keeps, what a buyer    *)
(* may download, that the verifiers of proofs accept exactly the proofs of *)
(* what they were asked and take what the API serves, that badges and      *)
(* counts follow the last claims, and that a report passes exactly when it *)
(* is true. The lemmas are in BuyerChecksProofs; here each question is     *)
(* shown to be one that a lemma is about.                                  *)
(***************************************************************************)
EXTENDS Rules, BuyerChecksProofs

\* A row of the table of signing keys.
Row(known, at) ==
    [org: known, alg: Algs, validFrom: 0 .. at, validTo: {Unset} \cup (0 .. at)]

TablesInv ==
    /\ now \in Nat
    /\ \A k \in DOMAIN signingKeys :
          /\ signingKeys[k] \in Row(DOMAIN orgs, now)
          /\ signingKeys[k].alg = "ed25519" <=> Pubkeys[k].length = 32

\* What verify() has seen of a signature.
Verified(r) ==
    /\ r.sig.by = r.key /\ r.sig.length = 64
    /\ r.sig.over = Message(r.domain, r.object)
    /\ Pubkeys[r.key].length = 32 => Pubkeys[r.key].curve = "ed25519"

\* The key of a row was valid when its gates were passed, in the right hands.
Backed(r, owners, keys, at) ==
    /\ Verified(r)
    /\ r.key \in DOMAIN keys
    /\ r.at \in 0 .. at
    /\ keys[r.key].validFrom <= r.at
    /\ keys[r.key].validTo = Unset \/ r.at <= keys[r.key].validTo
    /\ IF r.domain = "manifest" THEN keys[r.key].org = r.org
                                ELSE owners[keys[r.key].org] = "verifier"

KeyInv ==
    /\ TablesInv
    /\ \A r \in passed \cup logged : Backed(r, orgs, signingKeys, now)

\* A row that was registered just now.
Fresh(k, row) ==
    /\ row.org \in DOMAIN orgs' /\ row.alg \in Algs
    /\ row = [org |-> row.org, alg |-> row.alg, validFrom |-> now, validTo |-> Unset]
    /\ row.alg = "ed25519" <=> Pubkeys[k].length = 32

\* A key that is revoked just now, once.
Revoked(old, new) == old.validTo = Unset /\ new = [old EXCEPT !.validTo = now]

\* What a step may do to the tables.
TablesGrow ==
    /\ now' \in Nat /\ now <= now'
    /\ DOMAIN orgs \subseteq DOMAIN orgs' /\ \A o \in DOMAIN orgs : orgs'[o] = orgs[o]
    /\ DOMAIN signingKeys \subseteq DOMAIN signingKeys'
    /\ \A k \in DOMAIN signingKeys :
          signingKeys'[k] = signingKeys[k] \/ Revoked(signingKeys[k], signingKeys'[k])
    /\ \A k \in DOMAIN signingKeys' \ DOMAIN signingKeys : Fresh(k, signingKeys'[k])

-----------------------------------------------------------------------------
\* validatePubkey: a key is as long as its algorithm says.
LEMMA ValidLength ==
    ASSUME NEW k, NEW alg \in Algs, ValidPubkey(alg, k)
    PROVE  alg = "ed25519" <=> Pubkeys[k].length = 32
<1>1. CASE alg = "ed25519"
  BY <1>1 DEF ValidPubkey, PubkeyBytes
<1>2. CASE alg = "p256"
  BY <1>2 DEF ValidPubkey, PubkeyBytes
<1>3. CASE alg = "secp256k1"
  BY <1>3 DEF ValidPubkey, PubkeyBytes
<1> QED BY <1>1, <1>2, <1>3 DEF Algs

\* registerKey adds one row.
LEMMA RegisterGrows ==
    ASSUME TablesInv, NEW org, NEW alg \in Algs, NEW k, RegisterKey(org, alg, k),
           UNCHANGED <<orgs, now>>
    PROVE  TablesGrow /\ \A key \in DOMAIN signingKeys : signingKeys'[key] = signingKeys[key]
<1> DEFINE row == [org |-> org, alg |-> alg, validFrom |-> now, validTo |-> Unset]
<1>1. org \in DOMAIN orgs /\ ValidPubkey(alg, k)
  BY DEF RegisterKey
<1>2. k \notin DOMAIN signingKeys
  BY DEF RegisterKey, SigningKey
<1>3. signingKeys' = With(signingKeys, [x \in {k} |-> row])
  BY DEF RegisterKey, InsertSigningKey
<1>4. /\ DOMAIN signingKeys' = DOMAIN signingKeys \cup {k}
      /\ \A key \in DOMAIN signingKeys : signingKeys'[key] = signingKeys[key]
      /\ signingKeys'[k] = row
  <2>1. DOMAIN [x \in {k} |-> row] = {k} /\ [x \in {k} |-> row][k] = row
    OBVIOUS
  <2> HIDE DEF row
  <2> QED BY <1>2, <1>3, <2>1 DEF With
<1>5. Fresh(k, row)
  BY <1>1, ValidLength DEF Fresh
<1> HIDE DEF row
<1> QED BY <1>4, <1>5 DEF TablesGrow, TablesInv

\* revokeKey changes one row, once.
LEMMA RevokeGrows ==
    ASSUME TablesInv, NEW org, NEW k, RevokeKey(org, k), UNCHANGED <<orgs, now>>
    PROVE  /\ TablesGrow
           /\ \A key \in DOMAIN signingKeys :
                 signingKeys'[key] # signingKeys[key] => signingKeys[key].org = org
<1>1. /\ k \in DOMAIN signingKeys
      /\ signingKeys[k].org = org /\ signingKeys[k].validTo = Unset
      /\ signingKeys' = [signingKeys EXCEPT ![k].validTo = now]
  BY DEF RevokeKey, RevokeSigningKey, SigningKey
<1>2. /\ DOMAIN signingKeys' = DOMAIN signingKeys
      /\ signingKeys'[k] = [signingKeys[k] EXCEPT !.validTo = now]
      /\ \A key \in DOMAIN signingKeys : key # k => signingKeys'[key] = signingKeys[key]
  BY <1>1
<1> QED BY <1>1, <1>2 DEF TablesGrow, TablesInv, Revoked

\* A boot adds the server's own keys, where they are missing.
LEMMA BootGrows ==
    ASSUME TablesInv, Boot
    PROVE  TablesGrow /\ \A key \in DOMAIN signingKeys : signingKeys'[key] = signingKeys[key]
<1> DEFINE mine  == Ensured(OperatorKey, OperatorOrg)
           other == Ensured(VerifierKey, VerifierOrg)
<1>1. PICK added :
          /\ added = With(mine, other)
          /\ signingKeys' = With(signingKeys, added)
          /\ orgs' = With(orgs, [org \in {added[k].org : k \in DOMAIN added} |-> "verifier"])
          /\ now' = now
  BY DEF Boot
<1>2. /\ DOMAIN added = DOMAIN mine \cup DOMAIN other
      /\ \A k \in DOMAIN added : \/ added[k] = mine[k] /\ k \in DOMAIN mine
                                 \/ added[k] = other[k] /\ k \in DOMAIN other
  <2> HIDE DEF mine, other
  <2> QED BY <1>1 DEF With
<1>3. \A k \in DOMAIN added :
          /\ k \in {OperatorKey, VerifierKey}
          /\ added[k].alg = "ed25519"
          /\ added[k] = [org |-> added[k].org, alg |-> added[k].alg,
                         validFrom |-> now, validTo |-> Unset]
  BY <1>2 DEF Ensured
<1> HIDE DEF mine, other
<1>4. /\ DOMAIN signingKeys' = DOMAIN signingKeys \cup DOMAIN added
      /\ \A key \in DOMAIN signingKeys : signingKeys'[key] = signingKeys[key]
      /\ \A key \in DOMAIN added \ DOMAIN signingKeys : signingKeys'[key] = added[key]
  BY <1>1 DEF With
<1>5. /\ DOMAIN orgs' = DOMAIN orgs \cup {added[k].org : k \in DOMAIN added}
      /\ \A o \in DOMAIN orgs : orgs'[o] = orgs[o]
  <2> DEFINE new == [org \in {added[k].org : k \in DOMAIN added} |-> "verifier"]
  <2>1. DOMAIN new = {added[k].org : k \in DOMAIN added} /\ orgs' = With(orgs, new)
    BY <1>1
  <2> HIDE DEF new
  <2> QED BY <2>1 DEF With
<1>6. ASSUME NEW k \in DOMAIN added PROVE Fresh(k, added[k])
  <2>1. added[k].org \in DOMAIN orgs'
    BY <1>5, <1>6
  <2>2. Pubkeys[k].length = 32
    BY <1>3, <1>6, KeyAssumption
  <2> QED BY <1>3, <1>6, <2>1, <2>2 DEF Fresh, Algs
<1> QED BY <1>1, <1>4, <1>5, <1>6 DEF TablesGrow, TablesInv

\* createOrg leaves the organisations that exist as they are.
LEMMA CreateOrgGrows ==
    ASSUME TablesInv, CreateOrg
    PROVE  TablesGrow
<1>1. PICK others : orgs' = With(orgs, others)
  BY DEF CreateOrg, InsertOrg
<1>2. DOMAIN orgs \subseteq DOMAIN orgs' /\ \A o \in DOMAIN orgs : orgs'[o] = orgs[o]
  BY <1>1 DEF With
<1> QED BY <1>2 DEF CreateOrg, TablesGrow, TablesInv

-----------------------------------------------------------------------------
\* No step changes a row of the tables in any other way.
LEMMA StepsGrow ==
    ASSUME TablesInv, [KeyNext]_keyVars
    PROVE  TablesGrow
<1>1. CASE CreateOrg
  BY <1>1, CreateOrgGrows
<1>2. CASE RegisterVerifier
  BY <1>2, RegisterGrows DEF RegisterVerifier
<1>3. CASE PostKey
  BY <1>3, RegisterGrows DEF PostKey
<1>4. CASE PostRevoke
  BY <1>4, RevokeGrows DEF PostRevoke
<1>5. CASE Boot
  BY <1>5, BootGrows
<1>6. CASE Tick
  BY <1>6 DEF Tick, TablesGrow, TablesInv
<1>7. CASE UNCHANGED <<orgs, signingKeys, now>>
  BY <1>7 DEF TablesGrow, TablesInv
<1> QED
  BY <1>1, <1>2, <1>3, <1>4, <1>5, <1>6, <1>7
  DEF KeyNext, keyVars, IssueApiKey, PostClaim, PostEpisode, Passes, Commit

\* What only grows stays well formed.
LEMMA TablesStay ==
    ASSUME TablesInv, TablesGrow
    PROVE  TablesInv'
<1>1. ASSUME NEW k \in DOMAIN signingKeys
      PROVE  /\ signingKeys'[k] \in Row(DOMAIN orgs', now')
             /\ signingKeys'[k].alg = "ed25519" <=> Pubkeys[k].length = 32
  <2>1. /\ signingKeys[k] \in Row(DOMAIN orgs, now)
        /\ signingKeys[k].alg = "ed25519" <=> Pubkeys[k].length = 32
    BY <1>1 DEF TablesInv
  <2>2. now \in Nat /\ now' \in Nat /\ now <= now' /\ DOMAIN orgs \subseteq DOMAIN orgs'
    BY DEF TablesInv, TablesGrow
  <2>3. CASE signingKeys'[k] = signingKeys[k]
    BY <2>1, <2>2, <2>3 DEF Row
  <2>4. CASE Revoked(signingKeys[k], signingKeys'[k])
    <3>1. PICK row \in Row(DOMAIN orgs, now) : row = signingKeys[k]
      BY <2>1
    <3>2. PICK new : new = [row EXCEPT !.validTo = now] /\ new = signingKeys'[k]
      BY <2>4, <3>1 DEF Revoked
    <3>3. new \in Row(DOMAIN orgs', now') /\ new.alg = row.alg
      BY <2>2, <3>1, <3>2 DEF Row
    <3> QED BY <2>1, <3>1, <3>2, <3>3
  <2> QED BY <1>1, <2>3, <2>4 DEF TablesGrow
<1>2. ASSUME NEW k \in DOMAIN signingKeys' \ DOMAIN signingKeys
      PROVE  /\ signingKeys'[k] \in Row(DOMAIN orgs', now')
             /\ signingKeys'[k].alg = "ed25519" <=> Pubkeys[k].length = 32
  <2>1. PICK row : row = signingKeys'[k] /\ Fresh(k, row)
    BY <1>2 DEF TablesGrow
  <2>2. row \in Row(DOMAIN orgs', now')
    BY <2>1 DEF Fresh, Row, TablesGrow, TablesInv
  <2> QED BY <2>1, <2>2 DEF Fresh
<1> QED BY <1>1, <1>2 DEF TablesInv, TablesGrow

\* What was backed stays backed, whatever is revoked afterwards.
LEMMA BackedStays ==
    ASSUME TablesInv, TablesGrow, NEW r, Backed(r, orgs, signingKeys, now)
    PROVE  Backed(r, orgs', signingKeys', now')
<1>1. PICK row \in Row(DOMAIN orgs, now) : row = signingKeys[r.key]
  BY DEF Backed, TablesInv
<1>2. r.key \in DOMAIN signingKeys' /\ r.at \in 0 .. now /\ now \in Nat /\ now' \in Nat /\ now <= now'
  BY DEF Backed, TablesGrow, TablesInv
<1>3. row.org \in DOMAIN orgs /\ orgs'[row.org] = orgs[row.org]
  BY <1>1 DEF Row, TablesGrow
<1>4. CASE signingKeys'[r.key] = row
  BY <1>1, <1>2, <1>3, <1>4 DEF Backed
<1>5. CASE Revoked(row, signingKeys'[r.key])
  <2>1. PICK new : new = [row EXCEPT !.validTo = now] /\ new = signingKeys'[r.key]
    BY <1>5 DEF Revoked
  <2>2. new.validFrom = row.validFrom /\ new.org = row.org /\ new.validTo = now
    BY <1>1, <2>1 DEF Row
  <2> QED BY <1>1, <1>2, <1>3, <2>1, <2>2 DEF Backed
<1> QED BY <1>1, <1>4, <1>5 DEF Backed, TablesGrow

\* The gates of a claim and of an episode let only backed rows pass.
LEMMA GatesBack ==
    ASSUME TablesInv, NEW domain \in {"claim", "manifest"}, NEW object, NEW key, NEW sig, NEW org,
           NEW alg, NEW row \in ResolveKey(key, now),
           Verify(alg, domain, object, sig, key),
           IF domain = "manifest" THEN row.org = org ELSE orgs[row.org] = "verifier",
           NEW r, r = [domain |-> domain, object |-> object, key |-> key, sig |-> sig,
                       org |-> org, at |-> now]
    PROVE  Backed(r, orgs, signingKeys, now)
<1>1. key \in DOMAIN signingKeys /\ row = signingKeys[key]
      /\ row.validFrom <= now /\ (row.validTo = Unset \/ now < row.validTo)
  BY DEF ResolveKey, SigningKey
<1>2. now \in Nat /\ row \in Row(DOMAIN orgs, now)
  BY <1>1 DEF TablesInv
<1>3. Verified(r)
  BY DEF Verified, Verify
<1> QED BY <1>1, <1>2, <1>3 DEF Backed, Row

\* No table is ill formed at the beginning.
LEMMA KeyInvInit == KeyInit => KeyInv
BY DEF KeyInit, KeyInv, TablesInv

\* No request breaks the tables or credits a key that was not valid (keys.ts).
LEMMA KeyInvNext == KeyInv /\ [KeyNext]_keyVars => KeyInv'
<1> SUFFICES ASSUME KeyInv, [KeyNext]_keyVars PROVE KeyInv'
  OBVIOUS
<1>1. TablesGrow /\ TablesInv'
  BY StepsGrow, TablesStay DEF KeyInv
<1>2. ASSUME NEW r \in passed' \cup logged' PROVE Backed(r, orgs, signingKeys, now)
  <2>1. CASE PostClaim
    <3>1. PICK object, key, sig, org, alg :
              /\ Verify(alg, "claim", object, sig, key)
              /\ Passes("claim", object, key, sig, org)
              /\ \E row \in ResolveKey(key, now) : orgs[row.org] = "verifier"
      BY <2>1 DEF PostClaim
    <3>2. PICK row \in ResolveKey(key, now) : orgs[row.org] = "verifier"
      BY <3>1
    <3>3. r \in passed \cup logged \/
          r = [domain |-> "claim", object |-> object, key |-> key, sig |-> sig,
               org |-> org, at |-> now]
      BY <1>2, <3>1 DEF Passes
    <3> QED BY <3>1, <3>2, <3>3, GatesBack DEF KeyInv
  <2>2. CASE PostEpisode
    <3>1. PICK object, key, sig, org, alg :
              /\ Verify(alg, "manifest", object, sig, key)
              /\ Passes("manifest", object, key, sig, org)
              /\ \E row \in ResolveKey(key, now) : row.org = org
      BY <2>2 DEF PostEpisode
    <3>2. PICK row \in ResolveKey(key, now) : row.org = org
      BY <3>1
    <3>3. r \in passed \cup logged \/
          r = [domain |-> "manifest", object |-> object, key |-> key, sig |-> sig,
               org |-> org, at |-> now]
      BY <1>2, <3>1 DEF Passes
    <3> QED BY <3>1, <3>2, <3>3, GatesBack DEF KeyInv
  <2>3. CASE Commit
    BY <2>3 DEF Commit, KeyInv
  <2>4. CASE UNCHANGED <<passed, logged>>
    BY <2>4 DEF KeyInv
  <2> QED
    BY <2>1, <2>2, <2>3, <2>4
    DEF KeyNext, keyVars, CreateOrg, IssueApiKey, RegisterVerifier, Boot, PostKey, PostRevoke, Tick
<1>3. \A r \in passed' \cup logged' : Backed(r, orgs', signingKeys', now')
  BY <1>1, <1>2, BackedStays DEF KeyInv
<1> QED BY <1>1, <1>3 DEF KeyInv

-----------------------------------------------------------------------------
\* A backed row can be checked by anybody.
LEMMA BackedIsKept ==
    ASSUME TablesInv, NEW r, Backed(r, orgs, signingKeys, now)
    PROVE  \E org \in DOMAIN orgs : \E key \in ListKeys(org) :
              /\ key.key = r.key
              /\ key.validFrom <= r.at /\ (key.validTo = Unset \/ r.at <= key.validTo)
              /\ IF r.domain = "manifest" THEN org = r.org ELSE orgs[org] = "verifier"
              /\ VerifyManifestSignature(r.object, r.sig, r.key)
                   <=> r.domain = "manifest" /\ key.alg = "ed25519"
<1>1. PICK row \in Row(DOMAIN orgs, now) : row = signingKeys[r.key]
  BY DEF Backed, TablesInv
<1>2. PICK key : key = PublicSigningKey(r.key)
  OBVIOUS
<1>3. /\ key.key = r.key /\ key.alg = row.alg
      /\ key.validFrom = row.validFrom /\ key.validTo = row.validTo
  BY <1>1, <1>2 DEF PublicSigningKey
<1>4. row.org \in DOMAIN orgs /\ key \in ListKeys(row.org)
  BY <1>1, <1>2 DEF Row, ListKeys, SigningKeysForOrg, Backed
<1>5. row.alg = "ed25519" <=> Pubkeys[r.key].length = 32
  BY <1>1 DEF TablesInv, Backed
<1>6. VerifyManifestSignature(r.object, r.sig, r.key)
          <=> r.domain = "manifest" /\ key.alg = "ed25519"
  BY <1>3, <1>5 DEF VerifyManifestSignature, Backed, Verified, Message
<1> QED BY <1>1, <1>3, <1>4, <1>6 DEF Backed

\* A row that a step leaves or revokes now was worth the same at every second
\* before now.
LEMMA SettledRow ==
    ASSUME TablesInv, TablesGrow, NEW at \in 0 .. now - 1, NEW key
    PROVE  {[row EXCEPT !.validTo = Unset] : row \in ResolveKey(key, at)'}
               = {[row EXCEPT !.validTo = Unset] : row \in ResolveKey(key, at)}
<1>0. now \in Nat /\ at \in Nat /\ at < now
  BY DEF TablesInv
<1>1. CASE key \notin DOMAIN signingKeys'
  <2>1. ResolveKey(key, at)' = {} /\ ResolveKey(key, at) = {}
    BY <1>1 DEF ResolveKey, SigningKey, TablesGrow
  <2> QED BY <2>1
<1>2. CASE key \in DOMAIN signingKeys' /\ key \notin DOMAIN signingKeys
  <2>1. signingKeys'[key].validFrom = now
    BY <1>2 DEF TablesGrow, Fresh
  <2>2. ResolveKey(key, at)' = {} /\ ResolveKey(key, at) = {}
    BY <1>0, <1>2, <2>1 DEF ResolveKey, SigningKey
  <2> QED BY <2>2
<1>3. CASE key \in DOMAIN signingKeys
  <2>1. PICK row \in Row(DOMAIN orgs, now) : row = signingKeys[key]
    BY <1>3 DEF TablesInv
  <2>2. PICK new : new = signingKeys'[key]
    OBVIOUS
  <2>3. ResolveKey(key, at) =
            IF row.validFrom <= at /\ (row.validTo = Unset \/ at < row.validTo) THEN {row} ELSE {}
    BY <1>3, <2>1 DEF ResolveKey, SigningKey
  <2>4. ResolveKey(key, at)' =
            IF new.validFrom <= at /\ (new.validTo = Unset \/ at < new.validTo) THEN {new} ELSE {}
    BY <1>3, <2>2 DEF ResolveKey, SigningKey, TablesGrow
  <2>5. CASE new = row
    BY <2>3, <2>4, <2>5
  <2>6. CASE row.validTo = Unset /\ new = [row EXCEPT !.validTo = now]
    <3>1. new.validFrom = row.validFrom /\ new.validTo = now
      BY <2>1, <2>6 DEF Row
    <3>2. [new EXCEPT !.validTo = Unset] = [row EXCEPT !.validTo = Unset]
      BY <2>1, <2>6 DEF Row
    <3>3. now # Unset /\ (ResolveKey(key, at)' = {} <=> ResolveKey(key, at) = {})
      BY <1>0, <2>3, <2>4, <2>6, <3>1 DEF Unset
    <3> QED BY <2>3, <2>4, <3>2, <3>3
  <2> QED BY <1>3, <2>1, <2>2, <2>5, <2>6 DEF TablesGrow, Revoked
<1> QED BY <1>1, <1>2, <1>3

\* Rows of the table of keys change in one handler only.
LEMMA RevokedByOwner ==
    ASSUME TablesInv, [KeyNext]_keyVars
    PROVE  OwnersRevoke
<1>1. CASE PostRevoke
  <2>1. PICK secret \in DOMAIN apiKeys : \E org, k :
            \E principal \in RequireAuth(secret) : principal.org = org /\ RevokeKey(org, k)
    BY <1>1 DEF PostRevoke, RequireOwnOrg
  <2>2. PICK org, k : \E principal \in RequireAuth(secret) : principal.org = org /\ RevokeKey(org, k)
    BY <2>1
  <2>3. \A key \in DOMAIN signingKeys :
            signingKeys'[key] # signingKeys[key] => signingKeys[key].org = org
    BY <1>1, <2>2, RevokeGrows DEF PostRevoke
  <2> QED BY <2>1, <2>2, <2>3 DEF OwnersRevoke
<1>2. CASE ~PostRevoke
  <2>1. \A key \in DOMAIN signingKeys : signingKeys'[key] = signingKeys[key]
    <3>1. CASE RegisterVerifier
      BY <3>1, RegisterGrows DEF RegisterVerifier
    <3>2. CASE PostKey
      BY <3>2, RegisterGrows DEF PostKey
    <3>3. CASE Boot
      BY <3>3, BootGrows
    <3>4. CASE UNCHANGED signingKeys
      BY <3>4
    <3> QED
      BY <1>2, <3>1, <3>2, <3>3, <3>4
      DEF KeyNext, keyVars, CreateOrg, IssueApiKey, PostClaim, PostEpisode, Passes, Commit, Tick
  <2> QED BY <2>1 DEF OwnersRevoke
<1> QED BY <1>1, <1>2

\* What has been decided of the past stays decided, and owners alone revoke (keys.ts).
LEMMA StepsSettle ==
    ASSUME KeyInv, [KeyNext]_keyVars
    PROVE  [PastIsSettled /\ OwnersRevoke]_keyVars
<1>1. PastIsSettled
  BY StepsGrow, SettledRow DEF KeyInv, PastIsSettled
<1> QED BY <1>1, RevokedByOwner DEF KeyInv

KeySpec == KeyInit /\ [][KeyNext]_keyVars

\* The tables keep their shape, and what has passed the gates of a claim or an
\* episode stays backed by a key that was valid then and in the right hands.
THEOREM KeyInvHolds == KeySpec => []KeyInv
<1> QED BY KeyInvInit, KeyInvNext, PTL DEF KeySpec

\* A key speaks for the organisation that registered it, until that one takes
\* it back, and for what it signed until then, for ever.
THEOREM KeysSpeakForTheirOwnersHolds == KeySpec => KeysSpeakForTheirOwners
<1>1. KeyInv => RowsKeepTheirKeys
  BY BackedIsKept DEF KeyInv, RowsKeepTheirKeys
<1> QED BY <1>1, KeyInvHolds, StepsSettle, PTL DEF KeySpec, KeysSpeakForTheirOwners

-----------------------------------------------------------------------------
\* The field by which an invariant knows whose question was asked.
Marks == {"receiptId", "leaf", "m", "key", "claimed", "members", "wanted", "rows", "bought",
          "report", "table"}
Marked(marks) == DOMAIN asked \cap Marks = marks

\* Each question has its own mark, and those that no theorem is about have none.
LEMMA AskedBy ==
    /\ AskInclusion => Marked({"leaf"})'
    /\ AskConsistency => Marked({"m"})'
    /\ AskConsent => Marked({"key"})'
    /\ AskDownload => Marked({"receiptId"})'
    /\ AskBadges => Marked({"claimed"})'
    /\ AskSources => Marked({"members"})'
    /\ AskServed => Marked({"wanted"})'
    /\ AskPages => Marked({"rows"})'
    /\ AskLeafCheck => Marked({"bought"})'
    /\ AskReport => Marked({"report"})'
    /\ AskAssembled => Marked({"table"})'
    /\ AskTiming \/ AskKinematics \/ AskMotion \/ AskDedup \/ AskLeaf
       \/ AskDataset \/ AskManifest \/ AskTask \/ AskValues \/ Return => Marked({})'
<1>1. AskInclusion => Marked({"leaf"})'
  BY DEF AskInclusion, Call, Marked, Marks
<1>2. AskConsistency => Marked({"m"})'
  BY DEF AskConsistency, Call, Marked, Marks
<1>3. AskConsent => Marked({"key"})'
  BY DEF AskConsent, Call, Marked, Marks
<1>4. AskDownload => Marked({"receiptId"})'
  BY DEF AskDownload, Ask, Call, Marked, Marks
<1>5. AskBadges => Marked({"claimed"})'
  BY DEF AskBadges, Ask, Call, Marked, Marks
<1>6. AskSources => Marked({"members"})'
  BY DEF AskSources, Ask, Call, Marked, Marks
<1>7. AskServed => Marked({"wanted"})'
  BY DEF AskServed, Ask, Call, Marked, Marks
<1>8. AskPages => Marked({"rows"})'
  BY DEF AskPages, Ask, Call, Marked, Marks
<1>9. AskLeafCheck => Marked({"bought"})'
  BY DEF AskLeafCheck, Ask, Call, Marked, Marks
<1>10. AskReport => Marked({"report"})'
  BY DEF AskReport, Call, Marked, Marks
<1>11. AskTiming \/ AskKinematics \/ AskMotion \/ AskDedup => Marked({})'
  BY DEF AskTiming, AskKinematics, AskMotion, AskDedup, Ask, Call, Marked, Marks
<1>12. AskAssembled => Marked({"table"})'
  BY DEF AskAssembled, Ask, Call, Marked, Marks
<1>15. AskLeaf => Marked({})'
  BY DEF AskLeaf, Ask, Call, Marked, Marks
<1>13. AskDataset \/ AskManifest \/ AskTask \/ AskValues => Marked({})'
  BY DEF AskDataset, AskManifest, AskTask, AskValues, Ask, Call, Marked, Marks
<1>14. Return => Marked({})'
  BY DEF Return, Marked, Marks
<1> QED
  BY <1>1, <1>2, <1>3, <1>4, <1>5, <1>6, <1>7, <1>8, <1>9, <1>10, <1>11, <1>12, <1>13, <1>14,
     <1>15

\* A step of a verifier that runs, or its answer.
Runs(verifier) == pc = verifier /\ asked' = asked /\ pc' \in {verifier, "answered"}

\* No verifier takes a step for another one.
LEMMA RunBy ==
    /\ FoldInclusion \/ InclusionReverts \/ AnswerInclusion => Runs("inclusion")
    /\ AnswerAtOnce \/ Climb \/ Extend \/ OutOfWords \/ AnswerConsistency => Runs("consistency")
    /\ FoldConsent \/ ConsentReverts \/ AnswerConsent => Runs("consent")
    /\ AnswerReport => Runs("report")
    /\ AnswerDataset => Runs("dataset")
    /\ AnswerManifest => Runs("manifest")
    /\ AnswerTask => Runs("task")
    /\ AnswerValues => Runs("values")
    /\ AnswerTiming => Runs("timing")
    /\ AnswerKinematics => Runs("kinematics")
    /\ AnswerMotion => Runs("motion")
    /\ AnswerDedup => Runs("dedup")
    /\ AnswerLeaf => Runs("leaf")
    /\ AnswerBadges => Runs("badges")
    /\ AnswerSources => Runs("sources")
    /\ AnswerDownload => Runs("download")
    /\ AnswerAssembled => Runs("assembled")
    /\ AnswerServed => Runs("served")
    /\ AnswerPages => Runs("pages")
    /\ AnswerLeafCheck => Runs("leafcheck")
<1>1. FoldInclusion \/ InclusionReverts \/ AnswerInclusion => Runs("inclusion")
  BY DEF FoldInclusion, InclusionReverts, AnswerInclusion, Accept, Answer, Runs
<1>2. AnswerAtOnce \/ Climb \/ Extend \/ OutOfWords \/ AnswerConsistency => Runs("consistency")
  BY DEF AnswerAtOnce, Climb, Extend, OutOfWords, AnswerConsistency, Climbing, Accept, Answer, Runs
<1>3. FoldConsent \/ ConsentReverts \/ AnswerConsent => Runs("consent")
  BY DEF FoldConsent, ConsentReverts, AnswerConsent, Accept, Answer, Runs
<1>4. /\ AnswerReport => Runs("report")
      /\ AnswerDataset => Runs("dataset")
      /\ AnswerManifest => Runs("manifest")
      /\ AnswerTask => Runs("task")
      /\ AnswerValues => Runs("values")
  BY DEF AnswerReport, AnswerDataset, AnswerManifest, AnswerTask, AnswerValues, Accept, Answer, Runs
<1>5. /\ AnswerTiming => Runs("timing")
      /\ AnswerKinematics => Runs("kinematics")
      /\ AnswerMotion => Runs("motion")
      /\ AnswerDedup => Runs("dedup")
      /\ AnswerLeaf => Runs("leaf")
      /\ AnswerBadges => Runs("badges")
      /\ AnswerSources => Runs("sources")
  BY DEF AnswerTiming, AnswerKinematics, AnswerMotion, AnswerDedup, AnswerLeaf, AnswerBadges,
         AnswerSources, Answer, Runs
<1>6. /\ AnswerDownload => Runs("download")
      /\ AnswerAssembled => Runs("assembled")
      /\ AnswerServed => Runs("served")
      /\ AnswerPages => Runs("pages")
      /\ AnswerLeafCheck => Runs("leafcheck")
  BY DEF AnswerDownload, AnswerAssembled, AnswerServed, AnswerPages, AnswerLeafCheck, Answer, Runs
<1> QED BY <1>1, <1>2, <1>3, <1>4, <1>5, <1>6

\* Every step asks, runs a verifier, or leaves the questions alone.
LEMMA Steps ==
    ASSUME [RulesNext]_<<vars, keyVars>>
    PROVE  \/ UNCHANGED vars
           \/ Marked({})'
           \/ AskInclusion \/ AskConsistency \/ AskConsent
           \/ AskDownload \/ AskBadges \/ AskSources
           \/ AskServed \/ AskPages \/ AskLeafCheck \/ AskReport \/ AskAssembled
           \/ FoldInclusion \/ InclusionReverts \/ AnswerInclusion
           \/ AnswerAtOnce \/ Climb \/ Extend \/ OutOfWords \/ AnswerConsistency
           \/ FoldConsent \/ ConsentReverts \/ AnswerConsent
           \/ AnswerDownload \/ AnswerBadges \/ AnswerSources
           \/ AnswerServed \/ AnswerPages \/ AnswerLeafCheck \/ AnswerReport \/ AnswerAssembled
           \/ \E verifier \in {"dataset", "manifest", "task", "values", "timing",
                               "kinematics", "motion", "dedup", "leaf"} : Runs(verifier)
<1>1. CASE UNCHANGED <<vars, keyVars>>
  BY <1>1
<1>2. CASE RulesNext
  <2>1. UNCHANGED vars \/ Questions
    BY <1>2 DEF RulesNext
  <2>2. CASE Questions
    BY <2>2, AskedBy, RunBy DEF Questions, Next, RecordsNext
  <2> QED BY <2>1, <2>2
<1> QED BY <1>1, <1>2

\* A buyer's question about files, its answer, or neither.
LEMMA DownloadSteps ==
    ASSUME [RulesNext]_<<vars, keyVars>>, AtWork("receiptId", "download")
    PROVE  UNCHANGED vars \/ "receiptId" \notin DOMAIN asked' \/ AskDownload \/ AnswerDownload
BY Steps, AskedBy, RunBy DEF AtWork, Runs, Marked, Marks

-----------------------------------------------------------------------------
\* What is known of a buyer's question, and of its answer.
DownloadInv ==
    /\ AtWork("receiptId", "download")
    /\ "receiptId" \in DOMAIN asked =>
         /\ asked.receiptId \in Asked /\ asked.held \in SUBSET Hashed /\ asked.took \in {0, 1}
         /\ \/ asked.header = {}
            \/ \E address, by \in Wallets, minute \in Minutes, over \in Asked, at \in Minutes :
                  asked.header = {[address |-> address, minute |-> minute,
                                   signature |-> WalletSignature(by, DownloadMessage(over, at))]}
         /\ pc = "answered" =>
               verdict = Download(asked.header, asked.receiptId, asked.held, ThisMinute, ThisSecond,
                                  asked.took)

\* No step of any question breaks what is known of a download.
LEMMA DownloadInvNext == DownloadInv /\ [RulesNext]_<<vars, keyVars>> => DownloadInv'
<1> SUFFICES ASSUME DownloadInv, [RulesNext]_<<vars, keyVars>> PROVE DownloadInv'
  OBVIOUS
<1>1. CASE UNCHANGED vars
  BY <1>1 DEF DownloadInv, AtWork, vars
<1>2. CASE "receiptId" \notin DOMAIN asked'
  BY <1>2 DEF DownloadInv, AtWork
<1>3. CASE AskDownload
  BY <1>3 DEF DownloadInv, AtWork, AskDownload, Ask, Call
<1>4. CASE AnswerDownload
  BY <1>4 DEF DownloadInv, AtWork, AnswerDownload, Answer
<1> QED BY <1>1, <1>2, <1>3, <1>4, DownloadSteps DEF DownloadInv

\* The address of the signer, and the minute that was signed.
LEMMA SignerIs ==
    ASSUME NEW h, NEW receipt, NEW by, NEW over, NEW at \in Int, NEW this \in Nat,
           h.minute \in Int, h.signature = WalletSignature(by, DownloadMessage(over, at))
    PROVE  VerifyWalletSig({h}, receipt, this)
             = IF h.minute >= 0 /\ h.minute \in this - 2 .. this + 2
                  /\ by = h.address /\ over = receipt /\ at = h.minute
               THEN {h.address} ELSE {}
<1>1. h.signature = WalletSignature(h.address, DownloadMessage(receipt, h.minute))
        <=> by = h.address /\ over = receipt /\ at = h.minute
  BY DEF WalletSignature, DownloadMessage
<1>2. h.minute - this \in -WindowMinutes .. WindowMinutes <=> h.minute \in this - 2 .. this + 2
  BY DEF WindowMinutes
<1>3. ParseWalletSig({h}) = IF h.minute >= 0 THEN {h} ELSE {}
  BY DEF ParseWalletSig
<1> QED BY <1>1, <1>2, <1>3 DEF VerifyWalletSig

\* The files of a corpus are among those that are hashed.
LEMMA FilesAre ==
    ASSUME NEW corpus \in DOMAIN CorpusFiles
    PROVE  /\ CorpusFiles[corpus] \in Seq(Hashed)
           /\ Range(CorpusFiles[corpus]) \subseteq Hashed
<1> DEFINE files == CorpusFiles[corpus]
           own   == {files[k] : k \in DOMAIN files}
<1>1. files \in Seq(own)
  BY DownloadAssumption
<1>2. own = Range(files)
  BY DEF Range
<1>3. own \subseteq Hashed
  BY <1>2 DEF Hashed
<1> HIDE DEF files, own
<1>4. files \in Seq(Hashed)
  <2>1. files \in [1 .. Len(files) -> own] /\ Len(files) \in Nat
    BY <1>1
  <2>2. files \in [1 .. Len(files) -> Hashed]
    BY <1>3, <2>1
  <2> QED BY <2>1, <2>2, SeqDef
<1> QED BY <1>2, <1>3, <1>4 DEF files

\* A URL is good for its own file, until the second that was signed.
LEMMA UrlOpens ==
    ASSUME NEW file \in Hashed, NEW exp \in Nat, NEW at \in Int, NEW url,
           url = [hash |-> file, exp |-> exp, t |-> SignDownloadToken(file, exp)]
    PROVE  /\ GetUpload(url, Hashed, at) = IF at <= exp THEN {file} ELSE {}
           /\ \A other \in Hashed \ {file} : GetUpload([url EXCEPT !.hash = other], Hashed, at) = {}
           /\ GetUpload([url EXCEPT !.exp = @ + 1], Hashed, at) = {}
<1>1. url.hash = file /\ url.exp = exp /\ url.t = SignDownloadToken(file, exp)
  OBVIOUS
<1>2. GetUpload(url, Hashed, at) = IF at <= exp THEN {file} ELSE {}
  BY <1>1 DEF GetUpload, VerifyDownloadToken
<1>3. ASSUME NEW other \in Hashed \ {file}
      PROVE  GetUpload([url EXCEPT !.hash = other], Hashed, at) = {}
  <2> DEFINE u == [url EXCEPT !.hash = other]
  <2>1. u.hash = other /\ u.exp = exp /\ u.t = SignDownloadToken(file, exp)
    OBVIOUS
  <2>2. SignDownloadToken(file, exp) # SignDownloadToken(other, exp)
    BY <1>3 DEF SignDownloadToken
  <2> HIDE DEF u
  <2>3. GetUpload(u, Hashed, at) = {}
    BY <2>1, <2>2 DEF GetUpload, VerifyDownloadToken
  <2> QED BY <2>3 DEF u
<1>4. GetUpload([url EXCEPT !.exp = @ + 1], Hashed, at) = {}
  <2> DEFINE u == [url EXCEPT !.exp = @ + 1]
  <2>1. u.hash = file /\ u.exp = exp + 1 /\ u.t = SignDownloadToken(file, exp)
    OBVIOUS
  <2>2. SignDownloadToken(file, exp) # SignDownloadToken(file, exp + 1)
    BY DEF SignDownloadToken
  <2> HIDE DEF u
  <2>3. GetUpload(u, Hashed, at) = {}
    BY <2>1, <2>2 DEF GetUpload, VerifyDownloadToken
  <2> QED BY <2>3 DEF u
<1> QED BY <1>2, <1>3, <1>4

\* The entry of the k-th file in an answer.
Entry(files, k, took) ==
    [hash |-> files[k], url |-> SignedGetUrl(files[k], UrlSeconds, ThisSecond + k * took),
     expiresAt |-> ThisSecond + UrlSeconds]

\* An entry is good for its own file, from now until the second it names.
GoodFor(entry, latest) ==
    /\ entry.url.exp \in ThisSecond .. latest
    /\ entry.expiresAt <= entry.url.exp
    /\ \A at \in Int : GetUpload(entry.url, Hashed, at)
          = IF at <= entry.url.exp THEN {entry.hash} ELSE {}
    /\ \A at \in Int, other \in Hashed \ {entry.hash} :
          GetUpload([entry.url EXCEPT !.hash = other], Hashed, at) = {}
    /\ \A at \in Int : GetUpload([entry.url EXCEPT !.exp = @ + 1], Hashed, at) = {}

\* One entry of the answer: its URL opens its file and no other, until it expires
\* (uploads.ts:114-136).
LEMMA EntryIs ==
    ASSUME NEW files \in Seq(Hashed), NEW k \in 1 .. Len(files), NEW took \in {0, 1},
           NEW entry, entry = Entry(files, k, took),
           NEW latest, latest = ThisSecond + Len(files) + 2 * UrlSeconds
    PROVE  entry.hash = files[k] /\ GoodFor(entry, latest)
<1> DEFINE exp == ThisSecond + k * took + UrlSeconds
           url == [hash |-> files[k], exp |-> exp, t |-> SignDownloadToken(files[k], exp)]
<1>1. /\ ThisSecond \in Nat /\ UrlSeconds \in Nat /\ Len(files) \in Nat
      /\ k * took \in 0 .. Len(files) /\ files[k] \in Hashed
  BY ClockAssumption, DownloadAssumption
<1>2. exp \in ThisSecond .. latest /\ exp \in Nat /\ ThisSecond + UrlSeconds <= exp
  BY <1>1
<1>3. entry.hash = files[k] /\ entry.url = url /\ entry.expiresAt = ThisSecond + UrlSeconds
  BY DEF Entry, SignedGetUrl
<1>4. url.exp = exp
  OBVIOUS
<1>5. \A at \in Int :
         /\ GetUpload(url, Hashed, at) = IF at <= exp THEN {files[k]} ELSE {}
         /\ \A other \in Hashed \ {files[k]} : GetUpload([url EXCEPT !.hash = other], Hashed, at) = {}
         /\ GetUpload([url EXCEPT !.exp = @ + 1], Hashed, at) = {}
  BY <1>1, <1>2, UrlOpens
<1> HIDE DEF exp, url
<1> QED BY <1>2, <1>3, <1>4, <1>5 DEF GoodFor

\* Who is served, and what.
LEMMA Served ==
    ASSUME DownloadInv, Answered("receiptId"),
           NEW receipt, receipt = asked.receiptId
    PROVE  /\ verdict.status = 200 <=>
                /\ receipt \in DOMAIN Receipts
                /\ \E minute \in Minutes \cap (ThisMinute - 2 .. ThisMinute + 2) :
                       LET buyer == Receipts[receipt].buyer IN
                       asked.header = {[address |-> buyer, minute |-> minute,
                           signature |-> WalletSignature(buyer, DownloadMessage(receipt, minute))]}
                /\ Range(CorpusFiles[Receipts[receipt].corpus]) \subseteq asked.held
           /\ verdict.status = 200 =>
                /\ receipt \in DOMAIN Receipts
                /\ verdict.files = LET files == CorpusFiles[Receipts[receipt].corpus]
                                   IN  [k \in DOMAIN files |-> Entry(files, k, asked.took)]
           /\ verdict.status # 200 => verdict.files = <<>>
<1> DEFINE signer == VerifyWalletSig(asked.header, receipt, ThisMinute)
           buyer  == Receipts[receipt].buyer
           files  == CorpusFiles[Receipts[receipt].corpus]
           signed(minute) == [address |-> buyer, minute |-> minute,
                              signature |-> WalletSignature(buyer, DownloadMessage(receipt, minute))]
<1>1. verdict = Download(asked.header, receipt, asked.held, ThisMinute, ThisSecond, asked.took)
  BY DEF DownloadInv, Answered
<1>2. verdict = IF signer = {} THEN Refused(401)
                ELSE IF receipt \notin DOMAIN Receipts THEN Refused(404)
                ELSE IF buyer \notin signer THEN Refused(403)
                ELSE IF \E k \in DOMAIN files : files[k] \notin asked.held THEN Refused(500)
                ELSE [status |-> 200, files |-> [k \in DOMAIN files |-> Entry(files, k, asked.took)]]
  BY <1>1 DEF Download, Entry
<1>3. buyer \in signer <=>
        \E minute \in Minutes \cap (ThisMinute - 2 .. ThisMinute + 2) : asked.header = {signed(minute)}
  <2>1. CASE asked.header = {}
    <3>1. signer = {}
      BY <2>1 DEF VerifyWalletSig, ParseWalletSig
    <3> HIDE DEF signed
    <3> QED BY <2>1, <3>1
  <2>2. CASE asked.header # {}
    <3>1. PICK address, by \in Wallets, minute \in Minutes, over \in Asked, at \in Minutes :
            asked.header = {[address |-> address, minute |-> minute,
                             signature |-> WalletSignature(by, DownloadMessage(over, at))]}
      BY <2>2 DEF DownloadInv, Answered
    <3> DEFINE h == [address |-> address, minute |-> minute,
                     signature |-> WalletSignature(by, DownloadMessage(over, at))]
    <3>2. minute \in Int /\ at \in Int /\ ThisMinute \in Nat /\ ThisMinute >= 2
      BY ClockAssumption DEF WindowMinutes
    <3>3. signer = IF minute >= 0 /\ minute \in ThisMinute - 2 .. ThisMinute + 2
                        /\ by = address /\ over = receipt /\ at = minute
                     THEN {address} ELSE {}
      <4>1. asked.header = {h} /\ h.address = address /\ h.minute = minute
            /\ h.signature = WalletSignature(by, DownloadMessage(over, at))
        BY <3>1
      <4> HIDE DEF h
      <4>2. h.minute \in Int /\ at \in Int /\ ThisMinute \in Nat
        BY <3>2, <4>1
      <4>3. VerifyWalletSig({h}, receipt, ThisMinute)
              = IF h.minute >= 0 /\ h.minute \in ThisMinute - 2 .. ThisMinute + 2
                   /\ by = h.address /\ over = receipt /\ at = h.minute
                THEN {h.address} ELSE {}
        <5>1. h.signature = WalletSignature(by, DownloadMessage(over, at))
          BY <4>1
        <5> QED BY ONLY <4>2, <5>1, SignerIs
      <4> QED BY <4>1, <4>3
    <3>4. ASSUME NEW m \in Minutes PROVE h = signed(m) <=>
             address = buyer /\ minute = m /\ by = buyer /\ over = receipt /\ at = m
      BY DEF WalletSignature, DownloadMessage
    <3>5. asked.header = {h}
      BY <3>1
    <3> HIDE DEF h, signed, signer
    <3>6. ASSUME NEW m \in Minutes PROVE asked.header = {signed(m)} <=> h = signed(m)
      BY <3>5
    <3>7. minute \in ThisMinute - 2 .. ThisMinute + 2 => minute >= 0
      BY <3>2
    <3> QED BY <3>2, <3>3, <3>4, <3>6, <3>7
  <2> QED BY <2>1, <2>2
<1>4. (\E k \in DOMAIN files : files[k] \notin asked.held) <=> ~ (Range(files) \subseteq asked.held)
  BY DEF Range
<1>5. \A status : Refused(status).status = status /\ Refused(status).files = <<>>
  BY DEF Refused
<1> HIDE DEF signer, buyer, files, signed
<1> DEFINE given == [k \in DOMAIN files |-> Entry(files, k, asked.took)]
<1>6. [status |-> 200, files |-> given].status = 200 /\ [status |-> 200, files |-> given].files = given
  OBVIOUS
<1> HIDE DEF given
<1>7. /\ verdict.status = 200 <=>
            /\ receipt \in DOMAIN Receipts /\ buyer \in signer
            /\ Range(files) \subseteq asked.held
      /\ verdict.status = 200 => verdict.files = given
      /\ verdict.status # 200 => verdict.files = <<>>
  BY <1>2, <1>4, <1>5, <1>6 DEF given
<1> QED BY <1>3, <1>7 DEF buyer, files, signed, given

\* Files go to who bought them, all of them or none, each by a URL that opens its own
\* file, at least as long as the answer says and no longer than it was signed for
\* (walletSig.ts:35-57, licences.ts:10-37, uploads.ts:114-136).
THEOREM DownloadsAreTheBuyersHolds == RulesSpec => []DownloadsAreTheBuyers
<1>1. RulesInit => DownloadInv
  BY DEF RulesInit, Init, DownloadInv, AtWork
<1>2. DownloadInv => DownloadsAreTheBuyers
  <2> SUFFICES ASSUME DownloadInv, Answered("receiptId") PROVE DownloadsAreTheBuyers
    BY DEF DownloadsAreTheBuyers
  <2> DEFINE receipt == asked.receiptId
             entries == verdict.files
             latest  == ThisSecond + Len(entries) + 2 * UrlSeconds
             opens(url) == {at \in ThisSecond .. latest : GetUpload(url, Hashed, at) # {}}
             files   == CorpusFiles[Receipts[receipt].corpus]
  <2>1. ASSUME verdict.status = 200
        PROVE  /\ [k \in DOMAIN entries |-> entries[k].hash] = files
               /\ \A entry \in Range(entries) :
                     /\ opens(entry.url) = ThisSecond .. entry.url.exp
                     /\ entry.expiresAt <= entry.url.exp
                     /\ GetUpload(entry.url, Hashed, ThisSecond) = {entry.hash}
                     /\ \A hash \in Hashed \ {entry.hash} : opens([entry.url EXCEPT !.hash = hash]) = {}
                     /\ opens([entry.url EXCEPT !.exp = @ + 1]) = {}
    <3>1. receipt \in DOMAIN Receipts /\ asked.took \in {0, 1}
      BY <2>1, Served DEF DownloadInv, Answered
    <3>2. entries = [k \in DOMAIN files |-> Entry(files, k, asked.took)]
      BY <2>1, Served
    <3>3. files \in Seq(Hashed) /\ Len(files) \in Nat /\ DOMAIN files = 1 .. Len(files)
      <4>1. Receipts[receipt].corpus \in DOMAIN CorpusFiles
        BY <3>1, DownloadAssumption
      <4> QED BY <4>1, FilesAre
    <3> HIDE DEF files, entries
    <3>4. DOMAIN entries = 1 .. Len(files) /\ Len(entries) = Len(files)
      BY <3>2, <3>3
    <3>5. ThisSecond \in Nat /\ UrlSeconds \in Nat /\ latest \in Nat /\ ThisSecond <= latest
          /\ latest = ThisSecond + Len(files) + 2 * UrlSeconds
      BY <3>3, <3>4, ClockAssumption, DownloadAssumption
    <3> HIDE DEF latest
    <3>6. ASSUME NEW k \in 1 .. Len(files)
          PROVE  entries[k].hash = files[k] /\ GoodFor(entries[k], latest)
      <4>1. entries[k] = Entry(files, k, asked.took)
        BY <3>2, <3>3, <3>6
      <4> QED BY <3>1, <3>3, <3>5, <3>6, <4>1, EntryIs
    <3>7. [k \in DOMAIN entries |-> entries[k].hash] = files
      <4>1. files = [k \in 1 .. Len(files) |-> files[k]]
        BY <3>3
      <4>2. \A k \in 1 .. Len(files) : entries[k].hash = files[k]
        BY <3>6
      <4> QED BY <3>4, <4>1, <4>2
    <3>8. ASSUME NEW entry \in Range(entries)
          PROVE  /\ opens(entry.url) = ThisSecond .. entry.url.exp
                 /\ entry.expiresAt <= entry.url.exp
                 /\ GetUpload(entry.url, Hashed, ThisSecond) = {entry.hash}
                 /\ \A hash \in Hashed \ {entry.hash} : opens([entry.url EXCEPT !.hash = hash]) = {}
                 /\ opens([entry.url EXCEPT !.exp = @ + 1]) = {}
      <4>1. PICK k \in 1 .. Len(files) : entry = entries[k]
        BY <3>4, <3>8 DEF Range
      <4>2. GoodFor(entry, latest)
        BY <3>6, <4>1
      <4>7. entry.url.exp \in ThisSecond .. latest /\ entry.url.exp \in Int /\ entry.expiresAt <= entry.url.exp
        BY <3>5, <4>2 DEF GoodFor
      <4>8. \A at \in ThisSecond .. latest : GetUpload(entry.url, Hashed, at)
                  = IF at <= entry.url.exp THEN {entry.hash} ELSE {}
        <5>1. ThisSecond .. latest \subseteq Int
          BY <3>5
        <5> QED BY <4>2, <5>1 DEF GoodFor
      <4>9. {entry.hash} # {}
        OBVIOUS
      <4>3. opens(entry.url) = ThisSecond .. entry.url.exp
        <5> DEFINE e == entry.url.exp
        <5>1. \A at \in ThisSecond .. latest : GetUpload(entry.url, Hashed, at) # {} <=> at <= e
          BY <4>8, <4>9
        <5>2. e \in ThisSecond .. latest
          BY <4>7
        <5> HIDE DEF e
        <5>3. opens(entry.url) = {at \in ThisSecond .. latest : at <= e}
          BY <5>1
        <5>4. {at \in ThisSecond .. latest : at <= e} = ThisSecond .. e
          BY <3>5, <5>2
        <5> QED BY <5>3, <5>4 DEF e
      <4>4. GetUpload(entry.url, Hashed, ThisSecond) = {entry.hash}
        BY <3>5, <4>7, <4>8
      <4>5. \A hash \in Hashed \ {entry.hash} : opens([entry.url EXCEPT !.hash = hash]) = {}
        BY <3>5, <4>2 DEF GoodFor
      <4>6. opens([entry.url EXCEPT !.exp = @ + 1]) = {}
        BY <3>5, <4>2 DEF GoodFor
      <4> QED BY <4>7, <4>3, <4>4, <4>5, <4>6
    <3> QED BY <3>7, <3>8 DEF files, entries, latest
  <2> QED BY <2>1, Served DEF DownloadsAreTheBuyers
<1> QED BY <1>1, <1>2, DownloadInvNext, PTL DEF RulesSpec

-----------------------------------------------------------------------------
(* What the verifiers accept *)

\* The answer is read, or the questions go on.
LEMMA IdleSteps ==
    ASSUME [RulesNext]_<<vars, keyVars>>
    PROVE  UNCHANGED vars \/ pc' # "idle" \/ Return
<1>1. AskInclusion \/ AskConsistency \/ AskConsent \/ AskReport => pc' # "idle"
  BY DEF AskInclusion, AskConsistency, AskConsent, AskReport, Call
<1>2. AskTiming \/ AskKinematics \/ AskMotion \/ AskDedup \/ AskLeaf \/ AskBadges \/ AskSources => pc' # "idle"
  <2>1. AskTiming \/ AskKinematics \/ AskMotion => pc' # "idle"
    BY DEF AskTiming, AskKinematics, AskMotion, Ask, Call
  <2>2. AskDedup \/ AskBadges => pc' # "idle"
    BY DEF AskDedup, AskBadges, Ask, Call
  <2>3. AskLeaf => pc' # "idle"
    BY DEF AskLeaf, Ask, Call
  <2>4. AskSources => pc' # "idle"
    BY DEF AskSources, Ask, Call
  <2> QED BY <2>1, <2>2, <2>3, <2>4
<1>3. AskDownload \/ AskServed \/ AskPages \/ AskLeafCheck \/ AskAssembled => pc' # "idle"
  BY DEF AskDownload, AskServed, AskPages, AskLeafCheck, AskAssembled, Ask, Call
<1>4. AskDataset \/ AskManifest \/ AskTask \/ AskValues => pc' # "idle"
  BY DEF AskDataset, AskManifest, AskTask, AskValues, Ask, Call
<1>5. \A verifier : Runs(verifier) /\ verifier # "idle" => pc' # "idle"
  BY DEF Runs
<1>6. CASE UNCHANGED <<vars, keyVars>>
  BY <1>6
<1>7. CASE RulesNext
  <2>1. UNCHANGED vars \/ Questions
    BY <1>7 DEF RulesNext
  <2>2. CASE Questions
    BY <2>2, RunBy, <1>1, <1>2, <1>3, <1>4, <1>5 DEF Questions, Next, RecordsNext
  <2> QED BY <2>1, <2>2
<1> QED BY <1>6, <1>7

\* The counters of the loops are reset before the next question.
LEMMA IdleInvNext == IdleInv /\ [RulesNext]_<<vars, keyVars>> => IdleInv'
BY IdleSteps DEF IdleInv, Return, vars, loop

\* A question about consent, a turn of its loop, its answer, or neither.
LEMMA ConsentSteps ==
    ASSUME [RulesNext]_<<vars, keyVars>>, AtWork("key", "consent")
    PROVE  \/ UNCHANGED vars \/ "key" \notin DOMAIN asked'
           \/ AskConsent
           \/ "key" \in DOMAIN asked /\ (FoldConsent \/ ConsentReverts \/ AnswerConsent)
BY Steps, AskedBy, RunBy DEF AtWork, Runs, Marked, Marks

\* No step of any question breaks it.
LEMMA ConsentInvNext == ConsentInv /\ IdleInv /\ [RulesNext]_<<vars, keyVars>> => ConsentInv'
BY ConsentSteps, ConsentInvKept DEF ConsentInv

\* Consent is live, or withdrawn, by an accepted proof exactly when it is.
THEOREM ConsentIsExactHolds == RulesSpec => []ConsentIsExact
<1>1. RulesInit => ConsentInv /\ IdleInv
  BY DEF RulesInit, Init, ConsentInv, AtWork, IdleInv
<1>2. ConsentInv => ConsentIsExact
  BY DEF ConsentInv, ConsentIsExact, Answered, ExactConsent
<1> QED BY <1>1, <1>2, ConsentInvNext, IdleInvNext, PTL DEF RulesSpec

\* A question about inclusion, a turn of its loop, its answer, or neither.
LEMMA InclusionSteps ==
    ASSUME [RulesNext]_<<vars, keyVars>>, AtWork("leaf", "inclusion")
    PROVE  \/ UNCHANGED vars \/ "leaf" \notin DOMAIN asked'
           \/ AskInclusion
           \/ "leaf" \in DOMAIN asked /\ (FoldInclusion \/ InclusionReverts \/ AnswerInclusion)
BY Steps, AskedBy, RunBy DEF AtWork, Runs, Marked, Marks

\* No step of any question breaks it.
LEMMA InclusionInvNext == InclusionInv /\ IdleInv /\ [RulesNext]_<<vars, keyVars>> => InclusionInv'
BY InclusionSteps, InclusionInvKept DEF InclusionInv

\* The contract accepts a leaf for its own place and with its own proof only, and
\* so does the verifier of a report.
LEMMA InclusionHolds ==
    RulesSpec => [](InclusionIsExact /\ (Answered("leaf") => (verdict = "true" <=> ReportInclusion(asked))))
<1>1. RulesInit => InclusionInv /\ IdleInv
  BY DEF RulesInit, Init, InclusionInv, AtWork, IdleInv
<1>2. InclusionInv => InclusionIsExact /\ (Answered("leaf") => (verdict = "true" <=> ReportInclusion(asked)))
  BY ReportInclusionIs DEF InclusionInv, InclusionIsExact, Answered, ExactInclusion
<1> QED BY <1>1, <1>2, InclusionInvNext, IdleInvNext, PTL DEF RulesSpec

\* A question about an extension, a turn of its loop, its answer, or neither.
LEMMA ConsistencySteps ==
    ASSUME [RulesNext]_<<vars, keyVars>>, AtWork("m", "consistency")
    PROVE  \/ UNCHANGED vars \/ "m" \notin DOMAIN asked'
           \/ AskConsistency
           \/ "m" \in DOMAIN asked /\ (AnswerAtOnce \/ Climb \/ Extend \/ OutOfWords \/ AnswerConsistency)
BY Steps, AskedBy, RunBy DEF AtWork, Runs, Marked, Marks

\* No step of any question breaks it.
LEMMA ConsistencyInvNext == ConsistencyInv /\ [RulesNext]_<<vars, keyVars>> => ConsistencyInv'
BY ConsistencySteps, ConsistencyInvKept DEF ConsistencyInv

\* Contract and report accept an extension with its own proof, and nothing else.
LEMMA ConsistencyHolds ==
    RulesSpec => [](ConsistencyIsExact /\ (Answered("m") => (verdict = "true" <=> ReportConsistency(asked))))
<1>1. RulesInit => ConsistencyInv
  BY DEF RulesInit, Init, ConsistencyInv, AtWork
<1>2. ConsistencyInv => ConsistencyIsExact /\ (Answered("m") => (verdict = "true" <=> ReportConsistency(asked)))
  BY ReportConsistencyIs DEF ConsistencyInv, ConsistencyIsExact, Answered, ExactConsistency
<1> QED BY <1>1, <1>2, ConsistencyInvNext, PTL DEF RulesSpec

\* Whatever the proof, the contracts and the verifier of reports accept what it
\* proves and nothing else: whether a leaf is in the log, whether the log was only
\* extended, and whether consent is live.
THEOREM ProofsAreExactHolds == RulesSpec => []ProofsAreExact
<1>1. /\ InclusionIsExact /\ (Answered("leaf") => (verdict = "true" <=> ReportInclusion(asked)))
      /\ ConsistencyIsExact /\ (Answered("m") => (verdict = "true" <=> ReportConsistency(asked)))
      /\ ConsentIsExact
      => ProofsAreExact
  BY DEF ProofsAreExact, VerifiersAgree
<1> QED BY <1>1, InclusionHolds, ConsistencyHolds, ConsentIsExactHolds, PTL

-----------------------------------------------------------------------------
(* What the API serves *)

\* A question about what is served for a leaf, its answer, or neither.
LEMMA ServedSteps ==
    ASSUME [RulesNext]_<<vars, keyVars>>, AtWork("wanted", "served")
    PROVE  UNCHANGED vars \/ "wanted" \notin DOMAIN asked' \/ AskServed \/ AnswerServed
BY Steps, AskedBy, RunBy DEF AtWork, Runs, Marked, Marks

\* A question about pages, its answer, or neither.
LEMMA PagesSteps ==
    ASSUME [RulesNext]_<<vars, keyVars>>, AtWork("rows", "pages")
    PROVE  UNCHANGED vars \/ "rows" \notin DOMAIN asked' \/ AskPages \/ AnswerPages
BY Steps, AskedBy, RunBy DEF AtWork, Runs, Marked, Marks

\* A question about a leaf that somebody bought, its answer, or neither.
LEMMA LeafCheckSteps ==
    ASSUME [RulesNext]_<<vars, keyVars>>, AtWork("bought", "leafcheck")
    PROVE  UNCHANGED vars \/ "bought" \notin DOMAIN asked' \/ AskLeafCheck \/ AnswerLeafCheck
BY Steps, AskedBy, RunBy DEF AtWork, Runs, Marked, Marks

\* What is asked about a leaf and two heads.
IsServed(q) ==
    /\ Grows(q.anchored)
    /\ q.from \in Nat /\ q.head \in Nat

ServedInv ==
    /\ AtWork("wanted", "served")
    /\ "wanted" \in DOMAIN asked =>
         /\ IsServed(asked)
         /\ pc = "answered" => ServedRightly(asked, verdict)

\* The sizes of the heads.
LEMMA SizesAre == \A sent : SizesOf(sent) = SentSizes(sent)
BY DEF SizesOf, SentSizes, Range

\* The tables that are asked about have grown with the log.
LEMMA AnchoredGrows == \A sent \in Anchored : Grows(sent) /\ sent \in Seq(SentHead) /\ SizesOf(sent) \subseteq Nat
<1> SUFFICES ASSUME NEW sent \in Anchored
             PROVE  Grows(sent) /\ sent \in Seq(SentHead) /\ SizesOf(sent) \subseteq Nat
  OBVIOUS
<1>1. Grows(sent) /\ sent \in Seq(SentHead)
  BY AnchoredAssumption DEF Grows
<1>2. SentSizes(sent) \subseteq Nat
  BY <1>1, TableIs DEF SentSizes, Size
<1> QED BY <1>1, <1>2, SizesAre

\* The question is one about a leaf and two heads.
LEMMA ServedAsked == AskServed => IsServed(asked') /\ pc' = "served"
<1> SUFFICES ASSUME AskServed PROVE IsServed(asked') /\ pc' = "served"
  OBVIOUS
<1>1. PICK sent \in Anchored, leaf \in Range(Log) \cup {Other}, of \in Size, size, from \in 0 .. Len(Log) :
        /\ size \in {0, of} \cup SizesOf(sent)
        /\ pc' = "served"
        /\ asked' = [anchored |-> sent, wanted |-> leaf, root |-> LogRoot[of], head |-> size, from |-> from]
  BY DEF AskServed, Ask, Call
<1>2. Grows(sent) /\ SizesOf(sent) \subseteq Nat
  BY AnchoredGrows
<1>3. of \in Nat /\ from \in Nat
  BY <1>1 DEF Size
<1>4. size \in Nat
  BY <1>1, <1>2, <1>3
<1> QED BY <1>1, <1>2, <1>3, <1>4 DEF IsServed

\* The rows of the store are those of the table.
LEMMA HeadsAre == \A sent : Heads(sent) = Table(sent)
BY DEF Heads, Table

\* The answer is right.
LEMMA ServedAnswered ==
    ASSUME AnswerServed, IsServed(asked)
    PROVE  ServedRightly(asked, verdict') /\ pc' = "answered" /\ asked' = asked
<1> DEFINE sent == asked.anchored
           wanted == asked.wanted
           root == asked.root
           head == asked.head
           from == asked.from
           table == Table(sent)
           answer == [inclusion   |-> ServeInclusion(table, wanted, root, head),
                      consistency |-> ServeConsistency(table, from, head),
                      anchor      |-> EpisodeAnchor(table, wanted)]
<1>1. verdict' = answer /\ pc' = "answered" /\ asked' = asked
  BY HeadsAre DEF AnswerServed, Answer
<1>2. /\ answer.inclusion = ServeInclusion(table, wanted, root, head)
      /\ answer.consistency = ServeConsistency(table, from, head)
      /\ answer.anchor = EpisodeAnchor(table, wanted)
  OBVIOUS
<1>3. Grows(sent) /\ sent \in Seq(SentHead) /\ from \in Nat /\ head \in Nat
  BY DEF IsServed, Grows
<1> HIDE DEF sent, wanted, root, head, from, answer
<1>4. ServesWhatIsHeld(sent, wanted, root, head, ServeInclusion(table, wanted, root, head))
  BY <1>3, InclusionIsServed
<1>5. ServesOneLog(sent, from, head, ServeConsistency(table, from, head))
  BY <1>3, ConsistencyIsServed
<1>6. NamesAnchor(sent, wanted, EpisodeAnchor(table, wanted))
  BY <1>3, EpisodesNameTheFirst
<1>7. /\ ServesWhatIsHeld(sent, wanted, root, head, answer.inclusion)
      /\ ServesOneLog(sent, from, head, answer.consistency)
      /\ NamesAnchor(sent, wanted, answer.anchor)
  BY <1>2, <1>4, <1>5, <1>6
<1> QED BY <1>1, <1>7 DEF ServedRightly, sent, wanted, root, head, from

\* Every answer of the API about proofs is one the lemmas of BuyerChecksProofs describe.
LEMMA ServedInvNext == ServedInv /\ [RulesNext]_<<vars, keyVars>> => ServedInv'
<1> SUFFICES ASSUME ServedInv, [RulesNext]_<<vars, keyVars>> PROVE ServedInv'
  OBVIOUS
<1>1. CASE UNCHANGED vars
  BY <1>1 DEF ServedInv, AtWork, vars
<1>2. CASE "wanted" \notin DOMAIN asked'
  BY <1>2 DEF ServedInv, AtWork
<1>3. CASE AskServed
  BY <1>3, ServedAsked DEF ServedInv, AtWork
<1>4. CASE AnswerServed /\ "wanted" \in DOMAIN asked
  <2>1. IsServed(asked)
    BY <1>4 DEF ServedInv
  <2> QED BY <1>4, <2>1, ServedAnswered DEF ServedInv, AtWork
<1>5. CASE AnswerServed /\ "wanted" \notin DOMAIN asked
  <2>1. asked' = asked
    BY <1>5 DEF AnswerServed, Answer
  <2> QED BY <1>2, <1>5, <2>1
<1> QED BY <1>1, <1>2, <1>3, <1>4, <1>5, ServedSteps DEF ServedInv

\* A question about the pages, and its answer.
IsPaged(q) ==
    /\ q.rows \in Seq(SentHead) /\ q.known \in 0 .. Len(q.rows)
    /\ q.limit \in {{}} \cup {{l} : l \in 0 .. MaxLimit + 1}

PagesInv ==
    /\ AtWork("rows", "pages")
    /\ "rows" \in DOMAIN asked =>
         /\ IsPaged(asked)
         /\ pc = "answered" => PagesAre(asked.rows, asked.known, asked.limit, verdict)

\* Every walk over the pages reads the whole table.
LEMMA PagesInvNext == PagesInv /\ [RulesNext]_<<vars, keyVars>> => PagesInv'
<1> SUFFICES ASSUME PagesInv, [RulesNext]_<<vars, keyVars>> PROVE PagesInv'
  OBVIOUS
<1>1. CASE UNCHANGED vars
  BY <1>1 DEF PagesInv, AtWork, vars
<1>2. CASE "rows" \notin DOMAIN asked'
  BY <1>2 DEF PagesInv, AtWork
<1>3. CASE AskPages
  <2>1. PICK sent \in Anchored, limit \in {{}} \cup {{l} : l \in 0 .. MaxLimit + 1} :
          \E known \in 0 .. Len(sent) :
              pc' = "pages" /\ asked' = [rows |-> sent, known |-> known, limit |-> limit]
    BY <1>3 DEF AskPages, Ask, Call
  <2>2. PICK known \in 0 .. Len(sent) :
              pc' = "pages" /\ asked' = [rows |-> sent, known |-> known, limit |-> limit]
    BY <2>1
  <2>3. sent \in Seq(SentHead)
    BY AnchoredGrows
  <2>4. IsPaged(asked')
    BY <2>2, <2>3 DEF IsPaged
  <2> QED BY <2>2, <2>4 DEF PagesInv, AtWork
<1>4. CASE AnswerPages
  <2>1. /\ pc' = "answered" /\ asked' = asked
        /\ verdict' = {AllPages(Table(asked.rows), asked.known, limit) : limit \in ParseLimit(asked.limit)}
    BY <1>4, HeadsAre DEF AnswerPages, Answer
  <2>2. CASE "rows" \notin DOMAIN asked
    BY <1>2, <2>1, <2>2
  <2>3. CASE "rows" \in DOMAIN asked
    <3>1. IsPaged(asked)
      BY <2>3 DEF PagesInv
    <3> DEFINE sent == asked.rows
               known == asked.known
               raw == asked.limit
               result == {AllPages(Table(sent), known, limit) : limit \in ParseLimit(raw)}
    <3>2. sent \in Seq(SentHead) /\ known \in 0 .. Len(sent) /\ raw \in {{}} \cup {{l} : l \in 0 .. MaxLimit + 1}
      BY <3>1 DEF IsPaged
    <3>3. verdict' = result
      BY <2>1
    <3> HIDE DEF sent, known, raw
    <3>4. PagesAre(sent, known, raw, result)
      BY <3>2, PagesAreRead
    <3> HIDE DEF result
    <3>5. PagesAre(sent, known, raw, verdict')
      BY <3>3, <3>4
    <3> QED BY <2>1, <3>1, <3>5 DEF PagesInv, AtWork, sent, known, raw
  <2> QED BY <2>2, <2>3
<1> QED BY <1>1, <1>2, <1>3, <1>4, PagesSteps DEF PagesInv

\* A question about a bought leaf, and its answer.
IsBought(q) ==
    /\ q.heads \in Seq(SentHead) /\ q.heads # <<>>
    /\ q.named \in Nat /\ q.at \in Nat /\ q.given \in Seq(LogHashes)

LeafCheckInv ==
    /\ AtWork("bought", "leafcheck")
    /\ "bought" \in DOMAIN asked =>
         /\ IsBought(asked)
         /\ pc = "answered" =>
               PageAnswers(asked.heads, asked.answers, asked.named, asked.bought, asked.at, asked.given, verdict)

\* The page is asked about a leaf, an anchor and a proof of the right types.
LEMMA LeafCheckAsked == AskLeafCheck => IsBought(asked') /\ pc' = "leafcheck"
<1> SUFFICES ASSUME AskLeafCheck PROVE IsBought(asked') /\ pc' = "leafcheck"
  OBVIOUS
<1> DEFINE Question(sent, leaf, answers, named, at, proof) ==
             /\ pc' = "leafcheck"
             /\ asked' = [heads |-> sent, bought |-> leaf, named |-> named, at |-> at,
                          given |-> proof, answers |-> answers]
<1>1. PICK sent \in Anchored, leaf \in Range(Log) \cup {Other}, answers \in SUBSET {"leaf", "head"} :
        \E of \in SizesOf(sent), named \in 0 .. Len(sent) :
            \E at \in 0 .. of - 1 :
                \E proof \in Deliveries(Inclusion[of][at]) : Question(sent, leaf, answers, named, at, proof)
  BY DEF AskLeafCheck, Ask, Call
<1>2. PICK of \in SizesOf(sent), named \in 0 .. Len(sent) :
            \E at \in 0 .. of - 1 :
                \E proof \in Deliveries(Inclusion[of][at]) : Question(sent, leaf, answers, named, at, proof)
  BY <1>1
<1>3. PICK at \in 0 .. of - 1 :
                \E proof \in Deliveries(Inclusion[of][at]) : Question(sent, leaf, answers, named, at, proof)
  BY <1>2
<1>4. PICK proof \in Deliveries(Inclusion[of][at]) : Question(sent, leaf, answers, named, at, proof)
  BY <1>3
<1>5. sent \in Seq(SentHead)
  BY AnchoredGrows
<1>6. of \in Size /\ sent # <<>>
  <2>1. of \in SentSizes(sent)
    BY <1>2, SizesAre
  <2>2. PICK k \in DOMAIN sent : of = sent[k].size
    BY <2>1 DEF SentSizes
  <2> QED BY <1>5, <2>2, TableIs
<1>7. proof \in Seq(LogHashes)
  BY <1>4, <1>6, InclusionType
<1>8. named \in Nat /\ at \in Nat
  BY <1>2, <1>3
<1> QED BY <1>4, <1>5, <1>6, <1>7, <1>8 DEF IsBought

\* Every answer of the page about a leaf is exact.
LEMMA LeafCheckInvNext == LeafCheckInv /\ [RulesNext]_<<vars, keyVars>> => LeafCheckInv'
<1> SUFFICES ASSUME LeafCheckInv, [RulesNext]_<<vars, keyVars>> PROVE LeafCheckInv'
  OBVIOUS
<1>1. CASE UNCHANGED vars
  BY <1>1 DEF LeafCheckInv, AtWork, vars
<1>2. CASE "bought" \notin DOMAIN asked'
  BY <1>2 DEF LeafCheckInv, AtWork
<1>3. CASE AskLeafCheck
  BY <1>3, LeafCheckAsked DEF LeafCheckInv, AtWork
<1>4. CASE AnswerLeafCheck
  <2>1. /\ pc' = "answered" /\ asked' = asked
        /\ verdict' = RunLeafCheck({Table(asked.heads)}, asked.answers, asked.named, asked.bought, asked.at, asked.given)
    BY <1>4, HeadsAre DEF AnswerLeafCheck, Answer
  <2>2. CASE "bought" \notin DOMAIN asked
    BY <1>2, <2>1, <2>2
  <2>3. CASE "bought" \in DOMAIN asked
    <3>1. IsBought(asked)
      BY <2>3 DEF LeafCheckInv
    <3> DEFINE sent == asked.heads
               answers == asked.answers
               named == asked.named
               leaf == asked.bought
               at == asked.at
               given == asked.given
               result == RunLeafCheck({Table(sent)}, answers, named, leaf, at, given)
    <3>2. sent \in Seq(SentHead) /\ sent # <<>> /\ named \in Nat /\ at \in Nat /\ given \in Seq(LogHashes)
      BY <3>1 DEF IsBought
    <3>3. verdict' = result
      BY <2>1
    <3> HIDE DEF sent, answers, named, leaf, at, given
    <3>4. PageAnswers(sent, answers, named, leaf, at, given, result)
      BY <3>2, LeafChecked
    <3> HIDE DEF result
    <3>5. PageAnswers(sent, answers, named, leaf, at, given, verdict')
      BY <3>3, <3>4
    <3> QED BY <2>1, <3>1, <3>5 DEF LeafCheckInv, AtWork, sent, answers, named, leaf, at, given
  <2> QED BY <2>2, <2>3
<1> QED BY <1>1, <1>2, <1>3, <1>4, LeafCheckSteps DEF LeafCheckInv

\* What was read is the table's first part, and no shorter than it was.
LEMMA ReadIsPrefix ==
    ASSUME NEW sent \in Seq(SentHead), NEW known \in 0 .. Len(sent), NEW read, ReadsAll(sent, known, read)
    PROVE  read.next = {} /\ IsPrefix(read.items, Table(sent)) /\ Len(read.items) >= known
<1> DEFINE table == Table(sent)
           rows == {table[k] : k \in 1 .. Len(sent)}
<1>1. PICK u \in known .. Len(sent) : read = Reading(table, u, FALSE)
  BY DEF ReadsAll
<1>2. read.items = SubSeq(table, 1, u) /\ read.next = {}
  BY <1>1 DEF Reading, First
<1>3. Len(table) = Len(sent) /\ Len(sent) \in Nat /\ u \in Nat /\ u <= Len(sent) /\ u >= known
  BY TableIs
<1> HIDE DEF table
<1>4. \A k \in 1 .. u : table[k] \in rows
  BY <1>3
<1> HIDE DEF rows
<1> DEFINE part == SubSeq(table, 1, u)
<1>5. part \in Seq(rows) /\ Len(part) = u
  BY <1>3, <1>4, SubSeqProperties
<1> HIDE DEF part
<1>6. SubSeq(part, 1, Len(part)) = part
  BY <1>5, SubSeqFull
<1>7. SubSeq(part, 1, Len(part)) = SubSeq(table, 1, Len(part))
  BY <1>5, <1>6 DEF part
<1>8. read.items = part
  BY <1>2 DEF part
<1> QED BY <1>2, <1>3, <1>5, <1>7, <1>8 DEF IsPrefix, table

\* Every leaf that a coherent anchor covers can be proved from what is served, nothing that is
\* served for another is accepted, the pages are the table, and the page's two answers agree (proofs.ts:11-102,
\* episodes.ts:97-122, anchors.ts:20-26, verify.js:100-172).
LEMMA ServedProofsHoldAlways == RulesSpec => []ServedProofsHold
<1>1. RulesInit => ServedInv /\ PagesInv /\ LeafCheckInv
  BY DEF RulesInit, Init, ServedInv, PagesInv, LeafCheckInv, AtWork
<1>2. ServedInv /\ PagesInv /\ LeafCheckInv => ServedProofsHold
  <2> SUFFICES ASSUME ServedInv, PagesInv, LeafCheckInv PROVE ServedProofsHold
    OBVIOUS
  <2>1. Answered("wanted") => ServedRightly(asked, verdict)
    BY DEF ServedInv, Answered
  <2>2. Answered("rows") => IsPaged(asked) /\ PagesAre(asked.rows, asked.known, asked.limit, verdict)
    BY DEF PagesInv, Answered
  <2>3. Answered("bought") =>
          PageAnswers(asked.heads, asked.answers, asked.named, asked.bought, asked.at, asked.given, verdict)
    BY DEF LeafCheckInv, Answered
  <2>4. ASSUME Answered("wanted")
        PROVE  LET anchors == Heads(asked.anchored)
                   held(a) == a.size > 0 /\ \E l \in 1 .. a.size : Log[l] = asked.wanted
                   accepted(root, served) ==
                       \E index \in ReadIndexOfRoot({anchors}, root) :
                           VerifyLeafOnChain({anchors}, index, asked.wanted, served.index, served.proof) IN
               /\ verdict.anchor = {} <=> ~\E a \in Range(anchors) : held(a)
               /\ \A a \in verdict.anchor :
                    /\ accepted(a.root, ServeInclusion(anchors, asked.wanted, a.root, a.size)) <=> Coherent(a)
                    /\ \A b \in Range(anchors) : b.size < a.size => ~held(b)
               /\ verdict.inclusion.status = 200 <=>
                    \E a \in Range(anchors) : a.size = asked.head /\ a.root = asked.root /\ held(a)
               /\ verdict.inclusion.status = 200 =>
                    (accepted(asked.root, verdict.inclusion) <=> asked.root = LogRoot[asked.head])
               /\ verdict.consistency.status = 200 <=>
                    asked.from <= asked.head /\ {asked.from, asked.head} \subseteq SizesOf(asked.anchored)
               /\ verdict.consistency.status = 200 =>
                    \A a, b \in Range(anchors) :
                        a.size = asked.from /\ b.size = asked.head /\ (Coherent(a) \/ Coherent(b)) =>
                            (ConsistentWith(asked.from, asked.head, verdict.consistency.proof, a.root, b.root)
                               <=> Coherent(a) /\ Coherent(b))
    <3>1. ServedFacts(Table(asked.anchored), asked, verdict)
      BY <2>1, <2>4, ServedMeans
    <3>2. ServedFacts(Heads(asked.anchored), asked, verdict)
      BY <3>1, HeadsAre
    <3> QED BY <3>2, SizesAre DEF ServedFacts
  <2>5. ASSUME Answered("rows")
        PROVE  /\ verdict = {} <=> asked.limit = {0}
               /\ \A read \in verdict :
                    /\ read.next = {}
                    /\ IsPrefix(read.items, Heads(asked.rows))
                    /\ Len(read.items) >= asked.known
    <3>1. Heads(asked.rows) = Table(asked.rows)
      BY HeadsAre
    <3>2. /\ asked.rows \in Seq(SentHead) /\ asked.known \in 0 .. Len(asked.rows)
          /\ verdict = {} <=> asked.limit = {0}
          /\ \A read \in verdict : ReadsAll(asked.rows, asked.known, read)
      BY <2>2, <2>5 DEF IsPaged, PagesAre
    <3> QED BY <3>1, <3>2, ReadIsPrefix
  <2>6. ASSUME Answered("bought")
        PROVE  LET sent  == asked.heads
                   named == asked.named + 1
                   coherent == named \in DOMAIN sent /\ sent[named].of = sent[named].size
                   honest == /\ named \in DOMAIN sent /\ asked.at < sent[named].size
                             /\ asked.bought = Log[asked.at + 1]
                             /\ asked.given = Inclusion[sent[named].size][asked.at] IN
               /\ verdict = {} <=> "head" \notin asked.answers
               /\ \A shown \in verdict :
                    /\ shown.onChain => "leaf" \in asked.answers /\ named \in DOMAIN sent
                    /\ "leaf" \in asked.answers /\ (honest \/ coherent) =>
                           (shown.onChain <=> honest /\ coherent)
                    /\ named = Len(sent) /\ (honest \/ coherent) => (shown.locally <=> honest /\ coherent)
                    /\ named = Len(sent) /\ "leaf" \in asked.answers => (shown.onChain <=> shown.locally)
    BY <2>3, <2>6 DEF PageAnswers
  <2> QED BY <2>4, <2>5, <2>6 DEF ServedProofsHold
<1> QED BY <1>1, <1>2, ServedInvNext, PagesInvNext, LeafCheckInvNext, PTL DEF RulesSpec

\* What is proved is exact, and what is served, up to the anchors whose root is a later
\* one and is never accepted with them, for every log, every set of keys and
\* every table of anchors (GraspLog.sol:187, MerkleLog.sol:35-79,
\* SparseMerkle.sol:8-18, report-verify.ts:4-8, proofs.ts:11-102).
THEOREM EveryProofIsExactHolds == RulesSpec => []EveryProofIsExact
<1>1. ProofsAreExact /\ ServedProofsHold => EveryProofIsExact
  BY DEF EveryProofIsExact
<1> QED BY <1>1, ProofsAreExactHolds, ServedProofsHoldAlways, PTL

-----------------------------------------------------------------------------
(* The last word on a check                                                *)

\* A question about an episode's badges, its answer, or neither.
LEMMA BadgesSteps ==
    ASSUME [RulesNext]_<<vars, keyVars>>, AtWork("claimed", "badges")
    PROVE  UNCHANGED vars \/ "claimed" \notin DOMAIN asked' \/ AskBadges \/ AnswerBadges
BY Steps, AskedBy, RunBy DEF AtWork, Runs, Marked, Marks

\* A question about the sources of a report, its answer, or neither.
LEMMA SourcesSteps ==
    ASSUME [RulesNext]_<<vars, keyVars>>, AtWork("members", "sources")
    PROVE  UNCHANGED vars \/ "members" \notin DOMAIN asked' \/ AskSources \/ AnswerSources
BY Steps, AskedBy, RunBy DEF AtWork, Runs, Marked, Marks

\* What is asked about an episode, and about several.
IsClaimed(q) == q.claimed = q.episode.claims /\ IsEpisode(q.episode)
AreMembers(q) ==
    /\ IsList(q.members)
    /\ \A k \in DOMAIN q.members : IsEpisode(q.members[k]) /\ Ordered(q.members[k].claims)

BadgesInv ==
    /\ AtWork("claimed", "badges")
    /\ "claimed" \in DOMAIN asked =>
         /\ IsClaimed(asked)
         /\ pc = "answered" => verdict = BadgesOf(asked.episode)

SourcesInv ==
    /\ AtWork("members", "sources")
    /\ "members" \in DOMAIN asked =>
         /\ AreMembers(asked)
         /\ pc = "answered" => verdict = CorpusSourcesWording(MembersOf(asked.members))

\* An episode with the claims that it is asked about.
LEMMA EpisodeAsked ==
    ASSUME NEW e \in Episodes, NEW most \in Nat, NEW claims \in SeqOf(Claims, most)
    PROVE  LET about == [e EXCEPT !.claims = claims] IN
           about.claims = claims /\ IsEpisode(about) /\ (most = 1 => Ordered(claims))
<1> DEFINE about == [e EXCEPT !.claims = claims]
<1>1. PICK m \in 0 .. most : claims \in [1 .. m -> Claims]
  BY DEF SeqOf
<1>2. claims \in Seq(Claims) /\ DOMAIN claims = 1 .. m /\ \A k \in 1 .. m : claims[k] \in Claims
  <2>1. m \in Nat
    OBVIOUS
  <2> QED BY <1>1, <2>1, SeqDef
<1>3. IsClaims(claims)
  BY <1>2, ClaimsAssumption DEF IsClaims
<1>4. about.claims = claims /\ about.source = e.source
  BY ClaimsAssumption
<1> HIDE DEF about
<1>5. IsEpisode(about)
  BY <1>3, <1>4, ClaimsAssumption DEF IsEpisode
<1>6. most = 1 => Ordered(claims)
  <2> SUFFICES ASSUME most = 1, NEW k \in 1 .. m, NEW l \in 1 .. m PROVE k = l
    BY <1>2 DEF Ordered
  <2> QED OBVIOUS
<1> QED BY <1>4, <1>5, <1>6 DEF about

\* The question is one about an episode.
LEMMA BadgesAsked == AskBadges => IsClaimed(asked') /\ pc' = "badges"
<1> SUFFICES ASSUME AskBadges PROVE IsClaimed(asked') /\ pc' = "badges"
  OBVIOUS
<1>1. PICK e \in Episodes, claims \in SeqOf(Claims, 3) :
        pc' = "badges" /\ asked' = [claimed |-> claims, episode |-> [e EXCEPT !.claims = claims]]
  BY DEF AskBadges, Ask, Call
<1> DEFINE about == [e EXCEPT !.claims = claims]
<1>2. about.claims = claims /\ IsEpisode(about)
  BY EpisodeAsked
<1>3. asked'.claimed = claims /\ asked'.episode = about
  BY <1>1
<1> HIDE DEF about
<1> QED BY <1>1, <1>2, <1>3 DEF IsClaimed

\* The question is one about several, with at most a claim each.
LEMMA SourcesAsked == AskSources => AreMembers(asked') /\ pc' = "sources"
<1> SUFFICES ASSUME AskSources PROVE AreMembers(asked') /\ pc' = "sources"
  OBVIOUS
<1>1. PICK members \in SeqOf(Reported, 2) : pc' = "sources" /\ asked' = [members |-> members]
  BY DEF AskSources, Ask, Call
<1>2. \A about \in Reported : IsEpisode(about) /\ Ordered(about.claims)
  <2> TAKE about \in Reported
  <2>1. PICK e \in Episodes, claims \in SeqOf(Claims, 1) : about = [e EXCEPT !.claims = claims]
    BY DEF Reported
  <2>2. [e EXCEPT !.claims = claims].claims = claims
        /\ IsEpisode([e EXCEPT !.claims = claims]) /\ Ordered(claims)
    BY EpisodeAsked
  <2> QED BY <2>1, <2>2
<1>3. PICK m \in 0 .. 2 : members \in [1 .. m -> Reported]
  BY DEF SeqOf
<1>4. members \in Seq(Reported) /\ DOMAIN members = 1 .. m /\ \A k \in 1 .. m : members[k] \in Reported
  <2>1. m \in Nat
    OBVIOUS
  <2> QED BY <1>3, <2>1, SeqDef
<1>5. asked'.members = members
  BY <1>1
<1> QED BY <1>1, <1>2, <1>4, <1>5 DEF AreMembers, IsList

\* No step breaks what is known of an episode's badges.
LEMMA BadgesInvNext == BadgesInv /\ [RulesNext]_<<vars, keyVars>> => BadgesInv'
<1> SUFFICES ASSUME BadgesInv, [RulesNext]_<<vars, keyVars>> PROVE BadgesInv'
  OBVIOUS
<1>1. CASE UNCHANGED vars
  BY <1>1 DEF BadgesInv, AtWork, vars
<1>2. CASE "claimed" \notin DOMAIN asked'
  BY <1>2 DEF BadgesInv, AtWork
<1>3. CASE AskBadges
  BY <1>3, BadgesAsked DEF BadgesInv, AtWork
<1>4. CASE AnswerBadges
  BY <1>4 DEF BadgesInv, AtWork, AnswerBadges, Answer
<1> QED BY <1>1, <1>2, <1>3, <1>4, BadgesSteps DEF BadgesInv

\* No step breaks what is known of a report's sources.
LEMMA SourcesInvNext == SourcesInv /\ [RulesNext]_<<vars, keyVars>> => SourcesInv'
<1> SUFFICES ASSUME SourcesInv, [RulesNext]_<<vars, keyVars>> PROVE SourcesInv'
  OBVIOUS
<1>1. CASE UNCHANGED vars
  BY <1>1 DEF SourcesInv, AtWork, vars
<1>2. CASE "members" \notin DOMAIN asked'
  BY <1>2 DEF SourcesInv, AtWork
<1>3. CASE AskSources
  BY <1>3, SourcesAsked DEF SourcesInv, AtWork
<1>4. CASE AnswerSources
  BY <1>4 DEF SourcesInv, AtWork, AnswerSources, Answer, MembersOf
<1> QED BY <1>1, <1>2, <1>3, <1>4, SourcesSteps DEF SourcesInv

\* The log's last word on a check decides the badges of an episode, the lines
\* about it and what a report counts (badges.ts:101-213, wording.ts:124-186,
\* render.ts:80-82).
THEOREM LatestClaimDecidesHolds == RulesSpec => []LatestClaimDecides
<1>1. RulesInit => BadgesInv /\ SourcesInv
  BY DEF RulesInit, Init, BadgesInv, SourcesInv, AtWork
<1>2. BadgesInv /\ SourcesInv => LatestClaimDecides
  <2> SUFFICES ASSUME BadgesInv, SourcesInv PROVE LatestClaimDecides
    OBVIOUS
  <2>1. Answered("claimed") => Decided(asked.claimed, asked.episode, verdict)
    <3> SUFFICES ASSUME Answered("claimed") PROVE Decided(asked.claimed, asked.episode, verdict)
      OBVIOUS
    <3>1. IsClaimed(asked) /\ verdict = BadgesOf(asked.episode)
      BY DEF BadgesInv, Answered
    <3> QED BY <3>1, LastWordDecides DEF IsClaimed
  <2>2. Answered("members") => Counted(asked.members, verdict)
    <3> SUFFICES ASSUME Answered("members") PROVE Counted(asked.members, verdict)
      OBVIOUS
    <3>1. AreMembers(asked) /\ verdict = CorpusSourcesWording(MembersOf(asked.members))
      BY DEF SourcesInv, Answered
    <3> QED BY <3>1, SourcesCount DEF AreMembers
  <2> QED BY <2>1, <2>2
      DEF LatestClaimDecides, Decided, Counted, LastWord, SaidLast, AttestedByController, AttestedLast,
          Ordered, L3Said
<1> QED BY <1>1, <1>2, BadgesInvNext, SourcesInvNext, PTL DEF RulesSpec

-----------------------------------------------------------------------------
(* Whole reports                                                           *)

\* A question about a report, its answer, or neither.
LEMMA ReportSteps ==
    ASSUME [RulesNext]_<<vars, keyVars>>, AtWork("report", "report")
    PROVE  UNCHANGED vars \/ "report" \notin DOMAIN asked' \/ AskReport \/ AnswerReport
BY Steps, AskedBy, RunBy DEF AtWork, Runs, Marked, Marks

\* A report that is to be put together, the answer, or neither.
LEMMA AssembledSteps ==
    ASSUME [RulesNext]_<<vars, keyVars>>, AtWork("table", "assembled")
    PROVE  UNCHANGED vars \/ "table" \notin DOMAIN asked' \/ AskAssembled \/ AnswerAssembled
BY Steps, AskedBy, RunBy DEF AtWork, Runs, Marked, Marks

\* What is asked about a report.
IsReported(q) == IsReport(q.report, q.size, q.revoked) /\ q.by \in {"library", "page", "script"}

\* A report is passed exactly when it is true.
ReportInv ==
    /\ AtWork("report", "report")
    /\ "report" \in DOMAIN asked =>
         /\ IsReported(asked)
         /\ pc = "answered" =>
              (verdict = "true" <=> ReportHolds(asked.report, asked.size, asked.revoked, asked.by))

\* The question is one about a report that the lemmas of BuyerChecksProofs describe.
LEMMA ReportAsked == AskReport => IsReported(asked') /\ pc' = "report"
<1> SUFFICES ASSUME AskReport PROVE IsReported(asked') /\ pc' = "report"
  OBVIOUS
<1>1. PICK size \in Size, sealed \in Size, at \in DOMAIN CorpusProof, key \in Key, revoked \in SUBSET Key :
        /\ \A k \in DOMAIN Corpus : Corpus[k] < sealed
        /\ sealed <= size
        /\ \E report \in Damaged(Genuine(size, sealed, at, key, revoked), key), by \in {"library", "page", "script"} :
              Call("report", [report |-> report, by |-> by, size |-> size, revoked |-> revoked])
  BY DEF AskReport
<1>2. PICK report \in Damaged(Genuine(size, sealed, at, key, revoked), key), by \in {"library", "page", "script"} :
        Call("report", [report |-> report, by |-> by, size |-> size, revoked |-> revoked])
  BY <1>1
<1>3. IsGenuine(Genuine(size, sealed, at, key, revoked), size, key, revoked)
  BY <1>1, GenuineIs
<1>4. IsReport(report, size, revoked)
  BY <1>3, DamagedAre
<1>5. /\ asked'.report = report /\ asked'.by = by /\ asked'.size = size /\ asked'.revoked = revoked
      /\ pc' = "report"
  BY <1>2 DEF Call
<1> QED BY <1>4, <1>5 DEF IsReported

\* The answer is right.
LEMMA ReportAnswered ==
    ASSUME AnswerReport, IsReported(asked)
    PROVE  /\ verdict' = "true" <=> ReportHolds(asked.report, asked.size, asked.revoked, asked.by)
           /\ pc' = "answered" /\ asked' = asked
<1> DEFINE r == asked.report
           passes == CASE asked.by = "library" -> VerifyReport(r)
                       [] asked.by = "page" -> PageVerifiesReport(r)
                       [] asked.by = "script" -> ScriptVerifiesReport(r)
<1>1. verdict' = (IF passes THEN "true" ELSE "false") /\ pc' = "answered" /\ asked' = asked
  BY DEF AnswerReport, Accept, Answer
<1>2. PassesRightly(r, asked.size, asked.revoked)
  BY ReportTold DEF IsReported
<1>3. asked.by \in {"library", "page", "script"}
  BY DEF IsReported
<1>4. /\ asked.by = "library" => (passes <=> VerifyReport(r))
      /\ asked.by = "page" => (passes <=> PageVerifiesReport(r))
      /\ asked.by = "script" => (passes <=> ScriptVerifiesReport(r))
  OBVIOUS
<1>5. passes <=> ReportHolds(r, asked.size, asked.revoked, asked.by)
  <2> HIDE DEF passes
  <2>1. CASE asked.by = "library"
    BY <1>2, <1>4, <2>1 DEF PassesRightly
  <2>2. CASE asked.by = "page"
    BY <1>2, <1>4, <2>2 DEF PassesRightly
  <2>3. CASE asked.by = "script"
    BY <1>2, <1>4, <2>3 DEF PassesRightly
  <2> QED BY <1>3, <2>1, <2>2, <2>3
<1> HIDE DEF passes
<1>6. verdict' = "true" <=> passes
  BY <1>1
<1> QED BY <1>1, <1>5, <1>6

\* No step breaks what is known of a report.
LEMMA ReportInvNext == ReportInv /\ [RulesNext]_<<vars, keyVars>> => ReportInv'
<1> SUFFICES ASSUME ReportInv, [RulesNext]_<<vars, keyVars>> PROVE ReportInv'
  OBVIOUS
<1>1. CASE UNCHANGED vars
  BY <1>1 DEF ReportInv, AtWork, vars
<1>2. CASE "report" \notin DOMAIN asked'
  BY <1>2 DEF ReportInv, AtWork
<1>3. CASE AskReport
  BY <1>3, ReportAsked DEF ReportInv, AtWork
<1>4. CASE AnswerReport /\ "report" \in DOMAIN asked
  <2>1. IsReported(asked)
    BY <1>4 DEF ReportInv
  <2> QED BY <1>4, <2>1, ReportAnswered DEF ReportInv, AtWork
<1>5. CASE AnswerReport /\ "report" \notin DOMAIN asked
  <2>1. asked' = asked
    BY <1>5 DEF AnswerReport, Accept, Answer
  <2> QED BY <1>2, <1>5, <2>1
<1> QED BY <1>1, <1>2, <1>3, <1>4, <1>5, ReportSteps DEF ReportInv

\* What is asked for a report that is to be put together.
IsOrdered(q) ==
    /\ q.table \in Seq([size: Size, of: Size, revoked: SUBSET Key])
    /\ q.about \in Range(AnchoredRows(q.table)) /\ q.sealing \in Range(AnchoredRows(q.table))
    /\ q.member \in DOMAIN CorpusProof /\ q.holder \in Key /\ q.withdrawn \in SUBSET Key
    /\ \A k \in DOMAIN q.table : q.table[k].revoked \subseteq q.withdrawn
AssemblesFor(q, result) ==
    Assembles(result, AnchoredRows(q.table), q.about, q.sealing, q.member, q.claim, q.holder, q.withdrawn)

\* The report is the one that the answers make.
AssembledInv ==
    /\ AtWork("table", "assembled")
    /\ "table" \in DOMAIN asked =>
         /\ IsOrdered(asked)
         /\ pc = "answered" => AssemblesFor(asked, verdict)

\* The rows of the store are those of the table.
LEMMA RowsAnchored == \A table : AnchorRows(table) = AnchoredRows(table)
BY DEF AnchorRows, AnchoredRows

\* The question names two heads of the table and one of its later states.
LEMMA AssembledAsked == AskAssembled => IsOrdered(asked') /\ pc' = "assembled"
<1> SUFFICES ASSUME AskAssembled PROVE IsOrdered(asked') /\ pc' = "assembled"
  OBVIOUS
<1>1. PICK table \in Tables, at \in DOMAIN CorpusProof, claim \in Range(Log), key \in Key, later \in SUBSET Key :
        \E about, sealing \in Range(AnchorRows(table)) :
            /\ \A k \in DOMAIN table : table[k].revoked \subseteq later
            /\ Ask("assembled", [table |-> table, about |-> about, sealing |-> sealing, member |-> at,
                                 claim |-> claim, holder |-> key, withdrawn |-> later])
  BY DEF AskAssembled
<1>2. PICK about \in Range(AnchorRows(table)), sealing \in Range(AnchorRows(table)) :
        /\ \A k \in DOMAIN table : table[k].revoked \subseteq later
        /\ Ask("assembled", [table |-> table, about |-> about, sealing |-> sealing, member |-> at,
                             claim |-> claim, holder |-> key, withdrawn |-> later])
  BY <1>1
<1>3. /\ asked'.table = table /\ asked'.about = about /\ asked'.sealing = sealing /\ asked'.member = at
      /\ asked'.holder = key /\ asked'.withdrawn = later /\ pc' = "assembled"
  BY <1>2 DEF Ask, Call
<1>4. table \in Seq([size: Size, of: Size, revoked: SUBSET Key])
  BY TablesAssumption
<1> QED BY <1>2, <1>3, <1>4, RowsAnchored DEF IsOrdered

\* The answer is right.
LEMMA AssembledAnswered ==
    ASSUME AnswerAssembled, IsOrdered(asked)
    PROVE  AssemblesFor(asked, verdict') /\ pc' = "answered" /\ asked' = asked
<1> DEFINE table == asked.table
           about == asked.about
           sealing == asked.sealing
           at == asked.member
           claim == asked.claim
           key == asked.holder
           withdrawn == asked.withdrawn
           rows == AnchoredRows(table)
<1>1. verdict' = AssembleReport(rows, about, sealing, at, claim, key, withdrawn)
      /\ pc' = "answered" /\ asked' = asked
  BY RowsAnchored DEF AnswerAssembled, Answer
<1>2. /\ table \in Seq([size: Size, of: Size, revoked: SUBSET Key])
      /\ about \in Range(AnchoredRows(table)) /\ sealing \in Range(AnchoredRows(table))
      /\ at \in DOMAIN CorpusProof /\ key \in Key /\ withdrawn \in SUBSET Key
      /\ \A k \in DOMAIN table : table[k].revoked \subseteq withdrawn
  BY DEF IsOrdered
<1> HIDE DEF table, about, sealing, at, claim, key, withdrawn
<1>3. Assembles(AssembleReport(rows, about, sealing, at, claim, key, withdrawn),
                rows, about, sealing, at, claim, key, withdrawn)
  BY <1>2, AssembledRightly
<1> QED BY <1>1, <1>3 DEF AssemblesFor, table, about, sealing, at, claim, key, withdrawn

\* No step breaks what is known of a report that is put together.
LEMMA AssembledInvNext == AssembledInv /\ [RulesNext]_<<vars, keyVars>> => AssembledInv'
<1> SUFFICES ASSUME AssembledInv, [RulesNext]_<<vars, keyVars>> PROVE AssembledInv'
  OBVIOUS
<1>1. CASE UNCHANGED vars
  BY <1>1 DEF AssembledInv, AtWork, vars
<1>2. CASE "table" \notin DOMAIN asked'
  BY <1>2 DEF AssembledInv, AtWork
<1>3. CASE AskAssembled
  BY <1>3, AssembledAsked DEF AssembledInv, AtWork
<1>4. CASE AnswerAssembled /\ "table" \in DOMAIN asked
  <2>1. IsOrdered(asked)
    BY <1>4 DEF AssembledInv
  <2> QED BY <1>4, <2>1, AssembledAnswered DEF AssembledInv, AtWork
<1>5. CASE AnswerAssembled /\ "table" \notin DOMAIN asked
  <2>1. asked' = asked
    BY <1>5 DEF AnswerAssembled, Answer
  <2> QED BY <1>2, <1>5, <2>1
<1> QED BY <1>1, <1>2, <1>3, <1>4, <1>5, AssembledSteps DEF AssembledInv

\* What the script puts together of coherent heads is passed by all, unless others have
\* withdrawn their consent since: in the words of the property.
LEMMA AssembledPass == AssembledInv => AssembledReportsPass
<1> SUFFICES ASSUME AssembledInv, Answered("table") PROVE AssembledReportsPass
  BY DEF AssembledReportsPass
<1> DEFINE rows == AnchorRows(asked.table)
           page == First(rows, Least({MaxLimit, Len(rows)}))
           same(row, head) == row.size = head.size /\ row.root = head.root
           first(head) == CHOOSE row \in Range(page) :
               /\ same(row, head)
               /\ \A other \in Range(page) : same(other, head) => row.idx <= other.idx
           under(size) == {Log[l] : l \in 1 .. size}
<1>1. IsOrdered(asked) /\ AssemblesFor(asked, verdict)
  BY DEF AssembledInv, Answered
<1>2. rows = AnchoredRows(asked.table) /\ Len(rows) \in Nat
  <2>1. Len(AnchoredRows(asked.table)) \in Nat
    BY <1>1, RowsAre DEF IsOrdered
  <2> QED BY <2>1, RowsAnchored
<1>3. page = Shown(rows)
  <2> DEFINE rest == IF MaxLimit < Len(rows) THEN MaxLimit ELSE Len(rows)
  <2> HIDE DEF rows
  <2>1. MaxLimit \in Nat
    BY LimitAssumption
  <2>2. rest \in {MaxLimit, Len(rows)} /\ \A y \in {MaxLimit, Len(rows)} : rest <= y
    BY <1>2, <2>1
  <2>3. \A x \in {MaxLimit, Len(rows)} : (\A y \in {MaxLimit, Len(rows)} : x <= y) => x = rest
    BY <1>2, <2>1
  <2> HIDE DEF rest
  <2>4. Least({MaxLimit, Len(rows)}) = rest
    BY <2>2, <2>3 DEF Least
  <2> QED BY <2>4 DEF Shown, rest
<1>4. \A head : first(head) = FirstRow(rows, head)
  BY <1>3 DEF FirstRow, Same
<1>5. \A size \in Size : \A wanted : wanted \in under(size) <=> Holds(size, wanted)
  BY FirstIs DEF Holds
<1>6. asked.about.size \in Size
  <2>1. PICK k \in DOMAIN AnchoredRows(asked.table) : asked.about = AnchoredRows(asked.table)[k]
    BY <1>1 DEF IsOrdered, Range
  <2>2. IsRow(AnchoredRows(asked.table)[k])
    BY <1>1, <2>1, RowsAre DEF IsOrdered
  <2> QED BY <2>1, <2>2 DEF IsRow
<1>7. Assembles(verdict, rows, asked.about, asked.sealing, asked.member, asked.claim, asked.holder, asked.withdrawn)
  BY <1>1, <1>2 DEF AssemblesFor
<1> HIDE DEF rows, page, same, first, under
<1>8. verdict # {} <=>
        /\ \A head \in {asked.about, asked.sealing} : \E row \in Range(page) : same(row, head)
        /\ asked.sealing.size <= asked.about.size
        /\ {CorpusLeaves[asked.member + 1], asked.claim} \subseteq under(asked.about.size)
  BY <1>3, <1>5, <1>6, <1>7 DEF Assembles, Same, same
<1>9. ASSUME NEW report \in verdict
      PROVE  \A passes \in {VerifyReport(report), PageVerifiesReport(report), ScriptVerifiesReport(report)} :
                passes <=> /\ Coherent(asked.about) /\ Coherent(asked.sealing)
                           /\ \/ asked.holder \in asked.withdrawn
                              \/ first(asked.about).revoked = asked.withdrawn
  <2> DEFINE revoked == FirstRow(rows, asked.about).revoked
             Clear == /\ Coherent(asked.about) /\ Coherent(asked.sealing)
                      /\ asked.holder \in asked.withdrawn \/ revoked = asked.withdrawn
  <2>1. AssembledIs(report, asked.about, asked.sealing, revoked, asked.holder, asked.withdrawn)
    BY <1>7 DEF Assembles
  <2>2. PassesRightly(report, asked.about.size, revoked)
    BY <2>1, ReportTold DEF AssembledIs
  <2>3. first(asked.about).revoked = revoked
    BY <1>4
  <2> HIDE DEF revoked
  <2>4. /\ VerifyReport(report) <=> Clear
        /\ PageVerifiesReport(report) <=> Clear
        /\ ScriptVerifiesReport(report) <=> Clear
    BY <2>1, <2>2 DEF AssembledIs, PassesRightly
  <2> QED BY <2>3, <2>4
<1> QED BY <1>8, <1>9 DEF AssembledReportsPass, rows, page, same, first, under

\* A report passes exactly when each of its parts is the one its anchor calls for, and
\* what the script puts together passes when the roots of its two heads are those of their
\* sizes, unless others have withdrawn their consent since
\* (report-verify.ts:252-288, verify.js:304-317, verify-report.mjs:57-117,
\* assemble-report.mjs:60-107).
THEOREM EveryReportIsExactHolds == RulesSpec => []EveryReportIsExact
<1>1. RulesInit => ReportInv /\ AssembledInv
  BY DEF RulesInit, Init, ReportInv, AssembledInv, AtWork
<1>2. ReportInv => ReportsPassWhenTrue
  <2> SUFFICES ASSUME ReportInv, Answered("report") PROVE ReportsPassWhenTrue
    BY DEF ReportsPassWhenTrue
  <2>1. verdict = "true" <=> ReportHolds(asked.report, asked.size, asked.revoked, asked.by)
    BY DEF ReportInv, Answered
  <2> QED BY <2>1
      DEF ReportsPassWhenTrue, ReportHolds, InLogHolds, InCorpusHolds, SealHolds, ConsentHolds, ClaimsHold,
          ClaimsProven, ScriptHolds, DeliveredHolds, PayloadHolds
<1>3. ReportInv /\ AssembledInv => EveryReportIsExact
  BY <1>2, AssembledPass DEF EveryReportIsExact
<1> QED BY <1>1, <1>3, ReportInvNext, AssembledInvNext, PTL DEF RulesSpec
=============================================================================
