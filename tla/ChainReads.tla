----------------------------- MODULE ChainReads -----------------------------
(***************************************************************************)
(* services/api/src/chain.ts and what is read through it: ViemChainReader  *)
(* with its cache of CACHE_TTL_MS, GET /anchors (routes/anchors.ts),       *)
(* GET /corpora/{id}/onchain (routes/corpora.ts), and the page that sells  *)
(* a corpus from that answer (apps/web/corpus.js).                         *)
(*                                                                         *)
(* Time is kept as ages, so it never ends.  An entry of the cache is as    *)
(* old as the moment it was stored, but a node had computed its value up   *)
(* to Delay earlier (the timeout of the RPC transport), while other        *)
(* requests asked for the same key and stored what they were told.         *)
(*                                                                         *)
(* Heads are numbered in the order of the log.  Chains only append         *)
(* (GraspLog); a sealed corpus keeps everything but whether it is open     *)
(* (LicenceRegistry).  Indexes are counted from 1.                         *)
(***************************************************************************)
EXTENDS Integers, Sequences, SequencesExt

CONSTANTS
    Client,
    GraspOrder,    \* the chains, primary first, then mirrors by id
    SoldManifest,
    Nothing,       \* no value, no request
    Ttl,           \* CACHE_TTL_MS
    Delay,         \* the longest an RPC call may take
    MaxHeads,      \* bound on the heads, in a behaviour without corpora
    MaxSealed     \* bound on the corpora, in a behaviour without heads

ASSUME ChainReadsAssumption ==
    /\ GraspOrder \in Seq(Range(GraspOrder)) /\ GraspOrder # <<>>
    /\ Ttl \in Nat \ {0} /\ Delay \in Nat
    /\ MaxHeads \in Nat /\ MaxSealed \in Nat

VARIABLES
    log,       \* per chain, the heads its GraspLog carries
    rows,      \* table anchor_chain: {[chain, index, head]}
    anchorTable,   \* table anchor, in insertion order
    sealed,    \* the primary's LicenceRegistry, in sealing order
    cache,     \* ReadCache: key -> [value, age]
    call       \* per client, its request, then what its page offers

readVars == <<log, rows, anchorTable, sealed, cache, call>>
contracts == <<log, rows, anchorTable, sealed>>

Chain   == Range(GraspOrder)
Primary == Head(GraspOrder)
Place(c) == CHOOSE i \in DOMAIN GraspOrder : GraspOrder[i] = c

\* How old an answer from the cache can be, and ages beyond it as one.
Grace == Ttl + Delay
Older(age) == IF age > Grace THEN age ELSE age + 1

\* Of a request: its stage in the route, the key it reads, what a node said and
\* how long ago, and what the route knows so far.
Idle == [stage |-> "idle", key |-> Nothing, told |-> Nothing, known |-> Nothing]

ReadsInit ==
    /\ log = [c \in Chain |-> <<>>]
    /\ rows = {}
    /\ anchorTable = <<>>
    /\ sealed = <<>>
    /\ cache = [k \in {} |-> Nothing]
    /\ call = [p \in Client |-> Idle]

-----------------------------------------------------------------------------
(* The chains, the anchorer and time. *)

\* anchorHead: a head is mined, and its row is written in a later step with
\* the index that anchorCount has by then; a crash in between loses the row.
Mine(c) ==
    /\ sealed = <<>>
    /\ \E h \in 1 .. MaxHeads :
          /\ \A i \in DOMAIN log[c] : log[c][i] < h
          /\ log' = [log EXCEPT ![c] = Append(@, h)]
    /\ UNCHANGED <<rows, anchorTable, sealed, cache, call>>

RecordAnchor(c) ==
    /\ \E h \in Range(log[c]) :
          LET row == [chain |-> c, index |-> Len(log[c]), head |-> h]
          IN  /\ IF c = Primary THEN ~Contains(anchorTable, h)
                               ELSE ~\E r \in rows : r.chain = c /\ r.head = h
              /\ rows' = {r \in rows : r.chain # c \/ r.index # row.index} \cup {row}
              /\ anchorTable' = IF c = Primary THEN Append(anchorTable, h) ELSE anchorTable
    /\ UNCHANGED <<log, sealed, cache, call>>

\* sealCorpus and setOpen, with the age of the latest of them, and whether the
\* seal is older than an answer can be.  A bound: the registry does not change
\* again before its last change is that old.
Settled == \A i \in DOMAIN sealed : sealed[i].age > Grace

Seal(m) ==
    /\ Settled /\ Len(sealed) < MaxSealed /\ \A c \in Chain : log[c] = <<>>
    /\ sealed' = Append(sealed, [manifest |-> m, open |-> TRUE, age |-> 0, old |-> FALSE])
    /\ UNCHANGED <<log, rows, anchorTable, cache, call>>

SetOpen(i) ==
    /\ Settled
    /\ sealed' = [sealed EXCEPT ![i].open = ~@, ![i].age = 0]
    /\ UNCHANGED <<log, rows, anchorTable, cache, call>>

\* No RPC call outlives its timeout.  An entry whose time is over is as good as
\* absent: get() deletes it when it meets it.
Tick ==
    /\ \A p \in Client : call[p].told # Nothing => call[p].told.age < Delay
    /\ call' = [p \in Client |-> IF call[p].told = Nothing THEN call[p]
                                 ELSE [call[p] EXCEPT !.told.age = @ + 1]]
    /\ cache' = [k \in {x \in DOMAIN cache : cache[x].age + 1 < Ttl} |->
                   [cache[k] EXCEPT !.age = @ + 1]]
    /\ sealed' = [i \in DOMAIN sealed |->
                    [sealed[i] EXCEPT !.age = Older(@), !.old = @ \/ sealed[i].age >= Grace]]
    /\ UNCHANGED <<log, rows, anchorTable>>

-----------------------------------------------------------------------------
(* What the routes do with r, the outcome of their read; Nothing stands for  *)
(* { unreachable: true }.                                                    *)

AnchorRead(c, i) == [chain |-> c, get |-> "anchorAt", at |-> i]
CorpusRead(i)    == [chain |-> Primary, get |-> "corpusAt", at |-> i]
CorpusCount  == [chain |-> Primary, get |-> "corpusCount", at |-> 0]

GoOn(p, stage, key, known) ==
    call' = [call EXCEPT ![p] = [stage |-> stage, key |-> key, told |-> Nothing, known |-> known]]
Reply(p, stage, known) == GoOn(p, stage, Nothing, known)

\* GET /corpora/{id}/onchain: corpusCount, then corpusAt until one matches.
\* "due": the registry has had it for longer than an answer can be old.
AskOnchain(p, m) ==
    GoOn(p, "count", CorpusCount,
         [m |-> m, count |-> 0, unread |-> FALSE,
          due |-> \E i \in DOMAIN sealed : sealed[i].manifest = m /\ sealed[i].old])

NotSealed(p, known) == Reply(p, "notSealed", [known EXCEPT !.count = 0])

AfterCount(p, r) ==
    /\ call[p].stage = "count"
    /\ LET known == call[p].known
       IN  IF r = Nothing THEN Reply(p, "unreachable", Nothing)
           ELSE IF r = 0 THEN NotSealed(p, known)
           ELSE GoOn(p, "scan", CorpusRead(1), [known EXCEPT !.count = r])

\* the first whose manifest matches; one that cannot be read is passed over
AfterCorpus(p, r) ==
    /\ call[p].stage = "scan"
    /\ LET known == [call[p].known EXCEPT !.unread = @ \/ r = Nothing]
           i == call[p].key.at
       IN  IF r # Nothing /\ r.manifest = known.m
             THEN Reply(p, "sealed", [m |-> known.m, id |-> i, corpus |-> r])
           ELSE IF i = known.count THEN NotSealed(p, known)
           ELSE GoOn(p, "scan", CorpusRead(i + 1), known)

\* GET /anchors, one anchor of table anchor.  A bound: one such request at a
\* time; what chains carry at an index never changes.
AskAnchor(p, j) ==
    GoOn(p, "prevRoot", AnchorRead(Primary, j),
         [head |-> anchorTable[j], todo |-> {}, confirmed |-> {}, refused |-> {}])

\* the rows that are left, ORDER BY chain_id
NextRow(p, known) ==
    IF known.todo = {} THEN Reply(p, "anchor", known)
    ELSE LET row == CHOOSE x \in known.todo : \A y \in known.todo : Place(x.chain) <= Place(y.chain)
         IN  GoOn(p, "row", AnchorRead(row.chain, row.index), known)

\* withGraspFallback: the next chain, until one answers.  It gives prev_root
\* only; then anchorChains is read.
AfterPrevRoot(p, r) ==
    /\ call[p].stage = "prevRoot"
    /\ LET key == call[p].key
           known == call[p].known
       IN  IF r = Nothing /\ key.chain # Last(GraspOrder)
             THEN GoOn(p, "prevRoot", AnchorRead(GraspOrder[Place(key.chain) + 1], key.at), known)
             ELSE NextRow(p, [known EXCEPT !.todo = {x \in rows : x.head = known.head}])

\* anchorAtOnChain: is the chain's anchor at this index the row's?
AfterRow(p, r) ==
    /\ call[p].stage = "row"
    /\ LET known == call[p].known
           key == call[p].key
           row == CHOOSE x \in known.todo : x.chain = key.chain /\ x.index = key.at
           left == [known EXCEPT !.todo = @ \ {row}]
       IN  NextRow(p, IF r = Nothing THEN left
                      ELSE IF r = known.head THEN [left EXCEPT !.confirmed = @ \cup {row}]
                      ELSE [left EXCEPT !.refused = @ \cup {row}])

Continue(p, r) == AfterCount(p, r) \/ AfterCorpus(p, r) \/ AfterPrevRoot(p, r) \/ AfterRow(p, r)

-----------------------------------------------------------------------------
(* ViemChainReader *)

\* what a node of the chain says now; Nothing when the call reverts
Truth(k) ==
    CASE k.get = "anchorAt" /\ k.at \in DOMAIN log[k.chain] -> log[k.chain][k.at]
      [] k.get = "corpusCount" -> Len(sealed)
      [] k.get = "corpusAt" /\ k.at \in DOMAIN sealed ->
            [manifest |-> sealed[k.at].manifest, open |-> sealed[k.at].open]
      [] OTHER -> Nothing

\* Slips used as mutants: the key forgets the chain, or the arguments.
KeyOfAnyChain(k) == [k EXCEPT !.chain = Primary]
KeyOfAnyArgs(k)  == [k EXCEPT !.at = 0]

\* cacheKey: chain, call and arguments
CacheKey(k) == k

Cached(p) == CacheKey(call[p].key) \in DOMAIN cache
Reading(p) == call[p].key # Nothing

\* A slip used as a mutant: a hit makes the entry fresh again.
HitAndRenew(p) ==
    /\ Reading(p) /\ call[p].told = Nothing /\ Cached(p)
    /\ Continue(p, cache[CacheKey(call[p].key)].value)
    /\ cache' = [cache EXCEPT ![CacheKey(call[p].key)].age = 0]
    /\ UNCHANGED <<contracts>>

\* cachedRead, when the cache has it
Hit(p) ==
    /\ Reading(p) /\ call[p].told = Nothing /\ Cached(p)
    /\ Continue(p, cache[CacheKey(call[p].key)].value)
    /\ UNCHANGED <<contracts, cache>>

\* cachedRead, when it has not: a node computes the value,
NodeAnswers(p) ==
    /\ Reading(p) /\ call[p].told = Nothing /\ ~Cached(p)
    /\ Truth(call[p].key) # Nothing
    /\ call' = [call EXCEPT ![p].told = [value |-> Truth(call[p].key), age |-> 0]]
    /\ UNCHANGED <<contracts, cache>>

\* and the cache is stamped with the moment at which it arrives,
AnswerArrives(p) ==
    /\ call[p].told # Nothing
    /\ LET value == call[p].told.value
           key == CacheKey(call[p].key)
       IN  /\ cache' = [k \in DOMAIN cache \cup {key} |->
                          IF k = key THEN [value |-> value, age |-> 0] ELSE cache[k]]
           /\ Continue(p, value)
    /\ UNCHANGED <<contracts>>

\* or it does not arrive, or the call reverts: nothing is cached.
ReadFails(p) ==
    /\ Reading(p) /\ (call[p].told # Nothing \/ ~Cached(p))
    /\ Continue(p, Nothing)
    /\ UNCHANGED <<contracts, cache>>

-----------------------------------------------------------------------------
(* The clients *)

AskApi(p) ==
    /\ call[p] = Idle
    /\ \/ \E m \in SoldManifest : AskOnchain(p, m)
       \/ /\ \A q \in Client : call[q] = Idle
          /\ \E j \in DOMAIN anchorTable : AskAnchor(p, j)
    /\ UNCHANGED <<contracts, cache>>

\* loadCorpus with an id the log service does not know, or when it cannot be
\* reached: a number is read from the chain itself.
LoadFromChain(p, i) ==
    /\ call[p] = Idle
    /\ Reply(p, "sealed", [m |-> sealed[i].manifest, id |-> i, corpus |-> Truth(CorpusRead(i))])
    /\ UNCHANGED <<contracts, cache>>

\* License with wallet.  renderDetail offers it for whatever the answer has on
\* chain, open or not; the contract refuses license(id) of a closed corpus.
LicenseWithWallet(p) ==
    /\ call[p].stage = "sealed"
    /\ sealed[call[p].known.id].open
    /\ Reply(p, "licensed", [m |-> call[p].known.m, got |-> sealed[call[p].known.id].manifest])
    /\ UNCHANGED <<contracts, cache>>

\* the client is done with an answer, or never got it
Leave(p) ==
    /\ call[p] # Idle /\ call[p].key = Nothing
    /\ call' = [call EXCEPT ![p] = Idle]
    /\ UNCHANGED <<contracts, cache>>

ReadsNext ==
    \/ \E c \in Chain : Mine(c) \/ RecordAnchor(c)
    \/ \E m \in SoldManifest : Seal(m)
    \/ \E i \in DOMAIN sealed : SetOpen(i)
    \/ Tick
    \/ \E p \in Client : \/ AskApi(p) \/ Hit(p) \/ NodeAnswers(p) \/ AnswerArrives(p)
                         \/ ReadFails(p) \/ LicenseWithWallet(p) \/ Leave(p)
                         \/ \E i \in DOMAIN sealed : LoadFromChain(p, i)

ReadsSpec == ReadsInit /\ [][ReadsNext]_readVars

-----------------------------------------------------------------------------
(* Properties *)

\* GET /anchors never says of a chain what is not so: a row is confirmed only
\* if that chain carries that head at that index, and refused only if it does
\* not, although the answer may come from the cache, was asked for by another
\* request, or concerns a row that was recorded under a wrong index.
ConfirmationsHold ==
    \A p \in Client : call[p].stage = "anchor" =>
        LET Says(r) == r.index \in DOMAIN log[r.chain] /\ log[r.chain][r.index] = call[p].known.head
        IN  /\ \A r \in call[p].known.confirmed : Says(r)
            /\ \A r \in call[p].known.refused : ~Says(r)

\* What GET /corpora/{id}/onchain answers was so within the last Ttl + Delay:
\* a corpus that was sealed before is found unless one could not be read, and
\* one is shown open or closed as it is or as it was until a moment ago.
AnswersAreRecent ==
    [][\A p \in Client :
         /\ call'[p].stage = "notSealed" => ~call'[p].known.due \/ call'[p].known.unread
         /\ (call[p].stage # "sealed" /\ call'[p].stage = "sealed") =>
               LET answer == call'[p].known
               IN  \/ answer.corpus.open = sealed[answer.id].open
                   \/ sealed[answer.id].age <= Grace]_readVars

\* A buyer gets the corpus whose page was opened: whatever the cache answered,
\* the id that the page licenses is that of the manifest it was asked for.
BuyersGetWhatTheyRead ==
    \A p \in Client :
        /\ call[p].stage = "sealed" => sealed[call[p].known.id].manifest = call[p].known.m
        /\ call[p].stage = "licensed" => call[p].known.got = call[p].known.m
=============================================================================
