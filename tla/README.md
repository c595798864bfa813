# Verification of the THENAR protocol

TLA+ models of the THENAR log: an append-only Merkle log of robot-data episodes
kept in SQLite, whose heads are anchored on one or more EVM chains and on top of
which corpora are sold, with the API that takes episodes in and answers about
them. The modules are translated from the sources of this
repository; `PROJECT.json` maps each definition to the lines it models, lists
what each run checks, and gives for every property a plausible bug ("mutant")
that breaks it.

    tlc -workers 2 -config Contracts.cfg MCContracts.tla    # a model-checking run
    tlapm ContractsProofs.tla                               # the proofs of a component

## 1. The system

| Component | State | Operations | Interacts with |
|---|---|---|---|
| `GraspLog.sol` | anchors, root index, anchorer role | `anchor`, role handover, proofs against an anchor | called by the anchorer; read by `LicenceRegistry`, API, buyers |
| Log store (`services/log/src/store.ts`, `tree.ts`, `schema.sql`) | SQLite tables `leaf`, `node`, `revocation`, `anchor`, `anchor_chain`, ... | `append`, `root`, proofs, `revoke`, `recordAnchorChain` | opened at once by the API, the daemon and the command line |
| Anchorer (`anchorer.ts`) | local variables across awaits | `anchorHead`, `anchorAll`, divergence check, audit | store, chains, relayer account |
| Anchor daemon (`daemon.ts`) | per chain: last success, last attempt, failure count | the loop `tick` / `shouldAnchor` | anchorer, store |
| `LicenceRegistry.sol` | terms, corpora, receipts, credits | publish/retire, seal/close, `license`, `withdraw`, stewardship | settlement token (calls back), `GraspLog` |
| Merkle and sparse proofs (`protocol/src/log.ts`, `sparse.ts`, Solidity libraries, `report-verify.ts`, `apps/web/merkle.js`) | none | build and verify proofs | everything that shows a proof |
| Corpus lifecycle (`api/src/routes/corpora.ts`) | `corpus`, `corpus_episode` | draft, log, seal parameters, on-chain scan | store, `LicenceRegistry` |
| Consent (`routes/consent.ts`) | `revocation` | status proof with onset, revoke | store, anchors |
| Uploads (`routes/uploads.ts`, `store/`) | objects on disk, upload rows in memory | declare, put | bundle store |
| Ingest and commit (`ingest/*.ts`, `routes/datasets.ts`, `jobs.ts`, `episodes.ts`) | `dataset`, `job`, `consent_salt`; job results in memory | create, ingest, commit an episode | store, bundle store, worker |
| Idempotency (`idempotency.ts`, `app.ts`) | answers in memory | `withIdempotency` around every POST | every POST |
| Claims and worker (`services/verify`) | `claim` rows | run the five checks, append claims | store, trajectory index |
| Checks (`services/verify/src/checks`, `index`) | trajectory index | timing, kinematics, sensor consistency, simulation signature, duplicates | worker |
| Chain readers (`chain.ts`, `routes/anchors.ts`) | a cache of 15 s | reads with fallback to mirrors | contracts, web pages |
| Reports (`report/build.ts`, `report-verify.ts`, `verify.js`, `verify-report.mjs`) | none | build, verify | store, chains |
| Leaves, manifests, canonical JSON, tasks (`packages/protocol`) | none | encode, decode, validate, draw | everything |
| Key registry, auth, organisations (`registry.ts`, `routes/orgs.ts`, `auth.ts`) | `org`, `api_key`, `signing_key` rows | create, issue, register, revoke, resolve a key or a header | every authenticated route, ingest, worker |
| Downloads, wallet signatures (`routes/licences.ts`, `walletSig.ts`, `store/downloadToken.ts`) | none | sign a URL for a buyer, deliver a file | receipts, bundle store |
| Proofs served (`routes/proofs.ts`, `episodes.ts`, `anchors.ts`, `scripts/lib/assemble-report.mjs`) | none | proofs of episodes, heads and consent, pages of anchors, a report made of them | log store, chains, buyers |
| Web site, scripts, operations | none | show, verify, license | API, contracts |

What is hard about it is listed under `hazards` in `PROJECT.json`, each at its
line. In short: several operating-system processes share one SQLite file;
`anchorHead` reads the store three times and the chain twice before it sends
anything, at five different moments, and the API writes in between; transactions
outlive the call that sent them; the scheduler decides from a table that can be behind the chain; the settlement token is
foreign code that runs in the middle of a sale; a request of the API is cut by
its awaits, by a write that fails and by restarts that forget what was only in
memory; answers about the chains come from a cache; and the same bytes, proofs
and texts are made and read by three implementations.

Correctness of each component:

* GraspLog: the history is append-only, sizes never shrink, a size has one root
  for ever, the root index keeps first sightings.
* Log store: a dense sequence of distinct leaves whatever the processes do; the
  node cache is the tree's complete subtrees at every commit; readers without a
  transaction still see one log.
* Anchorer: chains never say more than the store knows; the store's rows are
  anchors; leaves and revocations eventually reach the primary chain; an anchored
  revocation stays; an alarm has a cause.
* Daemon: mirrors follow the primary; delays never become starvation.
* Proofs: a verifier accepts exactly the true claims, whichever of the
  implementations it is.
* LicenceRegistry: every unit of money received is paid or owed, suppliers get
  their share, receipts name anchored corpora.
* Corpora, consent and reports: revoked members stay out, what is sealed is
  found again, answers stand against the chain.
* Intake: one leaf per manifest and one row per outcome however often a request
  is repeated, files, salts and checks that a failure cannot lose silently.
* Chain readers: an answer is true or recent; a page licenses the corpus it shows.
* Key registry: a key speaks for the organisation it was issued to, as long as it
  is in force, and what was logged under it stays verifiable.
* Downloads: a URL is made for the buyer of the receipt, for a file of its corpus,
  and ends with its time.
* Proofs served: a proof that is given out for an anchor verifies exactly when the
  anchor's root is that of its size, and a report assembled from the answers is
  accepted exactly when its anchors are such (section 4 says when they are not).
* Rules without state: what is written is read back, what is validated can be
  drawn, a text stands for one content, a verdict is about the recording.

## 2. The modules

| Module | Models | Notes |
|---|---|---|
| `Accounts` | the accounts that call the contracts | constants |
| `AnchorRule` | the tests of `GraspLog.anchor`, the appended record, the consent views | operators over a history, shared by four modules |
| `HeadLedger` | abstract: commitments (size, root), each larger than all before | |
| `GraspLog` | the contract | implements `HeadLedger` |
| `MerkleTree` | `root`, `split`, `hashNode`, `inclusionProof`, `consistencyProof` of `protocol/src/log.ts` | symbolic hashing, recursive functions |
| `LeafLog` | abstract: a growing sequence of distinct leaves | |
| `LogStore` | `append`, `cacheAppend`, `size`, `root`, crashes | implements `LeafLog` |
| `Anchoring` | `anchorHead` on several chains, the API beside it, the relayer's queue, the divergence check and the audit | |
| `AnchorDaemon` | `shouldAnchor`, `tick`, `runDaemon` | calls of `anchorHead` in two steps |
| `LicenceRegistry` | the contract with its calls to the token | |
| `Corpora` | drafts, logging, seal parameters, sealing, reports, consent answers, beside revocations and one anchorer | over `AnchorRule` |
| `Uploads` | the bundle store and the upload registry | |
| `Intake` | datasets, ingest, `POST /episodes`, the worker, claims, idempotency, restarts | composes `Uploads` |
| `ChainReads` | the cached chain reader, `GET /anchors`, the on-chain scan, the corpus page | |
| `SparseTree` | the tree of revocations and its prover, `sparse.ts` | recursive functions |
| `BuyerChecks` | `MerkleLog.sol`, `SparseMerkle.sol` loop by loop; `report-verify.ts`, `merkle.js` | |
| `ReportChecks` | the steps of `verifyReport`, of the page and of the script | over `BuyerChecks` |
| `Serving` | the proofs of `GET /proofs/inclusion` and `/proofs/consistency`, the anchor of an episode, pages of anchors, the page's check of one leaf | over `BuyerChecks` |
| `Assembly` | the report that a script assembles from the API's answers | over `ReportChecks`, `Serving` |
| `KeyRegistry` | organisations, API keys, signing keys; the gates of claims and of episodes | the one part of `Rules` with a state |
| `Downloads` | wallet signatures, download tokens, delivery of a corpus's files | |
| `Checks` | the five checks of a recording, with dynamic time warping and the trajectory index | |
| `Leaves` | the four leaf layouts: writers and readers in TypeScript, Solidity, JavaScript | |
| `Badges` | the badges of an episode and the lines of their wording | |
| `Lerobot`, `Manifests` | the readers of a LeRobot directory; payload, manifest schema, mapping to a leaf, what the worker reads of an episode again | |
| `Tasks`, `Canonical` | task validation and scene drawing; canonical JSON | |
| `Records`, `Rules` | the questions asked of all of these and what must be true of the answers | |
| `TreeProofs`, `BuyerChecksProofs` | lemmas: the tree and its provers; verifiers, served proofs and badges | TLAPS, section 5 |
| `ContractsProofs`, `LogServiceProofs`, `AnchoringProofs`, `CorporaProofs`, `IntakeProofs`, `RulesProofs` | theorems | TLAPS, section 5 |
| `MC*` | instances for TLC | |

**GraspLog.** State: `anchors`, `indexOfRoot`, `anchorer`, `pendingAnchorer`, as
in the contract (timestamps and block numbers are left out). One action per
state-changing function; a call that reverts is no step. The Merkle root is an
opaque value, the sparse revocation root is the set of keys in the tree. The
refinement maps the history to the set of its (size, root) pairs: a
revocation-only anchor is a stutter, any other anchor publishes one larger size.

**LogStore.** A process is in `append()` (`looked`, `indexed`, `begun`,
`inserted`) or in `root()` (`reading`). The duplicate test, `size()`, `BEGIN
IMMEDIATE`, the inserts, each turn of `cacheAppend`'s loop and `COMMIT` are
steps of their own; uncommitted rows are the process's own. `BEGIN` fails at
once when the lock is taken (no busy timeout is set). A node's row has the number
of leaves below it, 2^level, for its level. A reader reads the size, then the rows
that `rangeRoot` asks for, one by one (`ReadNode`, from the left); each return of
an inner call (`ReturnRange`) makes the two last hashes one, until one is left. A
process can die anywhere. Hashing is symbolic: `hashNode(l, r)` is the pair, so two hashes
are equal exactly when the trees are. The log is mapped to `LeafLog` as the
sequence of its committed leaves.

**Anchoring.** `anchorHead` is cut at its awaits and at each read of the store:
`Start` (size), `ReadCount` (with the head, which never changes), `ReadRoot`,
`ReadRevocations`, `Submit`, a chain's `MineAccepted` or `MineReverted`, `Record`,
`RecordLegacy`. It stops where the code returns or throws (`Stop`,
`SubmitRefused`). As the
store only appends and a root fixes its leaves, the root of the first n leaves
is written n. Each chain has the relayer's transactions in nonce order; a
failure (`Fail`) ends the call and leaves its transaction in the queue. `Fail`
stands for a rejected or timed-out await and for the death of the process.
`store.root()` and `revocationRoot(store)` have no await between them, but they are
two statements on a file that the API, another process, writes: they are two steps.
`anchors().length` and the insert that follows it are one, because only an anchorer
writes that table.

**AnchorDaemon.** An iteration is a walk over `Order`: the primary, then the
mirrors. `Attempt` is `shouldAnchor` and the read of the size; the call then
ends in one of `Anchored`, `NothingNew`, `Refused`, `RpcError`, each a step, so
leaves and revocations arrive between the size and the end of the call. A row is
compared by its size and its revocations only, so the root is left out and the
revocations are those of the last of the call's reads. Times are ages
relative to the iteration's `now`, saturated where no comparison changes any
more. The late execution of a transaction that a failed call left behind is in
`Anchoring` only: here a failure either mined or did not.

**LicenceRegistry.** `reg` is the storage; `stack` holds the calls that wait for
the token, each with the storage a revert returns to. While the token runs, any
account may call any function again (`Callable`). `_pay` ends in three ways:
paid, answered no (what the hooks did stands), reverted (undone). The token is
external: it moves exactly the amount asked for or nothing, and it moves it at
the end of its call, after its hooks.

The contracts share no variable, so the run `contracts` calls one of them while the
other is as deployed; its states are the sum of the two, not their product.

**Corpora.** The handlers of `routes/corpora.ts` read and write the store without
an await in between, in one process, so each is one action; `LogCorpusAndDie` is
the one place of them where a crash separates two writes. The supplier's script is
two actions, `FetchParams` and `SendSeal`: anything may happen between them.
`anchorHead` is another process: it reads the size, the root and the revocations in
three steps, and writes `anchor_chain` and `anchor` in two; a crash between any of
them (`Die`) may leave an anchor without one or both of its rows. The chain itself is
read and written by one anchorer that awaits its receipts, so what it reads of the
chain does not change during the call; the rest is in `Anchoring`. `recorded` lists
the chain index of each row of `anchor`, whose own index is dense. A manifest leaf is
its members and its second (`sealedAt`), because the
hash covers nothing else that differs between two drafts of one request; that
is why `MayLog` asks whether the leaf is already logged, as `append` does.
`FirstWithHead` is the lookup by root and size that `anchorChains` offers. A
report is a function of the state (`ReportIsBuilt` is "throws nothing"), and
`ReportsHold` is what a buyer checks afterwards. `CreateDraft` takes its members
from `Members`, a bound. What `GET /consent/:key` answers at a
recorded anchor is a function too (`ConsentAnswer`); its tree is that of now,
whichever anchor was asked for.

**Anchoring's alarms.** `Divergences` and `Audit` are what `checkDivergence` and
`auditAnchors` would return in a state. Both await a chain between two reads;
as chains and log only grow, what they answer of anchors they have read does not
depend on when they read them.

**Intake.** One process, one thread: a handler is cut where it awaits a file, a
signature or the worker, and what lies between is one action. `calls` holds what
each request knows at that point. A write can fail at once because another
process holds the lock of the log's file (`Fails`, bounded); a restart forgets
the upload rows, the job results, the kept answers and the running requests, and
keeps files and tables. `withIdempotency` is the pair `Start`, `Answer`: a key
that was answered is answered again without a step, one that is still being
answered is not known, which is the code's race. `RunCheck` is one turn of the
worker: the leaf, then the row; a failed row leaves a leaf that the next pass
completes. The salts a client got are those of `cache`; `JobResultsHold` says
which salts can be had until something fails.

**ChainReads.** A request is at a `stage` of its route; a read asks the cache
(`Hit`), else a node answers with its value of that moment (`NodeAnswers`), the
answer arrives later and is stored (`AnswerArrives`), or fails
(`ReadFails`) and the route goes on with the next chain or without the value.
Ages replace time, saturated at `Ttl + Delay`. An RPC answer that is older than
the transport's timeout does not exist. A behaviour has either heads or corpora,
because no route reads both.

**BuyerChecks.** A caller asks one question of the contract: is this leaf at this
index of that anchor, does this anchor extend that one, is this key absent from
(or present in) the revocations of that anchor. The proof it brings may be made
for another size, index or set of revocations, and may have lost its last word or
carry it twice; the earlier anchor may come from a log in which one leaf was
another. Each turn of a Solidity loop is a step (`i`, `n`, `p`, `fr`, `sr` are
the loop's variables); a revert is the answer `"reverts"`. The verifiers of
`report-verify.ts` are functions of the same question. `MerkleTree` and
`SparseTree` have the recursions that make the proofs. A question about an anchor that does not exist,
and a membership claim for the zero word, revert before any loop and are left
out. The walks
of the page (`merkle.js`) are the report verifier's, and are mapped with it.

**KeyRegistry.** The rows are those of `org`, `api_key` and `signing_key`; an
action is one statement of an administrator or one attempt to log an episode or a
claim under a key. A second is the only time there is: keys are valid from and
until one. Between the gates of a request and its append the signature is awaited,
and the key may be revoked meanwhile: `passed` holds such requests, and what is
logged keeps the second of its gates. `KeysSpeakForTheirOwners` is about rows and
about steps: what a key was worth in a second that is over never changes. The second
evaluation that `PLAN.md` plans at an episode's first anchor (I-14, D-20) is not in the
code and not in the model.

**The rules without state.** `Rules` (with `Records`, `ReportChecks`, `Assembly`,
`Downloads` and `BuyerChecks`) is a machine that is asked one question from a
small set and answers by the operators translated from the code (a behaviour
either asks or administers keys). The tables of anchors it asks about hold what the
anchorer may send, a size and the root of that log or of a larger one. The properties compare the
answer with what was asked, never with the same operator again: a recording
that was written into a directory must come back from the readers; a scene must
lie in its task; two JSON values with one text must mean the same; a leaf is
read by the readers of the other languages. Numbers of signal processing are
small integers: every comparison keeps its side and its strictness, thresholds
are constants. Where the code divides, the model multiplies both sides. A
character of `Canonical` is a UTF-16 code unit, halves of surrogate pairs among
them, and what is hashed is the text in UTF-8. In the datasets of `Records` a range
counts the rows of the recording's own data file, as the reader takes it
(`lerobot.ts:379`).

## 3. The runs

| Run | Instance | States | Shows |
|---|---|---|---|
| `contracts` | the log: 2 accounts, 2 roots, 2 keys, sizes to 3, 4 anchors; the registry: 2 accounts, 1 corpus leaf, 1 corpus, 2 receipts, call depth 2 | 2.79 million | the log's history, refinement of `HeadLedger`; money and receipts under callbacks |
| `log_store` | 2 processes, 7 leaves | 3,359 | cache, answers, readers, refinement of `LeafLog` |
| `anchoring` | 1 anchorer, 2 chains, 1 key, 3 leaves, 1 failure | 217,832 | safety, alarms and liveness of `anchorHead` |
| `anchor_daemon` | primary, 1 mirror, intervals 2 and 4, delays 1 and 3, 3 leaves, 1 failure | 164,777 | gate, backoff, liveness |
| `corpora` | 2 corpora, 2 episodes (1 revocable), 2 seconds, 1 crash | 406,331 | drafts, sealing, reports and consent answers under revocations and crashes |
| `intake` | 2 requests, 2 organisations, a dataset of 2 episodes (1 bad), 1 manifest, 2 checks, 1 failure | 2.07 million | what is logged, claimed, answered and kept |
| `chain_reads` | 2 requests, 2 chains, 2 heads or 2 corpora, cache 2 ticks, RPC 1 tick | 2.47 million | answers from cache and fallbacks |
| `rules` | 9 leaves, sparse depth 3, recordings of 3 and 5 frames, tasks of 1 or 2 objects, JSON two levels deep, 3 organisations, 2 receipts, 5 tables of anchors | 1.23 million | the rules without state, keys, downloads, assembled reports |
| `anchoring_incoherent` | 1 anchorer, 1 chain | violation | size and root of different logs |
| `daemon_starved_mirror` | as `anchor_daemon`, 2 leaves | violation | a mirror starved by one crash |
| `report_onset` | as `corpora` | violation | a report names a block before the revocation |
| `episodes_checked` | as `rules`, the question about datasets alone | violation | a logged episode whose checks see none of its rows |

Why the bounds are enough. GraspLog compares a triple with one head only; four
anchors allow two sizes with revocation-only anchors between and after them, and
a root that comes back at a larger size. Seven leaves make every shape of tree
up to three reads and an append that completes two pairs; the two processes are
enough because at most one holds the lock and every reader acts alone. In
`Anchoring` three leaves let the log grow before the call, between size and
root, and afterwards; one failure leaves one orphaned transaction. In
`AnchorDaemon` one delay is shorter than the interval and one longer, and the
pauses reach every comparison from both sides. In `LicenceRegistry` the price of
41 makes 2.5 % round, and depth 2 lets a hook sell or withdraw, and call the
token again, while a sale or a withdrawal waits for it; either account is
deployer, supplier and buyer in turn, the treasury can move to `a1` and the
stewardship to `a2`.

In `Corpora` two seconds let two drafts of one corpus make the same leaf or two
leaves, and let a request repeated after a crash be refused in the same second
and accepted in the next; one crash hits the API or the anchorer; one revocable
episode beside one that is not gives a report with live and revoked members.

In `Intake` two requests are enough for every race between two handlers; the
dataset's second episode is refused after the first was logged; one of two checks
may publish a failure; one failure is a write that fails anywhere or a restart
anywhere. In `ChainReads` two heads let a row be under a wrong index and a value
be older than another; a cache of two ticks and a call of one separate all the
ages the code compares.

In `Rules` nine leaves give every shape of tree up to four levels, full (4, 8),
one past full (5, 9) and one short of it (7), on both sides of a consistency
proof; depth three and neighbouring keys give siblings that are empty, single
leaves and subtrees. Recordings have gaps on both sides of every threshold.
Datasets have one or two data files, metadata out of order, missing files and
several cameras. Tasks have ranges that are a point, turned round, empty or
without a whole number. One organisation beside the operator's and the
verifier's, with a software and a hardware key, can be mistaken for each of them;
two seconds put a revocation before, at and after the moment of use. Two buyers
with receipts for two corpora that share one file make every wrong URL possible,
and the minutes asked for lie on both sides of the five that are allowed. Tables
of anchors have two to four rows (pages alone are read up to five) and a page at
most three; they hold one head twice, before and after a revocation, and heads whose
root is that of a log one leaf larger. JSON strings and keys hold whole and half
surrogate pairs. Of the checks that claims are about one blocks, one is enabled, one
is disabled and one is not in the configuration.

Bounds named in the modules: `MaxClock`, `MaxSeals`, `MaxCrashes`, `MaxSize`,
`MaxAnchors`, `MaxFailures`, `MaxCorpora`, `MaxReceipts`, `MaxDepth`,
`MaxDatasets`, `MaxJobs`, `MaxLeaves`, `MaxHeads`, `MaxSealed`, `MaxLogged`,
`MaxNesting`, `EndOfTime`, and `Salt`, `Members`. Real
sizes are 64-bit and never come near their limit. Deadlock is checked in every
run: no model stops, because a process, an account or a reader can always act
again. `intake` and `chain_reads` use symmetry of requests, organisations, salts
and manifests, which no property tells apart; neither checks liveness.

Each property has a mutant in `PROJECT.json`: an operator beside the mapped one,
commented "a slip used as a mutant", that breaks the property when it takes its
place.

**Fairness.** `Anchoring!FairSpec`: a chain executes what is queued; a call that
has started goes on unless it fails; and a call for the primary is started again and
again as long as its newest row, if there is one, is not the log's (strong fairness,
because a call can start only between two others). Both schedulers do that: a tick
of `runDaemon` comes to the primary first, and `shouldAnchor` has no gate for it but
its pauses, which end; `anchorAll` calls it before anything else. Nothing of the kind
is assumed, or promised, of the mirrors: the daemon's gate may refuse one for as long
as a row of the primary is missing (`EveryMirrorCatchesUp`, section 4), and
`anchorAll` throws before it comes to them when the primary fails (`anchorer.ts:209`).
What holds of them is `ChainsCatchUp` in `AnchorDaemon`, with that exception.
Failures are bounded, that is, the RPC is reachable from some moment on; appends
and revocations are never forced. `AnchorDaemon!FairDaemonSpec` only says that the
loop keeps running. `Corpora!FairSpec` says that the anchorer goes on and that a
supplier repeats the script for a logged corpus until it succeeds; nobody has to
log, to revoke or to let time pass. Safety properties assume no fairness; the
other modules state none, because nothing in the API retries on its own.

## 4. Where the code and its documentation disagree

Each of the first four is a run TLC ends with a counterexample; `findings` in
`PROJECT.json` has the quotations.

1. `AnchorsAreCoherent` (`anchorer.ts:120` and `145`): the size is read two
   awaits before the root. A leaf that arrives in between gives an anchor whose
   size its root does not describe, and GraspLog then refuses to correct it, or
   to anchor a revocation, until another leaf arrives. `HeadsCatchUp` shows that
   on the primary chain this is the only way a revocation can be held back (a mirror
   may also be kept waiting, see 2). `EveryProofIsExact` and `EveryReportIsExact`
   show what it costs: for such an anchor the API serves proofs that the contract
   rejects, and a report about it, or sealed against it, passes no verifier.
2. `EveryMirrorCatchesUp` (`anchorer.ts:172`, `daemon.ts:126`): a crash between
   the primary's anchor and its row gates the mirrors until the log changes.
   `ChainsCatchUp` shows that nothing else does.
3. `OnsetsShowRevocations` (`build.ts:160`): the block of the onset is looked up
   by root and size, which a revocation-only anchor shares with the anchor before
   it; the report then names a block in which the consent was still live.
   `ReportsHold` shows what does hold: no anchor that carries the revocation is
   older than the one named.
4. `ChecksSeeTheEpisode` (`worker.ts:74`): the worker rebuilds an episode from its
   manifest, which has the episode's number only in its range, and the range is
   null in the per-episode layout. Every episode of such a dataset is read as
   number 0; all but the first have no rows, and a failed timing claim ("no
   frames") is logged about a sound recording. `EpisodesReadBack` shows what does
   hold: no episode is ever judged by another's rows, and in the chunked layout
   each is judged by its own.

A fifth disagreement is part of a property that holds. `badges.ts:7` says that L3
requires that `no check's latest result is "fail"`, and `TASKS/TASK-021.md:21` that
`no check (blocking or not) has latest result "fail"`. `badges.ts:204` asks only the
enabled checks of the configuration, while lines 170-179 list as failed every check
that is not disabled. An episode whose failing check the configuration does not know is
therefore given L3 beside the line that says the check failed. `LatestClaimDecides`
says exactly that: the two meet for such checks and for no others.

`LoggedCorporaAreSealed` excepts `Spoiled` corpora: an incoherent anchor (1), or
one whose row was lost (2), over a corpus's leaf is chosen for its seal parameters
for ever or is never found.

Noted while modelling, in the properties' exceptions or outside them:

* Between the read of the root and that of the revocations a corpus manifest may be
  logged and one of its members revoked: that anchor then shows the member revoked
  and has a manifest after its root. `PLAN.md:205` forbids manifests that are logged
  after the anchor, and those there are not; `NoManifestAfterOnset` says both, and
  that the next anchor covers the manifest.
* A row of `anchor_chain` gets the index that `anchorCount()` has after the receipt
  (`anchorer.ts:167`), which another transaction may have moved on. `RowsAreAnchors`
  says only that some anchor of the chain is the row's; `ConfirmationsHold` that the
  API compares a row with the chain before it confirms it.
* An incoherent anchor (1) may have the root of a size that is never anchored. A
  proof made for that larger size would be accepted against it; the API makes none,
  and no property says that nobody could.
* `serializeString` passes half a surrogate pair on as it is (`canonical.ts:31-47`),
  where RFC 8785 asks for an error and JSON.stringify, which the page uses, escapes
  it. UTF-8 then writes U+FFFD: two strings that differ in such a half have one hash,
  and the page names a task with one differently. `OneTextPerContent` holds up to that.
* With two anchoring processes at once the triple composed first may be executed
  last, and a revocation is live again until the next anchor
  (`anchorer.ts:146`). `RevocationsAreFinal` therefore speaks of one anchorer.
* A mirror's first anchor, and a revocation-only anchor, pass the gate of
  `daemon.ts:121-132`, although lines 7-8 say that mirrors only anchor what the
  primary has. `MirrorsFollowPrimary` is what holds.
* `GET /consent` pairs the tree of now with any anchor and, asked about an
  older one, may name an onset that carries no revocation of the key
  (`consent.ts:85`). A revocation's receipt names the key of the path, the row is
  the record's (`consent.ts:161`); every failure of the store is answered as a
  bad signature (`consent.ts:154`).
* `Idempotency-Key` is scoped by path, not by organisation (`app.ts:233`).
* Of two claims of one second `badges.ts` takes the first and `wording.ts` the
  last (the fifth disagreement aside, `LatestClaimDecides` excepts them alone).
* The manifest schema accepts `duration_ms`, `captured_at` and `scope_bits` that
  the leaf's fields cannot hold: the request fails with an internal error and
  nothing is logged.
* Without row ranges a LeRobot video is never looked at; a camera whose file is
  missing drops the episode in one layout and not in the other. In the chunked
  layout `dataset_from_index` is taken as a row of the data file.
* An accepted task may vary in nothing when its count is [0, 0] or a range
  without a second whole number; variation in height alone is refused.
* The page that verifies an episode hashes up to the newest head
  (`verify.html:336-339`) while it asks the contract about the anchor that was
  named; an honest proof for an older anchor fails the local half, although
  `verify.js:161-166` calls both the same check. `EveryProofIsExact` compares
  them at the newest anchor.
* `assemble-report.mjs` reads one page of 500 anchors and takes the first row of
  the head, which may be older than a revocation under the same head;
  `EveryReportIsExact` promises acceptance, not the newest revocation root.
* The report library does not look at the inclusion proof of a claim; the page does.
* The page's canonical JSON turns NaN and Infinity into null where the package
  throws; such values are in no signed object.

## 5. The proofs

Six modules hold the theorems and two more the lemmas about trees, verifiers,
reports and badges. They are about every value of the constants and about behaviours of any
length; the assumptions each rests on are the named `ASSUME`s of the component's
module, which TLC evaluates in the runs. Each lays out the same argument: an
inductive invariant, a lemma per action (or per kind of step) that keeps it, and
the properties as its consequences.

`ContractsProofs` proves, of `GraspLog`, for every set of accounts, roots and
keys and every bound, from `ZeroAddressAssumption` and `BoundsAssumption`:

* `TypeCorrect`, `HeadsNeverForkHolds`, `FirstSightingHolds` (invariants),
* `AppendOnly` (`HistoryIsAppendOnly`, no step rewrites an anchor or moves a first sighting),
* `LedgerImplemented` (the refinement of `HeadLedger`).

`anchor` compares the triple with the last anchor only. `TypeOK` with
`HeadsNeverFork` is inductive: because all sizes are monotone, the last anchor
bounds every earlier one, and equality with it carries back to every anchor of
that size. The lemma `ExtendShape` says what one accepted call does to a
history, `AcceptsBounds` what acceptance says about its last entry; every step
proof rests on these two. The refinement needs `HeadsNeverFork` to show that an
equal-size anchor adds no commitment.

Of `LicenceRegistry` it proves, for any prices, payouts that fail and depth of
re-entrance, from `AddressesAreFinite` and `RegistryAssumption`:

* `RegistryTypeCorrect`, `MoneyIsAccountedForHolds`, `SuppliersAreMadeWholeHolds`,
  `ReceiptsNameAnchoredCorporaHolds` (invariants).

The balance of the registry equals what is credited only between two
transactions: inside one, calls that wait for the token hold money back, and a
revert may land in a storage that was saved long before. `RegistryInv` therefore
speaks of a storage together with the calls below it. A storage is `Sound` for the
first k waiting calls when its books balance with what those calls still have to
pay or credit (`Books`), when its receipts match corpora that the log anchors
(`Matches`), and when a call that is still collecting asks for the price of its
corpus (`Collecting`). The invariant is that the current storage is sound for all
waiting calls, that what each of them saved is sound for the calls below it (with
its own shares once `license` has collected, without them before), and that what
was left at the end of the last transaction is sound for none. The sums are the
folds of the model. `SumIsCount` shows that a fold over a finite set is the number
of the pairs it counts; how a sum changes with one term (`SumUpdate`, `SumLast`)
then follows from facts about cardinality.

`LogServiceProofs` proves, of `LogStore`, for any number of processes and any set of leaves, from
`NobodyAssumption`:

* `TypeCorrect`, `DenseAndDistinctHolds`, `AnswersAreKept` (invariants),
* `LogImplemented` (the refinement of `LeafLog`),
* `CacheIsTheTreeHolds`, `ReadersSeeOneLogHolds` (invariants about the tree).

`DenseAndDistinct` is not inductive: the index of an append is read before the
lock is taken, so it may be stale when the row is inserted. `LogInv` adds what
each caller knows where it stands (`Caller`): its index is at most the size; once
it has begun, the lock is its own; once the INSERT has passed the primary key and
`UNIQUE(leaf)`, its index is no row's and its leaf is nobody's. An index that is
at most the size and no row's is the size, which is `CommitShape`; everything
else follows from it.

The tree needs a second invariant, `TreeInv`, of three parts. `CacheInv`: the node
table has the row of every complete subtree of the committed leaves and no other,
with its hash. `WrittenInv`: the rows of a transaction that has inserted are
subtrees of the log with its leaf, each ends at that leaf, and their sizes are 1,
2, 4 and so on up to the last; when the last one is a left half no larger subtree
can end there, so COMMIT adds all that end there and the cache stays complete
(`CommitCache`). `ReadInv`: a reader's hashes are those of the left parts of the
leaves it began with, cut where `split` cuts them; what it still wants begins at a
multiple of every power of two that fits, so the row it asks for is that of a
complete subtree (`RowIsThere`); and a range's hash does not depend on the leaves
after it (`HashIsOfTheRange`), so commits in between change nothing.

The lemmas it needs about `Split` and `RangeHash`, which recurse, are in
`TreeProofs`. A power of two is a member of the smallest set that has 1 and the double of each member, so
what is closed under doubling holds of all of them. That a function with the
recursion's equations exists (`DoublingExists`, `HashesExist`) and that two such
functions agree are proved by the least counterexample.

`AnchoringProofs` proves, for any number of anchoring processes, chains and
consent keys and any bound on the log and the failures, from
`AnchoringAssumption`:

* `TypeCorrect`, `AnchorsAreEarnedHolds`, `RowsAreAnchorsHolds`,
  `DivergencesAreRealHolds` (invariants),
* `RevocationsAreFinalHolds`, which has the hypothesis that there is one anchorer
  (`Anchorer = {d}`): with two, the triple composed first may be executed last and
  take a revocation back, which the code does not prevent (`hazards`,
  `anchorer.ts:146`).

A chain writes an anchor long after its triple was composed, and a process
writes a row long after its anchor was mined. `AInv` therefore follows the
triple on its way: a triple that a process is going to send, or that a queue
holds, is one the store has earned (`Earned`); a queued transaction that
somebody waits for is that process's draft, on that chain, and it waits for
nothing else (`QueueInv`); a process that goes on to write a row has its draft on
the chain the row is about (`CallInv`). Every step only makes the store and the
chains grow (`Grown`), which keeps all three; the lemmas `CallStays`,
`QueueStays` and `QueueAdvances` say so once, and one lemma per action adds what
the action itself changes. For the revocations, `InOrder` lines up what is on a
chain, then what is queued for it, then what is composed for it: the sets of
revocations only grow along that line. A failed call leaves its transaction in
the queue, and the next call composes later, so it stays behind it.

`CorporaProofs` proves, for any corpora and episodes, any log and any crash of
the API or the anchorer, from `CorporaAssumption`:

* `CorporaTypeCorrect`, `NoManifestAfterOnsetHolds`, `SealedStaysFoundHolds`,
  `ConsentAnswersAlwaysHold`, `ReportsAlwaysHold` (invariants).

`CorporaInv` ties the tables to the chain: no leaf is logged twice
(`LogHasNoDoubles`), a logged row names the position of its own manifest
(`RowsFollowTheLog`), so a manifest belongs to one row (`OneRowPerManifest`) and
what was fetched or sealed stays that row's (`SealsAreOfRows`); an anchor is
composed of a size, a root and revocations of three moments but never of more than
the store held (`AnchorsFollowTheLog`), and the root that a call has read covers every
manifest with a member that some anchor already shows revoked (`CallFollowsTheStore`); anchors grow, with one root per size
(`AnchorsGrow`); and recorded rows are some of the anchors in the same order, as
a crash may lose some (`RecordsRise`). The answers of the routes name the *first*
row with some property, so the last two are what makes them hold later as well.

`IntakeProofs` proves, for any clients, organisations, requests, retries, lost
writes and restarts, from `IntakeAssumption` and `UploadsAssumption`:

* `IntakeTypeCorrect`, `OneLeafPerManifestHolds`, `OneRowPerOutcomeHolds`,
  `ChecksAreCompleteHolds`, `JobResultsAlwaysHold`, `RegisteredFilesAreAlwaysHeld`.

`IntakeInv` has four parts, each inductive with the first: the types
(`IntakeTypeOK`), the verifications (`ChecksInv`: claims are about leaves, one
request verifies one episode, and the episodes that nobody verifies and that miss a
check are counted against the failures), the jobs and salts (`JobsInv`), the files
(`FilesInv`: what a row promises, or a running request has seen, is on the disk).
The steps are sorted into a few kinds by what they do to the log, the
claims and one call (`Moves` for the verifications, `JobMoves` for the jobs); each
step is shown to be of a kind, and each kind to keep the invariant.

`ContractsProofs` also proves, of `ChainReads`, for any chains, mirrors, clients and times, from
`ChainReadsAssumption`:

* `ConfirmationsAlwaysHold`, `BuyersAlwaysGetWhatTheyRead` (invariants),
* `AnswersAreAlwaysRecent` (an action property).

`ReadsInv` says of every cached value and every answer on its way that it was so
within the time it can have taken (`Was`: heads and manifests stay, what a count
misses was sealed since), and of every request what it may know at its stage
(`At`). A scan goes on only as long as a corpus that was sealed long ago is among
those not read yet (`IsDue`). Of each row that is confirmed or refused the ground
is kept (`Judged`): its own chain has a head at that index. Without it a refusal
would prove nothing, for an index that is not reached yet may still be mined.

`LogServiceProofs` also proves, of `AnchorDaemon`, for any number of mirrors, delays and failures, from
`DaemonAssumption`:

* `DaemonInvHolds` (types; rows are never ahead of their chain; a mirror's call in
  progress has passed the gate of the primary's recorded size),
* `MirrorsFollowPrimaryHolds` (an action property).

A gate compares rows of the store, the property speaks of contracts; a row that
is never ahead of its contract is the step from one to the other.

`RulesProofs` proves, of the registry's own steps (`KeySpec`), for any
organisations, keys and boots, from `KeyAssumption`:

* `KeyInvHolds`, `KeysSpeakForTheirOwnersHolds` (an action property).

`TablesGrow` says all that a step may do to the three tables: rows are added, and
a key without an end gets this second as its end. A row that passed its gates
(`Backed`) names a second that is over, so no such change reaches it.

Of the rules without state (`RulesSpec`) it proves, for any log, any sparse tree,
any corpus, tables of anchors, claims and receipts:

* `ConsentIsExactHolds`, `EveryProofIsExactHolds`, `EveryReportIsExactHolds`,
  `LatestClaimDecidesHolds`, `DownloadsAreTheBuyersHolds` (invariants),
* `ProofsAreExactHolds`: the part of `EveryProofIsExact` about the verifiers alone.

They rest on `LogAssumption` (distinct leaves, none of them the hash of a node: the
0x00/0x01 prefixes, which is what keeps a node from passing for a leaf),
`SparseAssumption`, `LimitAssumption`, `AnchoredAssumption` (the heads in the
tables have sizes and roots of the log, coherent or not, sizes that never shrink and
one root for a size, which is `HeadsNeverFork` of the contract), `ClaimsAssumption` (types), for downloads
`DownloadAssumption` and `ClockAssumption`, and for reports `CorpusAssumption` (the
members are leaves of the log, and the manifest's files have a payload hash),
`TablesAssumption` (types) and `NamesAssumption`: files that are saved under one name,
`/` replaced by `_`, have one content. The code does not enforce the last one: of two
such files the second one overwrites the first, and `verify-report.mjs` refuses a
delivery that was right. The paths of LeRobot directories keep apart when no feature's
name has a slash, and only the report that `Assembly` puts together needs it.

A verifier walks up one path of a tree and reads one word of the proof per turn.
`TreeProofs` gives, for each place on a path, the words the prover puts there
(`PathAt`, `PrefixAt`). The invariants of `BuyerChecksProofs` (`InclusionAt`,
`ConsistencyAt`, `ConsentAt`) say that after any number of turns the verifier is in a
node of the tree, and that its hash is that node's exactly when the words so far
are the prover's. At the end the hash is the root, so a proof is accepted exactly
when it is the proof of what was asked; a word too few or too many is seen by the
length. Heads of two logs that differ in one leaf differ (`EqualHeads`), since a
symbolic hash determines what was hashed. The verifiers of `report-verify.ts`
recurse where the contract loops, and are shown to come to the same places. For what is served
(`InclusionIsServed`, `ConsistencyIsServed`, `EpisodesNameTheFirst`) the answers are the
prover's proofs for the size that was asked for, so the same lemmas say that they are
accepted when the anchor's root is that of its size (`Coherent`), and never when it is
another log's; `TurnsRead` follows
a reader of the pages from page to page. `LastDecides` says that `badges.ts`, which takes
the first of the latest claims, and `wording.ts`, which takes the last, find the
same claim when no check has two of one second; `LastWordDecides` follows it into
badges, failures and lines.

For a whole report `IsReport` says what may be wrong with it (any proof made of the
log's own hashes, any claim, listing or seal) and `ReportHolds` what it says when it is
true; `ReportTold` shows, step by step of `verifyReport`, that the three verifiers pass
it exactly then. The loops of `sparse.ts` and `merkle.js` are shown to fold as the
contract's (`FoldsToTheRoot`), and a payload hash to tell one set of files from
another whatever the order they are listed in (`FilesAreTold`); for that the sorted
list is stated by rank, the k-th file having k - 1 before it. `GenuineIs` and
`DamagedAre` show that every report that is asked about is an `IsReport`.
`AssembledRightly` follows the script's requests: the rows of one page, the proofs
that are served, and the consent of today, which folds to the anchored root
exactly when nothing was revoked since, because equal proofs of one live key are
proofs of equal trees (`ProofsTellRevocations`). When one of its anchors is not
coherent, an inclusion proof fails, and with it the report.

Induction over data is not available as a rule; where a proof needs it (folds,
the first row with a property, the last anchor below a size), it takes the least
counterexample of a well-founded order (`WFMin` of `WellFoundedInduction`).

The type invariants, `HistoryIsAppendOnly`, `DenseAndDistinct`, `DaemonInv` and
`KeyInv` are proved and in no run of their own; the refinements that the runs
check imply the second and the third.

Only model-checked, and why:

* liveness (`HeadsCatchUp`, `ChainsCatchUp`, `LoggedCorporaAreSealed`): the prover
  reasons neither about fairness nor about `ENABLED`;
* `WrittenIsReadBack`, `OneTextPerContent`, `ScenesFollowTheTask`, `DuplicatesAreFound`
  and `VerdictsAreOfTheRecording`: they compare what folds, sorts and recursions over data
  compute (readers of directories, canonical texts, draws, time warping) on the inputs
  the run lists, and what such a definition computes for every input takes an
  induction over data the prover has no rule for.

## 6. Plan

Every part of the protocol that keeps state is modelled, and every safety property
of a part that keeps state is proved, as are those of proofs, reports, badges and
downloads. What is left for the prover are the rules that fold over data (section 5).

Not modelled, and why:

* takedowns and the lists of `GET /licences`: single reads or single writes
  without a second actor; `api_key.revoked_at` is read but nothing writes it;
* the S3 form of the bundle store (the local form is modelled) and the parsing of
  command lines (`license.mjs`, `cli.ts`);
* the daemon's lag alarm (which also rings on a quiet log), metrics and webhooks:
  they change nothing;
* Ed25519, keccak and P-256, of which the symbolic hash is the specification;
* `scene.js`, `jcs.js` and `wording.js`, line-by-line copies of `sampler.ts`,
  `canonical.ts` and `wording.ts`; tables of robots (`embodiments.*`); HTML and PDF rendering;
* replaced or dropped transactions and chain reorganisations (the code waits for
  one receipt and knows neither); a store restored from an older copy;
* that the payload of a report is the one in its leaf: none of the three
  verifiers compares them (PLAN.md section 10.10, step 3, asks for it), and
  `EveryReportIsExact` promises no more than they do.
