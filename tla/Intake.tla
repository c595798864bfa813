------------------------------- MODULE Intake -------------------------------
(***************************************************************************)
(* From an upload to a verified episode, in the one process of the API:    *)
(* datasets, the ingest job and POST /episodes, the commit path they       *)
(* share, the verification worker that each commit waits for, claims of    *)
(* other verifiers, and the Idempotency-Key that replays an answer.        *)
(*                                                                         *)
(* A request is cut where it awaits (a file, a signature, the worker); what *)
(* lies between two awaits is one step, because the process is one thread. *)
(* Another process (the daemon, the command line) may hold the write lock  *)
(* of the log's file: any write can then fail at once.                     *)
(***************************************************************************)
EXTENDS Uploads, Sequences

CONSTANTS
    Refs,        \* episodes that readDataset finds in a dataset
    BadRefs,     \* those whose manifest does not pass validateManifest
    Salt,        \* what freshSalt can draw (a bound)
    Manifest,    \* signed manifests that POST /episodes can be given
    Checks,      \* CHECKS of worker.ts: a sequence of [name, emitFail]
    Outcome,     \* what a check can find
    Key,         \* Idempotency-Keys, NoKey for a request without one
    NoKey,
    MaxDatasets, MaxJobs, MaxLeaves, MaxFailures

ASSUME IntakeAssumption ==
    /\ Refs \in Nat /\ MaxFailures \in Nat
    /\ Checks \in Seq([name: STRING, emitFail: BOOLEAN]) /\ Checks # <<>>
    /\ \A i, j \in DOMAIN Checks : Checks[i].name = Checks[j].name => i = j

VARIABLES
    log,       \* the leaves, episodes and claims
    claims,    \* the claim table: for each row the index of its leaf and its outcome
    datasets,  \* the dataset table
    jobs,      \* the job table
    salts,     \* the consent_salt table
    cache,     \* jobResultCache: the results, with their salts, in memory
    answers,   \* MemoryIdempotencyStore
    failures   \* writes that failed and restarts, so far

durable == <<log, claims, datasets, jobs, salts>>
vars == <<uploadVars, calls, durable, cache, answers, failures>>

File == Content  \* every dataset and manifest of the model names all of them

-----------------------------------------------------------------------------
(* withIdempotency, around every POST                                      *)

\* A key that was answered is answered again (or refused, for another body)
\* without a step; one whose first request still runs is not known yet.
\* Keys of two routes are two keys; those of two organisations are one.
Scoped(path, key) == IF key = NoKey THEN NoKey ELSE <<path, key>>
Start(c, call) ==
    /\ calls[c] = Idle
    /\ call.key \notin DOMAIN answers
    /\ Put(c, call)

\* The handler's answer, success or error, is kept and sent.
Answer(c, reply) ==
    LET call == calls[c] IN
    /\ Done(c)
    /\ answers' = IF call.key = NoKey THEN answers
                  ELSE Upsert(answers, call.key, [body |-> call.body, reply |-> reply])

Fails == failures < MaxFailures /\ failures' = failures + 1
Works == UNCHANGED failures

-----------------------------------------------------------------------------
(* Datasets and jobs                                                       *)

(* The store's tables. *)

InsertDataset(org) == datasets' = Append(datasets, org)
InsertJob(job)     == jobs' = Append(jobs, job)

\* claimSalt answers whether the salt was never used before; it is used now.
ClaimSalt(salt) == salts' = salts \cup {salt}
Fresh(salt)     == salt \notin salts

RecordClaim(leaf, claim) == claims' = Upsert(claims, leaf, claim)
ClaimsFor(subject) == {i \in DOMAIN claims : claims[i].about = subject}

\* POST /datasets, once the registry has answered for every file.
CreateDataset(c) ==
    /\ calls[c] = Idle
    /\ Len(datasets) < MaxDatasets
    /\ \E org \in Org :
           /\ \A f \in File : Usable(org, f)
           /\ InsertDataset(org)
    /\ UNCHANGED <<uploadVars, calls, log, claims, jobs, salts, cache, answers, failures>>

\* POST /datasets/{id}/ingest by the dataset's own organisation: the files are
\* copied out of the bundle store and read (I/O, one step with the start).
StartIngest(c) ==
    /\ \E d \in DOMAIN datasets, key \in Key \cup {NoKey} :
           /\ File \subseteq bundle
           /\ Start(c, [op |-> "ingest", key |-> Scoped(<<"ingest", d>>, key), body |-> <<>>,
                        at |-> "commit", org |-> datasets[d], ds |-> d, next |-> 1,
                        done |-> <<>>, leaf |-> 0, check |-> 1])
    /\ UNCHANGED <<uploadVars, durable, cache, answers, failures>>

\* An episode of a job is named by its dataset, its number and the salt in its
\* consent commitment; one of POST /episodes by its manifest.
Episode(org, manifest) == [kind |-> "episode", org |-> org, manifest |-> manifest]
Logged(org, manifest) == \E i \in DOMAIN log : log[i] = Episode(org, manifest)

\* commitEpisode up to its append: the receipt's size is read in the same step.
Committed(org, manifest) == ~Logged(org, manifest) /\ log' = Append(log, Episode(org, manifest))
Result(salt) == [leaf |-> Len(log) + 1, size |-> Len(log'), salt |-> salt]

NextRef(call) == [call EXCEPT !.next = @ + 1]
Verify(call, leaf) == [call EXCEPT !.at = "verify", !.leaf = leaf, !.check = 1]

\* One turn of commitEpisodesFromRefs up to its first await. An error is noted
\* for the reference and the loop goes on; the salt stays claimed.
CommitRef(c) ==
    LET call == calls[c]
        ref  == call.next IN
    /\ call.op = "ingest" /\ call.at = "commit" /\ ref <= Refs
    /\ Len(log) < MaxLeaves
    /\ \E salt \in Salt :
           \/ /\ ~Fresh(salt) \/ ref \in BadRefs
              /\ ClaimSalt(salt)
              /\ Put(c, NextRef(call)) /\ Works
              /\ UNCHANGED log
           \/ /\ Fresh(salt) /\ ref \notin BadRefs
              /\ ClaimSalt(salt)
              /\ \/ /\ Committed(call.org, <<call.ds, ref, salt>>)
                    /\ Put(c, Verify([call EXCEPT !.done = Append(@, Result(salt))], Len(log')))
                    /\ Works
                 \/ /\ UNCHANGED log
                    /\ Put(c, NextRef(call)) /\ Fails
    /\ UNCHANGED <<uploadVars, claims, datasets, jobs, cache, answers>>

\* A slip used as a mutant: the result is cached for the organisation only when
\* every reference went through.
FinishIngestCachingSuccess(c) ==
    LET call == calls[c] IN
    /\ call.op = "ingest" /\ call.at = "commit" /\ call.next > Refs
    /\ Len(jobs) < MaxJobs
    /\ InsertJob([ds |-> call.ds, leaves |-> [i \in DOMAIN call.done |-> call.done[i].leaf]])
    /\ cache' = IF Len(call.done) < Refs THEN cache ELSE Upsert(cache, Len(jobs'), call.done)
    /\ Answer(c, <<"job", Len(jobs')>>) /\ Works
    /\ UNCHANGED <<uploadVars, log, claims, datasets, salts>>

\* The job's row, without the salts, then the cache that holds them. The row
\* can fail like every write; then nobody is told the job's number.
FinishIngest(c) ==
    LET call == calls[c] IN
    /\ call.op = "ingest" /\ call.at = "commit" /\ call.next > Refs
    /\ \/ /\ Len(jobs) < MaxJobs
          /\ InsertJob([ds |-> call.ds, leaves |-> [i \in DOMAIN call.done |-> call.done[i].leaf]])
          /\ cache' = Upsert(cache, Len(jobs'), call.done)
          /\ Answer(c, <<"job", Len(jobs')>>) /\ Works
       \/ /\ UNCHANGED <<jobs, cache>>
          /\ Answer(c, <<"internal">>) /\ Fails
    /\ UNCHANGED <<uploadVars, log, claims, datasets, salts>>

-----------------------------------------------------------------------------
(* POST /episodes                                                          *)

\* Organisation, signing key and signature are checked; the signature is awaited.
StartEpisode(c) ==
    /\ \E org \in Org, m \in Manifest, key \in Key \cup {NoKey} :
           Start(c, [op |-> "episode", key |-> Scoped(<<"episodes">>, key), body |-> m,
                     at |-> "commit", org |-> org, manifest |-> m, leaf |-> 0, check |-> 1])
    /\ UNCHANGED <<uploadVars, durable, cache, answers, failures>>

\* A slip used as a mutant: no look for the manifest's hash.
CommitEpisodeAgain(c) ==
    LET call == calls[c] IN
    /\ call.op = "episode" /\ call.at = "commit" /\ Len(log) < MaxLeaves
    /\ \A f \in File : Usable(call.org, f)
    /\ log' = Append(log, Episode(call.org, call.manifest))
    /\ Put(c, Verify(call, Len(log'))) /\ Works
    /\ UNCHANGED <<uploadVars, claims, datasets, jobs, salts, cache, answers>>

\* 422 for a file that is not the organisation's, 409 for a manifest that is
\* logged already, 500 when the write fails; else the worker is awaited.
CommitEpisode(c) ==
    LET call == calls[c] IN
    /\ call.op = "episode" /\ call.at = "commit" /\ Len(log) < MaxLeaves
    /\ IF \E f \in File : ~Usable(call.org, f)
       THEN Answer(c, <<"unprocessable">>) /\ UNCHANGED log /\ Works
       ELSE IF Logged(call.org, call.manifest)
       THEN Answer(c, <<"conflict">>) /\ UNCHANGED log /\ Works
       ELSE \/ /\ Committed(call.org, call.manifest)
               /\ Put(c, Verify(call, Len(log'))) /\ Works
               /\ UNCHANGED answers
            \/ /\ UNCHANGED log
               /\ Answer(c, <<"internal">>) /\ Fails
    /\ UNCHANGED <<uploadVars, claims, datasets, jobs, salts, cache>>

-----------------------------------------------------------------------------
(* The worker and the claims                                               *)

\* issueClaim: a failure of a check that may not fail is inconclusive.
Issued(check, outcome) ==
    IF outcome = "fail" /\ ~check.emitFail
    THEN [check |-> check.name, result |-> "inconclusive", detail |-> "downgraded"]
    ELSE [check |-> check.name, result |-> outcome, detail |-> "measured"]

ClaimOf(leaf, by, issued) == [about |-> leaf, by |-> by, check |-> issued.check,
                              result |-> issued.result, detail |-> issued.detail]
RowOf(claim) == {i \in ClaimsFor(claim.about) : claims[i] = claim}
ClaimLeaf(claim, at) == [kind |-> "claim", claim |-> claim, at |-> at]

\* appendClaim's two writes: the leaf, then the row. The second may fail alone.
LeafAndRow(claim, at) ==
    /\ log' = Append(log, ClaimLeaf(claim, at))
    /\ RecordClaim(Len(log'), claim)
LeafAlone(claim, at) == log' = Append(log, ClaimLeaf(claim, at)) /\ UNCHANGED claims

\* Where the request goes on once the worker is through, or has thrown: the
\* commit swallows what the worker throws.
Verified(c) ==
    IF calls[c].op = "ingest"
    THEN /\ Put(c, [NextRef(calls[c]) EXCEPT !.at = "commit", !.leaf = 0, !.check = 1])
         /\ UNCHANGED answers
    ELSE Answer(c, <<"logged", calls[c].leaf>>)

\* A slip used as a mutant: an episode that cannot be read is not claimed about.
RunCheckOrSkip(c) ==
    LET call == calls[c] IN
    /\ call.op \in {"ingest", "episode"} /\ call.at = "verify"
    /\ call.check <= Len(Checks) /\ Len(log) < MaxLeaves
    /\ \/ \E outcome \in Outcome :
              LeafAndRow(ClaimOf(call.leaf, "thenar", Issued(Checks[call.check], outcome)), 0)
       \/ UNCHANGED <<log, claims>>
    /\ Put(c, [call EXCEPT !.check = @ + 1]) /\ Works /\ UNCHANGED answers
    /\ UNCHANGED <<uploadVars, datasets, jobs, salts, cache>>

\* One claim for each check, each signed (an await) and appended. Files that
\* cannot be read make every check inconclusive. A write that fails ends the
\* worker: the remaining checks are never run.
RunCheck(c) ==
    LET call == calls[c] IN
    /\ call.op \in {"ingest", "episode"} /\ call.at = "verify"
    /\ call.check <= Len(Checks) /\ Len(log) < MaxLeaves
    /\ \E outcome \in Outcome :
           LET claim == ClaimOf(call.leaf, "thenar", Issued(Checks[call.check], outcome)) IN
           \/ /\ LeafAndRow(claim, 0)
              /\ Put(c, [call EXCEPT !.check = @ + 1]) /\ Works /\ UNCHANGED answers
           \/ /\ LeafAlone(claim, 0) \/ UNCHANGED <<log, claims>>
              /\ Verified(c) /\ Fails
    /\ UNCHANGED <<uploadVars, datasets, jobs, salts, cache>>

FinishChecks(c) ==
    /\ calls[c].op \in {"ingest", "episode"} /\ calls[c].at = "verify"
    /\ calls[c].check > Len(Checks)
    /\ Verified(c)
    /\ UNCHANGED <<uploadVars, durable, cache, failures>>

\* POST /claims of another verifier, whose signature is awaited. It may repeat
\* what was claimed before, with the old or a new issued_at. It speaks of the
\* first leaf, which is an episode (a bound).
StartClaim(c) ==
    /\ \E leaf \in {1} \cap DOMAIN log, at \in 1 .. 2 :
           /\ Start(c, [op |-> "claim", key |-> NoKey, body |-> <<>>, at |-> at,
                        claim |-> ClaimOf(leaf, "other",
                                          [check |-> Checks[1].name, result |-> "pass",
                                           detail |-> "measured"])])
    /\ UNCHANGED <<uploadVars, durable, cache, answers, failures>>

\* A slip used as a mutant: no look for the same outcome.
AppendClaimAgain(c) ==
    LET call == calls[c] IN
    /\ call.op = "claim" /\ Len(log) < MaxLeaves
    /\ \A i \in DOMAIN log : log[i] # ClaimLeaf(call.claim, call.at)
    /\ LeafAndRow(call.claim, call.at)
    /\ Answer(c, <<"claim", Len(log')>>) /\ Works
    /\ UNCHANGED <<uploadVars, datasets, jobs, salts, cache>>

\* The leaf of an outcome that has a row is returned; a leaf that is in the log
\* without a row is refused by append.
AppendClaim(c) ==
    LET call == calls[c] IN
    /\ call.op = "claim" /\ Len(log) < MaxLeaves
    /\ \/ \E i \in RowOf(call.claim) :
              Answer(c, <<"claim", i>>) /\ UNCHANGED <<log, claims>> /\ Works
       \/ /\ RowOf(call.claim) = {}
          /\ \E i \in DOMAIN log : log[i] = ClaimLeaf(call.claim, call.at)
          /\ Answer(c, <<"internal">>) /\ UNCHANGED <<log, claims>> /\ Works
       \/ /\ RowOf(call.claim) = {}
          /\ \A i \in DOMAIN log : log[i] # ClaimLeaf(call.claim, call.at)
          /\ \/ LeafAndRow(call.claim, call.at) /\ Answer(c, <<"claim", Len(log')>>) /\ Works
             \/ LeafAlone(call.claim, call.at) /\ Answer(c, <<"internal">>) /\ Fails
    /\ UNCHANGED <<uploadVars, datasets, jobs, salts, cache>>

-----------------------------------------------------------------------------
\* GET /jobs/{id} answers from the cache, or that the result is no longer here.
GetJob == UNCHANGED vars

\* What is in memory is gone; requests that were running are never answered.
Restart ==
    /\ Fails
    /\ UploadRestart
    /\ calls' = [c \in Client |-> Idle]
    /\ cache' = <<>> /\ answers' = <<>>
    /\ UNCHANGED durable

Init ==
    /\ UploadInit
    /\ calls = [c \in Client |-> Idle]
    /\ log = <<>> /\ claims = <<>> /\ datasets = <<>> /\ jobs = <<>> /\ salts = {}
    /\ cache = <<>> /\ answers = <<>> /\ failures = 0

Next ==
    \/ \E c \in Client :
           \/ Uploading(c) /\ UNCHANGED <<durable, cache, answers, failures>>
           \/ CreateDataset(c)
           \/ StartIngest(c) \/ CommitRef(c) \/ FinishIngest(c)
           \/ StartEpisode(c) \/ CommitEpisode(c)
           \/ RunCheck(c) \/ FinishChecks(c)
           \/ StartClaim(c) \/ AppendClaim(c)
    \/ GetJob
    \/ Restart

Spec == Init /\ [][Next]_vars

-----------------------------------------------------------------------------
Episodes == {i \in DOMAIN log : log[i].kind = "episode"}
Ingested == {i \in Episodes : log[i].manifest \notin Manifest}
Held(salt) ==
    \/ \E j \in DOMAIN cache : \E k \in DOMAIN cache[j] : cache[j][k].salt = salt
    \/ \E c \in Client : /\ calls[c].op = "ingest"
                        /\ \E k \in DOMAIN calls[c].done : calls[c].done[k].salt = salt

\* An organisation's manifest is one leaf for ever, however often it is sent,
\* at once or again after a failure or a restart (commit.ts:68-74).
OneLeafPerManifest ==
    \A i, j \in Episodes : log[i] = log[j] => i = j

\* What GET /jobs tells of a job is what was logged, receipts included, and
\* what the job's row keeps; and until something fails the organisation can
\* get every salt of its ingested episodes, without which it can never show
\* their consent (job.ts:119-166, datasets.ts:83-104).
JobResultsHold ==
    /\ \A j \in DOMAIN cache :
           /\ jobs[j].leaves = [k \in DOMAIN cache[j] |-> cache[j][k].leaf]
           /\ \A k \in DOMAIN cache[j] :
                  LET result == cache[j][k] IN
                  /\ result.size = result.leaf
                  /\ \E ref \in 1 .. Refs :
                         log[result.leaf] = Episode(datasets[jobs[j].ds],
                                                    <<jobs[j].ds, ref, result.salt>>)
    /\ failures = 0 => \A i \in Ingested : Held(log[i].manifest[3])

\* Every episode whose commit is over has a claim of every check, on which the
\* badges' "checks run" depends, except those a failed write or a restart hit:
\* one for a write, at most one for each request for a restart
\* (worker.ts:19-24, commit.ts:94-100).
Checked(i) ==
    \A k \in DOMAIN Checks :
        \E r \in DOMAIN claims : /\ claims[r].about = i /\ claims[r].by = "thenar"
                                /\ claims[r].check = Checks[k].name
Verifying(i) == \E c \in Client : /\ calls[c].op \in {"ingest", "episode"}
                                  /\ calls[c].at = "verify" /\ calls[c].leaf = i
ChecksAreComplete ==
    Cardinality({i \in Episodes : ~Verifying(i) /\ ~Checked(i)})
        <= failures * Cardinality(Client)

\* A verifier's outcome about an episode has one row, whose leaf is that very
\* claim, whatever was repeated or re-issued (issue.ts:22-26); THENAR's own
\* checks never publish a failure they are configured not to.
OneRowPerOutcome ==
    /\ \A i, j \in DOMAIN claims : claims[i] = claims[j] => i = j
    /\ \A i \in DOMAIN claims : log[i].kind = "claim" /\ log[i].claim = claims[i]
    /\ \A i \in DOMAIN claims, k \in DOMAIN Checks :
           claims[i].by = "thenar" /\ claims[i].check = Checks[k].name
               /\ ~Checks[k].emitFail => claims[i].result # "fail"

\* Whatever is marked stored, registered in a dataset or logged can be read
\* from the bundle store, also after restarts (uploads.ts:83-91).
RegisteredFilesAreHeld ==
    /\ \A h \in DOMAIN rows : rows[h].status = "stored" => h \in bundle
    /\ datasets # <<>> \/ Episodes # {} => File \subseteq bundle
=============================================================================
