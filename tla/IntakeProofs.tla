---------------------------- MODULE IntakeProofs ----------------------------
(***************************************************************************)
(* Theorems about Intake, for any number of requests in flight, datasets,  *)
(* jobs, leaves, checks, failed writes and restarts.                       *)
(*                                                                         *)
(* IntakeInv, the inductive invariant, is the types and three parts, each  *)
(* proved from a short list of the kinds of steps there are.  ChecksInv:   *)
(* every row of the claims table is of a leaf, a request that verifies has *)
(* claimed the checks before its next one and no other, and no two         *)
(* requests verify the same episode; so a check is claimed once, and an    *)
(* episode that no request verifies has all its checks unless a failure    *)
(* was counted.  JobsInv: what a running or finished job says it logged is *)
(* in the log for an episode of its dataset, and until something fails     *)
(* every salt of an ingested episode is held by a request or the cache.    *)
(* FilesInv: what a request saw on the disk is still there, so that a row  *)
(* marked on that ground is right.                                         *)
(***************************************************************************)
EXTENDS Intake, FiniteSetTheorems, SequenceTheorems, TLAPS

-----------------------------------------------------------------------------
(* What the tables and the requests hold *)

Paths   == {<<"episodes">>} \cup {<<"ingest", d>> : d \in Nat}
Keys    == {NoKey} \cup (Paths \X Key)
Results == [leaf: Nat, size: Nat, salt: Salt]
Claims  == [about: Nat, by: {"thenar", "other"}, check: STRING,
            result: Outcome \cup {"pass", "inconclusive"}, detail: {"measured", "downgraded"}]
Others  == {claim \in Claims : claim.by = "other"}

UploadCalls  == [op: {"declare", "put", "stored"}, org: Org, file: Content, found: BOOLEAN]
IngestCalls  == [op: {"ingest"}, key: Keys, body: {<<>>}, at: {"commit", "verify"}, org: Org,
                 ds: Nat, next: Nat \ {0}, done: Seq(Results), leaf: Nat, check: Nat \ {0}]
EpisodeCalls == [op: {"episode"}, key: Keys, body: Manifest, at: {"commit", "verify"}, org: Org,
                 manifest: Manifest, leaf: Nat, check: Nat \ {0}]
ClaimCalls   == [op: {"claim"}, key: {NoKey}, body: {<<>>}, at: Nat, claim: Others]
Calls == {Idle} \cup UploadCalls \cup IngestCalls \cup EpisodeCalls \cup ClaimCalls

EpisodeLeaves == [kind: {"episode"}, org: Org, manifest: Manifest \cup (Nat \X Nat \X Salt)]
ClaimLeaves   == [kind: {"claim"}, claim: Claims, at: Nat]
LogLeaves     == EpisodeLeaves \cup ClaimLeaves
Rows          == [org: Org \cup {Nobody}, status: {"pending", "stored"}]
Jobs          == [ds: Nat, leaves: Seq(Nat)]

IsTable(table, K, V) == DOMAIN table \subseteq K /\ \A k \in DOMAIN table : table[k] \in V

IntakeTypeOK ==
    /\ bundle \subseteq Content
    /\ IsTable(rows, Content, Rows)
    /\ calls \in [Client -> Calls]
    /\ log \in Seq(LogLeaves)
    /\ IsTable(claims, 1 .. Len(log), Claims)
    /\ datasets \in Seq(Org)
    /\ jobs \in Seq(Jobs)
    /\ salts \subseteq Salt
    /\ IsTable(cache, 1 .. Len(jobs), Seq(Results))
    /\ failures \in 0 .. MaxFailures

\* The worker has at least one check, each with a name.
LEMMA CheckTypes ==
    /\ Len(Checks) \in Nat \ {0} /\ DOMAIN Checks = 1 .. Len(Checks)
    /\ \A k \in 1 .. Len(Checks) : Checks[k].name \in STRING
    /\ Checks[1].name \in STRING
<1> DEFINE C == [name: STRING, emitFail: BOOLEAN]
<1>1. Checks \in Seq(C) /\ Checks # <<>>
  BY IntakeAssumption
<1>2. \A check \in C : check.name \in STRING
  OBVIOUS
<1> HIDE DEF C
<1>3. Len(Checks) \in Nat \ {0} /\ DOMAIN Checks = 1 .. Len(Checks)
  BY <1>1
<1>4. \A k \in 1 .. Len(Checks) : Checks[k] \in C
  BY <1>1
<1> QED BY <1>2, <1>3, <1>4

\* A request is of the kind its op says.
LEMMA CallIs ==
    ASSUME IntakeTypeOK, NEW c \in Client
    PROVE  /\ calls[c] \in Calls
           /\ calls[c].op \in {"declare", "put", "stored"} => calls[c] \in UploadCalls
           /\ calls[c].op = "ingest" => calls[c] \in IngestCalls
           /\ calls[c].op = "episode" => calls[c] \in EpisodeCalls
           /\ calls[c].op = "claim" => calls[c] \in ClaimCalls
           /\ calls[c].op = "none" => calls[c] = Idle
BY DEF IntakeTypeOK, Calls, Idle, UploadCalls, IngestCalls, EpisodeCalls, ClaimCalls

\* A table after Upsert.
LEMMA UpsertIs ==
    ASSUME NEW table, NEW key, NEW value
    PROVE  /\ DOMAIN Upsert(table, key, value) = DOMAIN table \cup {key}
           /\ Upsert(table, key, value)[key] = value
           /\ \A k \in DOMAIN table : k # key => Upsert(table, key, value)[k] = table[k]
BY DEF Upsert

\* Upsert of a key and a value of the table keeps the types of the table.
LEMMA UpsertType ==
    ASSUME NEW K, NEW V, NEW table, IsTable(table, K, V), NEW key \in K, NEW value \in V
    PROVE  IsTable(Upsert(table, key, value), K, V)
BY DEF Upsert, IsTable

\* What the registry makes of its rows.
LEMMA RowsType ==
    ASSUME NEW r, IsTable(r, Content, Rows), NEW h \in Content, NEW org \in Org
    PROVE  /\ IsTable(WithPending(r, h, org), Content, Rows)
           /\ IsTable(WithStored(r, h), Content, Rows)
<1>1. [org |-> org, status |-> "pending"] \in Rows
  BY DEF Rows
<1>2. [org |-> IF h \in DOMAIN r THEN r[h].org ELSE Nobody, status |-> "stored"] \in Rows
  BY DEF Rows, IsTable
<1>3. IsTable(WithPending(r, h, org), Content, Rows)
  BY <1>1, UpsertType DEF WithPending
<1>4. IsTable(WithStored(r, h), Content, Rows)
  BY <1>2, UpsertType DEF WithStored
<1> QED BY <1>3, <1>4

\* Put changes one request.
LEMMA PutIs ==
    ASSUME IntakeTypeOK, NEW c \in Client, NEW call, Put(c, call)
    PROVE  /\ calls'[c] = call
           /\ \A d \in Client : d # c => calls'[d] = calls[d]
           /\ call \in Calls => calls' \in [Client -> Calls]
BY DEF Put, IntakeTypeOK

Tables == <<log, claims, datasets, jobs, salts, cache, failures>>

\* The steps of an upload.
LEMMA UploadingType ==
    ASSUME IntakeTypeOK, NEW c \in Client, Uploading(c), UNCHANGED Tables
    PROVE  IntakeTypeOK'
<1>1. UNCHANGED <<log, claims, datasets, jobs, salts, cache, failures>>
  BY DEF Tables
<1>2. IsTable(rows, Content, Rows)
  BY DEF IntakeTypeOK
<1>3. CASE PostUpload(c) \/ PutUpload(c)
  <2>1. PICK call \in UploadCalls : Put(c, call)
    <3>1. ASSUME NEW org \in Org, NEW h \in Content, NEW op \in {"declare", "put"}
          PROVE  [op |-> op, org |-> org, file |-> h, found |-> h \in bundle] \in UploadCalls
      BY DEF UploadCalls
    <3> QED BY <1>3, <3>1 DEF PostUpload, PutUpload
  <2>2. UNCHANGED <<bundle, rows>>
    BY <1>3 DEF PostUpload, PutUpload, uploadVars
  <2>3. calls' \in [Client -> Calls]
    BY <2>1, PutIs DEF Calls
  <2> QED BY <1>1, <2>2, <2>3 DEF IntakeTypeOK
<1>4. CASE AnswerPost(c)
  <2>1. calls[c] \in UploadCalls
    BY <1>4, CallIs DEF AnswerPost
  <2>2. calls[c].file \in Content /\ calls[c].org \in Org
    BY <2>1 DEF UploadCalls
  <2> DEFINE declared == WithPending(rows, calls[c].file, calls[c].org)
  <2>3. IsTable(declared, Content, Rows)
    BY <1>2, <2>2, RowsType
  <2>4. rows' \in {declared, WithStored(declared, calls[c].file)} /\ bundle' = bundle
    BY <1>4 DEF AnswerPost
  <2>5. Put(c, Idle)
    BY <1>4 DEF AnswerPost, Done
  <2> HIDE DEF declared
  <2>6. IsTable(rows', Content, Rows)
    BY <2>2, <2>3, <2>4, RowsType
  <2>7. calls' \in [Client -> Calls]
    BY <2>5, PutIs DEF Calls
  <2> QED BY <1>1, <2>4, <2>6, <2>7 DEF IntakeTypeOK
<1>5. CASE Stream(c)
  <2>1. calls[c] \in UploadCalls
    BY <1>5, CallIs DEF Stream
  <2>2. /\ calls[c].file \in Content
        /\ [calls[c] EXCEPT !.op = "stored"] \in UploadCalls
    BY <2>1 DEF UploadCalls
  <2>3. /\ bundle' \subseteq Content /\ rows' = rows
        /\ \/ Put(c, [calls[c] EXCEPT !.op = "stored"])
           \/ Put(c, Idle)
    BY <1>5, <2>2 DEF Stream, Done, IntakeTypeOK
  <2>4. calls' \in [Client -> Calls]
    BY <2>2, <2>3, PutIs DEF Calls
  <2> QED BY <1>1, <2>3, <2>4 DEF IntakeTypeOK
<1>6. CASE AnswerPut(c)
  <2>1. calls[c] \in UploadCalls
    BY <1>6, CallIs DEF AnswerPut
  <2>2. calls[c].file \in Content /\ calls[c].org \in Org
    BY <2>1 DEF UploadCalls
  <2> DEFINE declared == WithPending(rows, calls[c].file, calls[c].org)
  <2>3. IsTable(declared, Content, Rows)
    BY <1>2, <2>2, RowsType
  <2>4. /\ rows' \in {WithStored(rows, calls[c].file), WithStored(declared, calls[c].file)}
        /\ bundle' = bundle
    BY <1>6 DEF AnswerPut
  <2>5. Put(c, Idle)
    BY <1>6 DEF AnswerPut, Done
  <2> HIDE DEF declared
  <2>6. IsTable(rows', Content, Rows)
    BY <1>2, <2>2, <2>3, <2>4, RowsType
  <2>7. calls' \in [Client -> Calls]
    BY <2>5, PutIs DEF Calls
  <2> QED BY <1>1, <2>4, <2>6, <2>7 DEF IntakeTypeOK
<1> QED BY <1>3, <1>4, <1>5, <1>6 DEF Uploading

\* The log after an append.
LEMMA AppendLeaf ==
    ASSUME IntakeTypeOK, NEW leaf \in LogLeaves, log' = Append(log, leaf)
    PROVE  /\ log' \in Seq(LogLeaves)
           /\ Len(log) \in Nat /\ Len(log') = Len(log) + 1
           /\ DOMAIN log = 1 .. Len(log)
           /\ DOMAIN log' = DOMAIN log \cup {Len(log) + 1}
           /\ Len(log) + 1 \notin DOMAIN log
           /\ \A i \in DOMAIN log : log'[i] = log[i]
           /\ log'[Len(log) + 1] = leaf
           /\ IsTable(claims, 1 .. Len(log'), Claims)
<1>1. log \in Seq(LogLeaves) /\ Len(log) \in Nat /\ DOMAIN log = 1 .. Len(log)
  BY DEF IntakeTypeOK
<1>2. /\ log' \in Seq(LogLeaves) /\ Len(log') = Len(log) + 1
      /\ \A i \in 1 .. Len(log) : log'[i] = log[i]
      /\ log'[Len(log) + 1] = leaf
      /\ DOMAIN log' = 1 .. Len(log')
  BY <1>1
<1>3. /\ 1 .. Len(log) \subseteq 1 .. Len(log')
      /\ 1 .. Len(log') = 1 .. Len(log) \cup {Len(log) + 1}
      /\ Len(log) + 1 \notin 1 .. Len(log)
  BY <1>1, <1>2
<1>4. IsTable(claims, 1 .. Len(log'), Claims)
  BY <1>3 DEF IntakeTypeOK, IsTable
<1> QED BY <1>1, <1>2, <1>3, <1>4

\* The leaves a request appends.
LEMMA LeafTypes ==
    /\ \A org \in Org, m \in Manifest \cup (Nat \X Nat \X Salt) : Episode(org, m) \in LogLeaves
    /\ \A claim \in Claims, at \in Nat : ClaimLeaf(claim, at) \in LogLeaves
BY DEF Episode, ClaimLeaf, LogLeaves, EpisodeLeaves, ClaimLeaves

\* What becomes of a request of an ingest job or of POST /episodes.
LEMMA CallSteps ==
    /\ \A call \in IngestCalls :
          /\ NextRef(call) \in IngestCalls
          /\ [NextRef(call) EXCEPT !.at = "commit", !.leaf = 0, !.check = 1] \in IngestCalls
          /\ \A r \in Results : [call EXCEPT !.done = Append(@, r)] \in IngestCalls
          /\ \A n \in Nat : Verify(call, n) \in IngestCalls
          /\ [call EXCEPT !.check = @ + 1] \in IngestCalls
    /\ \A call \in EpisodeCalls :
          /\ \A n \in Nat : Verify(call, n) \in EpisodeCalls
          /\ [call EXCEPT !.check = @ + 1] \in EpisodeCalls
<1>0. 1 \in Nat \ {0}
  OBVIOUS
<1>1. ASSUME NEW call \in IngestCalls
      PROVE  /\ NextRef(call) \in IngestCalls
             /\ [NextRef(call) EXCEPT !.at = "commit", !.leaf = 0, !.check = 1] \in IngestCalls
             /\ \A r \in Results : [call EXCEPT !.done = Append(@, r)] \in IngestCalls
             /\ \A n \in Nat : Verify(call, n) \in IngestCalls
             /\ [call EXCEPT !.check = @ + 1] \in IngestCalls
  <2>1. \A r \in Results : Append(call.done, r) \in Seq(Results)
    BY DEF IngestCalls
  <2>2. \A r \in Results : [call EXCEPT !.done = Append(@, r)] \in IngestCalls
    BY <2>1 DEF IngestCalls
  <2>3. NextRef(call) \in IngestCalls
    BY DEF NextRef, IngestCalls
  <2>4. [NextRef(call) EXCEPT !.at = "commit", !.leaf = 0, !.check = 1] \in IngestCalls
    BY <1>0, <2>3 DEF IngestCalls
  <2>5. \A n \in Nat : Verify(call, n) \in IngestCalls
    BY <1>0 DEF Verify, IngestCalls
  <2>6. [call EXCEPT !.check = @ + 1] \in IngestCalls
    BY DEF IngestCalls
  <2> QED BY <2>2, <2>3, <2>4, <2>5, <2>6
<1>2. ASSUME NEW call \in EpisodeCalls
      PROVE  /\ \A n \in Nat : Verify(call, n) \in EpisodeCalls
             /\ [call EXCEPT !.check = @ + 1] \in EpisodeCalls
  <2>0. [call EXCEPT !.at = "verify"] \in EpisodeCalls
    BY DEF EpisodeCalls
  <2>1. ASSUME NEW n \in Nat PROVE Verify(call, n) \in EpisodeCalls
    BY <1>0, <2>0 DEF Verify, EpisodeCalls
  <2>2. call.check + 1 \in Nat \ {0}
    BY DEF EpisodeCalls
  <2>3. [call EXCEPT !.check = @ + 1] \in EpisodeCalls
    BY <2>2 DEF EpisodeCalls
  <2> QED BY <2>1, <2>3
<1> QED BY <1>1, <1>2

\* A write that failed is counted.
LEMMA FailuresType ==
    ASSUME IntakeTypeOK, Works \/ Fails
    PROVE  failures' \in 0 .. MaxFailures
BY IntakeAssumption DEF IntakeTypeOK, Works, Fails

\* A request that comes in.
LEMMA StartType ==
    ASSUME IntakeTypeOK, NEW c \in Client, StartIngest(c) \/ StartEpisode(c) \/ StartClaim(c)
    PROVE  IntakeTypeOK'
<1>1. UNCHANGED <<bundle, rows, log, claims, datasets, jobs, salts, cache, failures>>
  BY DEF StartIngest, StartEpisode, StartClaim, uploadVars, durable
<1>2. \E call \in Calls : Put(c, call)
  <2>1. CASE StartIngest(c)
    <3>1. PICK d \in DOMAIN datasets, key \in Key \cup {NoKey} :
              Put(c, [op |-> "ingest", key |-> Scoped(<<"ingest", d>>, key), body |-> <<>>,
                      at |-> "commit", org |-> datasets[d], ds |-> d, next |-> 1,
                      done |-> <<>>, leaf |-> 0, check |-> 1])
      BY <2>1, Zenon DEF StartIngest, Start
    <3>2. d \in Nat /\ datasets[d] \in Org
      BY DEF IntakeTypeOK
    <3>3. Scoped(<<"ingest", d>>, key) \in Keys
      BY <3>2 DEF Scoped, Keys, Paths
    <3> DEFINE call == [op |-> "ingest", key |-> Scoped(<<"ingest", d>>, key), body |-> <<>>,
                        at |-> "commit", org |-> datasets[d], ds |-> d, next |-> 1,
                        done |-> <<>>, leaf |-> 0, check |-> 1]
    <3>4. call \in IngestCalls
      BY <3>2, <3>3 DEF IngestCalls
    <3> QED BY <3>1, <3>4 DEF Calls
  <2>2. CASE StartEpisode(c)
    <3>1. PICK org \in Org, m \in Manifest, key \in Key \cup {NoKey} :
              Put(c, [op |-> "episode", key |-> Scoped(<<"episodes">>, key), body |-> m,
                      at |-> "commit", org |-> org, manifest |-> m, leaf |-> 0, check |-> 1])
      BY <2>2, Zenon DEF StartEpisode, Start
    <3>2. Scoped(<<"episodes">>, key) \in Keys
      BY DEF Scoped, Keys, Paths
    <3>3. [op |-> "episode", key |-> Scoped(<<"episodes">>, key), body |-> m,
           at |-> "commit", org |-> org, manifest |-> m, leaf |-> 0, check |-> 1] \in EpisodeCalls
      BY <3>2 DEF EpisodeCalls
    <3> QED BY <3>1, <3>3 DEF Calls
  <2>3. CASE StartClaim(c)
    <3>1. PICK leaf \in {1} \cap DOMAIN log, at \in 1 .. 2 :
              Put(c, [op |-> "claim", key |-> NoKey, body |-> <<>>, at |-> at,
                      claim |-> ClaimOf(leaf, "other",
                                        [check |-> Checks[1].name, result |-> "pass",
                                         detail |-> "measured"])])
      BY <2>3, Zenon DEF StartClaim, Start
    <3>2. Checks[1].name \in STRING
      BY CheckTypes
    <3>3. ClaimOf(leaf, "other", [check |-> Checks[1].name, result |-> "pass",
                                  detail |-> "measured"]) \in Others
      BY <3>2 DEF ClaimOf, Others, Claims
    <3>4. [op |-> "claim", key |-> NoKey, body |-> <<>>, at |-> at,
           claim |-> ClaimOf(leaf, "other", [check |-> Checks[1].name, result |-> "pass",
                                             detail |-> "measured"])] \in ClaimCalls
      BY <3>3 DEF ClaimCalls
    <3> QED BY <3>1, <3>4 DEF Calls
  <2> QED BY <2>1, <2>2, <2>3
<1>3. calls' \in [Client -> Calls]
  BY <1>2, PutIs
<1> QED BY <1>1, <1>3 DEF IntakeTypeOK

\* A new dataset.
LEMMA CreateDatasetType ==
    ASSUME IntakeTypeOK, NEW c \in Client, CreateDataset(c)
    PROVE  IntakeTypeOK'
<1>1. datasets' \in Seq(Org)
  BY DEF CreateDataset, InsertDataset, IntakeTypeOK
<1>2. UNCHANGED <<bundle, rows, calls, log, claims, jobs, salts, cache, failures>>
  BY DEF CreateDataset, uploadVars
<1> QED BY <1>1, <1>2 DEF IntakeTypeOK

\* One turn of the ingest job.
LEMMA CommitRefType ==
    ASSUME IntakeTypeOK, NEW c \in Client, CommitRef(c)
    PROVE  IntakeTypeOK'
<1>1. UNCHANGED <<bundle, rows, claims, datasets, jobs, cache>>
  BY DEF CommitRef, uploadVars
<1>2. calls[c] \in IngestCalls
  BY CallIs DEF CommitRef
<1>3. PICK salt \in Salt :
          /\ ClaimSalt(salt)
          /\ \/ Put(c, NextRef(calls[c])) /\ UNCHANGED log
             \/ /\ log' = Append(log, Episode(calls[c].org, <<calls[c].ds, calls[c].next, salt>>))
                /\ Put(c, Verify([calls[c] EXCEPT !.done = Append(@, Result(salt))], Len(log')))
  BY DEF CommitRef, Committed
<1>4. failures' \in 0 .. MaxFailures
  BY FailuresType DEF CommitRef
<1>5. salts' \subseteq Salt
  BY <1>3 DEF ClaimSalt, IntakeTypeOK
<1>6. CASE Put(c, NextRef(calls[c])) /\ UNCHANGED log
  <2>1. calls' \in [Client -> Calls]
    BY <1>2, <1>6, CallSteps, PutIs DEF Calls
  <2> QED BY <1>1, <1>4, <1>5, <1>6, <2>1 DEF IntakeTypeOK
<1>7. CASE /\ log' = Append(log, Episode(calls[c].org, <<calls[c].ds, calls[c].next, salt>>))
           /\ Put(c, Verify([calls[c] EXCEPT !.done = Append(@, Result(salt))], Len(log')))
  <2>1. Episode(calls[c].org, <<calls[c].ds, calls[c].next, salt>>) \in LogLeaves
    <3>1. calls[c].org \in Org /\ calls[c].ds \in Nat /\ calls[c].next \in Nat
      BY <1>2 DEF IngestCalls
    <3>2. <<calls[c].ds, calls[c].next, salt>> \in Nat \X Nat \X Salt
      BY <3>1
    <3> QED BY <3>1, <3>2, LeafTypes
  <2>2. /\ log' \in Seq(LogLeaves) /\ IsTable(claims, 1 .. Len(log'), Claims)
        /\ Len(log) + 1 \in Nat /\ Len(log') \in Nat
    BY <1>7, <2>1, AppendLeaf
  <2>3. Result(salt) \in Results
    BY <2>2 DEF Result, Results
  <2>4. calls' \in [Client -> Calls]
    <3>1. [calls[c] EXCEPT !.done = Append(@, Result(salt))] \in IngestCalls
      BY <1>2, <2>3, CallSteps
    <3>2. Verify([calls[c] EXCEPT !.done = Append(@, Result(salt))], Len(log')) \in IngestCalls
      BY <2>2, <3>1, CallSteps
    <3> QED BY <1>7, <3>2, PutIs DEF Calls
  <2> QED BY <1>1, <1>4, <1>5, <2>2, <2>4 DEF IntakeTypeOK
<1> QED BY <1>3, <1>6, <1>7

\* The job's row and its result.
LEMMA FinishIngestType ==
    ASSUME IntakeTypeOK, NEW c \in Client, FinishIngest(c)
    PROVE  IntakeTypeOK'
<1>1. UNCHANGED <<bundle, rows, log, claims, datasets, salts>>
  BY DEF FinishIngest, uploadVars
<1>2. calls[c] \in IngestCalls
  BY CallIs DEF FinishIngest
<1>3. calls[c].done \in Seq(Results) /\ calls[c].ds \in Nat
  BY <1>2 DEF IngestCalls
<1>4. failures' \in 0 .. MaxFailures
  BY FailuresType DEF FinishIngest
<1>5. Put(c, Idle)
  BY DEF FinishIngest, Answer, Done
<1>6. calls' \in [Client -> Calls]
  BY <1>5, PutIs DEF Calls
<1>7. jobs' \in Seq(Jobs) /\ IsTable(cache', 1 .. Len(jobs'), Seq(Results))
  <2>1. CASE UNCHANGED <<jobs, cache>>
    BY <2>1 DEF IntakeTypeOK
  <2> DEFINE job == [ds |-> calls[c].ds, 
                     leaves |-> [i \in DOMAIN calls[c].done |-> calls[c].done[i].leaf]]
  <2>2. CASE jobs' = Append(jobs, job) /\ cache' = Upsert(cache, Len(jobs'), calls[c].done)
    <3>1. job \in Jobs
      <4>1. \A i \in 1 .. Len(calls[c].done) : calls[c].done[i].leaf \in Nat
        <5>1. \A i \in 1 .. Len(calls[c].done) : calls[c].done[i] \in Results
          BY <1>3
        <5> QED BY <5>1 DEF Results
      <4>2. job.leaves \in Seq(Nat)
        BY <1>3, <4>1
      <4> QED BY <1>3, <4>2 DEF Jobs
    <3>2. jobs \in Seq(Jobs) /\ IsTable(cache, 1 .. Len(jobs), Seq(Results)) /\ Len(jobs) \in Nat
      BY DEF IntakeTypeOK
    <3> HIDE DEF job
    <3>3. jobs' \in Seq(Jobs) /\ Len(jobs') = Len(jobs) + 1
      BY <2>2, <3>1, <3>2
    <3>4. IsTable(cache, 1 .. Len(jobs'), Seq(Results)) /\ Len(jobs') \in 1 .. Len(jobs')
      BY <3>2, <3>3 DEF IsTable
    <3> QED BY <2>2, <3>3, <3>4, <1>3, UpsertType
  <2> QED BY <2>1, <2>2 DEF FinishIngest, InsertJob
<1> QED BY <1>1, <1>4, <1>6, <1>7 DEF IntakeTypeOK

\* The commit of POST /episodes.
LEMMA CommitEpisodeType ==
    ASSUME IntakeTypeOK, NEW c \in Client, CommitEpisode(c)
    PROVE  IntakeTypeOK'
<1>1. UNCHANGED <<bundle, rows, claims, datasets, jobs, salts, cache>>
  BY DEF CommitEpisode, uploadVars
<1>2. calls[c] \in EpisodeCalls
  BY CallIs DEF CommitEpisode
<1>3. failures' \in 0 .. MaxFailures
  BY FailuresType DEF CommitEpisode
<1>4. CASE Put(c, Idle) /\ UNCHANGED log
  <2>1. calls' \in [Client -> Calls]
    BY <1>4, PutIs DEF Calls
  <2> QED BY <1>1, <1>3, <1>4, <2>1 DEF IntakeTypeOK
<1>5. CASE /\ log' = Append(log, Episode(calls[c].org, calls[c].manifest))
           /\ Put(c, Verify(calls[c], Len(log')))
  <2>1. Episode(calls[c].org, calls[c].manifest) \in LogLeaves
    BY <1>2, LeafTypes DEF EpisodeCalls
  <2>2. log' \in Seq(LogLeaves) /\ IsTable(claims, 1 .. Len(log'), Claims) /\ Len(log') \in Nat
    BY <1>5, <2>1, AppendLeaf
  <2>3. calls' \in [Client -> Calls]
    BY <1>2, <1>5, <2>2, CallSteps, PutIs DEF Calls
  <2> QED BY <1>1, <1>3, <2>2, <2>3 DEF IntakeTypeOK
<1> QED BY <1>4, <1>5 DEF CommitEpisode, Answer, Done, Committed

\* A request that is being verified goes on or is over.
LEMMA VerifiedType ==
    ASSUME IntakeTypeOK, NEW c \in Client, calls[c].op \in {"ingest", "episode"}, Verified(c)
    PROVE  /\ calls' \in [Client -> Calls]
           /\ \A d \in Client : d # c => calls'[d] = calls[d]
           /\ \/ calls'[c] = Idle
              \/ /\ calls[c].op = "ingest" /\ calls[c] \in IngestCalls
                 /\ calls'[c] = [NextRef(calls[c]) EXCEPT !.at = "commit", !.leaf = 0, !.check = 1]
<1>1. CASE Put(c, Idle)
  BY <1>1, PutIs DEF Calls
<1>2. CASE /\ calls[c].op = "ingest"
           /\ Put(c, [NextRef(calls[c]) EXCEPT !.at = "commit", !.leaf = 0, !.check = 1])
  <2>1. calls[c] \in IngestCalls
    BY <1>2, CallIs
  <2> QED BY <1>2, <2>1, CallSteps, PutIs DEF Calls
<1> QED BY <1>1, <1>2 DEF Verified, Answer, Done

\* A check's claim, whatever was found.
LEMMA IssuedType ==
    ASSUME NEW k \in 1 .. Len(Checks), NEW outcome \in Outcome, NEW leaf \in Nat
    PROVE  ClaimOf(leaf, "thenar", Issued(Checks[k], outcome)) \in Claims
<1>1. Checks[k].name \in STRING
  BY CheckTypes
<1> QED BY <1>1 DEF ClaimOf, Issued, Claims

\* What RunCheck claims.
OwnClaim(c, outcome) == ClaimOf(calls[c].leaf, "thenar", Issued(Checks[calls[c].check], outcome))

\* What the worker claims is a claim.
LEMMA OwnClaimType ==
    ASSUME IntakeTypeOK, NEW c \in Client, RunCheck(c), NEW outcome \in Outcome
    PROVE  OwnClaim(c, outcome) \in Claims /\ calls[c].check \in Nat \ {0} /\ calls[c].leaf \in Nat
<1>1. calls[c].check \in Nat \ {0} /\ calls[c].leaf \in Nat
  BY CallIs DEF RunCheck, IngestCalls, EpisodeCalls
<1>2. calls[c].check \in 1 .. Len(Checks)
  BY <1>1, CheckTypes DEF RunCheck
<1> QED BY <1>1, <1>2, IssuedType DEF OwnClaim

\* The two writes of appendClaim, or the first alone.
LEMMA ClaimWritesType ==
    ASSUME IntakeTypeOK, NEW claim \in Claims, NEW at \in Nat,
           LeafAndRow(claim, at) \/ LeafAlone(claim, at)
    PROVE  log' \in Seq(LogLeaves) /\ IsTable(claims', 1 .. Len(log'), Claims)
<1>1. log' = Append(log, ClaimLeaf(claim, at))
  BY DEF LeafAndRow, LeafAlone
<1>2. ClaimLeaf(claim, at) \in LogLeaves
  BY LeafTypes
<1>3. /\ log' \in Seq(LogLeaves) /\ IsTable(claims, 1 .. Len(log'), Claims)
      /\ Len(log') \in 1 .. Len(log')
  BY <1>1, <1>2, AppendLeaf
<1>4. claims' = claims \/ claims' = Upsert(claims, Len(log'), claim)
  BY DEF LeafAndRow, LeafAlone, RecordClaim
<1> QED BY <1>3, <1>4, UpsertType

\* A turn and the end of the worker.
LEMMA ChecksType ==
    ASSUME IntakeTypeOK, NEW c \in Client, RunCheck(c) \/ FinishChecks(c)
    PROVE  IntakeTypeOK'
<1>1. UNCHANGED <<bundle, rows, datasets, jobs, salts, cache>> /\ calls[c].op \in {"ingest", "episode"}
  BY DEF RunCheck, FinishChecks, uploadVars, durable
<1>2. failures' \in 0 .. MaxFailures
  BY FailuresType DEF RunCheck, FinishChecks, Works
<1>3. CASE FinishChecks(c)
  <2>1. UNCHANGED <<log, claims>>
    BY <1>3 DEF FinishChecks, durable
  <2> QED BY <1>1, <1>2, <1>3, <2>1, VerifiedType DEF FinishChecks, IntakeTypeOK
<1>4. CASE RunCheck(c)
  <2>1. PICK outcome \in Outcome :
            \/ /\ LeafAndRow(OwnClaim(c, outcome), 0)
               /\ Put(c, [calls[c] EXCEPT !.check = @ + 1])
            \/ /\ LeafAlone(OwnClaim(c, outcome), 0) \/ UNCHANGED <<log, claims>>
               /\ Verified(c)
    BY <1>4 DEF RunCheck, OwnClaim
  <2>2. log' \in Seq(LogLeaves) /\ IsTable(claims', 1 .. Len(log'), Claims)
    <3>1. CASE UNCHANGED <<log, claims>>
      BY <3>1 DEF IntakeTypeOK
    <3> QED BY <1>4, <2>1, <3>1, OwnClaimType, ClaimWritesType
  <2>3. calls' \in [Client -> Calls]
    <3>1. CASE Put(c, [calls[c] EXCEPT !.check = @ + 1])
      BY <1>1, <3>1, CallIs, CallSteps, PutIs DEF Calls
    <3>2. CASE Verified(c)
      BY <1>1, <3>2, VerifiedType
    <3> QED BY <2>1, <3>1, <3>2
  <2> QED BY <1>1, <1>2, <2>2, <2>3 DEF IntakeTypeOK
<1> QED BY <1>3, <1>4

\* Another verifier's claim.
LEMMA AppendClaimType ==
    ASSUME IntakeTypeOK, NEW c \in Client, AppendClaim(c)
    PROVE  IntakeTypeOK'
<1>1. UNCHANGED <<bundle, rows, datasets, jobs, salts, cache>>
  BY DEF AppendClaim, uploadVars
<1>2. failures' \in 0 .. MaxFailures
  BY FailuresType DEF AppendClaim
<1>3. calls[c] \in ClaimCalls
  BY CallIs DEF AppendClaim
<1>4. calls[c].claim \in Claims /\ calls[c].at \in Nat
  BY <1>3 DEF ClaimCalls, Others
<1>5. Put(c, Idle)
  BY DEF AppendClaim, Answer, Done
<1>6. calls' \in [Client -> Calls]
  BY <1>5, PutIs DEF Calls
<1>7. log' \in Seq(LogLeaves) /\ IsTable(claims', 1 .. Len(log'), Claims)
  <2>1. CASE UNCHANGED <<log, claims>>
    BY <2>1 DEF IntakeTypeOK
  <2> QED BY <1>4, <2>1, ClaimWritesType DEF AppendClaim
<1> QED BY <1>1, <1>2, <1>6, <1>7 DEF IntakeTypeOK

\* A restart.
LEMMA RestartType ==
    ASSUME IntakeTypeOK, Restart
    PROVE  IntakeTypeOK'
<1>1. failures' \in 0 .. MaxFailures
  BY FailuresType DEF Restart
<1>2. calls' \in [Client -> Calls]
  BY DEF Restart, Calls
<1>3. IsTable(rows', Content, Rows) /\ IsTable(cache', 1 .. Len(jobs), Seq(Results))
  BY DEF Restart, UploadRestart, IsTable
<1>4. UNCHANGED <<bundle, log, claims, datasets, jobs, salts>>
  BY DEF Restart, UploadRestart, durable
<1> QED BY <1>1, <1>2, <1>3, <1>4 DEF IntakeTypeOK

\* Every step keeps the types.
LEMMA StepKeepsTypes == IntakeTypeOK /\ [Next]_vars => IntakeTypeOK'
<1> SUFFICES ASSUME IntakeTypeOK, [Next]_vars PROVE IntakeTypeOK'
  OBVIOUS
<1>1. CASE UNCHANGED vars \/ GetJob
  BY <1>1 DEF GetJob, vars, uploadVars, durable, IntakeTypeOK
<1>2. ASSUME NEW c \in Client, Uploading(c), UNCHANGED <<durable, cache, answers, failures>>
      PROVE  IntakeTypeOK'
  BY <1>2, UploadingType DEF Tables, durable
<1> QED BY <1>1, <1>2, StartType, CreateDatasetType, CommitRefType, FinishIngestType,
      CommitEpisodeType, ChecksType, AppendClaimType, RestartType DEF Next

\* The types hold at the start.
LEMMA InitTypes == Init => IntakeTypeOK
<1> SUFFICES ASSUME Init PROVE IntakeTypeOK
  OBVIOUS
<1>1. calls \in [Client -> Calls]
  BY DEF Init, Calls
<1>2. IsTable(rows, Content, Rows) /\ IsTable(cache, {}, Seq(Results)) /\ IsTable(claims, {}, Claims)
  BY DEF Init, UploadInit, IsTable
<1> QED BY <1>1, <1>2, IntakeAssumption DEF Init, UploadInit, IntakeTypeOK, IsTable

-----------------------------------------------------------------------------
(* What a step does to the log, the claims and the verifications *)

IsVerifying(call) == call.op \in {"ingest", "episode"} /\ call.at = "verify"

\* The log takes nothing, or a claim.
ClaimsOnly ==
    \/ UNCHANGED log
    \/ \E claim \in Claims, at \in Nat : log' = Append(log, ClaimLeaf(claim, at))

\* No verification begins, goes on or ends.
Quiet(c) ==
    /\ ~IsVerifying(calls[c]) /\ ~IsVerifying(calls'[c])
    /\ calls'[c].op = "claim" => calls'[c].claim.about \in DOMAIN log
    /\ ClaimsOnly /\ UNCHANGED claims
    /\ failures' \in {failures, failures + 1}

\* An episode is logged and its verification begins.
Commits(c) ==
    /\ ~IsVerifying(calls[c])
    /\ IsVerifying(calls'[c]) /\ calls'[c].leaf = Len(log) + 1 /\ calls'[c].check = 1
    /\ \E org \in Org, m \in Manifest \cup (Nat \X Nat \X Salt) : Committed(org, m)
    /\ UNCHANGED <<claims, failures>>

\* A check is claimed.
ClaimsCheck(c) ==
    /\ IsVerifying(calls[c]) /\ calls[c].check \in 1 .. Len(Checks)
    /\ IsVerifying(calls'[c]) /\ calls'[c].leaf = calls[c].leaf
    /\ calls'[c].check = calls[c].check + 1
    /\ \E outcome \in Outcome : LeafAndRow(OwnClaim(c, outcome), 0) /\ OwnClaim(c, outcome) \in Claims
    /\ UNCHANGED failures

\* A verification is over, complete or with a failed write.
Ends(c) ==
    /\ IsVerifying(calls[c]) /\ ~IsVerifying(calls'[c]) /\ calls'[c].op # "claim"
    /\ ClaimsOnly /\ UNCHANGED claims
    /\ \/ calls[c].check > Len(Checks) /\ UNCHANGED failures
       \/ failures' = failures + 1

\* Another verifier's claim is new.
ClaimsOther(c) ==
    /\ calls[c].op = "claim" /\ calls[c].claim \in Others /\ calls'[c] = Idle
    /\ RowOf(calls[c].claim) = {}
    /\ \E at \in Nat : LeafAndRow(calls[c].claim, at)
    /\ UNCHANGED failures

Moves(c) ==
    /\ \A d \in Client : d # c => calls'[d] = calls[d]
    /\ Quiet(c) \/ Commits(c) \/ ClaimsCheck(c) \/ Ends(c) \/ ClaimsOther(c)

\* An upload verifies nothing.
LEMMA UploadingMoves ==
    ASSUME IntakeTypeOK, NEW c \in Client, Uploading(c), UNCHANGED Tables
    PROVE  Moves(c)
<1>1. /\ calls[c].op \notin {"ingest", "episode", "claim"}
      /\ \E call : Put(c, call) /\ call.op \notin {"ingest", "episode", "claim"}
  <2>1. CASE PostUpload(c) \/ PutUpload(c)
    <3>1. calls[c] = Idle /\ \E call : Put(c, call) /\ call.op \in {"declare", "put"}
      <4>1. ASSUME NEW org, NEW h
            PROVE  /\ [op |-> "declare", org |-> org, file |-> h, found |-> h \in bundle].op = "declare"
                   /\ [op |-> "put", org |-> org, file |-> h, found |-> h \in bundle].op = "put"
        OBVIOUS
      <4>2. CASE PostUpload(c)
        BY <4>1, <4>2, Zenon DEF PostUpload
      <4>3. CASE PutUpload(c)
        BY <4>1, <4>3, Zenon DEF PutUpload
      <4> QED BY <2>1, <4>2, <4>3
    <3> QED BY <3>1 DEF Idle
  <2>2. CASE AnswerPost(c) \/ AnswerPut(c)
    BY <2>2 DEF AnswerPost, AnswerPut, Done, Idle
  <2>3. CASE Stream(c)
    <3>1. calls[c] \in UploadCalls
      BY <2>3, CallIs DEF Stream
    <3>2. [calls[c] EXCEPT !.op = "stored"].op = "stored"
      BY <3>1 DEF UploadCalls
    <3>3. calls[c].op = "put" /\ (Put(c, [calls[c] EXCEPT !.op = "stored"]) \/ Put(c, Idle))
      BY <2>3 DEF Stream, Done
    <3>4. Idle.op = "none"
      BY DEF Idle
    <3> QED BY <3>2, <3>3, <3>4
  <2> QED BY <2>1, <2>2, <2>3 DEF Uploading
<1>2. /\ calls'[c].op \notin {"ingest", "episode", "claim"}
      /\ \A d \in Client : d # c => calls'[d] = calls[d]
  BY <1>1, PutIs
<1>3. failures \in Nat /\ UNCHANGED <<log, claims, failures>>
  BY DEF IntakeTypeOK, Tables
<1> QED BY <1>1, <1>2, <1>3 DEF Moves, Quiet, IsVerifying, ClaimsOnly

\* A request that comes in, and a dataset.
LEMMA StartMoves ==
    ASSUME IntakeTypeOK, NEW c \in Client,
           StartIngest(c) \/ StartEpisode(c) \/ StartClaim(c) \/ CreateDataset(c)
    PROVE  Moves(c)
<1>1. UNCHANGED <<log, claims, failures>>
  BY DEF StartIngest, StartEpisode, StartClaim, CreateDataset, durable
<1>2. calls[c] = Idle
  BY DEF StartIngest, StartEpisode, StartClaim, CreateDataset, Start
<1>3. CASE StartIngest(c) \/ StartEpisode(c)
  <2>1. \E call : Put(c, call) /\ call.op # "claim" /\ ~IsVerifying(call)
    <3>1. CASE StartIngest(c)
      BY <3>1 DEF StartIngest, Start, IsVerifying
    <3>2. CASE StartEpisode(c)
      BY <3>2 DEF StartEpisode, Start, IsVerifying
    <3> QED BY <1>3, <3>1, <3>2
  <2>2. /\ calls'[c].op # "claim" /\ ~IsVerifying(calls'[c])
        /\ \A d \in Client : d # c => calls'[d] = calls[d]
    BY <2>1, PutIs
  <2> QED BY <1>1, <1>2, <2>2 DEF Moves, Quiet, IsVerifying, ClaimsOnly, Idle
<1>4. CASE StartClaim(c)
  <2>1. \E call : Put(c, call) /\ call.op = "claim" /\ call.claim.about \in DOMAIN log
    BY <1>4 DEF StartClaim, Start, ClaimOf
  <2>2. /\ calls'[c].op = "claim" /\ calls'[c].claim.about \in DOMAIN log
        /\ \A d \in Client : d # c => calls'[d] = calls[d]
    BY <2>1, PutIs
  <2> QED BY <1>1, <1>2, <2>2 DEF Moves, Quiet, IsVerifying, ClaimsOnly, Idle
<1>5. CASE CreateDataset(c)
  BY <1>1, <1>2, <1>5 DEF CreateDataset, Moves, Quiet, IsVerifying, ClaimsOnly, Idle
<1> QED BY <1>3, <1>4, <1>5

\* A step counts at most one failure.
LEMMA FailuresMove ==
    ASSUME IntakeTypeOK, Works \/ Fails
    PROVE  failures' \in {failures, failures + 1}
BY DEF Works, Fails

\* What Verify leaves in the request.
LEMMA VerifyIs ==
    ASSUME NEW call \in IngestCalls \cup EpisodeCalls, NEW n
    PROVE  /\ IsVerifying(Verify(call, n))
           /\ Verify(call, n).leaf = n /\ Verify(call, n).check = 1
<1>1. CASE call \in IngestCalls
  BY <1>1 DEF IngestCalls, Verify, IsVerifying
<1>2. CASE call \in EpisodeCalls
  BY <1>2 DEF EpisodeCalls, Verify, IsVerifying
<1> QED BY <1>1, <1>2

\* A turn of the ingest job is quiet or commits an episode.
LEMMA CommitRefMoves ==
    ASSUME IntakeTypeOK, NEW c \in Client, CommitRef(c)
    PROVE  Moves(c)
<1>1. calls[c] \in IngestCalls /\ calls[c].at = "commit" /\ UNCHANGED claims
  BY CallIs DEF CommitRef
<1>2. PICK salt \in Salt :
          \/ Put(c, NextRef(calls[c])) /\ UNCHANGED log /\ (Works \/ Fails)
          \/ /\ Committed(calls[c].org, <<calls[c].ds, calls[c].next, salt>>)
             /\ Put(c, Verify([calls[c] EXCEPT !.done = Append(@, Result(salt))], Len(log')))
             /\ Works
  BY DEF CommitRef
<1>3. CASE Put(c, NextRef(calls[c])) /\ UNCHANGED log /\ (Works \/ Fails)
  <2>1. NextRef(calls[c]).op = "ingest" /\ NextRef(calls[c]).at = "commit"
    BY <1>1 DEF NextRef, IngestCalls
  <2>2. calls'[c] = NextRef(calls[c]) /\ \A d \in Client : d # c => calls'[d] = calls[d]
    BY <1>3, PutIs
  <2> QED BY <1>1, <1>3, <2>1, <2>2, FailuresMove DEF Moves, Quiet, IsVerifying, ClaimsOnly
<1>4. CASE /\ Committed(calls[c].org, <<calls[c].ds, calls[c].next, salt>>)
           /\ Put(c, Verify([calls[c] EXCEPT !.done = Append(@, Result(salt))], Len(log')))
           /\ Works
  <2>1. calls[c].org \in Org /\ <<calls[c].ds, calls[c].next, salt>> \in Nat \X Nat \X Salt
    BY <1>1 DEF IngestCalls
  <2>2. Episode(calls[c].org, <<calls[c].ds, calls[c].next, salt>>) \in LogLeaves
    BY <2>1, LeafTypes
  <2>3. Len(log') = Len(log) + 1 /\ Len(log') \in Nat
    BY <1>4, <2>2, AppendLeaf DEF Committed
  <2>4. Result(salt) \in Results
    BY <2>3 DEF Result, Results, IntakeTypeOK
  <2> DEFINE call == [calls[c] EXCEPT !.done = Append(@, Result(salt))]
  <2>5. call \in IngestCalls
    BY <1>1, <2>4, CallSteps
  <2>6. calls'[c] = Verify(call, Len(log')) /\ \A d \in Client : d # c => calls'[d] = calls[d]
    BY <1>4, PutIs
  <2> HIDE DEF call
  <2>7. /\ IsVerifying(calls'[c]) /\ calls'[c].leaf = Len(log) + 1 /\ calls'[c].check = 1
    BY <2>3, <2>5, <2>6, VerifyIs
  <2>8. ~IsVerifying(calls[c])
    BY <1>1 DEF IsVerifying
  <2>9. Commits(c)
    BY <1>1, <1>4, <2>1, <2>7, <2>8 DEF Commits, Works
  <2> QED BY <2>6, <2>9 DEF Moves
<1> QED BY <1>2, <1>3, <1>4

\* The end of the job is quiet.
LEMMA FinishIngestMoves ==
    ASSUME IntakeTypeOK, NEW c \in Client, FinishIngest(c)
    PROVE  Moves(c)
<1>1. Put(c, Idle)
  BY DEF FinishIngest, Answer, Done
<1>2. calls'[c] = Idle /\ \A d \in Client : d # c => calls'[d] = calls[d]
  BY <1>1, PutIs
<1>3. UNCHANGED <<log, claims>> /\ calls[c].at = "commit" /\ (Works \/ Fails)
  BY DEF FinishIngest
<1> QED BY <1>2, <1>3, FailuresMove DEF Moves, Quiet, IsVerifying, ClaimsOnly, Idle

\* POST /episodes is refused or commits an episode.
LEMMA CommitEpisodeMoves ==
    ASSUME IntakeTypeOK, NEW c \in Client, CommitEpisode(c)
    PROVE  Moves(c)
<1>1. calls[c] \in EpisodeCalls /\ calls[c].at = "commit" /\ UNCHANGED claims
  BY CallIs DEF CommitEpisode
<1>2. CASE Put(c, Idle) /\ UNCHANGED log /\ (Works \/ Fails)
  <2>1. calls'[c] = Idle /\ \A d \in Client : d # c => calls'[d] = calls[d]
    BY <1>2, PutIs
  <2> QED BY <1>1, <1>2, <2>1, FailuresMove DEF Moves, Quiet, IsVerifying, ClaimsOnly, Idle
<1>3. CASE /\ Committed(calls[c].org, calls[c].manifest)
           /\ Put(c, Verify(calls[c], Len(log')))
           /\ Works
  <2>1. calls[c].org \in Org /\ calls[c].manifest \in Manifest
    BY <1>1 DEF EpisodeCalls
  <2>2. Episode(calls[c].org, calls[c].manifest) \in LogLeaves
    BY <2>1, LeafTypes
  <2>3. Len(log') = Len(log) + 1
    BY <1>3, <2>2, AppendLeaf DEF Committed
  <2>4. calls'[c] = Verify(calls[c], Len(log')) /\ \A d \in Client : d # c => calls'[d] = calls[d]
    BY <1>3, PutIs
  <2>5. /\ IsVerifying(calls'[c]) /\ calls'[c].leaf = Len(log) + 1 /\ calls'[c].check = 1
    BY <1>1, <2>3, <2>4, VerifyIs
  <2>6. ~IsVerifying(calls[c])
    BY <1>1 DEF IsVerifying
  <2>7. Commits(c)
    BY <1>1, <1>3, <2>1, <2>5, <2>6 DEF Commits, Works
  <2> QED BY <2>4, <2>7 DEF Moves
<1> QED BY <1>2, <1>3 DEF CommitEpisode, Answer, Done

\* The worker claims a check or is over.
LEMMA ChecksMove ==
    ASSUME IntakeTypeOK, NEW c \in Client, RunCheck(c) \/ FinishChecks(c)
    PROVE  Moves(c)
<1>1. calls[c].op \in {"ingest", "episode"} /\ IsVerifying(calls[c])
  BY DEF RunCheck, FinishChecks, IsVerifying
<1>2. ASSUME Verified(c)
      PROVE  /\ ~IsVerifying(calls'[c]) /\ calls'[c].op # "claim"
             /\ \A d \in Client : d # c => calls'[d] = calls[d]
  <2>1. ASSUME calls[c] \in IngestCalls
        PROVE  LET call == [NextRef(calls[c]) EXCEPT !.at = "commit", !.leaf = 0, !.check = 1]
               IN  call.at = "commit" /\ call.op = "ingest"
    <3>1. NextRef(calls[c]) \in IngestCalls
      BY <2>1, CallSteps
    <3> QED BY <3>1 DEF IngestCalls
  <2>2. Idle.op = "none"
    BY DEF Idle
  <2>3. CASE calls'[c] = Idle
    BY <1>1, <1>2, <2>2, <2>3, VerifiedType DEF IsVerifying
  <2>4. CASE /\ calls[c] \in IngestCalls
             /\ calls'[c] = [NextRef(calls[c]) EXCEPT !.at = "commit", !.leaf = 0, !.check = 1]
    <3> DEFINE call == [NextRef(calls[c]) EXCEPT !.at = "commit", !.leaf = 0, !.check = 1]
    <3>1. call.at = "commit" /\ call.op = "ingest"
      BY <2>1, <2>4
    <3>2. calls'[c] = call
      BY <2>4
    <3> HIDE DEF call
    <3>3. ~IsVerifying(calls'[c]) /\ calls'[c].op # "claim"
      BY <3>1, <3>2 DEF IsVerifying
    <3> QED BY <1>1, <1>2, <3>3, VerifiedType
  <2> QED BY <1>1, <1>2, <2>3, <2>4, VerifiedType
<1>3. CASE FinishChecks(c)
  BY <1>1, <1>2, <1>3 DEF FinishChecks, durable, Moves, Ends, ClaimsOnly
<1>4. CASE RunCheck(c)
  <2>1. PICK outcome \in Outcome :
            \/ /\ LeafAndRow(OwnClaim(c, outcome), 0)
               /\ Put(c, [calls[c] EXCEPT !.check = @ + 1]) /\ Works
            \/ /\ LeafAlone(OwnClaim(c, outcome), 0) \/ UNCHANGED <<log, claims>>
               /\ Verified(c) /\ Fails
    BY <1>4 DEF RunCheck, OwnClaim
  <2>2. OwnClaim(c, outcome) \in Claims /\ calls[c].check \in Nat \ {0}
    BY <1>4, OwnClaimType
  <2>3. CASE /\ LeafAndRow(OwnClaim(c, outcome), 0)
             /\ Put(c, [calls[c] EXCEPT !.check = @ + 1]) /\ Works
    <3> DEFINE call == [calls[c] EXCEPT !.check = @ + 1]
    <3>1. /\ IsVerifying(call) /\ call.leaf = calls[c].leaf /\ call.check = calls[c].check + 1
      <4>1. calls[c] \in IngestCalls \/ calls[c] \in EpisodeCalls
        BY <1>1, CallIs
      <4>2. CASE calls[c] \in IngestCalls
        BY <1>1, <4>2 DEF IngestCalls, IsVerifying
      <4>3. CASE calls[c] \in EpisodeCalls
        BY <1>1, <4>3 DEF EpisodeCalls, IsVerifying
      <4> QED BY <4>1, <4>2, <4>3
    <3>2. calls'[c] = call /\ \A d \in Client : d # c => calls'[d] = calls[d]
      BY <2>3, PutIs
    <3> HIDE DEF call
    <3>3. calls[c].check \in 1 .. Len(Checks)
      BY <1>4, <2>2, CheckTypes DEF RunCheck
    <3>4. ClaimsCheck(c)
      BY <1>1, <2>2, <2>3, <3>1, <3>2, <3>3 DEF ClaimsCheck, Works
    <3> QED BY <3>2, <3>4 DEF Moves
  <2>4. CASE /\ LeafAlone(OwnClaim(c, outcome), 0) \/ UNCHANGED <<log, claims>>
             /\ Verified(c) /\ Fails
    <3>1. ClaimsOnly /\ UNCHANGED claims
      BY <2>2, <2>4 DEF LeafAlone, ClaimsOnly
    <3>2. failures' = failures + 1
      BY <2>4 DEF Fails
    <3> QED BY <1>1, <1>2, <2>4, <3>1, <3>2 DEF Moves, Ends
  <2> QED BY <2>1, <2>3, <2>4
<1> QED BY <1>3, <1>4

\* Another verifier's claim is new or changes nothing but the log.
LEMMA AppendClaimMoves ==
    ASSUME IntakeTypeOK, NEW c \in Client, AppendClaim(c)
    PROVE  Moves(c)
<1>1. calls[c] \in ClaimCalls /\ calls[c].op = "claim"
  BY CallIs DEF AppendClaim
<1>2. calls[c].claim \in Others /\ calls[c].at \in Nat
  BY <1>1 DEF ClaimCalls
<1>3. Put(c, Idle)
  BY DEF AppendClaim, Answer, Done
<1>4. calls'[c] = Idle /\ \A d \in Client : d # c => calls'[d] = calls[d]
  BY <1>3, PutIs
<1>5. CASE UNCHANGED <<log, claims>> /\ Works
  BY <1>1, <1>4, <1>5, FailuresMove DEF Moves, Quiet, IsVerifying, ClaimsOnly, Idle
<1>6. CASE LeafAlone(calls[c].claim, calls[c].at) /\ Fails
  <2>1. ClaimsOnly /\ UNCHANGED claims
    BY <1>2, <1>6 DEF LeafAlone, ClaimsOnly, Others
  <2> QED BY <1>1, <1>4, <1>6, <2>1, FailuresMove DEF Moves, Quiet, IsVerifying, Idle
<1>7. CASE /\ RowOf(calls[c].claim) = {}
           /\ LeafAndRow(calls[c].claim, calls[c].at) /\ Works
  <2>1. ClaimsOther(c)
    BY <1>1, <1>2, <1>4, <1>7 DEF ClaimsOther, Works
  <2> QED BY <1>4, <2>1 DEF Moves
<1> QED BY <1>5, <1>6, <1>7 DEF AppendClaim

\* Every step is one of these.
LEMMA StepMoves ==
    ASSUME IntakeTypeOK, [Next]_vars
    PROVE  \/ UNCHANGED vars
           \/ Restart
           \/ \E c \in Client : Moves(c)
<1>1. ASSUME NEW c \in Client, Uploading(c), UNCHANGED <<durable, cache, answers, failures>>
      PROVE  Moves(c)
  BY <1>1, UploadingMoves DEF Tables, durable
<1> QED BY <1>1, StartMoves, CommitRefMoves, FinishIngestMoves, CommitEpisodeMoves, ChecksMove,
      AppendClaimMoves DEF Next, GetJob

-----------------------------------------------------------------------------
(* The log, the claims and the verifications belong together *)

\* The claims table mirrors leaves of the log.
ClaimsFollowTheLog == \A i \in DOMAIN claims : claims[i].about \in DOMAIN log

\* A verification has claimed the checks before its next one, and no other.
Follows(call) ==
    /\ call.leaf \in Episodes
    /\ call.check \in 1 .. Len(Checks) + 1
    /\ \A i \in DOMAIN claims :
          claims[i].by = "thenar" /\ claims[i].about = call.leaf =>
              \E k \in 1 .. Len(Checks) :
                  k < call.check /\ claims[i].check = Checks[k].name
    /\ \A k \in 1 .. Len(Checks) : k < call.check =>
          \E r \in DOMAIN claims : /\ claims[r].about = call.leaf /\ claims[r].by = "thenar"
                                  /\ claims[r].check = Checks[k].name

VerificationsFollow == \A c \in Client : IsVerifying(calls[c]) => Follows(calls[c])

\* An episode is verified once.
OneVerification ==
    \A c, d \in Client :
        IsVerifying(calls[c]) /\ IsVerifying(calls[d]) /\ calls[c].leaf = calls[d].leaf => c = d

\* What another verifier claims is about the log.
ClaimsAreAboutTheLog ==
    \A c \in Client : calls[c].op = "claim" => calls[c].claim.about \in DOMAIN log

ChecksInv ==
    /\ OneLeafPerManifest /\ ClaimsFollowTheLog /\ VerificationsFollow /\ OneVerification
    /\ ClaimsAreAboutTheLog /\ OneRowPerOutcome /\ ChecksAreComplete

\* The log after claims only, and after an episode.
LEMMA ClaimsOnlyLog ==
    ASSUME IntakeTypeOK, ClaimsOnly
    PROVE  /\ DOMAIN log \subseteq DOMAIN log'
           /\ \A i \in DOMAIN log : log'[i] = log[i]
           /\ Episodes' = Episodes
<1>1. CASE UNCHANGED log
  BY <1>1 DEF Episodes
<1>2. ASSUME NEW claim \in Claims, NEW at \in Nat, log' = Append(log, ClaimLeaf(claim, at))
      PROVE  /\ DOMAIN log \subseteq DOMAIN log'
             /\ \A i \in DOMAIN log : log'[i] = log[i]
             /\ Episodes' = Episodes
  <2>1. ClaimLeaf(claim, at) \in LogLeaves
    BY LeafTypes
  <2>2. /\ DOMAIN log' = DOMAIN log \cup {Len(log) + 1}
        /\ \A i \in DOMAIN log : log'[i] = log[i]
        /\ log'[Len(log) + 1] = ClaimLeaf(claim, at)
    BY <1>2, <2>1, AppendLeaf
  <2>3. ClaimLeaf(claim, at).kind # "episode"
    BY DEF ClaimLeaf
  <2> QED BY <2>2, <2>3 DEF Episodes
<1> QED BY <1>1, <1>2 DEF ClaimsOnly

\* The log after an episode.
LEMMA CommittedLog ==
    ASSUME IntakeTypeOK, NEW org \in Org, NEW m \in Manifest \cup (Nat \X Nat \X Salt),
           Committed(org, m)
    PROVE  /\ DOMAIN log \subseteq DOMAIN log'
           /\ \A i \in DOMAIN log : log'[i] = log[i]
           /\ Episodes' = Episodes \cup {Len(log) + 1}
           /\ Len(log) + 1 \notin DOMAIN log
           /\ log'[Len(log) + 1] = Episode(org, m)
           /\ \A i \in DOMAIN log : log[i] # Episode(org, m)
<1>1. Episode(org, m) \in LogLeaves
  BY LeafTypes
<1>2. /\ DOMAIN log' = DOMAIN log \cup {Len(log) + 1}
      /\ \A i \in DOMAIN log : log'[i] = log[i]
      /\ log'[Len(log) + 1] = Episode(org, m)
      /\ Len(log) + 1 \notin DOMAIN log
  BY <1>1, AppendLeaf DEF Committed
<1>3. Episode(org, m).kind = "episode"
  BY DEF Episode
<1>4. \A i \in DOMAIN log : log[i] # Episode(org, m)
  BY DEF Committed, Logged
<1> QED BY <1>2, <1>3, <1>4 DEF Episodes

\* A claim with its row.
LEMMA RowLog ==
    ASSUME IntakeTypeOK, NEW claim \in Claims, NEW at \in Nat, LeafAndRow(claim, at)
    PROVE  /\ ClaimsOnly
           /\ Len(log) + 1 \notin DOMAIN claims
           /\ DOMAIN claims' = DOMAIN claims \cup {Len(log) + 1}
           /\ claims'[Len(log) + 1] = claim
           /\ \A i \in DOMAIN claims : claims'[i] = claims[i]
           /\ log'[Len(log) + 1] = ClaimLeaf(claim, at)
<1>1. log' = Append(log, ClaimLeaf(claim, at))
  BY DEF LeafAndRow
<1>2. ClaimLeaf(claim, at) \in LogLeaves
  BY LeafTypes
<1>3. /\ Len(log') = Len(log) + 1 /\ log'[Len(log) + 1] = ClaimLeaf(claim, at)
      /\ Len(log) + 1 \notin DOMAIN log /\ DOMAIN log = 1 .. Len(log)
  BY <1>1, <1>2, AppendLeaf
<1>4. DOMAIN claims \subseteq DOMAIN log
  BY <1>3 DEF IntakeTypeOK, IsTable
<1>5. claims' = Upsert(claims, Len(log) + 1, claim)
  BY <1>3 DEF LeafAndRow, RecordClaim
<1>6. ClaimsOnly
  BY <1>1 DEF ClaimsOnly
<1> DEFINE n == Len(log) + 1
<1>7. n \notin DOMAIN claims
  BY <1>3, <1>4
<1>8. claims' = Upsert(claims, n, claim)
  BY <1>5
<1> HIDE DEF n
<1>9. /\ DOMAIN claims' = DOMAIN claims \cup {n}
      /\ claims'[n] = claim
      /\ \A i \in DOMAIN claims : claims'[i] = claims[i]
  BY <1>7, <1>8 DEF Upsert
<1> QED BY <1>3, <1>6, <1>7, <1>9 DEF n

\* What holds of the rows of a log holds of them in a longer log.
LEMMA ClaimsKept ==
    ASSUME IntakeTypeOK, ClaimsFollowTheLog, OneRowPerOutcome, UNCHANGED claims,
           DOMAIN log \subseteq DOMAIN log', \A i \in DOMAIN log : log'[i] = log[i]
    PROVE  ClaimsFollowTheLog' /\ OneRowPerOutcome'
<1>1. DOMAIN claims \subseteq DOMAIN log
  BY DEF IntakeTypeOK, IsTable
<1>2. ClaimsFollowTheLog'
  BY DEF ClaimsFollowTheLog
<1>3. OneRowPerOutcome'
  BY <1>1 DEF OneRowPerOutcome
<1> QED BY <1>2, <1>3

\* A new row is of a leaf of its own and of an outcome without a row.
LEMMA ClaimsGrow ==
    ASSUME IntakeTypeOK, ClaimsFollowTheLog, OneRowPerOutcome,
           NEW claim \in Claims, NEW at \in Nat, LeafAndRow(claim, at),
           claim.about \in DOMAIN log,
           \A i \in DOMAIN claims : claims[i] # claim,
           \A k \in DOMAIN Checks : claim.by = "thenar" /\ claim.check = Checks[k].name
                                        /\ ~Checks[k].emitFail => claim.result # "fail"
    PROVE  ClaimsFollowTheLog' /\ OneRowPerOutcome'
<1> DEFINE n == Len(log) + 1
<1>1. /\ n \notin DOMAIN claims
      /\ DOMAIN claims' = DOMAIN claims \cup {n}
      /\ claims'[n] = claim
      /\ \A i \in DOMAIN claims : claims'[i] = claims[i]
      /\ log'[n] = ClaimLeaf(claim, at)
  BY RowLog
<1>2. DOMAIN log \subseteq DOMAIN log' /\ \A i \in DOMAIN log : log'[i] = log[i]
  BY RowLog, ClaimsOnlyLog
<1>3. DOMAIN claims \subseteq DOMAIN log
  BY DEF IntakeTypeOK, IsTable
<1>4. ClaimLeaf(claim, at).kind = "claim" /\ ClaimLeaf(claim, at).claim = claim
  BY DEF ClaimLeaf
<1> HIDE DEF n
<1>5. ClaimsFollowTheLog'
  BY <1>1, <1>2 DEF ClaimsFollowTheLog
<1>6. \A i, j \in DOMAIN claims' : claims'[i] = claims'[j] => i = j
  BY <1>1 DEF OneRowPerOutcome
<1>7. \A i \in DOMAIN claims' : log'[i].kind = "claim" /\ log'[i].claim = claims'[i]
  BY <1>1, <1>2, <1>3, <1>4 DEF OneRowPerOutcome
<1>8. \A i \in DOMAIN claims', k \in DOMAIN Checks :
          claims'[i].by = "thenar" /\ claims'[i].check = Checks[k].name
              /\ ~Checks[k].emitFail => claims'[i].result # "fail"
  BY <1>1 DEF OneRowPerOutcome
<1> QED BY <1>5, <1>6, <1>7, <1>8 DEF OneRowPerOutcome

\* Another request's verification is not disturbed.
LEMMA FollowsKept ==
    ASSUME NEW d \in Client, Follows(calls[d]), calls'[d] = calls[d],
           Episodes \subseteq Episodes', UNCHANGED claims
    PROVE  Follows(calls[d])'
BY DEF Follows

\* A verification follows a table that grew by a claim about something else.
LEMMA FollowsGrown ==
    ASSUME NEW d \in Client, Follows(calls[d]), calls'[d] = calls[d],
           Episodes \subseteq Episodes',
           NEW n, NEW claim, n \notin DOMAIN claims,
           DOMAIN claims' = DOMAIN claims \cup {n}, claims'[n] = claim,
           \A i \in DOMAIN claims : claims'[i] = claims[i],
           claim.by # "thenar" \/ claim.about # calls[d].leaf
    PROVE  Follows(calls[d])'
BY DEF Follows

\* What Checked and Verifying say, in terms of one request.
LEMMA VerifyingIs ==
    ASSUME NEW i
    PROVE  Verifying(i) <=> \E c \in Client : IsVerifying(calls[c]) /\ calls[c].leaf = i
BY DEF Verifying, IsVerifying

Unchecked == {i \in Episodes : ~Verifying(i) /\ ~Checked(i)}

\* A row's checks stay claimed.
LEMMA CheckedKept ==
    ASSUME DOMAIN claims \subseteq DOMAIN claims', \A i \in DOMAIN claims : claims'[i] = claims[i],
           NEW i, Checked(i)
    PROVE  Checked(i)'
BY DEF Checked

\* A step that leaves no more episodes unchecked than the requests D verified
\* keeps the count, if it was a failure or D is empty.
LEMMA CountKept ==
    ASSUME IntakeTypeOK, IntakeTypeOK', ChecksAreComplete, NEW D \in SUBSET Client,
           Unchecked' \subseteq Unchecked \cup {calls[c].leaf : c \in D},
           (D = {} /\ failures' = failures) \/ failures' = failures + 1
    PROVE  ChecksAreComplete'
<1> DEFINE X == {calls[c].leaf : c \in D}
           f == [c \in D |-> calls[c].leaf]
           N == Cardinality(Client)
<1>1. IsFiniteSet(D) /\ Cardinality(D) \in Nat /\ N \in Nat /\ Cardinality(D) <= N
  BY UploadsAssumption, FS_Subset, FS_CardinalityType
<1>2. IsFiniteSet(X) /\ Cardinality(X) \in Nat /\ Cardinality(X) <= Cardinality(D)
  <2>1. f \in Surjection(D, X)
    BY DEF Surjection
  <2> HIDE DEF f, X
  <2> QED BY <1>1, <2>1, FS_Surjection, FS_CardinalityType
<1>3. IsFiniteSet(Unchecked) /\ Cardinality(Unchecked) \in Nat
  <2>1. Unchecked \subseteq 1 .. Len(log) /\ Len(log) \in Nat
    BY DEF Unchecked, Episodes, IntakeTypeOK
  <2>2. IsFiniteSet(1 .. Len(log))
    BY <2>1, FS_Interval
  <2> QED BY <2>1, <2>2, FS_Subset, FS_CardinalityType
<1> HIDE DEF X
<1>4. /\ IsFiniteSet(Unchecked \cup X)
      /\ Cardinality(Unchecked \cup X) \in Nat
      /\ Cardinality(Unchecked \cup X) <= Cardinality(Unchecked) + Cardinality(X)
  <2>1. IsFiniteSet(Unchecked \cup X) /\ IsFiniteSet(Unchecked \cap X)
    BY <1>2, <1>3, FS_Union, FS_Intersection
  <2>2. /\ Cardinality(Unchecked \cup X) \in Nat /\ Cardinality(Unchecked \cap X) \in Nat
        /\ Cardinality(Unchecked \cup X)
             = Cardinality(Unchecked) + Cardinality(X) - Cardinality(Unchecked \cap X)
    BY <1>2, <1>3, <2>1, FS_Union, FS_CardinalityType
  <2> QED BY <1>2, <1>3, <2>1, <2>2
<1>5. Unchecked' \subseteq Unchecked \cup X
  BY DEF X
<1>6. /\ Cardinality(Unchecked') \in Nat
      /\ Cardinality(Unchecked') <= Cardinality(Unchecked \cup X)
  BY <1>4, <1>5, FS_Subset, FS_CardinalityType
<1>7. Cardinality(Unchecked) <= failures * N
  BY DEF ChecksAreComplete, Unchecked
<1>8. failures \in Nat
  BY DEF IntakeTypeOK
<1>9. CASE D = {} /\ failures' = failures
  <2>1. Cardinality(X) = 0
    BY <1>1, <1>2, <1>9, FS_EmptySet
  <2>2. failures * N \in Nat
    BY <1>1, <1>8
  <2>3. Cardinality(Unchecked') <= failures * N
    BY <1>2, <1>3, <1>4, <1>6, <1>7, <2>1, <2>2
  <2> QED BY <1>9, <2>3 DEF ChecksAreComplete, Unchecked
<1>10. CASE failures' = failures + 1
  <2>1. failures' * N = failures * N + N /\ failures * N \in Nat
    BY <1>1, <1>8, <1>10
  <2>2. Cardinality(Unchecked') <= failures * N + N
    <3> DEFINE k == failures * N
    <3>1. k \in Nat /\ Cardinality(Unchecked) <= k
      BY <1>7, <2>1
    <3> HIDE DEF k, N
    <3>2. Cardinality(Unchecked') <= k + N
      BY <1>1, <1>2, <1>3, <1>4, <1>6, <3>1
    <3> QED BY <3>2 DEF k
  <2> QED BY <2>1, <2>2 DEF ChecksAreComplete, Unchecked
<1> QED BY <1>9, <1>10

\* Fewer unchecked episodes stay within the bound.
LEMMA CountNotMore ==
    ASSUME IntakeTypeOK, IntakeTypeOK', ChecksAreComplete, Unchecked' \subseteq Unchecked,
           failures' \in {failures, failures + 1}
    PROVE  ChecksAreComplete'
<1>1. {} \in SUBSET Client /\ {calls[c].leaf : c \in {}} = {}
  OBVIOUS
<1> QED BY <1>1, CountKept

\* A request other than c is verified as before; c is not verified any more, or
\* goes on with the same leaf.
LEMMA StillVerifying ==
    ASSUME NEW c \in Client, \A d \in Client : d # c => calls'[d] = calls[d],
           NEW i, Verifying(i),
           \/ ~IsVerifying(calls[c])
           \/ IsVerifying(calls'[c]) /\ calls'[c].leaf = calls[c].leaf
    PROVE  Verifying(i)'
<1>1. PICK d \in Client : IsVerifying(calls[d]) /\ calls[d].leaf = i
  BY VerifyingIs
<1>2. IsVerifying(calls'[d]) /\ calls'[d].leaf = i
  BY <1>1
<1> QED BY <1>2 DEF Verifying, IsVerifying

\* A quiet step keeps the invariant.
LEMMA QuietKeeps ==
    ASSUME IntakeTypeOK, IntakeTypeOK', ChecksInv, NEW c \in Client, Quiet(c),
           \A d \in Client : d # c => calls'[d] = calls[d]
    PROVE  ChecksInv'
<1>1. /\ DOMAIN log \subseteq DOMAIN log'
      /\ \A i \in DOMAIN log : log'[i] = log[i]
      /\ Episodes' = Episodes /\ Episodes \subseteq DOMAIN log
      /\ UNCHANGED claims /\ failures' \in {failures, failures + 1}
      /\ ~IsVerifying(calls[c]) /\ ~IsVerifying(calls'[c])
  BY ClaimsOnlyLog DEF Quiet, Episodes
<1>2. OneLeafPerManifest'
  BY <1>1 DEF ChecksInv, OneLeafPerManifest
<1>3. ClaimsFollowTheLog' /\ OneRowPerOutcome'
  BY <1>1, ClaimsKept DEF ChecksInv
<1>4. VerificationsFollow'
  <2>1. ASSUME NEW d \in Client, IsVerifying(calls'[d]) PROVE Follows(calls[d])' /\ calls'[d] = calls[d]
    BY <1>1, <2>1, FollowsKept DEF ChecksInv, VerificationsFollow
  <2> QED BY <2>1 DEF VerificationsFollow, Follows, IsVerifying
<1>5. OneVerification'
  BY <1>1 DEF ChecksInv, OneVerification, IsVerifying
<1>6. ClaimsAreAboutTheLog'
  BY <1>1 DEF ChecksInv, ClaimsAreAboutTheLog, Quiet
<1>7. ChecksAreComplete'
  <2>1. Unchecked' \subseteq Unchecked
    BY <1>1, StillVerifying, CheckedKept DEF Unchecked
  <2> QED BY <1>1, <2>1, CountNotMore DEF ChecksInv
<1> QED BY <1>2, <1>3, <1>4, <1>5, <1>6, <1>7 DEF ChecksInv

\* So does a commit: its episode is new and is being verified.
LEMMA CommitsKeeps ==
    ASSUME IntakeTypeOK, IntakeTypeOK', ChecksInv, NEW c \in Client, Commits(c),
           \A d \in Client : d # c => calls'[d] = calls[d]
    PROVE  ChecksInv'
<1>0. PICK n : n = Len(log) + 1
  OBVIOUS
<1>1. PICK org \in Org, m \in Manifest \cup (Nat \X Nat \X Salt) : Committed(org, m)
  BY DEF Commits
<1>2. /\ DOMAIN log \subseteq DOMAIN log'
      /\ \A i \in DOMAIN log : log'[i] = log[i]
      /\ Episodes' = Episodes \cup {n}
      /\ n \notin DOMAIN log /\ log'[n] = Episode(org, m)
      /\ \A i \in DOMAIN log : log[i] # Episode(org, m)
      /\ Episodes \subseteq DOMAIN log
  BY <1>0, <1>1, CommittedLog DEF Episodes
<1>3. /\ UNCHANGED <<claims, failures>>
      /\ ~IsVerifying(calls[c]) /\ IsVerifying(calls'[c])
      /\ calls'[c].leaf = n /\ calls'[c].check = 1
  BY <1>0 DEF Commits
<1>4. OneLeafPerManifest'
  BY <1>2 DEF ChecksInv, OneLeafPerManifest
<1>5. ClaimsFollowTheLog' /\ OneRowPerOutcome'
  BY <1>2, <1>3, ClaimsKept DEF ChecksInv
<1>6. VerificationsFollow'
  <2>1. ASSUME NEW d \in Client, d # c, IsVerifying(calls'[d])
        PROVE  Follows(calls[d])' /\ calls'[d] = calls[d]
    BY <1>2, <1>3, <2>1, FollowsKept DEF ChecksInv, VerificationsFollow
  <2>2. Follows(calls[c])'
    <3>1. calls'[c].leaf \in Episodes'
      BY <1>2, <1>3
    <3>2. \A i \in DOMAIN claims : claims[i].about # n
      BY <1>2 DEF ChecksInv, ClaimsFollowTheLog
    <3>3. calls'[c].check \in 1 .. Len(Checks) + 1
      BY <1>3, CheckTypes
    <3>4. \A k \in 1 .. Len(Checks) : ~ (k < calls'[c].check)
      BY <1>3
    <3> QED BY <1>3, <3>1, <3>2, <3>3, <3>4 DEF Follows
  <2> QED BY <2>1, <2>2 DEF VerificationsFollow, Follows, IsVerifying
<1>7. OneVerification'
  <2>1. ASSUME NEW d \in Client, d # c, IsVerifying(calls'[d]) PROVE calls'[d].leaf # n
    <3>1. calls'[d] = calls[d] /\ calls[d].leaf \in Episodes
      BY <2>1 DEF ChecksInv, VerificationsFollow, Follows
    <3> QED BY <1>2, <3>1
  <2> QED BY <1>3, <2>1 DEF ChecksInv, OneVerification, IsVerifying
<1>8. ClaimsAreAboutTheLog'
  BY <1>2, <1>3 DEF ChecksInv, ClaimsAreAboutTheLog, IsVerifying
<1>9. ChecksAreComplete'
  <2>1. Verifying(n)'
    BY <1>3 DEF Verifying, IsVerifying
  <2>2. Unchecked' \subseteq Unchecked
    BY <1>2, <1>3, <2>1, StillVerifying, CheckedKept DEF Unchecked
  <2> QED BY <1>3, <2>2, CountNotMore DEF ChecksInv
<1> QED BY <1>4, <1>5, <1>6, <1>7, <1>8, <1>9 DEF ChecksInv

\* So does a check: no row has its name yet.
LEMMA ClaimsCheckKeeps ==
    ASSUME IntakeTypeOK, IntakeTypeOK', ChecksInv, NEW c \in Client, ClaimsCheck(c),
           \A d \in Client : d # c => calls'[d] = calls[d]
    PROVE  ChecksInv'
<1> DEFINE n == Len(log) + 1
           k == calls[c].check
           leaf == calls[c].leaf
<1>1. PICK outcome \in Outcome :
          LeafAndRow(OwnClaim(c, outcome), 0) /\ OwnClaim(c, outcome) \in Claims
  BY DEF ClaimsCheck
<1> DEFINE claim == OwnClaim(c, outcome)
<1>2. /\ claim.about = leaf /\ claim.by = "thenar" /\ claim.check = Checks[k].name
      /\ claim.result = "fail" => Checks[k].emitFail
  BY DEF OwnClaim, ClaimOf, Issued
<1>3. /\ IsVerifying(calls[c]) /\ IsVerifying(calls'[c]) /\ UNCHANGED failures
      /\ calls'[c].leaf = leaf /\ calls'[c].check = k + 1 /\ k \in 1 .. Len(Checks)
  BY DEF ClaimsCheck
<1>4. Follows(calls[c]) /\ leaf \in DOMAIN log
  BY <1>3 DEF ChecksInv, VerificationsFollow, Follows, Episodes
<1> HIDE DEF claim
<1>5. /\ n \notin DOMAIN claims
      /\ DOMAIN claims' = DOMAIN claims \cup {n}
      /\ claims'[n] = claim
      /\ \A i \in DOMAIN claims : claims'[i] = claims[i]
      /\ ClaimsOnly
  BY <1>1, RowLog DEF claim
<1>6. /\ DOMAIN log \subseteq DOMAIN log'
      /\ \A i \in DOMAIN log : log'[i] = log[i]
      /\ Episodes' = Episodes
  BY <1>5, ClaimsOnlyLog
<1>7. \A j \in 1 .. Len(Checks) : Checks[j].name = Checks[k].name => j = k
  BY <1>3, IntakeAssumption, CheckTypes
<1>8. k \in Nat /\ Len(Checks) \in Nat
  BY <1>3, CheckTypes
<1>9. \A i \in DOMAIN claims : claims[i] # claim
  <2>1. ASSUME NEW i \in DOMAIN claims, claims[i] = claim PROVE FALSE
    <3>1. PICK j \in 1 .. Len(Checks) : j < k /\ claims[i].check = Checks[j].name
      BY <1>2, <1>4, <2>1 DEF Follows
    <3>2. j = k
      BY <1>2, <1>7, <2>1, <3>1
    <3> QED BY <1>8, <3>1, <3>2
  <2> QED BY <2>1
<1> HIDE DEF n, k, leaf
<1>10. OneLeafPerManifest'
  BY <1>6 DEF ChecksInv, OneLeafPerManifest, Episodes
<1>11. ClaimsFollowTheLog' /\ OneRowPerOutcome'
  <2>1. \A j \in DOMAIN Checks : claim.by = "thenar" /\ claim.check = Checks[j].name
                                     /\ ~Checks[j].emitFail => claim.result # "fail"
    BY <1>2, <1>7, CheckTypes
  <2>2. LeafAndRow(claim, 0) /\ claim \in Claims /\ claim.about \in DOMAIN log
    BY <1>1, <1>2, <1>4 DEF claim
  <2> HIDE DEF claim
  <2> QED BY <1>9, <2>1, <2>2, ClaimsGrow DEF ChecksInv
<1>12. VerificationsFollow'
  <2>1. ASSUME NEW d \in Client, d # c, IsVerifying(calls'[d])
        PROVE  Follows(calls[d])' /\ calls'[d] = calls[d]
    <3>1. calls'[d] = calls[d] /\ Follows(calls[d])
      BY <2>1 DEF ChecksInv, VerificationsFollow
    <3>2. calls[d].leaf # leaf
      BY <1>3, <2>1, <3>1 DEF ChecksInv, OneVerification, leaf
    <3> QED BY <1>2, <1>5, <1>6, <3>1, <3>2, FollowsGrown
  <2>2. Follows(calls[c])'
    <3>1. calls'[c].leaf \in Episodes' /\ calls'[c].check \in 1 .. Len(Checks) + 1
      BY <1>3, <1>4, <1>6, <1>8 DEF Follows, leaf
    <3>2. ASSUME NEW i \in DOMAIN claims', claims'[i].by = "thenar", claims'[i].about = leaf
          PROVE  \E j \in 1 .. Len(Checks) : j < k + 1 /\ claims'[i].check = Checks[j].name
      <4>1. CASE i = n
        BY <1>2, <1>3, <1>5, <1>8, <4>1
      <4>2. CASE i \in DOMAIN claims
        <5>1. PICK j \in 1 .. Len(Checks) : j < k /\ claims[i].check = Checks[j].name
          BY <1>4, <1>5, <3>2, <4>2 DEF Follows, leaf, k
        <5>2. j < k + 1
          BY <1>8, <5>1
        <5> QED BY <1>5, <4>2, <5>1, <5>2
      <4> QED BY <1>5, <4>1, <4>2
    <3>3. ASSUME NEW j \in 1 .. Len(Checks), j < k + 1
          PROVE  \E r \in DOMAIN claims' : /\ claims'[r].about = leaf /\ claims'[r].by = "thenar"
                                           /\ claims'[r].check = Checks[j].name
      <4>1. CASE j = k
        BY <1>2, <1>5, <4>1
      <4>2. CASE j < k
        <5>1. PICK r \in DOMAIN claims : /\ claims[r].about = leaf /\ claims[r].by = "thenar"
                                         /\ claims[r].check = Checks[j].name
          BY <1>4, <4>2 DEF Follows, leaf, k
        <5> QED BY <1>5, <5>1
      <4> QED BY <1>8, <3>3, <4>1, <4>2
    <3> QED BY <1>3, <3>1, <3>2, <3>3 DEF Follows
  <2> QED BY <2>1, <2>2 DEF VerificationsFollow, Follows, IsVerifying
<1>13. OneVerification'
  BY <1>3 DEF ChecksInv, OneVerification, IsVerifying, leaf
<1>14. ClaimsAreAboutTheLog'
  BY <1>3, <1>6 DEF ChecksInv, ClaimsAreAboutTheLog, IsVerifying
<1>15. ChecksAreComplete'
  <2>1. Unchecked' \subseteq Unchecked
    BY <1>3, <1>5, <1>6, StillVerifying, CheckedKept DEF Unchecked, leaf
  <2> QED BY <1>3, <2>1, CountNotMore DEF ChecksInv
<1> QED BY <1>10, <1>11, <1>12, <1>13, <1>14, <1>15 DEF ChecksInv

\* So does the end of a verification: complete, or counted as a failure.
LEMMA EndsKeeps ==
    ASSUME IntakeTypeOK, IntakeTypeOK', ChecksInv, NEW c \in Client, Ends(c),
           \A d \in Client : d # c => calls'[d] = calls[d]
    PROVE  ChecksInv'
<1>1. /\ DOMAIN log \subseteq DOMAIN log'
      /\ \A i \in DOMAIN log : log'[i] = log[i]
      /\ Episodes' = Episodes /\ Episodes \subseteq DOMAIN log
      /\ UNCHANGED claims
      /\ IsVerifying(calls[c]) /\ ~IsVerifying(calls'[c]) /\ calls'[c].op # "claim"
  BY ClaimsOnlyLog DEF Ends, Episodes
<1>2. OneLeafPerManifest'
  BY <1>1 DEF ChecksInv, OneLeafPerManifest
<1>3. ClaimsFollowTheLog' /\ OneRowPerOutcome'
  BY <1>1, ClaimsKept DEF ChecksInv
<1>4. VerificationsFollow'
  <2>1. ASSUME NEW d \in Client, IsVerifying(calls'[d]) PROVE Follows(calls[d])' /\ calls'[d] = calls[d]
    BY <1>1, <2>1, FollowsKept DEF ChecksInv, VerificationsFollow
  <2> QED BY <2>1 DEF VerificationsFollow, Follows, IsVerifying
<1>5. OneVerification'
  BY <1>1 DEF ChecksInv, OneVerification, IsVerifying
<1>6. ClaimsAreAboutTheLog'
  BY <1>1 DEF ChecksInv, ClaimsAreAboutTheLog
<1>7.
      ASSUME NEW i, Verifying(i), ~Verifying(i)'
      PROVE  i = calls[c].leaf
  <2>1. PICK d \in Client : IsVerifying(calls[d]) /\ calls[d].leaf = i
    BY <1>7, VerifyingIs
  <2>2. d # c => IsVerifying(calls'[d]) /\ calls'[d].leaf = i
    BY <2>1
  <2> QED BY <1>7, <2>1, <2>2 DEF Verifying, IsVerifying
<1>8. ChecksAreComplete'
  <2>1. CASE calls[c].check > Len(Checks) /\ UNCHANGED failures
    <3>1. Checked(calls[c].leaf)
      <4>1. Follows(calls[c])
        BY <1>1 DEF ChecksInv, VerificationsFollow
      <4>2. \A k \in 1 .. Len(Checks) : k < calls[c].check
        BY <2>1, <4>1, CheckTypes DEF Follows
      <4> QED BY <4>1, <4>2, CheckTypes DEF Follows, Checked
    <3>2. Unchecked' \subseteq Unchecked
      BY <1>1, <1>7, <3>1, CheckedKept DEF Unchecked
    <3> QED BY <2>1, <3>2, CountNotMore DEF ChecksInv
  <2>2. CASE failures' = failures + 1
    <3>1. Unchecked' \subseteq Unchecked \cup {calls[d].leaf : d \in {c}}
      BY <1>1, <1>7, CheckedKept DEF Unchecked
    <3>2. {c} \in SUBSET Client
      OBVIOUS
    <3> QED BY <2>2, <3>1, <3>2, CountKept DEF ChecksInv
  <2> QED BY <2>1, <2>2 DEF Ends
<1> QED BY <1>2, <1>3, <1>4, <1>5, <1>6, <1>8 DEF ChecksInv

\* So does another verifier's claim, which no row equals.
LEMMA ClaimsOtherKeeps ==
    ASSUME IntakeTypeOK, IntakeTypeOK', ChecksInv, NEW c \in Client, ClaimsOther(c),
           \A d \in Client : d # c => calls'[d] = calls[d]
    PROVE  ChecksInv'
<1>1. PICK at \in Nat : LeafAndRow(calls[c].claim, at)
  BY DEF ClaimsOther
<1>2. PICK claim \in Claims : claim = calls[c].claim
  BY DEF ClaimsOther, Others
<1>3. /\ claim.by = "other" /\ claim.about \in DOMAIN log
      /\ \A i \in DOMAIN claims : claims[i] # claim
      /\ LeafAndRow(claim, at)
  BY <1>1, <1>2 DEF ClaimsOther, Others, ChecksInv, ClaimsAreAboutTheLog, RowOf, ClaimsFor
<1>4. PICK n : n = Len(log) + 1
  OBVIOUS
<1>5. /\ n \notin DOMAIN claims
      /\ DOMAIN claims' = DOMAIN claims \cup {n}
      /\ claims'[n] = claim
      /\ \A i \in DOMAIN claims : claims'[i] = claims[i]
      /\ ClaimsOnly
  BY <1>3, <1>4, RowLog
<1>6. /\ DOMAIN log \subseteq DOMAIN log'
      /\ \A i \in DOMAIN log : log'[i] = log[i]
      /\ Episodes' = Episodes
  BY <1>5, ClaimsOnlyLog
<1>7. /\ ~IsVerifying(calls[c]) /\ ~IsVerifying(calls'[c]) /\ calls'[c].op # "claim"
      /\ UNCHANGED failures
  BY DEF ClaimsOther, IsVerifying, Idle
<1>8. OneLeafPerManifest'
  BY <1>6 DEF ChecksInv, OneLeafPerManifest, Episodes
<1>9. ClaimsFollowTheLog' /\ OneRowPerOutcome'
  BY <1>3, ClaimsGrow DEF ChecksInv
<1>10. VerificationsFollow'
  <2>1. ASSUME NEW d \in Client, IsVerifying(calls'[d])
        PROVE  Follows(calls[d])' /\ calls'[d] = calls[d]
    <3>1. calls'[d] = calls[d] /\ Follows(calls[d])
      BY <1>7, <2>1 DEF ChecksInv, VerificationsFollow
    <3> QED BY <1>3, <1>5, <1>6, <3>1, FollowsGrown
  <2> QED BY <2>1 DEF VerificationsFollow, Follows, IsVerifying
<1>11. OneVerification'
  BY <1>7 DEF ChecksInv, OneVerification, IsVerifying
<1>12. ClaimsAreAboutTheLog'
  BY <1>6, <1>7 DEF ChecksInv, ClaimsAreAboutTheLog
<1>13. ChecksAreComplete'
  <2>1. Unchecked' \subseteq Unchecked
    BY <1>5, <1>6, <1>7, StillVerifying, CheckedKept DEF Unchecked
  <2> QED BY <1>7, <2>1, CountNotMore DEF ChecksInv
<1> QED BY <1>8, <1>9, <1>10, <1>11, <1>12, <1>13 DEF ChecksInv

\* So does a restart, which leaves at most one episode a request unchecked.
LEMMA RestartKeeps ==
    ASSUME IntakeTypeOK, IntakeTypeOK', ChecksInv, Restart
    PROVE  ChecksInv'
<1>1. UNCHANGED <<log, claims>> /\ failures' = failures + 1
  BY DEF Restart, durable, Fails
<1>2. \A c \in Client : calls'[c].op = "none" /\ ~IsVerifying(calls'[c])
  BY DEF Restart, Idle, IsVerifying
<1>3. OneLeafPerManifest' /\ ClaimsFollowTheLog' /\ OneRowPerOutcome'
  BY <1>1 DEF ChecksInv, OneLeafPerManifest, ClaimsFollowTheLog, OneRowPerOutcome, Episodes
<1>4. VerificationsFollow' /\ OneVerification' /\ ClaimsAreAboutTheLog'
  BY <1>2 DEF VerificationsFollow, OneVerification, ClaimsAreAboutTheLog, IsVerifying
<1>5. ChecksAreComplete'
  <2>1. Unchecked' \subseteq Unchecked \cup {calls[c].leaf : c \in Client}
    BY <1>1, VerifyingIs DEF Unchecked, Checked, Episodes
  <2>2. Client \in SUBSET Client
    OBVIOUS
  <2> QED BY <1>1, <2>1, <2>2, CountKept DEF ChecksInv
<1> QED BY <1>3, <1>4, <1>5 DEF ChecksInv

\* Every step keeps the invariant of the log, the claims and the verifications.
LEMMA StepKeepsChecks == IntakeTypeOK /\ ChecksInv /\ [Next]_vars => ChecksInv'
<1> SUFFICES ASSUME IntakeTypeOK, ChecksInv, [Next]_vars PROVE ChecksInv'
  OBVIOUS
<1>1. IntakeTypeOK'
  BY StepKeepsTypes
<1>2. CASE UNCHANGED vars
  BY <1>2 DEF vars, durable, ChecksInv, OneLeafPerManifest, ClaimsFollowTheLog, VerificationsFollow,
      Follows, OneVerification, ClaimsAreAboutTheLog, OneRowPerOutcome, ChecksAreComplete,
      Episodes, Verifying, Checked, IsVerifying
<1>3. CASE Restart
  BY <1>1, <1>3, RestartKeeps
<1>4. ASSUME NEW c \in Client, Moves(c) PROVE ChecksInv'
  BY <1>1, <1>4, QuietKeeps, CommitsKeeps, ClaimsCheckKeeps, EndsKeeps, ClaimsOtherKeeps DEF Moves
<1> QED BY <1>2, <1>3, <1>4, StepMoves

\* It holds at the start.
LEMMA InitChecks == Init => ChecksInv
<1> SUFFICES ASSUME Init PROVE ChecksInv
  OBVIOUS
<1>1. /\ log = <<>> /\ DOMAIN claims = {} /\ Episodes = {} /\ failures = 0
      /\ \A c \in Client : calls[c].op = "none"
  BY DEF Init, Episodes, Idle
<1>2. ChecksAreComplete
  <2>1. {i \in Episodes : ~Verifying(i) /\ ~Checked(i)} = {}
    BY <1>1
  <2>2. Cardinality({}) = 0 /\ Cardinality(Client) \in Nat
    BY FS_EmptySet, FS_CardinalityType, UploadsAssumption
  <2>3. 0 <= 0 * Cardinality(Client)
    BY <2>2
  <2> QED BY <1>1, <2>1, <2>2, <2>3 DEF ChecksAreComplete
<1> QED BY <1>1, <1>2 DEF ChecksInv, OneLeafPerManifest, ClaimsFollowTheLog, VerificationsFollow,
      OneVerification, ClaimsAreAboutTheLog, OneRowPerOutcome, IsVerifying

-----------------------------------------------------------------------------
(* Jobs and their results *)

\* What a job says it logged is in the log, for an episode of the dataset.
AreLogged(leaves, done, org, ds) ==
    \A k \in DOMAIN done :
        /\ done[k].size = done[k].leaf /\ done[k].leaf \in DOMAIN leaves
        /\ \E ref \in 1 .. Refs :
              leaves[done[k].leaf] = Episode(org, <<ds, ref, done[k].salt>>)

RunningJobsFollow ==
    \A c \in Client : calls[c].op = "ingest" =>
        /\ calls[c].ds \in DOMAIN datasets /\ calls[c].org = datasets[calls[c].ds]
        /\ AreLogged(log, calls[c].done, calls[c].org, calls[c].ds)

FinishedJobsFollow ==
    \A j \in DOMAIN cache :
        /\ jobs[j].ds \in DOMAIN datasets
        /\ jobs[j].leaves = [k \in DOMAIN cache[j] |-> cache[j][k].leaf]
        /\ AreLogged(log, cache[j], datasets[jobs[j].ds], jobs[j].ds)

SaltsAreHeld == failures = 0 => \A i \in Ingested : Held(log[i].manifest[3])

JobsInv == RunningJobsFollow /\ FinishedJobsFollow /\ SaltsAreHeld

\* No job begins, logs or ends.
JobsQuiet(c) ==
    /\ \/ calls[c].op # "ingest" /\ calls'[c].op # "ingest"
       \/ /\ calls[c].op = "ingest" /\ calls'[c].op = "ingest"
          /\ calls'[c].org = calls[c].org /\ calls'[c].ds = calls[c].ds
          /\ calls'[c].done = calls[c].done
    /\ \/ ClaimsOnly
       \/ \E org \in Org, m \in Manifest : Committed(org, m)
    /\ UNCHANGED <<jobs, cache>>
    /\ \A d \in DOMAIN datasets : d \in DOMAIN datasets' /\ datasets'[d] = datasets[d]

JobStarts(c) ==
    /\ calls[c] = Idle
    /\ \E d \in DOMAIN datasets : /\ calls'[c].op = "ingest"
                                  /\ calls'[c].org = datasets[d] /\ calls'[c].ds = d
                                  /\ calls'[c].done = <<>>
    /\ UNCHANGED <<log, jobs, cache, datasets>>

JobLogs(c) ==
    /\ calls[c].op = "ingest" /\ calls'[c].op = "ingest"
    /\ calls'[c].org = calls[c].org /\ calls'[c].ds = calls[c].ds
    /\ \E salt \in Salt, ref \in 1 .. Refs :
          /\ Committed(calls[c].org, <<calls[c].ds, ref, salt>>)
          /\ calls'[c].done = Append(calls[c].done, Result(salt))
    /\ UNCHANGED <<jobs, cache, datasets>>

JobEnds(c) ==
    /\ calls[c].op = "ingest" /\ calls'[c] = Idle
    /\ \/ /\ jobs' = Append(jobs, [ds |-> calls[c].ds,
                                   leaves |-> [i \in DOMAIN calls[c].done |-> calls[c].done[i].leaf]])
          /\ cache' = Upsert(cache, Len(jobs'), calls[c].done)
       \/ UNCHANGED <<jobs, cache>> /\ failures' = failures + 1
    /\ UNCHANGED <<log, datasets>>

JobMoves(c) ==
    /\ \A d \in Client : d # c => calls'[d] = calls[d]
    /\ JobsQuiet(c) \/ JobStarts(c) \/ JobLogs(c) \/ JobEnds(c)
    /\ failures' \in {failures, failures + 1}

\* An upload is no part of a job.
LEMMA UploadingJobs ==
    ASSUME IntakeTypeOK, NEW c \in Client, Uploading(c), UNCHANGED Tables
    PROVE  JobMoves(c)
<1>1. /\ calls[c].op # "ingest"
      /\ \E call : Put(c, call) /\ call.op # "ingest"
  <2>1. CASE PostUpload(c) \/ PutUpload(c)
    <3>1. calls[c] = Idle /\ \E call : Put(c, call) /\ call.op \in {"declare", "put"}
      <4>1. ASSUME NEW org, NEW h
            PROVE  /\ [op |-> "declare", org |-> org, file |-> h, found |-> h \in bundle].op = "declare"
                   /\ [op |-> "put", org |-> org, file |-> h, found |-> h \in bundle].op = "put"
        OBVIOUS
      <4>2. CASE PostUpload(c)
        BY <4>1, <4>2, Zenon DEF PostUpload
      <4>3. CASE PutUpload(c)
        BY <4>1, <4>3, Zenon DEF PutUpload
      <4> QED BY <2>1, <4>2, <4>3
    <3> QED BY <3>1 DEF Idle
  <2>2. CASE AnswerPost(c) \/ AnswerPut(c)
    BY <2>2 DEF AnswerPost, AnswerPut, Done, Idle
  <2>3. CASE Stream(c)
    <3>1. calls[c] \in UploadCalls
      BY <2>3, CallIs DEF Stream
    <3>2. [calls[c] EXCEPT !.op = "stored"].op = "stored"
      BY <3>1 DEF UploadCalls
    <3>3. calls[c].op = "put" /\ (Put(c, [calls[c] EXCEPT !.op = "stored"]) \/ Put(c, Idle))
      BY <2>3 DEF Stream, Done
    <3>4. Idle.op = "none"
      BY DEF Idle
    <3> QED BY <3>2, <3>3, <3>4
  <2> QED BY <2>1, <2>2, <2>3 DEF Uploading
<1>2. calls'[c].op # "ingest" /\ \A d \in Client : d # c => calls'[d] = calls[d]
  BY <1>1, PutIs
<1>3. UNCHANGED <<log, jobs, cache, datasets, failures>>
  BY DEF Tables
<1> QED BY <1>1, <1>2, <1>3 DEF JobMoves, JobsQuiet, ClaimsOnly

\* A request that comes in may begin a job.
LEMMA StartJobs ==
    ASSUME IntakeTypeOK, NEW c \in Client,
           StartIngest(c) \/ StartEpisode(c) \/ StartClaim(c) \/ CreateDataset(c)
    PROVE  JobMoves(c)
<1>1. UNCHANGED <<log, jobs, cache, failures>> /\ calls[c] = Idle
  BY DEF StartIngest, StartEpisode, StartClaim, CreateDataset, Start, durable
<1>2. CASE StartIngest(c)
  <2>1. UNCHANGED datasets
    BY <1>2 DEF StartIngest, durable
  <2>2. \E d \in DOMAIN datasets : \E call :
            /\ Put(c, call)
            /\ call.op = "ingest" /\ call.org = datasets[d] /\ call.ds = d /\ call.done = <<>>
    BY <1>2 DEF StartIngest, Start
  <2>3. /\ \A d \in Client : d # c => calls'[d] = calls[d]
        /\ \E d \in DOMAIN datasets : /\ calls'[c].op = "ingest"
                                      /\ calls'[c].org = datasets[d] /\ calls'[c].ds = d
                                      /\ calls'[c].done = <<>>
    BY <2>2, PutIs
  <2> QED BY <1>1, <2>1, <2>3 DEF JobMoves, JobStarts
<1>3. CASE StartEpisode(c) \/ StartClaim(c)
  <2>1. \E call : Put(c, call) /\ call.op # "ingest"
    <3>1. CASE StartEpisode(c)
      BY <3>1 DEF StartEpisode, Start
    <3>2. CASE StartClaim(c)
      BY <3>2 DEF StartClaim, Start
    <3> QED BY <1>3, <3>1, <3>2
  <2>2. calls'[c].op # "ingest" /\ \A d \in Client : d # c => calls'[d] = calls[d]
    BY <2>1, PutIs
  <2>3. UNCHANGED datasets /\ calls[c].op # "ingest"
    BY <1>1, <1>3 DEF StartEpisode, StartClaim, durable, Idle
  <2> QED BY <1>1, <2>2, <2>3 DEF JobMoves, JobsQuiet, ClaimsOnly
<1>4. CASE CreateDataset(c)
  <2>1. UNCHANGED calls /\ \E org \in Org : datasets' = Append(datasets, org)
    BY <1>4 DEF CreateDataset, InsertDataset
  <2>2. \A d \in DOMAIN datasets : d \in DOMAIN datasets' /\ datasets'[d] = datasets[d]
    BY <2>1 DEF IntakeTypeOK
  <2>3. calls[c].op # "ingest"
    BY <1>1 DEF Idle
  <2> QED BY <1>1, <2>1, <2>2, <2>3 DEF JobMoves, JobsQuiet, ClaimsOnly
<1> QED BY <1>2, <1>3, <1>4

\* A turn of the ingest job logs for the job or goes on.
LEMMA CommitRefJobs ==
    ASSUME IntakeTypeOK, NEW c \in Client, CommitRef(c)
    PROVE  JobMoves(c)
<1>1. /\ calls[c] \in IngestCalls /\ calls[c].op = "ingest"
      /\ UNCHANGED <<jobs, cache, datasets>> /\ failures' \in {failures, failures + 1}
  BY CallIs, FailuresMove DEF CommitRef
<1>2. calls[c].next \in 1 .. Refs
  BY <1>1, IntakeAssumption DEF CommitRef, IngestCalls
<1>3. PICK salt \in Salt :
          \/ Put(c, NextRef(calls[c])) /\ UNCHANGED log
          \/ /\ Committed(calls[c].org, <<calls[c].ds, calls[c].next, salt>>)
             /\ Put(c, Verify([calls[c] EXCEPT !.done = Append(@, Result(salt))], Len(log')))
  BY DEF CommitRef
<1>4. CASE Put(c, NextRef(calls[c])) /\ UNCHANGED log
  <2> DEFINE call == NextRef(calls[c])
  <2>1. /\ call.op = "ingest" /\ call.org = calls[c].org /\ call.ds = calls[c].ds
        /\ call.done = calls[c].done
    BY <1>1 DEF NextRef, IngestCalls
  <2>2. calls'[c] = call /\ \A d \in Client : d # c => calls'[d] = calls[d]
    BY <1>4, PutIs
  <2> HIDE DEF call
  <2> QED BY <1>1, <1>4, <2>1, <2>2 DEF JobMoves, JobsQuiet, ClaimsOnly
<1>5. CASE /\ Committed(calls[c].org, <<calls[c].ds, calls[c].next, salt>>)
           /\ Put(c, Verify([calls[c] EXCEPT !.done = Append(@, Result(salt))], Len(log')))
  <2> DEFINE with == [calls[c] EXCEPT !.done = Append(@, Result(salt))]
             call == Verify(with, Len(log'))
  <2>1. DOMAIN with = DOMAIN calls[c]
    OBVIOUS
  <2>2. /\ with.op = "ingest" /\ with.org = calls[c].org /\ with.ds = calls[c].ds
        /\ with.done = Append(calls[c].done, Result(salt))
    BY <1>1 DEF IngestCalls
  <2> HIDE DEF with
  <2>3. {"op", "org", "ds", "done"} \subseteq DOMAIN with
    BY <1>1, <2>1 DEF IngestCalls
  <2>4. call.op = with.op /\ call.org = with.org /\ call.ds = with.ds /\ call.done = with.done
    BY <2>3 DEF Verify
  <2>5. calls'[c] = call /\ \A d \in Client : d # c => calls'[d] = calls[d]
    BY <1>5, PutIs DEF with
  <2> HIDE DEF call
  <2>6. JobLogs(c)
    BY <1>1, <1>2, <1>5, <2>2, <2>4, <2>5 DEF JobLogs
  <2> QED BY <1>1, <2>5, <2>6 DEF JobMoves
<1> QED BY <1>3, <1>4, <1>5

\* The end of the job keeps its result or counts as a failure.
LEMMA FinishIngestJobs ==
    ASSUME IntakeTypeOK, NEW c \in Client, FinishIngest(c)
    PROVE  JobMoves(c)
<1>1. Put(c, Idle) /\ UNCHANGED <<log, datasets>> /\ calls[c].op = "ingest"
  BY DEF FinishIngest, Answer, Done
<1>2. calls'[c] = Idle /\ \A d \in Client : d # c => calls'[d] = calls[d]
  BY <1>1, PutIs
<1>3. failures' \in {failures, failures + 1}
  BY FailuresMove DEF FinishIngest
<1>4. \/ /\ jobs' = Append(jobs, [ds |-> calls[c].ds,
                                   leaves |-> [i \in DOMAIN calls[c].done |-> calls[c].done[i].leaf]])
         /\ cache' = Upsert(cache, Len(jobs'), calls[c].done)
      \/ UNCHANGED <<jobs, cache>> /\ failures' = failures + 1
  BY DEF FinishIngest, InsertJob, Fails
<1> QED BY <1>1, <1>2, <1>3, <1>4 DEF JobMoves, JobEnds

\* POST /episodes logs a manifest of its own.
LEMMA CommitEpisodeJobs ==
    ASSUME IntakeTypeOK, NEW c \in Client, CommitEpisode(c)
    PROVE  JobMoves(c)
<1>1. /\ calls[c] \in EpisodeCalls /\ calls[c].op = "episode" /\ UNCHANGED <<datasets, jobs, cache>>
      /\ failures' \in {failures, failures + 1}
  BY CallIs, FailuresMove DEF CommitEpisode
<1>2. \E call : Put(c, call) /\ call.op # "ingest"
  <2>1. Idle.op # "ingest"
    BY DEF Idle
  <2>2. Verify(calls[c], Len(log')).op # "ingest"
    BY <1>1 DEF Verify, EpisodeCalls
  <2> QED BY <2>1, <2>2 DEF CommitEpisode, Answer, Done
<1>3. calls'[c].op # "ingest" /\ \A d \in Client : d # c => calls'[d] = calls[d]
  BY <1>2, PutIs
<1>4. ClaimsOnly \/ \E org \in Org, m \in Manifest : Committed(org, m)
  <2>1. UNCHANGED log \/ Committed(calls[c].org, calls[c].manifest)
    BY DEF CommitEpisode
  <2>2. calls[c].org \in Org /\ calls[c].manifest \in Manifest
    BY <1>1 DEF EpisodeCalls
  <2> QED BY <2>1, <2>2 DEF ClaimsOnly
<1> QED BY <1>1, <1>3, <1>4 DEF JobMoves, JobsQuiet

\* The worker and POST /claims append claims.
LEMMA ClaimsAreAppended ==
    ASSUME IntakeTypeOK, NEW c \in Client, RunCheck(c) \/ FinishChecks(c) \/ AppendClaim(c)
    PROVE  ClaimsOnly
<1>1. CASE FinishChecks(c)
  BY <1>1 DEF FinishChecks, durable, ClaimsOnly
<1>2. CASE RunCheck(c)
  <2>1. PICK outcome \in Outcome :
            \/ LeafAndRow(OwnClaim(c, outcome), 0)
            \/ LeafAlone(OwnClaim(c, outcome), 0) \/ UNCHANGED log
    BY <1>2 DEF RunCheck, OwnClaim
  <2>2. OwnClaim(c, outcome) \in Claims
    BY <1>2, OwnClaimType
  <2> QED BY <2>1, <2>2 DEF LeafAndRow, LeafAlone, ClaimsOnly
<1>3. CASE AppendClaim(c)
  <2>1. calls[c] \in ClaimCalls
    BY <1>3, CallIs DEF AppendClaim
  <2>2. calls[c].claim \in Claims /\ calls[c].at \in Nat
    BY <2>1 DEF ClaimCalls, Others
  <2> QED BY <1>3, <2>2 DEF AppendClaim, LeafAndRow, LeafAlone, ClaimsOnly
<1> QED BY <1>1, <1>2, <1>3

\* The worker leaves the job as it was.
LEMMA ChecksJobs ==
    ASSUME IntakeTypeOK, NEW c \in Client, RunCheck(c) \/ FinishChecks(c)
    PROVE  JobMoves(c)
<1>1. /\ calls[c].op \in {"ingest", "episode"} /\ UNCHANGED <<datasets, jobs, cache>>
      /\ failures' \in {failures, failures + 1}
  BY FailuresMove DEF RunCheck, FinishChecks, durable, Works
<1>2. ClaimsOnly
  BY ClaimsAreAppended
<1>3. /\ \A d \in Client : d # c => calls'[d] = calls[d]
      /\ \/ calls[c].op # "ingest" /\ calls'[c].op # "ingest"
         \/ /\ calls[c].op = "ingest" /\ calls'[c].op = "ingest"
            /\ calls'[c].org = calls[c].org /\ calls'[c].ds = calls[c].ds
            /\ calls'[c].done = calls[c].done
  <2>1. Idle.op # "ingest"
    BY DEF Idle
  <2>2. CASE Put(c, [calls[c] EXCEPT !.check = @ + 1])
    <3> DEFINE call == [calls[c] EXCEPT !.check = @ + 1]
    <3>1. calls'[c] = call /\ \A d \in Client : d # c => calls'[d] = calls[d]
      BY <2>2, PutIs
    <3>2. CASE calls[c] \in IngestCalls
      <4>1. /\ call.op = "ingest" /\ call.org = calls[c].org /\ call.ds = calls[c].ds
            /\ call.done = calls[c].done /\ calls[c].op = "ingest"
        BY <3>2 DEF IngestCalls
      <4> HIDE DEF call
      <4> QED BY <3>1, <4>1
    <3>3. CASE calls[c] \in EpisodeCalls
      <4>1. call.op = "episode" /\ calls[c].op = "episode"
        BY <3>3 DEF EpisodeCalls
      <4> HIDE DEF call
      <4> QED BY <3>1, <4>1
    <3> QED BY <1>1, <3>2, <3>3, CallIs
  <2>3. CASE Verified(c)
    <3>1. CASE calls[c].op = "ingest"
      <4> DEFINE call == [NextRef(calls[c]) EXCEPT !.at = "commit", !.leaf = 0, !.check = 1]
      <4>1. calls[c] \in IngestCalls
        BY <3>1, CallIs
      <4>2. /\ NextRef(calls[c]) \in IngestCalls
            /\ NextRef(calls[c]).org = calls[c].org /\ NextRef(calls[c]).ds = calls[c].ds
            /\ NextRef(calls[c]).done = calls[c].done
        BY <4>1, CallSteps DEF NextRef, IngestCalls
      <4>3. /\ call.op = "ingest" /\ call.org = calls[c].org /\ call.ds = calls[c].ds
            /\ call.done = calls[c].done
        BY <4>2 DEF IngestCalls
      <4> HIDE DEF call
      <4>4. Put(c, call)
        BY <2>3, <3>1 DEF Verified, call
      <4> QED BY <3>1, <4>3, <4>4, PutIs
    <3>2. CASE calls[c].op = "episode"
      <4>1. Put(c, Idle)
        BY <2>3, <3>2 DEF Verified, Answer, Done
      <4> QED BY <2>1, <3>2, <4>1, PutIs
    <3> QED BY <1>1, <3>1, <3>2
  <2> QED BY <2>2, <2>3 DEF RunCheck, FinishChecks
<1> QED BY <1>1, <1>2, <1>3 DEF JobMoves, JobsQuiet

\* Another verifier's claim is no part of a job.
LEMMA AppendClaimJobs ==
    ASSUME IntakeTypeOK, NEW c \in Client, AppendClaim(c)
    PROVE  JobMoves(c)
<1>1. /\ calls[c] \in ClaimCalls /\ calls[c].op = "claim" /\ UNCHANGED <<datasets, jobs, cache>>
      /\ failures' \in {failures, failures + 1}
  BY CallIs, FailuresMove DEF AppendClaim
<1>2. Put(c, Idle)
  BY DEF AppendClaim, Answer, Done
<1>3. calls'[c].op # "ingest" /\ \A d \in Client : d # c => calls'[d] = calls[d]
  BY <1>2, PutIs DEF Idle
<1>4. ClaimsOnly
  BY ClaimsAreAppended
<1> QED BY <1>1, <1>3, <1>4 DEF JobMoves, JobsQuiet

\* Every step is one of these, a restart or nothing.
LEMMA StepJobs ==
    ASSUME IntakeTypeOK, [Next]_vars
    PROVE  \/ UNCHANGED vars
           \/ Restart
           \/ \E c \in Client : JobMoves(c)
<1>1. ASSUME NEW c \in Client, Uploading(c), UNCHANGED <<durable, cache, answers, failures>>
      PROVE  JobMoves(c)
  BY <1>1, UploadingJobs DEF Tables, durable
<1> QED BY <1>1, StartJobs, CommitRefJobs, FinishIngestJobs, CommitEpisodeJobs, ChecksJobs,
      AppendClaimJobs DEF Next, GetJob

\* What was logged stays logged.
LEMMA LoggedKept ==
    ASSUME DOMAIN log \subseteq DOMAIN log', \A i \in DOMAIN log : log'[i] = log[i],
           NEW done, NEW org, NEW ds, AreLogged(log, done, org, ds)
    PROVE  AreLogged(log', done, org, ds)
BY DEF AreLogged

\* The log after a step that begins or logs nothing for a job.
LEMMA QuietLog ==
    ASSUME IntakeTypeOK, ClaimsOnly \/ \E org \in Org, m \in Manifest : Committed(org, m)
    PROVE  /\ DOMAIN log \subseteq DOMAIN log'
           /\ \A i \in DOMAIN log : log'[i] = log[i]
           /\ Ingested' \subseteq Ingested
<1>1. CASE ClaimsOnly
  BY <1>1, ClaimsOnlyLog DEF Ingested, Episodes
<1>2. ASSUME NEW org \in Org, NEW m \in Manifest, Committed(org, m)
      PROVE  /\ DOMAIN log \subseteq DOMAIN log'
             /\ \A i \in DOMAIN log : log'[i] = log[i]
             /\ Ingested' \subseteq Ingested
  <2>1. m \in Manifest \cup (Nat \X Nat \X Salt)
    OBVIOUS
  <2>2. /\ DOMAIN log \subseteq DOMAIN log'
        /\ \A i \in DOMAIN log : log'[i] = log[i]
        /\ Episodes' = Episodes \cup {Len(log) + 1}
        /\ log'[Len(log) + 1] = Episode(org, m)
    BY <1>2, <2>1, CommittedLog
  <2>3. Episode(org, m).manifest = m
    BY DEF Episode
  <2> QED BY <2>2, <2>3 DEF Ingested, Episodes
<1> QED BY <1>1, <1>2

\* A step that is no part of a job keeps what jobs say.
LEMMA JobsQuietKeeps ==
    ASSUME IntakeTypeOK, JobsInv, NEW c \in Client, JobMoves(c), JobsQuiet(c)
    PROVE  JobsInv'
<1>1. /\ DOMAIN log \subseteq DOMAIN log' /\ \A i \in DOMAIN log : log'[i] = log[i]
      /\ Ingested' \subseteq Ingested
  BY QuietLog DEF JobsQuiet
<1>2. /\ UNCHANGED <<jobs, cache>>
      /\ \A d \in DOMAIN datasets : d \in DOMAIN datasets' /\ datasets'[d] = datasets[d]
  BY DEF JobsQuiet
<1>3. \A d \in Client :
          \/ calls[d].op # "ingest" /\ calls'[d].op # "ingest"
          \/ /\ calls[d].op = "ingest" /\ calls'[d].op = "ingest"
             /\ calls'[d].org = calls[d].org /\ calls'[d].ds = calls[d].ds
             /\ calls'[d].done = calls[d].done
  BY DEF JobMoves, JobsQuiet
<1>4. RunningJobsFollow'
  <2> SUFFICES ASSUME NEW d \in Client, calls'[d].op = "ingest"
               PROVE  /\ calls'[d].ds \in DOMAIN datasets' /\ calls'[d].org = datasets'[calls'[d].ds]
                      /\ AreLogged(log', calls'[d].done, calls'[d].org, calls'[d].ds)
    BY DEF RunningJobsFollow
  <2>1. /\ calls[d].op = "ingest" /\ calls'[d].org = calls[d].org /\ calls'[d].ds = calls[d].ds
        /\ calls'[d].done = calls[d].done
    BY <1>3
  <2>2. /\ calls[d].ds \in DOMAIN datasets /\ calls[d].org = datasets[calls[d].ds]
        /\ AreLogged(log, calls[d].done, calls[d].org, calls[d].ds)
    BY <2>1 DEF JobsInv, RunningJobsFollow
  <2>3. AreLogged(log', calls[d].done, calls[d].org, calls[d].ds)
    BY <1>1, <2>2, LoggedKept
  <2> QED BY <1>2, <2>1, <2>2, <2>3
<1>5. FinishedJobsFollow'
  <2> SUFFICES ASSUME NEW j \in DOMAIN cache
               PROVE  /\ jobs[j].ds \in DOMAIN datasets'
                      /\ jobs[j].leaves = [k \in DOMAIN cache[j] |-> cache[j][k].leaf]
                      /\ AreLogged(log', cache[j], datasets'[jobs[j].ds], jobs[j].ds)
    BY <1>2 DEF FinishedJobsFollow
  <2>1. /\ jobs[j].ds \in DOMAIN datasets
        /\ jobs[j].leaves = [k \in DOMAIN cache[j] |-> cache[j][k].leaf]
        /\ AreLogged(log, cache[j], datasets[jobs[j].ds], jobs[j].ds)
    BY DEF JobsInv, FinishedJobsFollow
  <2>2. AreLogged(log', cache[j], datasets[jobs[j].ds], jobs[j].ds)
    BY <1>1, <2>1, LoggedKept
  <2> QED BY <1>2, <2>1, <2>2
<1>6. SaltsAreHeld'
  <2> SUFFICES ASSUME failures' = 0, NEW i \in Ingested', NEW salt,
                        salt = log'[i].manifest[3]
               PROVE  Held(salt)'
    BY DEF SaltsAreHeld, Held
  <2>1. i \in Ingested /\ log'[i] = log[i]
    BY <1>1 DEF Ingested, Episodes
  <2>2. failures = 0
    BY DEF JobMoves, IntakeTypeOK
  <2>3. Held(salt)
    BY <2>1, <2>2 DEF JobsInv, SaltsAreHeld
  <2> QED BY <1>2, <1>3, <2>3 DEF Held
<1> QED BY <1>4, <1>5, <1>6 DEF JobsInv

\* A job that begins has logged nothing.
LEMMA JobStartsKeeps ==
    ASSUME IntakeTypeOK, JobsInv, NEW c \in Client, JobMoves(c), JobStarts(c)
    PROVE  JobsInv'
<1>1. /\ UNCHANGED <<log, jobs, cache, datasets>> /\ calls[c].op # "ingest"
      /\ \A d \in Client : d # c => calls'[d] = calls[d]
  BY DEF JobStarts, JobMoves, Idle
<1>2. /\ calls'[c].ds \in DOMAIN datasets /\ calls'[c].org = datasets[calls'[c].ds]
      /\ calls'[c].done = <<>>
  BY DEF JobStarts
<1>3. AreLogged(log, <<>>, calls'[c].org, calls'[c].ds)
  BY DEF AreLogged
<1>4. RunningJobsFollow'
  BY <1>1, <1>2, <1>3 DEF JobsInv, RunningJobsFollow
<1>5. FinishedJobsFollow'
  BY <1>1 DEF JobsInv, FinishedJobsFollow
<1>6. SaltsAreHeld'
  <2>1. failures' = 0 => failures = 0
    BY DEF JobMoves, IntakeTypeOK
  <2>2. Ingested' = Ingested
    BY <1>1 DEF Ingested, Episodes
  <2>3. ASSUME NEW salt, Held(salt) PROVE Held(salt)'
    BY <1>1, <2>3 DEF Held
  <2> QED BY <1>1, <2>1, <2>2, <2>3 DEF JobsInv, SaltsAreHeld
<1> QED BY <1>4, <1>5, <1>6 DEF JobsInv

\* What a job logs is held by the job.
LEMMA JobLogsKeeps ==
    ASSUME IntakeTypeOK, JobsInv, NEW c \in Client, JobMoves(c), JobLogs(c)
    PROVE  JobsInv'
<1>1. /\ calls[c].op = "ingest" /\ calls'[c].op = "ingest"
      /\ calls'[c].org = calls[c].org /\ calls'[c].ds = calls[c].ds
      /\ UNCHANGED <<jobs, cache, datasets>>
      /\ \A d \in Client : d # c => calls'[d] = calls[d]
  BY DEF JobLogs, JobMoves
<1>2. PICK salt \in Salt, ref \in 1 .. Refs :
          /\ Committed(calls[c].org, <<calls[c].ds, ref, salt>>)
          /\ calls'[c].done = Append(calls[c].done, Result(salt))
  BY DEF JobLogs
<1>3. /\ calls[c].org \in Org /\ calls[c].ds \in Nat /\ calls[c].done \in Seq(Results)
  BY <1>1, CallIs DEF IngestCalls
<1>4. <<calls[c].ds, ref, salt>> \in Manifest \cup (Nat \X Nat \X Salt)
  BY <1>3, IntakeAssumption
<1>5. PICK n : n = Len(log) + 1
  OBVIOUS
<1>6. /\ DOMAIN log \subseteq DOMAIN log' /\ \A i \in DOMAIN log : log'[i] = log[i]
      /\ Episodes' = Episodes \cup {n} /\ n \notin DOMAIN log /\ n \in DOMAIN log'
      /\ log'[n] = Episode(calls[c].org, <<calls[c].ds, ref, salt>>)
  BY <1>2, <1>3, <1>4, <1>5, CommittedLog DEF Episodes
<1>7. Len(log') = n
  <2>1. Episode(calls[c].org, <<calls[c].ds, ref, salt>>) \in LogLeaves
    BY <1>3, <1>4, LeafTypes
  <2> QED BY <1>2, <1>5, <2>1, AppendLeaf DEF Committed
<1>8. PICK result : result = Result(salt)
  OBVIOUS
<1>9. result.leaf = n /\ result.size = n /\ result.salt = salt /\ result \in Results
  <2>1. n \in Nat
    BY <1>5 DEF IntakeTypeOK
  <2> QED BY <1>5, <1>7, <1>8, <2>1 DEF Result, Results
<1>10. PICK m : m = Len(calls[c].done) + 1
  OBVIOUS
<1>11. /\ DOMAIN calls'[c].done = DOMAIN calls[c].done \cup {m}
       /\ calls'[c].done[m] = result
       /\ \A k \in DOMAIN calls[c].done : calls'[c].done[k] = calls[c].done[k]
  BY <1>2, <1>3, <1>8, <1>9, <1>10
<1>12. RunningJobsFollow'
  <2> SUFFICES ASSUME NEW d \in Client, calls'[d].op = "ingest"
               PROVE  /\ calls'[d].ds \in DOMAIN datasets /\ calls'[d].org = datasets[calls'[d].ds]
                      /\ AreLogged(log', calls'[d].done, calls'[d].org, calls'[d].ds)
    BY <1>1 DEF RunningJobsFollow
  <2>1. /\ calls[d].ds \in DOMAIN datasets /\ calls[d].org = datasets[calls[d].ds]
        /\ AreLogged(log', calls[d].done, calls[d].org, calls[d].ds)
    <3>1. /\ calls[d].ds \in DOMAIN datasets /\ calls[d].org = datasets[calls[d].ds]
          /\ AreLogged(log, calls[d].done, calls[d].org, calls[d].ds)
      BY <1>1 DEF JobsInv, RunningJobsFollow
    <3> QED BY <1>6, <3>1, LoggedKept
  <2>2. CASE d # c
    BY <1>1, <2>1, <2>2
  <2>3. CASE d = c
    <3>1. AreLogged(log', calls'[c].done, calls[c].org, calls[c].ds)
      BY <1>6, <1>9, <1>11, <2>1, <2>3 DEF AreLogged
    <3> QED BY <1>1, <2>1, <2>3, <3>1
  <2> QED BY <2>2, <2>3
<1>13. FinishedJobsFollow'
  <2> SUFFICES ASSUME NEW j \in DOMAIN cache
               PROVE  /\ jobs[j].ds \in DOMAIN datasets
                      /\ jobs[j].leaves = [k \in DOMAIN cache[j] |-> cache[j][k].leaf]
                      /\ AreLogged(log', cache[j], datasets[jobs[j].ds], jobs[j].ds)
    BY <1>1 DEF FinishedJobsFollow
  <2>1. /\ jobs[j].ds \in DOMAIN datasets
        /\ jobs[j].leaves = [k \in DOMAIN cache[j] |-> cache[j][k].leaf]
        /\ AreLogged(log, cache[j], datasets[jobs[j].ds], jobs[j].ds)
    BY DEF JobsInv, FinishedJobsFollow
  <2> QED BY <1>6, <2>1, LoggedKept
<1>14. SaltsAreHeld'
  <2> SUFFICES ASSUME failures' = 0, NEW i \in Ingested', NEW old,
                        old = log'[i].manifest[3]
               PROVE  Held(old)'
    BY DEF SaltsAreHeld, Held
  <2>1. CASE i = n
    <3>1. old = salt
      BY <1>6, <2>1 DEF Episode
    <3> QED BY <1>1, <1>9, <1>11, <3>1 DEF Held
  <2>2. CASE i # n
    <3>1. i \in Ingested /\ log'[i] = log[i]
      BY <1>6, <2>2 DEF Ingested, Episodes
    <3>2. failures = 0
      BY DEF JobMoves, IntakeTypeOK
    <3>3. Held(old)
      BY <3>1, <3>2 DEF JobsInv, SaltsAreHeld
    <3>4. CASE \E j \in DOMAIN cache : \E k \in DOMAIN cache[j] : cache[j][k].salt = old
      BY <1>1, <3>4 DEF Held
    <3>5. ASSUME NEW d \in Client, calls[d].op = "ingest",
                 NEW k \in DOMAIN calls[d].done, calls[d].done[k].salt = old
          PROVE  /\ calls'[d].op = "ingest" /\ k \in DOMAIN calls'[d].done
                 /\ calls'[d].done[k].salt = old
      BY <1>1, <1>11, <3>5
    <3> QED BY <3>3, <3>4, <3>5 DEF Held
  <2> QED BY <2>1, <2>2
<1> QED BY <1>12, <1>13, <1>14 DEF JobsInv

\* What the job held is held by the cache, unless a failure is counted.
LEMMA JobEndsKeeps ==
    ASSUME IntakeTypeOK, JobsInv, NEW c \in Client, JobMoves(c), JobEnds(c)
    PROVE  JobsInv'
<1>1. /\ UNCHANGED <<log, datasets>> /\ calls[c].op = "ingest" /\ calls'[c].op # "ingest"
      /\ \A d \in Client : d # c => calls'[d] = calls[d]
  BY DEF JobEnds, JobMoves, Idle
<1>2. RunningJobsFollow'
  BY <1>1 DEF JobsInv, RunningJobsFollow
<1>3. failures \in Nat
  BY DEF IntakeTypeOK
<1>4. CASE UNCHANGED <<jobs, cache>> /\ failures' = failures + 1
  BY <1>1, <1>2, <1>3, <1>4 DEF JobsInv, FinishedJobsFollow, SaltsAreHeld
<1>5. CASE /\ jobs' = Append(jobs, [ds |-> calls[c].ds,
                                    leaves |-> [i \in DOMAIN calls[c].done |-> calls[c].done[i].leaf]])
           /\ cache' = Upsert(cache, Len(jobs'), calls[c].done)
  <2> DEFINE job == [ds |-> calls[c].ds,
                     leaves |-> [i \in DOMAIN calls[c].done |-> calls[c].done[i].leaf]]
  <2>1. calls[c].ds \in Nat /\ calls[c].done \in Seq(Results)
    BY <1>1, CallIs DEF IngestCalls
  <2>2. job \in Jobs
    <3>1. \A k \in 1 .. Len(calls[c].done) : calls[c].done[k] \in Results
      BY <2>1
    <3>2. \A k \in 1 .. Len(calls[c].done) : calls[c].done[k].leaf \in Nat
      BY <3>1 DEF Results
    <3>3. [i \in DOMAIN calls[c].done |-> calls[c].done[i].leaf] \in Seq(Nat)
      BY <2>1, <3>2
    <3> QED BY <2>1, <3>3 DEF Jobs
  <2>3. job.ds = calls[c].ds /\ job.leaves = [i \in DOMAIN calls[c].done |-> calls[c].done[i].leaf]
    OBVIOUS
  <2>4. jobs' = Append(jobs, job)
    BY <1>5
  <2> HIDE DEF job
  <2>5. PICK n : n = Len(jobs) + 1
    OBVIOUS
  <2>6. /\ Len(jobs') = n /\ jobs'[n] = job
        /\ \A j \in 1 .. Len(jobs) : jobs'[j] = jobs[j]
        /\ n \notin 1 .. Len(jobs)
    BY <2>2, <2>4, <2>5 DEF IntakeTypeOK
  <2>7. DOMAIN cache \subseteq 1 .. Len(jobs)
    BY DEF IntakeTypeOK, IsTable
  <2>8. /\ DOMAIN cache' = DOMAIN cache \cup {n} /\ cache'[n] = calls[c].done
        /\ \A j \in DOMAIN cache : cache'[j] = cache[j]
    BY <1>5, <2>6, <2>7 DEF Upsert
  <2>9. FinishedJobsFollow'
    <3> SUFFICES ASSUME NEW j \in DOMAIN cache'
                 PROVE  /\ jobs'[j].ds \in DOMAIN datasets
                        /\ jobs'[j].leaves = [k \in DOMAIN cache'[j] |-> cache'[j][k].leaf]
                        /\ AreLogged(log, cache'[j], datasets[jobs'[j].ds], jobs'[j].ds)
      BY <1>1 DEF FinishedJobsFollow
    <3>1. CASE j = n
      <4>1. /\ calls[c].ds \in DOMAIN datasets /\ calls[c].org = datasets[calls[c].ds]
            /\ AreLogged(log, calls[c].done, calls[c].org, calls[c].ds)
        BY <1>1 DEF JobsInv, RunningJobsFollow
      <4> QED BY <2>3, <2>6, <2>8, <3>1, <4>1
    <3>2. CASE j # n
      <4>1. j \in DOMAIN cache /\ cache'[j] = cache[j] /\ jobs'[j] = jobs[j]
        BY <2>6, <2>7, <2>8, <3>2
      <4> QED BY <4>1 DEF JobsInv, FinishedJobsFollow
    <3> QED BY <3>1, <3>2
  <2>10. SaltsAreHeld'
    <3> SUFFICES ASSUME failures' = 0, NEW i \in Ingested', NEW salt,
                          salt = log'[i].manifest[3]
                 PROVE  Held(salt)'
      BY DEF SaltsAreHeld, Held
    <3>1. i \in Ingested /\ log'[i] = log[i]
      BY <1>1 DEF Ingested, Episodes
    <3>2. failures = 0
      BY DEF JobMoves, IntakeTypeOK
    <3>3. Held(salt)
      BY <3>1, <3>2 DEF JobsInv, SaltsAreHeld
    <3>4. ASSUME NEW j \in DOMAIN cache, NEW k \in DOMAIN cache[j], cache[j][k].salt = salt
          PROVE  j \in DOMAIN cache' /\ k \in DOMAIN cache'[j] /\ cache'[j][k].salt = salt
      BY <2>8, <3>4
    <3>5. ASSUME NEW d \in Client, calls[d].op = "ingest",
                 NEW k \in DOMAIN calls[d].done, calls[d].done[k].salt = salt
          PROVE  Held(salt)'
      <4>1. CASE d = c
        <5>1. n \in DOMAIN cache' /\ k \in DOMAIN cache'[n] /\ cache'[n][k].salt = salt
          BY <2>8, <3>5, <4>1
        <5> QED BY <5>1 DEF Held
      <4>2. CASE d # c
        BY <1>1, <3>5, <4>2 DEF Held
      <4> QED BY <4>1, <4>2
    <3> QED BY <3>3, <3>4, <3>5 DEF Held
  <2> QED BY <1>2, <2>9, <2>10 DEF JobsInv
<1> QED BY <1>4, <1>5 DEF JobEnds

\* A restart loses the results in memory, which failures counts.
LEMMA RestartJobs ==
    ASSUME IntakeTypeOK, JobsInv, Restart
    PROVE  JobsInv'
<1>1. /\ DOMAIN cache' = {} /\ failures' # 0
      /\ \A c \in Client : calls'[c].op # "ingest"
  BY DEF Restart, Fails, Idle, IntakeTypeOK
<1> QED BY <1>1 DEF JobsInv, RunningJobsFollow, FinishedJobsFollow, SaltsAreHeld

\* Every step keeps what jobs say.
LEMMA StepKeepsJobs == IntakeTypeOK /\ JobsInv /\ [Next]_vars => JobsInv'
<1> SUFFICES ASSUME IntakeTypeOK, JobsInv, [Next]_vars PROVE JobsInv'
  OBVIOUS
<1>1. CASE UNCHANGED vars
  BY <1>1 DEF vars, durable, JobsInv, RunningJobsFollow, FinishedJobsFollow, SaltsAreHeld, Ingested,
      Episodes, Held
<1>2. CASE Restart
  BY <1>2, RestartJobs
<1>3. ASSUME NEW c \in Client, JobMoves(c) PROVE JobsInv'
  BY <1>3, JobsQuietKeeps, JobStartsKeeps, JobLogsKeeps, JobEndsKeeps DEF JobMoves
<1> QED BY <1>1, <1>2, <1>3, StepJobs

\* There are no jobs at the start.
LEMMA InitJobs == Init => JobsInv
<1> SUFFICES ASSUME Init PROVE JobsInv
  OBVIOUS
<1>1. DOMAIN log = {} /\ DOMAIN cache = {} /\ \A c \in Client : calls[c].op # "ingest"
  BY DEF Init, Idle
<1> QED BY <1>1 DEF JobsInv, RunningJobsFollow, FinishedJobsFollow, SaltsAreHeld, Ingested, Episodes

\* What jobs say is what GET /jobs promises.
LEMMA JobsResults == JobsInv => JobResultsHold
BY DEF JobsInv, FinishedJobsFollow, SaltsAreHeld, JobResultsHold, AreLogged

-----------------------------------------------------------------------------
(* The files behind what is registered *)

\* What a request has seen of the disk is still there.
Holds(call, disk) ==
    /\ call.op \in {"declare", "put"} /\ call.found => call.file \in disk
    /\ call.op = "stored" => call.file \in disk
    /\ call.op = "ingest" => File \subseteq disk

FilesInv == RegisteredFilesAreHeld /\ \A c \in Client : Holds(calls[c], bundle)

\* A row is marked stored for an object that is on disk.
StoredRowsAreHeld(table, disk) ==
    \A h \in DOMAIN table : table[h].status = "stored" => h \in disk

\* The registry marks only what is there.
LEMMA RowsHeld ==
    ASSUME NEW table, NEW disk, NEW h, NEW org, StoredRowsAreHeld(table, disk)
    PROVE  /\ StoredRowsAreHeld(WithPending(table, h, org), disk)
           /\ h \in disk => StoredRowsAreHeld(WithStored(table, h), disk)
<1>1. ASSUME NEW row, row.status = "stored" => h \in disk
      PROVE  StoredRowsAreHeld(Upsert(table, h, row), disk)
  BY <1>1 DEF StoredRowsAreHeld, Upsert
<1>2. [org |-> org, status |-> "pending"].status # "stored"
  OBVIOUS
<1> QED BY <1>1, <1>2 DEF WithPending, WithStored

\* An upload marks the object it saw or put in place.
LEMMA UploadingFiles ==
    ASSUME IntakeTypeOK, FilesInv, NEW c \in Client, Uploading(c), UNCHANGED Tables
    PROVE  FilesInv'
<1>1. /\ UNCHANGED <<log, datasets>> /\ StoredRowsAreHeld(rows, bundle)
      /\ \A d \in Client : Holds(calls[d], bundle)
      /\ datasets # <<>> \/ Episodes # {} => File \subseteq bundle
  BY DEF Tables, FilesInv, RegisteredFilesAreHeld, StoredRowsAreHeld
<1>2. /\ bundle \subseteq bundle' /\ StoredRowsAreHeld(rows', bundle')
      /\ \E call : Put(c, call) /\ Holds(call, bundle')
  <2>1. CASE PostUpload(c) \/ PutUpload(c)
    <3>1. UNCHANGED <<bundle, rows>>
      BY <2>1 DEF PostUpload, PutUpload, uploadVars
    <3>2. ASSUME NEW org, NEW h, NEW op \in {"declare", "put"}
          PROVE  Holds([op |-> op, org |-> org, file |-> h, found |-> h \in bundle], bundle)
      BY DEF Holds
    <3>3. \E call : Put(c, call) /\ Holds(call, bundle)
      BY <2>1, <3>2 DEF PostUpload, PutUpload
    <3> QED BY <1>1, <3>1, <3>3
  <2>2. Holds(Idle, bundle)
    BY DEF Holds, Idle
  <2>3. CASE AnswerPost(c)
    <3> DEFINE declared == WithPending(rows, calls[c].file, calls[c].org)
    <3>1. Put(c, Idle) /\ UNCHANGED bundle
      BY <2>3 DEF AnswerPost, Done
    <3>2. \/ rows' = declared
          \/ rows' = WithStored(declared, calls[c].file) /\ calls[c].file \in bundle
      BY <1>1, <2>3 DEF AnswerPost, Holds
    <3>3. StoredRowsAreHeld(declared, bundle)
      BY <1>1, RowsHeld
    <3> HIDE DEF declared
    <3>4. StoredRowsAreHeld(rows', bundle)
      BY <3>2, <3>3, RowsHeld
    <3> QED BY <2>2, <3>1, <3>4
  <2>4. CASE Stream(c)
    <3>1. calls[c] \in UploadCalls /\ calls[c].op = "put" /\ ~calls[c].found
      BY <2>4, CallIs DEF Stream
    <3>2. UNCHANGED rows /\ bundle \subseteq bundle'
      BY <2>4 DEF Stream
    <3>3. \E call : Put(c, call) /\ Holds(call, bundle')
      <4>1. CASE /\ bundle' = bundle \cup {calls[c].file}
                 /\ Put(c, [calls[c] EXCEPT !.op = "stored"])
        <5> DEFINE call == [calls[c] EXCEPT !.op = "stored"]
        <5>1. call.op = "stored" /\ call.file = calls[c].file
          BY <3>1 DEF UploadCalls
        <5> HIDE DEF call
        <5>2. Holds(call, bundle')
          BY <4>1, <5>1 DEF Holds
        <5> QED BY <4>1, <5>2 DEF call
      <4>2. CASE UNCHANGED bundle /\ Put(c, Idle)
        BY <2>2, <4>2
      <4> QED BY <2>4, <4>1, <4>2 DEF Stream, Done
    <3> QED BY <1>1, <3>2, <3>3 DEF StoredRowsAreHeld
  <2>5. CASE AnswerPut(c)
    <3> DEFINE declared == WithPending(rows, calls[c].file, calls[c].org)
    <3>1. Put(c, Idle) /\ UNCHANGED bundle
      BY <2>5 DEF AnswerPut, Done
    <3>2. /\ rows' \in {WithStored(rows, calls[c].file), WithStored(declared, calls[c].file)}
          /\ calls[c].file \in bundle
      BY <1>1, <2>5 DEF AnswerPut, Holds
    <3>3. StoredRowsAreHeld(declared, bundle)
      BY <1>1, RowsHeld
    <3> HIDE DEF declared
    <3>4. StoredRowsAreHeld(rows', bundle)
      BY <1>1, <3>2, <3>3, RowsHeld
    <3> QED BY <2>2, <3>1, <3>4
  <2> QED BY <2>1, <2>3, <2>4, <2>5 DEF Uploading
<1>3. Holds(calls'[c], bundle') /\ \A d \in Client : d # c => calls'[d] = calls[d]
  BY <1>2, PutIs
<1>4. \A d \in Client : Holds(calls'[d], bundle')
  BY <1>1, <1>2, <1>3 DEF Holds
<1>5. RegisteredFilesAreHeld'
  BY <1>1, <1>2 DEF RegisteredFilesAreHeld, StoredRowsAreHeld, Episodes
<1> QED BY <1>4, <1>5 DEF FilesInv

\* No other request touches the bundle store or the registry; one that puts
\* something into the log or the datasets saw the files.
LEMMA OthersFiles ==
    ASSUME IntakeTypeOK, FilesInv, NEW c \in Client,
           \/ CreateDataset(c) \/ StartIngest(c) \/ CommitRef(c) \/ FinishIngest(c)
           \/ StartEpisode(c) \/ CommitEpisode(c) \/ RunCheck(c) \/ FinishChecks(c)
           \/ StartClaim(c) \/ AppendClaim(c)
    PROVE  FilesInv'
<1>1. UNCHANGED <<bundle, rows>>
  BY DEF CreateDataset, StartIngest, CommitRef, FinishIngest, StartEpisode, CommitEpisode, RunCheck,
      FinishChecks, StartClaim, AppendClaim, uploadVars
<1>2. (\A f \in File : Usable(calls[c].org, f)) => File \subseteq bundle
  BY DEF FilesInv, RegisteredFilesAreHeld, Usable
<1>3. /\ \A d \in Client : d # c => calls'[d] = calls[d]
      /\ Holds(calls'[c], bundle)
      /\ \/ UNCHANGED <<log, datasets>> \/ File \subseteq bundle
         \/ ClaimsOnly /\ UNCHANGED datasets
  <2>1. CASE StartIngest(c)
    <3>1. File \subseteq bundle /\ UNCHANGED <<log, datasets>> /\ \E call : Put(c, call) /\ call.op = "ingest"
      BY <2>1 DEF StartIngest, Start, durable
    <3>2. calls'[c].op = "ingest" /\ \A d \in Client : d # c => calls'[d] = calls[d]
      BY <3>1, PutIs
    <3> QED BY <3>1, <3>2 DEF Holds
  <2>2. CASE CommitRef(c) \/ FinishIngest(c)
    <3>1. JobMoves(c) /\ calls[c].op = "ingest"
      BY <2>2, CommitRefJobs, FinishIngestJobs DEF CommitRef, FinishIngest
    <3>2. File \subseteq bundle
      BY <3>1 DEF FilesInv, Holds
    <3>3. calls'[c].op \in {"ingest", "none"}
      BY <3>1 DEF JobMoves, JobsQuiet, JobStarts, JobLogs, JobEnds, Idle
    <3> QED BY <3>1, <3>2, <3>3 DEF JobMoves, Holds
  <2>3. CASE CreateDataset(c)
    <3>1. UNCHANGED calls /\ \E org \in Org : \A f \in File : Usable(org, f)
      BY <2>3 DEF CreateDataset
    <3>2. File \subseteq bundle
      BY <3>1 DEF FilesInv, RegisteredFilesAreHeld, Usable
    <3> QED BY <3>1, <3>2 DEF FilesInv
  <2>4. CASE StartEpisode(c) \/ StartClaim(c)
    <3>1. UNCHANGED <<log, datasets>> /\ \E call : Put(c, call) /\ call.op \in {"episode", "claim"}
      <4>1. CASE StartEpisode(c)
        BY <4>1 DEF StartEpisode, Start, durable
      <4>2. CASE StartClaim(c)
        BY <4>2 DEF StartClaim, Start, durable
      <4> QED BY <2>4, <4>1, <4>2
    <3>2. /\ calls'[c].op \in {"episode", "claim"}
          /\ \A d \in Client : d # c => calls'[d] = calls[d]
      BY <3>1, PutIs
    <3> QED BY <3>1, <3>2 DEF Holds
  <2>5. CASE CommitEpisode(c)
    <3>1. calls[c] \in EpisodeCalls
      BY <2>5, CallIs DEF CommitEpisode
    <3>2. Verify(calls[c], Len(log')).op = "episode" /\ Idle.op = "none"
      BY <3>1 DEF Verify, EpisodeCalls, Idle
    <3>3. \E call : Put(c, call) /\ call.op \in {"episode", "none"}
      BY <2>5, <3>2 DEF CommitEpisode, Answer, Done
    <3>4. /\ calls'[c].op \in {"episode", "none"}
          /\ \A d \in Client : d # c => calls'[d] = calls[d]
      BY <3>3, PutIs
    <3>5. UNCHANGED datasets /\ (UNCHANGED log \/ File \subseteq bundle)
      BY <1>2, <2>5 DEF CommitEpisode
    <3> QED BY <3>4, <3>5 DEF Holds
  <2>6. CASE RunCheck(c) \/ FinishChecks(c) \/ AppendClaim(c)
    <3>1. ClaimsOnly /\ JobMoves(c)
      BY <2>6, ClaimsAreAppended, ChecksJobs, AppendClaimJobs
    <3>2. UNCHANGED datasets
      BY <2>6 DEF RunCheck, FinishChecks, AppendClaim, durable
    <3>3. CASE calls[c].op = "ingest"
      <4>1. calls'[c].op \in {"ingest", "none"} /\ File \subseteq bundle
        BY <3>1, <3>3 DEF JobMoves, JobsQuiet, JobStarts, JobLogs, JobEnds, Idle, FilesInv, Holds
      <4> QED BY <3>1, <4>1 DEF JobMoves, Holds
    <3>4. CASE calls[c].op # "ingest"
      <4>1. Idle.op = "none"
        BY DEF Idle
      <4>2. [calls[c] EXCEPT !.check = @ + 1].op = calls[c].op \/ AppendClaim(c)
        <5>1. CASE RunCheck(c) \/ FinishChecks(c)
          <6>1. calls[c] \in EpisodeCalls
            BY <3>4, <5>1, CallIs DEF RunCheck, FinishChecks
          <6> QED BY <6>1 DEF EpisodeCalls
        <5> QED BY <2>6, <5>1
      <4>3. \E call : Put(c, call) /\ call.op \in {"episode", "none"}
        BY <2>6, <3>4, <4>1, <4>2
        DEF RunCheck, FinishChecks, AppendClaim, Verified, Answer, Done
      <4>4. calls'[c].op \in {"episode", "none"}
        BY <4>3, PutIs
      <4> QED BY <3>1, <3>2, <4>4 DEF JobMoves, Holds
    <3> QED BY <3>3, <3>4
  <2> QED BY <2>1, <2>2, <2>3, <2>4, <2>5, <2>6
<1>4. \A d \in Client : Holds(calls'[d], bundle')
  BY <1>1, <1>3 DEF FilesInv
<1>5. UNCHANGED <<log, datasets>> \/ (ClaimsOnly /\ UNCHANGED datasets) =>
          UNCHANGED datasets /\ Episodes' = Episodes
  BY ClaimsOnlyLog DEF Episodes
<1>6. RegisteredFilesAreHeld'
  BY <1>1, <1>3, <1>5 DEF FilesInv, RegisteredFilesAreHeld
<1> QED BY <1>4, <1>6 DEF FilesInv

\* Every step keeps the files behind what is registered.
LEMMA StepKeepsFiles == IntakeTypeOK /\ FilesInv /\ [Next]_vars => FilesInv'
<1> SUFFICES ASSUME IntakeTypeOK, FilesInv, [Next]_vars PROVE FilesInv'
  OBVIOUS
<1>1. CASE UNCHANGED vars
  BY <1>1 DEF vars, durable, uploadVars, FilesInv, RegisteredFilesAreHeld, Episodes, Holds
<1>2. CASE Restart
  <2>1. /\ UNCHANGED <<bundle, log, datasets>> /\ DOMAIN rows' = {}
        /\ \A c \in Client : calls'[c] = Idle
    BY <1>2 DEF Restart, UploadRestart, durable
  <2>2. Holds(Idle, bundle)
    BY DEF Holds, Idle
  <2> QED BY <2>1, <2>2 DEF FilesInv, RegisteredFilesAreHeld, Episodes
<1>3. ASSUME NEW c \in Client, Uploading(c), UNCHANGED <<durable, cache, answers, failures>>
      PROVE  FilesInv'
  BY <1>3, UploadingFiles DEF Tables, durable
<1> QED BY <1>1, <1>2, <1>3, OthersFiles DEF Next, GetJob

\* Nothing is registered at the start.
LEMMA InitFiles == Init => FilesInv
<1> SUFFICES ASSUME Init PROVE FilesInv
  OBVIOUS
<1>1. /\ DOMAIN rows = {} /\ datasets = <<>> /\ Episodes = {}
      /\ \A c \in Client : calls[c] = Idle
  BY DEF Init, UploadInit, Episodes
<1>2. Holds(Idle, bundle)
  BY DEF Holds, Idle
<1> QED BY <1>1, <1>2 DEF FilesInv, RegisteredFilesAreHeld

-----------------------------------------------------------------------------
IntakeInv == IntakeTypeOK /\ ChecksInv /\ JobsInv /\ FilesInv

\* The inductive invariant.
LEMMA Invariant == Spec => []IntakeInv
<1>1. Init => IntakeInv
  BY InitTypes, InitChecks, InitJobs, InitFiles DEF IntakeInv
<1>2. IntakeInv /\ [Next]_vars => IntakeInv'
  BY StepKeepsTypes, StepKeepsChecks, StepKeepsJobs, StepKeepsFiles DEF IntakeInv
<1> QED BY <1>1, <1>2, PTL DEF Spec

\* Requests, tables and the log keep their types, for any number of requests,
\* datasets, jobs and leaves.
THEOREM IntakeTypeCorrect == Spec => []IntakeTypeOK
<1>1. IntakeInv => IntakeTypeOK
  BY DEF IntakeInv
<1> QED BY <1>1, Invariant, PTL

\* An organisation's manifest is one leaf for ever, however many requests carry
\* it at once or again after a failure (commit.ts:68-74).
THEOREM OneLeafPerManifestHolds == Spec => []OneLeafPerManifest
<1>1. IntakeInv => OneLeafPerManifest
  BY DEF IntakeInv, ChecksInv
<1> QED BY <1>1, Invariant, PTL

\* A verifier's outcome about an episode has one row, which is of its own leaf
\* (issue.ts:22-26).
THEOREM OneRowPerOutcomeHolds == Spec => []OneRowPerOutcome
<1>1. IntakeInv => OneRowPerOutcome
  BY DEF IntakeInv, ChecksInv
<1> QED BY <1>1, Invariant, PTL

\* Each failed write leaves at most one episode without all of its checks and
\* each restart at most one for every request (worker.ts:19-24).
THEOREM ChecksAreCompleteHolds == Spec => []ChecksAreComplete
<1>1. IntakeInv => ChecksAreComplete
  BY DEF IntakeInv, ChecksInv
<1> QED BY <1>1, Invariant, PTL

\* A job's result is what was logged for it, and no salt is lost before
\* something fails (job.ts:119-166).
THEOREM JobResultsAlwaysHold == Spec => []JobResultsHold
<1>1. IntakeInv => JobResultsHold
  BY JobsResults DEF IntakeInv
<1> QED BY <1>1, Invariant, PTL

\* What is registered or logged can be read from the bundle store
\* (uploads.ts:83-91).
THEOREM RegisteredFilesAreAlwaysHeld == Spec => []RegisteredFilesAreHeld
<1>1. IntakeInv => RegisteredFilesAreHeld
  BY DEF IntakeInv, FilesInv
<1> QED BY <1>1, Invariant, PTL
=============================================================================
