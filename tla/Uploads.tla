------------------------------ MODULE Uploads -------------------------------
(***************************************************************************)
(* How files reach the bundle store (services/api/src/routes/uploads.ts,   *)
(* store/uploadRegistry.ts, store/localBundleStore.ts). Objects are kept   *)
(* on disk under their hash; who uploaded them is a row in memory. Each    *)
(* handler is cut where it awaits the disk; the registry's own promises    *)
(* resolve at once and are not.                                            *)
(***************************************************************************)
EXTENDS Naturals, FiniteSets

CONSTANTS
    Client,   \* requests the process serves at a time
    Org,
    Content,  \* hashes of files
    Nobody    \* the organisation "" of a row nobody declared

ASSUME UploadsAssumption == Nobody \notin Org /\ IsFiniteSet(Client)

VARIABLES
    bundle,  \* LocalBundleStore: the objects on disk
    rows,    \* MemoryUploadRegistry, a row for each hash it has seen
    calls    \* what each request is doing

uploadVars == <<bundle, rows>>

Idle == [op |-> "none"]
Put(c, call) == calls' = [calls EXCEPT ![c] = call]
Done(c) == Put(c, Idle)

\* A table, a map from keys to values, once a key has this value.
Upsert(table, key, value) ==
    [k \in DOMAIN table \cup {key} |-> IF k = key THEN value ELSE table[k]]

\* putPending leaves a row there is untouched; markStored makes one if there is none.
WithPending(r, h, org) ==
    IF h \in DOMAIN r THEN r ELSE Upsert(r, h, [org |-> org, status |-> "pending"])
WithStored(r, h) ==
    Upsert(r, h, [org |-> IF h \in DOMAIN r THEN r[h].org ELSE Nobody, status |-> "stored"])

\* What POST /datasets and POST /episodes ask of every file.
Usable(org, h) == h \in DOMAIN rows /\ rows[h] = [org |-> org, status |-> "stored"]

-----------------------------------------------------------------------------
\* POST /uploads: has() is awaited, then the registry is told. A client sends
\* what it cannot use yet (a bound).
PostUpload(c) ==
    /\ calls[c] = Idle
    /\ \E org \in Org, h \in Content :
        /\ ~Usable(org, h)
        /\ Put(c, [op |-> "declare", org |-> org, file |-> h, found |-> h \in bundle])
    /\ UNCHANGED uploadVars

\* ... {stored: true} when the object is there, else where to PUT it.
AnswerPost(c) ==
    LET call == calls[c]
        declared == WithPending(rows, call.file, call.org) IN
    /\ call.op = "declare"
    /\ rows' = IF call.found THEN WithStored(declared, call.file) ELSE declared
    /\ Done(c)
    /\ UNCHANGED bundle

\* PUT /uploads/{hash}, with or without a POST before it.
PutUpload(c) ==
    /\ calls[c] = Idle
    /\ \E org \in Org, h \in Content :
        /\ ~Usable(org, h)
        /\ Put(c, [op |-> "put", org |-> org, file |-> h, found |-> h \in bundle])
    /\ UNCHANGED uploadVars

\* A slip used as a mutant: the row is marked before the object is in place.
StreamAfterMarking(c) ==
    LET call == calls[c] IN
    /\ call.op = "put" /\ ~call.found
    /\ \/ /\ rows' = WithStored(rows, call.file) /\ UNCHANGED bundle
       \/ /\ bundle' = bundle \cup {call.file} /\ UNCHANGED rows
    /\ Put(c, [call EXCEPT !.op = "stored"])

\* put(): a temporary file, renamed into place once its hash and length are
\* the declared ones; any other body leaves nothing behind.
Stream(c) ==
    LET call == calls[c] IN
    /\ call.op = "put" /\ ~call.found
    /\ \/ /\ bundle' = bundle \cup {call.file}
          /\ Put(c, [call EXCEPT !.op = "stored"])
       \/ /\ UNCHANGED bundle
          /\ Done(c)
    /\ UNCHANGED rows

\* 201: after the rename, or for an object that was there, which also
\* declares it for this organisation unless a row exists.
AnswerPut(c) ==
    LET call == calls[c] IN
    /\ \/ /\ call.op = "stored"
          /\ rows' = WithStored(rows, call.file)
       \/ /\ call.op = "put" /\ call.found
          /\ rows' = WithStored(WithPending(rows, call.file, call.org), call.file)
    /\ Done(c)
    /\ UNCHANGED bundle

Uploading(c) ==
    PostUpload(c) \/ AnswerPost(c) \/ PutUpload(c) \/ Stream(c) \/ AnswerPut(c)

UploadInit == bundle = {} /\ rows = <<>>
UploadRestart == rows' = <<>> /\ UNCHANGED bundle
=============================================================================
