---------------------------- MODULE AnchorDaemon ----------------------------
(***************************************************************************)
(* services/log/src/daemon.ts: the scheduler that keeps every chain        *)
(* anchored.  One iteration of runDaemon reads the clock once, then ticks  *)
(* the primary and every mirror in turn; a tick asks shouldAnchor and, if  *)
(* it agrees, awaits anchorHead.                                           *)
(*                                                                         *)
(* Module Anchoring has the inner steps of that call; here it reads the    *)
(* size in one step and ends in one of its outcomes in another, which      *)
(* stands at the moment the revocations are read.  That loses nothing: the *)
(* daemon is the only one to read or write its chains and rows, and a leaf *)
(* that the API appends between the root and the revocations, or anything  *)
(* it writes between them and the row, may as well come right after the    *)
(* call, for appending and revoking neither see nor hinder each other.     *)
(*                                                                         *)
(* Timestamps are kept as ages relative to the iteration's `now`, which is *)
(* the only clock the code compares them with.                             *)
(***************************************************************************)
EXTENDS AnchorRule, FiniteSets

CONSTANTS
    Primary, Mirrors,  \* Mirrors: a sequence of chains, in configuration order
    Key,
    PrimaryInterval, MirrorInterval,
    Delays,            \* backoffDelay's table, in the same unit
    Pause,             \* how long an iteration and its sleep may take
    MaxSize, MaxFailures

ASSUME DaemonAssumption ==
    /\ Mirrors \in Seq({Mirrors[i] : i \in 1 .. Len(Mirrors)})
    /\ PrimaryInterval \in Nat /\ MirrorInterval \in Nat
    /\ Len(Delays) > 0 /\ \A i \in 1 .. Len(Delays) : Delays[i] \in Nat
    /\ Pause \subseteq Nat \ {0} /\ Pause # {}
    /\ MaxSize \in Nat /\ MaxFailures \in Nat

Order == <<Primary>> \o Mirrors            \* the order of an iteration
Mirror == {Mirrors[i] : i \in 1 .. Len(Mirrors)}
Chain == {Primary} \cup Mirror

Interval(c) == IF c = Primary THEN PrimaryInterval ELSE MirrorInterval

\* Ages at and beyond which no comparison changes.
Cap == LET bounds == {PrimaryInterval, MirrorInterval} \cup {Delays[i] : i \in 1 .. Len(Delays)}
       IN  CHOOSE n \in bounds : \A m \in bounds : m <= n

VARIABLES
    logSize, revoked,
    chain,      \* per chain, the anchors of its GraspLog
    last,       \* per chain, lastAnchored(): the newest row, or none
    succeeded,  \* per chain, lastSuccessAt # 0
    success,    \* per chain, now - lastSuccessAt
    attempt,    \* per chain, now - lastAttemptAt
    failed,     \* per chain, failureCount (saturated at the length of Delays)
    turn,       \* position in Order; beyond its end the iteration is over
    sizeRead,   \* size anchorHead has read; 0 when no call is in progress
    failures    \* calls that failed and crashes so far, bounded

data       == <<logSize, revoked>>
state      == <<succeeded, success, attempt, failed>>
daemonVars == <<data, chain, last, state, turn, sizeRead, failures>>

NoRow == [size |-> 0, rev |-> {}]

DaemonInit ==
    /\ logSize = 0
    /\ revoked = {}
    /\ chain = [c \in Chain |-> <<>>]
    /\ last = [c \in Chain |-> NoRow]
    /\ succeeded = [c \in Chain |-> FALSE]
    /\ success = [c \in Chain |-> 0]
    /\ attempt = [c \in Chain |-> 0]
    /\ failed = [c \in Chain |-> 0]
    /\ turn = 1
    /\ sizeRead = 0
    /\ failures = 0

AppendLeaf ==
    /\ logSize < MaxSize
    /\ logSize' = logSize + 1
    /\ UNCHANGED <<revoked, chain, last, state, turn, sizeRead, failures>>

Revoke(k) ==
    /\ revoked' = revoked \cup {k}
    /\ UNCHANGED <<logSize, chain, last, state, turn, sizeRead, failures>>

-----------------------------------------------------------------------------
(* shouldAnchor *)

BackingOff(c) == failed[c] > 0 /\ attempt[c] < Delays[failed[c]]
TooSoon(c)    == succeeded[c] /\ success[c] < Interval(c)

NeverAnchored(c) == last[c] = NoRow
SomethingNew(c)  == logSize > last[c].size \/ revoked # last[c].rev

\* Slips used as mutants: a gate that also holds the primary back, and a
\* mirror that is never held back.
AheadOfPrimaryOrEqual(c) == c \in Mirror /\ (NeverAnchored(Primary) \/ logSize >= last[Primary].size)
AheadOfNobody(c) == FALSE

\* A mirror may not anchor more than the primary's newest recorded anchor.
AheadOfPrimary(c) == c \in Mirror /\ (NeverAnchored(Primary) \/ logSize > last[Primary].size)

\* The gate for mirrors comes after the return for a chain never anchored.
ShouldAnchor(c) ==
    /\ ~BackingOff(c)
    /\ ~TooSoon(c)
    /\ IF NeverAnchored(c)
       THEN logSize > 0
       ELSE SomethingNew(c) /\ ~AheadOfPrimary(c)

-----------------------------------------------------------------------------
(* tick *)

Current == Order[turn]
Ticking == turn <= Len(Order)

\* shouldAnchor says no
Skip ==
    /\ Ticking /\ sizeRead = 0
    /\ ~ShouldAnchor(Current)
    /\ turn' = turn + 1
    /\ UNCHANGED <<data, chain, last, state, sizeRead, failures>>

\* shouldAnchor says yes: the attempt is dated, and anchorHead reads the size
\* before its first await
Attempt ==
    /\ Ticking /\ sizeRead = 0
    /\ ShouldAnchor(Current)
    /\ attempt' = [attempt EXCEPT ![Current] = 0]
    /\ sizeRead' = logSize
    /\ UNCHANGED <<data, chain, last, succeeded, success, failed, turn, failures>>

Calling == sizeRead > 0
Behind(c) == chain[c] # <<>> /\ sizeRead < LastAnchor(chain[c]).size
NoNews(c) == /\ chain[c] # <<>>
             /\ sizeRead = LastAnchor(chain[c]).size
             /\ revoked = LastAnchor(chain[c]).revocationRoot

Send(c) ==
    /\ ~Behind(c) /\ ~NoNews(c)
    /\ Accepts(chain[c], logSize, sizeRead, revoked)
    /\ chain' = [chain EXCEPT ![c] = Extend(@, logSize, sizeRead, revoked, 0)]

EndTick == turn' = turn + 1 /\ sizeRead' = 0

Succeed(c) ==
    /\ succeeded' = [succeeded EXCEPT ![c] = TRUE]
    /\ success' = [success EXCEPT ![c] = 0]
    /\ failed' = [failed EXCEPT ![c] = 0]
    /\ UNCHANGED attempt

\* failureCount + 1, as far as the table of delays can tell
CountFailure(c) ==
    /\ failed' = [failed EXCEPT ![c] = IF @ < Len(Delays) THEN @ + 1 ELSE @]
    /\ UNCHANGED <<succeeded, success, attempt>>

\* anchorHead mines the anchor and records it
Anchored ==
    /\ Calling
    /\ Send(Current)
    /\ last' = [last EXCEPT ![Current] = [size |-> sizeRead, rev |-> revoked]]
    /\ Succeed(Current)
    /\ EndTick
    /\ UNCHANGED <<data, failures>>

\* anchorHead returns null: counted as a success, and nothing is recorded
NothingNew ==
    /\ Calling
    /\ NoNews(Current)
    /\ Succeed(Current)
    /\ EndTick
    /\ UNCHANGED <<data, chain, last, failures>>

\* anchorHead throws because the contract reverts or the store is behind
Refused ==
    /\ Calling
    /\ ~NoNews(Current)
    /\ \/ Behind(Current)
       \/ ~Accepts(chain[Current], logSize, sizeRead, revoked)
    /\ CountFailure(Current)
    /\ EndTick
    /\ UNCHANGED <<data, chain, last, failures>>

Failing == failures < MaxFailures /\ failures' = failures + 1

\* anchorHead throws on an RPC error, before the anchor is mined or after it
RpcError ==
    /\ Calling /\ Failing
    /\ (Send(Current) \/ UNCHANGED chain)
    /\ CountFailure(Current)
    /\ EndTick
    /\ UNCHANGED <<data, last>>

\* The process dies, in the middle of a call or not, and starts again with an
\* empty state map.
Restart ==
    /\ Failing
    /\ ((Calling /\ Send(Current)) \/ UNCHANGED chain)
    /\ succeeded' = [c \in Chain |-> FALSE]
    /\ success' = [c \in Chain |-> 0]
    /\ attempt' = [c \in Chain |-> 0]
    /\ failed' = [c \in Chain |-> 0]
    /\ turn' = 1
    /\ sizeRead' = 0
    /\ UNCHANGED <<data, last>>

\* Ages after d more seconds, where anything will compare them.
Older(ages, matters(_), d) ==
    [c \in Chain |-> IF ~matters(c) THEN 0
                     ELSE IF ages[c] + d < Cap THEN ages[c] + d ELSE Cap]

HasSucceeded(c) == succeeded[c]
HasFailed(c)    == failed[c] > 0

\* The sleep ends and the next iteration reads the clock.
NextIteration ==
    /\ ~Ticking
    /\ \E d \in Pause :
          /\ success' = Older(success, HasSucceeded, d)
          /\ attempt' = Older(attempt, HasFailed, d)
    /\ turn' = 1
    /\ UNCHANGED <<data, chain, last, succeeded, failed, sizeRead, failures>>

Loop == Skip \/ Attempt \/ Anchored \/ NothingNew \/ Refused \/ NextIteration

DaemonNext == AppendLeaf \/ (\E k \in Key : Revoke(k)) \/ Loop \/ RpcError \/ Restart

DaemonSpec == DaemonInit /\ [][DaemonNext]_daemonVars

\* The loop keeps running; the bound on failures means that the RPC endpoints
\* are reachable from some moment on.
FairDaemonSpec == DaemonSpec /\ WF_daemonVars(Loop)

-----------------------------------------------------------------------------

HeadOf(c) == LastAnchor(chain[c])
Covers(c, n) == chain[c] # <<>> /\ HeadOf(c).root >= n

\* A mirror that has a recorded anchor is never moved to a size that the
\* primary's own contract has not reached, whatever is lost on the way.
MirrorsFollowPrimary ==
    [][ \A m \in Mirror :
          chain'[m] # chain[m] /\ last[m] # NoRow =>
              /\ chain[Primary] # <<>>
              /\ LastAnchor(chain'[m]).size <= HeadOf(Primary).size ]_daemonVars

\* What keeps every mirror back: the primary's newest anchor claims fewer
\* leaves than its root covers, or never reached the store's table.
PrimaryHeadUnusable ==
    /\ chain[Primary] # <<>>
    /\ \/ HeadOf(Primary).size < HeadOf(Primary).root
       \/ last[Primary].size < HeadOf(Primary).size

\* Backoff and intervals delay a chain but never stop it: every appended leaf
\* is eventually under the primary's root, and under every mirror's unless the
\* primary's head stays unusable; the gate alone never starves a mirror.
ChainsCatchUp ==
    \A n \in 1 .. MaxSize, c \in Chain :
        logSize >= n ~> Covers(c, n) \/ (c \in Mirror /\ PrimaryHeadUnusable)

\* anchorer.ts:193-195: a down mirror "is retried on the next run".  The code
\* does not keep it when a crash loses the primary's row.
EveryMirrorCatchesUp ==
    \A n \in 1 .. MaxSize, m \in Mirror :
        logSize >= n ~>
            Covers(m, n) \/ (chain[Primary] # <<>> /\ HeadOf(Primary).size < HeadOf(Primary).root)
=============================================================================
