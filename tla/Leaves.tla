------------------------------- MODULE Leaves -------------------------------
(***************************************************************************)
(* The four leaf preimages, as three programs know them: the protocol      *)
(* package writes and reads them, the contracts write, hash and read them, *)
(* and the web page reads them. Each has its own table of fields or        *)
(* offsets; a wrong one breaks every proof silently.                       *)
(*                                                                         *)
(* A preimage is a sequence of bytes. Byte k of a hash h is <<h, k>>, a    *)
(* byte of an integer is <<"int", b>>, big-endian.                         *)
(***************************************************************************)
EXTENDS Integers, Sequences
LOCAL INSTANCE SequencesExt

CONSTANT Hash  \* 32-byte values

Hash32 == 32
Field(name, size) == [name |-> name, size |-> size]

\* The integer fields of a record that is to be encoded have their widths.
IntBytes(v, size) ==
    [k \in 1 .. size |-> <<"int", IF size - k > 3 THEN 0 ELSE (v \div 256 ^ (size - k)) % 256>>]
WordBytes(h) == [k \in 1 .. Hash32 |-> <<h, k>>]
Fits(v, size) == IF size > 3 THEN TRUE ELSE v < 256 ^ size

\* abi.encodePacked and concatHex of toHex(_, {size})
Packed(version, fields, leaf) ==
    FoldLeft(LAMBDA bytes, f : bytes \o (IF f.size = Hash32 THEN WordBytes(leaf[f.name])
                                         ELSE IntBytes(leaf[f.name], f.size)),
             IntBytes(version, 1), fields)
Encodes(fields, leaf) == \A k \in DOMAIN fields :
    IF fields[k].size = Hash32 THEN TRUE ELSE Fits(leaf[fields[k].name], fields[k].size)

Version(raw) == raw[1][2]
Slice(raw, off, size) == SubSeq(raw, off + 1, off + size)
ReadInt(raw, off, size) == FoldLeft(LAMBDA v, b : v * 256 + b[2], 0, Slice(raw, off, size))
\* An aligned hash; None of the hashes when the slice straddles two fields.
ReadWord(raw, off) ==
    LET bytes == Slice(raw, off, Hash32) IN
    IF \E h \in Hash : bytes = WordBytes(h) THEN CHOOSE h \in Hash : bytes = WordBytes(h) ELSE "torn"
At(raw, table) ==
    [f \in DOMAIN table |-> IF table[f][2] = Hash32 THEN ReadWord(raw, table[f][1])
                            ELSE ReadInt(raw, table[f][1], table[f][2])]

-----------------------------------------------------------------------------
(* packages/protocol: encode, and decode what the API and the buyer read   *)

TsClip == << Field("payloadHash", 32), Field("manifestHash", 32), Field("consentCommitment", 32),
    Field("termsId", 32), Field("capturedAt", 8), Field("submittedAt", 8),
    Field("durationMs", 4), Field("scopeBits", 4), Field("channels", 1) >>
TsEpisode == << Field("payloadHash", 32), Field("manifestHash", 32), Field("consentCommitment", 32),
    Field("termsId", 32), Field("taskId", 32), Field("capturedAt", 8), Field("submittedAt", 8),
    Field("durationMs", 4), Field("scopeBits", 4), Field("channels", 1),
    Field("worldSeed", 8), Field("successFlag", 1), Field("qualityScore", 2) >>
\* A slip used as a mutant: the two counters of a corpus in the other order.
TsCorpusSwapped == << Field("corpusManifestHash", 32), Field("corpusRoot", 32), Field("termsHash", 32),
    Field("taskId", 32), Field("sealedAt", 8), Field("episodeCount", 8) >>
TsCorpus == << Field("corpusManifestHash", 32), Field("corpusRoot", 32), Field("termsHash", 32),
    Field("taskId", 32), Field("episodeCount", 8), Field("sealedAt", 8) >>
TsClaim == << Field("subjectLeaf", 32), Field("verifierKeyId", 32), Field("detailHash", 32),
    Field("signatureHash", 32), Field("checkId", 2), Field("result", 1),
    Field("levelAsserted", 1), Field("issuedAt", 8) >>

ClaimValid(c) == c.result <= 2 /\ c.levelAsserted <= 4 /\ c.checkId # 0 /\ c.issuedAt # 0
TsFields == <<TsClip, TsEpisode, TsCorpus, TsClaim>>
TsBytes  == <<154, 197, 145, 141>>

TsEncodes(version, leaf) ==
    /\ Encodes(TsFields[version], leaf)
    /\ version = 2 => leaf.qualityScore <= 10000
    /\ version = 3 => leaf.episodeCount >= 1
    /\ version = 4 => ClaimValid(leaf)

TsClaimAt == [subjectLeaf |-> <<1, 32>>, verifierKeyId |-> <<33, 32>>, detailHash |-> <<65, 32>>,
    signatureHash |-> <<97, 32>>, checkId |-> <<129, 2>>, result |-> <<131, 1>>,
    levelAsserted |-> <<132, 1>>, issuedAt |-> <<133, 8>>]
TsCorpusAt == [corpusManifestHash |-> <<1, 32>>, corpusRoot |-> <<33, 32>>, termsHash |-> <<65, 32>>,
    taskId |-> <<97, 32>>, episodeCount |-> <<129, 8>>, sealedAt |-> <<137, 8>>]
TsFactsAt == [taskId |-> <<129, 32>>, worldSeed |-> <<186, 8>>, successFlag |-> <<194, 1>>,
    qualityScore |-> <<195, 2>>]

\* A set with what the reader returns, empty when it throws.
TsRead(version, raw) ==
    CASE version = 2 -> IF Len(raw) = TsBytes[2] THEN {At(raw, TsFactsAt)} ELSE {}
      [] version = 3 -> IF Len(raw) = TsBytes[3] /\ Version(raw) = 3
                        THEN {c \in {At(raw, TsCorpusAt)} : c.episodeCount # 0} ELSE {}
      [] version = 4 -> IF Len(raw) = TsBytes[4] /\ Version(raw) = 4
                        THEN {c \in {At(raw, TsClaimAt)} : ClaimValid(c)} ELSE {}

-----------------------------------------------------------------------------
(* contracts: the libraries and LeafVerifier                               *)

SolClip == << <<"payloadHash", 32>>, <<"manifestHash", 32>>, <<"consentCommitment", 32>>,
    <<"termsId", 32>>, <<"capturedAt", 8>>, <<"submittedAt", 8>>, <<"durationMs", 4>>,
    <<"scopeBits", 4>>, <<"channels", 1>> >>
SolEpisode == << <<"payloadHash", 32>>, <<"manifestHash", 32>>, <<"consentCommitment", 32>>,
    <<"termsId", 32>>, <<"taskId", 32>>, <<"capturedAt", 8>>, <<"submittedAt", 8>>,
    <<"durationMs", 4>>, <<"scopeBits", 4>>, <<"channels", 1>>, <<"worldSeed", 8>>,
    <<"successFlag", 1>>, <<"qualityScore", 2>> >>
SolCorpus == << <<"corpusManifestHash", 32>>, <<"corpusRoot", 32>>, <<"termsHash", 32>>,
    <<"taskId", 32>>, <<"episodeCount", 8>>, <<"sealedAt", 8>> >>
SolClaim == << <<"subjectLeaf", 32>>, <<"verifierKeyId", 32>>, <<"detailHash", 32>>,
    <<"signatureHash", 32>>, <<"checkId", 2>>, <<"result", 1>>, <<"levelAsserted", 1>>,
    <<"issuedAt", 8>> >>
SolFields == [v \in 1 .. 4 |-> LET f == <<SolClip, SolEpisode, SolCorpus, SolClaim>>[v] IN
                               [k \in DOMAIN f |-> Field(f[k][1], f[k][2])]]
SolBytes == <<154, 197, 145, 141>>

SolCorpusAt == [corpusManifestHash |-> <<1, 32>>, corpusRoot |-> <<33, 32>>,
    termsHash |-> <<65, 32>>, taskId |-> <<97, 32>>, episodeCount |-> <<129, 8>>,
    sealedAt |-> <<137, 8>>]
SolClaimAt == [subjectLeaf |-> <<1, 32>>, verifierKeyId |-> <<33, 32>>, detailHash |-> <<65, 32>>,
    signatureHash |-> <<97, 32>>, checkId |-> <<129, 2>>, result |-> <<131, 1>>,
    levelAsserted |-> <<132, 1>>, issuedAt |-> <<133, 8>>]
SolFactsAt == [taskId |-> <<129, 32>>, worldSeed |-> <<186, 8>>, successFlag |-> <<194, 1>>,
    qualityScore |-> <<195, 2>>]

\* LeafVerifier.hashLeaf: the version byte decides the length.
SolHashes(raw) == raw # <<>> /\ Version(raw) \in 1 .. 4 /\ Len(raw) = SolBytes[Version(raw)]

\* episodeFacts, corpusFacts and claimFacts; empty when they revert
SolRead(version, raw) ==
    IF raw = <<>> \/ Version(raw) # version \/ Len(raw) # SolBytes[version] THEN {}
    ELSE CASE version = 2 -> {At(raw, SolFactsAt)}
           [] version = 3 -> {c \in {At(raw, SolCorpusAt)} : c.episodeCount # 0}
           [] version = 4 -> {c \in {At(raw, SolClaimAt)} : ClaimValid(c)}

-----------------------------------------------------------------------------
(* apps/web/leaves.js                                                      *)

WebClipAt == [payloadHash |-> <<1, 32>>, manifestHash |-> <<33, 32>>,
    consentCommitment |-> <<65, 32>>, termsId |-> <<97, 32>>, capturedAt |-> <<129, 8>>,
    submittedAt |-> <<137, 8>>, durationMs |-> <<145, 4>>, scopeBits |-> <<149, 4>>,
    channels |-> <<153, 1>>]
WebEpisodeAt == [payloadHash |-> <<1, 32>>, manifestHash |-> <<33, 32>>,
    consentCommitment |-> <<65, 32>>, termsId |-> <<97, 32>>, taskId |-> <<129, 32>>,
    capturedAt |-> <<161, 8>>, submittedAt |-> <<169, 8>>, durationMs |-> <<177, 4>>,
    scopeBits |-> <<181, 4>>, channels |-> <<185, 1>>, worldSeed |-> <<186, 8>>,
    successFlag |-> <<194, 1>>, qualityScore |-> <<195, 2>>]
WebCorpusAt == [corpusManifestHash |-> <<1, 32>>, corpusRoot |-> <<33, 32>>,
    termsHash |-> <<65, 32>>, taskId |-> <<97, 32>>, episodeCount |-> <<129, 8>>,
    sealedAt |-> <<137, 8>>]
WebClaimAt == [subjectLeaf |-> <<1, 32>>, verifierKeyId |-> <<33, 32>>, detailHash |-> <<65, 32>>,
    signatureHash |-> <<97, 32>>, checkId |-> <<129, 2>>, result |-> <<131, 1>>,
    levelAsserted |-> <<132, 1>>, issuedAt |-> <<133, 8>>]
WebBytes == <<154, 197, 145, 141>>

\* decodeLeaf: unlike the other two readers it takes a claim whose check or
\* time is zero.
WebRead(raw) ==
    IF raw = <<>> \/ Version(raw) \notin 1 .. 4 THEN {}
    ELSE IF Len(raw) # WebBytes[Version(raw)] THEN {}
    ELSE CASE Version(raw) = 1 -> {At(raw, WebClipAt)}
           [] Version(raw) = 2 -> {At(raw, WebEpisodeAt)}
           [] Version(raw) = 3 -> {c \in {At(raw, WebCorpusAt)} : c.episodeCount >= 1}
           [] Version(raw) = 4 -> {c \in {At(raw, WebClaimAt)} : c.result <= 2 /\ c.levelAsserted <= 4}
=============================================================================
