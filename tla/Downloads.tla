------------------------------ MODULE Downloads ------------------------------
(***************************************************************************)
(* How a buyer gets the files of a corpus: the signature of the wallet     *)
(* (walletSig.ts), the answer with one URL for each file                   *)
(* (routes/licences.ts, localBundleStore.ts), and the route that such a    *)
(* URL opens (routes/uploads.ts, downloadToken.ts).                        *)
(*                                                                         *)
(* Nobody signs for another, and a signature or token is known by what it  *)
(* is over; addresses and hashes are compared in lower case. The files are *)
(* asked for one after the other, and the clock goes on meanwhile.         *)
(***************************************************************************)
EXTENDS Integers, Sequences

CONSTANTS
    Receipts,     \* the chain's: receipt id -> [buyer, corpus]
    CorpusFiles,  \* corpus -> sequence of file hashes
    UrlSeconds    \* DOWNLOAD_URL_TTL_S

ASSUME DownloadAssumption ==
    /\ UrlSeconds \in Nat
    /\ \A receipt \in DOMAIN Receipts : Receipts[receipt].corpus \in DOMAIN CorpusFiles
    /\ \A corpus \in DOMAIN CorpusFiles :
          LET files == CorpusFiles[corpus] IN files \in Seq({files[k] : k \in DOMAIN files})

WindowMinutes == 2

DownloadMessage(receipt, minute) == <<"download", receipt, minute>>
WalletSignature(address, message) == [by |-> address, over |-> message]

\* parseWalletSigHeader: a set with the header's parts, empty when it is missing
\* or malformed; minute -1 stands for one that is not a whole number.
ParseWalletSig(header) == {h \in header : h.minute >= 0}

\* A slip used as a mutant: the window has no past.
AnyEarlierMinute(header, receipt, minute) ==
    {h.address : h \in {h \in ParseWalletSig(header) :
        /\ h.minute - minute <= WindowMinutes
        /\ h.signature = WalletSignature(h.address, DownloadMessage(receipt, h.minute))}}

\* verifyWalletSig: a set with the signer's address
VerifyWalletSig(header, receipt, minute) ==
    {h.address : h \in {h \in ParseWalletSig(header) :
        /\ h.minute - minute \in -WindowMinutes .. WindowMinutes
        /\ h.signature = WalletSignature(h.address, DownloadMessage(receipt, h.minute))}}

-----------------------------------------------------------------------------
SignDownloadToken(hash, expires) == <<"token", hash, expires>>
VerifyDownloadToken(hash, expires, token, second) ==
    second <= expires /\ token = SignDownloadToken(hash, expires)

\* signedGetUrl, at that second
SignedGetUrl(hash, ttl, second) ==
    [hash |-> hash, exp |-> second + ttl, t |-> SignDownloadToken(hash, second + ttl)]

\* GET /uploads/{hash}: what it sends, empty when it refuses
GetUpload(url, held, second) ==
    {hash \in held : hash = url.hash /\ VerifyDownloadToken(url.hash, url.exp, url.t, second)}

\* GET /licences/{id}/download, at that second; the k-th URL is made `took`
\* seconds later than the one before.
Refused(status) == [status |-> status, files |-> <<>>]
Download(header, receipt, held, minute, second, took) ==
    LET signer  == VerifyWalletSig(header, receipt, minute)
        files   == CorpusFiles[Receipts[receipt].corpus]
        entry(k) == [hash |-> files[k], url |-> SignedGetUrl(files[k], UrlSeconds, second + k * took),
                     expiresAt |-> second + UrlSeconds]
    IN  IF signer = {} THEN Refused(401)
        ELSE IF receipt \notin DOMAIN Receipts THEN Refused(404)
        ELSE IF Receipts[receipt].buyer \notin signer THEN Refused(403)
        ELSE IF \E k \in DOMAIN files : files[k] \notin held THEN Refused(500)
        ELSE [status |-> 200, files |-> [k \in DOMAIN files |-> entry(k)]]
=============================================================================
