-------------------------- MODULE LicenceRegistry ---------------------------
(***************************************************************************)
(* packages/contracts/src/LicenceRegistry.sol: terms, corpora, receipts    *)
(* and the money between a buyer's payment and the two payouts.            *)
(*                                                                         *)
(* A call runs to completion, except that license and withdraw call the    *)
(* settlement token, and a token may run a hook of either party that calls *)
(* the registry again before it answers.  `stack` holds the calls that are *)
(* waiting for the token, innermost last; each remembers the state a       *)
(* revert goes back to.  Calls that revert at once are not steps.          *)
(*                                                                         *)
(* The token is external code: it moves exactly the amount it is asked to  *)
(* and answers yes, or moves nothing and answers no or reverts.            *)
(***************************************************************************)
EXTENDS Naturals, SequencesExt, Accounts

CONSTANTS
    TermsHash, Manifest,  \* a manifest stands for its hash, root and count
    Price,                \* prices above zero
    Treasuries,           \* what the steward may set as treasury
    Successors,           \* who may be offered the stewardship
    MaxCorpora, MaxReceipts, MaxDepth

ASSUME RegistryAssumption ==
    /\ Price \subseteq Nat \ {0}
    /\ Treasuries \subseteq Address \cup {ZeroAddress}
    /\ Successors \subseteq Address \cup {ZeroAddress}
    /\ MaxCorpora \in Nat /\ MaxReceipts \in Nat /\ MaxDepth \in Nat

VARIABLES
    reg,      \* the contract's storage and its token balance
    anchored, \* corpus-manifest leaves under some anchor of the log
    stack,    \* calls waiting for the token
    settled   \* reg when the last transaction ended

registryVars == <<reg, anchored, stack, settled>>

CorpusLeaf == [manifest: Manifest, terms: TermsHash]
Payee      == Address \cup {ZeroAddress}  \* neither payee is checked

\* The contract's storage before anything happened.  corpora holds records of
\* manifest, terms, supplier, price and open; receipts those of buyer, corpus,
\* terms, manifest and amount.  There is one token, whose books are `balance`,
\* what the registry holds, and `paid`, what it has paid out to each account;
\* publishedAt, sealedAt and the receipt's block are left out, and _byBuyer is
\* the receipts by buyer.
Storage(steward, treasury) ==
    [terms |-> [t \in TermsHash |-> "unknown"], corpora |-> <<>>, receipts |-> <<>>,
     credited |-> [a \in Payee |-> 0], balance |-> 0, paid |-> [a \in Payee |-> 0],
     treasury |-> treasury, steward |-> steward, pendingSteward |-> ZeroAddress]

RegistryInit ==
    /\ \E deployer, treasury \in Address : reg = Storage(deployer, treasury)
    /\ anchored = {}
    /\ stack = <<>>
    /\ settled = reg

\* A step of the contract itself: `after` is its storage, `calls` the stack.
Run(after, calls) ==
    /\ reg' = after
    /\ stack' = calls
    /\ settled' = IF calls = <<>> THEN after ELSE settled
    /\ UNCHANGED anchored

\* A call from outside: a transaction, or a hook run by the token.
Callable == Len(stack) < MaxDepth

\* The log anchors a corpus-manifest leaf (module GraspLog), between two
\* transactions.
AnchorLeaf(leaf) ==
    /\ stack = <<>>
    /\ anchored' = anchored \cup {leaf}
    /\ UNCHANGED <<reg, stack, settled>>

-----------------------------------------------------------------------------
(* Terms, corpora and stewardship: calls that reach no other contract but   *)
(* the log and the verifier, which only answer.                             *)

PublishTerms(by, t) ==
    /\ by = reg.steward
    /\ reg.terms[t] = "unknown"
    /\ Run([reg EXCEPT !.terms[t] = "live"], stack)

RetireTerms(by, t) ==
    /\ by = reg.steward
    /\ reg.terms[t] # "unknown"
    /\ Run([reg EXCEPT !.terms[t] = "retired"], stack)

\* A slip used as a mutant: the claimed facts are taken on the caller's word.
SealUnchecked(by, leaf, supplier, price) ==
    /\ by \in {supplier, reg.steward}
    /\ Len(reg.corpora) < MaxCorpora
    /\ reg.terms[leaf.terms] = "live"
    /\ Run([reg EXCEPT !.corpora = Append(@, [manifest |-> leaf.manifest, terms |-> leaf.terms,
                                              supplier |-> supplier, price |-> price, open |-> TRUE])],
           stack)

\* sealCorpus: the claimed facts are those of a leaf the log has anchored
SealCorpus(by, leaf, supplier, price) ==
    /\ by \in {supplier, reg.steward}
    /\ Len(reg.corpora) < MaxCorpora
    /\ reg.terms[leaf.terms] = "live"
    /\ leaf \in anchored
    /\ Run([reg EXCEPT !.corpora = Append(@, [manifest |-> leaf.manifest, terms |-> leaf.terms,
                                              supplier |-> supplier, price |-> price, open |-> TRUE])],
           stack)

CloseCorpus(by, id) ==
    /\ by \in {reg.corpora[id].supplier, reg.steward}
    /\ Run([reg EXCEPT !.corpora[id].open = FALSE], stack)

SetTreasury(by, to) ==
    /\ by = reg.steward
    /\ Run([reg EXCEPT !.treasury = to], stack)

TransferSteward(by, to) ==
    /\ by = reg.steward
    /\ Run([reg EXCEPT !.pendingSteward = to], stack)

AcceptSteward(by) ==
    /\ by = reg.pendingSteward
    /\ Run([reg EXCEPT !.steward = by, !.pendingSteward = ZeroAddress], stack)

-----------------------------------------------------------------------------
(* license and withdraw *)

Frame(stage, by, to, id, amount, saved) ==
    [stage |-> stage, by |-> by, to |-> to, id |-> id, amount |-> amount, saved |-> saved]

Caller == stack[Len(stack)]           \* the call the token is answering
Below  == SubSeq(stack, 1, Len(stack) - 1)
WaitsFor(stage) == stack # <<>> /\ Caller.stage = stage

ToProtocol(amount) == (amount * 250) \div 10000

\* A slip used as a mutant: the supplier's share rounded on its own.
SupplierShareRounded(amount) == (amount * 9750) \div 10000
ToSupplier(amount) == amount - ToProtocol(amount)

\* license up to token.transferFrom(buyer, registry, price)
License(by, id) ==
    /\ reg.corpora[id].open
    /\ reg.terms[reg.corpora[id].terms] # "retired"
    /\ Run(reg, Append(stack, Frame("collect", by, by, id, reg.corpora[id].price, reg)))

Receipt(f) ==
    LET c == reg.corpora[f.id]
    IN  [buyer |-> f.by, corpus |-> f.id, terms |-> c.terms, manifest |-> c.manifest,
         amount |-> f.amount]

\* transferFrom moved the price: the receipt is written, and the registry asks
\* the token to pay the supplier
Collected ==
    /\ WaitsFor("collect")
    /\ Len(reg.receipts) < MaxReceipts
    /\ LET paid == [reg EXCEPT !.balance = @ + Caller.amount,
                               !.receipts = Append(@, Receipt(Caller))]
       IN  Run(paid, Append(Below, Frame("paySupplier", Caller.by, reg.corpora[Caller.id].supplier,
                                         Caller.id, Caller.amount, paid)))

\* transferFrom failed: license reverts, with everything its hooks did
NotCollected ==
    /\ WaitsFor("collect")
    /\ Run(Caller.saved, Below)

\* The amount the token has been asked to pay out.
Due(f) == CASE f.stage = "collect" -> 0
            [] f.stage = "paySupplier" -> ToSupplier(f.amount)
            [] f.stage = "payProtocol" -> ToProtocol(f.amount)
            [] f.stage = "payOwed" -> f.amount

Paid(storage, f) == [storage EXCEPT !.balance = @ - Due(f), !.paid[f.to] = @ + Due(f)]
CreditedTo(storage, f) == [storage EXCEPT !.credited[f.to] = @ + Due(f)]

\* A slip used as a mutant: a reverted transfer is not credited.
PayoutForgotten == {Paid(reg, Caller), CreditedTo(reg, Caller), Caller.saved}

\* The three ways _pay ends: the token paid; it answered no, and what its hooks
\* did stands; it reverted, and what its hooks did is undone.
Payout == {Paid(reg, Caller), CreditedTo(reg, Caller), CreditedTo(Caller.saved, Caller)}

\* _pay(supplier) is over, and _pay(treasury) begins: the treasury is read now
SupplierPaid ==
    /\ WaitsFor("paySupplier")
    /\ \E after \in Payout :
          Run(after, Append(Below, Frame("payProtocol", Caller.by, after.treasury, Caller.id,
                                         Caller.amount, after)))

\* _pay(treasury) is over, and license returns
ProtocolPaid ==
    /\ WaitsFor("payProtocol")
    /\ \E after \in Payout : Run(after, Below)

\* withdraw up to token.transfer(caller, owed)
Withdraw(by) ==
    /\ reg.credited[by] > 0
    /\ Run([reg EXCEPT !.credited[by] = 0],
           Append(stack, Frame("payOwed", by, by, 0, reg.credited[by], reg)))

\* withdraw ends: paid, or reverted as a whole
Withdrawn ==
    /\ WaitsFor("payOwed")
    /\ \/ Run(Paid(reg, Caller), Below)
       \/ Run(Caller.saved, Below)

Ids == 1 .. Len(reg.corpora)

Call(by) ==
    \/ \E t \in TermsHash : PublishTerms(by, t) \/ RetireTerms(by, t)
    \/ \E leaf \in CorpusLeaf, supplier \in Payee, price \in Price :
          SealCorpus(by, leaf, supplier, price)
    \/ \E id \in Ids : CloseCorpus(by, id) \/ License(by, id)
    \/ Withdraw(by)
    \/ \E to \in Treasuries : SetTreasury(by, to)
    \/ \E to \in Successors : TransferSteward(by, to)
    \/ AcceptSteward(by)

TokenAnswers == Collected \/ NotCollected \/ SupplierPaid \/ ProtocolPaid \/ Withdrawn

RegistryNext ==
    \/ \E leaf \in CorpusLeaf : AnchorLeaf(leaf)
    \/ Callable /\ \E by \in Address : Call(by)
    \/ TokenAnswers

RegistrySpec == RegistryInit /\ [][RegistryNext]_registryVars

-----------------------------------------------------------------------------

\* What a call that waits for the token has collected and not yet paid out.
Outstanding(f) == IF f.stage = "paySupplier" THEN f.amount ELSE Due(f)

CreditedSum(storage) == SumFunction(storage.credited)
PaidSum(storage)     == SumFunction(storage.paid)
ReceiptSum(storage)  ==
    SumFunction([i \in DOMAIN storage.receipts |-> storage.receipts[i].amount])

\* At every moment another contract can call in, the registry holds exactly
\* what it owes: the credits, and the shares of the sales that are still being
\* paid out.  And everything ever received, one price per receipt, is either
\* held or was paid to somebody.
MoneyIsAccountedFor ==
    /\ reg.balance = CreditedSum(reg)
                        + SumFunction([i \in DOMAIN stack |-> Outstanding(stack[i])])
    /\ ReceiptSum(reg) = reg.balance + PaidSum(reg)

\* When no call is under way, every supplier has been paid or credited at least
\* its share of every receipt of its corpora, whichever transfers failed.
SuppliersAreMadeWhole ==
    \A a \in Payee :
        LET sales == {i \in DOMAIN settled.receipts :
                        settled.corpora[settled.receipts[i].corpus].supplier = a}
        IN  SumFunction([i \in sales |-> settled.receipts[i].amount
                                          - (settled.receipts[i].amount * 250) \div 10000])
              <= settled.paid[a] + settled.credited[a]

\* A receipt names what was bought (invariant I-8): the manifest and terms of
\* its corpus, which some anchor of the log carries, for the corpus's price.
ReceiptsNameAnchoredCorpora ==
    \A i \in DOMAIN reg.receipts :
        LET r == reg.receipts[i] IN
        /\ r.corpus \in DOMAIN reg.corpora
        /\ r.manifest = reg.corpora[r.corpus].manifest
        /\ r.terms = reg.corpora[r.corpus].terms
        /\ r.amount = reg.corpora[r.corpus].price
        /\ [manifest |-> r.manifest, terms |-> r.terms] \in anchored

=============================================================================
