------------------------------- MODULE AmmApp -------------------------------
(***************************************************************************)
(* The swap screen of the exchange's application (apps/amm): a card that   *)
(* quotes a swap, a dialog that shows it once more, and the backend that   *)
(* submits it.  Meanwhile the session may end, other accounts may appear,  *)
(* and the registry may point the application at another deployment of the *)
(* exchange.                                                               *)
(*                                                                         *)
(* The backend counts such changes in a revision.  The card is another     *)
(* process, which sees a copy of the revision, some time later; it stamps  *)
(* what it asks with its copy, drops an answer whose stamp is old, and     *)
(* sends the stamp along with a confirmed swap, which the backend refuses  *)
(* unless the stamp is its own revision.                                   *)
(*                                                                         *)
(* The wallet is any that keeps SessionContract.  Amounts are left out:    *)
(* a quote is the context it was priced in.  Calls may be lost.  The       *)
(* backend's calls to modules block it: in between, it handles nothing.    *)
(* The transaction itself is modelled in AmmClient.                        *)
(*                                                                         *)
(* A definition under "Slip:" is the next one with a plausible mistake the *)
(* properties are there to notice; no action uses it.                      *)
(***************************************************************************)
EXTENDS SessionContract, FiniteSets

CONSTANTS
    Deployments,    \* an exchange program and its config account, per network
    MAX_REVISION,   \* bound of the model: changes of the context between two starts
    MAX_PENDING     \* bound of the model: quotes asked, and calls under way, at a time

ASSUME AppAssumption ==
    /\ \A d \in Deployments : DOMAIN d = {"program", "config"}
    /\ MAX_REVISION \in Nat /\ MAX_PENDING \in Nat

VARIABLES
    revision,   \* swapContextRevision
    module,     \* what amm_module sends transactions to
    adopting,   \* the deployment the backend is pointing the module at, and the next call
    replica,    \* the card's copy of the revision
    holdings,   \* whose holdings the card offers: those of the last list it got
    asked,      \* quotes asked for: the stamp, and the answer if there is one
    quote,      \* the quote the card shows
    dialog,     \* the snapshot the dialog shows
    calls       \* the confirmed swaps on their way to the backend

card == <<replica, holdings, asked, quote, dialog, calls>>
appVars == <<wallet, revision, module, adopting, card>>

\* Where a swap quoted or submitted now goes, and from whose accounts.
Context ==
    [module |-> module, sequencer |-> wallet.sequencer, identities |-> wallet.identities]

\* The backend is in no call.
Idle == adopting = NIL

----------------------------------------------------------------------------
(* The backend                                                             *)

\* Slip: accounts that changed while the wallet was open are not another context.
walletContextChanged_OpenOnly(previous, current) ==
    previous.open # current.open \/ previous.sequencer # current.sequencer

walletContextChanged(previous, current) ==
    \/ previous.sessionRevision # current.sessionRevision
    \/ previous.open # current.open
    \/ previous.sequencer # current.sequencer

\* A step of the session is followed by syncWalletState, before anything else happens.
SessionStep ==
    /\ Idle
    /\ SessionMoves
    /\ revision' = IF walletContextChanged(wallet, wallet') THEN revision + 1 ELSE revision
    /\ revision' <= MAX_REVISION
    /\ UNCHANGED <<module, adopting, card>>

\* The loader publishes the deployment of the active network.
RegistryChanged ==
    /\ Idle
    /\ revision < MAX_REVISION
    /\ revision' = revision + 1
    /\ \E d \in Deployments : adopting' = [deployment |-> d, call |-> "program"]
    /\ UNCHANGED <<wallet, module, card>>

\* The two calls that point the module there.  The backend ignores whether they failed.
SetAmmProgramId ==
    /\ ~Idle /\ adopting.call = "program"
    /\ module' \in {module, [module EXCEPT !.program = adopting.deployment.program]}
    /\ adopting' = [adopting EXCEPT !.call = "config"]
    /\ UNCHANGED <<wallet, revision, card>>

SetConfigId ==
    /\ ~Idle /\ adopting.call = "config"
    /\ module' \in {module, [module EXCEPT !.config = adopting.deployment.config]}
    /\ adopting' = NIL
    /\ UNCHANGED <<wallet, revision, card>>

\* The module prices a swap.
AnswerQuote ==
    /\ Idle
    /\ \E q \in asked :
          /\ q.priced = NIL
          /\ asked' = (asked \ {q}) \cup {[q EXCEPT !.priced = Context]}
    /\ UNCHANGED <<wallet, revision, module, adopting, replica, holdings, quote, dialog, calls>>

\* What confirmedSwap lets through, in a backend that has time for it.
Accepts(c) ==
    /\ Idle
    /\ c.revision = revision
    /\ wallet.ready /\ wallet.payer

CallEnds(c) ==
    /\ calls' = calls \ {c}
    /\ UNCHANGED <<wallet, revision, module, adopting, replica, holdings, asked, quote, dialog>>

\* The swap is submitted, in the context of now.
SubmitSwap == \E c \in calls : Accepts(c) /\ CallEnds(c)

\* It is refused, or the call is lost on its way.
RefuseSwap == \E c \in calls : CallEnds(c)

----------------------------------------------------------------------------
(* The card and its dialog                                                 *)

\* The new revision reaches the card, which asks for another quote.
SeeRevision ==
    /\ replica' \in (replica + 1)..revision
    /\ quote' = NIL
    /\ UNCHANGED <<wallet, revision, module, adopting, holdings, asked, dialog, calls>>

\* The user types; a swap that went through empties the fields.
EditAmount ==
    /\ quote' = NIL
    /\ UNCHANGED <<wallet, revision, module, adopting, replica, holdings, asked, dialog, calls>>

\* doQuoteIn and doQuoteOut, when the typing has paused.
AskQuote ==
    /\ Cardinality(asked) < MAX_PENDING
    /\ asked' = asked \cup {[revision |-> replica, priced |-> NIL]}
    /\ UNCHANGED <<wallet, revision, module, adopting, replica, holdings, quote, dialog, calls>>

\* Slip: an answer is shown whenever it comes.
isStale_Never(q) == FALSE

isStale(q) == q.revision # replica

QuoteArrives ==
    /\ \E q \in asked :
          /\ q.priced # NIL
          /\ asked' = asked \ {q}
          /\ quote' = IF isStale(q) THEN quote ELSE q.priced
    /\ UNCHANGED <<wallet, revision, module, adopting, replica, holdings, dialog, calls>>

\* The quote fails or is lost, or the amount it is for is not the one typed any more.
QuoteFails ==
    /\ \E q \in asked : asked' = asked \ {q}
    /\ quote' \in {quote, NIL}
    /\ UNCHANGED <<wallet, revision, module, adopting, replica, holdings, dialog, calls>>

\* refreshHoldings.  The list has come a long way: it may be that of an earlier session.
HoldingsListed ==
    /\ holdings' \in Identities \cup {NIL}
    /\ UNCHANGED <<wallet, revision, module, adopting, replica, asked, quote, dialog, calls>>

buildSnapshot == [revision |-> replica, priced |-> quote, holdings |-> holdings]

\* The copies of the wallet's state are left out: they can only disable the button.
canSubmit == quote # NIL /\ holdings # NIL

ShowConfirmation ==
    /\ canSubmit /\ dialog = NIL
    /\ dialog' = buildSnapshot
    /\ UNCHANGED <<wallet, revision, module, adopting, replica, holdings, asked, quote, calls>>

CancelConfirmation ==
    /\ dialog # NIL
    /\ dialog' = NIL
    /\ UNCHANGED <<wallet, revision, module, adopting, replica, holdings, asked, quote, calls>>

\* The user confirms: the card compares the snapshot with one built now.  Of the quote
\* they compare the amounts, and another context may have priced the same.
executeSwap ==
    /\ dialog # NIL
    /\ canSubmit /\ Cardinality(calls) < MAX_PENDING
    /\ [dialog EXCEPT !.priced = quote] = buildSnapshot
    /\ calls' = calls \cup {dialog}
    /\ dialog' = NIL
    /\ UNCHANGED <<wallet, revision, module, adopting, replica, holdings, asked, quote>>

----------------------------------------------------------------------------

NewCard ==
    /\ replica' = 0 /\ holdings' = NIL /\ asked' = {} /\ quote' = NIL
    /\ dialog' = NIL /\ calls' = {}

\* The application is started again; the module may be pointed anywhere.
RestartApp ==
    /\ Started(wallet')
    /\ revision' = 0
    /\ adopting' = NIL
    /\ NewCard
    /\ UNCHANGED module

AppInit ==
    /\ Started(wallet)
    /\ revision = 0
    /\ \E d, e \in Deployments : module = [program |-> d.program, config |-> e.config]
    /\ adopting = NIL
    /\ replica = 0 /\ holdings = NIL /\ asked = {} /\ quote = NIL
    /\ dialog = NIL /\ calls = {}

AppNext ==
    \/ SessionStep
    \/ RegistryChanged
    \/ SetAmmProgramId
    \/ SetConfigId
    \/ AnswerQuote
    \/ SubmitSwap
    \/ RefuseSwap
    \/ SeeRevision
    \/ EditAmount
    \/ AskQuote
    \/ QuoteArrives
    \/ QuoteFails
    \/ HoldingsListed
    \/ ShowConfirmation
    \/ CancelConfirmation
    \/ executeSwap
    \/ RestartApp

AppSpec == AppInit /\ [][AppNext]_appVars

----------------------------------------------------------------------------
(* Properties                                                              *)

\* A swap the backend submits goes out from the accounts, through the sequencer and to
\* the deployment that were there when what the user confirmed was priced: "fences swap
\* confirmations across wallet, sequencer and registry changes" (AmmUiBackend.rep).  The
\* card may be several revisions behind, answers and calls late, and the registry halfway
\* through a change (SwapConfirmation::submit, syncWalletState, isStale, executeSwap).
SwapGoesWhereQuoted ==
    \A c \in calls : Accepts(c) => c.priced = Context
=============================================================================
