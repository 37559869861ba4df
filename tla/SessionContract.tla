-------------------------- MODULE SessionContract --------------------------
(***************************************************************************)
(* What an application may rely on of its wallet session, whatever goes on *)
(* inside (WalletUiState, apps/shared/wallet): the accounts it acts for    *)
(* are those of one session, and a new session has a new revision.         *)
(* WalletSession implements this contract, AmmApp builds on it.            *)
(*                                                                         *)
(* A revision is only ever compared with the one before the last step, so  *)
(* it is kept modulo 2.                                                    *)
(***************************************************************************)
EXTENDS Naturals

CONSTANTS
    Identities,     \* what accounts a wallet can have
    Sequencers,     \* where its transactions can go
    NIL             \* no accounts

VARIABLE wallet     \* the controller's WalletUiState, as far as it is promised

\* ready: open and past its first sync; payer: some account can pay the fees.
Wallet ==
    [open : BOOLEAN, ready : BOOLEAN, payer : BOOLEAN,
     identities : Identities \cup {NIL}, sequencer : Sequencers, sessionRevision : {0, 1}]

\* The application has just been started.
Started(w) ==
    /\ w \in Wallet
    /\ ~w.open /\ ~w.ready /\ ~w.payer /\ w.identities = NIL /\ w.sessionRevision = 0

\* Anything can happen to the wallet, and its accounts can be others or just have become
\* ready, but not without a new revision.
SessionMoves ==
    /\ wallet' \in Wallet
    /\ wallet'.ready => wallet'.open
    /\ wallet'.sessionRevision = wallet.sessionRevision =>
          wallet'.identities = wallet.identities /\ (wallet'.ready => wallet.ready)

SessionNext == SessionMoves \/ Started(wallet')

SessionSpec == Started(wallet) /\ [][SessionNext]_wallet
=============================================================================
