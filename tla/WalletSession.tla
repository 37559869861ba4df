--------------------------- MODULE WalletSession ---------------------------
(***************************************************************************)
(* The wallet session of an application (apps/shared/wallet): a controller *)
(* that opens, creates, refreshes and closes the wallet for the user, on   *)
(* top of a provider that turns each of these into a chain of asynchronous *)
(* calls to the shared wallet core, lez_core, another process.             *)
(*                                                                         *)
(* A chain of calls is a job with the stage whose reply it waits for.  The *)
(* controller and the provider each stamp a job with a generation counter  *)
(* and drop a reply whose stamp is old.  Stamps are only compared with the *)
(* counter, so a job carries two flags instead: whether the controller     *)
(* still wants it and whether the provider still has it live.  A reply may *)
(* be lost; the SDK then answers with an empty value after its timeout,    *)
(* which the code reads as a failure, a zero or an empty list.             *)
(*                                                                         *)
(* A wallet is its number, in the order of creation, and how many accounts *)
(* it has; any account can pay its fees.  Paths, addresses, balances,      *)
(* progress figures and delays are left out, and so is the reachability    *)
(* probe, which decides nothing.  The session revision is only ever        *)
(* compared with the one before the last step, so it is kept modulo 2.     *)
(*                                                                         *)
(* A definition under "Slip:" is the next one with a plausible mistake the *)
(* properties are there to notice; no action uses it.                      *)
(***************************************************************************)
EXTENDS Naturals

CONSTANTS
    CAPABILITY_WARMUP_MAX_ATTEMPTS,
    REFRESH_FAILURES_BEFORE_ERROR,
    SNAPSHOT_SYNC_CHUNK_BLOCKS,
    MAX_ACCOUNTS,   \* bound of the model: accounts of a wallet
    MAX_HEIGHT,     \* bound of the model: blocks of the chain
    MAX_REQUESTS,   \* bound of the model: what the user does before resting
    NONE            \* no wallet, no accounts, no fee payer

ASSUME WalletAssumption ==
    /\ CAPABILITY_WARMUP_MAX_ATTEMPTS \in Nat \ {0}
    /\ REFRESH_FAILURES_BEFORE_ERROR \in Nat \ {0}
    /\ SNAPSHOT_SYNC_CHUNK_BLOCKS \in Nat \ {0}
    /\ MAX_ACCOUNTS \in Nat /\ MAX_HEIGHT \in Nat /\ MAX_REQUESTS \in Nat

VARIABLES
    ctl,        \* WalletController
    connected,  \* LogosWalletProvider: m_connected
    jobs,       \* chains of calls waiting for a reply
    polling,    \* a poll waits for the chain's height, and is still wanted
    creating,   \* createWallet waits for the core in a nested event loop
    disk,       \* what outlives the application
    core,       \* lez_core: its open wallet, its storage, the chain
    flaky,      \* replies may still be lost or be failures
    requests    \* what the user may still do

session == <<ctl, connected, jobs, polling, creating>>
vars == <<session, disk, core, flaky, requests>>

Min2(m, n) == IF m < n THEN m ELSE n

Job(kind, stage) ==
    [kind |-> kind, stage |-> stage, wanted |-> TRUE, live |-> TRUE,
     attempt |-> 1, target |-> 0, found |-> NONE]

----------------------------------------------------------------------------
(* Controller                                                              *)

\* The generation counter moves on: no reply to an earlier request is wanted.
Overtaken(js) == {[j EXCEPT !.wanted = FALSE] : j \in js}

\* disconnect, connectAsync and snapshotAsync of the provider do the same there.  A
\* job that leaves no trace in the core is forgotten with that.
Abandoned(js) == {[j EXCEPT !.live = FALSE] : j \in {k \in js : k.stage \in {"open", "sync"}}}

StartJob(kind, stage) == jobs' = Abandoned(Overtaken(jobs)) \cup {Job(kind, stage)}

Bumped(c) == [c EXCEPT !.sessionRevision = 1 - @]

\* Slip: accounts that changed while the wallet was open are not another session.
ApplySnapshot_OneSession(c, found, newSession) ==
    [(IF newSession THEN Bumped(c) ELSE c)
       EXCEPT !.identities = [wallet |-> found.wallet, accounts |-> found.accounts],
              !.feePayer = IF found.accounts = 0 THEN NONE ELSE found.wallet,
              !.synced = found.synced, !.initialSync = FALSE, !.status = "ready",
              !.failures = 0, !.poll = TRUE]

\* A snapshot's accounts and height become the session's, and the poll is armed.
ApplySnapshot(c, found, newSession) ==
    LET identities == [wallet |-> found.wallet, accounts |-> found.accounts]
        session_of == IF newSession \/ c.identities # identities THEN Bumped(c) ELSE c
    IN  [session_of EXCEPT
            !.identities = identities,
            !.feePayer = IF found.accounts = 0 THEN NONE ELSE found.wallet,
            !.synced = found.synced, !.initialSync = FALSE, !.status = "ready",
            !.failures = 0, !.poll = TRUE]

CanOpen == ~ctl.open /\ ctl.status \notin {"opening", "syncing"}

BeginOpen ==
    /\ ctl' = [ctl EXCEPT !.initialSync = TRUE, !.status = "opening"]
    /\ StartJob("connect", "capability")
    /\ polling' = FALSE
    /\ UNCHANGED <<connected, creating>>

\* The posted callback that shows an opening wallet as syncing.
ShowSyncing ==
    /\ ctl.status = "opening"
    /\ ctl' = [ctl EXCEPT !.status = "syncing"]
    /\ UNCHANGED <<connected, jobs, polling, creating, disk, core, flaky, requests>>

\* refreshSnapshot, from a controller state c; the height asked for is not wanted then.
RefreshSnapshot(c) ==
    IF c.open /\ ~c.initialSync /\ ~c.refreshing
    THEN /\ ctl' = [c EXCEPT !.poll = FALSE, !.refreshing = TRUE]
         /\ StartJob("refresh", "height")
         /\ polling' = FALSE
    ELSE ctl' = c /\ UNCHANGED <<jobs, polling>>

\* The session closed by the controller: what cancelSync and disconnect share.
Closed(c) ==
    [Bumped(c) EXCEPT !.open = FALSE, !.poll = FALSE, !.refreshing = FALSE, !.failures = 0,
                      !.initialSync = FALSE, !.identities = NONE]

\* Slip: only the controller forgets the job; the provider carries on.
Close_OnlyHere(status, c) ==
    /\ ctl' = [Closed(c) EXCEPT !.status = status]
    /\ jobs' = Overtaken(jobs)
    /\ polling' = FALSE
    /\ connected' = FALSE
    /\ disk' = [disk EXCEPT !.disconnected = TRUE]
    /\ UNCHANGED <<creating, core, flaky>>

Close(status, c) ==
    /\ ctl' = [Closed(c) EXCEPT !.status = status]
    /\ jobs' = Abandoned(Overtaken(jobs))
    /\ polling' = FALSE
    /\ connected' = FALSE
    /\ disk' = [disk EXCEPT !.disconnected = TRUE]
    /\ UNCHANGED <<creating, core, flaky>>

\* Slip: a refresh under way when the wallet was created still counts as under way.
NewSession_StillRefreshing(c) ==
    [c EXCEPT !.open = TRUE, !.initialSync = TRUE, !.status = "syncing",
              !.poll = FALSE, !.failures = 0]

\* The session of a wallet just created, before its first snapshot.
NewSession(c) ==
    [c EXCEPT !.open = TRUE, !.initialSync = TRUE, !.status = "syncing",
              !.poll = FALSE, !.refreshing = FALSE, !.failures = 0]

----------------------------------------------------------------------------
(* The user                                                                *)

Ask == requests > 0 /\ requests' = requests - 1

Open ==
    /\ Ask
    /\ disk' = [disk EXCEPT !.disconnected = FALSE]
    /\ IF CanOpen THEN BeginOpen ELSE UNCHANGED session
    /\ UNCHANGED <<core, flaky>>

CancelSync ==
    /\ Ask
    /\ ctl.initialSync /\ ctl.status \in {"opening", "syncing"}
    /\ Close("error", ctl)

Disconnect ==
    /\ Ask
    /\ Close("closed", [ctl EXCEPT !.feePayer = NONE])

\* A bound of the model: one creation at a time.
CreateWallet ==
    /\ Ask
    /\ ~creating
    /\ creating' = TRUE
    /\ UNCHANGED <<ctl, connected, jobs, polling, disk, core, flaky>>

Refresh ==
    /\ Ask
    /\ ctl.open /\ ~ctl.initialSync
    /\ RefreshSnapshot([ctl EXCEPT !.status = IF @ = "error" THEN "syncing" ELSE @])
    /\ UNCHANGED <<connected, creating, disk, core, flaky>>

\* The wallet core's state as one blocking read, or a completed chain of reads, sees it.
Found == [wallet |-> core.wallet, accounts |-> core.accounts, synced |-> core.synced]

\* All calls block; the snapshot read at the end is applied without a new generation.
CreateAccount ==
    /\ Ask
    /\ ctl.open /\ ~ctl.initialSync
    /\ core.accounts < MAX_ACCOUNTS
    /\ core' = [core EXCEPT !.accounts = @ + 1, !.synced = core.height]
    /\ \/ flaky /\ UNCHANGED ctl
       \/ ctl' = ApplySnapshot(
                    ctl, [Found EXCEPT !.accounts = @ + 1, !.synced = core.height], FALSE)
    /\ UNCHANGED <<connected, jobs, polling, creating, disk, flaky>>

\* The application ends, in any state, and is started again: openOnStartup.
StartedCtl ==
    [open |-> FALSE, initialSync |-> FALSE, status |-> "closed", refreshing |-> FALSE,
     failures |-> 0, identities |-> NONE, feePayer |-> NONE, synced |-> 0, poll |-> FALSE,
     sessionRevision |-> 0]

Restart ==
    /\ Ask
    /\ connected' = FALSE
    /\ polling' = FALSE
    /\ creating' = FALSE
    /\ IF disk.disconnected
       THEN ctl' = StartedCtl /\ jobs' = {}
       ELSE /\ ctl' = [StartedCtl EXCEPT !.initialSync = TRUE, !.status = "opening"]
            /\ jobs' = {Job("connect", "capability")}
    /\ UNCHANGED <<disk, core, flaky>>

----------------------------------------------------------------------------
(* Replies                                                                 *)

Wait(j, k) == jobs' = (jobs \ {j}) \cup {k} /\ UNCHANGED ctl

\* The callback of the controller, with the snapshot a chain ended in.
Succeed(j, found) ==
    /\ jobs' = jobs \ {j}
    /\ ctl' = IF j.wanted
              THEN ApplySnapshot(
                     [ctl EXCEPT !.open = TRUE,
                                 !.refreshing = IF j.kind = "refresh" THEN FALSE ELSE @],
                     found, j.kind # "refresh")
              ELSE ctl

\* A refresh keeps the wallet open and polls again; a first sync that fails closes it.
Failed(c, kind, missing) ==
    IF kind = "refresh"
    THEN LET failures == Min2(c.failures + 1, REFRESH_FAILURES_BEFORE_ERROR)
             gives_up == failures = REFRESH_FAILURES_BEFORE_ERROR /\ c.status = "ready"
         IN  [c EXCEPT !.refreshing = FALSE, !.failures = failures, !.poll = TRUE,
                       !.status = IF gives_up \/ @ = "syncing" THEN "error" ELSE @]
    ELSE [c EXCEPT !.open = FALSE, !.initialSync = FALSE,
                   !.status = IF missing THEN "closed" ELSE "error"]

Fail(j, missing) ==
    /\ jobs' = jobs \ {j}
    /\ ctl' = IF j.wanted THEN Failed(ctl, j.kind, missing) ELSE ctl

\* A stale reply: the core did what it was asked, nobody listens.
Ignored(j) ==
    /\ ~j.live
    /\ jobs' = jobs \ {j}
    /\ UNCHANGED <<ctl, connected, core>>

\* Slip: the core is asked for its version for ever.
CapabilityReply_Forever(j) ==
    /\ j.live /\ j.stage = "capability"
    /\ \/ Wait(j, [j EXCEPT !.stage = "probe"])
       \/ flaky /\ Wait(j, [j EXCEPT !.attempt = 3 - @])
    /\ UNCHANGED <<connected, core>>

\* versionAsync: the core may not be up yet.
CapabilityReply(j) ==
    /\ j.live /\ j.stage = "capability"
    /\ \/ Wait(j, [j EXCEPT !.stage = "probe"])
       \/ flaky /\ j.attempt < CAPABILITY_WARMUP_MAX_ATTEMPTS
            /\ Wait(j, [j EXCEPT !.attempt = @ + 1])
       \/ flaky /\ j.attempt >= CAPABILITY_WARMUP_MAX_ATTEMPTS /\ Fail(j, FALSE)
    /\ UNCHANGED <<connected, core>>

FinishOpen(j) == connected' = TRUE /\ Wait(j, [j EXCEPT !.stage = "height"])

\* A wallet the core has open, for another application, is adopted.
ProbeReply(j) ==
    /\ j.live /\ j.stage = "probe"
    /\ \/ core.open /\ FinishOpen(j)
       \/ /\ ~core.open \/ flaky
          /\ IF disk.stored THEN Wait(j, [j EXCEPT !.stage = "open"]) ELSE Fail(j, TRUE)
          /\ UNCHANGED connected
    /\ UNCHANGED core

\* The core opens the stored wallet whether or not anybody still waits for it.
OpenReply(j) ==
    /\ j.stage = "open"
    /\ \/ /\ core' = [core EXCEPT !.open = TRUE]
          /\ IF j.live THEN FinishOpen(j)
             ELSE jobs' = jobs \ {j} /\ UNCHANGED <<ctl, connected>>
       \/ flaky /\ j.live /\ Fail(j, FALSE) /\ UNCHANGED <<connected, core>>

\* The chain's height, then the last synced block: is there anything to sync?
HeightReply(j) ==
    /\ j.live /\ j.stage = "height"
    /\ \E target \in {core.height} \cup IF flaky THEN {0} ELSE {} :
          Wait(j, [j EXCEPT !.target = target,
                            !.stage = IF core.synced < target THEN "sync" ELSE "list"])
    /\ UNCHANGED <<connected, core>>

\* One chunk of blocks.  The height a job aims at is not read again.
SyncReply(j) ==
    /\ j.stage = "sync"
    /\ \/ LET next == Min2(j.target, core.synced + SNAPSHOT_SYNC_CHUNK_BLOCKS)
          IN  /\ core' = [core EXCEPT !.synced = IF @ < next THEN next ELSE @]
              /\ IF j.live
                 THEN Wait(j, [j EXCEPT !.stage = IF next >= j.target THEN "list" ELSE @])
                 ELSE jobs' = jobs \ {j} /\ UNCHANGED ctl
       \/ flaky /\ j.live /\ Fail(j, FALSE) /\ UNCHANGED core
    /\ UNCHANGED connected

\* The accounts and their balances; a lost list reads as a wallet without accounts.
ListReply(j) ==
    /\ j.live /\ j.stage = "list"
    /\ \/ Wait(j, [j EXCEPT !.stage = "save", !.found = Found])
       \/ flaky /\ Wait(j, [j EXCEPT !.stage = "save",
                              !.found = [Found EXCEPT !.accounts = 0, !.synced = 0]])
       \/ flaky /\ Fail(j, FALSE)
    /\ UNCHANGED <<connected, core>>

SaveReply(j) ==
    /\ j.live /\ j.stage = "save"
    /\ \/ Succeed(j, j.found)
       \/ flaky /\ Fail(j, FALSE)
    /\ UNCHANGED <<connected, core>>

Reply(j) ==
    /\ \/ Ignored(j)
       \/ CapabilityReply(j)
       \/ ProbeReply(j)
       \/ OpenReply(j)
       \/ HeightReply(j)
       \/ SyncReply(j)
       \/ ListReply(j)
       \/ SaveReply(j)
    /\ UNCHANGED <<polling, creating, disk, flaky, requests>>

\* The creation the user waits for, blocking calls and all: the core may fail or
\* time out, and a wallet that cannot be saved gets no session.
WalletCreated ==
    /\ creating
    /\ creating' = FALSE
    /\ \/ flaky /\ UNCHANGED <<ctl, connected, jobs, polling, disk, core>>
       \/ /\ connected' = TRUE
          /\ disk' = [stored |-> TRUE, disconnected |-> FALSE]
          /\ core' = [core EXCEPT !.open = TRUE, !.wallet = @ + 1, !.accounts = 1, !.synced = 0]
          /\ \/ flaky /\ UNCHANGED <<ctl, jobs, polling>>
             \/ /\ ctl' = NewSession(ctl)
                /\ StartJob("create", "height")
                /\ polling' = FALSE
    /\ UNCHANGED <<flaky, requests>>

\* pollSnapshot, when its timer runs out.
PollSnapshot ==
    /\ ctl.poll
    /\ ctl' = [ctl EXCEPT !.poll = FALSE]
    /\ polling' = (polling \/ (ctl.open /\ ~ctl.refreshing))
    /\ UNCHANGED <<connected, jobs, creating, disk, core, flaky, requests>>

NothingNew == core.height <= ctl.synced /\ ctl.status = "ready"

\* The poll's answer: without a new block there is nothing to refresh.
HeightPolled ==
    /\ polling
    /\ \/ /\ NothingNew
          /\ ctl' = [ctl EXCEPT !.poll = TRUE]
          /\ polling' = FALSE
          /\ UNCHANGED jobs
       \/ /\ flaky \/ ~NothingNew
          /\ RefreshSnapshot(ctl)
    /\ UNCHANGED <<connected, creating, disk, core, flaky, requests>>

----------------------------------------------------------------------------
(* Everybody else                                                          *)

NewBlock ==
    /\ core.height < MAX_HEIGHT
    /\ core' = [core EXCEPT !.height = @ + 1]
    /\ UNCHANGED <<session, disk, flaky, requests>>

\* Another application shares the core: it opens the wallet or adds an account.
OtherApplication ==
    /\ disk.stored
    /\ \/ ~core.open /\ core' = [core EXCEPT !.open = TRUE]
       \/ /\ core.open /\ core.accounts < MAX_ACCOUNTS
          /\ core' = [core EXCEPT !.accounts = @ + 1]
    /\ UNCHANGED <<session, disk, flaky, requests>>

\* From here on every reply arrives and succeeds.
Steady == flaky /\ flaky' = FALSE /\ UNCHANGED <<session, disk, core, requests>>

\* The first start: a wallet may be stored, and open in the core.
Init ==
    /\ disk \in [stored : BOOLEAN, disconnected : {FALSE}]
    /\ core \in [open : {FALSE, disk.stored}, wallet : {0}, accounts : {1},
                  height : {1}, synced : {0}]
    /\ ctl = [StartedCtl EXCEPT !.initialSync = TRUE, !.status = "opening"]
    /\ jobs = {Job("connect", "capability")}
    /\ connected = FALSE
    /\ polling = FALSE
    /\ creating = FALSE
    /\ flaky = TRUE
    /\ requests = MAX_REQUESTS

User == Open \/ CancelSync \/ Disconnect \/ CreateWallet \/ Refresh \/ CreateAccount \/ Restart

Answer == \E j \in jobs : Reply(j)

Next ==
    \/ User
    \/ ShowSyncing
    \/ Answer
    \/ WalletCreated
    \/ PollSnapshot
    \/ HeightPolled
    \/ NewBlock
    \/ OtherApplication
    \/ Steady

\* Posted callbacks run, timers run out and every call is answered, if only by the
\* SDK's timeout.  Nobody has to do anything else, ever.
Fairness ==
    /\ WF_vars(ShowSyncing)
    /\ WF_vars(\E j \in jobs : j.live /\ Reply(j))
    /\ WF_vars(WalletCreated)
    /\ WF_vars(PollSnapshot)
    /\ WF_vars(HeightPolled)

Spec == Init /\ [][Next]_vars /\ Fairness

----------------------------------------------------------------------------
(* Properties                                                              *)

\* A wallet the user disconnected, or whose sync was cancelled, stays closed, here
\* and in the provider, until the user opens one or a creation ends: no late reply,
\* timer or restart brings it back (disconnect, cancelSync, openOnStartup).  The creation
\* can be one asked for before: createWallet waits for it in a nested event loop, where
\* the user can disconnect, and opens its wallet all the same.
ClosedStaysClosed ==
    disk.disconnected => ~ctl.open /\ ~ctl.initialSync /\ ~connected

Awaited(kinds) == \E j \in jobs : j.wanted /\ j.live /\ j.kind \in kinds

\* An open wallet is always going to be refreshed again, and a first sync shown as
\* running is running: whatever the user interrupts, a timer is armed or a reply the
\* controller will accept is under way (refreshSnapshot, pollSnapshot, createWallet).
RefreshStaysArmed ==
    /\ ctl.open /\ ~ctl.initialSync => ctl.poll \/ polling \/ Awaited({"refresh"})
    /\ ctl.initialSync => Awaited({"connect", "create"})

\* Opening ends, open or closed, even when the core never comes up: over and over the
\* session is not opening.  And once the core answers and the chain rests, an open wallet
\* is over and over at the tip of the chain and not in error, without the user's help
\* (retryCapabilityAsync, scheduleSnapshotPoll).
SyncSettles ==
    /\ []<>~ctl.initialSync
    /\ []<>(~flaky /\ core.height = MAX_HEIGHT /\ ctl.open
                => ctl.synced = MAX_HEIGHT /\ ctl.status = "ready")

CanSubmit == ctl.open /\ ~ctl.initialSync

Contract == INSTANCE SessionContract WITH
    Identities <- [wallet : Nat, accounts : Nat],
    Sequencers <- {NONE},
    NIL <- NONE,
    wallet <- [open |-> ctl.open, ready |-> CanSubmit, payer |-> ctl.feePayer # NONE,
               identities |-> ctl.identities, sequencer |-> NONE,
               sessionRevision |-> ctl.sessionRevision]

\* The session keeps the contract the application fences its swaps with: whatever is
\* refreshed, created, closed, lost or answered late, the accounts change and the wallet
\* gets ready only in a step that moves the session revision (applySnapshot, cancelSync,
\* disconnect), and only an open wallet is ready.
KeepsTheContract == Contract!SessionSpec

\* What WalletUiState says of feePayerId: "Empty when the wallet is closed".
FeePayerOfAnOpenWallet == ~ctl.open => ctl.feePayer = NONE
=============================================================================
