---------------------------- MODULE WalletProofs ----------------------------
(***************************************************************************)
(* Proofs about the wallet session, for any retry limits, chunk size,      *)
(* chain height and number of requests, and about the application fenced   *)
(* by it, for any wallet that keeps the session's contract.                *)
(*                                                                         *)
(* The session's invariants the run checks are not inductive by            *)
(* themselves.  What makes them so is how the two generation counters      *)
(* move: always together, so that a reply the controller wants is one the  *)
(* provider has live, and before every new request, so that at most one is *)
(* wanted.  The application's fence rests on its revision: what carries    *)
(* the revision of now was priced in the context of now.                   *)
(***************************************************************************)
EXTENDS WalletSession, AmmApp, TLAPS

Snapshot == [wallet : Nat, accounts : Nat, synced : Nat]

Controller ==
    [open : BOOLEAN, initialSync : BOOLEAN, refreshing : BOOLEAN, poll : BOOLEAN,
     status : {"closed", "opening", "syncing", "ready", "error"}, failures : Nat,
     identities : [wallet : Nat, accounts : Nat] \cup {NONE}, feePayer : Nat \cup {NONE},
     synced : Nat, sessionRevision : {0, 1}]

Chain ==
    [kind : {"connect", "refresh", "create"},
     stage : {"capability", "probe", "open", "height", "sync", "list", "save"},
     wanted : BOOLEAN, live : BOOLEAN, attempt : Nat, target : Nat,
     found : Snapshot \cup {NONE}]

Typed ==
    /\ ctl \in Controller
    /\ jobs \subseteq Chain
    /\ \A j \in jobs : j.stage = "save" => j.found \in Snapshot
    /\ connected \in BOOLEAN /\ polling \in BOOLEAN /\ creating \in BOOLEAN
    /\ disk \in [stored : BOOLEAN, disconnected : BOOLEAN]
    /\ core \in [open : BOOLEAN, wallet : Nat, accounts : Nat, height : Nat, synced : Nat]
    /\ flaky \in BOOLEAN
    /\ requests \in Nat

\* The two counters agree on every chain of calls, and at most one chain is wanted.
OneRequest ==
    /\ \A j \in jobs : j.wanted = j.live
    /\ \A j, k \in jobs : j.wanted /\ k.wanted => j = k

\* The controller's flags say which reply it waits for.
FlagsAreTrue ==
    /\ \A j \in jobs : j.wanted =>
          IF j.kind = "refresh" THEN ctl.open ELSE ctl.initialSync
    /\ ctl.poll => ctl.open /\ ~ctl.initialSync
    /\ ctl.initialSync => ~ctl.refreshing
    /\ ctl.refreshing => ctl.open /\ Awaited({"refresh"})
    /\ polling => ctl.open /\ ~ctl.initialSync /\ ~ctl.refreshing

\* Nothing is under way that could open what the user closed.
ClosedIsQuiet == disk.disconnected => \A j \in jobs : ~j.wanted /\ ~j.live

SessionInv ==
    Typed /\ OneRequest /\ FlagsAreTrue /\ ClosedIsQuiet
          /\ ClosedStaysClosed /\ RefreshStaysArmed

---------------------------------------------------------------------------
(* How the set of chains changes                                           *)

\* Both counters moving on leaves no chain that anybody listens to.
LEMMA NobodyListens ==
  ASSUME Typed
  PROVE  /\ Abandoned(Overtaken(jobs)) \subseteq Chain
         /\ \A j \in Abandoned(Overtaken(jobs)) :
               ~j.wanted /\ ~j.live /\ j.stage # "save"
<1> DEFINE old == Overtaken(jobs)
<1>1. old \subseteq Chain /\ \A j \in old : ~j.wanted
  <2>1. \A j \in Chain : [j EXCEPT !.wanted = FALSE] \in Chain
                        /\ ~[j EXCEPT !.wanted = FALSE].wanted
    BY DEF Chain
  <2> QED BY <2>1 DEF Typed, Overtaken
<1>2. \A k \in old : [k EXCEPT !.live = FALSE] \in Chain
                     /\ ~[k EXCEPT !.live = FALSE].live
                     /\ [k EXCEPT !.live = FALSE].wanted = k.wanted
                     /\ [k EXCEPT !.live = FALSE].stage = k.stage
  BY <1>1 DEF Chain
<1>3. Abandoned(old) = {[k EXCEPT !.live = FALSE] :
                          k \in {i \in old : i.stage \in {"open", "sync"}}}
  BY DEF Abandoned
<1> QED BY <1>1, <1>2, <1>3

\* A new request is the only one wanted.
LEMMA OnlyTheNewIsWanted ==
  ASSUME Typed, NEW kind \in {"connect", "refresh", "create"},
         NEW stage \in {"capability", "height"}, StartJob(kind, stage)
  PROVE  /\ jobs' \subseteq Chain
         /\ \A j \in jobs' : j.stage = "save" => j.found \in Snapshot
         /\ \A j \in jobs' : j.wanted = j.live
         /\ \A j \in jobs' : j.wanted => j = Job(kind, stage)
         /\ Job(kind, stage) \in jobs'
<1>1. Job(kind, stage) \in Chain /\ Job(kind, stage).wanted /\ Job(kind, stage).live
      /\ Job(kind, stage).stage # "save"
  BY DEF Job, Chain
<1>2. jobs' = Abandoned(Overtaken(jobs)) \cup {Job(kind, stage)}
  BY DEF StartJob
<1>3. \A j \in jobs' : j.wanted = j.live
  <2>1. \A j \in jobs' : j \in Chain /\ ((~j.wanted /\ ~j.live) \/ (j.wanted /\ j.live))
    BY <1>1, <1>2, NobodyListens
  <2> QED BY <2>1 DEF Chain
<1>4. /\ jobs' \subseteq Chain
      /\ \A j \in jobs' : j.stage = "save" => j.found \in Snapshot
      /\ \A j \in jobs' : j.wanted => j = Job(kind, stage)
      /\ Job(kind, stage) \in jobs'
  BY <1>1, <1>2, NobodyListens
<1> QED BY <1>3, <1>4

\* A chain that waits for its next reply is wanted as much as before.
LEMMA WaitingChangesNothing ==
  ASSUME SessionInv, NEW j \in jobs, NEW k \in Chain, Wait(j, k),
         k.kind = j.kind, k.wanted = j.wanted, k.live = j.live,
         k.stage = "save" => k.found \in Snapshot
  PROVE  /\ jobs' \subseteq Chain
         /\ \A i \in jobs' : i.stage = "save" => i.found \in Snapshot
         /\ OneRequest'
         /\ \A i \in jobs' : i.wanted => \E h \in jobs : h.wanted /\ h.kind = i.kind
         /\ \A kinds \in SUBSET {"connect", "refresh", "create"} :
               Awaited(kinds) => Awaited(kinds)'
         /\ ClosedIsQuiet /\ disk' = disk => ClosedIsQuiet'
<1> USE DEF SessionInv
<1>1. jobs' = (jobs \ {j}) \cup {k}
  BY DEF Wait
<1>2. jobs' \subseteq Chain /\ \A i \in jobs' : i.stage = "save" => i.found \in Snapshot
  BY <1>1 DEF Typed
<1>3. OneRequest'
  BY <1>1 DEF OneRequest
<1>4. \A i \in jobs' : i.wanted => \E h \in jobs : h.wanted /\ h.kind = i.kind
  BY <1>1
<1>5. ASSUME NEW kinds \in SUBSET {"connect", "refresh", "create"}, Awaited(kinds)
      PROVE  Awaited(kinds)'
  BY <1>1, <1>5 DEF Awaited
<1>6. ClosedIsQuiet /\ disk' = disk => ClosedIsQuiet'
  BY <1>1 DEF ClosedIsQuiet
<1> QED BY <1>2, <1>3, <1>4, <1>5, <1>6

\* A request for a first snapshot or a refresh, and the flags that go with it.
LEMMA RequestKeepsInv ==
  ASSUME SessionInv, NEW kind \in {"connect", "refresh", "create"},
         NEW stage \in {"capability", "height"}, StartJob(kind, stage),
         ctl' \in Controller, polling' = FALSE,
         ctl'.initialSync = (kind # "refresh"),
         ctl'.refreshing = (kind = "refresh"),
         kind = "refresh" => ctl'.open, ~ctl'.poll,
         ~disk'.disconnected,
         connected' \in BOOLEAN, creating' \in BOOLEAN, flaky' \in BOOLEAN, requests' \in Nat,
         disk' \in [stored : BOOLEAN, disconnected : BOOLEAN],
         core' \in [open : BOOLEAN, wallet : Nat, accounts : Nat, height : Nat, synced : Nat]
  PROVE  SessionInv'
<1>0. Typed BY DEF SessionInv
<1> DEFINE new == Job(kind, stage)
<1>a. new.wanted /\ new.live /\ new.kind = kind
  BY DEF Job
<1>1. Typed'
  BY <1>0, OnlyTheNewIsWanted DEF Typed
<1>2. OneRequest'
  BY <1>0, OnlyTheNewIsWanted DEF OneRequest
<1>3. \A kinds : kind \in kinds => Awaited(kinds)'
  BY <1>0, <1>a, OnlyTheNewIsWanted DEF Awaited
<1>4. \A j \in jobs' : j.wanted => j.kind = kind
  BY <1>0, <1>a, OnlyTheNewIsWanted
<1>5. FlagsAreTrue'
  BY <1>3, <1>4 DEF FlagsAreTrue
<1>6. ClosedIsQuiet' /\ ClosedStaysClosed'
  BY DEF ClosedIsQuiet, ClosedStaysClosed
<1>7. RefreshStaysArmed'
  BY <1>3 DEF RefreshStaysArmed
<1> QED BY <1>1, <1>2, <1>5, <1>6, <1>7 DEF SessionInv

\* refreshSnapshot: a no-op, or the one request of an open wallet.
LEMMA RefreshKeepsInv ==
  ASSUME SessionInv, NEW c \in Controller, RefreshSnapshot(c),
         c.open = ctl.open, c.initialSync = ctl.initialSync,
         c.refreshing = ctl.refreshing, c.poll = ctl.poll,
         UNCHANGED <<connected, creating, disk, core, flaky>>, requests' \in Nat
  PROVE  SessionInv'
<1>1. CASE c.open /\ ~c.initialSync /\ ~c.refreshing
  <2>1. /\ ctl' = [c EXCEPT !.poll = FALSE, !.refreshing = TRUE]
        /\ StartJob("refresh", "height")
        /\ polling' = FALSE
    BY <1>1 DEF RefreshSnapshot
  <2>2. /\ ctl' \in Controller
        /\ ctl'.open = c.open /\ ctl'.initialSync = c.initialSync /\ ctl'.refreshing = TRUE
        /\ ~ctl'.poll
    BY <2>1 DEF Controller
  <2>3. ~disk'.disconnected
    BY <1>1 DEF SessionInv, ClosedStaysClosed
  <2>4. ctl'.initialSync = FALSE
    BY <2>2, <1>1 DEF Controller
  <2> QED BY <2>1, <2>2, <2>3, <2>4, <1>1, RequestKeepsInv DEF SessionInv, Typed
<1>2. CASE ~(c.open /\ ~c.initialSync /\ ~c.refreshing)
  <2>1. ctl' = c /\ jobs' = jobs /\ polling' = polling
    BY <1>2 DEF RefreshSnapshot
  <2> QED BY <2>1 DEF SessionInv, Typed, OneRequest, FlagsAreTrue, ClosedIsQuiet,
                      ClosedStaysClosed, RefreshStaysArmed, Awaited
<1> QED BY <1>1, <1>2

LEMMA RevisionMoves ==
  ASSUME NEW c \in Controller
  PROVE  /\ Bumped(c) \in Controller
         /\ Bumped(c).sessionRevision # c.sessionRevision
         /\ Bumped(c).open = c.open /\ Bumped(c).refreshing = c.refreshing
<1>1. c.sessionRevision \in {0, 1}
  BY DEF Controller
<1>2. 1 - c.sessionRevision \in {0, 1} /\ 1 - c.sessionRevision # c.sessionRevision
  BY <1>1
<1>3. Bumped(c) = [c EXCEPT !.sessionRevision = 1 - c.sessionRevision]
  BY DEF Bumped
<1> QED BY <1>2, <1>3 DEF Controller

\* Closing leaves nothing to wait for, here and in the provider.
LEMMA CloseKeepsInv ==
  ASSUME SessionInv, NEW c \in Controller, NEW status \in {"closed", "error"},
         Close(status, c), requests' \in Nat
  PROVE  SessionInv'
<1>1. /\ ctl' = [Closed(c) EXCEPT !.status = status]
      /\ jobs' = Abandoned(Overtaken(jobs))
      /\ polling' = FALSE /\ connected' = FALSE
      /\ disk' = [disk EXCEPT !.disconnected = TRUE]
      /\ UNCHANGED <<creating, core, flaky>>
  BY DEF Close
<1>2. /\ ctl' \in Controller
      /\ ~ctl'.open /\ ~ctl'.initialSync /\ ~ctl'.refreshing /\ ~ctl'.poll
  <2>1. Bumped(c) \in Controller
    BY RevisionMoves
  <2> QED BY <1>1, <2>1 DEF Closed, Controller
<1>3. \A j \in jobs' : j \in Chain /\ ~j.wanted /\ ~j.live /\ j.stage # "save"
  BY <1>1, NobodyListens DEF SessionInv
<1>4. Typed'
  BY <1>1, <1>2, <1>3 DEF SessionInv, Typed
<1>5. OneRequest'
  BY <1>3 DEF OneRequest, Chain
<1> QED BY <1>1, <1>2, <1>3, <1>4, <1>5
        DEF SessionInv, FlagsAreTrue, ClosedIsQuiet, ClosedStaysClosed, RefreshStaysArmed

---------------------------------------------------------------------------
(* Replies: a chain waits on, ends well, ends badly, or nobody listens      *)

\* What a reply leaves alone.
Elsewhere == UNCHANGED <<polling, creating, disk, flaky, requests>>

CoreTyped ==
    core \in [open : BOOLEAN, wallet : Nat, accounts : Nat, height : Nat, synced : Nat]

LEMMA WaitKeepsInv ==
  ASSUME SessionInv, NEW j \in jobs, j.live, NEW k \in Chain, Wait(j, k),
         k.kind = j.kind, k.wanted = j.wanted, k.live = j.live,
         k.stage = "save" => k.found \in Snapshot,
         connected' \in BOOLEAN, CoreTyped', Elsewhere
  PROVE  SessionInv'
<1>1. /\ jobs' \subseteq Chain
      /\ \A i \in jobs' : i.stage = "save" => i.found \in Snapshot
      /\ OneRequest'
      /\ \A i \in jobs' : i.wanted => \E h \in jobs : h.wanted /\ h.kind = i.kind
      /\ \A kinds \in SUBSET {"connect", "refresh", "create"} :
            Awaited(kinds) => Awaited(kinds)'
      /\ ClosedIsQuiet /\ disk' = disk => ClosedIsQuiet'
  BY WaitingChangesNothing
<1>2. ctl' = ctl /\ polling' = polling /\ disk' = disk
  BY DEF Wait, Elsewhere
<1>3. Typed'
  BY <1>1, <1>2 DEF SessionInv, Typed, CoreTyped, Elsewhere
<1>4. FlagsAreTrue'
  BY <1>1, <1>2 DEF SessionInv, FlagsAreTrue
<1>5. ~disk.disconnected
  BY DEF SessionInv, ClosedIsQuiet
<1>6. ClosedIsQuiet' /\ ClosedStaysClosed'
  BY <1>2, <1>5 DEF ClosedIsQuiet, ClosedStaysClosed
<1>7. RefreshStaysArmed'
  BY <1>1, <1>2 DEF SessionInv, RefreshStaysArmed
<1> QED BY <1>1, <1>3, <1>4, <1>6, <1>7 DEF SessionInv

\* The chain that ends was the only one wanted.
LEMMA NothingElseIsWanted ==
  ASSUME SessionInv, NEW j \in jobs, j.live, jobs' = jobs \ {j}
  PROVE  /\ j.wanted
         /\ j.kind # "refresh" =>
               ctl.initialSync /\ ~ctl.refreshing /\ ~polling /\ ~ctl.poll
         /\ j.kind = "refresh" => ctl.open /\ ~ctl.initialSync
         /\ ~disk.disconnected
         /\ \A i \in jobs' : ~i.wanted
         /\ OneRequest'
<1>1. j.wanted /\ j.kind \in {"connect", "refresh", "create"}
  BY DEF SessionInv, OneRequest, Typed, Chain
<1>2. \A i \in jobs' : ~i.wanted
  BY <1>1 DEF SessionInv, OneRequest
<1>3. j.kind # "refresh" => ctl.initialSync /\ ~ctl.refreshing /\ ~polling /\ ~ctl.poll
  BY <1>1 DEF SessionInv, FlagsAreTrue
<1>4. j.kind = "refresh" => ctl.open /\ ~ctl.initialSync
  BY <1>1 DEF SessionInv, OneRequest, FlagsAreTrue, RefreshStaysArmed, Awaited
<1>5. ~disk.disconnected
  BY DEF SessionInv, ClosedIsQuiet
<1>6. OneRequest'
  BY DEF SessionInv, OneRequest
<1> QED BY <1>1, <1>2, <1>3, <1>4, <1>5, <1>6

LEMMA EndKeepsInv ==
  ASSUME SessionInv, NEW j \in jobs, j.live, jobs' = jobs \ {j},
         ctl' \in Controller, ~ctl'.initialSync, ~ctl'.refreshing,
         ctl'.open = ctl'.poll, polling => ctl'.open,
         UNCHANGED <<connected, core>>, Elsewhere
  PROVE  SessionInv'
<1>1. Typed'
  BY DEF SessionInv, Typed, Elsewhere
<1>2. OneRequest' /\ ~disk'.disconnected /\ \A i \in jobs' : ~i.wanted
  BY NothingElseIsWanted DEF Elsewhere
<1>3. FlagsAreTrue'
  BY <1>2 DEF FlagsAreTrue, Elsewhere
<1>4. ClosedIsQuiet' /\ ClosedStaysClosed' /\ RefreshStaysArmed'
  BY <1>2 DEF ClosedIsQuiet, ClosedStaysClosed, RefreshStaysArmed
<1> QED BY <1>1, <1>2, <1>3, <1>4 DEF SessionInv

LEMMA SnapshotApplies ==
  ASSUME NEW c \in Controller, NEW found \in Snapshot, NEW newSession \in BOOLEAN
  PROVE  LET d == ApplySnapshot(c, found, newSession)
         IN  /\ d \in Controller /\ d.poll /\ ~d.initialSync
             /\ d.open = c.open /\ d.refreshing = c.refreshing
             /\ d.sessionRevision = c.sessionRevision =>
                   ~newSession /\ d.identities = c.identities
<1> DEFINE ids == [wallet |-> found.wallet, accounts |-> found.accounts]
           payer == IF found.accounts = 0 THEN NONE ELSE found.wallet
           s == IF newSession \/ c.identities # ids THEN Bumped(c) ELSE c
<1>1. [wallet |-> found.wallet, accounts |-> found.accounts] \in [wallet : Nat, accounts : Nat]
      /\ found.wallet \in Nat /\ found.synced \in Nat
  BY DEF Snapshot
<1>2. /\ s \in Controller /\ s.open = c.open /\ s.refreshing = c.refreshing
      /\ s.sessionRevision = c.sessionRevision => ~newSession /\ c.identities = ids
  BY RevisionMoves
<1>3. ids \in [wallet : Nat, accounts : Nat] /\ payer \in Nat \cup {NONE}
  BY <1>1
<1>4. ApplySnapshot(c, found, newSession) =
        [s EXCEPT !.identities = ids,
                  !.feePayer = payer,
                  !.synced = found.synced, !.initialSync = FALSE, !.status = "ready",
                  !.failures = 0, !.poll = TRUE]
  BY DEF ApplySnapshot
<1> HIDE DEF ids, payer, s
<1> DEFINE d == ApplySnapshot(c, found, newSession)
<1>5. /\ d.poll = TRUE /\ d.initialSync = FALSE
      /\ d.open = s.open /\ d.refreshing = s.refreshing
      /\ d.identities = ids /\ d.sessionRevision = s.sessionRevision
  BY <1>2, <1>4 DEF Controller
<1>6. d \in Controller
  <2> DEFINE e == [s EXCEPT !.identities = ids, !.feePayer = payer]
  <2>1. e \in Controller
    BY <1>2, <1>3 DEF Controller
  <2>2. d = [e EXCEPT !.synced = found.synced, !.initialSync = FALSE, !.status = "ready",
                      !.failures = 0, !.poll = TRUE]
    BY <1>2, <1>4 DEF Controller
  <2> HIDE DEF e
  <2> DEFINE f == [e EXCEPT !.synced = found.synced, !.initialSync = FALSE]
  <2>3. f \in Controller
    <3>1. found.synced \in Nat
      BY <1>1
    <3> QED BY <2>1, <3>1 DEF Controller
  <2>4. d = [f EXCEPT !.status = "ready", !.failures = 0, !.poll = TRUE]
    BY <2>2
  <2> HIDE DEF d, f
  <2> QED BY <2>3, <2>4 DEF Controller
<1> HIDE DEF d
<1>7. /\ d \in Controller /\ d.poll /\ ~d.initialSync
      /\ d.open = c.open /\ d.refreshing = c.refreshing
      /\ d.sessionRevision = c.sessionRevision => ~newSession /\ d.identities = c.identities
  BY <1>2, <1>5, <1>6
<1> QED BY <1>7 DEF d

LEMMA SucceedKeepsInv ==
  ASSUME SessionInv, NEW j \in jobs, j.live, NEW found \in Snapshot, Succeed(j, found),
         UNCHANGED <<connected, core>>, Elsewhere
  PROVE  SessionInv'
<1>1. jobs' = jobs \ {j}
  BY DEF Succeed
<1> DEFINE c == [ctl EXCEPT !.open = TRUE,
                            !.refreshing = IF j.kind = "refresh" THEN FALSE ELSE @]
<1>2. ctl' = ApplySnapshot(c, found, j.kind # "refresh")
  BY <1>1, NothingElseIsWanted DEF Succeed
<1>3. ctl \in Controller
  BY DEF SessionInv, Typed
<1>4. c \in Controller /\ c.open /\ ~c.refreshing
  BY <1>1, <1>3, NothingElseIsWanted DEF Controller
<1> HIDE DEF c
<1>5. /\ ctl' \in Controller /\ ctl'.open /\ ctl'.poll
      /\ ~ctl'.initialSync /\ ctl'.refreshing = c.refreshing
  BY <1>2, <1>4, SnapshotApplies
<1>6. ctl'.open = ctl'.poll
  BY <1>5 DEF Controller
<1> QED BY <1>1, <1>4, <1>5, <1>6, EndKeepsInv

LEMMA FailKeepsInv ==
  ASSUME SessionInv, NEW j \in jobs, j.live, NEW missing \in BOOLEAN, Fail(j, missing),
         UNCHANGED <<connected, core>>, Elsewhere
  PROVE  SessionInv'
<1>1. jobs' = jobs \ {j}
  BY DEF Fail
<1>2. ctl' = Failed(ctl, j.kind, missing)
  BY <1>1, NothingElseIsWanted DEF Fail
<1>3. ctl \in Controller
  BY DEF SessionInv, Typed
<1>4. CASE j.kind = "refresh"
  <2>1. /\ ctl' \in Controller /\ ctl'.poll /\ ~ctl'.refreshing
        /\ ctl'.open = ctl.open /\ ctl'.initialSync = ctl.initialSync
    <3> DEFINE failures == Min2(ctl.failures + 1, REFRESH_FAILURES_BEFORE_ERROR)
    <3>1. failures \in Nat
      BY <1>3, WalletAssumption DEF Controller, Min2
    <3>2. \E status \in {"closed", "opening", "syncing", "ready", "error"} :
             ctl' = [ctl EXCEPT !.refreshing = FALSE, !.failures = failures,
                                !.poll = TRUE, !.status = status]
      <4> DEFINE gives_up == failures = REFRESH_FAILURES_BEFORE_ERROR /\ ctl.status = "ready"
                 status == IF gives_up \/ ctl.status = "syncing" THEN "error" ELSE ctl.status
      <4>1. ctl' = [ctl EXCEPT !.refreshing = FALSE, !.failures = failures,
                               !.poll = TRUE, !.status = status]
        BY <1>2, <1>4 DEF Failed
      <4>2. status \in {"closed", "opening", "syncing", "ready", "error"}
        BY <1>3 DEF Controller
      <4> QED BY <4>1, <4>2
    <3> QED BY <1>3, <3>1, <3>2 DEF Controller
  <2>2. ~ctl'.initialSync /\ ctl'.open
    BY <1>1, <1>4, <2>1, NothingElseIsWanted
  <2>3. ctl'.open = ctl'.poll
    BY <2>1, <2>2 DEF Controller
  <2> QED BY <1>1, <2>1, <2>2, <2>3, EndKeepsInv
<1>5. CASE j.kind # "refresh"
  <2>1. /\ ctl' \in Controller /\ ~ctl'.open /\ ~ctl'.initialSync
        /\ ctl'.refreshing = ctl.refreshing /\ ctl'.poll = ctl.poll
    BY <1>2, <1>3, <1>5 DEF Failed, Controller
  <2>2. ~ctl'.refreshing /\ ~polling /\ ~ctl'.poll
    BY <1>1, <1>5, <2>1, NothingElseIsWanted
  <2>3. ctl'.open = ctl'.poll
    BY <2>1, <2>2 DEF Controller
  <2> QED BY <1>1, <2>1, <2>2, <2>3, EndKeepsInv
<1> QED BY <1>4, <1>5

\* A reply nobody listens to changes the core at most.
LEMMA DropKeepsInv ==
  ASSUME SessionInv, NEW j \in jobs, ~j.live, jobs' = jobs \ {j},
         UNCHANGED <<ctl, connected>>, CoreTyped', Elsewhere
  PROVE  SessionInv'
<1>1. Typed'
  BY DEF SessionInv, Typed, CoreTyped, Elsewhere
<1>2. ~j.wanted
  BY DEF SessionInv, OneRequest
<1>3. OneRequest'
  BY DEF SessionInv, OneRequest
<1>4. \A kinds : Awaited(kinds) => Awaited(kinds)'
  BY <1>2 DEF Awaited
<1>5. FlagsAreTrue' /\ RefreshStaysArmed'
  BY <1>4 DEF SessionInv, FlagsAreTrue, RefreshStaysArmed, Elsewhere
<1>6. ClosedIsQuiet' /\ ClosedStaysClosed'
  BY DEF SessionInv, ClosedIsQuiet, ClosedStaysClosed, Elsewhere
<1> QED BY <1>1, <1>3, <1>5, <1>6 DEF SessionInv

LEMMA ReplyKeepsInv ==
  ASSUME SessionInv, NEW j \in jobs, Reply(j)
  PROVE  SessionInv'
<1>1. j \in Chain /\ CoreTyped /\ connected \in BOOLEAN
  BY DEF SessionInv, Typed, CoreTyped
<1>2. Elsewhere
  BY DEF Reply, Elsewhere
<1>3. CASE Ignored(j)
  BY <1>1, <1>2, <1>3, DropKeepsInv DEF Ignored, CoreTyped
<1>4. CASE CapabilityReply(j)
  <2>1. j.live /\ UNCHANGED <<connected, core>>
    BY <1>4 DEF CapabilityReply
  <2>2. CASE Wait(j, [j EXCEPT !.stage = "probe"])
    <3>1. /\ [j EXCEPT !.stage = "probe"] \in Chain
          /\ [j EXCEPT !.stage = "probe"].kind = j.kind
          /\ [j EXCEPT !.stage = "probe"].wanted = j.wanted
          /\ [j EXCEPT !.stage = "probe"].live = j.live
          /\ [j EXCEPT !.stage = "probe"].stage # "save"
      BY <1>1 DEF Chain
    <3> QED BY <1>1, <1>2, <2>1, <2>2, <3>1, WaitKeepsInv DEF CoreTyped
  <2>3. CASE Wait(j, [j EXCEPT !.attempt = @ + 1])
    <3> DEFINE k == [j EXCEPT !.attempt = @ + 1]
    <3>0. j.stage = "capability" /\ j.attempt + 1 \in Nat
      BY <1>1, <1>4 DEF Chain, CapabilityReply
    <3>1. /\ k \in Chain /\ k.kind = j.kind /\ k.wanted = j.wanted /\ k.live = j.live
          /\ k.stage = "capability"
      BY <1>1, <3>0 DEF Chain
    <3> QED BY <1>1, <1>2, <2>1, <2>3, <3>1, WaitKeepsInv DEF CoreTyped
  <2>4. CASE Fail(j, FALSE)
    BY <1>2, <2>1, <2>4, FailKeepsInv
  <2> QED BY <1>4, <2>2, <2>3, <2>4 DEF CapabilityReply
<1>5. ASSUME j.live, FinishOpen(j), CoreTyped'
      PROVE  SessionInv'
  <2> DEFINE k == [j EXCEPT !.stage = "height"]
  <2>1. /\ k \in Chain /\ k.kind = j.kind /\ k.wanted = j.wanted /\ k.live = j.live
        /\ k.stage # "save"
    BY <1>1 DEF Chain
  <2>2. Wait(j, k) /\ connected' \in BOOLEAN
    BY <1>5 DEF FinishOpen
  <2> QED BY <1>2, <1>5, <2>1, <2>2, WaitKeepsInv
<1>6. CASE ProbeReply(j)
  <2>1. j.live /\ UNCHANGED core
    BY <1>6 DEF ProbeReply
  <2>2. CASE FinishOpen(j)
    BY <1>1, <1>5, <2>1, <2>2 DEF CoreTyped
  <2>3. CASE UNCHANGED connected /\ Wait(j, [j EXCEPT !.stage = "open"])
    <3> DEFINE k == [j EXCEPT !.stage = "open"]
    <3>1. /\ k \in Chain /\ k.kind = j.kind /\ k.wanted = j.wanted /\ k.live = j.live
          /\ k.stage # "save"
      BY <1>1 DEF Chain
    <3> QED BY <1>1, <1>2, <2>1, <2>3, <3>1, WaitKeepsInv DEF CoreTyped
  <2>4. CASE UNCHANGED connected /\ Fail(j, TRUE)
    BY <1>2, <2>1, <2>4, FailKeepsInv
  <2> QED BY <1>6, <2>2, <2>3, <2>4 DEF ProbeReply
<1>7. CASE OpenReply(j)
  <2>1. CASE core' = [core EXCEPT !.open = TRUE]
    <3>1. CoreTyped'
      BY <1>1, <2>1 DEF CoreTyped
    <3>2. CASE j.live /\ FinishOpen(j)
      BY <1>5, <3>1, <3>2
    <3>3. CASE ~j.live /\ jobs' = jobs \ {j} /\ UNCHANGED <<ctl, connected>>
      BY <1>2, <3>1, <3>3, DropKeepsInv
    <3>4. CASE j.live /\ Fail(j, FALSE) /\ UNCHANGED <<connected, core>>
      BY <1>2, <3>4, FailKeepsInv
    <3> QED BY <1>7, <3>2, <3>3, <3>4 DEF OpenReply
  <2>2. CASE j.live /\ Fail(j, FALSE) /\ UNCHANGED <<connected, core>>
    BY <1>2, <2>2, FailKeepsInv
  <2> QED BY <1>7, <2>1, <2>2 DEF OpenReply
<1>8. CASE HeightReply(j)
  <2>1. PICK target \in {core.height} \cup (IF flaky THEN {0} ELSE {}) :
           Wait(j, [j EXCEPT !.target = target,
                             !.stage = IF core.synced < target THEN "sync" ELSE "list"])
    BY <1>8 DEF HeightReply
  <2> DEFINE k == [j EXCEPT !.target = target,
                            !.stage = IF core.synced < target THEN "sync" ELSE "list"]
  <2>2. target \in Nat
    BY <1>1 DEF CoreTyped
  <2>3. /\ k \in Chain /\ k.kind = j.kind /\ k.wanted = j.wanted /\ k.live = j.live
        /\ k.stage # "save"
    BY <1>1, <2>2 DEF Chain
  <2>4. j.live /\ UNCHANGED <<connected, core>> /\ Wait(j, k)
    BY <1>8, <2>1 DEF HeightReply
  <2> QED BY <1>1, <1>2, <2>3, <2>4, WaitKeepsInv DEF CoreTyped
<1>9. CASE SyncReply(j)
  <2> DEFINE next == Min2(j.target, core.synced + SNAPSHOT_SYNC_CHUNK_BLOCKS)
             k == [j EXCEPT !.stage = IF next >= j.target THEN "list" ELSE @]
  <2>1. UNCHANGED connected /\ j.stage = "sync"
    BY <1>9 DEF SyncReply
  <2>2. CASE core' = [core EXCEPT !.synced = IF @ < next THEN next ELSE @]
    <3>1. next \in Nat
      BY <1>1, WalletAssumption DEF Min2, Chain, CoreTyped
    <3>2. CoreTyped'
      BY <1>1, <2>2, <3>1 DEF CoreTyped
    <3>3. CASE j.live /\ Wait(j, k)
      <4>1. /\ k \in Chain /\ k.kind = j.kind /\ k.wanted = j.wanted /\ k.live = j.live
            /\ k.stage # "save"
        BY <1>1, <2>1 DEF Chain
      <4> QED BY <1>1, <1>2, <2>1, <3>2, <3>3, <4>1, WaitKeepsInv
    <3>4. CASE ~j.live /\ jobs' = jobs \ {j} /\ UNCHANGED ctl
      BY <1>2, <2>1, <3>2, <3>4, DropKeepsInv
    <3>5. CASE j.live /\ Fail(j, FALSE) /\ UNCHANGED core
      BY <1>2, <2>1, <3>5, FailKeepsInv
    <3> QED BY <1>9, <3>3, <3>4, <3>5 DEF SyncReply
  <2>3. CASE j.live /\ Fail(j, FALSE) /\ UNCHANGED core
    BY <1>2, <2>1, <2>3, FailKeepsInv
  <2> QED BY <1>9, <2>2, <2>3 DEF SyncReply
<1>10. CASE ListReply(j)
  <2>1. j.live /\ UNCHANGED <<connected, core>>
    BY <1>10 DEF ListReply
  <2>2. Found \in Snapshot /\ [Found EXCEPT !.accounts = 0, !.synced = 0] \in Snapshot
    BY <1>1 DEF Found, Snapshot, CoreTyped
  <2>3. ASSUME NEW found \in Snapshot, Wait(j, [j EXCEPT !.stage = "save", !.found = found])
        PROVE  SessionInv'
    <3> DEFINE k == [j EXCEPT !.stage = "save", !.found = found]
    <3>1. /\ k \in Chain /\ k.kind = j.kind /\ k.wanted = j.wanted /\ k.live = j.live
          /\ k.found \in Snapshot
      BY <1>1, <2>3 DEF Chain
    <3> QED BY <1>1, <1>2, <2>1, <2>3, <3>1, WaitKeepsInv DEF CoreTyped
  <2>4. CASE Fail(j, FALSE)
    BY <1>2, <2>1, <2>4, FailKeepsInv
  <2> QED BY <1>10, <2>2, <2>3, <2>4 DEF ListReply
<1>11. CASE SaveReply(j)
  <2>1. j.live /\ j.stage = "save" /\ UNCHANGED <<connected, core>>
    BY <1>11 DEF SaveReply
  <2>2. j.found \in Snapshot
    BY <2>1 DEF SessionInv, Typed
  <2>3. CASE Succeed(j, j.found)
    BY <1>2, <2>1, <2>2, <2>3, SucceedKeepsInv
  <2>4. CASE Fail(j, FALSE)
    BY <1>2, <2>1, <2>4, FailKeepsInv
  <2> QED BY <1>11, <2>3, <2>4 DEF SaveReply
<1> QED BY <1>3, <1>4, <1>6, <1>7, <1>8, <1>9, <1>10, <1>11 DEF Reply

---------------------------------------------------------------------------
(* The user and everybody else                                             *)

LEMMA UserKeepsInv ==
  ASSUME SessionInv, User
  PROVE  SessionInv'
<1>1. Typed /\ ctl \in Controller /\ requests' \in Nat
  <2>1. Ask
    BY Zenon DEF User, Open, CancelSync, Disconnect, CreateWallet, Refresh, CreateAccount,
                 Restart
  <2> QED BY <2>1 DEF SessionInv, Typed, Ask
<1>2. CASE Open
  <2>1. /\ disk' \in [stored : BOOLEAN, disconnected : BOOLEAN] /\ ~disk'.disconnected
        /\ UNCHANGED <<core, flaky>>
    BY <1>1, <1>2 DEF Typed, Open
  <2>2. CASE CanOpen /\ BeginOpen
    <3>1. /\ ctl' = [ctl EXCEPT !.initialSync = TRUE, !.status = "opening"]
          /\ StartJob("connect", "capability") /\ polling' = FALSE
          /\ UNCHANGED <<connected, creating>>
      BY <2>2 DEF BeginOpen
    <3>2. ~ctl.refreshing /\ ~ctl.poll
      BY <2>2 DEF CanOpen, SessionInv, FlagsAreTrue
    <3>3. ctl' \in Controller /\ ctl'.initialSync = TRUE /\ ctl'.refreshing = FALSE
          /\ ~ctl'.poll
      BY <1>1, <3>1, <3>2 DEF Controller
    <3> QED BY <1>1, <2>1, <3>1, <3>3, RequestKeepsInv DEF Typed
  <2>3. CASE UNCHANGED session
    BY <1>1, <2>1, <2>3 DEF session, SessionInv, Typed, OneRequest, FlagsAreTrue,
          ClosedIsQuiet, ClosedStaysClosed, RefreshStaysArmed, Awaited
  <2> QED BY <1>2, <2>2, <2>3 DEF Open
<1>3. CASE CancelSync
  BY <1>1, <1>3, CloseKeepsInv DEF CancelSync
<1>4. CASE Disconnect
  <2>1. [ctl EXCEPT !.feePayer = NONE] \in Controller
    BY <1>1 DEF Controller
  <2> QED BY <1>1, <1>4, <2>1, CloseKeepsInv DEF Disconnect
<1>5. CASE CreateWallet
  BY <1>1, <1>5 DEF CreateWallet, SessionInv, Typed, OneRequest, FlagsAreTrue,
        ClosedIsQuiet, ClosedStaysClosed, RefreshStaysArmed, Awaited
<1>6. CASE Refresh
  <2> DEFINE c == [ctl EXCEPT !.status = IF @ = "error" THEN "syncing" ELSE @]
  <2>1. /\ c \in Controller /\ c.open = ctl.open /\ c.initialSync = ctl.initialSync
        /\ c.refreshing = ctl.refreshing /\ c.poll = ctl.poll
    BY <1>1 DEF Controller
  <2>2. RefreshSnapshot(c) /\ UNCHANGED <<connected, creating, disk, core, flaky>>
    BY <1>6 DEF Refresh
  <2> QED BY <1>1, <2>1, <2>2, RefreshKeepsInv
<1>7. CASE CreateAccount
  <2>1. /\ ctl.open /\ ~ctl.initialSync
        /\ core' = [core EXCEPT !.accounts = @ + 1, !.synced = core.height]
        /\ UNCHANGED <<connected, jobs, polling, creating, disk, flaky>>
    BY <1>7 DEF CreateAccount
  <2> DEFINE found == [Found EXCEPT !.accounts = @ + 1, !.synced = core.height]
  <2>2. found \in Snapshot
    <3>1. core.wallet \in Nat /\ core.accounts + 1 \in Nat /\ core.height \in Nat
          /\ core.synced \in Nat
      BY <1>1 DEF Typed
    <3> QED BY <3>1 DEF Found, Snapshot
  <2>3. /\ ctl' \in Controller /\ (ctl'.poll \/ UNCHANGED ctl)
        /\ ctl'.initialSync = ctl.initialSync
        /\ ctl'.open = ctl.open /\ ctl'.refreshing = ctl.refreshing
    <3>1. CASE UNCHANGED ctl
      BY <1>1, <3>1
    <3>2. CASE ctl' = ApplySnapshot(ctl, found, FALSE)
      <4> HIDE DEF found
      <4>1. /\ ctl' \in Controller /\ ctl'.poll /\ ~ctl'.initialSync
            /\ ctl'.open = ctl.open /\ ctl'.refreshing = ctl.refreshing
        BY <1>1, <2>2, <3>2, SnapshotApplies
      <4> QED BY <1>1, <2>1, <4>1 DEF Controller
    <3> QED BY <1>7, <3>1, <3>2 DEF CreateAccount
  <2>4. core' \in [open : BOOLEAN, wallet : Nat, accounts : Nat, height : Nat, synced : Nat]
    <3>1. core.accounts + 1 \in Nat /\ core.height \in Nat
      BY <1>1 DEF Typed
    <3> QED BY <1>1, <2>1, <3>1 DEF Typed
  <2>5. Typed'
    BY <1>1, <2>1, <2>3, <2>4 DEF Typed
  <2> QED BY <2>1, <2>3, <2>5 DEF SessionInv, OneRequest, FlagsAreTrue,
             ClosedIsQuiet, ClosedStaysClosed, RefreshStaysArmed, Awaited
<1>8. CASE Restart
  <2> DEFINE first == Job("connect", "capability")
  <2>1. first \in Chain /\ first.wanted /\ first.live /\ first.kind = "connect"
        /\ first.stage # "save" /\ first.wanted = first.live
    BY DEF Job, Chain
  <2>2. /\ connected' = FALSE /\ polling' = FALSE /\ creating' = FALSE
        /\ UNCHANGED <<disk, core, flaky>>
    BY <1>8 DEF Restart
  <2>3. CASE disk.disconnected
    <3>1. jobs' = {} /\ ctl' = StartedCtl
      BY <1>8, <2>3 DEF Restart
    <3>2. /\ ctl' \in Controller /\ ~ctl'.open /\ ~ctl'.initialSync /\ ~ctl'.refreshing
          /\ ~ctl'.poll
      BY <3>1 DEF StartedCtl, Controller
    <3>3. Typed'
      BY <1>1, <2>2, <3>1, <3>2 DEF Typed
    <3> QED BY <2>2, <3>1, <3>2, <3>3 DEF SessionInv, OneRequest, FlagsAreTrue,
               ClosedIsQuiet, ClosedStaysClosed, RefreshStaysArmed
  <2>4. CASE ~disk.disconnected
    <3>1. jobs' = {first}
          /\ ctl' = [StartedCtl EXCEPT !.initialSync = TRUE, !.status = "opening"]
      BY <1>8, <2>4 DEF Restart
    <3>2. /\ ctl' \in Controller /\ ~ctl'.open /\ ctl'.initialSync /\ ~ctl'.refreshing
          /\ ~ctl'.poll
      BY <3>1 DEF StartedCtl, Controller
    <3> HIDE DEF first
    <3>3. Typed'
      BY <1>1, <2>1, <2>2, <3>1, <3>2 DEF Typed
    <3>4. Awaited({"connect", "create"})'
      BY <2>1, <3>1 DEF Awaited
    <3> QED BY <2>1, <2>2, <2>4, <3>1, <3>2, <3>3, <3>4 DEF SessionInv, OneRequest,
               FlagsAreTrue, ClosedIsQuiet, ClosedStaysClosed, RefreshStaysArmed
  <2> QED BY <2>3, <2>4
<1> QED BY <1>2, <1>3, <1>4, <1>5, <1>6, <1>7, <1>8 DEF User

\* A step of the session, whoever takes it.
LEMMA SessionStepKeepsInv ==
  ASSUME SessionInv, Next
  PROVE  SessionInv'
<1>1. Typed /\ ctl \in Controller
  BY DEF SessionInv, Typed
<1>2. CASE User
  BY <1>2, UserKeepsInv
<1>3. CASE ShowSyncing
  <2>1. ctl' \in Controller /\ ctl'.open = ctl.open /\ ctl'.initialSync = ctl.initialSync
        /\ ctl'.refreshing = ctl.refreshing /\ ctl'.poll = ctl.poll
    BY <1>1, <1>3 DEF ShowSyncing, Controller
  <2>2. UNCHANGED <<connected, jobs, polling, creating, disk, core, flaky, requests>>
    BY <1>3 DEF ShowSyncing
  <2>3. Typed'
    BY <1>1, <2>1, <2>2 DEF Typed
  <2> QED BY <2>1, <2>2, <2>3 DEF SessionInv, OneRequest, FlagsAreTrue,
             ClosedIsQuiet, ClosedStaysClosed, RefreshStaysArmed, Awaited
<1>4. CASE Answer
  BY <1>4, ReplyKeepsInv DEF Answer
<1>5. CASE WalletCreated
  <2>1. creating' = FALSE /\ UNCHANGED <<flaky, requests>>
    BY <1>5 DEF WalletCreated
  <2>2. CASE UNCHANGED <<ctl, connected, jobs, polling, disk, core>>
    BY <2>1, <2>2 DEF SessionInv, Typed, OneRequest, FlagsAreTrue, ClosedIsQuiet,
          ClosedStaysClosed, RefreshStaysArmed, Awaited
  <2>3. CASE /\ connected' = TRUE
             /\ disk' = [stored |-> TRUE, disconnected |-> FALSE]
             /\ core' = [core EXCEPT !.open = TRUE, !.wallet = @ + 1, !.accounts = 1,
                                     !.synced = 0]
    <3>1. /\ disk' \in [stored : BOOLEAN, disconnected : BOOLEAN] /\ ~disk'.disconnected
          /\ core' \in [open : BOOLEAN, wallet : Nat, accounts : Nat, height : Nat, synced : Nat]
      <4>1. core.wallet + 1 \in Nat
        BY <1>1 DEF Typed
      <4> QED BY <1>1, <2>3, <4>1 DEF Typed
    <3>2. CASE UNCHANGED <<ctl, jobs, polling>>
      <4>1. Typed'
        BY <1>1, <2>1, <2>3, <3>1, <3>2 DEF Typed
      <4> QED BY <3>1, <3>2, <4>1 DEF SessionInv, OneRequest, FlagsAreTrue, ClosedIsQuiet,
                 ClosedStaysClosed, RefreshStaysArmed, Awaited
    <3>3. CASE ctl' = NewSession(ctl) /\ StartJob("create", "height") /\ polling' = FALSE
      <4>1. ctl' \in Controller /\ ctl'.initialSync = TRUE /\ ctl'.refreshing = FALSE
            /\ ~ctl'.poll
        BY <1>1, <3>3 DEF NewSession, Controller
      <4> QED BY <1>1, <2>1, <2>3, <3>1, <3>3, <4>1, RequestKeepsInv DEF Typed
    <3> QED BY <1>5, <2>3, <3>2, <3>3 DEF WalletCreated
  <2> QED BY <1>5, <2>2, <2>3 DEF WalletCreated
<1>6. CASE PollSnapshot
  <2>1. ctl' \in Controller /\ ctl'.open = ctl.open /\ ctl'.initialSync = ctl.initialSync
        /\ ctl'.refreshing = ctl.refreshing /\ ~ctl'.poll
    BY <1>1, <1>6 DEF PollSnapshot, Controller
  <2>2. /\ polling' = (polling \/ (ctl.open /\ ~ctl.refreshing)) /\ ctl.poll
        /\ UNCHANGED <<connected, jobs, creating, disk, core, flaky, requests>>
    BY <1>6 DEF PollSnapshot
  <2>3. Typed'
    BY <1>1, <2>1, <2>2 DEF Typed
  <2>4. FlagsAreTrue'
    BY <2>1, <2>2 DEF SessionInv, FlagsAreTrue, Awaited
  <2>5. RefreshStaysArmed'
    BY <2>1, <2>2 DEF SessionInv, FlagsAreTrue, RefreshStaysArmed, Awaited
  <2> QED BY <2>1, <2>2, <2>3, <2>4, <2>5 DEF SessionInv, OneRequest, ClosedIsQuiet,
             ClosedStaysClosed
<1>7. CASE HeightPolled
  <2>1. polling /\ UNCHANGED <<connected, creating, disk, core, flaky, requests>>
    BY <1>7 DEF HeightPolled
  <2>2. CASE RefreshSnapshot(ctl)
    BY <1>1, <2>1, <2>2, RefreshKeepsInv DEF Typed
  <2>3. CASE ctl' = [ctl EXCEPT !.poll = TRUE] /\ polling' = FALSE /\ UNCHANGED jobs
    <3>1. ctl' \in Controller /\ ctl'.open = ctl.open /\ ctl'.initialSync = ctl.initialSync
          /\ ctl'.refreshing = ctl.refreshing /\ ctl'.poll
      BY <1>1, <2>3 DEF Controller
    <3>2. Typed'
      BY <1>1, <2>1, <2>3, <3>1 DEF Typed
    <3> QED BY <2>1, <2>3, <3>1, <3>2 DEF SessionInv, OneRequest, FlagsAreTrue, ClosedIsQuiet,
               ClosedStaysClosed, RefreshStaysArmed, Awaited
  <2> QED BY <1>7, <2>2, <2>3 DEF HeightPolled
<1>8. CASE NewBlock \/ OtherApplication \/ Steady
  <2>1. UNCHANGED <<session, disk, requests>> /\ flaky' \in BOOLEAN
    BY <1>1, <1>8 DEF NewBlock, OtherApplication, Steady, Typed
  <2>2. core' \in [open : BOOLEAN, wallet : Nat, accounts : Nat, height : Nat, synced : Nat]
    <3>1. core.height + 1 \in Nat /\ core.accounts + 1 \in Nat
      BY <1>1 DEF Typed
    <3> QED BY <1>1, <1>8, <3>1 DEF NewBlock, OtherApplication, Steady, Typed
  <2> QED BY <2>1, <2>2 DEF session, SessionInv, Typed, OneRequest, FlagsAreTrue,
             ClosedIsQuiet, ClosedStaysClosed, RefreshStaysArmed, Awaited
<1> QED BY <1>2, <1>3, <1>4, <1>5, <1>6, <1>7, <1>8 DEF Next

---------------------------------------------------------------------------
(* The application                                                         *)

LEMMA InitHasInv == Init => SessionInv
<1> SUFFICES ASSUME Init PROVE SessionInv
  OBVIOUS
<1> DEFINE first == Job("connect", "capability")
<1>1. first \in Chain /\ first.wanted /\ first.live /\ first.kind = "connect"
      /\ first.stage # "save" /\ first.wanted = first.live
  BY DEF Job, Chain
<1>2. jobs = {first}
  BY DEF Init
<1>3. /\ ctl \in Controller
      /\ ~ctl.open /\ ctl.initialSync /\ ~ctl.refreshing /\ ~ctl.poll
  BY DEF Init, StartedCtl, Controller
<1>4. /\ disk \in [stored : BOOLEAN, disconnected : BOOLEAN] /\ ~disk.disconnected
      /\ core \in [open : BOOLEAN, wallet : Nat, accounts : Nat, height : Nat, synced : Nat]
      /\ connected = FALSE /\ polling = FALSE /\ creating = FALSE /\ flaky = TRUE
      /\ requests \in Nat
  <2>1. disk \in [stored : BOOLEAN, disconnected : {FALSE}]
        /\ core \in [open : {FALSE, disk.stored}, wallet : {0}, accounts : {1}, height : {1},
                     synced : {0}]
    BY DEF Init
  <2>2. disk.stored \in BOOLEAN /\ disk.disconnected = FALSE
    BY <2>1
  <2>3. disk \in [stored : BOOLEAN, disconnected : BOOLEAN]
    BY <2>1
  <2>4. core.open \in BOOLEAN /\ core.wallet = 0 /\ core.accounts = 1 /\ core.height = 1
        /\ core.synced = 0
    BY <2>1, <2>2
  <2>5. core \in [open : BOOLEAN, wallet : Nat, accounts : Nat, height : Nat, synced : Nat]
    BY <2>1, <2>4
  <2> QED BY <2>2, <2>3, <2>5, WalletAssumption DEF Init
<1> HIDE DEF first
<1>5. Typed
  BY <1>1, <1>2, <1>3, <1>4 DEF Typed
<1>6. Awaited({"connect", "create"})
  BY <1>1, <1>2 DEF Awaited
<1> QED BY <1>1, <1>2, <1>3, <1>4, <1>5, <1>6 DEF SessionInv, OneRequest, FlagsAreTrue,
           ClosedIsQuiet, ClosedStaysClosed, RefreshStaysArmed

\* A step of the session, or none, keeps what holds of it.
LEMMA StepKeepsInv == SessionInv /\ [Next]_vars => SessionInv'
<1> SUFFICES ASSUME SessionInv, [Next]_vars PROVE SessionInv'
  OBVIOUS
<1>1. CASE Next
  BY <1>1, SessionStepKeepsInv
<1>2. CASE UNCHANGED vars
  BY <1>2 DEF vars, session, SessionInv, Typed, OneRequest, FlagsAreTrue, ClosedIsQuiet,
     ClosedStaysClosed, RefreshStaysArmed, Awaited
<1> QED BY <1>1, <1>2

\* What the session's invariants need to be inductive: the two generation counters move
\* together, one reply is wanted at a time, and the flags say which.
THEOREM SessionIsSound == Spec => []SessionInv
<1> QED BY InitHasInv, StepKeepsInv, PTL DEF Spec

\* A wallet that was disconnected or cancelled stays closed through every late reply,
\* timer and restart (disconnect, cancelSync, openOnStartup).
THEOREM ClosedForGood == Spec => []ClosedStaysClosed
<1>1. SessionInv => ClosedStaysClosed
  BY DEF SessionInv
<1> QED BY <1>1, SessionIsSound, PTL

\* An open wallet always has a timer armed or a reply under way that the controller
\* will accept (refreshSnapshot, pollSnapshot, createWallet).
THEOREM AlwaysRefreshing == Spec => []RefreshStaysArmed
<1>1. SessionInv => RefreshStaysArmed
  BY DEF SessionInv
<1> QED BY <1>1, SessionIsSound, PTL

---------------------------------------------------------------------------
(* The contract                                                            *)

\* Without a new revision the accounts stay and the wallet does not get ready.
Moves(c, d) ==
    d.sessionRevision = c.sessionRevision =>
        /\ d.identities = c.identities
        /\ d.open /\ ~d.initialSync => c.open /\ ~c.initialSync

LEMMA RefreshingMoves ==
  ASSUME NEW c \in Controller, RefreshSnapshot(c), Moves(ctl, c)
  PROVE  Moves(ctl, ctl')
<1> QED BY DEF RefreshSnapshot, Controller, Moves

LEMMA ClosingMoves ==
  ASSUME SessionInv, NEW c \in Controller, NEW status \in {"closed", "error"},
         Close(status, c), Moves(ctl, c), c.sessionRevision = ctl.sessionRevision
  PROVE  Moves(ctl, ctl')
<1>1. Bumped(c) \in Controller /\ Bumped(c).sessionRevision # c.sessionRevision
  BY RevisionMoves
<1>2. ctl'.sessionRevision = Bumped(c).sessionRevision
  BY <1>1 DEF Close, Closed, Controller
<1> QED BY <1>1, <1>2 DEF Moves

LEMMA SucceedingMoves ==
  ASSUME SessionInv, NEW j \in jobs, j.live, NEW found \in Snapshot, Succeed(j, found)
  PROVE  Moves(ctl, ctl')
<1>1. jobs' = jobs \ {j}
  BY DEF Succeed
<1>2. ctl \in Controller
  BY DEF SessionInv, Typed
<1> DEFINE c == [ctl EXCEPT !.open = TRUE,
                            !.refreshing = IF j.kind = "refresh" THEN FALSE ELSE @]
<1>3. /\ c \in Controller /\ c.open /\ c.identities = ctl.identities
      /\ c.sessionRevision = ctl.sessionRevision
  BY <1>2 DEF Controller
<1>4. ctl' = ApplySnapshot(c, found, j.kind # "refresh")
  BY <1>1, NothingElseIsWanted DEF Succeed
<1> HIDE DEF c
<1>5. ctl'.sessionRevision = c.sessionRevision =>
        j.kind = "refresh" /\ ctl'.identities = c.identities
  BY <1>3, <1>4, SnapshotApplies
<1>6. j.kind = "refresh" => ctl.open /\ ~ctl.initialSync
  BY <1>1, NothingElseIsWanted
<1> QED BY <1>3, <1>5, <1>6 DEF Moves

LEMMA FailingMoves ==
  ASSUME SessionInv, NEW j \in jobs, NEW missing \in BOOLEAN, Fail(j, missing)
  PROVE  Moves(ctl, ctl')
<1>1. ctl \in Controller
  BY DEF SessionInv, Typed
<1>2. CASE UNCHANGED ctl
  BY <1>2 DEF Moves
<1>3. CASE ctl' = Failed(ctl, j.kind, missing) /\ j.kind = "refresh"
  BY <1>1, <1>3 DEF Failed, Controller, Moves
<1>4. CASE ctl' = Failed(ctl, j.kind, missing) /\ j.kind # "refresh"
  BY <1>1, <1>4 DEF Failed, Controller, Moves
<1> QED BY <1>2, <1>3, <1>4 DEF Fail

LEMMA ReplyMoves ==
  ASSUME SessionInv, NEW j \in jobs, Reply(j)
  PROVE  Moves(ctl, ctl')
<1>1. CASE UNCHANGED ctl
  BY <1>1 DEF Moves
<1>2. CASE Fail(j, TRUE) \/ Fail(j, FALSE)
  BY <1>2, FailingMoves
<1>3. CASE SaveReply(j) /\ Succeed(j, j.found)
  <2>1. j.live /\ j.found \in Snapshot
    BY <1>3 DEF SaveReply, SessionInv, Typed
  <2> QED BY <1>3, <2>1, SucceedingMoves
<1>4. CASE Ignored(j)
  BY <1>1, <1>4 DEF Ignored
<1>5. CASE CapabilityReply(j)
  BY <1>1, <1>2, <1>5 DEF CapabilityReply, Wait
<1>6. CASE ProbeReply(j)
  BY <1>1, <1>2, <1>6 DEF ProbeReply, FinishOpen, Wait
<1>7. CASE OpenReply(j)
  BY <1>1, <1>2, <1>7 DEF OpenReply, FinishOpen, Wait
<1>8. CASE HeightReply(j)
  BY <1>1, <1>8 DEF HeightReply, Wait
<1>9. CASE SyncReply(j)
  BY <1>1, <1>2, <1>9 DEF SyncReply, Wait
<1>10. CASE ListReply(j)
  BY <1>1, <1>2, <1>10 DEF ListReply, Wait
<1>11. CASE SaveReply(j)
  BY <1>2, <1>3, <1>11 DEF SaveReply
<1> QED BY <1>4, <1>5, <1>6, <1>7, <1>8, <1>9, <1>10, <1>11 DEF Reply

LEMMA UserMoves ==
  ASSUME SessionInv, User, ~Restart
  PROVE  Moves(ctl, ctl')
<1>1. Typed /\ ctl \in Controller
  BY DEF SessionInv, Typed
<1>2. CASE Open
  BY <1>1, <1>2 DEF Open, BeginOpen, session, Controller, Moves
<1>3. CASE CancelSync
  <2>1. Moves(ctl, ctl)
    BY DEF Moves
  <2> QED BY <1>1, <1>3, <2>1, ClosingMoves DEF CancelSync
<1>4. CASE Disconnect
  <2>1. /\ [ctl EXCEPT !.feePayer = NONE] \in Controller
        /\ Moves(ctl, [ctl EXCEPT !.feePayer = NONE])
        /\ [ctl EXCEPT !.feePayer = NONE].sessionRevision = ctl.sessionRevision
    BY <1>1 DEF Controller, Moves
  <2> QED BY <1>1, <1>4, <2>1, ClosingMoves DEF Disconnect
<1>5. CASE CreateWallet
  BY <1>5 DEF CreateWallet, Moves
<1>6. CASE Refresh
  <2> DEFINE c == [ctl EXCEPT !.status = IF @ = "error" THEN "syncing" ELSE @]
  <2>1. c \in Controller /\ Moves(ctl, c)
    BY <1>1 DEF Controller, Moves
  <2>2. RefreshSnapshot(c)
    BY <1>6 DEF Refresh
  <2> QED BY <2>1, <2>2, RefreshingMoves
<1>7. CASE CreateAccount
  <2> DEFINE found == [Found EXCEPT !.accounts = @ + 1, !.synced = core.height]
  <2>1. found \in Snapshot
    <3>1. core.wallet \in Nat /\ core.accounts + 1 \in Nat /\ core.height \in Nat
          /\ core.synced \in Nat
      BY <1>1 DEF Typed
    <3> QED BY <3>1 DEF Found, Snapshot
  <2>2. ctl.open /\ ~ctl.initialSync
        /\ (UNCHANGED ctl \/ ctl' = ApplySnapshot(ctl, found, FALSE))
    BY <1>7 DEF CreateAccount
  <2> HIDE DEF found
  <2>3. CASE ctl' = ApplySnapshot(ctl, found, FALSE)
    <3>1. ctl'.sessionRevision = ctl.sessionRevision => ctl'.identities = ctl.identities
      BY <1>1, <2>1, <2>3, SnapshotApplies
    <3> QED BY <2>2, <3>1 DEF Moves
  <2> QED BY <2>2, <2>3 DEF Moves
<1> QED BY <1>2, <1>3, <1>4, <1>5, <1>6, <1>7 DEF User

LEMMA NextMoves ==
  ASSUME SessionInv, Next, ~Restart
  PROVE  Moves(ctl, ctl')
<1>1. ctl \in Controller
  BY DEF SessionInv, Typed
<1>2. CASE User
  BY <1>2, UserMoves
<1>3. CASE ShowSyncing \/ PollSnapshot
  BY <1>1, <1>3 DEF ShowSyncing, PollSnapshot, Controller, Moves
<1>4. CASE Answer
  BY <1>4, ReplyMoves DEF Answer
<1>5. CASE WalletCreated
  BY <1>1, <1>5 DEF WalletCreated, NewSession, Controller, Moves
<1>6. CASE HeightPolled
  <2>1. CASE RefreshSnapshot(ctl)
    BY <1>1, <2>1, RefreshingMoves DEF Moves
  <2>2. CASE ctl' = [ctl EXCEPT !.poll = TRUE]
    BY <1>1, <2>2 DEF Controller, Moves
  <2> QED BY <1>6, <2>1, <2>2 DEF HeightPolled
<1>7. CASE NewBlock \/ OtherApplication \/ Steady
  BY <1>7 DEF NewBlock, OtherApplication, Steady, session, Moves
<1> QED BY <1>2, <1>3, <1>4, <1>5, <1>6, <1>7 DEF Next

\* What the application sees of a controller.
Seen(c) ==
    [open |-> c.open, ready |-> c.open /\ ~c.initialSync, payer |-> c.feePayer # NONE,
     identities |-> c.identities, sequencer |-> NONE, sessionRevision |-> c.sessionRevision]

LEMMA SeenIsAWallet ==
  ASSUME NEW c \in Controller
  PROVE  Seen(c) \in Contract!Wallet
<1>1. /\ c.open \in BOOLEAN /\ (c.open /\ ~c.initialSync) \in BOOLEAN
      /\ (c.feePayer # NONE) \in BOOLEAN
      /\ c.identities \in [wallet : Nat, accounts : Nat] \cup {NONE}
      /\ c.sessionRevision \in {0, 1}
  BY DEF Controller
<1> QED BY <1>1 DEF Seen, Contract!Wallet

LEMMA StartedIsStarted ==
  ASSUME NEW c \in Controller, c.identities = NONE, c.feePayer = NONE, ~c.open,
         c.sessionRevision = 0
  PROVE  Contract!Started(Seen(c))
<1>1. /\ ~Seen(c).open /\ ~Seen(c).ready /\ ~Seen(c).payer /\ Seen(c).identities = NONE
      /\ Seen(c).sessionRevision = 0
  BY DEF Seen
<1> QED BY <1>1, SeenIsAWallet DEF Contract!Started

LEMMA StepKeepsContract ==
  ASSUME SessionInv, [Next]_vars
  PROVE  \/ Seen(ctl') = Seen(ctl)
         \/ Contract!Started(Seen(ctl'))
         \/ /\ Seen(ctl') \in Contract!Wallet
            /\ Seen(ctl').ready => Seen(ctl').open
            /\ Seen(ctl').sessionRevision = Seen(ctl).sessionRevision =>
                  /\ Seen(ctl').identities = Seen(ctl).identities
                  /\ Seen(ctl').ready => Seen(ctl).ready
<1>1. ctl' \in Controller
  BY StepKeepsInv DEF SessionInv, Typed
<1>2. CASE Restart
  <2>1. ctl' = StartedCtl \/ ctl' = [StartedCtl EXCEPT !.initialSync = TRUE,
                                                     !.status = "opening"]
    BY <1>2 DEF Restart
  <2>2. /\ ctl'.identities = NONE /\ ctl'.feePayer = NONE /\ ~ctl'.open
        /\ ctl'.sessionRevision = 0
    <3>1. CASE ctl' = StartedCtl
      BY <3>1 DEF StartedCtl
    <3>2. CASE ctl' = [StartedCtl EXCEPT !.initialSync = TRUE, !.status = "opening"]
      BY <3>2 DEF StartedCtl
    <3> QED BY <2>1, <3>1, <3>2
  <2> QED BY <1>1, <2>2, StartedIsStarted
<1>3. CASE Next /\ ~Restart
  <2>1. Moves(ctl, ctl')
    BY <1>3, NextMoves
  <2>2. Seen(ctl') \in Contract!Wallet
    BY <1>1, SeenIsAWallet
  <2>3. /\ Seen(ctl').ready => Seen(ctl').open
        /\ Seen(ctl').sessionRevision = Seen(ctl).sessionRevision =>
              Seen(ctl').identities = Seen(ctl).identities
                /\ (Seen(ctl').ready => Seen(ctl).ready)
    BY <2>1 DEF Moves, Seen
  <2> QED BY <2>2, <2>3
<1>4. CASE UNCHANGED vars
  BY <1>4 DEF vars, session
<1> QED BY <1>2, <1>3, <1>4

\* The session implements what the application builds on: its accounts change, and it gets
\* ready, only with a new revision (applySnapshot, cancelSync, disconnect).
THEOREM SessionHonoursItsContract == Spec => KeepsTheContract
<1>1. Init => Contract!Started(Seen(ctl))
  <2> SUFFICES ASSUME Init PROVE Contract!Started(Seen(ctl))
    OBVIOUS
  <2>1. ctl \in Controller /\ ctl.identities = NONE /\ ctl.feePayer = NONE /\ ~ctl.open
        /\ ctl.sessionRevision = 0
    BY InitHasInv DEF Init, StartedCtl, SessionInv, Typed
  <2> QED BY <2>1, StartedIsStarted
<1>2. SessionInv /\ [Next]_vars =>
        Contract!SessionMoves \/ Contract!Started(Seen(ctl)') \/ UNCHANGED Seen(ctl)
  <2> SUFFICES ASSUME SessionInv, [Next]_vars
               PROVE  \/ Contract!SessionMoves
                      \/ Contract!Started(Seen(ctl)')
                      \/ UNCHANGED Seen(ctl)
    OBVIOUS
  <2>1. Seen(ctl)' = Seen(ctl')
    BY DEF Seen
  <2> QED BY <2>1, StepKeepsContract DEF Contract!SessionMoves, Seen, CanSubmit
<1>3. SessionInv /\ [Next]_vars => [Contract!SessionNext]_(Seen(ctl))
  BY <1>2 DEF Contract!SessionNext, Seen, CanSubmit
<1> QED BY <1>1, <1>3, SessionIsSound, PTL
        DEF Spec, KeepsTheContract, Contract!SessionSpec, Seen, CanSubmit

---------------------------------------------------------------------------
(* The fence around swaps                                                  *)

Stamp(r) == r \in Nat /\ r <= revision

\* What was priced under the revision of now was priced in the context of now.
Fresh(r, priced) == priced # NIL /\ r = revision => Idle /\ priced = Context

Request(q) ==
    /\ q = [revision |-> q.revision, priced |-> q.priced]
    /\ Stamp(q.revision) /\ Fresh(q.revision, q.priced)

Confirmed(d) == Stamp(d.revision) /\ d.priced # NIL /\ Fresh(d.revision, d.priced)

\* The card is never ahead of the backend, and everything it holds is fresh or old.
FenceInv ==
    /\ revision \in Nat
    /\ Stamp(replica) /\ Fresh(replica, quote)
    /\ \A q \in asked : Request(q)
    /\ dialog # NIL => Confirmed(dialog)
    /\ \A c \in calls : Confirmed(c)

\* A new revision makes everything the card holds old.
LEMMA BumpKeepsFence ==
  ASSUME FenceInv, revision' = revision + 1, UNCHANGED card
  PROVE  FenceInv'
<1>1. revision' \in Nat /\ \A r : Stamp(r) => Stamp(r)' /\ r # revision'
  BY DEF FenceInv, Stamp
<1>2. \A r, priced : Stamp(r) => Fresh(r, priced)'
  BY <1>1 DEF Fresh
<1> QED BY <1>1, <1>2 DEF FenceInv, Request, Confirmed, card

\* Nothing gets stale while the context and the revision stay.
LEMMA SameContext ==
  ASSUME UNCHANGED <<revision, adopting>>, Context' = Context
  PROVE  \A r, priced : /\ Stamp(r)' <=> Stamp(r)
                        /\ Fresh(r, priced)' <=> Fresh(r, priced)
<1> QED BY DEF Stamp, Fresh, Idle

LEMMA SameContextKeepsFence ==
  ASSUME FenceInv, UNCHANGED <<revision, adopting, card>>, Context' = Context
  PROVE  FenceInv'
<1> QED BY SameContext DEF FenceInv, Request, Confirmed, card

\* While the module is being pointed elsewhere, nothing is fresh.
LEMMA AdoptingKeepsFence ==
  ASSUME FenceInv, ~Idle, UNCHANGED <<revision, card>>
  PROVE  FenceInv'
<1>1. \A r : Stamp(r) => Stamp(r)'
  BY DEF Stamp
<1>2. \A r, priced : Fresh(r, priced) => Fresh(r, priced)'
  BY DEF Fresh
<1> QED BY <1>1, <1>2 DEF FenceInv, Request, Confirmed, card

LEMMA BackendKeepsFence ==
  ASSUME FenceInv,
         SessionStep \/ RegistryChanged \/ SetAmmProgramId \/ SetConfigId \/ AnswerQuote
           \/ SubmitSwap \/ RefuseSwap
  PROVE  FenceInv'
<1>1. CASE SessionStep
  <2>1. CASE walletContextChanged(wallet, wallet')
    <3>1. revision' = revision + 1 /\ UNCHANGED card
      BY <1>1, <2>1 DEF SessionStep
    <3> QED BY <3>1, BumpKeepsFence
  <2>2. CASE ~walletContextChanged(wallet, wallet')
    <3>1. wallet'.sequencer = wallet.sequencer /\ wallet'.identities = wallet.identities
      BY <1>1, <2>2 DEF SessionStep, SessionMoves, walletContextChanged
    <3>2. UNCHANGED <<revision, adopting, card, module>>
      BY <1>1, <2>2 DEF SessionStep
    <3>3. Context' = Context
      BY <3>1, <3>2 DEF Context
    <3> QED BY <3>2, <3>3, SameContextKeepsFence
  <2> QED BY <2>1, <2>2
<1>2. CASE RegistryChanged
  BY <1>2, BumpKeepsFence DEF RegistryChanged
<1>3. CASE SetAmmProgramId \/ SetConfigId
  BY <1>3, AdoptingKeepsFence DEF SetAmmProgramId, SetConfigId
<1>4. CASE AnswerQuote
  <2>1. PICK q \in asked :
           Idle /\ asked' = (asked \ {q}) \cup {[q EXCEPT !.priced = Context]}
    BY <1>4 DEF AnswerQuote
  <2>2. UNCHANGED <<wallet, revision, module, adopting, replica, holdings, quote, dialog, calls>>
    BY <1>4 DEF AnswerQuote
  <2>3. Context' = Context
    BY <2>2 DEF Context
  <2> DEFINE answered == [revision |-> q.revision, priced |-> Context]
  <2>4. [q EXCEPT !.priced = Context] = answered
    <3>1. q = [revision |-> q.revision, priced |-> q.priced]
      BY DEF FenceInv, Request
    <3> QED BY <3>1
  <2>5. Request(answered)
    BY <2>1 DEF FenceInv, Request, Fresh
  <2> HIDE DEF answered
  <2>6. \A p \in asked' : Request(p)
    BY <2>1, <2>4, <2>5 DEF FenceInv
  <2> QED BY <2>2, <2>3, <2>6, SameContext DEF FenceInv, Request, Confirmed
<1>5. CASE SubmitSwap \/ RefuseSwap
  <2>1. PICK c \in calls : CallEnds(c)
    BY <1>5 DEF SubmitSwap, RefuseSwap
  <2>2. Context' = Context
    BY <2>1 DEF CallEnds, Context
  <2> QED BY <2>1, <2>2, SameContext DEF CallEnds, FenceInv, Request, Confirmed
<1> QED BY <1>1, <1>2, <1>3, <1>4, <1>5

LEMMA CardKeepsFence ==
  ASSUME FenceInv,
         SeeRevision \/ EditAmount \/ AskQuote \/ QuoteArrives \/ QuoteFails \/ HoldingsListed
           \/ ShowConfirmation \/ CancelConfirmation \/ executeSwap
  PROVE  FenceInv'
<1>1. UNCHANGED <<wallet, revision, module, adopting>>
  BY DEF SeeRevision, EditAmount, AskQuote, QuoteArrives, QuoteFails, HoldingsListed,
         ShowConfirmation, CancelConfirmation, executeSwap
<1>2. /\ UNCHANGED <<revision, adopting>> /\ Context' = Context
      /\ \A r : Fresh(r, NIL)
  BY <1>1 DEF Context, Fresh
<1>3. CASE SeeRevision
  <2>1. Stamp(replica')
    BY <1>3 DEF SeeRevision, FenceInv, Stamp
  <2> QED BY <1>2, <1>3, <2>1, SameContext DEF SeeRevision, FenceInv, Request, Confirmed
<1>4. CASE EditAmount
  BY <1>2, <1>4, SameContext DEF EditAmount, FenceInv, Request, Confirmed
<1>5. CASE AskQuote
  <2>1. Request([revision |-> replica, priced |-> NIL])
    BY <1>2 DEF FenceInv, Request
  <2>2. \A q \in asked' : Request(q)
    BY <1>5, <2>1 DEF AskQuote, FenceInv
  <2> QED BY <1>2, <1>5, <2>2, SameContext DEF AskQuote, FenceInv, Request, Confirmed
<1>6. CASE QuoteArrives
  <2>1. PICK q \in asked : /\ asked' = asked \ {q}
                           /\ quote' = IF isStale(q) THEN quote ELSE q.priced
    BY <1>6 DEF QuoteArrives
  <2>2. Fresh(replica, quote')
    BY <2>1 DEF isStale, FenceInv, Request
  <2> QED BY <1>2, <1>6, <2>1, <2>2, SameContext DEF QuoteArrives, FenceInv, Request, Confirmed
<1>7. CASE QuoteFails
  BY <1>2, <1>7, SameContext DEF QuoteFails, FenceInv, Request, Confirmed
<1>8. CASE HoldingsListed
  BY <1>2, <1>8, SameContext DEF HoldingsListed, FenceInv, Request, Confirmed
<1>9. CASE ShowConfirmation
  <2>1. Confirmed(dialog')
    BY <1>9 DEF ShowConfirmation, buildSnapshot, canSubmit, FenceInv, Confirmed
  <2> QED BY <1>2, <1>9, <2>1, SameContext DEF ShowConfirmation, FenceInv, Request, Confirmed
<1>10. CASE CancelConfirmation
  BY <1>2, <1>10, SameContext DEF CancelConfirmation, FenceInv, Request, Confirmed
<1>11. CASE executeSwap
  BY <1>2, <1>11, SameContext DEF executeSwap, FenceInv, Request, Confirmed
<1> QED BY <1>3, <1>4, <1>5, <1>6, <1>7, <1>8, <1>9, <1>10, <1>11

\* What makes the fence inductive: the card's stamp is never ahead of the backend's
\* revision, and what carries the revision of now was priced in the context of now.
THEOREM FenceHolds == AppSpec => []FenceInv
<1>1. AppInit => FenceInv
  BY DEF AppInit, FenceInv, Stamp, Fresh
<1>2. FenceInv /\ [AppNext]_appVars => FenceInv'
  <2> SUFFICES ASSUME FenceInv, [AppNext]_appVars PROVE FenceInv'
    OBVIOUS
  <2>1. CASE RestartApp
    BY <2>1 DEF RestartApp, NewCard, FenceInv, Stamp, Fresh
  <2>2. CASE UNCHANGED appVars
    <3>1. Context' = Context /\ UNCHANGED <<revision, adopting, card>>
      BY <2>2 DEF appVars, Context
    <3> QED BY <3>1, SameContextKeepsFence
  <2> QED BY <2>1, <2>2, BackendKeepsFence, CardKeepsFence DEF AppNext
<1> QED BY <1>1, <1>2, PTL DEF AppSpec

\* A swap is submitted from the accounts, through the sequencer and to the deployment it
\* was priced for, however late the card, the answers and the registry's calls are
\* (SwapConfirmation::submit, syncWalletState, isStale, executeSwap).
THEOREM SwapsGoWhereQuoted == AppSpec => []SwapGoesWhereQuoted
<1>1. FenceInv => SwapGoesWhereQuoted
  BY DEF FenceInv, Confirmed, Fresh, SwapGoesWhereQuoted, Accepts
<1> QED BY <1>1, FenceHolds, PTL
=============================================================================
