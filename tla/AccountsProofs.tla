--------------------------- MODULE AccountsProofs ---------------------------
(***************************************************************************)
(* Proofs about Accounts, GuestTrials and Notifications together, and      *)
(* about Budgets, for any number of addresses, requests, sessions, tokens, *)
(* guests, codes, senders and callers.                                     *)
(***************************************************************************)
EXTENDS GuestTrials, Budgets, FiniteSetTheorems, WellFoundedInduction, TLAPS

-----------------------------------------------------------------------------
(* Budgets. *)

\* Callers in flight, and the limits with what they may still add.
BudgetsInv ==
    /\ bucket \in [Kinds -> Nat] /\ rows \in Nat /\ slot \in 0..WindowLimit /\ taken = slot
    /\ caller \in [Callers -> Kinds \cup {"idle", "counted"}]
    /\ OvershootBounded

LEMMA DoingFinite == \A act : IsFiniteSet(Doing(act)) /\ Cardinality(Doing(act)) \in Nat
                              /\ Cardinality(Callers) \in Nat \ {0}
                              /\ Cardinality(Doing(act)) <= Cardinality(Callers)
BY BudgetsAssumption, FS_Subset, FS_CardinalityType, FS_EmptySet DEF Doing

\* A caller that begins or ends is counted, or counted no more.
LEMMA Begins ==
    ASSUME NEW q \in Callers, caller \in [Callers -> Kinds \cup {"idle", "counted"}],
           NEW from, NEW to \in Kinds \cup {"idle", "counted"}, from # to, Step(q, from, to)
    PROVE  /\ caller' \in [Callers -> Kinds \cup {"idle", "counted"}]
           /\ Cardinality(Doing(to)') = Cardinality(Doing(to)) + 1
           /\ Cardinality(Doing(from)') = Cardinality(Doing(from)) - 1
           /\ Cardinality(Doing(from)) \in Nat \ {0}
           /\ \A act : act # from /\ act # to => Doing(act)' = Doing(act)
<1>1. Doing(to)' = Doing(to) \cup {q} /\ q \notin Doing(to)
  BY DEF Doing, Step
<1>2. Doing(from)' = Doing(from) \ {q} /\ q \in Doing(from)
  BY DEF Doing, Step
<1>3. \A act : act # from /\ act # to => Doing(act)' = Doing(act)
  BY DEF Doing, Step
<1>4. caller' \in [Callers -> Kinds \cup {"idle", "counted"}]
  BY DEF Step
<1>5. Cardinality(Doing(to)') = Cardinality(Doing(to)) + 1
  BY <1>1, DoingFinite, FS_AddElement
<1>6. Cardinality(Doing(from)') = Cardinality(Doing(from)) - 1 /\ Cardinality(Doing(from)) # 0
  BY <1>2, DoingFinite, FS_RemoveElement, FS_EmptySet
<1> QED  BY <1>3, <1>4, <1>5, <1>6, DoingFinite

\* The caller that is about to begin is not among those that have begun.
LEMMA RoomForOne ==
    ASSUME NEW q \in Callers, caller[q] = "idle", NEW act, act # "idle"
    PROVE  Cardinality(Doing(act)) < Cardinality(Callers)
<1>1. Doing(act) \subseteq Callers \ {q}
  BY DEF Doing
<1>2. IsFiniteSet(Callers \ {q}) /\ Cardinality(Callers \ {q}) = Cardinality(Callers) - 1
  BY BudgetsAssumption, FS_RemoveElement
<1>3. Cardinality(Doing(act)) <= Cardinality(Callers \ {q})
  BY <1>1, <1>2, FS_Subset
<1> QED  BY <1>2, <1>3, DoingFinite

LEMMA BudgetsStep == BudgetsInv /\ [BudgetsNext]_bvars => BudgetsInv'
<1> SUFFICES ASSUME BudgetsInv, [BudgetsNext]_bvars PROVE BudgetsInv'
  OBVIOUS
<1> USE BudgetsAssumption
<1>0. /\ Cardinality(Callers) \in Nat \ {0}
      /\ \A act : Cardinality(Doing(act)) \in Nat /\ Cardinality(Doing(act)') \in Nat
  <2>1. \A act : Cardinality(Doing(act)') \in Nat
    BY BudgetsAssumption, FS_Subset, FS_CardinalityType DEF Doing
  <2> QED  BY <2>1, DoingFinite
<1>1. ASSUME NEW q \in Callers, NEW k \in Kinds, AssertAllowed(q, k) PROVE BudgetsInv'
  <2>1. Step(q, "idle", k) /\ "idle" # k /\ UNCHANGED <<bucket, slot, taken, rows>>
    BY <1>1 DEF AssertAllowed, Kinds
  <2>2. Cardinality(Doing(k)) < Cardinality(Callers) /\ bucket[k] < MaxAttempts
    BY <1>1, <2>1, RoomForOne DEF AssertAllowed, Step
  <2>3. /\ caller' \in [Callers -> Kinds \cup {"idle", "counted"}]
        /\ Cardinality(Doing(k)') = Cardinality(Doing(k)) + 1
        /\ \A act : act # "idle" /\ act # k => Doing(act)' = Doing(act)
    BY <2>1, Begins DEF BudgetsInv
  <2>4. \A j \in Kinds : bucket'[j] + Cardinality(Doing(j)') < MaxAttempts + Cardinality(Callers)
    BY <1>0, <2>1, <2>2, <2>3 DEF BudgetsInv, OvershootBounded, Kinds
  <2>5. rows' + Cardinality(Doing("counted")') < RowLimit + Cardinality(Callers)
    BY <2>1, <2>3 DEF BudgetsInv, OvershootBounded, Kinds
  <2> QED  BY <2>1, <2>3, <2>4, <2>5 DEF BudgetsInv, OvershootBounded
<1>2. ASSUME NEW q \in Callers, NEW k \in Kinds, RecordAttempt(q, k) PROVE BudgetsInv'
  <2>1. Step(q, k, "idle") /\ "idle" # k /\ UNCHANGED <<slot, taken, rows>>
        /\ bucket' = [bucket EXCEPT ![k] = @ + 1]
    BY <1>2 DEF RecordAttempt, Kinds
  <2>2. /\ caller' \in [Callers -> Kinds \cup {"idle", "counted"}]
        /\ Cardinality(Doing(k)') = Cardinality(Doing(k)) - 1
        /\ \A act : act # "idle" /\ act # k => Doing(act)' = Doing(act)
    BY <2>1, Begins DEF BudgetsInv
  <2>3. /\ bucket' \in [Kinds -> Nat]
        /\ \A j \in Kinds : bucket'[j] + Cardinality(Doing(j)') < MaxAttempts + Cardinality(Callers)
    BY <1>0, <2>1, <2>2 DEF BudgetsInv, OvershootBounded, Kinds
  <2>4. rows' + Cardinality(Doing("counted")') < RowLimit + Cardinality(Callers)
    BY <2>1, <2>2 DEF BudgetsInv, OvershootBounded, Kinds
  <2> QED  BY <2>1, <2>2, <2>3, <2>4 DEF BudgetsInv, OvershootBounded
<1>3. ASSUME NEW q \in Callers, ResetBucket(q) PROVE BudgetsInv'
  <2>1. Step(q, "lazy", "idle") /\ UNCHANGED <<slot, taken, rows>>
        /\ bucket' = [bucket EXCEPT !["lazy"] = 0]
    BY <1>3 DEF ResetBucket
  <2>2. /\ caller' \in [Callers -> Kinds \cup {"idle", "counted"}]
        /\ Cardinality(Doing("lazy")') = Cardinality(Doing("lazy")) - 1
        /\ \A act : act # "idle" /\ act # "lazy" => Doing(act)' = Doing(act)
    BY <2>1, Begins DEF BudgetsInv
  <2>3. /\ bucket' \in [Kinds -> Nat]
        /\ \A j \in Kinds : bucket'[j] + Cardinality(Doing(j)') < MaxAttempts + Cardinality(Callers)
    BY <1>0, <2>1, <2>2 DEF BudgetsInv, OvershootBounded, Kinds
  <2>4. rows' + Cardinality(Doing("counted")') < RowLimit + Cardinality(Callers)
    BY <2>1, <2>2 DEF BudgetsInv, OvershootBounded
  <2> QED  BY <2>1, <2>2, <2>3, <2>4 DEF BudgetsInv, OvershootBounded
<1>4. ASSUME NEW q \in Callers, AssertGuestCanCreate(q) PROVE BudgetsInv'
  <2>1. Step(q, "idle", "counted") /\ UNCHANGED <<bucket, slot, taken, rows>> /\ rows < RowLimit
    BY <1>4 DEF AssertGuestCanCreate
  <2>2. Cardinality(Doing("counted")) < Cardinality(Callers)
    BY <2>1, RoomForOne DEF Step
  <2>3. /\ caller' \in [Callers -> Kinds \cup {"idle", "counted"}]
        /\ Cardinality(Doing("counted")') = Cardinality(Doing("counted")) + 1
        /\ \A act : act # "idle" /\ act # "counted" => Doing(act)' = Doing(act)
    BY <2>1, Begins DEF BudgetsInv
  <2>4. rows' + Cardinality(Doing("counted")') < RowLimit + Cardinality(Callers)
    BY <1>0, <2>1, <2>2, <2>3 DEF BudgetsInv
  <2> QED  BY <2>1, <2>3, <2>4 DEF BudgetsInv, OvershootBounded, Kinds
<1>5. ASSUME NEW q \in Callers, GuestInserts(q) PROVE BudgetsInv'
  <2>1. Step(q, "counted", "idle") /\ UNCHANGED <<bucket, slot, taken>> /\ rows' = rows + 1
    BY <1>5 DEF GuestInserts
  <2>2. /\ caller' \in [Callers -> Kinds \cup {"idle", "counted"}]
        /\ Cardinality(Doing("counted")') = Cardinality(Doing("counted")) - 1
        /\ \A act : act # "idle" /\ act # "counted" => Doing(act)' = Doing(act)
    BY <2>1, Begins DEF BudgetsInv
  <2>3. rows' + Cardinality(Doing("counted")') < RowLimit + Cardinality(Callers)
    BY <1>0, <2>1, <2>2 DEF BudgetsInv, OvershootBounded
  <2> QED  BY <2>1, <2>2, <2>3 DEF BudgetsInv, OvershootBounded, Kinds
<1>6. ASSUME NEW k \in Kinds, BucketWindowEnds(k) PROVE BudgetsInv'
  <2>1. bucket' = [bucket EXCEPT ![k] = 0] /\ UNCHANGED <<slot, taken, rows, caller>>
    BY <1>6 DEF BucketWindowEnds
  <2>2. \A act : Doing(act)' = Doing(act)
    BY <2>1 DEF Doing
  <2>3. \A j \in Kinds : bucket'[j] + Cardinality(Doing(j)') < MaxAttempts + Cardinality(Callers)
    BY <1>0, <2>1, <2>2 DEF BudgetsInv, OvershootBounded
  <2> QED  BY <2>1, <2>2, <2>3 DEF BudgetsInv, OvershootBounded
<1>7. CASE TakeBudget \/ SlotWindowEnds \/ UNCHANGED bvars
  <2>1. UNCHANGED <<bucket, rows, caller>> /\ slot' \in 0..WindowLimit /\ taken' = slot'
    BY <1>7 DEF TakeBudget, SlotWindowEnds, bvars, NextCount, BudgetsInv
  <2>2. \A act : Doing(act)' = Doing(act)
    BY <2>1 DEF Doing
  <2> QED  BY <2>1, <2>2 DEF BudgetsInv, OvershootBounded
<1> QED  BY <1>1, <1>2, <1>3, <1>4, <1>5, <1>6, <1>7 DEF BudgetsNext

\* The limits of abuse.py, guest_policy.py and guest_limits.py: exact where the check and
\* the count are one statement, and otherwise passed by no more than the requests in
\* flight beside the first.
THEOREM LimitsAlwaysHold == BudgetsSpec => []LimitsHold
<1>1. BudgetsInit => BudgetsInv
  <2> SUFFICES ASSUME BudgetsInit PROVE BudgetsInv
    OBVIOUS
  <2>1. \A act : act # "idle" => Doing(act) = {}
    BY DEF BudgetsInit, Doing
  <2>2. \A act : act # "idle" => Cardinality(Doing(act)) = 0
    BY <2>1, FS_EmptySet
  <2> QED  BY <2>2, DoingFinite, BudgetsAssumption DEF BudgetsInit, BudgetsInv, OvershootBounded, Kinds
<1>2. BudgetsInv => LimitsHold
  BY BudgetsAssumption DEF BudgetsInv, LimitsHold, WindowExact
<1> QED  BY <1>1, <1>2, BudgetsStep, PTL DEF BudgetsSpec

-----------------------------------------------------------------------------
(* Alerts. *)

NoticeRow == [state : {"none", "queued", "sent"}, due : BOOLEAN, lease : Nat, held : BOOLEAN,
              attempts : Nat]
SenderRow == [at : {"idle", "claimed", "mailed"}, user : Accounts \cup {None}, attempt : Nat]

NotifyRows ==
    /\ notice \in [Accounts -> NoticeRow] /\ sender \in [Senders -> SenderRow]
    /\ mails \in [Accounts -> Nat] /\ doubts \in [Accounts -> Nat] /\ faults \in 0..MaxFaults

\* The sweeps that may still mail u.
Takes(r, u) == r.at = "claimed" /\ r.user = u
Claiming(u) == {p \in Senders : Takes(sender[p], u)}

\* Each mail so far, and each that is about to be sent, is the first or has its doubt.
Allowed(n) == IF n.held \/ n.state = "sent" THEN 1 ELSE 0
MailsAccounted(u) == mails[u] + Cardinality(Claiming(u)) <= doubts[u] + Allowed(notice[u])

SoundNotice(u) ==
    /\ notice[u].state = "none" => notice[u] = NoNotice
    /\ notice[u].state = "sent" => mails[u] > 0 /\ notice[u].lease = 0 /\ ~notice[u].held
    /\ MailsAccounted(u)

\* A sweep at work holds a positive token, and so never that of a row that was sent.
SoundSender(p) ==
    \/ sender[p] = Resting
    \/ /\ sender[p].at # "idle" /\ sender[p].user \in Accounts /\ sender[p].attempt > 0
       /\ notice[sender[p].user].state # "none"
       /\ sender[p].at = "mailed" => mails[sender[p].user] > 0

NotifyInv ==
    /\ NotifyRows
    /\ \A u \in Accounts : SoundNotice(u)
    /\ \A p \in Senders : SoundSender(p)

LEMMA ClaimingCounts ==
    \A u : /\ IsFiniteSet(Claiming(u)) /\ Cardinality(Claiming(u)) \in Nat
           /\ IsFiniteSet(Claiming(u)') /\ Cardinality(Claiming(u)') \in Nat
BY NotifyAssumption, FS_Subset, FS_CardinalityType DEF Claiming

\* One sender moves: who may still mail u.
LEMMA ClaimingMoves ==
    ASSUME NEW p \in Senders, \A o \in Senders : o # p => sender'[o] = sender[o], NEW u
    PROVE  /\ ~Takes(sender[p], u) /\ Takes(sender[p], u)' =>
                Cardinality(Claiming(u)') = Cardinality(Claiming(u)) + 1
           /\ Takes(sender[p], u) /\ ~Takes(sender[p], u)' =>
                Cardinality(Claiming(u)') = Cardinality(Claiming(u)) - 1
           /\ (Takes(sender[p], u) <=> Takes(sender[p], u)') => Claiming(u)' = Claiming(u)
<1>2. \A o \in Senders : o \in Claiming(u)' <=> IF o = p THEN Takes(sender[p], u)' ELSE o \in Claiming(u)
  BY DEF Claiming, Takes
<1>3. p \in Claiming(u) <=> Takes(sender[p], u)
  BY DEF Claiming
<1>4. Claiming(u) \subseteq Senders /\ Claiming(u)' \subseteq Senders
  BY DEF Claiming
<1>5. CASE ~Takes(sender[p], u) /\ Takes(sender[p], u)'
  <2>1. Claiming(u)' = Claiming(u) \cup {p}
    BY <1>2, <1>3, <1>4, <1>5
  <2> QED  BY <1>3, <1>5, <2>1, ClaimingCounts, FS_AddElement
<1>6. CASE Takes(sender[p], u) /\ ~Takes(sender[p], u)'
  <2>1. Claiming(u)' = Claiming(u) \ {p}
    BY <1>2, <1>3, <1>4, <1>6
  <2> QED  BY <1>3, <1>6, <2>1, ClaimingCounts, FS_RemoveElement
<1>7. CASE Takes(sender[p], u) <=> Takes(sender[p], u)'
  BY <1>2, <1>3, <1>4, <1>7
<1> QED  BY <1>5, <1>6, <1>7

LEMMA RestingRow == Resting \in SenderRow /\ \A u : ~Takes(Resting, u)
BY DEF Resting, SenderRow, Takes

\* The row, the mails and the doubts of one user change.
LEMMA RowMoves ==
    ASSUME NotifyInv, NEW u \in Accounts,
           \A v \in Accounts : v # u => /\ notice'[v] = notice[v] /\ mails'[v] = mails[v]
                                        /\ doubts'[v] = doubts[v] /\ Claiming(v)' = Claiming(v),
           SoundNotice(u)'
    PROVE  \A v \in Accounts : SoundNotice(v)'
<1> SUFFICES ASSUME NEW v \in Accounts, v # u PROVE SoundNotice(v)'
  OBVIOUS
<1>1. /\ notice'[v] = notice[v] /\ mails'[v] = mails[v] /\ doubts'[v] = doubts[v]
      /\ Claiming(v)' = Claiming(v) /\ SoundNotice(v)
  BY DEF NotifyInv
<1> QED  BY <1>1 DEF SoundNotice, MailsAccounted

\* The sweeps other than p go on where they were.
LEMMA SendersKeep ==
    ASSUME NotifyInv, NEW p \in Senders,
           \A o \in Senders : o # p => sender'[o] = sender[o],
           \A v \in Accounts : notice[v].state # "none" => notice'[v].state # "none",
           \A v \in Accounts : mails[v] > 0 => mails'[v] > 0,
           SoundSender(p)'
    PROVE  \A o \in Senders : SoundSender(o)'
<1> SUFFICES ASSUME NEW o \in Senders, o # p PROVE SoundSender(o)'
  OBVIOUS
<1>1. sender'[o] = sender[o] /\ SoundSender(o)
  BY DEF NotifyInv
<1> QED  BY <1>1 DEF SoundSender

\* A row is queued for the first time.
LEMMA EnqueueKeeps ==
    ASSUME NotifyInv, NEW u \in Accounts, notice[u].state = "none", EnqueueRegistration(u),
           UNCHANGED <<sender, mails, doubts, faults>>
    PROVE  NotifyInv' /\ \A v \in Accounts : v # u => notice'[v] = notice[v]
<1> DEFINE n == [NoNotice EXCEPT !.state = "queued", !.due = TRUE]
<1>1. n \in NoticeRow /\ n.state = "queued" /\ n.held = FALSE
  BY DEF NoNotice, NoticeRow
<1>2. notice' = [notice EXCEPT ![u] = n]
  BY DEF EnqueueRegistration
<1> HIDE DEF n
<1>3. notice'[u] = n /\ \A v \in Accounts : v # u => notice'[v] = notice[v]
  BY <1>2 DEF NotifyInv, NotifyRows
<1>4. \A v : Claiming(v)' = Claiming(v)
  BY DEF Claiming
<1>5. NotifyRows'
  BY <1>1, <1>2 DEF NotifyInv, NotifyRows
<1>6. mails[u] + Cardinality(Claiming(u)) <= doubts[u] + 0
  <2>1. notice[u].state = "none" /\ ~notice[u].held /\ MailsAccounted(u)
    BY DEF NotifyInv, SoundNotice, NoNotice
  <2> QED  BY <2>1 DEF MailsAccounted, Allowed
<1>7. SoundNotice(u)'
  <2>1. MailsAccounted(u)'
    BY <1>1, <1>3, <1>4, <1>6 DEF MailsAccounted, Allowed
  <2> QED  BY <1>1, <1>3, <2>1 DEF SoundNotice
<1>8. \A v \in Accounts : SoundNotice(v)'
  BY <1>3, <1>4, <1>7, RowMoves
<1>9. ASSUME NEW p \in Senders PROVE SoundSender(p)'
  BY <1>1, <1>3 DEF NotifyInv, SoundSender
<1> QED  BY <1>3, <1>5, <1>8, <1>9 DEF NotifyInv

\* What is known of the row that a sweep works on.
LEMMA AtWork ==
    ASSUME NotifyInv, NEW p \in Senders, sender[p].at # "idle", NEW u, u = sender[p].user
    PROVE  /\ u \in Accounts /\ sender[p].attempt > 0 /\ notice[u].state # "none"
           /\ sender[p].at = "mailed" => mails[u] > 0
           /\ notice[u] \in NoticeRow /\ sender[p] \in SenderRow
           /\ mails[u] \in Nat /\ doubts[u] \in Nat
           /\ MailsAccounted(u)
           /\ Owned(p) => notice[u].state = "queued"
<1>1. sender[p] # Resting /\ SoundSender(p)
  BY DEF NotifyInv, Resting
<1>2. u \in Accounts /\ sender[p].attempt > 0
  BY <1>1 DEF SoundSender
<1>3. SoundNotice(u) /\ notice[u] \in NoticeRow /\ sender[p] \in SenderRow
  BY <1>2 DEF NotifyInv, NotifyRows
<1>4. notice[u].state \in {"none", "queued", "sent"}
  BY <1>3 DEF NoticeRow
<1>5. Owned(p) => notice[u].state # "sent"
  BY <1>2, <1>3 DEF SoundNotice, Owned
<1> QED  BY <1>1, <1>2, <1>3, <1>4, <1>5 DEF SoundSender, SoundNotice, NotifyInv, NotifyRows

\* A sweep lets go of its row: n is what it leaves there, x the mails of its call that raised.
LEMMA RestKeeps ==
    ASSUME NotifyInv, NEW p \in Senders, sender[p].at # "idle", NEW u, u = sender[p].user,
           sender' = [sender EXCEPT ![p] = Resting],
           NEW n \in NoticeRow, NEW x \in Nat,
           notice' = [notice EXCEPT ![u] = n],
           mails' = [mails EXCEPT ![u] = mails[u] + x],
           doubts' = [doubts EXCEPT ![u] = doubts[u] + x],
           faults' \in 0..MaxFaults,
           n.state # "none",
           n.state = "sent" => mails[u] > 0 /\ n.lease = 0 /\ ~n.held,
           n = notice[u] \/ n.state = "sent" \/ sender[p].at = "claimed"
    PROVE  NotifyInv'
<1>1. /\ u \in Accounts /\ notice[u].state # "none" /\ mails[u] \in Nat /\ doubts[u] \in Nat
      /\ MailsAccounted(u) /\ notice[u] \in NoticeRow /\ sender[p] \in SenderRow
  BY AtWork
<1>2. sender'[p] = Resting /\ \A o \in Senders : o # p => sender'[o] = sender[o]
  BY DEF NotifyInv, NotifyRows
<1>3. \A v : ~Takes(sender[p], v)'
  BY <1>2, RestingRow DEF Takes
<1>4. \A v : v # u => Claiming(v)' = Claiming(v)
  BY <1>2, <1>3, ClaimingMoves DEF Takes
<1>5. /\ sender[p].at = "claimed" => Cardinality(Claiming(u)') = Cardinality(Claiming(u)) - 1
      /\ sender[p].at # "claimed" => Claiming(u)' = Claiming(u)
  BY <1>2, <1>3, ClaimingMoves DEF Takes
<1>6. /\ notice'[u] = n /\ mails'[u] = mails[u] + x /\ doubts'[u] = doubts[u] + x
      /\ \A v \in Accounts : v # u => notice'[v] = notice[v] /\ mails'[v] = mails[v]
                                      /\ doubts'[v] = doubts[v]
  BY <1>1 DEF NotifyInv, NotifyRows
<1>7. NotifyRows'
  BY <1>1, RestingRow DEF NotifyInv, NotifyRows
<1>8. MailsAccounted(u)'
  <2>1. mails[u] + Cardinality(Claiming(u)) <= doubts[u] + Allowed(notice[u])
    BY <1>1 DEF MailsAccounted
  <2>2. Cardinality(Claiming(u)) \in Nat /\ Cardinality(Claiming(u)') \in Nat
    BY ClaimingCounts
  <2>3. Allowed(n) \in {0, 1} /\ Allowed(notice[u]) \in {0, 1} /\ (n.state = "sent" => Allowed(n) = 1)
    BY DEF Allowed
  <2>4. CASE n = notice[u]
    <3>1. Cardinality(Claiming(u)') <= Cardinality(Claiming(u))
      BY <1>5, <2>2
    <3> QED  BY <1>1, <1>6, <2>1, <2>2, <2>3, <2>4, <3>1 DEF MailsAccounted
  <2>5. CASE n.state = "sent"
    <3>1. Cardinality(Claiming(u)') <= Cardinality(Claiming(u))
      BY <1>5, <2>2
    <3> QED  BY <1>1, <1>6, <2>1, <2>2, <2>3, <2>5, <3>1 DEF MailsAccounted
  <2>6. CASE sender[p].at = "claimed"
    <3>1. Cardinality(Claiming(u)') = Cardinality(Claiming(u)) - 1
      BY <1>5, <2>6
    <3> QED  BY <1>1, <1>6, <2>1, <2>2, <2>3, <3>1 DEF MailsAccounted
  <2> QED  BY <2>4, <2>5, <2>6
<1>9. SoundNotice(u)'
  BY <1>1, <1>6, <1>8 DEF SoundNotice
<1>10. \A v \in Accounts : SoundNotice(v)'
  BY <1>1, <1>4, <1>6, <1>9, RowMoves
<1>11. SoundSender(p)'
  BY <1>2 DEF SoundSender, Resting
<1>12. /\ \A v \in Accounts : notice[v].state # "none" => notice'[v].state # "none"
       /\ \A v \in Accounts : mails[v] > 0 => mails'[v] > 0
  <2>1. \A v \in Accounts : v = u \/ (notice'[v] = notice[v] /\ mails'[v] = mails[v])
    BY <1>6
  <2>2. mails[u] > 0 => mails'[u] > 0
    BY <1>1, <1>6
  <2> QED  BY <1>6, <2>1, <2>2
<1>13. \A o \in Senders : SoundSender(o)'
  BY <1>2, <1>11, <1>12, SendersKeep
<1> QED  BY <1>7, <1>10, <1>13 DEF NotifyInv

LEMMA ReleaseKeeps ==
    ASSUME NotifyInv, NEW p \in Senders, ReleaseOnStop(p) \/ MailRefused(p) \/ MarkSent(p) \/ SenderDies(p)
    PROVE  NotifyInv' /\ \A v \in Accounts : notice[v].state = "none" => notice'[v] = notice[v]
<1> DEFINE u == sender[p].user
<1>1. sender[p].at # "idle" /\ sender' = [sender EXCEPT ![p] = Resting]
  BY DEF ReleaseOnStop, MailRefused, CallRaises, MarkSent, SenderDies
<1>2. /\ u \in Accounts /\ notice[u].state # "none" /\ mails[u] \in Nat /\ doubts[u] \in Nat
      /\ notice[u] \in NoticeRow /\ (Owned(p) => notice[u].state = "queued")
      /\ (sender[p].at = "mailed" => mails[u] > 0)
  BY <1>1, AtWork
<1>3. faults' \in 0..MaxFaults
  BY NotifyAssumption
     DEF ReleaseOnStop, MailRefused, CallRaises, MarkSent, SenderDies, Fault, NotifyInv, NotifyRows
<1>4. PICK x \in {0, 1} : /\ mails' = [mails EXCEPT ![u] = mails[u] + x]
                          /\ doubts' = [doubts EXCEPT ![u] = doubts[u] + x]
  <2>1. CASE UNCHANGED <<mails, doubts>>
    <3>1. mails' = [mails EXCEPT ![u] = mails[u] + 0] /\ doubts' = [doubts EXCEPT ![u] = doubts[u] + 0]
      BY <1>2, <2>1 DEF NotifyInv, NotifyRows
    <3> QED  BY <3>1
  <2>2. CASE ~UNCHANGED <<mails, doubts>>
    <3>1. mails' = [mails EXCEPT ![u] = mails[u] + 1] /\ doubts' = [doubts EXCEPT ![u] = doubts[u] + 1]
      BY <2>2 DEF ReleaseOnStop, MailRefused, CallRaises, MarkSent, SenderDies
    <3> QED  BY <3>1
  <2> QED  BY <2>1, <2>2
<1>5. notice = [notice EXCEPT ![u] = notice[u]]
  BY <1>2 DEF NotifyInv, NotifyRows
<1>6. PICK n \in NoticeRow :
         /\ notice' = [notice EXCEPT ![u] = n] /\ n.state # "none"
         /\ n.state = "sent" => mails[u] > 0 /\ n.lease = 0 /\ ~n.held
         /\ n = notice[u] \/ n.state = "sent" \/ sender[p].at = "claimed"
  <2>0. notice[u].state = "sent" => mails[u] > 0 /\ notice[u].lease = 0 /\ ~notice[u].held
    BY <1>2 DEF NotifyInv, SoundNotice
  <2>1. CASE UNCHANGED notice
    BY <1>2, <1>5, <2>0, <2>1
  <2>2. CASE ReleaseOnStop(p) /\ ~UNCHANGED notice
    <3>1. notice' = [notice EXCEPT ![u] = Unleased(notice[u])] /\ Owned(p) /\ sender[p].at = "claimed"
      BY <2>2 DEF ReleaseOnStop
    <3>2. Unleased(notice[u]) \in NoticeRow /\ Unleased(notice[u]).state = "queued"
      BY <1>2, <3>1 DEF Unleased, NoticeRow
    <3> QED  BY <3>1, <3>2
  <2>3. CASE MailRefused(p) /\ ~UNCHANGED notice
    <3> DEFINE n == [Unleased(notice[u]) EXCEPT !.due = FALSE]
    <3>1. notice' = [notice EXCEPT ![u] = n] /\ Owned(p) /\ sender[p].at = "claimed"
      BY <2>3 DEF MailRefused, CallRaises
    <3>2. n \in NoticeRow /\ n.state = "queued"
      BY <1>2, <3>1 DEF Unleased, NoticeRow
    <3> QED  BY <3>1, <3>2
  <2>4. CASE MarkSent(p) /\ ~UNCHANGED notice
    <3> DEFINE n == [Unleased(notice[u]) EXCEPT !.state = "sent"]
    <3>1. notice' = [notice EXCEPT ![u] = n] /\ sender[p].at = "mailed"
      BY <2>4 DEF MarkSent
    <3>2. n \in NoticeRow /\ n.state = "sent" /\ n.lease = 0 /\ n.held = FALSE
      BY <1>2 DEF Unleased, NoticeRow
    <3> QED  BY <1>2, <3>1, <3>2
  <2> QED  BY <2>1, <2>2, <2>3, <2>4 DEF SenderDies
<1>7. NotifyInv'
  <2>1. x \in Nat /\ u = sender[p].user
    OBVIOUS
  <2> HIDE DEF u
  <2> QED  BY <1>1, <1>3, <1>4, <1>6, <2>1, RestKeeps
<1>8. \A v \in Accounts : v # u => notice'[v] = notice[v]
  BY <1>2, <1>6 DEF NotifyInv, NotifyRows
<1> QED  BY <1>2, <1>7, <1>8

LEMMA ClaimKeeps ==
    ASSUME NotifyInv, NEW p \in Senders, NEW u \in Accounts, Claim(p, u)
    PROVE  NotifyInv' /\ \A v \in Accounts : notice[v].state = "none" => notice'[v] = notice[v]
<1> DEFINE k == notice[u].attempts + 1
           n == [notice[u] EXCEPT !.attempts = k, !.lease = k, !.held = TRUE]
           r == [at |-> "claimed", user |-> u, attempt |-> k]
<1>1. /\ notice[u] \in NoticeRow /\ notice[u].state = "queued" /\ ~notice[u].held
      /\ sender[p].at = "idle" /\ mails[u] \in Nat /\ doubts[u] \in Nat /\ MailsAccounted(u)
  BY DEF Claim, Eligible, NotifyInv, NotifyRows, SoundNotice
<1>2. k \in Nat /\ k > 0
  BY <1>1 DEF NoticeRow
<1>3. r \in SenderRow /\ r.at = "claimed" /\ r.user = u /\ r.attempt > 0
  BY <1>2 DEF SenderRow
<1>4. n \in NoticeRow /\ n.state = "queued" /\ n.held = TRUE
  BY <1>1, <1>2 DEF NoticeRow
<1>5. notice' = [notice EXCEPT ![u] = n]
  BY <1>1 DEF Claim, NotifyInv, NotifyRows, NoticeRow
<1>6. sender' = [sender EXCEPT ![p] = r] /\ UNCHANGED <<mails, doubts, faults>>
  BY DEF Claim
<1> HIDE DEF k, n, r
<1>7. /\ notice'[u] = n /\ \A v \in Accounts : v # u => notice'[v] = notice[v]
      /\ sender'[p] = r /\ \A o \in Senders : o # p => sender'[o] = sender[o]
  BY <1>5, <1>6 DEF NotifyInv, NotifyRows
<1>8. NotifyRows'
  BY <1>3, <1>4, <1>5, <1>6 DEF NotifyInv, NotifyRows
<1>9. /\ \A v : v # u => Claiming(v)' = Claiming(v)
      /\ Cardinality(Claiming(u)') = Cardinality(Claiming(u)) + 1
  BY <1>1, <1>3, <1>7, ClaimingMoves DEF Takes
<1>10. MailsAccounted(u)'
  BY <1>1, <1>4, <1>6, <1>7, <1>9, ClaimingCounts DEF MailsAccounted, Allowed
<1>11. SoundNotice(u)'
  BY <1>4, <1>7, <1>10 DEF SoundNotice
<1>12. \A v \in Accounts : SoundNotice(v)'
  BY <1>6, <1>7, <1>9, <1>11, RowMoves
<1>13. SoundSender(p)'
  BY <1>3, <1>4, <1>7 DEF SoundSender
<1>14. \A v \in Accounts : notice[v].state # "none" => notice'[v].state # "none"
  BY <1>4, <1>7
<1>15. \A o \in Senders : SoundSender(o)'
  BY <1>6, <1>7, <1>13, <1>14, SendersKeep
<1> QED  BY <1>1, <1>7, <1>8, <1>12, <1>15 DEF NotifyInv

LEMMA MailKeeps ==
    ASSUME NotifyInv, NEW p \in Senders, MailAccepted(p) PROVE NotifyInv'
<1> DEFINE r == [sender[p] EXCEPT !.at = "mailed"]
<1>0. PICK u : u = sender[p].user
  OBVIOUS
<1>1. /\ u \in Accounts /\ sender[p].attempt > 0 /\ notice[u].state # "none"
      /\ mails[u] \in Nat /\ doubts[u] \in Nat /\ MailsAccounted(u) /\ sender[p] \in SenderRow
      /\ sender[p].at = "claimed"
  BY <1>0, AtWork DEF MailAccepted
<1>2. r \in SenderRow /\ r.at = "mailed" /\ r.user = u /\ r.attempt > 0
  BY <1>0, <1>1 DEF SenderRow
<1>3. sender' = [sender EXCEPT ![p] = r] /\ mails' = [mails EXCEPT ![u] = mails[u] + 1]
      /\ UNCHANGED <<notice, doubts, faults>>
  BY <1>0 DEF MailAccepted
<1> HIDE DEF r
<1>4. /\ sender'[p] = r /\ \A o \in Senders : o # p => sender'[o] = sender[o]
      /\ mails'[u] = mails[u] + 1 /\ \A v \in Accounts : v # u => mails'[v] = mails[v]
  BY <1>1, <1>3 DEF NotifyInv, NotifyRows
<1>5. NotifyRows'
  BY <1>1, <1>2, <1>3 DEF NotifyInv, NotifyRows
<1>6. /\ \A v : v # u => Claiming(v)' = Claiming(v)
      /\ Cardinality(Claiming(u)') = Cardinality(Claiming(u)) - 1
  BY <1>0, <1>1, <1>2, <1>4, ClaimingMoves DEF Takes
<1>7. MailsAccounted(u)'
  <2>1. Allowed(notice[u]) \in {0, 1}
    BY DEF Allowed
  <2> QED  BY <1>1, <1>3, <1>4, <1>6, <2>1, ClaimingCounts DEF MailsAccounted
<1>8. SoundNotice(u)'
  BY <1>1, <1>3, <1>4, <1>7 DEF NotifyInv, SoundNotice
<1>9. \A v \in Accounts : SoundNotice(v)'
  BY <1>1, <1>3, <1>4, <1>6, <1>8, RowMoves
<1>10. SoundSender(p)'
  BY <1>1, <1>2, <1>3, <1>4 DEF SoundSender
<1>11. \A v \in Accounts : mails[v] > 0 => mails'[v] > 0
  BY <1>1, <1>4
<1>12. \A o \in Senders : SoundSender(o)'
  BY <1>3, <1>4, <1>10, <1>11, SendersKeep
<1> QED  BY <1>5, <1>9, <1>12 DEF NotifyInv

\* Time passes for one row.
LEMMA ElapseKeeps ==
    ASSUME NotifyInv, NEW u \in Accounts, LeaseElapses(u) \/ BackoffElapses(u)
    PROVE  NotifyInv' /\ \A v \in Accounts : notice[v].state = "none" => notice'[v] = notice[v]
<1>1. /\ notice[u] \in NoticeRow /\ SoundNotice(u) /\ mails[u] \in Nat /\ doubts[u] \in Nat
  BY DEF NotifyInv, NotifyRows
<1>2. notice[u].state # "none"
  BY <1>1 DEF LeaseElapses, BackoffElapses, SoundNotice, NoNotice
<1>3. faults' \in 0..MaxFaults
  BY NotifyAssumption DEF LeaseElapses, BackoffElapses, Fault, NotifyInv, NotifyRows
<1>4. PICK n \in NoticeRow, d \in Nat :
        /\ notice' = [notice EXCEPT ![u] = n] /\ doubts' = [doubts EXCEPT ![u] = d]
        /\ n.state = notice[u].state /\ n.lease = notice[u].lease
        /\ \/ n.held = FALSE /\ d = doubts[u] + 1 /\ notice[u].held
           \/ n.held = notice[u].held /\ d = doubts[u]
  <2>1. CASE LeaseElapses(u)
    <3> DEFINE n == [notice[u] EXCEPT !.held = FALSE]
    <3>1. n \in NoticeRow /\ n.held = FALSE /\ n.state = notice[u].state /\ n.lease = notice[u].lease
      BY <1>1 DEF NoticeRow
    <3>2. notice' = [notice EXCEPT ![u] = n] /\ doubts' = [doubts EXCEPT ![u] = doubts[u] + 1]
          /\ notice[u].held
      BY <2>1 DEF LeaseElapses
    <3>3. doubts[u] + 1 \in Nat
      BY <1>1
    <3> HIDE DEF n
    <3> QED  BY <3>1, <3>2, <3>3, Zenon
  <2>2. CASE BackoffElapses(u)
    <3> DEFINE n == [notice[u] EXCEPT !.due = TRUE]
    <3>1. n \in NoticeRow /\ n.held = notice[u].held /\ n.state = notice[u].state /\ n.lease = notice[u].lease
      BY <1>1 DEF NoticeRow
    <3>2. notice' = [notice EXCEPT ![u] = n] /\ doubts' = [doubts EXCEPT ![u] = doubts[u]]
      BY <2>2 DEF BackoffElapses, NotifyInv, NotifyRows
    <3> QED  BY <1>1, <3>1, <3>2
  <2> QED  BY <2>1, <2>2
<1>5. UNCHANGED <<sender, mails>>
  BY DEF LeaseElapses, BackoffElapses
<1>6. \A v : Claiming(v)' = Claiming(v)
  BY <1>5 DEF Claiming
<1>7. /\ notice'[u] = n /\ doubts'[u] = d
      /\ \A v \in Accounts : v # u => notice'[v] = notice[v] /\ doubts'[v] = doubts[v]
  BY <1>4 DEF NotifyInv, NotifyRows
<1>8. NotifyRows'
  BY <1>3, <1>4, <1>5 DEF NotifyInv, NotifyRows
<1>9. MailsAccounted(u)'
  <2>1. mails[u] + Cardinality(Claiming(u)) <= doubts[u] + Allowed(notice[u])
    BY <1>1 DEF SoundNotice, MailsAccounted
  <2>2. CASE n.held = FALSE /\ d = doubts[u] + 1 /\ notice[u].held
    <3>1. Allowed(notice[u]) = 1 /\ Allowed(n) \in {0, 1}
      BY <2>2 DEF Allowed
    <3> QED  BY <1>1, <1>5, <1>6, <1>7, <2>1, <2>2, <3>1, ClaimingCounts DEF MailsAccounted
  <2>3. CASE n.held = notice[u].held /\ d = doubts[u]
    <3>1. Allowed(n) = Allowed(notice[u])
      BY <1>4, <2>3 DEF Allowed
    <3> QED  BY <1>5, <1>6, <1>7, <2>1, <2>3, <3>1 DEF MailsAccounted
  <2> QED  BY <1>4, <2>2, <2>3
<1>10. SoundNotice(u)'
  BY <1>1, <1>2, <1>4, <1>5, <1>7, <1>9 DEF SoundNotice
<1>11. \A v \in Accounts : SoundNotice(v)'
  BY <1>5, <1>6, <1>7, <1>10, RowMoves
<1>12. ASSUME NEW p \in Senders PROVE SoundSender(p)'
  BY <1>2, <1>4, <1>5, <1>7 DEF NotifyInv, SoundSender
<1> QED  BY <1>2, <1>7, <1>8, <1>11, <1>12 DEF NotifyInv

LEMMA DeliverKeeps ==
    ASSUME NotifyInv, Deliver
    PROVE  NotifyInv' /\ \A v \in Accounts : notice[v].state = "none" => notice'[v] = notice[v]
<1>1. ASSUME NEW p \in Senders, NEW u \in Accounts, Claim(p, u)
      PROVE  NotifyInv' /\ \A v \in Accounts : notice[v].state = "none" => notice'[v] = notice[v]
  BY <1>1, ClaimKeeps
<1>2. ASSUME NEW p \in Senders, MailAccepted(p)
      PROVE  NotifyInv' /\ \A v \in Accounts : notice[v].state = "none" => notice'[v] = notice[v]
  BY <1>2, MailKeeps DEF MailAccepted
<1>3. ASSUME NEW p \in Senders, ReleaseOnStop(p) \/ MailRefused(p) \/ MarkSent(p) \/ SenderDies(p)
      PROVE  NotifyInv' /\ \A v \in Accounts : notice[v].state = "none" => notice'[v] = notice[v]
  BY <1>3, ReleaseKeeps
<1>4. ASSUME NEW u \in Accounts, LeaseElapses(u) \/ BackoffElapses(u)
      PROVE  NotifyInv' /\ \A v \in Accounts : notice[v].state = "none" => notice'[v] = notice[v]
  BY <1>4, ElapseKeeps
<1> QED  BY <1>1, <1>2, <1>3, <1>4 DEF Deliver

-----------------------------------------------------------------------------
(* The rows of accounts, requests and guests. *)

AccountRow == [status : {"none", "pending", "approved", "rejected"}, verified : BOOLEAN,
               password : Nat]
TokenRow == [purpose : {"none", "verify", "reset"}, email : Emails \cup {None},
             state : {"none", "open", "used", "expired"}]
SessionRow == [email : Emails \cup {None}, state : {"none", "live", "revoked"}, password : Nat,
               crossed : BOOLEAN]
RequestRow == [op : {"idle", "signup", "login", "verify", "reset", "change", "redeem", "guest"},
               at : {"idle", "hashing", "verified", "loaded", "revoking", "locked"},
               email : Emails \cup {None}, key : Tokens \cup Codes \cup Guests \cup {None},
               password : Nat, seen : SUBSET Sessions, crossed : BOOLEAN]
TrialRow == [user : Guests \cup {None}, redeemed : BOOLEAN, generation : Nat, cooling : BOOLEAN,
             sent : Nat]
CodeRow == [state : {"none", "open", "consumed", "expired", "deleted"}, email : Emails \cup {None},
            generation : Nat, user : Guests \cup {None}]
GuestRow == [state : {"none", "active", "expired", "erased"}, email : Emails \cup {None},
             generation : Int, signedIn : BOOLEAN, content : Nat, hold : {"none", "work", "shared"}]

AccountRows ==
    /\ account \in [Emails -> AccountRow]
    /\ token \in [Tokens -> TokenRow]
    /\ session \in [Sessions -> SessionRow]
    /\ request \in [Requests -> RequestRow]
    /\ holder \in [Emails -> Requests \cup {None}]

GuestRows ==
    /\ trial \in [Emails -> TrialRow] /\ code \in [Codes -> CodeRow] /\ guest \in [Guests -> GuestRow]

\* Rows in use name an address.
WithEmail == {"signup", "login", "verify", "reset", "change", "redeem"}
Addressed ==
    /\ \A t \in Tokens : token[t].state = "open" => token[t].purpose # "none" /\ token[t].email \in Emails
    /\ \A s \in Sessions : session[s].state = "live" => session[s].email \in Emails
    /\ \A c \in Codes : code[c].state \notin {"none", "deleted"} => code[c].email \in Emails
    /\ \A q \in Requests : request[q].op \in WithEmail => request[q].email \in Emails
    /\ \A q \in Requests : request[q].at = "revoking" => request[q].op \in {"change", "reset"}

RowsInv == AccountRows /\ GuestRows /\ Addressed

\* One request row changes, to r.
LEMMA RequestMoves ==
    ASSUME RowsInv, NEW q \in Requests, NEW r \in RequestRow,
           request' = [request EXCEPT ![q] = r],
           r.op \in WithEmail => r.email \in Emails,
           r.at = "revoking" => r.op \in {"change", "reset"}
    PROVE  /\ request' \in [Requests -> RequestRow]
           /\ request'[q] = r /\ \A o \in Requests : o # q => request'[o] = request[o]
           /\ \A o \in Requests : request'[o].op \in WithEmail => request'[o].email \in Emails
           /\ \A o \in Requests : request'[o].at = "revoking" => request'[o].op \in {"change", "reset"}
<1>1. request' \in [Requests -> RequestRow] /\ request'[q] = r
      /\ \A o \in Requests : o # q => request'[o] = request[o]
  BY DEF RowsInv, AccountRows
<1>2. \A o \in Requests : /\ request[o].op \in WithEmail => request[o].email \in Emails
                          /\ request[o].at = "revoking" => request[o].op \in {"change", "reset"}
  BY DEF RowsInv, Addressed
<1> QED  BY <1>1, <1>2

LEMMA VacantRow ==
    Vacant \in RequestRow /\ Vacant.op = "idle" /\ Vacant.at = "idle" /\ Vacant.op \notin WithEmail
BY DEF Vacant, RequestRow, WithEmail

LEMMA FinishMoves ==
    ASSUME RowsInv, NEW q \in Requests, Finish(q)
    PROVE  /\ request' \in [Requests -> RequestRow]
           /\ request'[q] = Vacant /\ \A o \in Requests : o # q => request'[o] = request[o]
           /\ \A o \in Requests : request'[o].op \in WithEmail => request'[o].email \in Emails
           /\ \A o \in Requests : request'[o].at = "revoking" => request'[o].op \in {"change", "reset"}
BY RequestMoves, VacantRow DEF Finish

LEMMA MinIn == ASSUME NEW S, S \subseteq Nat, S # {} PROVE Min(S) \in S
<1>1. PICK x \in S : \A y \in S : ~(<<y, x>> \in OpToRel(<, Nat))
  BY WFMin, NatLessThanWellFounded
<1>2. \A y \in Nat : y < x => <<y, x>> \in OpToRel(<, Nat)
  BY Zenon DEF OpToRel
<1>3. \A y \in S : ~(y < x)
  BY <1>1, <1>2, Zenon
<1>4. \A y \in S : x <= y
  BY <1>3
<1> QED  BY <1>4 DEF Min

\* The account whose trial goes on is one of the address, and alone.
LEMMA KeeperIn ==
    ASSUME NEW e PROVE Keeper(e) \subseteq Guests /\ (Keeper(e) # {} => Min(Keeper(e)) \in Guests)
<1> DEFINE live == {g \in GuestsOf(e) : Active(g)}
<1>1. live \subseteq Guests /\ live \subseteq Nat
  BY GuestsAssumption DEF GuestsOf
<1>2. live # {} => Min(live) \in live
  BY <1>1, MinIn
<1>3. Keeper(e) = {} \/ (Keeper(e) = {Min(live)} /\ live # {})
  BY DEF Keeper
<1>4. Keeper(e) \subseteq Guests
  BY <1>1, <1>2, <1>3
<1>5. Keeper(e) # {} => Min(Keeper(e)) \in Keeper(e)
  BY <1>4, MinIn, GuestsAssumption
<1> QED  BY <1>4, <1>5

\* The parts of RowsInv, one for each variable.
AccountOK == account \in [Emails -> AccountRow]
TokenOK ==
    /\ token \in [Tokens -> TokenRow]
    /\ \A t \in Tokens : token[t].state = "open" => token[t].purpose # "none" /\ token[t].email \in Emails
SessionOK ==
    /\ session \in [Sessions -> SessionRow]
    /\ \A s \in Sessions : session[s].state = "live" => session[s].email \in Emails
RequestOK ==
    /\ request \in [Requests -> RequestRow]
    /\ \A q \in Requests : request[q].op \in WithEmail => request[q].email \in Emails
    /\ \A q \in Requests : request[q].at = "revoking" => request[q].op \in {"change", "reset"}
HolderOK == holder \in [Emails -> Requests \cup {None}]
CodeOK ==
    /\ code \in [Codes -> CodeRow]
    /\ \A c \in Codes : code[c].state \notin {"none", "deleted"} => code[c].email \in Emails
TrialOK == trial \in [Emails -> TrialRow]
GuestOK == guest \in [Guests -> GuestRow]

LEMMA RowsByParts ==
    /\ RowsInv <=> AccountOK /\ TokenOK /\ SessionOK /\ RequestOK /\ HolderOK /\ CodeOK /\ TrialOK /\ GuestOK
    /\ RowsInv' <=> AccountOK' /\ TokenOK' /\ SessionOK' /\ RequestOK' /\ HolderOK' /\ CodeOK' /\ TrialOK'
                    /\ GuestOK'
BY DEF RowsInv, AccountRows, GuestRows, Addressed, AccountOK, TokenOK, SessionOK, RequestOK,
       HolderOK, CodeOK, TrialOK, GuestOK

LEMMA RowsStutter ==
    /\ UNCHANGED account /\ AccountOK => AccountOK'
    /\ UNCHANGED token /\ TokenOK => TokenOK'
    /\ UNCHANGED session /\ SessionOK => SessionOK'
    /\ UNCHANGED request /\ RequestOK => RequestOK'
    /\ UNCHANGED holder /\ HolderOK => HolderOK'
    /\ UNCHANGED code /\ CodeOK => CodeOK'
    /\ UNCHANGED trial /\ TrialOK => TrialOK'
    /\ UNCHANGED guest /\ GuestOK => GuestOK'
BY DEF AccountOK, TokenOK, SessionOK, RequestOK, HolderOK, CodeOK, TrialOK, GuestOK

LEMMA TokenMoves ==
    ASSUME TokenOK, NEW t \in Tokens, NEW e \in Emails, NEW x \in {"verify", "reset"}, CreateToken(t, e, x)
    PROVE  TokenOK'
<1> DEFINE r == [purpose |-> x, email |-> e, state |-> "open"]
<1>1. r \in TokenRow /\ r.purpose # "none" /\ r.email \in Emails
  BY DEF TokenRow
<1>2. token' = [token EXCEPT ![t] = r]
  BY DEF CreateToken
<1> HIDE DEF r
<1> QED  BY <1>1, <1>2 DEF TokenOK

LEMMA TokenCloses ==
    ASSUME TokenOK, NEW k, NEW x \in {"used", "expired"}, token' = [token EXCEPT ![k].state = x]
    PROVE  TokenOK'
<1> SUFFICES ASSUME NEW t \in Tokens
             PROVE  token'[t] \in TokenRow /\ (token'[t].state = "open" => token'[t] = token[t])
  BY DEF TokenOK
<1>1. token[t] \in TokenRow
  BY DEF TokenOK
<1>2. CASE t = k
  <2>1. token'[t] = [token[t] EXCEPT !.state = x]
    BY <1>2 DEF TokenOK
  <2> QED  BY <1>1, <2>1 DEF TokenRow
<1>3. CASE t # k
  BY <1>1, <1>3 DEF TokenOK
<1> QED  BY <1>2, <1>3

\* The steps of registered accounts.
LEMMA AccountsRows ==
    ASSUME RowsInv, AccountsNext, UNCHANGED gvars
    PROVE  RowsInv'
<1>0. /\ AccountOK /\ TokenOK /\ SessionOK /\ RequestOK /\ HolderOK /\ CodeOK /\ TrialOK /\ GuestOK
      /\ CodeOK' /\ TrialOK' /\ GuestOK'
  BY RowsByParts, RowsStutter DEF gvars
<1>1. ASSUME NEW q \in Requests, NEW e \in Emails, SignupStart(q, e) PROVE RowsInv'
  <2>1. RequestOK'
    <3> DEFINE r == [Vacant EXCEPT !.op = "signup", !.at = "hashing", !.email = e]
    <3>1. r \in RequestRow /\ r.email \in Emails /\ r.at # "revoking"
      BY DEF Vacant, RequestRow
    <3>2. request' = [request EXCEPT ![q] = r]
      BY <1>1 DEF SignupStart
    <3> HIDE DEF r
    <3> QED  BY <3>1, <3>2, RequestMoves DEF RequestOK
  <2>2. HolderOK'
    BY <1>0, <1>1 DEF SignupStart, LockSignupIdentity, HolderOK
  <2> QED  BY <1>0, <1>1, <2>1, <2>2, RowsByParts, RowsStutter DEF SignupStart
<1>2. ASSUME NEW q \in Requests, NEW e \in Emails, LoginVerify(q, e) PROVE RowsInv'
  <2>1. RequestOK'
    <3>0. account[e].password \in Nat /\ Changing(e) \in BOOLEAN
      BY <1>0 DEF AccountOK, AccountRow, Changing
    <3> DEFINE r == [Vacant EXCEPT !.op = "login", !.at = "verified", !.email = e,
                                   !.password = account[e].password, !.crossed = Changing(e)]
    <3>1. r \in RequestRow /\ r.email \in Emails /\ r.at # "revoking"
      BY <3>0 DEF Vacant, RequestRow
    <3>2. request' = [request EXCEPT ![q] = r]
      BY <1>2 DEF LoginVerify
    <3> HIDE DEF r
    <3> QED  BY <3>1, <3>2, RequestMoves DEF RequestOK
  <2> QED  BY <1>0, <1>2, <2>1, RowsByParts, RowsStutter DEF LoginVerify
<1>3. ASSUME NEW q \in Requests, NEW t \in Tokens, NEW auto \in AutoApproval, SignupCommit(q, t, auto)
      PROVE  RowsInv'
  <2>0. request[q].email \in Emails
    BY <1>0, <1>3 DEF SignupCommit, RequestOK, WithEmail
  <2>1. RequestOK'
    BY <1>3, FinishMoves DEF SignupCommit, RequestOK
  <2>2. HolderOK'
    BY <1>0, <1>3 DEF SignupCommit, HolderOK
  <2>3. TokenOK'
    BY <1>0, <1>3, <2>0, TokenMoves, RowsStutter DEF SignupCommit
  <2>4. AccountOK'
    BY <1>0, <1>3 DEF SignupCommit, AccountOK, AccountRow
  <2> QED  BY <1>0, <1>3, <2>1, <2>2, <2>3, <2>4, RowsByParts, RowsStutter DEF SignupCommit
<1>4. ASSUME NEW e \in Emails, NEW t \in Tokens, ResendVerification(e, t) PROVE RowsInv'
  BY <1>0, <1>4, TokenMoves, RowsByParts, RowsStutter DEF ResendVerification
<1>5. ASSUME NEW e \in Emails, NEW t \in Tokens, RequestPasswordReset(e, t) PROVE RowsInv'
  BY <1>0, <1>5, TokenMoves, RowsByParts, RowsStutter DEF RequestPasswordReset
<1>6. ASSUME NEW e \in Emails, NEW t \in Tokens, NEW mark \in BOOLEAN, Approve(e, t, mark) PROVE RowsInv'
  <2>1. AccountOK'
    BY <1>0, <1>6 DEF Approve, AccountOK, AccountRow
  <2>2. TokenOK'
    BY <1>0, <1>6, TokenMoves, RowsStutter DEF Approve
  <2> QED  BY <1>0, <1>6, <2>1, <2>2, RowsByParts, RowsStutter DEF Approve
<1>7. ASSUME NEW e \in Emails, Reject(e) PROVE RowsInv'
  <2>1. AccountOK'
    BY <1>0, <1>7 DEF Reject, AccountOK, AccountRow
  <2> QED  BY <1>0, <1>7, <2>1, RowsByParts, RowsStutter DEF Reject
<1>8. ASSUME NEW q \in Requests, NEW s \in Sessions, LoginCommit(q, s) PROVE RowsInv'
  <2>0. request[q].email \in Emails /\ request[q] \in RequestRow
    BY <1>0, <1>8 DEF LoginCommit, RequestOK, WithEmail
  <2>1. RequestOK'
    BY <1>8, FinishMoves DEF LoginCommit, RequestOK
  <2>2. SessionOK'
    <3> DEFINE r == [email |-> request[q].email, state |-> "live", password |-> request[q].password,
                     crossed |-> request[q].crossed]
    <3>1. r \in SessionRow /\ r.email \in Emails
      BY <2>0 DEF RequestRow, SessionRow
    <3>2. session' = [session EXCEPT ![s] = r]
      BY <1>8 DEF LoginCommit
    <3> HIDE DEF r
    <3> QED  BY <1>0, <3>1, <3>2 DEF SessionOK
  <2> QED  BY <1>0, <1>8, <2>1, <2>2, RowsByParts, RowsStutter DEF LoginCommit
<1>9. ASSUME NEW q \in Requests, NEW s \in Sessions, UpdatePasswordLoad(q, s) PROVE RowsInv'
  <2>0. session[s].email \in Emails
    BY <1>0, <1>9 DEF UpdatePasswordLoad, Live, SessionOK
  <2>1. RequestOK'
    <3> DEFINE r == [Vacant EXCEPT !.op = "change", !.at = "loaded", !.email = session[s].email]
    <3>1. r \in RequestRow /\ r.email \in Emails /\ r.at # "revoking"
      BY <2>0 DEF Vacant, RequestRow
    <3>2. request' = [request EXCEPT ![q] = r]
      BY <1>9 DEF UpdatePasswordLoad
    <3> HIDE DEF r
    <3> QED  BY <3>1, <3>2, RequestMoves DEF RequestOK
  <2> QED  BY <1>0, <1>9, <2>1, RowsByParts, RowsStutter DEF UpdatePasswordLoad
<1>10. ASSUME NEW s \in Sessions, Logout(s) PROVE RowsInv'
  <2>1. SessionOK'
    <3> DEFINE r == [session[s] EXCEPT !.state = "revoked"]
    <3>1. r \in SessionRow /\ r.state # "live"
      BY <1>0 DEF SessionOK, SessionRow
    <3>2. session' = [session EXCEPT ![s] = r]
      BY <1>10 DEF Logout
    <3> HIDE DEF r
    <3> QED  BY <1>0, <3>1, <3>2 DEF SessionOK
  <2> QED  BY <1>0, <1>10, <2>1, RowsByParts, RowsStutter DEF Logout
<1>11. ASSUME NEW t \in Tokens, TokenExpires(t) PROVE RowsInv'
  BY <1>0, <1>11, TokenCloses, RowsByParts, RowsStutter DEF TokenExpires
<1>12. ASSUME NEW q \in Requests, NEW t \in Tokens, ConsumeLoad(q, t) PROVE RowsInv'
  <2>0. token[t].email \in Emails /\ token[t].purpose \in {"verify", "reset"}
    BY <1>0, <1>12 DEF ConsumeLoad, TokenOK, TokenRow
  <2>1. RequestOK'
    <3> DEFINE r == [Vacant EXCEPT !.op = token[t].purpose, !.at = "loaded", !.email = token[t].email,
                                   !.key = t]
    <3>1. r \in RequestRow /\ r.email \in Emails /\ r.at # "revoking"
      BY <2>0 DEF Vacant, RequestRow
    <3>2. request' = [request EXCEPT ![q] = r]
      BY <1>12 DEF ConsumeLoad
    <3> HIDE DEF r
    <3> QED  BY <3>1, <3>2, RequestMoves DEF RequestOK
  <2> QED  BY <1>0, <1>12, <2>1, RowsByParts, RowsStutter DEF ConsumeLoad
<1>13. ASSUME NEW q \in Requests, VerifyEmail(q) PROVE RowsInv'
  <2>1. RequestOK'
    BY <1>13, FinishMoves DEF VerifyEmail, RequestOK
  <2>2. TokenOK'
    BY <1>0, <1>13, TokenCloses DEF VerifyEmail
  <2>3. AccountOK'
    BY <1>0, <1>13 DEF VerifyEmail, AccountOK, AccountRow
  <2> QED  BY <1>0, <1>13, <2>1, <2>2, <2>3, RowsByParts, RowsStutter DEF VerifyEmail
<1>14. ASSUME NEW q \in Requests, SelectSessions(q) PROVE RowsInv'
  <2>1. RequestOK'
    <3> SUFFICES ASSUME NEW o \in Requests
                 PROVE  /\ request'[o] \in RequestRow
                        /\ request'[o].op = request[o].op /\ request'[o].email = request[o].email
                        /\ request'[o].at = "revoking" => request'[o].op \in {"change", "reset"}
      BY <1>0, <1>14 DEF RequestOK, SelectSessions
    <3>1. request[o] \in RequestRow /\ Revocable(request[q].email) \subseteq Sessions
          /\ (request[o].at = "revoking" => request[o].op \in {"change", "reset"})
      BY <1>0 DEF RequestOK, Revocable
    <3>2. CASE o = q
      <4>1. request'[o] = [request[o] EXCEPT !.at = "revoking", !.seen = Revocable(request[q].email)]
            /\ request[o].op \in {"change", "reset"}
        BY <1>14, <3>2 DEF SelectSessions
      <4> QED  BY <3>1, <4>1 DEF RequestRow
    <3>3. CASE o # q
      <4> DEFINE x == request[o].crossed \/ (request[o].op = "login" /\ request[o].email = request[q].email)
      <4>1. request'[o] = [request[o] EXCEPT !.crossed = x]
        BY <1>14, <3>3 DEF SelectSessions
      <4>2. x \in BOOLEAN
        BY <3>1 DEF RequestRow
      <4> HIDE DEF x
      <4> QED  BY <3>1, <4>1, <4>2 DEF RequestRow
    <3> QED  BY <3>2, <3>3
  <2> QED  BY <1>0, <1>14, <2>1, RowsByParts, RowsStutter DEF SelectSessions
<1>15. ASSUME NEW q \in Requests, CommitPassword(q) PROVE RowsInv'
  <2>1. RequestOK'
    BY <1>15, FinishMoves DEF CommitPassword, RequestOK
  <2>2. TokenOK'
    <3> SUFFICES ASSUME NEW t \in Tokens
                 PROVE  token'[t] \in TokenRow /\ (token'[t].state = "open" => token'[t] = token[t])
      BY <1>0, <1>15 DEF TokenOK, CommitPassword
    <3> QED  BY <1>0, <1>15 DEF CommitPassword, TokenOK, TokenRow
  <2>3. AccountOK'
    <3> SUFFICES ASSUME NEW e \in Emails PROVE account'[e] \in AccountRow
      BY <1>0, <1>15 DEF AccountOK, CommitPassword
    <3>1. account[e] \in AccountRow /\ account[e].password + 1 \in Nat
      BY <1>0 DEF AccountOK, AccountRow
    <3>2. \/ account'[e] = account[e]
          \/ account'[e] = [account[e] EXCEPT !.password = account[e].password + 1]
      BY <1>0, <1>15 DEF AccountOK, CommitPassword
    <3> QED  BY <3>1, <3>2 DEF AccountRow
  <2>4. SessionOK'
    <3> SUFFICES ASSUME NEW s \in Sessions
                 PROVE  session'[s] \in SessionRow /\ (session'[s].state = "live" => session'[s] = session[s])
      BY <1>0, <1>15 DEF SessionOK, CommitPassword
    <3> QED  BY <1>0, <1>15 DEF CommitPassword, SessionOK, SessionRow
  <2> QED  BY <1>0, <1>15, <2>1, <2>2, <2>3, <2>4, RowsByParts, RowsStutter DEF CommitPassword
<1>16. ASSUME NEW q \in Requests, Abandon(q) PROVE RowsInv'
  <2>1. RequestOK'
    BY <1>16, FinishMoves DEF Abandon, RequestOK
  <2>2. HolderOK'
    BY <1>0, <1>16 DEF Abandon, HolderOK
  <2> QED  BY <1>0, <1>16, <2>1, <2>2, RowsByParts, RowsStutter DEF Abandon
<1> QED  BY <1>1, <1>2, <1>3, <1>4, <1>5, <1>6, <1>7, <1>8, <1>9, <1>10, <1>11, <1>12, <1>13, <1>14,
            <1>15, <1>16 DEF AccountsNext

LEMMA ExpiredRows ==
    /\ \A r \in GuestRow : /\ ExpiredGuest(r) \in GuestRow /\ ExpiredGuest(r).email = r.email
                           /\ ExpiredGuest(r).state \in {r.state, "expired"}
                           /\ r.state = "none" => ExpiredGuest(r).state = "none"
                           /\ ExpiredGuest(r).state # "active"
    /\ \A r \in CodeRow : /\ ExpiredCode(r) \in CodeRow /\ ExpiredCode(r).email = r.email
                          /\ (r.state \in {"none", "deleted"} => ExpiredCode(r).state = r.state)
BY DEF ExpiredGuest, ExpiredCode, GuestRow, CodeRow

LEMMA InvalidatedRows ==
    ASSUME CodeOK, NEW e
    PROVE  /\ Invalidated(e) \in [Codes -> CodeRow]
           /\ \A c \in Codes : Invalidated(e)[c].state \notin {"none", "deleted"}
                                 => Invalidated(e)[c].email \in Emails
<1> SUFFICES ASSUME NEW c \in Codes
             PROVE  /\ Invalidated(e)[c] \in CodeRow
                    /\ Invalidated(e)[c].state \notin {"none", "deleted"} => Invalidated(e)[c].email \in Emails
  BY DEF Invalidated
<1>1. code[c] \in CodeRow /\ (code[c].state \notin {"none", "deleted"} => code[c].email \in Emails)
  BY DEF CodeOK
<1>2. Invalidated(e)[c] = code[c] \/ Invalidated(e)[c] = ExpiredCode(code[c])
  BY DEF Invalidated
<1> QED  BY <1>1, <1>2, ExpiredRows

LEMMA NewTrialRow ==
    ASSUME NEW u \in Guests \cup {None}, NEW b \in BOOLEAN
    PROVE  [NoTrial EXCEPT !.user = u, !.redeemed = b] \in TrialRow
BY DEF NoTrial, TrialRow

LEMMA NewGuestRow ==
    ASSUME NEW e \in Emails, NEW n \in Int, NEW st \in {"active", "expired", "erased"}, NEW b \in BOOLEAN
    PROVE  [NoGuest EXCEPT !.state = st, !.email = e, !.generation = n, !.signedIn = b] \in GuestRow
BY DEF NoGuest, GuestRow

\* The steps of codes and trials.
LEMMA CodesRows ==
    ASSUME RowsInv, CodesNext
    PROVE  RowsInv'
<1>0. AccountOK /\ TokenOK /\ SessionOK /\ RequestOK /\ HolderOK /\ CodeOK /\ TrialOK /\ GuestOK
  BY RowsByParts
<1>a. \A n \in Nat : n + 1 \in Nat
  OBVIOUS
<1>1. ASSUME Backfill PROVE RowsInv'
  <2>1. TrialOK'
    <3> SUFFICES ASSUME NEW e \in Emails PROVE trial'[e] \in TrialRow
      BY <1>1 DEF Backfill, TrialOK
    <3> DEFINE u == IF Keeper(e) = {} THEN None ELSE Min(Keeper(e))
               b == GuestsOf(e) # {}
    <3>1. u \in Guests \cup {None} /\ b \in BOOLEAN
      BY KeeperIn
    <3>2. trial'[e] = [NoTrial EXCEPT !.user = u, !.redeemed = b]
      BY <1>1 DEF Backfill
    <3> HIDE DEF u, b
    <3> QED  BY <3>1, <3>2, NewTrialRow
  <2>2. GuestOK'
    <3> SUFFICES ASSUME NEW g \in Guests PROVE guest'[g] \in GuestRow
      BY <1>1 DEF Backfill, GuestOK
    <3>1. guest[g] \in GuestRow
      BY <1>0 DEF GuestOK
    <3>2. guest'[g] = guest[g] \/ guest'[g] = ExpiredGuest(guest[g])
      BY <1>1 DEF Backfill
    <3> QED  BY <3>1, <3>2, ExpiredRows
  <2>3. CodeOK'
    <3> SUFFICES ASSUME NEW c \in Codes
                 PROVE  /\ code'[c] \in CodeRow
                        /\ code'[c].state \notin {"none", "deleted"} => code'[c].email \in Emails
      BY <1>1 DEF Backfill, CodeOK
    <3>1. code[c] \in CodeRow /\ (code[c].state \notin {"none", "deleted"} => code[c].email \in Emails)
      BY <1>0 DEF CodeOK
    <3>2. code'[c] = code[c] \/ code'[c] = ExpiredCode(code[c])
      BY <1>1 DEF Backfill
    <3> QED  BY <3>1, <3>2, ExpiredRows
  <2> QED  BY <1>0, <1>1, <2>1, <2>2, <2>3, RowsByParts, RowsStutter DEF Backfill, avars
<1>2. ASSUME NEW e \in Emails, NEW c \in Codes, Issue(e, c) PROVE RowsInv'
  <2>0. trial[e] \in TrialRow
    BY <1>0 DEF TrialOK
  <2>1. TrialOK'
    <3> DEFINE r == [trial[e] EXCEPT !.cooling = TRUE, !.sent = trial[e].sent + 1]
    <3>1. r \in TrialRow
      BY <2>0, <1>a DEF TrialRow
    <3>2. trial' = [trial EXCEPT ![e] = r]
      BY <1>2 DEF Issue
    <3> HIDE DEF r
    <3> QED  BY <1>0, <3>1, <3>2 DEF TrialOK
  <2>2. CodeOK'
    <3> DEFINE r == [state |-> "open", email |-> e, generation |-> trial[e].generation, user |-> None]
    <3>1. r \in CodeRow /\ r.email \in Emails
      BY <2>0 DEF CodeRow, TrialRow
    <3>2. code' = [Invalidated(e) EXCEPT ![c] = r]
      BY <1>2 DEF Issue
    <3> HIDE DEF r
    <3> QED  BY <1>0, <3>1, <3>2, InvalidatedRows DEF CodeOK
  <2> QED  BY <1>0, <1>2, <2>1, <2>2, RowsByParts, RowsStutter DEF Issue, avars
<1>3. ASSUME NEW q \in Requests, NEW c \in Codes, RedeemLoad(q, c) PROVE RowsInv'
  <2>0. code[c].email \in Emails
    BY <1>0, <1>3 DEF RedeemLoad, CodeOK
  <2>1. RequestOK'
    <3> DEFINE r == [Vacant EXCEPT !.op = "redeem", !.at = "loaded", !.email = code[c].email, !.key = c]
    <3>1. r \in RequestRow /\ r.email \in Emails /\ r.at # "revoking"
      BY <2>0 DEF Vacant, RequestRow
    <3>2. request' = [request EXCEPT ![q] = r]
      BY <1>3 DEF RedeemLoad
    <3> HIDE DEF r
    <3> QED  BY <3>1, <3>2, RequestMoves DEF RequestOK
  <2> QED  BY <1>0, <1>3, <2>1, RowsByParts, RowsStutter DEF RedeemLoad, gvars
<1>4. ASSUME NEW q \in Requests, RedeemLock(q) PROVE RowsInv'
  <2>1. RequestOK'
    <3> DEFINE r == [request[q] EXCEPT !.at = "locked"]
    <3>1. r \in RequestRow /\ r.email = request[q].email /\ r.op = request[q].op /\ r.at # "revoking"
      BY <1>0 DEF RequestOK, RequestRow
    <3>2. request' = [request EXCEPT ![q] = r]
      BY <1>4 DEF RedeemLock
    <3>3. r.op \in WithEmail => r.email \in Emails
      BY <1>0, <3>1 DEF RequestOK
    <3> HIDE DEF r
    <3> QED  BY <3>1, <3>2, <3>3, RequestMoves DEF RequestOK
  <2>2. HolderOK'
    BY <1>0, <1>4 DEF RedeemLock, HolderOK
  <2> QED  BY <1>0, <1>4, <2>1, <2>2, RowsByParts, RowsStutter DEF RedeemLock, gvars
<1>5. ASSUME NEW q \in Requests, NEW g \in Guests, RedeemCommit(q, g) PROVE RowsInv'
  <2> DEFINE e == request[q].email
             c == request[q].key
  <2>0. e \in Emails /\ trial[e] \in TrialRow
    BY <1>0, <1>5 DEF RedeemCommit, RequestOK, WithEmail, TrialOK
  <2>1. RequestOK'
    BY <1>5, FinishMoves DEF RedeemCommit, RequestOK
  <2>2. HolderOK'
    BY <1>0, <1>5 DEF RedeemCommit, HolderOK
  <2>3. CodeOK'
    <3> SUFFICES ASSUME NEW k \in Codes
                 PROVE  /\ code'[k] \in CodeRow
                        /\ code'[k].state \notin {"none", "deleted"} => code'[k].email \in Emails
      BY <1>0, <1>5 DEF RedeemCommit, CodeOK
    <3>1. code[k] \in CodeRow /\ (code[k].state \notin {"none", "deleted"} => code[k].email \in Emails)
      BY <1>0 DEF CodeOK
    <3>2. \/ code'[k] = code[k]
          \/ /\ code'[k] = [code[k] EXCEPT !.state = "consumed", !.user = g]
             /\ code[k].state \in {"open", "expired"}
      BY <1>0, <1>5 DEF RedeemCommit, CodeOK
    <3> QED  BY <3>1, <3>2 DEF CodeRow
  <2>4. CASE trial[e].user = None
    <3>1. TrialOK'
      <4> DEFINE r == [trial[e] EXCEPT !.user = g, !.redeemed = TRUE]
      <4>1. r \in TrialRow
        BY <2>0 DEF TrialRow
      <4>2. trial' = [trial EXCEPT ![e] = r]
        BY <1>5, <2>4 DEF RedeemCommit
      <4> HIDE DEF r
      <4> QED  BY <1>0, <4>1, <4>2 DEF TrialOK
    <3>2. GuestOK'
      <4> DEFINE r == [NoGuest EXCEPT !.state = "active", !.email = e, !.signedIn = TRUE,
                                      !.generation = trial[e].generation]
      <4>0. trial[e].generation \in Int
        BY <2>0 DEF TrialRow
      <4>1. r \in GuestRow
        <5> HIDE DEF e
        <5> QED  BY <2>0, <4>0, NewGuestRow
      <4>2. guest' = [guest EXCEPT ![g] = r]
        BY <1>5, <2>4 DEF RedeemCommit
      <4> HIDE DEF r
      <4> QED  BY <1>0, <4>1, <4>2 DEF GuestOK
    <3> QED  BY <1>0, <1>5, <2>1, <2>2, <2>3, <3>1, <3>2, RowsByParts, RowsStutter DEF RedeemCommit
  <2>5. CASE trial[e].user # None
    <3>1. GuestOK'
      <4> DEFINE r == [guest[g] EXCEPT !.signedIn = Active(g)]
      <4>0. Active(g) \in BOOLEAN /\ guest[g] \in GuestRow
        BY <1>0 DEF Active, GuestOK
      <4>1. r \in GuestRow
        BY <4>0 DEF GuestRow
      <4>2. guest' = [guest EXCEPT ![g] = r]
        BY <1>5, <2>5 DEF RedeemCommit
      <4> HIDE DEF r
      <4> QED  BY <1>0, <4>1, <4>2 DEF GuestOK
    <3> QED  BY <1>0, <1>5, <2>1, <2>2, <2>3, <2>5, <3>1, RowsByParts, RowsStutter DEF RedeemCommit
  <2> QED  BY <2>4, <2>5
<1>6. ASSUME NEW q \in Requests, NEW g \in Guests, GuestRequest(q, g) PROVE RowsInv'
  <2>1. RequestOK'
    <3> DEFINE r == [Vacant EXCEPT !.op = "guest", !.at = "loaded", !.key = g]
    <3>1. r \in RequestRow /\ r.op \notin WithEmail /\ r.at # "revoking"
      BY DEF Vacant, RequestRow, WithEmail
    <3>2. request' = [request EXCEPT ![q] = r]
      BY <1>6 DEF GuestRequest
    <3> HIDE DEF r
    <3> QED  BY <3>1, <3>2, RequestMoves DEF RequestOK
  <2> QED  BY <1>0, <1>6, <2>1, RowsByParts, RowsStutter DEF GuestRequest, gvars
<1>7. ASSUME NEW e \in Emails, ResetTrial(e) PROVE RowsInv'
  <2>1. TrialOK'
    <3> DEFINE r == [NoTrial EXCEPT !.sent = trial[e].sent, !.generation = trial[e].generation + 1]
    <3>1. r \in TrialRow
      BY <1>0, <1>a DEF NoTrial, TrialRow, TrialOK
    <3>2. trial' = [trial EXCEPT ![e] = r]
      BY <1>7 DEF ResetTrial
    <3> HIDE DEF r
    <3> QED  BY <1>0, <3>1, <3>2 DEF TrialOK
  <2>2. GuestOK'
    <3> SUFFICES ASSUME NEW g \in Guests PROVE guest'[g] \in GuestRow
      BY <1>7 DEF ResetTrial, GuestOK
    <3> QED  BY <1>0, <1>7, ExpiredRows DEF ResetTrial, GuestOK
  <2>3. CodeOK'
    BY <1>0, <1>7, InvalidatedRows DEF ResetTrial, CodeOK
  <2> QED  BY <1>0, <1>7, <2>1, <2>2, <2>3, RowsByParts, RowsStutter DEF ResetTrial, avars
<1>8. ASSUME NEW e \in Emails, CooldownEnds(e) PROVE RowsInv'
  <2>1. TrialOK'
    <3> DEFINE r == [trial[e] EXCEPT !.cooling = FALSE]
    <3>1. r \in TrialRow
      BY <1>0 DEF TrialRow, TrialOK
    <3>2. trial' = [trial EXCEPT ![e] = r]
      BY <1>8 DEF CooldownEnds
    <3> HIDE DEF r
    <3> QED  BY <1>0, <3>1, <3>2 DEF TrialOK
  <2> QED  BY <1>0, <1>8, <2>1, RowsByParts, RowsStutter DEF CooldownEnds, avars
<1>9. ASSUME NEW c \in Codes, CodeExpires(c) PROVE RowsInv'
  <2>1. CodeOK'
    <3> DEFINE r == [code[c] EXCEPT !.state = "expired"]
    <3>1. r \in CodeRow /\ r.email = code[c].email /\ code[c].email \in Emails
      BY <1>0, <1>9 DEF CodeRow, CodeOK, CodeExpires
    <3>2. code' = [code EXCEPT ![c] = r]
      BY <1>9 DEF CodeExpires
    <3> HIDE DEF r
    <3> QED  BY <1>0, <3>1, <3>2 DEF CodeOK
  <2> QED  BY <1>0, <1>9, <2>1, RowsByParts, RowsStutter DEF CodeExpires, avars
<1>10. ASSUME NEW q \in Requests, NEW hold \in {"none", "work", "shared"}, GuestWrites(q, hold) PROVE RowsInv'
  <2>1. RequestOK'
    BY <1>10, FinishMoves DEF GuestWrites, RequestOK
  <2>2. GuestOK'
    <3> SUFFICES ASSUME NEW g \in Guests PROVE guest'[g] \in GuestRow
      BY <1>0, <1>10 DEF GuestWrites, GuestOK
    <3> DEFINE h == IF guest[g].hold = "none" THEN hold ELSE guest[g].hold
    <3>1. guest[g] \in GuestRow /\ guest[g].content + 1 \in Nat /\ h \in {"none", "work", "shared"}
      BY <1>0 DEF GuestOK, GuestRow
    <3>2. \/ guest'[g] = guest[g]
          \/ guest'[g] = [guest[g] EXCEPT !.content = guest[g].content + 1, !.hold = h]
      BY <1>0, <1>10 DEF GuestWrites, GuestOK
    <3> HIDE DEF h
    <3> QED  BY <3>1, <3>2 DEF GuestRow
  <2> QED  BY <1>0, <1>10, <2>1, <2>2, RowsByParts, RowsStutter DEF GuestWrites
<1>11. ASSUME NEW g \in Guests, TrialEnds(g) PROVE RowsInv'
  <2>1. GuestOK'
    BY <1>0, <1>11, ExpiredRows DEF TrialEnds, GuestOK
  <2> QED  BY <1>0, <1>11, <2>1, RowsByParts, RowsStutter DEF TrialEnds, avars
<1>12. ASSUME NEW g \in Guests, WorkEnds(g) PROVE RowsInv'
  <2>1. GuestOK'
    BY <1>0, <1>12 DEF WorkEnds, GuestOK, GuestRow
  <2> QED  BY <1>0, <1>12, <2>1, RowsByParts, RowsStutter DEF WorkEnds, avars
<1> QED  BY <1>1, <1>2, <1>3, <1>4, <1>5, <1>6, <1>7, <1>8, <1>9, <1>10, <1>11, <1>12 DEF CodesNext

\* The steps of the erasure.
LEMMA ErasureRows ==
    ASSUME RowsInv, ErasureNext
    PROVE  RowsInv'
<1>0. AccountOK /\ TokenOK /\ SessionOK /\ RequestOK /\ HolderOK /\ CodeOK /\ TrialOK /\ GuestOK
  BY RowsByParts
<1>1. CASE SweepPage
  BY <1>0, <1>1, RowsByParts, RowsStutter DEF SweepPage, avars
<1>2. ASSUME NEW g \in Guests, DeferGuest(g) PROVE RowsInv'
  BY <1>0, <1>2, RowsByParts, RowsStutter DEF DeferGuest, avars
<1>3. ASSUME NEW g \in Guests, EraseGuest(g) PROVE RowsInv'
  <2>1. CodeOK'
    <3> SUFFICES ASSUME NEW c \in Codes
                 PROVE  /\ code'[c] \in CodeRow
                        /\ code'[c].state \notin {"none", "deleted"} => code'[c].email \in Emails
      BY <1>3 DEF EraseGuest, CodeOK
    <3>1. code[c] \in CodeRow /\ (code[c].state \notin {"none", "deleted"} => code[c].email \in Emails)
      BY <1>0 DEF CodeOK
    <3>2. code'[c] = code[c] \/ code'[c] = [NoCode EXCEPT !.state = "deleted"]
      BY <1>3 DEF EraseGuest
    <3> QED  BY <3>1, <3>2 DEF CodeRow, NoCode
  <2>2. GuestOK'
    <3> DEFINE r == [guest[g] EXCEPT !.state = "erased", !.signedIn = FALSE, !.content = 0]
    <3>1. r \in GuestRow
      BY <1>0 DEF GuestOK, GuestRow
    <3>2. guest' = [guest EXCEPT ![g] = r]
      BY <1>3 DEF EraseGuest
    <3> HIDE DEF r
    <3> QED  BY <1>0, <3>1, <3>2 DEF GuestOK
  <2>3. TrialOK'
    <3> SUFFICES ASSUME NEW e \in Emails PROVE trial'[e] \in TrialRow
      BY <1>3 DEF EraseGuest, TrialOK
    <3>1. trial[e] \in TrialRow
      BY <1>0 DEF TrialOK
    <3>2. trial'[e] = trial[e] \/ trial'[e] = [trial[e] EXCEPT !.user = None]
      BY <1>3 DEF EraseGuest
    <3> QED  BY <3>1, <3>2 DEF TrialRow
  <2> QED  BY <1>0, <1>3, <2>1, <2>2, <2>3, RowsByParts, RowsStutter DEF EraseGuest, avars
<1> QED  BY <1>1, <1>2, <1>3 DEF ErasureNext

LEMMA RowsInitially == AccountsInit /\ GuestsInit => RowsInv
<1> SUFFICES ASSUME AccountsInit, GuestsInit PROVE RowsInv
  OBVIOUS
<1>1. AccountOK
  BY DEF AccountsInit, AccountOK, NoAccount, AccountRow
<1>2. TokenOK
  BY DEF AccountsInit, TokenOK, NoToken, TokenRow
<1>3. SessionOK
  BY DEF AccountsInit, SessionOK, NoSession, SessionRow
<1>4. RequestOK
  BY VacantRow DEF AccountsInit, RequestOK
<1>5. HolderOK
  BY DEF AccountsInit, HolderOK
<1>6. CodeOK
  <2>1. ASSUME NEW r \in LegacyCodes
        PROVE  r \in CodeRow /\ (r.state \notin {"none", "deleted"} => r.email \in Emails)
    <3>1. CASE r = NoCode
      BY <3>1 DEF NoCode, CodeRow
    <3>2. CASE r # NoCode
      <4>1. PICK e \in Emails : r = [NoCode EXCEPT !.state = "open", !.email = e]
        BY <3>2 DEF LegacyCodes
      <4> QED  BY <4>1 DEF NoCode, CodeRow
    <3> QED  BY <3>1, <3>2
  <2> QED  BY <2>1 DEF GuestsInit, CodeOK
<1>7. TrialOK
  BY DEF GuestsInit, TrialOK, NoTrial, TrialRow
<1>8. GuestOK
  <2>1. ASSUME NEW r \in LegacyGuests PROVE r \in GuestRow
    <3>1. CASE r = NoGuest
      BY <3>1 DEF NoGuest, GuestRow
    <3>2. CASE r # NoGuest
      <4>1. \A st \in {"active", "expired", "erased"}, e \in Emails : LegacyGuest(st, e) \in GuestRow
        <5> SUFFICES ASSUME NEW st \in {"active", "expired", "erased"}, NEW e \in Emails
                     PROVE  LegacyGuest(st, e) \in GuestRow
          OBVIOUS
        <5>1. (st = "active") \in BOOLEAN /\ -1 \in Int
          OBVIOUS
        <5> QED  BY <5>1, NewGuestRow, Zenon DEF LegacyGuest
      <4> QED  BY <3>2, <4>1 DEF LegacyGuests
    <3> QED  BY <3>1, <3>2
  <2> QED  BY <2>1 DEF GuestsInit, GuestOK
<1> QED  BY <1>1, <1>2, <1>3, <1>4, <1>5, <1>6, <1>7, <1>8, RowsByParts

LEMMA RowsStep == RowsInv /\ [AuthNext]_<<nvars, avars, gvars>> => RowsInv'
<1> SUFFICES ASSUME RowsInv, [AuthNext]_<<nvars, avars, gvars>> PROVE RowsInv'
  OBVIOUS
<1>1. CASE UNCHANGED <<avars, gvars>>
  BY <1>1, RowsByParts, RowsStutter DEF avars, gvars
<1>2. CASE AccountsNext /\ UNCHANGED gvars
  BY <1>2, AccountsRows
<1>3. CASE GuestsNext
  BY <1>3, CodesRows, ErasureRows DEF GuestsNext
<1> QED  BY <1>1, <1>2, <1>3 DEF AuthNext

-----------------------------------------------------------------------------
(* Passwords and sessions. *)

\* A login in flight that met no change holds the current password, and no change of its
\* account has selected its sessions yet.
LoginsCurrent ==
    \A q \in Requests : request[q].op = "login" /\ ~request[q].crossed =>
        /\ request[q].password = account[request[q].email].password
        /\ ~Changing(request[q].email)

\* A change that has selected the sessions to revoke has them all, but for overlapping logins.
SelectionComplete ==
    \A q \in Requests : request[q].at = "revoking" =>
        \A s \in Sessions : /\ Live(s) /\ ~session[s].crossed /\ session[s].email = request[q].email
                            => s \in request[q].seen

PasswordsInv == OldPasswordSignedOut /\ LoginsCurrent /\ SelectionComplete

\* Steps that touch no password, open no session, and neither verify nor select.
PasswordsAlone ==
    /\ \A e \in Emails : account'[e].password = account[e].password
    /\ \A s \in Sessions : session'[s] = session[s] \/ session'[s].state # "live"
    /\ \A q \in Requests : \/ request'[q] = request[q]
                           \/ (request'[q].op # "login" /\ request'[q].at # "revoking")

LEMMA PasswordsQuiet ==
    ASSUME RowsInv, PasswordsInv, PasswordsAlone
    PROVE  PasswordsInv'
<1>1. OldPasswordSignedOut'
  BY DEF PasswordsInv, PasswordsAlone, OldPasswordSignedOut, Live, RowsInv, Addressed
<1>2. \A e : Changing(e)' => Changing(e)
  BY DEF PasswordsAlone, Changing
<1>3. LoginsCurrent'
  <2> SUFFICES ASSUME NEW q \in Requests, request'[q].op = "login", ~request'[q].crossed
               PROVE  /\ request'[q].password = account'[request'[q].email].password
                      /\ ~Changing(request[q].email)'
    BY DEF LoginsCurrent
  <2>1. request'[q] = request[q]
    BY DEF PasswordsAlone
  <2>2. /\ request[q].password = account[request[q].email].password
        /\ ~Changing(request[q].email) /\ request[q].email \in Emails
    BY <2>1 DEF PasswordsInv, LoginsCurrent, RowsInv, Addressed, WithEmail
  <2>3. ~Changing(request[q].email)'
    BY <2>1, <2>2 DEF PasswordsAlone, Changing
  <2> QED  BY <2>1, <2>2, <2>3 DEF PasswordsAlone
<1>4. SelectionComplete'
  BY DEF PasswordsInv, PasswordsAlone, SelectionComplete, Live
<1> QED  BY <1>1, <1>3, <1>4 DEF PasswordsInv

LEMMA LoginVerifyKeeps ==
    ASSUME RowsInv, PasswordsInv, NEW q \in Requests, NEW e \in Emails, LoginVerify(q, e)
    PROVE  PasswordsInv'
<1> DEFINE r == [Vacant EXCEPT !.op = "login", !.at = "verified", !.email = e,
                               !.password = account[e].password, !.crossed = Changing(e)]
<1>1. r.op = "login" /\ r.at = "verified" /\ r.email = e /\ r.password = account[e].password
  BY DEF Vacant
<1>2. r.crossed = Changing(e)
  BY DEF Vacant
<1>3. request' = [request EXCEPT ![q] = r] /\ UNCHANGED <<account, session>>
  BY DEF LoginVerify
<1> HIDE DEF r
<1>4. request'[q] = r /\ \A o \in Requests : o # q => request'[o] = request[o]
  BY <1>3 DEF RowsInv, AccountRows
<1>5. \A d : Changing(d)' => Changing(d)
  BY <1>1, <1>4 DEF Changing
<1>6. LoginsCurrent'
  <2> SUFFICES ASSUME NEW o \in Requests, request'[o].op = "login", ~request'[o].crossed
               PROVE  /\ request'[o].password = account'[request'[o].email].password
                      /\ ~Changing(request[o].email)'
    BY DEF LoginsCurrent
  <2>1. CASE o = q
    <3>1. ~Changing(e)
      BY <1>2, <1>4, <2>1
    <3>2. ~Changing(e)'
      BY <1>5, <3>1
    <3> QED  BY <1>1, <1>3, <1>4, <2>1, <3>2 DEF Changing
  <2>2. CASE o # q
    <3>1. request'[o] = request[o] /\ ~Changing(request[o].email)
          /\ request[o].password = account[request[o].email].password
      BY <1>4, <2>2 DEF PasswordsInv, LoginsCurrent
    <3>2. ~Changing(request[o].email)'
      BY <1>1, <1>4, <3>1 DEF Changing
    <3> QED  BY <1>3, <3>1, <3>2
  <2> QED  BY <2>1, <2>2
<1>7. SelectionComplete'
  BY <1>1, <1>3, <1>4 DEF PasswordsInv, SelectionComplete, Live
<1>8. OldPasswordSignedOut'
  BY <1>3 DEF PasswordsInv, OldPasswordSignedOut, Live
<1> QED  BY <1>6, <1>7, <1>8 DEF PasswordsInv

LEMMA LoginCommitKeeps ==
    ASSUME RowsInv, PasswordsInv, NEW q \in Requests, NEW s \in Sessions, LoginCommit(q, s)
    PROVE  PasswordsInv'
<1> DEFINE r == [email |-> request[q].email, state |-> "live", password |-> request[q].password,
                 crossed |-> request[q].crossed]
<1>1. r.email = request[q].email /\ r.password = request[q].password
      /\ r.crossed = request[q].crossed
  OBVIOUS
<1>2. session' = [session EXCEPT ![s] = r] /\ UNCHANGED account
  BY DEF LoginCommit
<1> HIDE DEF r
<1>3. session'[s] = r /\ \A o \in Sessions : o # s => session'[o] = session[o]
  BY <1>2 DEF RowsInv, AccountRows
<1>4. request'[q] = Vacant /\ \A o \in Requests : o # q => request'[o] = request[o]
  BY FinishMoves DEF LoginCommit
<1>5. ~request[q].crossed => /\ request[q].password = account[request[q].email].password
                             /\ ~Changing(request[q].email)
  BY DEF LoginCommit, PasswordsInv, LoginsCurrent
<1>6. OldPasswordSignedOut'
  BY <1>1, <1>2, <1>3, <1>5 DEF PasswordsInv, OldPasswordSignedOut, Live
<1>7. LoginsCurrent'
  <2> SUFFICES ASSUME NEW o \in Requests, request'[o].op = "login", ~request'[o].crossed
               PROVE  /\ request'[o].password = account'[request'[o].email].password
                      /\ ~Changing(request[o].email)'
    BY DEF LoginsCurrent
  <2>1. request'[o] = request[o] /\ ~Changing(request[o].email)
        /\ request[o].password = account[request[o].email].password
    BY <1>4, VacantRow DEF PasswordsInv, LoginsCurrent
  <2>2. ~Changing(request[o].email)'
    BY <1>4, <2>1, VacantRow DEF Changing
  <2> QED  BY <1>2, <2>1, <2>2
<1>8. SelectionComplete'
  <2> SUFFICES ASSUME NEW o \in Requests, request'[o].at = "revoking", NEW t \in Sessions,
                      Live(t)', ~session'[t].crossed, session'[t].email = request'[o].email
               PROVE  t \in request'[o].seen
    BY DEF SelectionComplete
  <2>1. request'[o] = request[o] /\ o # q
    BY <1>4, VacantRow
  <2>2. CASE t # s
    BY <1>3, <2>1, <2>2 DEF PasswordsInv, SelectionComplete, Live
  <2>3. CASE t = s
    <3>1. ~request[q].crossed /\ request[o].email = request[q].email
      BY <1>1, <1>3, <2>1, <2>3
    <3>2. Changing(request[q].email)
      BY <2>1, <3>1 DEF Changing
    <3> QED  BY <1>5, <3>1, <3>2
  <2> QED  BY <2>2, <2>3
<1> QED  BY <1>6, <1>7, <1>8 DEF PasswordsInv

LEMMA SelectSessionsKeeps ==
    ASSUME RowsInv, PasswordsInv, NEW q \in Requests, SelectSessions(q)
    PROVE  PasswordsInv'
<1>0. PICK e : e = request[q].email
  OBVIOUS
<1>1. /\ request[q].op \in {"change", "reset"} /\ UNCHANGED <<account, session>>
      /\ request'[q] = [request[q] EXCEPT !.at = "revoking", !.seen = Revocable(e)]
      /\ \A o \in Requests : o # q =>
           request'[o] = [request[o] EXCEPT !.crossed = @ \/ (request[o].op = "login" /\ request[o].email = e)]
  BY <1>0 DEF SelectSessions
<1>2. /\ request'[q].op = request[q].op /\ request'[q].email = e /\ request'[q].seen = Revocable(e)
  BY <1>0, <1>1 DEF RowsInv, AccountRows, RequestRow
<1>3. ASSUME NEW o \in Requests, o # q
      PROVE  /\ request'[o].op = request[o].op /\ request'[o].email = request[o].email
             /\ request'[o].at = request[o].at /\ request'[o].seen = request[o].seen
             /\ request'[o].password = request[o].password
             /\ ~request'[o].crossed => ~request[o].crossed /\ ~(request[o].op = "login" /\ request[o].email = e)
  <2> DEFINE x == request[o].crossed \/ (request[o].op = "login" /\ request[o].email = e)
  <2>1. request'[o] = [request[o] EXCEPT !.crossed = x] /\ request[o] \in RequestRow
    BY <1>1, <1>3 DEF RowsInv, AccountRows
  <2>2. request'[o].crossed = x
    BY <2>1 DEF RequestRow
  <2>3. /\ request'[o].op = request[o].op /\ request'[o].email = request[o].email
        /\ request'[o].at = request[o].at /\ request'[o].seen = request[o].seen
        /\ request'[o].password = request[o].password
    <3> HIDE DEF x
    <3> QED  BY <2>1 DEF RequestRow
  <2> QED  BY <2>2, <2>3
<1>4. OldPasswordSignedOut'
  BY <1>1 DEF PasswordsInv, OldPasswordSignedOut, Live
<1>5. LoginsCurrent'
  <2> SUFFICES ASSUME NEW o \in Requests, request'[o].op = "login", ~request'[o].crossed
               PROVE  /\ request'[o].password = account'[request'[o].email].password
                      /\ ~Changing(request[o].email)'
    BY DEF LoginsCurrent
  <2>1. o # q
    BY <1>1, <1>2
  <2>2. /\ request[o].op = "login" /\ ~request[o].crossed /\ request[o].email # e
        /\ request'[o].email = request[o].email /\ request'[o].password = request[o].password
    BY <1>3, <2>1
  <2>3. request[o].password = account[request[o].email].password /\ ~Changing(request[o].email)
    BY <2>2 DEF PasswordsInv, LoginsCurrent
  <2>4. ~Changing(request[o].email)'
    BY <1>2, <1>3, <2>2, <2>3 DEF Changing
  <2> QED  BY <1>1, <2>2, <2>3, <2>4
<1>6. SelectionComplete'
  <2> SUFFICES ASSUME NEW o \in Requests, request'[o].at = "revoking", NEW t \in Sessions,
                      Live(t)', ~session'[t].crossed, session'[t].email = request'[o].email
               PROVE  t \in request'[o].seen
    BY DEF SelectionComplete
  <2>1. CASE o = q
    BY <1>1, <1>2, <2>1 DEF Revocable, Live
  <2>2. CASE o # q
    BY <1>1, <1>3, <2>2 DEF PasswordsInv, SelectionComplete, Live
  <2> QED  BY <2>1, <2>2
<1> QED  BY <1>4, <1>5, <1>6 DEF PasswordsInv

LEMMA CommitPasswordKeeps ==
    ASSUME RowsInv, PasswordsInv, NEW q \in Requests, CommitPassword(q)
    PROVE  PasswordsInv'
<1>0. PICK e : e = request[q].email
  OBVIOUS
<1>1. request[q].at = "revoking" /\ Changing(e)
  BY <1>0 DEF CommitPassword, Changing
<1>2. \A d \in Emails : d # e => account'[d].password = account[d].password
  BY <1>0 DEF CommitPassword, RowsInv, AccountRows
<1>3. request'[q] = Vacant /\ \A o \in Requests : o # q => request'[o] = request[o]
  BY FinishMoves DEF CommitPassword
<1>4. \A s \in Sessions : Live(s)' => session'[s] = session[s] /\ s \notin request[q].seen
  BY DEF CommitPassword, Live, RowsInv, AccountRows, SessionRow
<1>5. \A s \in Sessions : Live(s)' /\ ~session'[s].crossed => session[s].email # e /\ session[s].email \in Emails
  BY <1>0, <1>1, <1>4 DEF PasswordsInv, SelectionComplete, Live, RowsInv, Addressed
<1>6. OldPasswordSignedOut'
  BY <1>2, <1>4, <1>5 DEF PasswordsInv, OldPasswordSignedOut, Live
<1>7. LoginsCurrent'
  <2> SUFFICES ASSUME NEW o \in Requests, request'[o].op = "login", ~request'[o].crossed
               PROVE  /\ request'[o].password = account'[request'[o].email].password
                      /\ ~Changing(request[o].email)'
    BY DEF LoginsCurrent
  <2>1. /\ request'[o] = request[o] /\ ~Changing(request[o].email)
        /\ request[o].password = account[request[o].email].password /\ request[o].email \in Emails
    BY <1>3, VacantRow DEF PasswordsInv, LoginsCurrent, RowsInv, Addressed, WithEmail
  <2>2. request[o].email # e
    BY <1>1, <2>1
  <2>3. ~Changing(request[o].email)'
    BY <1>3, <2>1, VacantRow DEF Changing
  <2> QED  BY <1>2, <2>1, <2>2, <2>3
<1>8. SelectionComplete'
  BY <1>3, <1>4, VacantRow DEF PasswordsInv, SelectionComplete, Live
<1> QED  BY <1>6, <1>7, <1>8 DEF PasswordsInv

\* The requests of a step that ends one, or begins one that is no login.
LEMMA RequestsAlone ==
    ASSUME RowsInv, NEW q \in Requests
    PROVE  /\ Finish(q) => \A o \in Requests : request'[o] = request[o] \/ request'[o] = Vacant
           /\ \A r : request' = [request EXCEPT ![q] = r] =>
                       \A o \in Requests : request'[o] = request[o] \/ request'[o] = r
BY DEF Finish, RowsInv, AccountRows

LEMMA PasswordsStep ==
    ASSUME RowsInv, PasswordsInv, [AuthNext]_<<nvars, avars, gvars>>
    PROVE  PasswordsInv'
<1>0. /\ account \in [Emails -> AccountRow] /\ session \in [Sessions -> SessionRow]
      /\ request \in [Requests -> RequestRow]
  BY DEF RowsInv, AccountRows
<1>1. CASE UNCHANGED <<account, session, request>>
  BY <1>1, PasswordsQuiet DEF PasswordsAlone
<1>2. ASSUME NEW q \in Requests, NEW e \in Emails, SignupStart(q, e) PROVE PasswordsInv'
  <2>1. PasswordsAlone
    BY <1>0, <1>2 DEF SignupStart, Vacant, PasswordsAlone
  <2> QED  BY <2>1, PasswordsQuiet
<1>3. ASSUME NEW q \in Requests, NEW t \in Tokens, NEW auto \in AutoApproval, SignupCommit(q, t, auto)
      PROVE  PasswordsInv'
  <2>1. \A e \in Emails : account'[e].password = account[e].password
    BY <1>0, <1>3 DEF SignupCommit, AccountRow
  <2>2. PasswordsAlone
    BY <1>3, <2>1, RequestsAlone, VacantRow DEF SignupCommit, PasswordsAlone
  <2> QED  BY <2>2, PasswordsQuiet
<1>4. ASSUME NEW e \in Emails, NEW t \in Tokens, ResendVerification(e, t) \/ RequestPasswordReset(e, t)
      PROVE  PasswordsInv'
  BY <1>1, <1>4 DEF ResendVerification, RequestPasswordReset
<1>5. ASSUME NEW e \in Emails, NEW t \in Tokens, NEW mark \in BOOLEAN, Approve(e, t, mark) \/ Reject(e)
      PROVE  PasswordsInv'
  <2>1. \A d \in Emails : account'[d].password = account[d].password
    BY <1>0, <1>5 DEF Approve, Reject, AccountRow
  <2>2. PasswordsAlone
    BY <1>5, <2>1 DEF Approve, Reject, PasswordsAlone
  <2> QED  BY <2>2, PasswordsQuiet
<1>6. ASSUME NEW q \in Requests, NEW s \in Sessions, UpdatePasswordLoad(q, s) PROVE PasswordsInv'
  <2>1. PasswordsAlone
    BY <1>0, <1>6 DEF UpdatePasswordLoad, Vacant, PasswordsAlone
  <2> QED  BY <2>1, PasswordsQuiet
<1>7. ASSUME NEW s \in Sessions, Logout(s) PROVE PasswordsInv'
  <2>1. PasswordsAlone
    BY <1>0, <1>7 DEF Logout, SessionRow, PasswordsAlone
  <2> QED  BY <2>1, PasswordsQuiet
<1>8. ASSUME NEW q \in Requests, NEW t \in Tokens, ConsumeLoad(q, t) PROVE PasswordsInv'
  <2>1. token[t].purpose \in {"verify", "reset"}
    BY <1>8 DEF ConsumeLoad, RowsInv, AccountRows, Addressed, TokenRow
  <2>2. PasswordsAlone
    BY <1>0, <1>8, <2>1 DEF ConsumeLoad, Vacant, PasswordsAlone
  <2> QED  BY <2>2, PasswordsQuiet
<1>9. ASSUME NEW q \in Requests, VerifyEmail(q) PROVE PasswordsInv'
  <2>1. \A e \in Emails : account'[e].password = account[e].password
    BY <1>0, <1>9 DEF VerifyEmail, AccountRow
  <2>2. PasswordsAlone
    BY <1>9, <2>1, RequestsAlone, VacantRow DEF VerifyEmail, PasswordsAlone
  <2> QED  BY <2>2, PasswordsQuiet
<1>10. ASSUME NEW q \in Requests, Abandon(q) PROVE PasswordsInv'
  <2>1. PasswordsAlone
    BY <1>10, RequestsAlone, VacantRow DEF Abandon, PasswordsAlone
  <2> QED  BY <2>1, PasswordsQuiet
<1>11. CASE AccountsNext
  <2>1. ASSUME NEW t \in Tokens, TokenExpires(t) PROVE PasswordsInv'
    BY <1>1, <2>1 DEF TokenExpires
  <2>2. ASSUME NEW e \in Emails, Reject(e) PROVE PasswordsInv'
    <3>1. \A d \in Emails : account'[d].password = account[d].password
      BY <1>0, <2>2 DEF Reject, AccountRow
    <3> QED  BY <2>2, <3>1, PasswordsQuiet DEF Reject, PasswordsAlone
  <2> QED  BY <1>2, <1>3, <1>4, <1>5, <1>6, <1>7, <1>8, <1>9, <1>10, <1>11, <2>1, <2>2,
              LoginVerifyKeeps, LoginCommitKeeps, SelectSessionsKeeps, CommitPasswordKeeps
           DEF AccountsNext
<1>12. CASE GuestsNext
  <2>1. ASSUME NEW q \in Requests, NEW c \in Codes, RedeemLoad(q, c) PROVE PasswordsInv'
    <3>1. PasswordsAlone
      BY <1>0, <2>1 DEF RedeemLoad, Vacant, PasswordsAlone
    <3> QED  BY <3>1, PasswordsQuiet
  <2>2. ASSUME NEW q \in Requests, RedeemLock(q) PROVE PasswordsInv'
    <3>1. PasswordsAlone
      BY <1>0, <2>2 DEF RedeemLock, RequestRow, PasswordsAlone
    <3> QED  BY <3>1, PasswordsQuiet
  <2>3. ASSUME NEW q \in Requests, NEW g \in Guests, RedeemCommit(q, g) PROVE PasswordsInv'
    <3>1. PasswordsAlone
      BY <2>3, RequestsAlone, VacantRow DEF RedeemCommit, PasswordsAlone
    <3> QED  BY <3>1, PasswordsQuiet
  <2>4. ASSUME NEW q \in Requests, NEW g \in Guests, GuestRequest(q, g) PROVE PasswordsInv'
    <3>1. PasswordsAlone
      BY <1>0, <2>4 DEF GuestRequest, Vacant, PasswordsAlone
    <3> QED  BY <3>1, PasswordsQuiet
  <2>5. ASSUME NEW q \in Requests, NEW hold, GuestWrites(q, hold) PROVE PasswordsInv'
    <3>1. PasswordsAlone
      BY <2>5, RequestsAlone, VacantRow DEF GuestWrites, PasswordsAlone
    <3> QED  BY <3>1, PasswordsQuiet
  <2>6. CASE UNCHANGED avars
    BY <1>1, <2>6 DEF avars
  <2>7. CodesNext \/ ErasureNext
    BY <1>12 DEF GuestsNext
  <2>8. CASE CodesNext
    <3>1. \A e, c, g : Backfill \/ Issue(e, c) \/ ResetTrial(e) \/ CooldownEnds(e) \/ CodeExpires(c)
                       \/ TrialEnds(g) \/ WorkEnds(g) => UNCHANGED avars
      BY DEF Backfill, Issue, ResetTrial, CooldownEnds, CodeExpires, TrialEnds, WorkEnds
    <3> QED  BY <2>1, <2>2, <2>3, <2>4, <2>5, <2>6, <2>8, <3>1 DEF CodesNext
  <2>9. CASE ErasureNext
    BY <2>6, <2>9 DEF ErasureNext, SweepPage, DeferGuest, EraseGuest
  <2> QED  BY <2>7, <2>8, <2>9
<1>13. CASE UNCHANGED avars
  BY <1>1, <1>13 DEF avars
<1> QED  BY <1>11, <1>12, <1>13 DEF AuthNext

-----------------------------------------------------------------------------
(* The lock of an identity. *)

\* A signup holds the identity of its address from its start to its commit, a redemption from
\* the check that nobody is registered under it.
LocksInv ==
    \A q \in Requests :
        /\ request[q].op = "signup" => holder[request[q].email] = q
        /\ request[q].op = "redeem" /\ request[q].at = "locked" =>
             holder[request[q].email] = q /\ ~Registered(request[q].email)

\* Steps that take and free no identity and register nobody.
LocksAlone ==
    /\ UNCHANGED holder
    /\ \A e \in Emails : Registered(e)' => Registered(e)
    /\ \A q \in Requests : \/ /\ request'[q].op = request[q].op /\ request'[q].at = request[q].at
                              /\ request'[q].email = request[q].email
                           \/ (request'[q].op # "signup" /\ request'[q].at # "locked")

LEMMA LocksQuiet ==
    ASSUME RowsInv, LocksInv, LocksAlone
    PROVE  LocksInv'
<1> SUFFICES ASSUME NEW q \in Requests
             PROVE  /\ request'[q].op = "signup" => holder'[request'[q].email] = q
                    /\ request'[q].op = "redeem" /\ request'[q].at = "locked" =>
                         holder'[request'[q].email] = q /\ ~Registered(request[q].email)'
  BY DEF LocksInv
<1>1. CASE request'[q].op # "signup" /\ request'[q].at # "locked"
  BY <1>1
<1>2. CASE /\ request'[q].op = request[q].op /\ request'[q].at = request[q].at
           /\ request'[q].email = request[q].email
  <2>1. request[q].op \in {"signup", "redeem"} => request[q].email \in Emails
    BY DEF RowsInv, Addressed, WithEmail
  <2>2. ASSUME request[q].op = "redeem", request[q].at = "locked" PROVE ~Registered(request[q].email)'
    <3>1. ~Registered(request[q].email) /\ request[q].email \in Emails
      BY <2>1, <2>2 DEF LocksInv
    <3> QED  BY <1>2, <3>1 DEF LocksAlone, Registered
  <2> QED  BY <1>2, <2>2 DEF LocksInv, LocksAlone
<1> QED  BY <1>1, <1>2 DEF LocksAlone

\* An identity is taken by q, which begins or goes on with row r.
LEMMA LockTaken ==
    ASSUME RowsInv, LocksInv, NEW q \in Requests, NEW e \in Emails, NEW r \in RequestRow,
           request' = [request EXCEPT ![q] = r], holder[e] = None, holder' = [holder EXCEPT ![e] = q],
           UNCHANGED account, r.email = e, ~Registered(e)
    PROVE  LocksInv'
<1>1. request'[q] = r /\ \A o \in Requests : o # q => request'[o] = request[o]
  BY DEF RowsInv, AccountRows
<1>2. holder'[e] = q /\ \A d \in Emails : d # e => holder'[d] = holder[d]
  BY DEF RowsInv, AccountRows
<1> SUFFICES ASSUME NEW o \in Requests
             PROVE  /\ request'[o].op = "signup" => holder'[request'[o].email] = o
                    /\ request'[o].op = "redeem" /\ request'[o].at = "locked" =>
                         holder'[request'[o].email] = o /\ ~Registered(request[o].email)'
  BY DEF LocksInv
<1>3. CASE o = q
  BY <1>1, <1>2, <1>3 DEF Registered
<1>4. CASE o # q
  <2>1. request'[o] = request[o] /\ (request[o].op \in {"signup", "redeem"} => request[o].email \in Emails)
    BY <1>1, <1>4 DEF RowsInv, Addressed, WithEmail
  <2>2. o # None
    BY AccountsAssumption
  <2> QED  BY <1>2, <2>1, <2>2 DEF LocksInv, Registered
<1> QED  BY <1>3, <1>4

\* A request ends and frees what it held.
LEMMA LockFreed ==
    ASSUME RowsInv, LocksInv, NEW q \in Requests, Finish(q),
           \A d \in Emails : holder[d] # q => holder'[d] = holder[d],
           \A d \in Emails : Registered(d)' /\ ~Registered(d) => holder[d] = q
    PROVE  LocksInv'
<1>1. request'[q] = Vacant /\ \A o \in Requests : o # q => request'[o] = request[o]
  BY FinishMoves
<1> SUFFICES ASSUME NEW o \in Requests
             PROVE  /\ request'[o].op = "signup" => holder'[request'[o].email] = o
                    /\ request'[o].op = "redeem" /\ request'[o].at = "locked" =>
                         holder'[request'[o].email] = o /\ ~Registered(request[o].email)'
  BY DEF LocksInv
<1>2. CASE o = q
  BY <1>1, <1>2, VacantRow
<1>3. CASE o # q
  <2>1. request'[o] = request[o] /\ (request[o].op \in {"signup", "redeem"} => request[o].email \in Emails)
    BY <1>1, <1>3 DEF RowsInv, Addressed, WithEmail
  <2>2. ASSUME request[o].op = "redeem", request[o].at = "locked"
        PROVE  holder'[request[o].email] = o /\ ~Registered(request[o].email)'
    <3>1. holder[request[o].email] = o /\ ~Registered(request[o].email) /\ request[o].email \in Emails
      BY <2>1, <2>2 DEF LocksInv
    <3> QED  BY <1>3, <2>1, <3>1 DEF Registered
  <2>3. request[o].op = "signup" => holder'[request[o].email] = o
    BY <1>3, <2>1 DEF LocksInv
  <2> QED  BY <2>1, <2>2, <2>3
<1> QED  BY <1>2, <1>3

LEMMA LocksStep ==
    ASSUME RowsInv, LocksInv, [AuthNext]_<<nvars, avars, gvars>>
    PROVE  LocksInv'
<1>0. /\ account \in [Emails -> AccountRow] /\ request \in [Requests -> RequestRow]
      /\ holder \in [Emails -> Requests \cup {None}]
  BY DEF RowsInv, AccountRows
<1>1. CASE UNCHANGED <<account, request, holder>>
  BY <1>1, LocksQuiet DEF LocksAlone, Registered
<1>2. ASSUME NEW q \in Requests, NEW e \in Emails, SignupStart(q, e) PROVE LocksInv'
  <2> DEFINE r == [Vacant EXCEPT !.op = "signup", !.at = "hashing", !.email = e]
  <2>1. r \in RequestRow /\ r.email = e
    BY DEF Vacant, RequestRow
  <2>2. request' = [request EXCEPT ![q] = r]
    BY <1>2 DEF SignupStart
  <2> HIDE DEF r
  <2> QED  BY <1>2, <2>1, <2>2, LockTaken DEF SignupStart, LockSignupIdentity
<1>3. ASSUME NEW q \in Requests, NEW t \in Tokens, NEW auto \in AutoApproval, SignupCommit(q, t, auto)
      PROVE  LocksInv'
  <2>0. PICK e \in Emails : e = request[q].email
    BY <1>3 DEF SignupCommit, RowsInv, Addressed, WithEmail
  <2>1. holder[e] = q
    BY <1>3, <2>0 DEF SignupCommit, LocksInv
  <2>2. \A d \in Emails : d # e => holder'[d] = holder[d] /\ (Registered(d)' => Registered(d))
    BY <1>0, <1>3, <2>0 DEF SignupCommit, Registered
  <2> QED  BY <1>3, <2>1, <2>2, LockFreed DEF SignupCommit
<1>4. ASSUME NEW e \in Emails, NEW t \in Tokens, NEW mark \in BOOLEAN, Approve(e, t, mark) PROVE LocksInv'
  <2>1. \A d \in Emails : Registered(d)' => Registered(d)
    BY <1>0, <1>4 DEF Approve, Registered, AccountRow
  <2> QED  BY <1>4, <2>1, LocksQuiet DEF Approve, LocksAlone
<1>5. ASSUME NEW e \in Emails, Reject(e) PROVE LocksInv'
  <2>1. \A d \in Emails : Registered(d)' => Registered(d)
    BY <1>0, <1>5 DEF Reject, Registered, AccountRow
  <2> QED  BY <1>5, <2>1, LocksQuiet DEF Reject, LocksAlone
<1>6. ASSUME NEW q \in Requests, NEW e \in Emails, LoginVerify(q, e) PROVE LocksInv'
  <2> DEFINE x == Changing(e)
  <2>1. request' = [request EXCEPT ![q] = [Vacant EXCEPT !.op = "login", !.at = "verified", !.email = e,
                                             !.password = account[e].password, !.crossed = x]]
    BY <1>6 DEF LoginVerify
  <2> HIDE DEF x
  <2>2. LocksAlone
    BY <1>0, <1>6, <2>1 DEF LoginVerify, Vacant, LocksAlone, Registered
  <2> QED  BY <2>2, LocksQuiet
<1>7. ASSUME NEW q \in Requests, NEW s \in Sessions, LoginCommit(q, s) PROVE LocksInv'
  <2>1. LocksAlone
    BY <1>7, RequestsAlone, VacantRow DEF LoginCommit, LocksAlone, Registered
  <2> QED  BY <2>1, LocksQuiet
<1>8. ASSUME NEW q \in Requests, NEW s \in Sessions, UpdatePasswordLoad(q, s) PROVE LocksInv'
  <2>1. LocksAlone
    BY <1>0, <1>8 DEF UpdatePasswordLoad, Vacant, LocksAlone, Registered
  <2> QED  BY <2>1, LocksQuiet
<1>9. ASSUME NEW q \in Requests, NEW t \in Tokens, ConsumeLoad(q, t) PROVE LocksInv'
  <2>1. token[t].purpose \in {"verify", "reset"}
    BY <1>9 DEF ConsumeLoad, RowsInv, AccountRows, Addressed, TokenRow
  <2>2. LocksAlone
    BY <1>0, <1>9, <2>1 DEF ConsumeLoad, Vacant, LocksAlone, Registered
  <2> QED  BY <2>2, LocksQuiet
<1>10. ASSUME NEW q \in Requests, VerifyEmail(q) PROVE LocksInv'
  <2>1. \A d \in Emails : Registered(d)' => Registered(d)
    BY <1>0, <1>10 DEF VerifyEmail, Registered, AccountRow
  <2>2. LocksAlone
    BY <1>10, <2>1, RequestsAlone, VacantRow DEF VerifyEmail, LocksAlone
  <2> QED  BY <2>2, LocksQuiet
<1>11. ASSUME NEW q \in Requests, SelectSessions(q) PROVE LocksInv'
  <2>1. ASSUME NEW o \in Requests
        PROVE  \/ /\ request'[o].op = request[o].op /\ request'[o].at = request[o].at
                  /\ request'[o].email = request[o].email
               \/ (request'[o].op # "signup" /\ request'[o].at # "locked")
    <3>1. CASE o = q
      BY <1>0, <1>11, <3>1 DEF SelectSessions, RequestRow
    <3>2. CASE o # q
      <4> DEFINE x == request[o].crossed \/ (request[o].op = "login" /\ request[o].email = request[q].email)
      <4>1. request'[o] = [request[o] EXCEPT !.crossed = x]
        BY <1>11, <3>2 DEF SelectSessions
      <4> HIDE DEF x
      <4> QED  BY <1>0, <4>1 DEF RequestRow
    <3> QED  BY <3>1, <3>2
  <2>2. LocksAlone
    BY <1>11, <2>1 DEF SelectSessions, LocksAlone, Registered
  <2> QED  BY <2>2, LocksQuiet
<1>12. ASSUME NEW q \in Requests, CommitPassword(q) PROVE LocksInv'
  <2>1. \A d \in Emails : Registered(d)' => Registered(d)
    BY <1>0, <1>12 DEF CommitPassword, Registered, AccountRow
  <2>2. LocksAlone
    BY <1>12, <2>1, RequestsAlone, VacantRow DEF CommitPassword, LocksAlone
  <2> QED  BY <2>2, LocksQuiet
<1>13. ASSUME NEW q \in Requests, Abandon(q) PROVE LocksInv'
  BY <1>13, LockFreed DEF Abandon, Registered
<1>14. CASE AccountsNext
  <2>1. ASSUME NEW t \in Tokens, TokenExpires(t) PROVE LocksInv'
    BY <1>1, <2>1 DEF TokenExpires
  <2>2. ASSUME NEW e \in Emails, NEW t \in Tokens, ResendVerification(e, t) \/ RequestPasswordReset(e, t)
        PROVE  LocksInv'
    BY <1>1, <2>2 DEF ResendVerification, RequestPasswordReset
  <2>3. ASSUME NEW s \in Sessions, Logout(s) PROVE LocksInv'
    BY <1>1, <2>3 DEF Logout
  <2> QED  BY <1>2, <1>3, <1>4, <1>5, <1>6, <1>7, <1>8, <1>9, <1>10, <1>11, <1>12, <1>13, <1>14,
              <2>1, <2>2, <2>3 DEF AccountsNext
<1>15. CASE GuestsNext
  <2>1. ASSUME NEW q \in Requests, NEW c \in Codes, RedeemLoad(q, c) PROVE LocksInv'
    <3>1. LocksAlone
      BY <1>0, <2>1 DEF RedeemLoad, Vacant, LocksAlone, Registered
    <3> QED  BY <3>1, LocksQuiet
  <2>2. ASSUME NEW q \in Requests, RedeemLock(q) PROVE LocksInv'
    <3> DEFINE r == [request[q] EXCEPT !.at = "locked"]
    <3>0. request[q].email \in Emails /\ request[q] \in RequestRow
      BY <2>2 DEF RedeemLock, RowsInv, AccountRows, Addressed, WithEmail
    <3>1. r \in RequestRow /\ r.email = request[q].email
      BY <3>0 DEF RequestRow
    <3>2. request' = [request EXCEPT ![q] = r]
      BY <2>2 DEF RedeemLock
    <3>3. ~Registered(request[q].email)
      BY <2>2 DEF RedeemLock, Eligibility
    <3> HIDE DEF r
    <3> QED  BY <2>2, <3>0, <3>1, <3>2, <3>3, LockTaken DEF RedeemLock
  <2>3. ASSUME NEW q \in Requests, NEW g \in Guests, RedeemCommit(q, g) PROVE LocksInv'
    <3>0. PICK e \in Emails : e = request[q].email
      BY <2>3 DEF RedeemCommit, RowsInv, Addressed, WithEmail
    <3>1. holder[e] = q
      BY <2>3, <3>0 DEF RedeemCommit, LocksInv
    <3>2. \A d \in Emails : d # e => holder'[d] = holder[d]
      BY <1>0, <2>3, <3>0 DEF RedeemCommit
    <3>3. \A d \in Emails : Registered(d)' => Registered(d)
      BY <2>3 DEF RedeemCommit, Registered
    <3> QED  BY <2>3, <3>1, <3>2, <3>3, LockFreed DEF RedeemCommit
  <2>4. ASSUME NEW q \in Requests, NEW g \in Guests, GuestRequest(q, g) PROVE LocksInv'
    <3>1. LocksAlone
      BY <1>0, <2>4 DEF GuestRequest, Vacant, LocksAlone, Registered
    <3> QED  BY <3>1, LocksQuiet
  <2>5. ASSUME NEW q \in Requests, NEW hold, GuestWrites(q, hold) PROVE LocksInv'
    <3>1. LocksAlone
      BY <2>5, RequestsAlone, VacantRow DEF GuestWrites, LocksAlone, Registered
    <3> QED  BY <3>1, LocksQuiet
  <2>6. CASE UNCHANGED avars
    BY <1>1, <2>6 DEF avars
  <2>7. CodesNext \/ ErasureNext
    BY <1>15 DEF GuestsNext
  <2>8. CASE CodesNext
    <3>1. \A e, c, g : Backfill \/ Issue(e, c) \/ ResetTrial(e) \/ CooldownEnds(e) \/ CodeExpires(c)
                       \/ TrialEnds(g) \/ WorkEnds(g) => UNCHANGED avars
      BY DEF Backfill, Issue, ResetTrial, CooldownEnds, CodeExpires, TrialEnds, WorkEnds
    <3> QED  BY <2>1, <2>2, <2>3, <2>4, <2>5, <2>6, <2>8, <3>1 DEF CodesNext
  <2>9. CASE ErasureNext
    BY <2>6, <2>9 DEF ErasureNext, SweepPage, DeferGuest, EraseGuest
  <2> QED  BY <2>7, <2>8, <2>9
<1>16. CASE UNCHANGED avars
  BY <1>1, <1>16 DEF avars
<1> QED  BY <1>14, <1>15, <1>16 DEF AuthNext

-----------------------------------------------------------------------------
(* Accounts, guests and their alerts. *)

\* An account that does not exist yet has no alert: queueing one meets no older row.
LinksInv ==
    /\ \A e \in Emails : ~Registered(e) => notice[e].state = "none"
    /\ \A g \in Guests : guest[g].state = "none" => notice[g].state = "none"

\* Steps that register nobody and begin no trial.
LinksAlone ==
    /\ \A e \in Emails : Registered(e) => Registered(e)'
    /\ \A g \in Guests : guest'[g].state = "none" => guest[g].state = "none"
    /\ \A v \in Accounts : notice[v].state = "none" => notice'[v].state = "none"

LEMMA LinksQuiet ==
    ASSUME LinksInv, LinksAlone
    PROVE  LinksInv'
<1>1. \A e \in Emails : (~Registered(e) => notice[e].state = "none")'
  BY AccountsAssumption DEF LinksInv, LinksAlone
<1>2. \A g \in Guests : guest'[g].state = "none" => notice'[g].state = "none"
  BY GuestsAssumption DEF LinksInv, LinksAlone
<1> QED  BY <1>1, <1>2 DEF LinksInv

LEMMA NotifyStutter == NotifyInv /\ UNCHANGED nvars => NotifyInv'
<1> SUFFICES ASSUME NotifyInv, UNCHANGED nvars PROVE NotifyInv'
  OBVIOUS
<1>1. \A u : Claiming(u)' = Claiming(u)
  BY DEF Claiming, nvars
<1> QED  BY <1>1 DEF NotifyInv, NotifyRows, SoundNotice, SoundSender, MailsAccounted, nvars

AlertsInv == NotifyInv /\ LinksInv

LEMMA AlertsQuiet ==
    ASSUME AlertsInv, UNCHANGED nvars,
           \A e \in Emails : Registered(e) => Registered(e)',
           \A g \in Guests : guest'[g].state = "none" => guest[g].state = "none"
    PROVE  AlertsInv'
<1>1. LinksAlone
  BY DEF LinksAlone, nvars
<1> QED  BY <1>1, LinksQuiet, NotifyStutter DEF AlertsInv

LEMMA SignupAlerts ==
    ASSUME RowsInv, AlertsInv, NEW q \in Requests, NEW t \in Tokens, NEW auto \in AutoApproval,
           SignupCommit(q, t, auto), UNCHANGED gvars
    PROVE  AlertsInv'
<1>0. PICK e \in Emails : e = request[q].email
  BY DEF SignupCommit, RowsInv, Addressed, WithEmail
<1>1. e \in Accounts /\ e \notin Guests /\ notice[e].state = "none"
  BY <1>0, AccountsAssumption, GuestsAssumption DEF SignupCommit, AlertsInv, LinksInv
<1>2. NotifyInv' /\ \A v \in Accounts : v # e => notice'[v] = notice[v]
  BY <1>0, <1>1, EnqueueKeeps DEF SignupCommit, AlertsInv
<1>3. Registered(e)' /\ \A d \in Emails : d # e => (Registered(d) <=> Registered(d)')
  BY <1>0 DEF SignupCommit, Registered, RowsInv, AccountRows, AccountRow
<1>4. \A d \in Emails : (~Registered(d) => notice[d].state = "none")'
  BY <1>2, <1>3, AccountsAssumption DEF AlertsInv, LinksInv
<1>5. (\A g \in Guests : guest[g].state = "none" => notice[g].state = "none")'
  BY <1>1, <1>2, GuestsAssumption DEF AlertsInv, LinksInv, gvars
<1> QED  BY <1>2, <1>4, <1>5 DEF AlertsInv, LinksInv

LEMMA RedeemAlerts ==
    ASSUME RowsInv, AlertsInv, NEW q \in Requests, NEW g \in Guests, RedeemCommit(q, g)
    PROVE  AlertsInv'
<1>0. UNCHANGED <<account, sender, mails, doubts, faults>> /\ guest \in [Guests -> GuestRow]
      /\ g \in Accounts /\ g \notin Emails
  BY GuestsAssumption DEF RedeemCommit, RowsInv, GuestRows
<1>1. CASE trial[request[q].email].user = None
  <2>1. notice[g].state = "none" /\ EnqueueRegistration(g)
    BY <1>1 DEF RedeemCommit, RedeemedBy, AlertsInv, LinksInv
  <2>2. NotifyInv' /\ \A v \in Accounts : v # g => notice'[v] = notice[v]
    BY <1>0, <2>1, EnqueueKeeps DEF AlertsInv
  <2>3. guest'[g].state = "active" /\ \A h \in Guests : h # g => guest'[h] = guest[h]
    BY <1>0, <1>1 DEF RedeemCommit, NoGuest
  <2>4. \A d \in Emails : (~Registered(d) => notice[d].state = "none")'
    BY <1>0, <2>2, AccountsAssumption DEF AlertsInv, LinksInv, Registered
  <2>5. (\A h \in Guests : guest[h].state = "none" => notice[h].state = "none")'
    BY <2>2, <2>3, GuestsAssumption DEF AlertsInv, LinksInv
  <2> QED  BY <2>2, <2>4, <2>5 DEF AlertsInv, LinksInv
<1>2. CASE trial[request[q].email].user # None
  <2> DEFINE x == Active(g)
  <2>1. guest' = [guest EXCEPT ![g].signedIn = x] /\ UNCHANGED notice
    BY <1>2 DEF RedeemCommit
  <2> HIDE DEF x
  <2>2. \A h \in Guests : guest'[h].state = guest[h].state
    BY <1>0, <2>1 DEF GuestRow
  <2> QED  BY <1>0, <2>1, <2>2, AlertsQuiet DEF Registered, nvars
<1> QED  BY <1>1, <1>2

\* Nothing makes an account or a guest that exists unknown again.
LEMMA AccountsStay ==
    ASSUME RowsInv, AccountsNext
    PROVE  /\ \A e \in Emails : Registered(e) => Registered(e)'
           /\ \/ UNCHANGED nvars
              \/ \E q \in Requests, t \in Tokens, auto \in AutoApproval : SignupCommit(q, t, auto)
<1>0. account \in [Emails -> AccountRow]
  BY DEF RowsInv, AccountRows
<1>1. ASSUME NEW q \in Requests, NEW t \in Tokens, NEW auto \in AutoApproval, SignupCommit(q, t, auto)
      PROVE  \A e \in Emails : Registered(e) => Registered(e)'
  BY <1>0, <1>1 DEF SignupCommit, Registered, AccountRow
<1>2. ASSUME NEW e \in Emails, NEW t \in Tokens, NEW mark \in BOOLEAN, Approve(e, t, mark)
      PROVE  UNCHANGED nvars /\ \A d \in Emails : Registered(d) => Registered(d)'
  BY <1>0, <1>2 DEF Approve, Registered, AccountRow
<1>3. ASSUME NEW e \in Emails, Reject(e)
      PROVE  UNCHANGED nvars /\ \A d \in Emails : Registered(d) => Registered(d)'
  BY <1>0, <1>3 DEF Reject, Registered, AccountRow
<1>4. ASSUME NEW q \in Requests, VerifyEmail(q)
      PROVE  UNCHANGED nvars /\ \A d \in Emails : Registered(d) => Registered(d)'
  BY <1>0, <1>4 DEF VerifyEmail, Registered, AccountRow
<1>5. ASSUME NEW q \in Requests, CommitPassword(q)
      PROVE  UNCHANGED nvars /\ \A d \in Emails : Registered(d) => Registered(d)'
  BY <1>0, <1>5 DEF CommitPassword, Registered, AccountRow
<1>6. CASE UNCHANGED <<account, nvars>>
  BY <1>6 DEF Registered
<1>7. \A q, e, t, s : \/ SignupStart(q, e) \/ LoginVerify(q, e) \/ ResendVerification(e, t)
                      \/ RequestPasswordReset(e, t) \/ LoginCommit(q, s) \/ UpdatePasswordLoad(q, s)
                      \/ Logout(s) \/ TokenExpires(t) \/ ConsumeLoad(q, t) \/ SelectSessions(q)
                      \/ Abandon(q)
                      => UNCHANGED <<account, nvars>>
  BY DEF SignupStart, LoginVerify, ResendVerification, RequestPasswordReset, LoginCommit,
         UpdatePasswordLoad, Logout, TokenExpires, ConsumeLoad, SelectSessions, Abandon
<1> QED  BY <1>1, <1>2, <1>3, <1>4, <1>5, <1>6, <1>7 DEF AccountsNext

\* A guest that existed stays one, and only a redemption makes a new one.
LEMMA GuestsStay ==
    ASSUME RowsInv, GuestsNext
    PROVE  \/ \E q \in Requests, g \in Guests : RedeemCommit(q, g)
           \/ /\ UNCHANGED <<account, nvars>>
              /\ \A g \in Guests : guest'[g].state = "none" <=> guest[g].state = "none"
<1>0. guest \in [Guests -> GuestRow]
  BY DEF RowsInv, GuestRows
<1>a. \A r \in GuestRow : ExpiredGuest(r).state = "none" <=> r.state = "none"
  BY DEF ExpiredGuest, GuestRow
<1> DEFINE Stay == /\ UNCHANGED <<account, nvars>>
                   /\ \A g \in Guests : guest'[g].state = "none" <=> guest[g].state = "none"
<1>1. ASSUME Backfill PROVE Stay
  <2>1. \A g \in Guests : guest'[g] = guest[g] \/ guest'[g] = ExpiredGuest(guest[g])
    BY <1>1 DEF Backfill
  <2> QED  BY <1>0, <1>1, <1>a, <2>1 DEF Backfill, avars
<1>2. ASSUME NEW e \in Emails, ResetTrial(e) PROVE Stay
  <2>1. \A g \in Guests : guest'[g] = guest[g] \/ guest'[g] = ExpiredGuest(guest[g])
    BY <1>2 DEF ResetTrial
  <2> QED  BY <1>0, <1>2, <1>a, <2>1 DEF ResetTrial, avars
<1>3. ASSUME NEW g \in Guests, TrialEnds(g) PROVE Stay
  <2>1. \A h \in Guests : guest'[h] = guest[h] \/ guest'[h] = ExpiredGuest(guest[h])
    BY <1>0, <1>3 DEF TrialEnds
  <2> QED  BY <1>0, <1>3, <1>a, <2>1 DEF TrialEnds, avars
<1>4. ASSUME NEW g \in Guests, WorkEnds(g) PROVE Stay
  BY <1>0, <1>4 DEF WorkEnds, avars, GuestRow
<1>5. ASSUME NEW g \in Guests, EraseGuest(g) PROVE Stay
  BY <1>0, <1>5 DEF EraseGuest, avars, GuestRow, Overdue
<1>6. ASSUME NEW q \in Requests, NEW hold, GuestWrites(q, hold) PROVE Stay
  <2> DEFINE g == request[q].key
             h == IF guest[g].hold = "none" THEN hold ELSE guest[g].hold
             n == guest[g].content + 1
  <2>1. guest' = [guest EXCEPT ![g].content = n, ![g].hold = h]
    BY <1>6 DEF GuestWrites
  <2> HIDE DEF g, h, n
  <2>2. \A k \in Guests : guest'[k].state = guest[k].state
    BY <1>0, <2>1 DEF GuestRow
  <2> QED  BY <1>6, <2>2 DEF GuestWrites
<1>7. CASE UNCHANGED <<account, nvars, guest>>
  BY <1>7
<1>8. \A q, e, c, g : \/ Issue(e, c) \/ RedeemLoad(q, c) \/ RedeemLock(q) \/ GuestRequest(q, g)
                      \/ CooldownEnds(e) \/ CodeExpires(c) \/ SweepPage \/ DeferGuest(g)
                      => UNCHANGED <<account, nvars, guest>>
  BY DEF Issue, RedeemLoad, RedeemLock, GuestRequest, CooldownEnds, CodeExpires, SweepPage, DeferGuest,
         avars, gvars
<1>9. CASE CodesNext
  <2>1. CASE \E q \in Requests, g \in Guests : RedeemCommit(q, g)
    BY <2>1
  <2>2. CASE ~\E q \in Requests, g \in Guests : RedeemCommit(q, g)
    <3>1. Stay
      BY <1>1, <1>2, <1>3, <1>4, <1>6, <1>7, <1>8, <1>9, <2>2 DEF CodesNext
    <3> QED  BY <3>1
  <2> QED  BY <2>1, <2>2
<1>10. CASE ErasureNext
  <2>1. Stay
    BY <1>5, <1>7, <1>8, <1>10 DEF ErasureNext
  <2> QED  BY <2>1
<1> QED  BY <1>9, <1>10 DEF GuestsNext

LEMMA AlertsStep ==
    ASSUME RowsInv, AlertsInv, [AuthNext]_<<nvars, avars, gvars>>
    PROVE  AlertsInv'
<1>1. CASE AccountsNext /\ UNCHANGED gvars
  <2>1. CASE UNCHANGED nvars
    BY <1>1, <2>1, AccountsStay, AlertsQuiet DEF gvars
  <2>2. CASE \E q \in Requests, t \in Tokens, auto \in AutoApproval : SignupCommit(q, t, auto)
    BY <1>1, <2>2, SignupAlerts
  <2> QED  BY <1>1, <2>1, <2>2, AccountsStay
<1>2. CASE GuestsNext
  <2>1. CASE \E q \in Requests, g \in Guests : RedeemCommit(q, g)
    BY <2>1, RedeemAlerts
  <2>2. CASE /\ UNCHANGED <<account, nvars>>
             /\ \A g \in Guests : guest'[g].state = "none" <=> guest[g].state = "none"
    BY <2>2, AlertsQuiet DEF Registered
  <2> QED  BY <1>2, <2>1, <2>2, GuestsStay
<1>3. CASE Deliver /\ UNCHANGED <<avars, gvars>>
  <2>1. NotifyInv' /\ \A v \in Accounts : notice[v].state = "none" => notice'[v] = notice[v]
    BY <1>3, DeliverKeeps DEF AlertsInv
  <2>2. LinksAlone
    BY <1>3, <2>1 DEF LinksAlone, avars, gvars, Registered
  <2> QED  BY <2>1, <2>2, LinksQuiet DEF AlertsInv
<1>4. CASE UNCHANGED <<nvars, avars, gvars>>
  BY <1>4, AlertsQuiet DEF avars, gvars, Registered
<1> QED  BY <1>1, <1>2, <1>3, <1>4 DEF AuthNext

LEMMA NotifyInitially == NotifyInit => NotifyInv
<1> SUFFICES ASSUME NotifyInit PROVE NotifyInv
  OBVIOUS
<1>1. NotifyRows
  BY NotifyAssumption, RestingRow DEF NotifyInit, NotifyRows, NoNotice, NoticeRow
<1>2. \A u \in Accounts : Claiming(u) = {}
  BY RestingRow DEF NotifyInit, Claiming
<1>3. \A u \in Accounts : SoundNotice(u)
  <2> SUFFICES ASSUME NEW u \in Accounts PROVE SoundNotice(u)
    OBVIOUS
  <2>1. Cardinality(Claiming(u)) = 0
    BY <1>2, FS_EmptySet
  <2>2. notice[u] = NoNotice /\ mails[u] = 0 /\ doubts[u] = 0 /\ Allowed(NoNotice) = 0
    BY DEF NotifyInit, NoNotice, Allowed
  <2> QED  BY <2>1, <2>2 DEF SoundNotice, MailsAccounted, NoNotice
<1> QED  BY <1>1, <1>3 DEF NotifyInv, NotifyInit, SoundSender

-----------------------------------------------------------------------------

\* What no step of accounts, guests and alerts undoes.
AuthInv == RowsInv /\ PasswordsInv /\ LocksInv /\ AlertsInv

\* Rows keep their types, passwords and sessions agree, identities are locked by one request
\* at a time, and every mail is accounted for, at every state of accounts, guests and alerts.
THEOREM AuthInvariance == AuthSpec => []AuthInv
<1>1. NotifyInit /\ AccountsInit /\ GuestsInit => AuthInv
  <2> SUFFICES ASSUME NotifyInit, AccountsInit, GuestsInit PROVE AuthInv
    OBVIOUS
  <2>1. \A s \in Sessions : session[s].state # "live"
    BY DEF AccountsInit, NoSession
  <2>2. \A q \in Requests : request[q].op = "idle" /\ request[q].at = "idle"
    BY VacantRow DEF AccountsInit
  <2>3. PasswordsInv /\ LocksInv
    BY <2>1, <2>2 DEF PasswordsInv, OldPasswordSignedOut, LoginsCurrent, SelectionComplete, Live, LocksInv
  <2>4. LinksInv
    BY AccountsAssumption, GuestsAssumption DEF LinksInv, NotifyInit, NoNotice
  <2> QED  BY <2>3, <2>4, NotifyInitially, RowsInitially DEF AuthInv, AlertsInv
<1>2. AuthInv /\ [AuthNext]_<<nvars, avars, gvars>> => AuthInv'
  BY RowsStep, PasswordsStep, LocksStep, AlertsStep DEF AuthInv
<1> QED  BY <1>1, <1>2, PTL DEF AuthSpec

\* A password change ends every session opened with an older password, but for logins that
\* overlap it.
THEOREM PasswordsAreSound == AuthSpec => []OldPasswordSignedOut
<1>1. AuthInv => OldPasswordSignedOut
  BY DEF AuthInv, PasswordsInv
<1> QED  BY <1>1, AuthInvariance, PTL

\* However many sweeps race, die or lose their leases, a second mail about an account has a
\* doubt of its own, and a row marked as sent was mailed and is never leased again.
THEOREM AlertsAreSound == AuthSpec => []DeliverySound
<1>1. AuthInv => DeliverySound
  <2> SUFFICES ASSUME AuthInv, NEW u \in Accounts
               PROVE  /\ mails[u] <= 1 + doubts[u]
                      /\ notice[u].state = "sent" => mails[u] > 0 /\ notice[u].lease = 0 /\ ~notice[u].held
    BY DEF DeliverySound, DuplicatesNeedDoubt, SentIsFinal
  <2>1. SoundNotice(u) /\ mails[u] \in Nat /\ doubts[u] \in Nat /\ Allowed(notice[u]) \in {0, 1}
        /\ Cardinality(Claiming(u)) \in Nat
    BY ClaimingCounts DEF AuthInv, AlertsInv, NotifyInv, NotifyRows, Allowed
  <2> QED  BY <2>1 DEF SoundNotice, MailsAccounted
<1> QED  BY <1>1, AuthInvariance, PTL

\* A trial begins only for an address without a registered account, though the code was sent
\* earlier and a signup is under way: both lock the identity before they look.
THEOREM TrialsSpareAccounts == AuthSpec => NoTrialBesideAccount
<1>1. AuthInv /\ [AuthNext]_<<nvars, avars, gvars>>
        => [\A g \in Guests : guest[g].state = "none" /\ guest'[g].state = "active"
              => ~Registered(guest'[g].email)]_<<guest, account>>
  <2> SUFFICES ASSUME AuthInv, [AuthNext]_<<nvars, avars, gvars>>, NEW g \in Guests,
                      guest[g].state = "none", guest'[g].state = "active"
               PROVE  ~Registered(guest'[g].email)
    OBVIOUS
  <2>1. guest' # guest
    OBVIOUS
  <2>2. GuestsNext
    BY <2>1 DEF AuthNext, gvars
  <2>3. PICK q \in Requests, h \in Guests : RedeemCommit(q, h)
    BY <2>2, GuestsStay DEF AuthInv
  <2>4. guest \in [Guests -> GuestRow]
    BY DEF AuthInv, RowsInv, GuestRows
  <2>5. CASE trial[request[q].email].user = None
    <3>1. guest'[g].email = request[q].email
      BY <2>3, <2>4, <2>5 DEF RedeemCommit, NoGuest
    <3>2. ~Registered(request[q].email)
      BY <2>3 DEF RedeemCommit, AuthInv, LocksInv
    <3> QED  BY <3>1, <3>2
  <2>6. CASE trial[request[q].email].user # None
    <3> DEFINE x == Active(h)
    <3>1. guest' = [guest EXCEPT ![h].signedIn = x]
      BY <2>3, <2>6 DEF RedeemCommit
    <3> HIDE DEF x
    <3>2. guest'[g].state = guest[g].state
      BY <2>4, <3>1 DEF GuestRow
    <3> QED  BY <3>2
  <2> QED  BY <2>5, <2>6
<1> QED  BY <1>1, AuthInvariance, PTL DEF AuthSpec, NoTrialBesideAccount

-----------------------------------------------------------------------------
(* The trials of guests. *)

\* The age of a guest: what an earlier version left counts as of the first generation.
Age(g) == IF guest[g].generation = -1 THEN 0 ELSE guest[g].generation

\* What a guest row agrees with: it is of an address whose generation has come, and while
\* it is of the present one (or active at all) the identity names it.
SoundGuest(g) ==
    IF guest[g].state = "none" THEN guest[g] = NoGuest
    ELSE LET e == guest[g].email
         IN  /\ e \in Emails /\ guest[g].generation \in Nat \cup {-1}
             /\ guest[g].state = "erased" => guest[g].content = 0 /\ ~guest[g].signedIn /\ guest[g].hold = "none"
             /\ ~policy => guest[g].generation = -1
             /\ policy =>
                  /\ Age(g) <= trial[e].generation
                  /\ Age(g) = trial[e].generation => trial[e].redeemed
                  /\ Active(g) => trial[e].user = g
                  /\ guest[g].state # "erased" /\ guest[g].generation = trial[e].generation => trial[e].user = g

SoundTrial(e) ==
    /\ ~policy => trial[e] = NoTrial
    /\ trial[e].user # None =>
         /\ trial[e].redeemed /\ Age(trial[e].user) = trial[e].generation
         /\ guest[trial[e].user].email = e /\ guest[trial[e].user].state \in {"active", "expired"}

\* A code is of a generation that has come; who consumed one of the present generation is
\* who the identity names.  Codes of an erased trial are gone.
SoundCode(c) ==
    IF code[c].state \in {"none", "deleted"} THEN code[c] = [NoCode EXCEPT !.state = code[c].state]
    ELSE LET e == code[c].email
         IN  /\ ~policy => code[c].user = None /\ code[c].generation = 0
             /\ code[c].user # None => guest[code[c].user].state \in {"active", "expired"}
             /\ policy =>
                  /\ code[c].generation <= trial[e].generation
                  /\ code[c].generation = trial[e].generation /\ code[c].user # None =>
                       trial[e].user = code[c].user
                  /\ \A g \in Guests :
                       guest[g].state = "erased" /\ guest[g].email = e /\ guest[g].generation = trial[e].generation =>
                         code[c].generation # guest[g].generation

OneOpenCode ==
    policy => \A c, d \in Codes :
                 code[c].state = "open" /\ code[d].state = "open" /\ code[c].email = code[d].email => c = d

\* A redemption past its check goes on with a trial that is new or names its account.
SoundRedeem(q) ==
    /\ request[q].op = "redeem" =>
         /\ policy /\ request[q].key \in Codes /\ code[request[q].key].state # "none"
         /\ code[request[q].key].state # "deleted" => code[request[q].key].email = request[q].email
         /\ request[q].at = "locked" =>
              (trial[request[q].email].redeemed => trial[request[q].email].user # None)
    /\ request[q].op = "guest" =>
         policy /\ request[q].key \in Guests /\ guest[request[q].key].state # "none"

\* The bounds of passwords, trials, contents and of the page of a sweep.
PasswordsBounded ==
    /\ \A e \in Emails : account[e].password <= MaxPassword
    /\ \A s \in Sessions : session[s].password <= MaxPassword
    /\ \A q \in Requests : request[q].password <= MaxPassword
TrialsBounded ==
    /\ \A e \in Emails : trial[e].generation <= MaxGeneration /\ trial[e].sent <= DailyLimit
    /\ \A g \in Guests : guest[g].content <= MaxContent
SweepBounded == sweep \in [todo : SUBSET Guests, cursor : Guests \cup {0}]

\* A row is leased once more than there were faults only while the sweep that leased it works.
SoundAttempts(u) ==
    /\ notice[u].lease <= notice[u].attempts /\ notice[u].attempts <= faults + 1
    /\ notice[u].state = "queued" /\ notice[u].attempts = faults + 1 =>
         notice[u].held /\ \E p \in Senders : sender[p].user = u /\ Owned(p)
AttemptsBounded ==
    /\ \A u \in Accounts : SoundAttempts(u)
    /\ \A p \in Senders : sender[p].attempt <= faults + 1

BoundsInv == PasswordsBounded /\ TrialsBounded /\ SweepBounded /\ AttemptsBounded

TrialsInv ==
    /\ \A g \in Guests : SoundGuest(g)
    /\ \A e \in Emails : SoundTrial(e)
    /\ \A c \in Codes : SoundCode(c)
    /\ \A q \in Requests : SoundRedeem(q)
    /\ OneOpenCode /\ OneTrialPerIdentity /\ policy \in BOOLEAN

\* Steps that begin and end no trial: accounts run out or are written to, codes run out,
\* requests of other kinds go on.
MinorGuest(g) ==
    /\ guest'[g].email = guest[g].email /\ guest'[g].generation = guest[g].generation
    /\ guest'[g].state = guest[g].state \/ (Active(g) /\ guest'[g].state = "expired")
    /\ guest[g].state \in {"none", "erased"} => guest'[g] = guest[g]

MinorTrial(e) ==
    /\ trial'[e].user = trial[e].user /\ trial'[e].redeemed = trial[e].redeemed
    /\ trial'[e].generation = trial[e].generation
    /\ ~policy => trial'[e] = trial[e]

MinorCode(c) ==
    \/ code'[c] = code[c]
    \/ code[c].state = "open" /\ code'[c] = [code[c] EXCEPT !.state = "expired"]

MinorRequest(q) == request'[q] = request[q] \/ request'[q].op \notin {"redeem", "guest"}

LEMMA MinorKeeps ==
    ASSUME RowsInv, RowsInv', TrialsInv, policy' = policy,
           \A g \in Guests : MinorGuest(g), \A e \in Emails : MinorTrial(e),
           \A c \in Codes : MinorCode(c), \A q \in Requests : MinorRequest(q)
    PROVE  TrialsInv'
<1>0. /\ \A g \in Guests : guest[g] \in GuestRow /\ guest'[g] \in GuestRow
      /\ \A e \in Emails : trial[e] \in TrialRow /\ trial'[e] \in TrialRow
      /\ \A c \in Codes : code[c] \in CodeRow /\ code'[c] \in CodeRow
      /\ \A q \in Requests : request[q] \in RequestRow
      /\ None \notin Emails /\ None \notin Guests
  BY AccountsAssumption, GuestsAssumption DEF RowsInv, GuestRows, AccountRows
<1>1. ASSUME NEW g \in Guests PROVE SoundGuest(g)'
  <2>1. SoundGuest(g) /\ MinorGuest(g)
    BY DEF TrialsInv
  <2>2. CASE guest[g].state = "none"
    BY <2>1, <2>2 DEF SoundGuest, MinorGuest
  <2>3. CASE guest[g].state # "none"
    <3>1. guest[g].email \in Emails /\ MinorTrial(guest[g].email)
      BY <2>1, <2>3 DEF SoundGuest
    <3> QED  BY <2>1, <2>3, <3>1 DEF SoundGuest, MinorGuest, MinorTrial, Active, Age
  <2> QED  BY <2>2, <2>3
<1>2. ASSUME NEW e \in Emails PROVE SoundTrial(e)'
  <2>1. SoundTrial(e) /\ MinorTrial(e) /\ trial[e].user \in Guests \cup {None}
    BY <1>0 DEF TrialsInv, TrialRow
  <2>2. trial[e].user # None => MinorGuest(trial[e].user)
    BY <2>1
  <2> QED  BY <2>1, <2>2 DEF SoundTrial, MinorGuest, MinorTrial, Active, Age
<1>3. ASSUME NEW c \in Codes PROVE SoundCode(c)'
  <2>1. SoundCode(c) /\ MinorCode(c)
    BY DEF TrialsInv
  <2>2. CASE code[c].state \in {"none", "deleted"}
    BY <2>1, <2>2 DEF SoundCode, MinorCode
  <2>3. CASE code[c].state \notin {"none", "deleted"}
    <3>1. code[c].email \in Emails /\ MinorTrial(code[c].email) /\ code[c].user \in Guests \cup {None}
      BY <1>0, <2>3 DEF RowsInv, Addressed, CodeRow
    <3>2. /\ code'[c].email = code[c].email /\ code'[c].user = code[c].user
          /\ code'[c].generation = code[c].generation /\ code'[c].state \notin {"none", "deleted"}
      BY <1>0, <2>1, <2>3 DEF MinorCode, CodeRow
    <3>3. code[c].user # None => MinorGuest(code[c].user)
      BY <3>1
    <3>4. \A g \in Guests : MinorGuest(g)
      OBVIOUS
    <3> QED  BY <2>1, <2>3, <3>1, <3>2, <3>3, <3>4 DEF SoundCode, MinorGuest, MinorTrial, Active
  <2> QED  BY <2>2, <2>3
<1>4. ASSUME NEW q \in Requests PROVE SoundRedeem(q)'
  <2>1. SoundRedeem(q) /\ MinorRequest(q)
    BY DEF TrialsInv
  <2>2. CASE request'[q].op \notin {"redeem", "guest"}
    BY <2>2 DEF SoundRedeem
  <2>3. CASE request'[q] = request[q] /\ request[q].op = "redeem"
    <3>1. request[q].key \in Codes /\ MinorCode(request[q].key) /\ request[q].email \in Emails
          /\ MinorTrial(request[q].email)
      BY <2>1, <2>3 DEF SoundRedeem, RowsInv, Addressed, WithEmail
    <3>2. code[request[q].key] \in CodeRow
      BY <1>0, <3>1
    <3> QED  BY <2>1, <2>3, <3>1, <3>2 DEF SoundRedeem, MinorCode, MinorTrial, CodeRow
  <2>4. CASE request'[q] = request[q] /\ request[q].op = "guest"
    <3>1. request[q].key \in Guests /\ MinorGuest(request[q].key)
      BY <2>1, <2>4 DEF SoundRedeem
    <3> QED  BY <2>1, <2>4, <3>1 DEF SoundRedeem, MinorGuest
  <2> QED  BY <2>1, <2>2, <2>3, <2>4 DEF MinorRequest
<1>5. OneOpenCode'
  <2>1. \A c \in Codes : code'[c].state = "open" => code'[c] = code[c]
    BY <1>0 DEF MinorCode, CodeRow
  <2> QED  BY <2>1 DEF OneOpenCode, TrialsInv
<1>6. OneTrialPerIdentity'
  <2>1. \A g \in Guests : guest'[g].email = guest[g].email /\ guest'[g].generation = guest[g].generation
    BY DEF MinorGuest
  <2> QED  BY <2>1 DEF OneTrialPerIdentity, TrialsInv
<1> QED  BY <1>1, <1>2, <1>3, <1>4, <1>5, <1>6 DEF TrialsInv

\* Steps of accounts and mails, and sweeps that only look.
LEMMA AccountsTrials ==
    ASSUME RowsInv, RowsInv', TrialsInv, AccountsNext, UNCHANGED gvars
    PROVE  TrialsInv'
<1>1. policy' = policy /\ \A g \in Guests : MinorGuest(g)
  BY DEF gvars, MinorGuest
<1>2. (\A e \in Emails : MinorTrial(e)) /\ (\A c \in Codes : MinorCode(c))
  BY DEF gvars, MinorTrial, MinorCode
<1>3. ASSUME NEW q \in Requests PROVE MinorRequest(q)
  <2>0. request \in [Requests -> RequestRow]
    BY DEF RowsInv, AccountRows
  <2>1. ASSUME NEW r \in Requests, NEW e \in Emails, SignupStart(r, e) PROVE MinorRequest(q)
    BY <2>0, <2>1 DEF SignupStart, MinorRequest, Vacant
  <2>2. ASSUME NEW r \in Requests, NEW e \in Emails, LoginVerify(r, e) PROVE MinorRequest(q)
    <3> DEFINE x == Changing(e)
    <3>1. request' = [request EXCEPT ![r] = [Vacant EXCEPT !.op = "login", !.at = "verified", !.email = e,
                                               !.password = account[e].password, !.crossed = x]]
      BY <2>2 DEF LoginVerify
    <3> HIDE DEF x
    <3> QED  BY <2>0, <3>1 DEF MinorRequest, Vacant
  <2>3. ASSUME NEW r \in Requests, Finish(r) PROVE MinorRequest(q)
    BY <2>3, FinishMoves, VacantRow DEF MinorRequest
  <2>4. ASSUME NEW r \in Requests, NEW s, UpdatePasswordLoad(r, s) PROVE MinorRequest(q)
    BY <2>0, <2>4 DEF UpdatePasswordLoad, MinorRequest, Vacant
  <2>5. ASSUME NEW r \in Requests, NEW t \in Tokens, ConsumeLoad(r, t) PROVE MinorRequest(q)
    <3>1. token[t].purpose \in {"verify", "reset"}
      BY <2>5 DEF ConsumeLoad, RowsInv, AccountRows, Addressed, TokenRow
    <3> QED  BY <2>0, <2>5, <3>1 DEF ConsumeLoad, MinorRequest, Vacant
  <2>6. ASSUME NEW r \in Requests, SelectSessions(r) PROVE MinorRequest(q)
    <3>1. CASE q = r
      BY <2>0, <2>6, <3>1 DEF SelectSessions, MinorRequest, RequestRow
    <3>2. CASE q # r
      <4> DEFINE x == request[q].crossed \/ (request[q].op = "login" /\ request[q].email = request[r].email)
      <4>1. request'[q] = [request[q] EXCEPT !.crossed = x]
        BY <2>6, <3>2 DEF SelectSessions
      <4>2. request[q].op = "redeem" \/ request[q].op = "guest" => x = request[q].crossed
        BY <2>0 DEF RequestRow
      <4> HIDE DEF x
      <4> QED  BY <2>0, <4>1, <4>2 DEF MinorRequest, RequestRow
    <3> QED  BY <3>1, <3>2
  <2>7. CASE UNCHANGED request
    BY <2>7 DEF MinorRequest
  <2>8. \A r, e, t, s, auto, mark :
          /\ SignupCommit(r, t, auto) \/ LoginCommit(r, s) \/ VerifyEmail(r) \/ CommitPassword(r) \/ Abandon(r)
               => Finish(r)
          /\ ResendVerification(e, t) \/ RequestPasswordReset(e, t) \/ Approve(e, t, mark) \/ Reject(e)
               \/ Logout(s) \/ TokenExpires(t) => UNCHANGED request
    BY DEF SignupCommit, LoginCommit, VerifyEmail, CommitPassword, Abandon, ResendVerification,
           RequestPasswordReset, Approve, Reject, Logout, TokenExpires
  <2> QED  BY <2>1, <2>2, <2>3, <2>4, <2>5, <2>6, <2>7, <2>8 DEF AccountsNext
<1> QED  BY <1>1, <1>2, <1>3, MinorKeeps

\* Requests move, and nothing of trials does.
LEMMA SameTrials ==
    ASSUME TrialsInv, UNCHANGED gvars, \A q \in Requests : SoundRedeem(q)'
    PROVE  TrialsInv'
<1>1. policy' = policy /\ trial' = trial /\ code' = code /\ guest' = guest
  BY DEF gvars
<1>2. ASSUME NEW g \in Guests PROVE SoundGuest(g)'
  <2>1. SoundGuest(g)
    BY DEF TrialsInv
  <2> QED  BY <1>1, <2>1 DEF SoundGuest, Age, Active
<1>3. ASSUME NEW e \in Emails PROVE SoundTrial(e)'
  <2>1. SoundTrial(e)
    BY DEF TrialsInv
  <2> QED  BY <1>1, <2>1 DEF SoundTrial, Age
<1>4. ASSUME NEW c \in Codes PROVE SoundCode(c)'
  <2>1. SoundCode(c)
    BY DEF TrialsInv
  <2> QED  BY <1>1, <2>1 DEF SoundCode
<1> QED  BY <1>1, <1>2, <1>3, <1>4 DEF TrialsInv, OneOpenCode, OneTrialPerIdentity

\* A guest's request begins.
LEMMA GuestRequestTrials ==
    ASSUME RowsInv, RowsInv', TrialsInv, NEW r \in Requests, NEW g \in Guests, GuestRequest(r, g)
    PROVE  TrialsInv'
<1>1. SoundGuest(g) /\ policy /\ guest[g].state # "none"
  BY DEF TrialsInv, GuestRequest, GuestSignedIn, Active
<1>2. ASSUME NEW q \in Requests PROVE SoundRedeem(q)'
  <2>1. request \in [Requests -> RequestRow] /\ SoundRedeem(q)
    BY DEF RowsInv, AccountRows, TrialsInv
  <2>2. CASE q = r
    BY <1>1, <2>1, <2>2 DEF GuestRequest, Vacant, SoundRedeem, gvars
  <2>3. CASE q # r
    BY <2>1, <2>3 DEF GuestRequest, SoundRedeem, gvars
  <2> QED  BY <2>2, <2>3
<1>3. UNCHANGED gvars
  BY DEF GuestRequest
<1> QED  BY <1>2, <1>3, SameTrials

\* A redemption has found its code.
LEMMA RedeemLoadTrials ==
    ASSUME RowsInv, RowsInv', TrialsInv, NEW r \in Requests, NEW k \in Codes, RedeemLoad(r, k)
    PROVE  TrialsInv'
<1>2. ASSUME NEW q \in Requests PROVE SoundRedeem(q)'
  <2>1. request \in [Requests -> RequestRow] /\ SoundRedeem(q)
    BY DEF RowsInv, AccountRows, TrialsInv
  <2>2. CASE q = r
    BY <2>1, <2>2 DEF RedeemLoad, Vacant, SoundRedeem, gvars
  <2>3. CASE q # r
    BY <2>1, <2>3 DEF RedeemLoad, SoundRedeem, gvars
  <2> QED  BY <2>2, <2>3
<1>3. UNCHANGED gvars
  BY DEF RedeemLoad
<1> QED  BY <1>2, <1>3, SameTrials

\* It locks the identity of its code and looks at the trial again.
LEMMA RedeemLockTrials ==
    ASSUME RowsInv, RowsInv', TrialsInv, NEW r \in Requests, RedeemLock(r)
    PROVE  TrialsInv'
<1>1. trial[request[r].email].redeemed => trial[request[r].email].user # None
  BY DEF RedeemLock, Eligibility
<1>2. ASSUME NEW q \in Requests PROVE SoundRedeem(q)'
  <2>1. request \in [Requests -> RequestRow] /\ SoundRedeem(q)
    BY DEF RowsInv, AccountRows, TrialsInv
  <2>2. CASE q = r
    BY <1>1, <2>1, <2>2 DEF RedeemLock, SoundRedeem, gvars, RequestRow
  <2>3. CASE q # r
    BY <2>1, <2>3 DEF RedeemLock, SoundRedeem, gvars
  <2> QED  BY <2>2, <2>3
<1>3. UNCHANGED gvars
  BY DEF RedeemLock
<1> QED  BY <1>2, <1>3, SameTrials

\* A new code: the older ones of its address run out first.
LEMMA IssueTrials ==
    ASSUME RowsInv, RowsInv', TrialsInv, NEW e \in Emails, NEW k \in Codes, Issue(e, k)
    PROVE  TrialsInv'
<1>0. /\ trial[e] \in TrialRow /\ \A c \in Codes : code[c] \in CodeRow
      /\ trial \in [Emails -> TrialRow]
  BY DEF RowsInv, GuestRows
<1>1. policy /\ (trial[e].redeemed => trial[e].user # None /\ Active(trial[e].user))
  BY DEF Issue, Eligibility
<1>2. \A d \in Emails : MinorTrial(d)
  BY <1>0, <1>1 DEF Issue, MinorTrial, TrialRow
<1>3. UNCHANGED <<policy, guest, request>>
  BY DEF Issue, avars
<1>4. code'[k] = [state |-> "open", email |-> e, generation |-> trial[e].generation, user |-> None]
  BY DEF Issue, Invalidated
<1>5. ASSUME NEW c \in Codes, c # k
      PROVE  MinorCode(c) /\ (code'[c].state = "open" => code'[c] = code[c] /\ code[c].email # e)
  <2>1. code'[c] = IF code[c].email = e THEN ExpiredCode(code[c]) ELSE code[c]
    BY <1>5 DEF Issue, Invalidated, CodesOf
  <2>2. code[c] \in CodeRow
    BY <1>0
  <2> QED  BY <2>1, <2>2 DEF ExpiredCode, MinorCode, CodeRow
<1>6. ASSUME NEW g \in Guests PROVE SoundGuest(g)'
  <2>1. SoundGuest(g)
    BY DEF TrialsInv
  <2> QED  BY <1>2, <1>3, <2>1 DEF SoundGuest, Active, Age, MinorTrial
<1>7. ASSUME NEW d \in Emails PROVE SoundTrial(d)'
  <2>1. SoundTrial(d) /\ MinorTrial(d)
    BY <1>2 DEF TrialsInv
  <2> QED  BY <1>3, <2>1 DEF SoundTrial, MinorTrial, Age
<1>8. ASSUME NEW c \in Codes PROVE SoundCode(c)'
  <2>1. CASE c = k
    <3>1. \A g \in Guests : guest[g].email = e /\ guest[g].generation = trial[e].generation
                              => guest[g].state # "erased"
      <4> SUFFICES ASSUME NEW g \in Guests, guest[g].email = e, guest[g].generation = trial[e].generation,
                          guest[g].state = "erased"
                   PROVE  FALSE
        OBVIOUS
      <4>1. trial[e].redeemed
        BY <1>0, <1>1 DEF TrialsInv, SoundGuest, Age, TrialRow
      <4>2. Active(trial[e].user) /\ trial[e].user \in Guests
        BY <1>0, <1>1, <4>1 DEF TrialRow
      <4>3. SoundGuest(trial[e].user) /\ SoundGuest(g) /\ SoundTrial(e) /\ trial[e].user # g
        BY <4>2 DEF TrialsInv, Active
      <4>4. OneTrialPerIdentity
        BY DEF TrialsInv
      <4>5. guest[trial[e].user].email = e /\ guest[trial[e].user].generation \in Nat \cup {-1}
        BY <1>1, <4>1, <4>2, <4>3 DEF SoundTrial, SoundGuest, Active
      <4>6. e # None
        BY AccountsAssumption
      <4>7. guest[trial[e].user].generation = trial[e].generation \/
              (guest[trial[e].user].generation = -1 /\ trial[e].generation = 0)
        BY <1>0, <4>1, <1>1, <4>3, <4>5 DEF SoundTrial, Age
      <4> QED  BY <1>0, <1>1, <4>2, <4>3, <4>4, <4>5, <4>6, <4>7 DEF OneTrialPerIdentity, TrialRow
    <3> QED  BY <1>0, <1>1, <1>3, <1>4, <1>2, <2>1, <3>1 DEF SoundCode, MinorTrial, TrialRow
  <2>2. CASE c # k
    <3>1. SoundCode(c) /\ MinorCode(c)
      BY <1>5, <2>2 DEF TrialsInv
    <3>2. CASE code[c].state \in {"none", "deleted"}
      BY <3>1, <3>2 DEF SoundCode, MinorCode
    <3>3. CASE code[c].state \notin {"none", "deleted"}
      <4>1. code[c].email \in Emails /\ MinorTrial(code[c].email)
        BY <1>2, <3>3 DEF RowsInv, Addressed
      <4>2. /\ code'[c].email = code[c].email /\ code'[c].user = code[c].user
            /\ code'[c].generation = code[c].generation /\ code'[c].state \notin {"none", "deleted"}
        BY <1>0, <3>1, <3>3 DEF MinorCode, CodeRow
      <4> QED  BY <1>1, <1>3, <3>1, <3>3, <4>1, <4>2 DEF SoundCode, MinorTrial
    <3> QED  BY <3>2, <3>3
  <2> QED  BY <2>1, <2>2
<1>9. ASSUME NEW q \in Requests PROVE SoundRedeem(q)'
  <2>1. SoundRedeem(q)
    BY DEF TrialsInv
  <2>2. CASE request[q].op = "redeem"
    <3>1. request[q].key \in Codes /\ request[q].key # k /\ request[q].email \in Emails
      BY <2>1, <2>2 DEF SoundRedeem, Issue, RowsInv, Addressed, WithEmail
    <3>2. MinorCode(request[q].key) /\ MinorTrial(request[q].email) /\ code[request[q].key] \in CodeRow
      BY <1>0, <1>2, <1>5, <3>1
    <3> QED  BY <1>3, <2>1, <2>2, <3>1, <3>2 DEF SoundRedeem, MinorCode, MinorTrial, CodeRow
  <2>3. CASE request[q].op # "redeem"
    BY <1>3, <2>1, <2>3 DEF SoundRedeem
  <2> QED  BY <2>2, <2>3
<1>10. OneOpenCode'
  BY <1>1, <1>4, <1>5 DEF OneOpenCode, TrialsInv
<1>11. OneTrialPerIdentity'
  BY <1>3 DEF OneTrialPerIdentity, TrialsInv
<1> QED  BY <1>3, <1>6, <1>7, <1>8, <1>9, <1>10, <1>11 DEF TrialsInv

\* The code is consumed: a new trial names its account, or the account of the trial goes on.
LEMMA RedeemCommitTrials ==
    ASSUME RowsInv, RowsInv', LocksInv, TrialsInv, NEW r \in Requests, NEW g \in Guests, RedeemCommit(r, g)
    PROVE  TrialsInv'
<1> DEFINE e == request[r].email
           k == request[r].key
<1>0. /\ \A h \in Guests : guest[h] \in GuestRow
      /\ \A d \in Emails : trial[d] \in TrialRow
      /\ \A c \in Codes : code[c] \in CodeRow
      /\ trial \in [Emails -> TrialRow] /\ guest \in [Guests -> GuestRow] /\ code \in [Codes -> CodeRow]
      /\ None \notin Emails /\ None \notin Guests
  BY AccountsAssumption, GuestsAssumption DEF RowsInv, GuestRows
<1>1. /\ policy /\ policy' = policy /\ k \in Codes /\ e \in Emails /\ code[k].state \in {"open", "expired"}
      /\ code[k].email = e /\ (trial[e].redeemed => trial[e].user # None)
  <2>1. SoundRedeem(r) /\ request[r].op = "redeem" /\ request[r].at = "locked"
    BY DEF TrialsInv, RedeemCommit
  <2> QED  BY <2>1 DEF SoundRedeem, RedeemCommit, RowsInv, Addressed, WithEmail
<1>2. /\ code'[k] = [code[k] EXCEPT !.state = "consumed", !.user = g]
      /\ \A c \in Codes : c # k => code'[c] = code[c]
  BY <1>0, <1>1 DEF RedeemCommit
<1>3. /\ code'[k].state = "consumed" /\ code'[k].email = e /\ code'[k].user = g
      /\ code'[k].generation = code[k].generation
  BY <1>0, <1>1, <1>2 DEF CodeRow
<1>4. code[k].generation <= trial[e].generation /\ SoundCode(k)
  <2>1. SoundCode(k)
    BY <1>1 DEF TrialsInv
  <2> QED  BY <1>1, <2>1 DEF SoundCode
<1>5. \A q \in Requests : q # r => request'[q] = request[q]
  BY FinishMoves DEF RedeemCommit
<1>6. request'[r] = Vacant
  BY FinishMoves DEF RedeemCommit
<1>7. \A q \in Requests : q # r /\ request[q].op = "redeem" /\ request[q].at = "locked" => request[q].email # e
  <2>1. holder[e] = r
    BY DEF LocksInv, RedeemCommit
  <2> QED  BY <2>1 DEF LocksInv
<1>8. OneOpenCode'
  <2>1. \A c \in Codes : code'[c].state = "open" => code'[c] = code[c]
    BY <1>2, <1>3
  <2> HIDE DEF e, k
  <2> QED  BY <1>1, <2>1 DEF OneOpenCode, TrialsInv
<1>9. CASE trial[e].user = None
  <2>1. /\ guest' = [guest EXCEPT ![g] = [NoGuest EXCEPT !.state = "active", !.email = e, !.signedIn = TRUE,
                                                         !.generation = trial[e].generation]]
        /\ trial' = [trial EXCEPT ![e].user = g, ![e].redeemed = TRUE]
        /\ guest[g].state = "none"
    BY <1>9 DEF RedeemCommit, RedeemedBy
  <2>2. /\ guest'[g].state = "active" /\ guest'[g].email = e /\ guest'[g].generation = trial[e].generation
        /\ guest'[g].content = 0
        /\ \A h \in Guests : h # g => guest'[h] = guest[h]
    BY <1>0, <2>1 DEF NoGuest
  <2>3. /\ trial'[e].user = g /\ trial'[e].redeemed = TRUE /\ trial'[e].generation = trial[e].generation
        /\ \A d \in Emails : d # e => trial'[d] = trial[d]
    BY <1>0, <1>1, <2>1 DEF TrialRow
  <2>4. ~trial[e].redeemed /\ trial[e].generation \in Nat
    BY <1>0, <1>1, <1>9 DEF TrialRow
  <2>5. SoundGuest(g) /\ guest[g] = NoGuest
    BY <2>1 DEF TrialsInv, SoundGuest
  <2>6. ASSUME NEW h \in Guests, h # g, guest[h].email = e
        PROVE  /\ Age(h) < trial[e].generation /\ ~Active(h)
               /\ guest[h].generation # trial[e].generation
               /\ guest[h].generation \in Nat \cup {-1}
               /\ guest[h].state # "none"
    <3>1. SoundGuest(h) /\ guest[h].state # "none"
      BY <1>0, <1>1, <2>6 DEF TrialsInv, SoundGuest, NoGuest
    <3> QED  BY <1>0, <1>1, <1>9, <2>4, <2>6, <3>1 DEF SoundGuest, Age, Active
  <2>7. ASSUME NEW h \in Guests PROVE SoundGuest(h)'
    <3>1. CASE h = g
      BY <1>1, <2>2, <2>3, <2>4, <3>1 DEF SoundGuest, Age, Active
    <3>2. CASE h # g
      <4>1. SoundGuest(h)
        BY DEF TrialsInv
      <4>2. CASE guest[h].email = e
        BY <1>0, <1>1, <2>2, <2>3, <2>4, <2>6, <3>2, <4>1, <4>2 DEF SoundGuest, Age, Active
      <4>3. CASE guest[h].email # e
        BY <1>0, <1>1, <2>2, <2>3, <3>2, <4>1, <4>3 DEF SoundGuest, Age, Active
      <4> QED  BY <4>2, <4>3
    <3> QED  BY <3>1, <3>2
  <2>8. ASSUME NEW d \in Emails PROVE SoundTrial(d)'
    <3>1. SoundTrial(d) /\ trial[d].user \in Guests \cup {None}
      BY <1>0 DEF TrialsInv, TrialRow
    <3>2. CASE d = e
      BY <1>1, <2>2, <2>3, <2>4, <3>2 DEF SoundTrial, Age
    <3>3. CASE d # e
      <4>1. trial[d].user # g
        BY <1>0, <2>1, <3>1 DEF SoundTrial
      <4> QED  BY <1>0, <1>1, <2>2, <2>3, <3>1, <3>3, <4>1 DEF SoundTrial, Age
    <3> QED  BY <3>2, <3>3
  <2>9. ASSUME NEW c \in Codes PROVE SoundCode(c)'
    <3>0. SoundCode(c) /\ code[c] \in CodeRow
      BY <1>0 DEF TrialsInv
    <3>1. \A h \in Guests : h # g /\ guest[h].state = "erased" /\ guest[h].email = e =>
            guest[h].generation # trial[e].generation
      BY <2>6
    <3>2. CASE c = k
      BY <1>1, <1>3, <1>4, <2>2, <2>3, <3>1, <3>2 DEF SoundCode
    <3>3. CASE c # k /\ code[c].state \in {"none", "deleted"}
      BY <1>2, <3>0, <3>3 DEF SoundCode
    <3>4. CASE c # k /\ code[c].state \notin {"none", "deleted"}
      <4>1. code[c].email \in Emails /\ code'[c] = code[c]
        BY <1>2, <3>4 DEF RowsInv, Addressed
      <4>2. code[c].user # None => code[c].user # g
        BY <2>1, <3>0, <3>4 DEF SoundCode
      <4>3. code[c].user \in Guests \cup {None}
        BY <3>0 DEF CodeRow
      <4>4. /\ code[c].generation <= trial[code[c].email].generation
            /\ code[c].user # None => guest[code[c].user].state \in {"active", "expired"}
            /\ code[c].generation = trial[code[c].email].generation /\ code[c].user # None =>
                 trial[code[c].email].user = code[c].user
            /\ \A h \in Guests :
                 guest[h].state = "erased" /\ guest[h].email = code[c].email
                   /\ guest[h].generation = trial[code[c].email].generation =>
                      code[c].generation # guest[h].generation
        BY <1>1, <3>0, <3>4 DEF SoundCode
      <4>5. trial'[code[c].email].generation = trial[code[c].email].generation
        BY <2>3, <4>1
      <4>6. code[c].generation = trial[code[c].email].generation /\ code[c].user # None =>
              trial'[code[c].email].user = code[c].user
        BY <1>9, <2>3, <4>1, <4>4
      <4>7. code[c].user # None => guest'[code[c].user] = guest[code[c].user]
        BY <2>2, <4>2, <4>3
      <4>8. \A h \in Guests :
                 guest'[h].state = "erased" /\ guest'[h].email = code[c].email
                   /\ guest'[h].generation = trial'[code[c].email].generation =>
                      code[c].generation # guest'[h].generation
        BY <2>2, <4>4, <4>5
      <4> QED  BY <1>1, <3>4, <4>1, <4>4, <4>5, <4>6, <4>7, <4>8 DEF SoundCode
    <3> QED  BY <3>2, <3>3, <3>4
  <2>10. ASSUME NEW q \in Requests PROVE SoundRedeem(q)'
    <3>1. SoundRedeem(q)
      BY DEF TrialsInv
    <3>2. CASE q = r
      BY <1>6, <3>2, VacantRow DEF SoundRedeem, Vacant
    <3>3. CASE q # r
      <4>1. request[q].op = "redeem" => request[q].email \in Emails
        BY DEF RowsInv, Addressed, WithEmail
      <4>2. \A c \in Codes : code'[c].email = code[c].email /\ (code[c].state # "none" => code'[c].state # "none")
                             /\ (code[c].state = "deleted" => code'[c].state = "deleted")
        BY <1>1, <1>2, <1>3
      <4>3. \A h \in Guests : guest[h].state # "none" => guest'[h].state # "none"
        BY <2>2
      <4> QED  BY <1>1, <1>5, <1>7, <2>3, <3>1, <3>3, <4>1, <4>2, <4>3 DEF SoundRedeem
    <3> QED  BY <3>2, <3>3
  <2>11. OneTrialPerIdentity'
    <3> SUFFICES ASSUME NEW h \in Guests, NEW o \in Guests, h # o, guest'[h].email = guest'[o].email,
                        guest'[h].email # None
                 PROVE  \/ guest'[h].generation = -1 /\ guest'[o].generation # 0
                        \/ guest'[h].generation # guest'[o].generation
                             /\ {guest'[h].generation, guest'[o].generation} # {-1, 0}
      BY DEF OneTrialPerIdentity
    <3>1. CASE h # g /\ o # g
      BY <1>1, <2>2, <3>1 DEF OneTrialPerIdentity, TrialsInv
    <3>2. CASE h = g
      <4>1. guest[o].email = e /\ guest'[o] = guest[o]
        BY <2>2, <3>2
      <4> QED  BY <2>2, <2>4, <2>6, <3>2, <4>1 DEF Age
    <3>3. CASE o = g
      <4>1. guest[h].email = e /\ guest'[h] = guest[h]
        BY <2>2, <3>3
      <4> QED  BY <2>2, <2>4, <2>6, <3>3, <4>1 DEF Age
    <3> QED  BY <3>1, <3>2, <3>3
  <2> QED  BY <1>1, <1>8, <2>7, <2>8, <2>9, <2>10, <2>11 DEF TrialsInv
<1>10. CASE trial[e].user # None
  <2> DEFINE x == Active(g)
  <2>1. guest' = [guest EXCEPT ![g].signedIn = x] /\ trial' = trial /\ g = trial[e].user
    BY <1>10 DEF RedeemCommit, RedeemedBy
  <2>2. SoundTrial(e) /\ SoundGuest(g)
    BY <1>1 DEF TrialsInv
  <2>3. /\ guest[g].state \in {"active", "expired"}
        /\ guest[g].email = e
    BY <1>10, <2>1, <2>2 DEF SoundTrial
  <2> HIDE DEF x
  <2>4. \A h \in Guests : MinorGuest(h)
    BY <1>0, <2>1, <2>3 DEF MinorGuest, GuestRow
  <2>5. ASSUME NEW h \in Guests PROVE SoundGuest(h)'
    <3>1. SoundGuest(h) /\ MinorGuest(h)
      BY <2>4 DEF TrialsInv
    <3> QED  BY <1>1, <2>1, <3>1 DEF SoundGuest, MinorGuest, Age, Active
  <2>6. ASSUME NEW d \in Emails PROVE SoundTrial(d)'
    <3>1. SoundTrial(d) /\ (trial[d].user # None => MinorGuest(trial[d].user))
      BY <1>0, <2>4 DEF TrialsInv, TrialRow
    <3> QED  BY <1>1, <2>1, <3>1 DEF SoundTrial, MinorGuest, Age, Active
  <2>7. ASSUME NEW c \in Codes PROVE SoundCode(c)'
    <3>0. SoundCode(c) /\ code[c] \in CodeRow
      BY <1>0 DEF TrialsInv
    <3>1. MinorGuest(g) /\ guest'[g].state \in {"active", "expired"}
      BY <2>3, <2>4 DEF MinorGuest
    <3>2. CASE c = k
      <4>1. \A h \in Guests : guest'[h].state = "erased" => guest'[h] = guest[h]
        BY <1>0, <2>1, <2>3, <2>4 DEF MinorGuest, Active
      <4>2. \A h \in Guests :
              guest[h].state = "erased" /\ guest[h].email = e /\ guest[h].generation = trial[e].generation =>
                code[k].generation # guest[h].generation
        BY <1>1, <1>4 DEF SoundCode
      <4> QED  BY <1>1, <1>3, <1>4, <2>1, <3>1, <3>2, <4>1, <4>2 DEF SoundCode
    <3>3. CASE c # k /\ code[c].state \in {"none", "deleted"}
      BY <1>2, <3>0, <3>3 DEF SoundCode
    <3>4. CASE c # k /\ code[c].state \notin {"none", "deleted"}
      <4>1. code[c].user \in Guests \cup {None} /\ code'[c] = code[c]
        BY <1>2, <3>0, <3>4 DEF CodeRow
      <4>2. \A h \in Guests : guest'[h].state = "erased" => guest'[h] = guest[h]
        BY <1>0, <2>1, <2>3, <2>4 DEF MinorGuest, Active
      <4>3. code[c].user # None => MinorGuest(code[c].user)
        BY <2>4, <4>1
      <4> QED  BY <1>1, <2>1, <3>0, <3>4, <4>1, <4>2, <4>3 DEF SoundCode, MinorGuest, Active
    <3> QED  BY <3>2, <3>3, <3>4
  <2>8. ASSUME NEW q \in Requests PROVE SoundRedeem(q)'
    <3>1. SoundRedeem(q)
      BY DEF TrialsInv
    <3>2. CASE q = r
      BY <1>6, <3>2, VacantRow DEF SoundRedeem, Vacant
    <3>3. CASE q # r
      <4>2. \A c \in Codes : code'[c].email = code[c].email /\ (code[c].state # "none" => code'[c].state # "none")
                             /\ (code[c].state = "deleted" => code'[c].state = "deleted")
        BY <1>1, <1>2, <1>3
      <4>3. \A h \in Guests : guest[h].state # "none" => guest'[h].state # "none"
        BY <2>4 DEF MinorGuest
      <4> QED  BY <1>1, <1>5, <2>1, <3>1, <3>3, <4>2, <4>3 DEF SoundRedeem
    <3> QED  BY <3>2, <3>3
  <2>9. OneTrialPerIdentity'
    BY <1>1, <2>4 DEF OneTrialPerIdentity, MinorGuest, TrialsInv
  <2> QED  BY <1>1, <1>8, <2>5, <2>6, <2>7, <2>8, <2>9 DEF TrialsInv
<1> QED  BY <1>9, <1>10

\* An operator ends the trial: its account and its codes run out, the generation goes up.
LEMMA ResetTrials ==
    ASSUME RowsInv, RowsInv', LocksInv, TrialsInv, NEW e \in Emails, ResetTrial(e)
    PROVE  TrialsInv'
<1>0. /\ \A h \in Guests : guest[h] \in GuestRow
      /\ \A d \in Emails : trial[d] \in TrialRow
      /\ \A c \in Codes : code[c] \in CodeRow
      /\ trial \in [Emails -> TrialRow]
      /\ None \notin Emails /\ None \notin Guests
  BY AccountsAssumption, GuestsAssumption DEF RowsInv, GuestRows
<1>1. policy /\ policy' = policy /\ request' = request /\ holder[e] = None
  BY DEF ResetTrial, avars
<1>2. /\ trial'[e].user = None /\ trial'[e].redeemed = FALSE /\ trial'[e].generation = trial[e].generation + 1
      /\ \A d \in Emails : d # e => trial'[d] = trial[d]
  BY <1>0 DEF ResetTrial, NoTrial, TrialRow
<1>3. ASSUME NEW h \in Guests PROVE MinorGuest(h) /\ (guest[h].email = e => guest'[h].state # "active")
  <2>1. SoundGuest(h) /\ guest[h] \in GuestRow
    BY <1>0 DEF TrialsInv
  <2>2. guest'[h] = IF h = trial[e].user THEN ExpiredGuest(guest[h]) ELSE guest[h]
    BY DEF ResetTrial
  <2>3. Active(h) /\ guest[h].email = e => h = trial[e].user
    BY <1>1, <2>1 DEF SoundGuest, Active
  <2>4. h = trial[e].user => guest[h].state \in {"active", "expired"}
    BY <1>0 DEF TrialsInv, SoundTrial
  <2> QED  BY <2>1, <2>2, <2>3, <2>4 DEF MinorGuest, ExpiredGuest, GuestRow, Active
<1>4. ASSUME NEW c \in Codes
      PROVE  MinorCode(c) /\ (code'[c].state = "open" => code'[c] = code[c])
  <2>1. code'[c] = IF code[c].email = e THEN ExpiredCode(code[c]) ELSE code[c]
    BY DEF ResetTrial, Invalidated, CodesOf
  <2>2. code[c] \in CodeRow
    BY <1>0
  <2> QED  BY <2>1, <2>2 DEF ExpiredCode, MinorCode, CodeRow
<1>5. trial[e].generation \in Nat
  BY <1>0 DEF TrialRow
<1>6. ASSUME NEW h \in Guests PROVE SoundGuest(h)'
  <2>1. SoundGuest(h) /\ MinorGuest(h) /\ guest[h] \in GuestRow
    BY <1>0, <1>3 DEF TrialsInv
  <2>2. CASE guest[h].state = "none"
    BY <2>1, <2>2 DEF SoundGuest, MinorGuest
  <2>3. CASE guest[h].state # "none" /\ guest[h].email = e
    <3>1. Age(h) \in Int /\ Age(h) <= trial[e].generation /\ guest[h].generation <= trial[e].generation
      BY <1>1, <1>5, <2>1, <2>3 DEF SoundGuest, Age
    <3> QED  BY <1>1, <1>2, <1>3, <1>5, <2>1, <2>3, <3>1 DEF SoundGuest, MinorGuest, Active, Age
  <2>4. CASE guest[h].state # "none" /\ guest[h].email # e
    <3>1. guest[h].email \in Emails /\ trial'[guest[h].email] = trial[guest[h].email]
      BY <1>2, <2>1, <2>4 DEF SoundGuest
    <3> QED  BY <1>1, <2>1, <2>4, <3>1 DEF SoundGuest, MinorGuest, Active, Age
  <2> QED  BY <2>2, <2>3, <2>4
<1>7. ASSUME NEW d \in Emails PROVE SoundTrial(d)'
  <2>1. SoundTrial(d) /\ trial[d].user \in Guests \cup {None}
    BY <1>0 DEF TrialsInv, TrialRow
  <2>2. trial[d].user # None => MinorGuest(trial[d].user)
    BY <1>3, <2>1
  <2>3. CASE d = e
    BY <1>1, <1>2, <2>3 DEF SoundTrial
  <2>4. CASE d # e
    BY <1>1, <1>2, <2>1, <2>2, <2>4 DEF SoundTrial, MinorGuest, Active, Age
  <2> QED  BY <2>3, <2>4
<1>8. ASSUME NEW c \in Codes PROVE SoundCode(c)'
  <2>1. SoundCode(c) /\ MinorCode(c) /\ code[c] \in CodeRow
    BY <1>0, <1>4 DEF TrialsInv
  <2>2. CASE code[c].state \in {"none", "deleted"}
    BY <2>1, <2>2 DEF SoundCode, MinorCode
  <2>3. CASE code[c].state \notin {"none", "deleted"}
    <3>1. code[c].email \in Emails /\ code[c].user \in Guests \cup {None} /\ code[c].generation \in Nat
      BY <2>1, <2>3 DEF RowsInv, Addressed, CodeRow
    <3>2. /\ code'[c].email = code[c].email /\ code'[c].user = code[c].user
          /\ code'[c].generation = code[c].generation /\ code'[c].state \notin {"none", "deleted"}
      BY <2>1, <2>3 DEF MinorCode, CodeRow
    <3>3. code[c].user # None => MinorGuest(code[c].user)
      BY <1>3, <3>1
    <3>4. CASE code[c].email = e
      BY <1>1, <1>2, <1>5, <2>1, <2>3, <3>1, <3>2, <3>3, <3>4 DEF SoundCode, MinorGuest, Active
    <3>5. CASE code[c].email # e
      <4>1. trial'[code[c].email] = trial[code[c].email] /\ \A h \in Guests : MinorGuest(h)
        BY <1>2, <1>3, <3>1, <3>5
      <4> QED  BY <1>1, <2>1, <2>3, <3>1, <3>2, <3>3, <4>1 DEF SoundCode, MinorGuest, Active
    <3> QED  BY <3>4, <3>5
  <2> QED  BY <2>2, <2>3
<1>9. ASSUME NEW q \in Requests PROVE SoundRedeem(q)'
  <2>1. SoundRedeem(q)
    BY DEF TrialsInv
  <2>2. CASE request[q].op = "redeem"
    <3>1. request[q].key \in Codes /\ request[q].email \in Emails
      BY <2>1, <2>2 DEF SoundRedeem, RowsInv, Addressed, WithEmail
    <3>2. MinorCode(request[q].key) /\ code[request[q].key] \in CodeRow
      BY <1>0, <1>4, <3>1
    <3>3. request[q].at = "locked" => request[q].email # e
      BY <1>1, <2>2, AccountsAssumption DEF LocksInv
    <3> QED  BY <1>1, <1>2, <2>1, <2>2, <3>1, <3>2, <3>3 DEF SoundRedeem, MinorCode, CodeRow
  <2>3. CASE request[q].op # "redeem"
    <3>1. request[q].op = "guest" => request[q].key \in Guests /\ MinorGuest(request[q].key)
      BY <1>3, <2>1 DEF SoundRedeem
    <3> QED  BY <1>1, <2>1, <2>3, <3>1 DEF SoundRedeem, MinorGuest
  <2> QED  BY <2>2, <2>3
<1>10. OneOpenCode'
  BY <1>1, <1>4 DEF OneOpenCode, TrialsInv
<1>11. OneTrialPerIdentity'
  <2>1. \A h \in Guests : guest'[h].email = guest[h].email /\ guest'[h].generation = guest[h].generation
    BY <1>3 DEF MinorGuest
  <2> QED  BY <1>1, <2>1 DEF OneTrialPerIdentity, TrialsInv
<1> QED  BY <1>1, <1>6, <1>7, <1>8, <1>9, <1>10, <1>11 DEF TrialsInv

\* An account is erased with its codes, and its identity forgets it.
LEMMA EraseTrials ==
    ASSUME RowsInv, RowsInv', LocksInv, TrialsInv, NEW g \in Guests, EraseGuest(g)
    PROVE  TrialsInv'
<1> DEFINE e == guest[g].email
<1>0. /\ \A h \in Guests : guest[h] \in GuestRow
      /\ \A d \in Emails : trial[d] \in TrialRow
      /\ \A c \in Codes : code[c] \in CodeRow
      /\ guest \in [Guests -> GuestRow]
      /\ None \notin Emails /\ None \notin Guests
  BY AccountsAssumption, GuestsAssumption DEF RowsInv, GuestRows
<1>1. policy' = policy /\ request' = request /\ holder[e] = None /\ guest[g].state = "expired"
  BY DEF EraseGuest, avars, Overdue
<1>2. SoundGuest(g) /\ e \in Emails
  <2>1. SoundGuest(g)
    BY DEF TrialsInv
  <2> QED  BY <1>1, <2>1 DEF SoundGuest
<1>3. /\ guest'[g].state = "erased" /\ guest'[g].content = 0 /\ ~guest'[g].signedIn /\ guest'[g].hold = "none"
      /\ guest'[g].email = e /\ guest'[g].generation = guest[g].generation
      /\ \A h \in Guests : h # g => guest'[h] = guest[h]
  BY <1>0 DEF EraseGuest, GuestRow
<1>4. ASSUME NEW d \in Emails
      PROVE  /\ trial'[d].redeemed = trial[d].redeemed /\ trial'[d].generation = trial[d].generation
             /\ trial'[d].user = IF trial[d].user = g THEN None ELSE trial[d].user
             /\ trial[d].user = g => d = e
             /\ ~policy => trial'[d] = trial[d]
  <2>1. trial[d] \in TrialRow /\ SoundTrial(d)
    BY <1>0 DEF TrialsInv
  <2>2. trial'[d] = IF trial[d].user = g THEN [trial[d] EXCEPT !.user = None] ELSE trial[d]
    BY DEF EraseGuest
  <2> QED  BY <1>0, <2>1, <2>2 DEF SoundTrial, TrialRow, NoTrial
<1>5. ASSUME NEW c \in Codes
      PROVE  code'[c] = IF c \in OwnedCodes(g) THEN [NoCode EXCEPT !.state = "deleted"] ELSE code[c]
  BY DEF EraseGuest
<1>6. ASSUME NEW h \in Guests PROVE SoundGuest(h)'
  <2>1. SoundGuest(h)
    BY DEF TrialsInv
  <2>2. CASE h = g
    BY <1>1, <1>2, <1>3, <1>4, <2>2 DEF SoundGuest, Age, Active
  <2>3. CASE h # g
    BY <1>1, <1>3, <1>4, <2>1, <2>3 DEF SoundGuest, Age, Active
  <2> QED  BY <2>2, <2>3
<1>7. ASSUME NEW d \in Emails PROVE SoundTrial(d)'
  <2>1. SoundTrial(d) /\ trial[d].user \in Guests \cup {None}
    BY <1>0 DEF TrialsInv, TrialRow
  <2> QED  BY <1>1, <1>3, <1>4, <2>1 DEF SoundTrial, Age
<1>8. ASSUME NEW c \in Codes PROVE SoundCode(c)'
  <2>1. SoundCode(c) /\ code[c] \in CodeRow
    BY <1>0 DEF TrialsInv
  <2>2. CASE c \in OwnedCodes(g)
    BY <1>5, <2>2 DEF SoundCode, NoCode
  <2>3. CASE c \notin OwnedCodes(g) /\ code[c].state \in {"none", "deleted"}
    BY <1>5, <2>1, <2>3 DEF SoundCode
  <2>4. CASE c \notin OwnedCodes(g) /\ code[c].state \notin {"none", "deleted"}
    <3>1. code[c].email \in Emails /\ code'[c] = code[c] /\ code[c].user \in Guests \cup {None} /\ code[c].user # g
      BY <1>5, <2>1, <2>4 DEF RowsInv, Addressed, CodeRow, OwnedCodes
    <3>2. code[c].user # None => guest'[code[c].user] = guest[code[c].user]
      BY <1>3, <3>1
    <3>3. policy /\ code[c].email = e /\ guest[g].generation = trial[e].generation =>
            code[c].generation # guest[g].generation
      <4> SUFFICES ASSUME policy, code[c].email = e, guest[g].generation = trial[e].generation,
                          code[c].generation = guest[g].generation
                   PROVE  FALSE
        OBVIOUS
      <4>1. trial[e].user = g
        BY <1>1, <1>2 DEF SoundGuest
      <4>2. code[c].user # None => code[c].user = g
        BY <2>1, <2>4, <4>1 DEF SoundCode
      <4> QED  BY <2>4, <3>1, <4>1, <4>2 DEF OwnedCodes
    <3> QED  BY <1>1, <1>3, <1>4, <2>1, <2>4, <3>1, <3>2, <3>3 DEF SoundCode
  <2> QED  BY <2>2, <2>3, <2>4
<1>9. ASSUME NEW q \in Requests PROVE SoundRedeem(q)'
  <2>1. SoundRedeem(q)
    BY DEF TrialsInv
  <2>2. CASE request[q].op = "redeem"
    <3>1. request[q].key \in Codes /\ request[q].email \in Emails
      BY <2>1, <2>2 DEF SoundRedeem, RowsInv, Addressed, WithEmail
    <3>2. \/ code'[request[q].key] = code[request[q].key]
          \/ code'[request[q].key].state = "deleted"
      BY <1>5, <3>1 DEF NoCode
    <3>3. request[q].at = "locked" => request[q].email # e
      BY <1>1, <2>2, AccountsAssumption DEF LocksInv
    <3> QED  BY <1>1, <1>4, <2>1, <2>2, <3>1, <3>2, <3>3 DEF SoundRedeem
  <2>3. CASE request[q].op # "redeem"
    BY <1>1, <1>3, <2>1, <2>3 DEF SoundRedeem
  <2> QED  BY <2>2, <2>3
<1>10. OneOpenCode'
  <2>1. \A c \in Codes : code'[c].state = "open" => code'[c] = code[c]
    BY <1>5 DEF NoCode
  <2> QED  BY <1>1, <2>1 DEF OneOpenCode, TrialsInv
<1>11. OneTrialPerIdentity'
  <2>1. \A h \in Guests : guest'[h].email = guest[h].email /\ guest'[h].generation = guest[h].generation
    BY <1>3
  <2> QED  BY <1>1, <2>1 DEF OneTrialPerIdentity, TrialsInv
<1> QED  BY <1>1, <1>6, <1>7, <1>8, <1>9, <1>10, <1>11 DEF TrialsInv

\* The account that keeps its trial is an active one of the address, and alone.
LEMMA KeeperAlone ==
    ASSUME NEW e
    PROVE  /\ \A g \in Keeper(e) : g \in Guests /\ guest[g].email = e /\ Active(g) /\ Min(Keeper(e)) = g
           /\ Keeper(e) # {} => Min(Keeper(e)) \in Keeper(e)
           /\ Keeper(e) # {} => GuestsOf(e) # {}
<1> DEFINE live == {g \in GuestsOf(e) : Active(g)}
<1>1. live \subseteq Guests /\ live \subseteq Nat
  BY GuestsAssumption DEF GuestsOf
<1>2. live # {} => Min(live) \in live
  BY <1>1, MinIn
<1>3. Keeper(e) = {} \/ (Keeper(e) = {Min(live)} /\ live # {})
  BY DEF Keeper
<1>4. Keeper(e) \subseteq live
  BY <1>2, <1>3
<1>5. Keeper(e) # {} => Min(Keeper(e)) \in Keeper(e)
  BY <1>1, <1>4, MinIn
<1>6. \A g \in Keeper(e) : Min(Keeper(e)) = g
  BY <1>3, <1>5
<1> QED  BY <1>4, <1>5, <1>6 DEF GuestsOf

\* The rows that earlier versions left are reconciled.
LEMMA BackfillTrials ==
    ASSUME RowsInv, RowsInv', TrialsInv, Backfill
    PROVE  TrialsInv'
<1>0. /\ \A h \in Guests : guest[h] \in GuestRow
      /\ \A c \in Codes : code[c] \in CodeRow
      /\ None \notin Emails /\ None \notin Guests
  BY AccountsAssumption, GuestsAssumption DEF RowsInv, GuestRows
<1>1. ~policy /\ policy' = TRUE /\ request' = request
  BY DEF Backfill, avars
<1>2. ASSUME NEW h \in Guests
      PROVE  /\ MinorGuest(h)
             /\ guest'[h].state = "active" => h \in Keeper(guest[h].email)
             /\ h \in Keeper(guest[h].email) => guest'[h] = guest[h]
  <2>1. guest'[h] = IF Active(h) /\ h \notin Keeper(guest[h].email) THEN ExpiredGuest(guest[h]) ELSE guest[h]
    BY DEF Backfill
  <2>2. guest[h] \in GuestRow
    BY <1>0
  <2> QED  BY <2>1, <2>2 DEF MinorGuest, ExpiredGuest, GuestRow, Active
<1>3. ASSUME NEW d \in Emails
      PROVE  /\ trial'[d].generation = 0 /\ (trial'[d].redeemed <=> GuestsOf(d) # {})
             /\ trial'[d].user = IF Keeper(d) = {} THEN None ELSE Min(Keeper(d))
  <2> DEFINE u == IF Keeper(d) = {} THEN None ELSE Min(Keeper(d))
             b == GuestsOf(d) # {}
  <2>1. trial'[d] = [NoTrial EXCEPT !.user = u, !.redeemed = b]
    BY DEF Backfill
  <2> HIDE DEF u, b
  <2>2. trial'[d].generation = 0 /\ trial'[d].redeemed = b /\ trial'[d].user = u
    BY <2>1 DEF NoTrial
  <2> QED  BY <2>2 DEF u, b
<1>4. ASSUME NEW c \in Codes
      PROVE  MinorCode(c) /\ (code'[c].state = "open" => code'[c] = code[c] /\ c \in KeptCode(code[c].email))
  <2>1. code'[c] = IF code[c].state = "open" /\ c \notin KeptCode(code[c].email)
                     THEN ExpiredCode(code[c]) ELSE code[c]
    BY DEF Backfill
  <2>2. code[c] \in CodeRow
    BY <1>0
  <2> QED  BY <2>1, <2>2 DEF MinorCode, ExpiredCode, CodeRow
<1>5. ASSUME NEW h \in Guests PROVE SoundGuest(h)'
  <2>1. SoundGuest(h) /\ MinorGuest(h)
    BY <1>2 DEF TrialsInv
  <2>2. CASE guest[h].state = "none"
    BY <2>1, <2>2 DEF SoundGuest, MinorGuest
  <2>3. CASE guest[h].state # "none"
    <3>1. guest[h].email \in Emails /\ guest[h].generation = -1 /\ h \in GuestsOf(guest[h].email)
      BY <1>1, <2>1, <2>3 DEF SoundGuest, GuestsOf
    <3>2. guest'[h].state = "active" => trial'[guest[h].email].user = h
      BY <1>2, <1>3, <3>1, KeeperAlone
    <3>3. trial'[guest[h].email].generation = 0 /\ trial'[guest[h].email].redeemed
      BY <1>3, <3>1
    <3> QED  BY <1>1, <2>1, <2>3, <3>1, <3>2, <3>3 DEF SoundGuest, MinorGuest, Active, Age
  <2> QED  BY <2>2, <2>3
<1>6. ASSUME NEW d \in Emails PROVE SoundTrial(d)'
  <2>1. CASE trial'[d].user = None
    BY <1>1, <2>1 DEF SoundTrial
  <2>2. CASE trial'[d].user # None
    <3>1. PICK g \in Guests : trial'[d].user = g /\ guest[g].email = d /\ Active(g) /\ g \in Keeper(d)
                               /\ GuestsOf(d) # {}
      BY <1>3, <2>2, KeeperAlone
    <3>2. guest'[g] = guest[g] /\ SoundGuest(g)
      BY <1>2, <3>1 DEF TrialsInv
    <3> QED  BY <1>1, <1>3, <3>1, <3>2 DEF SoundTrial, SoundGuest, Active, Age
  <2> QED  BY <2>1, <2>2
<1>7. ASSUME NEW c \in Codes PROVE SoundCode(c)'
  <2>1. SoundCode(c) /\ MinorCode(c) /\ code[c] \in CodeRow
    BY <1>0, <1>4 DEF TrialsInv
  <2>2. CASE code[c].state \in {"none", "deleted"}
    BY <2>1, <2>2 DEF SoundCode, MinorCode
  <2>3. CASE code[c].state \notin {"none", "deleted"}
    <3>1. code[c].email \in Emails
      BY <2>3 DEF RowsInv, Addressed
    <3>2. /\ code'[c].email = code[c].email /\ code'[c].user = code[c].user
          /\ code'[c].generation = code[c].generation /\ code'[c].state \notin {"none", "deleted"}
      BY <2>1, <2>3 DEF MinorCode, CodeRow
    <3>3. \A g \in Guests : guest'[g].state = "erased" => guest'[g].generation = -1
      <4> SUFFICES ASSUME NEW g \in Guests, guest'[g].state = "erased" PROVE guest'[g].generation = -1
        OBVIOUS
      <4>1. SoundGuest(g) /\ MinorGuest(g)
        BY <1>2 DEF TrialsInv
      <4> QED  BY <1>1, <4>1 DEF SoundGuest, MinorGuest, Active
    <3> QED  BY <1>1, <1>3, <2>1, <2>3, <3>1, <3>2, <3>3 DEF SoundCode
  <2> QED  BY <2>2, <2>3
<1>8. ASSUME NEW q \in Requests PROVE SoundRedeem(q)'
  <2>1. SoundRedeem(q)
    BY DEF TrialsInv
  <2> QED  BY <1>1, <2>1 DEF SoundRedeem
<1>9. OneOpenCode'
  <2>1. \A d : \A c, k \in KeptCode(d) : c = k
    BY DEF KeptCode
  <2> QED  BY <1>4, <2>1 DEF OneOpenCode
<1>10. OneTrialPerIdentity'
  <2>1. \A h \in Guests : guest'[h].email # None => guest'[h].generation = -1
    <3> SUFFICES ASSUME NEW h \in Guests, guest'[h].email # None PROVE guest'[h].generation = -1
      OBVIOUS
    <3>1. SoundGuest(h) /\ MinorGuest(h)
      BY <1>2 DEF TrialsInv
    <3> QED  BY <1>1, <3>1 DEF SoundGuest, MinorGuest, NoGuest
  <2> QED  BY <2>1 DEF OneTrialPerIdentity
<1> QED  BY <1>1, <1>5, <1>6, <1>7, <1>8, <1>9, <1>10 DEF TrialsInv

\* Deadlines and the writes of a guest's request.
LEMMA TimeTrials ==
    ASSUME RowsInv, RowsInv', TrialsInv,
           \/ \E e \in Emails : CooldownEnds(e)
           \/ \E c \in Codes : CodeExpires(c)
           \/ \E g \in Guests : TrialEnds(g) \/ WorkEnds(g)
           \/ \E q \in Requests, hold \in {"none", "work", "shared"} : GuestWrites(q, hold)
    PROVE  TrialsInv'
<1>0. /\ guest \in [Guests -> GuestRow] /\ trial \in [Emails -> TrialRow] /\ code \in [Codes -> CodeRow]
  BY DEF RowsInv, GuestRows
<1>1. policy' = policy
  BY DEF CooldownEnds, CodeExpires, TrialEnds, WorkEnds, GuestWrites
<1>2. ASSUME NEW d \in Emails PROVE MinorTrial(d)
  <2>1. CASE UNCHANGED trial
    BY <2>1 DEF MinorTrial
  <2>2. ASSUME NEW e \in Emails, CooldownEnds(e) PROVE MinorTrial(d)
    <3>1. ~policy => ~trial[e].cooling
      BY DEF TrialsInv, SoundTrial, NoTrial
    <3> QED  BY <1>0, <2>2, <3>1 DEF CooldownEnds, MinorTrial, TrialRow
  <2> QED  BY <2>1, <2>2 DEF CodeExpires, TrialEnds, WorkEnds, GuestWrites
<1>3. ASSUME NEW k \in Codes PROVE MinorCode(k)
  BY <1>0 DEF MinorCode, CooldownEnds, CodeExpires, TrialEnds, WorkEnds, GuestWrites
<1>4. ASSUME NEW h \in Guests PROVE MinorGuest(h)
  <2>0. guest[h] \in GuestRow /\ SoundGuest(h)
    BY <1>0 DEF TrialsInv
  <2>1. CASE UNCHANGED guest
    BY <2>1 DEF MinorGuest
  <2>2. ASSUME NEW g \in Guests, TrialEnds(g) PROVE MinorGuest(h)
    <3>1. guest'[h] = guest[h] \/ (Active(h) /\ guest'[h] = ExpiredGuest(guest[h]))
      BY <1>0, <2>2 DEF TrialEnds
    <3> QED  BY <2>0, <3>1 DEF MinorGuest, ExpiredGuest, GuestRow, Active
  <2>3. ASSUME NEW g \in Guests, WorkEnds(g) PROVE MinorGuest(h)
    <3>1. guest'[h] = guest[h] \/ (guest[h].hold = "work" /\ guest'[h] = [guest[h] EXCEPT !.hold = "none"])
      BY <1>0, <2>3 DEF WorkEnds
    <3>2. guest[h].hold = "work" => guest[h].state \notin {"none", "erased"}
      BY <2>0 DEF SoundGuest, NoGuest
    <3> QED  BY <2>0, <3>1, <3>2 DEF MinorGuest, GuestRow
  <2>4. ASSUME NEW q \in Requests, NEW hold \in {"none", "work", "shared"}, GuestWrites(q, hold) PROVE MinorGuest(h)
    <3>1. SoundRedeem(q) /\ request[q].op = "guest"
      BY <2>4 DEF TrialsInv, GuestWrites
    <3> DEFINE x == IF guest[h].hold = "none" THEN hold ELSE guest[h].hold
               n == guest[h].content + 1
    <3>2. guest'[h] = guest[h] \/ (h = request[q].key /\ guest'[h] = [guest[h] EXCEPT !.content = n, !.hold = x])
      BY <1>0, <2>4 DEF GuestWrites
    <3> HIDE DEF x, n
    <3>3. h = request[q].key => guest[h].state \notin {"none", "erased"}
      BY <2>4, <3>1 DEF SoundRedeem, GuestWrites
    <3> QED  BY <2>0, <3>2, <3>3 DEF MinorGuest, GuestRow
  <2> QED  BY <2>1, <2>2, <2>3, <2>4 DEF CooldownEnds, CodeExpires
<1>5. ASSUME NEW q \in Requests PROVE MinorRequest(q)
  <2>1. CASE UNCHANGED request
    BY <2>1 DEF MinorRequest
  <2>2. ASSUME NEW r \in Requests, NEW hold, GuestWrites(r, hold) PROVE MinorRequest(q)
    BY <2>2, FinishMoves, VacantRow DEF GuestWrites, MinorRequest
  <2> QED  BY <2>1, <2>2 DEF CooldownEnds, CodeExpires, TrialEnds, WorkEnds, avars
<1> QED  BY <1>1, <1>2, <1>3, <1>4, <1>5, MinorKeeps

LEMMA TrialsStep ==
    ASSUME RowsInv, RowsInv', LocksInv, TrialsInv, [AuthNext]_<<nvars, avars, gvars>>
    PROVE  TrialsInv'
<1>1. CASE AccountsNext /\ UNCHANGED gvars
  BY <1>1, AccountsTrials
<1>2. CASE UNCHANGED <<avars, gvars>>
  <2>1. \A q \in Requests : SoundRedeem(q)'
    <3> SUFFICES ASSUME NEW q \in Requests PROVE SoundRedeem(q)'
      OBVIOUS
    <3>1. SoundRedeem(q)
      BY DEF TrialsInv
    <3> QED  BY <1>2, <3>1 DEF SoundRedeem, avars, gvars
  <2> QED  BY <1>2, <2>1, SameTrials
<1>3. CASE CodesNext
  BY <1>3, BackfillTrials, IssueTrials, RedeemLoadTrials, RedeemLockTrials, RedeemCommitTrials,
     GuestRequestTrials, ResetTrials, TimeTrials DEF CodesNext
<1>4. CASE ErasureNext
  <2>1. ASSUME UNCHANGED <<policy, trial, code, guest, request>> PROVE TrialsInv'
    <3>1. (\A g \in Guests : MinorGuest(g)) /\ (\A e \in Emails : MinorTrial(e))
      BY <2>1 DEF MinorGuest, MinorTrial
    <3>2. (\A c \in Codes : MinorCode(c)) /\ (\A q \in Requests : MinorRequest(q))
      BY <2>1 DEF MinorCode, MinorRequest
    <3> QED  BY <2>1, <3>1, <3>2, MinorKeeps
  <2>2. SweepPage \/ (\E g \in Guests : DeferGuest(g)) => UNCHANGED <<policy, trial, code, guest, request>>
    BY DEF SweepPage, DeferGuest, avars
  <2> QED  BY <1>4, <2>1, <2>2, EraseTrials DEF ErasureNext
<1> QED  BY <1>1, <1>2, <1>3, <1>4 DEF AuthNext, GuestsNext

LEMMA TrialsInitially == AccountsInit /\ GuestsInit => TrialsInv
<1> SUFFICES ASSUME AccountsInit, GuestsInit PROVE TrialsInv
  OBVIOUS
<1>1. ASSUME NEW g \in Guests PROVE SoundGuest(g) /\ (guest[g].email # None => guest[g].generation = -1)
  <2>1. guest[g] \in LegacyGuests /\ ~policy
    BY DEF GuestsInit
  <2>2. CASE guest[g] = NoGuest
    BY <2>2 DEF SoundGuest, NoGuest
  <2>3. CASE guest[g] # NoGuest
    <3>1. PICK st \in {"active", "expired", "erased"}, e \in Emails : guest[g] = LegacyGuest(st, e)
      BY <2>1, <2>3 DEF LegacyGuests
    <3> DEFINE b == (st = "active")
    <3>2. guest[g] = [NoGuest EXCEPT !.state = st, !.email = e, !.generation = -1, !.signedIn = b]
      BY <3>1 DEF LegacyGuest
    <3>3. st = "erased" => b = FALSE
      OBVIOUS
    <3> HIDE DEF b
    <3>4. /\ guest[g].state = st /\ guest[g].email = e /\ guest[g].generation = -1 /\ guest[g].signedIn = b
          /\ guest[g].content = 0 /\ guest[g].hold = "none"
      BY <3>2 DEF NoGuest
    <3> QED  BY <2>1, <3>3, <3>4 DEF SoundGuest
  <2> QED  BY <2>2, <2>3
<1>2. ASSUME NEW e \in Emails PROVE SoundTrial(e)
  BY DEF GuestsInit, SoundTrial, NoTrial
<1>3. ASSUME NEW c \in Codes PROVE SoundCode(c)
  <2>1. code[c] \in LegacyCodes /\ ~policy
    BY DEF GuestsInit
  <2>2. CASE code[c] = NoCode
    BY <2>2 DEF SoundCode, NoCode
  <2>3. CASE code[c] # NoCode
    <3>1. PICK e \in Emails : code[c] = [NoCode EXCEPT !.state = "open", !.email = e]
      BY <2>1, <2>3 DEF LegacyCodes
    <3> QED  BY <2>1, <3>1 DEF SoundCode, NoCode
  <2> QED  BY <2>2, <2>3
<1>4. \A q \in Requests : SoundRedeem(q)
  BY VacantRow DEF AccountsInit, SoundRedeem, Vacant
<1>5. policy = FALSE
  BY DEF GuestsInit
<1> QED  BY <1>1, <1>2, <1>3, <1>4, <1>5 DEF TrialsInv, OneOpenCode, OneTrialPerIdentity

\* What the three named parts of TrialsSound say, from the invariant.
LEMMA TrialsSuffice ==
    ASSUME RowsInv, TrialsInv
    PROVE  OneTrialPerIdentity /\ OneUsableCode /\ ErasureComplete
<1>1. OneTrialPerIdentity
  BY DEF TrialsInv
<1>2. OneUsableCode
  <2>1. policy => \A c, d \in Codes : Usable(c) /\ Usable(d) /\ code[c].email = code[d].email => c = d
    BY DEF TrialsInv, OneOpenCode, Usable
  <2>2. ASSUME policy, NEW g \in Guests, Active(g) PROVE trial[guest[g].email].user = g
    <3>1. SoundGuest(g)
      BY DEF TrialsInv
    <3> QED  BY <2>2, <3>1 DEF SoundGuest, Active
  <2> QED  BY <2>1, <2>2 DEF OneUsableCode
<1>3. ErasureComplete
  <2> SUFFICES ASSUME NEW g \in Guests, guest[g].state = "erased", policy
               PROVE  /\ guest[g].content = 0 /\ ~guest[g].signedIn
                      /\ \A c \in Codes : code[c].user # g
                      /\ \A e \in Emails : trial[e].user # g
                      /\ \A c \in Codes :
                           /\ code[c].email = guest[g].email
                           /\ guest[g].generation = trial[guest[g].email].generation
                           => code[c].generation # guest[g].generation
    BY DEF ErasureComplete
  <2>0. SoundGuest(g) /\ guest[g].email \in Emails /\ g # None
    BY GuestsAssumption, AccountsAssumption DEF TrialsInv, SoundGuest
  <2>1. guest[g].content = 0 /\ ~guest[g].signedIn
    BY <2>0 DEF SoundGuest
  <2>2. ASSUME NEW c \in Codes PROVE code[c].user # g
    <3>1. SoundCode(c)
      BY DEF TrialsInv
    <3> QED  BY <2>0, <3>1 DEF SoundCode, NoCode
  <2>3. ASSUME NEW e \in Emails PROVE trial[e].user # g
    <3>1. SoundTrial(e)
      BY DEF TrialsInv
    <3> QED  BY <2>0, <3>1 DEF SoundTrial
  <2>4. ASSUME NEW c \in Codes, code[c].email = guest[g].email,
               guest[g].generation = trial[guest[g].email].generation
        PROVE  code[c].generation # guest[g].generation
    <3>1. SoundCode(c) /\ None \notin Emails
      BY AccountsAssumption DEF TrialsInv
    <3> QED  BY <2>0, <2>4, <3>1 DEF SoundCode, NoCode
  <2> QED  BY <2>1, <2>2, <2>3, <2>4
<1> QED  BY <1>1, <1>2, <1>3

-----------------------------------------------------------------------------
(* Bounds. *)

LEMMA PasswordsStepBounded ==
    ASSUME RowsInv, PasswordsBounded, [AuthNext]_<<nvars, avars, gvars>>
    PROVE  PasswordsBounded'
<1>0. /\ \A e \in Emails : account[e].password <= MaxPassword
      /\ \A s \in Sessions : session[s].password <= MaxPassword
      /\ \A q \in Requests : request[q].password <= MaxPassword
  BY DEF PasswordsBounded
<1>1. /\ account \in [Emails -> AccountRow] /\ session \in [Sessions -> SessionRow]
      /\ request \in [Requests -> RequestRow] /\ MaxPassword \in Nat
  BY AccountsAssumption DEF RowsInv, AccountRows
<1>2. \A e \in Emails : account[e].password \in Nat
  BY <1>1 DEF AccountRow
<1>3. ASSUME NEW e \in Emails PROVE account'[e].password <= MaxPassword
  <2>1. CASE UNCHANGED account
    BY <1>0, <2>1
  <2>2. ASSUME NEW q \in Requests, NEW t \in Tokens, NEW auto \in AutoApproval, SignupCommit(q, t, auto)
        PROVE account'[e].password = account[e].password
    <3> DEFINE x == IF auto THEN "approved" ELSE "pending"
    <3>1. account' = [account EXCEPT ![request[q].email].status = x]
      BY <2>2 DEF SignupCommit
    <3> HIDE DEF x
    <3> QED  BY <1>1, <3>1 DEF AccountRow
  <2>3. ASSUME NEW f \in Emails, NEW t \in Tokens, NEW mark \in BOOLEAN, Approve(f, t, mark)
        PROVE account'[e].password = account[e].password
    <3> DEFINE x == account[f].verified \/ mark
    <3>1. account' = [account EXCEPT ![f].status = "approved", ![f].verified = x]
      BY <1>1, <2>3 DEF Approve
    <3> HIDE DEF x
    <3> QED  BY <1>1, <3>1 DEF AccountRow
  <2>4. ASSUME NEW f \in Emails, Reject(f) PROVE account'[e].password = account[e].password
    BY <1>1, <2>4 DEF Reject, AccountRow
  <2>5. ASSUME NEW q \in Requests, VerifyEmail(q) PROVE account'[e].password = account[e].password
    BY <1>1, <2>5 DEF VerifyEmail, AccountRow
  <2>6. ASSUME NEW q \in Requests, CommitPassword(q) PROVE account'[e].password <= MaxPassword
    <3>1. /\ account[request[q].email].password < MaxPassword
          /\ account' = [account EXCEPT ![request[q].email].password = account[request[q].email].password + 1]
      BY <2>6 DEF CommitPassword
    <3> QED  BY <1>0, <1>1, <1>2, <3>1 DEF AccountRow
  <2>7. AccountsNext => \/ UNCHANGED account
                        \/ \E q \in Requests, t \in Tokens, auto \in AutoApproval : SignupCommit(q, t, auto)
                        \/ \E f \in Emails, t \in Tokens, mark \in BOOLEAN : Approve(f, t, mark)
                        \/ \E f \in Emails : Reject(f)
                        \/ \E q \in Requests : VerifyEmail(q) \/ CommitPassword(q)
    BY DEF AccountsNext, SignupStart, LoginVerify, ResendVerification, RequestPasswordReset,
       LoginCommit, UpdatePasswordLoad, Logout, TokenExpires, ConsumeLoad, SelectSessions, Abandon
  <2>8. GuestsNext => UNCHANGED account
    BY DEF GuestsNext, CodesNext, ErasureNext, Backfill, Issue, RedeemLoad, RedeemLock, RedeemCommit,
       GuestRequest, ResetTrial, CooldownEnds, CodeExpires, GuestWrites, TrialEnds, WorkEnds, SweepPage,
       DeferGuest, EraseGuest, avars
  <2> QED  BY <1>0, <2>1, <2>2, <2>3, <2>4, <2>5, <2>6, <2>7, <2>8 DEF AuthNext, avars
<1>4. ASSUME NEW s \in Sessions PROVE session'[s].password <= MaxPassword
  <2>1. ASSUME NEW q \in Requests, NEW o \in Sessions, LoginCommit(q, o)
        PROVE  session'[s].password <= MaxPassword
    BY <1>0, <1>1, <2>1 DEF LoginCommit
  <2>2. ASSUME NEW o \in Sessions, Logout(o) PROVE session'[s].password = session[s].password
    BY <1>1, <2>2 DEF Logout, SessionRow
  <2>3. ASSUME NEW q \in Requests, CommitPassword(q) PROVE session'[s].password = session[s].password
    <3>1. session'[s] = session[s] \/ session'[s] = [session[s] EXCEPT !.state = "revoked"]
      BY <2>3 DEF CommitPassword
    <3> QED  BY <1>1, <3>1 DEF SessionRow
  <2>4. AccountsNext => \/ UNCHANGED session
                        \/ \E q \in Requests, o \in Sessions : LoginCommit(q, o)
                        \/ \E o \in Sessions : Logout(o)
                        \/ \E q \in Requests : CommitPassword(q)
    BY DEF AccountsNext, SignupStart, LoginVerify, SignupCommit, ResendVerification, RequestPasswordReset,
       Approve, Reject, UpdatePasswordLoad, TokenExpires, ConsumeLoad, VerifyEmail, SelectSessions, Abandon
  <2>5. GuestsNext => UNCHANGED session
    BY DEF GuestsNext, CodesNext, ErasureNext, Backfill, Issue, RedeemLoad, RedeemLock, RedeemCommit,
       GuestRequest, ResetTrial, CooldownEnds, CodeExpires, GuestWrites, TrialEnds, WorkEnds, SweepPage,
       DeferGuest, EraseGuest, avars
  <2> QED  BY <1>0, <2>1, <2>2, <2>3, <2>4, <2>5 DEF AuthNext, avars
<1>5. ASSUME NEW r \in Requests PROVE request'[r].password <= MaxPassword
  <2>0. Vacant.password = 0 /\ 0 <= MaxPassword
    BY <1>1 DEF Vacant
  <2>1. ASSUME NEW q \in Requests, NEW e \in Emails, LoginVerify(q, e)
        PROVE  request'[r].password <= MaxPassword
    <3> DEFINE x == Changing(e)
    <3>1. request' = [request EXCEPT ![q] = [Vacant EXCEPT !.op = "login", !.at = "verified",
                        !.email = e, !.password = account[e].password, !.crossed = x]]
      BY <2>1 DEF LoginVerify
    <3> HIDE DEF x
    <3> QED  BY <1>0, <1>1, <3>1 DEF Vacant
  <2>2. ASSUME NEW q \in Requests, SelectSessions(q) PROVE request'[r].password = request[r].password
    <3> DEFINE v == Revocable(request[q].email)
               x == request[r].crossed \/ (request[r].op = "login" /\ request[r].email = request[q].email)
    <3>1. \/ request'[r] = [request[q] EXCEPT !.at = "revoking", !.seen = v] /\ r = q
          \/ request'[r] = [request[r] EXCEPT !.crossed = x]
      BY <1>1, <2>2 DEF SelectSessions
    <3> HIDE DEF v, x
    <3> QED  BY <1>1, <3>1 DEF RequestRow
  <2>3. ASSUME NEW q \in Requests, Finish(q) PROVE request'[r].password <= MaxPassword
    BY <1>0, <1>1, <2>0, <2>3 DEF Finish
  <2>4. ASSUME NEW q \in Requests, request'[q].password = 0, \A o \in Requests : o # q => request'[o] = request[o]
        PROVE  request'[r].password <= MaxPassword
    BY <1>0, <2>0, <2>4
  <2>5. ASSUME NEW q \in Requests, NEW e \in Emails, SignupStart(q, e)
        PROVE  request'[q].password = 0 /\ \A o \in Requests : o # q => request'[o] = request[o]
    BY <1>1, <2>5 DEF SignupStart, Vacant
  <2>6. ASSUME NEW q \in Requests, NEW t \in Tokens, ConsumeLoad(q, t)
        PROVE  request'[q].password = 0 /\ \A o \in Requests : o # q => request'[o] = request[o]
    BY <1>1, <2>6 DEF ConsumeLoad, Vacant
  <2>7. ASSUME NEW q \in Requests, NEW s \in Sessions, UpdatePasswordLoad(q, s)
        PROVE  request'[q].password = 0 /\ \A o \in Requests : o # q => request'[o] = request[o]
    BY <1>1, <2>7 DEF UpdatePasswordLoad, Vacant
  <2>8. ASSUME NEW q \in Requests, NEW c \in Codes, RedeemLoad(q, c)
        PROVE  request'[q].password = 0 /\ \A o \in Requests : o # q => request'[o] = request[o]
    BY <1>1, <2>8 DEF RedeemLoad, Vacant
  <2>9. ASSUME NEW q \in Requests, NEW g \in Guests, GuestRequest(q, g)
        PROVE  request'[q].password = 0 /\ \A o \in Requests : o # q => request'[o] = request[o]
    BY <1>1, <2>9 DEF GuestRequest, Vacant
  <2>10. ASSUME NEW q \in Requests, RedeemLock(q) PROVE request'[r].password = request[r].password
    BY <1>1, <2>10 DEF RedeemLock, RequestRow
  <2>11. AccountsNext => \/ UNCHANGED request
                         \/ \E q \in Requests : Finish(q) \/ SelectSessions(q)
                         \/ \E q \in Requests, e \in Emails : LoginVerify(q, e) \/ SignupStart(q, e)
                         \/ \E q \in Requests, s \in Sessions : UpdatePasswordLoad(q, s)
                         \/ \E q \in Requests, t \in Tokens : ConsumeLoad(q, t)
    BY DEF AccountsNext, SignupCommit, ResendVerification, RequestPasswordReset,
       Approve, Reject, TokenExpires, VerifyEmail, Abandon, LoginCommit, Logout, CommitPassword
  <2>12. GuestsNext => \/ UNCHANGED request
                       \/ \E q \in Requests : Finish(q) \/ RedeemLock(q)
                       \/ \E q \in Requests, c \in Codes : RedeemLoad(q, c)
                       \/ \E q \in Requests, g \in Guests : GuestRequest(q, g)
    BY DEF GuestsNext, CodesNext, ErasureNext, Backfill, Issue, RedeemCommit,
       ResetTrial, CooldownEnds, CodeExpires, GuestWrites, TrialEnds, WorkEnds, SweepPage,
       DeferGuest, EraseGuest, avars
  <2>13. CASE AccountsNext
    BY <1>0, <2>1, <2>2, <2>3, <2>4, <2>5, <2>6, <2>7, <2>11, <2>13
  <2>14. CASE GuestsNext
    BY <1>0, <2>3, <2>4, <2>8, <2>9, <2>10, <2>12, <2>14
  <2> QED  BY <1>0, <2>13, <2>14 DEF AuthNext, avars
<1> QED  BY <1>3, <1>4, <1>5 DEF PasswordsBounded

LEMMA TrialsStepBounded ==
    ASSUME RowsInv, TrialsBounded, [AuthNext]_<<nvars, avars, gvars>>
    PROVE  TrialsBounded'
<1>0. /\ \A e \in Emails : trial[e].generation <= MaxGeneration /\ trial[e].sent <= DailyLimit
      /\ \A g \in Guests : guest[g].content <= MaxContent
  BY DEF TrialsBounded
<1>1. /\ trial \in [Emails -> TrialRow] /\ guest \in [Guests -> GuestRow]
      /\ MaxGeneration \in Nat /\ DailyLimit \in Nat /\ MaxContent \in Nat
      /\ NoTrial.generation = 0 /\ NoTrial.sent = 0 /\ NoGuest.content = 0
  BY GuestsAssumption DEF RowsInv, GuestRows, NoTrial, NoGuest
<1>2. ASSUME NEW e \in Emails PROVE trial'[e].generation <= MaxGeneration /\ trial'[e].sent <= DailyLimit
  <2>0. trial[e] \in TrialRow
    BY <1>1
  <2>1. CASE UNCHANGED trial
    BY <1>0, <2>1
  <2>2. CASE Backfill
    <3> DEFINE u == IF Keeper(e) = {} THEN None ELSE Min(Keeper(e))
               b == GuestsOf(e) # {}
    <3>1. trial'[e] = [NoTrial EXCEPT !.user = u, !.redeemed = b]
      BY <2>2 DEF Backfill
    <3> HIDE DEF u, b
    <3>2. trial'[e].generation = 0 /\ trial'[e].sent = 0
      BY <3>1 DEF NoTrial
    <3> QED  BY <1>1, <3>2
  <2>3. ASSUME NEW f \in Emails, NEW c \in Codes, Issue(f, c)
        PROVE  trial'[e].generation <= MaxGeneration /\ trial'[e].sent <= DailyLimit
    <3>1. trial[f].sent < DailyLimit /\ trial[f] \in TrialRow
          /\ trial' = [trial EXCEPT ![f].cooling = TRUE, ![f].sent = @ + 1]
      BY <1>1, <2>3 DEF Issue
    <3>2. /\ trial'[e].generation = trial[e].generation
          /\ trial'[e].sent = IF e = f THEN trial[f].sent + 1 ELSE trial[e].sent
      BY <1>1, <2>0, <3>1 DEF TrialRow
    <3>3. trial[f].sent \in Nat /\ trial[e].sent \in Nat
      BY <2>0, <3>1 DEF TrialRow
    <3> QED  BY <1>0, <1>1, <3>1, <3>2, <3>3
  <2>4. ASSUME NEW q \in Requests, NEW g \in Guests, RedeemCommit(q, g)
        PROVE  trial'[e].generation = trial[e].generation /\ trial'[e].sent = trial[e].sent
    <3>1. UNCHANGED trial \/ trial' = [trial EXCEPT ![request[q].email].user = g, ![request[q].email].redeemed = TRUE]
      BY <2>4 DEF RedeemCommit
    <3> QED  BY <1>1, <2>0, <3>1 DEF TrialRow
  <2>5. ASSUME NEW f \in Emails, ResetTrial(f)
        PROVE  trial'[e].generation <= MaxGeneration /\ trial'[e].sent <= DailyLimit
    <3> DEFINE s == trial[f].sent
               n == trial[f].generation + 1
    <3>1. trial[f].generation < MaxGeneration /\ trial[f] \in TrialRow
          /\ trial' = [trial EXCEPT ![f] = [NoTrial EXCEPT !.sent = s, !.generation = n]]
      BY <1>1, <2>5 DEF ResetTrial
    <3>2. n <= MaxGeneration /\ s <= DailyLimit
      BY <1>0, <1>1, <3>1 DEF TrialRow
    <3> HIDE DEF n, s
    <3>3. trial'[e] = trial[e] \/ (trial'[e].generation = n /\ trial'[e].sent = s)
      BY <1>1, <3>1 DEF NoTrial
    <3> QED  BY <1>0, <3>2, <3>3
  <2>6. ASSUME NEW f \in Emails, CooldownEnds(f)
        PROVE  trial'[e].generation = trial[e].generation /\ trial'[e].sent = trial[e].sent
    BY <1>1, <2>0, <2>6 DEF CooldownEnds, TrialRow
  <2>7. ASSUME NEW g \in Guests, EraseGuest(g)
        PROVE  trial'[e].generation = trial[e].generation /\ trial'[e].sent = trial[e].sent
    BY <2>0, <2>7 DEF EraseGuest, TrialRow
  <2>8. GuestsNext => \/ UNCHANGED trial
                      \/ Backfill \/ (\E f \in Emails, c \in Codes : Issue(f, c))
                      \/ \E q \in Requests, g \in Guests : RedeemCommit(q, g)
                      \/ \E f \in Emails : ResetTrial(f) \/ CooldownEnds(f)
                      \/ \E g \in Guests : EraseGuest(g)
    BY DEF GuestsNext, CodesNext, ErasureNext, RedeemLoad, RedeemLock, GuestRequest,
       CodeExpires, GuestWrites, TrialEnds, WorkEnds, SweepPage, DeferGuest, gvars
  <2> QED  BY <1>0, <2>1, <2>2, <2>3, <2>4, <2>5, <2>6, <2>7, <2>8 DEF AuthNext, gvars
<1>3. ASSUME NEW g \in Guests PROVE guest'[g].content <= MaxContent
  <2>0. guest[g] \in GuestRow
    BY <1>1
  <2>e. ASSUME NEW h \in Guests
        PROVE  ExpiredGuest(guest[h]).content = guest[h].content
    BY <1>1 DEF ExpiredGuest, GuestRow
  <2>1. CASE Backfill
    BY <1>0, <2>e, <2>1 DEF Backfill
  <2>2. ASSUME NEW q \in Requests, NEW h \in Guests, RedeemCommit(q, h) PROVE guest'[g].content <= MaxContent
    <3>1. CASE trial[request[q].email].user = None
      <4> DEFINE r == [NoGuest EXCEPT !.state = "active", !.email = request[q].email, !.signedIn = TRUE,
                                      !.generation = trial[request[q].email].generation]
      <4>1. guest' = [guest EXCEPT ![h] = r]
        BY <2>2, <3>1 DEF RedeemCommit
      <4>2. r.content = 0
        BY DEF NoGuest
      <4> HIDE DEF r
      <4> QED  BY <1>0, <1>1, <4>1, <4>2
    <3>2. CASE trial[request[q].email].user # None
      <4> DEFINE x == Active(h)
      <4>1. guest' = [guest EXCEPT ![h].signedIn = x]
        BY <2>2, <3>2 DEF RedeemCommit
      <4> HIDE DEF x
      <4>2. guest'[g].content = guest[g].content
        BY <1>1, <2>0, <4>1 DEF GuestRow
      <4> QED  BY <1>0, <4>2
    <3> QED  BY <3>1, <3>2
  <2>3. ASSUME NEW e \in Emails, ResetTrial(e) PROVE guest'[g].content <= MaxContent
    BY <1>0, <2>e, <2>3 DEF ResetTrial
  <2>4. ASSUME NEW h \in Guests, TrialEnds(h) PROVE guest'[g].content <= MaxContent
    BY <1>0, <1>1, <2>e, <2>4 DEF TrialEnds
  <2>5. ASSUME NEW q \in Requests, NEW hold \in {"none", "work", "shared"}, GuestWrites(q, hold)
        PROVE  guest'[g].content <= MaxContent
    <3> DEFINE h == request[q].key
               x == IF guest[h].hold = "none" THEN hold ELSE guest[h].hold
    <3>1. guest[h].content < MaxContent /\ guest' = [guest EXCEPT ![h].content = @ + 1, ![h].hold = x]
      BY <1>1, <2>5 DEF GuestWrites
    <3> HIDE DEF h, x
    <3>2. guest'[g].content = IF g = h THEN guest[h].content + 1 ELSE guest[g].content
      BY <1>1, <2>0, <3>1 DEF GuestRow
    <3>3. guest[g].content \in Nat
      BY <2>0 DEF GuestRow
    <3> QED  BY <1>0, <1>1, <3>1, <3>2, <3>3
  <2>6. ASSUME NEW h \in Guests, WorkEnds(h) PROVE guest'[g].content = guest[g].content
    BY <1>1, <2>0, <2>6 DEF WorkEnds, GuestRow
  <2>7. ASSUME NEW h \in Guests, EraseGuest(h) PROVE guest'[g].content \in {0, guest[g].content}
    <3>1. guest' = [guest EXCEPT ![h].state = "erased", ![h].signedIn = FALSE, ![h].content = 0]
      BY <2>7 DEF EraseGuest
    <3> QED  BY <1>1, <2>0, <3>1 DEF GuestRow
  <2>8. GuestsNext => \/ UNCHANGED guest
                      \/ Backfill
                      \/ \E q \in Requests, h \in Guests : RedeemCommit(q, h)
                      \/ \E e \in Emails : ResetTrial(e)
                      \/ \E h \in Guests : TrialEnds(h) \/ WorkEnds(h) \/ EraseGuest(h)
                      \/ \E q \in Requests, hold \in {"none", "work", "shared"} : GuestWrites(q, hold)
    BY DEF GuestsNext, CodesNext, ErasureNext, Issue, RedeemLoad, RedeemLock, GuestRequest,
       CodeExpires, CooldownEnds, SweepPage, DeferGuest, gvars
  <2> QED  BY <1>0, <1>1, <2>1, <2>2, <2>3, <2>4, <2>5, <2>6, <2>7, <2>8 DEF AuthNext, gvars
<1> QED  BY <1>2, <1>3 DEF TrialsBounded

\* The sweep counts on from the account it has tried.
LEMMA SweepStepBounded ==
    ASSUME SweepBounded, [AuthNext]_<<nvars, avars, gvars>>
    PROVE  SweepBounded'
<1>1. ASSUME SweepPage PROVE SweepBounded'
  <2>1. FirstOf(Behind) \subseteq Guests
    BY DEF FirstOf, Behind
  <2>2. sweep' = [todo |-> {}, cursor |-> 0] \/ sweep' = [sweep EXCEPT !.todo = FirstOf(Behind)]
    BY <1>1 DEF SweepPage
  <2> QED  BY <2>1, <2>2 DEF SweepBounded
<1>2. ASSUME NEW g \in Guests, SweepNext(g) PROVE SweepBounded'
  BY <1>2 DEF SweepNext, SweepBounded
<1>3. GuestsNext => UNCHANGED sweep \/ SweepPage \/ \E g \in Guests : SweepNext(g)
  BY DEF GuestsNext, CodesNext, ErasureNext, Backfill, Issue, RedeemLoad, RedeemLock, RedeemCommit,
     GuestRequest, ResetTrial, CooldownEnds, CodeExpires, GuestWrites, TrialEnds, WorkEnds,
     DeferGuest, EraseGuest, gvars
<1> QED  BY <1>1, <1>2, <1>3 DEF AuthNext, gvars, SweepBounded

\* While the count of faults grows, no claim is out of proportion.
LEMMA FaultAttempts ==
    ASSUME NotifyInv, AttemptsBounded, Fault,
           \A u \in Accounts : notice'[u].attempts = notice[u].attempts
                               /\ (notice'[u].lease = notice[u].lease \/ notice'[u].lease = 0),
           \A p \in Senders : sender'[p].attempt \in {0, sender[p].attempt}
    PROVE  AttemptsBounded'
<1>1. ASSUME NEW u \in Accounts PROVE SoundAttempts(u)'
  <2>1. SoundAttempts(u) /\ notice[u].lease \in Nat /\ notice[u].attempts \in Nat /\ faults \in Nat
    BY DEF AttemptsBounded, NotifyInv, NotifyRows, NoticeRow
  <2>2. notice'[u].attempts < faults' + 1
    BY <2>1 DEF SoundAttempts, Fault
  <2> QED  BY <2>1, <2>2 DEF SoundAttempts, Fault
<1>2. ASSUME NEW p \in Senders PROVE sender'[p].attempt <= faults' + 1
  <2>1. sender[p].attempt <= faults + 1 /\ sender[p].attempt \in Nat /\ faults \in Nat
    BY DEF AttemptsBounded, NotifyInv, NotifyRows, SenderRow
  <2> QED  BY <2>1 DEF Fault
<1> QED  BY <1>1, <1>2 DEF AttemptsBounded

\* One row and one sweep change, and no fault happens: the rows of other users, and the
\* sweeps that work on them, stay.
LEMMA OthersAttempts ==
    ASSUME NotifyInv, AttemptsBounded, faults' = faults, NEW u \in Accounts, NEW p \in Senders,
           \A v \in Accounts : v # u => notice'[v] = notice[v],
           \A o \in Senders : o # p => sender'[o] = sender[o],
           sender[p].user \in {u, None},
           SoundAttempts(u)', sender'[p].attempt <= faults + 1
    PROVE  AttemptsBounded'
<1>1. ASSUME NEW v \in Accounts, v # u PROVE SoundAttempts(v)'
  <2>1. SoundAttempts(v) /\ notice'[v] = notice[v] /\ None \notin Accounts
    BY <1>1, AccountsAssumption DEF AttemptsBounded
  <2>2. ASSUME NEW o \in Senders, sender[o].user = v, Owned(o) PROVE sender'[o].user = v /\ Owned(o)'
    <3>1. o # p
      BY <1>1, <2>1, <2>2
    <3> QED  BY <2>1, <2>2, <3>1 DEF Owned
  <2> QED  BY <2>1, <2>2 DEF SoundAttempts
<1>2. ASSUME NEW o \in Senders PROVE sender'[o].attempt <= faults' + 1
  BY DEF AttemptsBounded
<1> QED  BY <1>1, <1>2 DEF AttemptsBounded

LEMMA ClaimAttempts ==
    ASSUME NotifyInv, AttemptsBounded, NEW p \in Senders, NEW u \in Accounts, Claim(p, u)
    PROVE  AttemptsBounded'
<1> DEFINE n == notice[u].attempts + 1
<1>1. /\ notice' = [notice EXCEPT ![u].attempts = n, ![u].lease = n, ![u].held = TRUE]
      /\ sender' = [sender EXCEPT ![p] = [at |-> "claimed", user |-> u, attempt |-> n]]
      /\ sender[p].at = "idle" /\ Eligible(u) /\ faults' = faults
  BY DEF Claim
<1>2. /\ notice[u] \in NoticeRow /\ notice \in [Accounts -> NoticeRow] /\ sender \in [Senders -> SenderRow]
      /\ faults \in Nat /\ SoundAttempts(u)
  BY DEF NotifyInv, NotifyRows, AttemptsBounded
<1>3. n \in Nat /\ n <= faults + 1
  BY <1>1, <1>2 DEF SoundAttempts, Eligible, NoticeRow
<1> HIDE DEF n
<1>4. notice'[u].attempts = n /\ notice'[u].lease = n /\ notice'[u].held
  BY <1>1, <1>2 DEF NoticeRow
<1>5. sender'[p].user = u /\ sender'[p].attempt = n
  BY <1>1, <1>2
<1>6. SoundAttempts(u)'
  <2>1. sender'[p].user = u /\ Owned(p)'
    BY <1>4, <1>5 DEF Owned
  <2>2. notice'[u].lease <= notice'[u].attempts /\ notice'[u].attempts <= faults' + 1
    BY <1>1, <1>3, <1>4
  <2> QED  BY <1>4, <2>1, <2>2 DEF SoundAttempts
<1>7. sender[p].user = None
  BY <1>1 DEF NotifyInv, SoundSender, Resting
<1>8. \A v \in Accounts : v # u => notice'[v] = notice[v]
  BY <1>1, <1>2
<1>9. \A o \in Senders : o # p => sender'[o] = sender[o]
  BY <1>1, <1>2
<1> QED  BY <1>1, <1>3, <1>5, <1>6, <1>7, <1>8, <1>9, OthersAttempts

\* The mail is accepted, or its row is marked as sent: no fault.
LEMMA MailAttempts ==
    ASSUME NotifyInv, AttemptsBounded, NEW p \in Senders, MailAccepted(p) \/ MarkSent(p),
           NEW u, u = sender[p].user
    PROVE  AttemptsBounded'
<1>1. sender[p].at # "idle" /\ faults' = faults
  BY DEF MailAccepted, MarkSent
<1>2. /\ u \in Accounts /\ notice[u] \in NoticeRow /\ sender[p] \in SenderRow
      /\ notice \in [Accounts -> NoticeRow] /\ sender \in [Senders -> SenderRow]
      /\ faults \in Nat /\ SoundAttempts(u) /\ sender[p].attempt <= faults + 1
  BY <1>1, AtWork DEF NotifyInv, NotifyRows, AttemptsBounded
<1>3. CASE MailAccepted(p)
  <2>1. notice' = notice /\ sender' = [sender EXCEPT ![p].at = "mailed"]
    BY <1>3 DEF MailAccepted
  <2>2. \A o \in Senders : sender'[o].user = sender[o].user /\ sender'[o].attempt = sender[o].attempt
    BY <1>2, <2>1 DEF SenderRow
  <2>3. SoundAttempts(u)'
    BY <1>1, <1>2, <2>1, <2>2 DEF SoundAttempts, Owned
  <2>4. \A o \in Senders : o # p => sender'[o] = sender[o]
    BY <1>2, <2>1
  <2> QED  BY <1>1, <1>2, <2>1, <2>2, <2>3, <2>4, OthersAttempts
<1>4. CASE MarkSent(p)
  <2> DEFINE n == [Unleased(notice[u]) EXCEPT !.state = "sent"]
  <2>1. /\ notice' = IF Owned(p) THEN [notice EXCEPT ![u] = n] ELSE notice
        /\ sender' = [sender EXCEPT ![p] = Resting]
    BY <1>2, <1>4 DEF MarkSent
  <2>2. n.state = "sent" /\ n.lease = 0 /\ n.attempts = notice[u].attempts
    BY <1>2 DEF Unleased, NoticeRow
  <2> HIDE DEF n
  <2>3. \A v \in Accounts : v # u => notice'[v] = notice[v]
    BY <1>2, <2>1
  <2>4. \A o \in Senders : o # p => sender'[o] = sender[o]
    BY <1>2, <2>1
  <2>5. sender'[p].attempt = 0
    BY <1>2, <2>1 DEF Resting
  <2>6. CASE Owned(p)
    <3>1. notice'[u] = n
      BY <1>2, <2>1, <2>6
    <3>2. SoundAttempts(u)'
      BY <1>1, <1>2, <2>2, <3>1 DEF SoundAttempts, NoticeRow
    <3> QED  BY <1>1, <1>2, <2>3, <2>4, <2>5, <3>2, OthersAttempts
  <2>7. CASE ~Owned(p)
    <3>1. notice' = notice
      BY <2>1, <2>7
    <3>2. ASSUME NEW o \in Senders, sender[o].user = u, Owned(o) PROVE sender'[o].user = u /\ Owned(o)'
      <4>1. o # p
        BY <2>7, <3>2
      <4> QED  BY <2>4, <3>1, <3>2, <4>1 DEF Owned
    <3>3. SoundAttempts(u)'
      BY <1>1, <1>2, <3>1, <3>2 DEF SoundAttempts
    <3> QED  BY <1>1, <1>2, <2>3, <2>4, <2>5, <3>3, OthersAttempts
  <2> QED  BY <2>6, <2>7
<1> QED  BY <1>3, <1>4

\* Time passes over a row.
LEMMA ElapseAttempts ==
    ASSUME NotifyInv, AttemptsBounded, NEW u \in Accounts, LeaseElapses(u) \/ BackoffElapses(u)
    PROVE  AttemptsBounded'
<1>1. /\ notice \in [Accounts -> NoticeRow] /\ notice[u] \in NoticeRow /\ faults \in Nat /\ sender' = sender
      /\ SoundAttempts(u)
  BY DEF NotifyInv, NotifyRows, AttemptsBounded, LeaseElapses, BackoffElapses
<1>2. /\ \A v \in Accounts : v # u => notice'[v] = notice[v]
      /\ notice'[u].attempts = notice[u].attempts /\ notice'[u].lease = notice[u].lease
      /\ notice'[u].state = notice[u].state
  BY <1>1 DEF LeaseElapses, BackoffElapses, NoticeRow
<1>3. CASE Fault
  <2>1. \A v \in Accounts : notice'[v].attempts = notice[v].attempts /\ notice'[v].lease = notice[v].lease
    BY <1>2
  <2> QED  BY <1>1, <1>3, <2>1, FaultAttempts
<1>4. CASE ~Fault
  <2>1. faults' = faults
    BY <1>4 DEF LeaseElapses, BackoffElapses
  <2>2. \A v \in Accounts : v # u => SoundAttempts(v)'
    BY <1>1, <1>2, <2>1 DEF SoundAttempts, Owned, AttemptsBounded
  <2>3. LeaseElapses(u) => ~\E p \in Senders : sender[p].user = u /\ Owned(p)
    BY <1>4 DEF LeaseElapses
  <2>4. BackoffElapses(u) => notice'[u].held = notice[u].held
    BY <1>1 DEF BackoffElapses, NoticeRow
  <2>5. SoundAttempts(u)'
    BY <1>1, <1>2, <2>1, <2>3, <2>4 DEF SoundAttempts, Owned
  <2>6. \A v \in Accounts : SoundAttempts(v)'
    BY <2>2, <2>5
  <2> QED  BY <1>1, <2>1, <2>6 DEF AttemptsBounded
<1> QED  BY <1>3, <1>4

LEMMA DeliverAttempts == ASSUME NotifyInv, AttemptsBounded, Deliver PROVE AttemptsBounded'
<1>1. ASSUME NEW p \in Senders, ReleaseOnStop(p) \/ MailRefused(p) \/ SenderDies(p) PROVE AttemptsBounded'
  <2>0. sender[p].at # "idle" /\ Fault /\ sender' = [sender EXCEPT ![p] = Resting]
    BY <1>1 DEF ReleaseOnStop, MailRefused, CallRaises, SenderDies
  <2> DEFINE u == sender[p].user
             n == Unleased(notice[u])
             d == [Unleased(notice[u]) EXCEPT !.due = FALSE]
  <2>1. u \in Accounts /\ notice[u] \in NoticeRow /\ notice \in [Accounts -> NoticeRow]
        /\ sender \in [Senders -> SenderRow]
    BY <2>0, AtWork DEF NotifyInv, NotifyRows
  <2>2. notice' = notice \/ notice' = [notice EXCEPT ![u] = n] \/ notice' = [notice EXCEPT ![u] = d]
    BY <1>1, <2>1 DEF ReleaseOnStop, MailRefused, SenderDies
  <2>3. n.attempts = notice[u].attempts /\ d.attempts = notice[u].attempts /\ n.lease = 0 /\ d.lease = 0
    BY <2>1 DEF Unleased, NoticeRow
  <2> HIDE DEF n, d
  <2>4. \A v \in Accounts : notice'[v].attempts = notice[v].attempts
                            /\ (notice'[v].lease = notice[v].lease \/ notice'[v].lease = 0)
    BY <2>1, <2>2, <2>3
  <2>5. \A o \in Senders : sender'[o].attempt \in {0, sender[o].attempt}
    BY <2>0, <2>1 DEF Resting
  <2> QED  BY <2>0, <2>4, <2>5, FaultAttempts
<1> QED  BY <1>1, ClaimAttempts, MailAttempts, ElapseAttempts DEF Deliver

LEMMA EnqueueAttempts ==
    ASSUME NotifyInv, AttemptsBounded, NEW u \in Accounts, EnqueueRegistration(u),
           UNCHANGED <<sender, mails, doubts, faults>>
    PROVE  AttemptsBounded'
<1> DEFINE n == [NoNotice EXCEPT !.state = "queued", !.due = TRUE]
<1>1. notice' = [notice EXCEPT ![u] = n] /\ notice \in [Accounts -> NoticeRow] /\ faults \in Nat
  BY DEF EnqueueRegistration, NotifyInv, NotifyRows
<1>2. n.attempts = 0 /\ n.lease = 0
  BY DEF NoNotice
<1> HIDE DEF n
<1>3. SoundAttempts(u)'
  BY <1>1, <1>2 DEF SoundAttempts
<1>4. \A v \in Accounts : v # u => SoundAttempts(v)'
  BY <1>1 DEF SoundAttempts, Owned, AttemptsBounded
<1> QED  BY <1>3, <1>4 DEF AttemptsBounded

LEMMA AttemptsStep ==
    ASSUME RowsInv, NotifyInv, AttemptsBounded, [AuthNext]_<<nvars, avars, gvars>>
    PROVE  AttemptsBounded'
<1>1. CASE UNCHANGED nvars
  BY <1>1 DEF nvars, AttemptsBounded, SoundAttempts, Owned
<1>2. ASSUME NEW q \in Requests, NEW t \in Tokens, NEW auto \in AutoApproval, SignupCommit(q, t, auto)
      PROVE  AttemptsBounded'
  <2>1. request[q].email \in Accounts
    BY <1>2, AccountsAssumption DEF SignupCommit, RowsInv, Addressed, WithEmail
  <2> QED  BY <1>2, <2>1, EnqueueAttempts DEF SignupCommit
<1>3. ASSUME NEW q \in Requests, NEW g \in Guests, RedeemCommit(q, g) PROVE AttemptsBounded'
  <2>1. g \in Accounts
    BY GuestsAssumption
  <2>2. CASE trial[request[q].email].user = None
    BY <1>3, <2>1, <2>2, EnqueueAttempts DEF RedeemCommit
  <2>3. CASE trial[request[q].email].user # None
    BY <1>1, <1>3, <2>3 DEF RedeemCommit, nvars
  <2> QED  BY <2>2, <2>3
<1>4. AccountsNext => UNCHANGED nvars \/ \E q \in Requests, t \in Tokens, auto \in AutoApproval : SignupCommit(q, t, auto)
  BY DEF AccountsNext, SignupStart, LoginVerify, ResendVerification, RequestPasswordReset, Approve, Reject,
     LoginCommit, UpdatePasswordLoad, Logout, TokenExpires, ConsumeLoad, VerifyEmail, SelectSessions,
     CommitPassword, Abandon
<1>5. GuestsNext => UNCHANGED nvars \/ \E q \in Requests, g \in Guests : RedeemCommit(q, g)
  BY DEF GuestsNext, CodesNext, ErasureNext, Backfill, Issue, RedeemLoad, RedeemLock,
     GuestRequest, ResetTrial, CooldownEnds, CodeExpires, GuestWrites, TrialEnds, WorkEnds, SweepPage,
     DeferGuest, EraseGuest
<1> QED  BY <1>1, <1>2, <1>3, <1>4, <1>5, DeliverAttempts DEF AuthNext

LEMMA BoundsInitially == NotifyInit /\ AccountsInit /\ GuestsInit => BoundsInv
<1> SUFFICES ASSUME NotifyInit, AccountsInit, GuestsInit PROVE BoundsInv
  OBVIOUS
<1>1. PasswordsBounded
  BY AccountsAssumption DEF PasswordsBounded, AccountsInit, NoAccount, NoSession, Vacant
<1>2. TrialsBounded
  <2>1. ASSUME NEW g \in Guests PROVE guest[g].content = 0
    <3>1. guest[g] \in LegacyGuests
      BY DEF GuestsInit
    <3>2. ASSUME NEW st \in {"active", "expired", "erased"}, NEW e \in Emails, guest[g] = LegacyGuest(st, e)
          PROVE  guest[g].content = 0
      <4> DEFINE b == (st = "active")
      <4>1. guest[g] = [NoGuest EXCEPT !.state = st, !.email = e, !.generation = -1, !.signedIn = b]
        BY <3>2 DEF LegacyGuest
      <4> HIDE DEF b
      <4> QED  BY <4>1 DEF NoGuest
    <3> QED  BY <3>1, <3>2 DEF LegacyGuests, NoGuest
  <2>2. \A e \in Emails : trial[e].generation = 0 /\ trial[e].sent = 0
    BY DEF GuestsInit, NoTrial
  <2> QED  BY <2>1, <2>2, GuestsAssumption DEF TrialsBounded
<1>3. SweepBounded
  BY DEF SweepBounded, GuestsInit
<1>4. AttemptsBounded
  BY DEF AttemptsBounded, SoundAttempts, NotifyInit, NoNotice, Resting
<1> QED  BY <1>1, <1>2, <1>3, <1>4 DEF BoundsInv

LEMMA GuestsTyped ==
    ASSUME RowsInv, NotifyInv, BoundsInv, policy \in BOOLEAN
    PROVE  GuestsTypeOK
<1>1. NotifyTypeOK
  <2>1. MaxFaults \in Nat /\ faults \in 0..MaxFaults
    BY NotifyAssumption DEF NotifyInv, NotifyRows
  <2>2. ASSUME NEW u \in Accounts
        PROVE  notice[u] \in [state : {"none", "queued", "sent"}, due : BOOLEAN, lease : 0 .. MaxFaults + 1,
                              held : BOOLEAN, attempts : 0 .. MaxFaults + 1]
    <3>1. notice[u] \in NoticeRow /\ notice[u].attempts <= faults + 1 /\ notice[u].lease <= notice[u].attempts
      BY DEF NotifyInv, NotifyRows, BoundsInv, AttemptsBounded, SoundAttempts
    <3>2. notice[u].attempts \in 0..MaxFaults + 1 /\ notice[u].lease \in 0..MaxFaults + 1
      BY <2>1, <3>1 DEF NoticeRow
    <3> QED  BY <3>1, <3>2 DEF NoticeRow
  <2>3. ASSUME NEW p \in Senders
        PROVE  sender[p] \in [at : {"idle", "claimed", "mailed"}, user : Accounts \cup {None},
                              attempt : 0 .. MaxFaults + 1]
    <3>1. sender[p] \in SenderRow /\ sender[p].attempt <= faults + 1
      BY DEF NotifyInv, NotifyRows, BoundsInv, AttemptsBounded
    <3>2. sender[p].attempt \in 0..MaxFaults + 1
      BY <2>1, <3>1 DEF SenderRow
    <3> QED  BY <3>1, <3>2 DEF SenderRow
  <2>4. notice \in [Accounts -> NoticeRow] /\ sender \in [Senders -> SenderRow]
    BY DEF NotifyInv, NotifyRows
  <2> QED  BY <2>1, <2>2, <2>3, <2>4 DEF NotifyTypeOK
<1>2. AccountsTypeOK
  <2>1. /\ account \in [Emails -> AccountRow] /\ session \in [Sessions -> SessionRow] /\ MaxPassword \in Nat
        /\ token \in [Tokens -> TokenRow] /\ holder \in [Emails -> Requests \cup {None}]
    BY AccountsAssumption DEF RowsInv, AccountRows
  <2>2. ASSUME NEW e \in Emails
        PROVE  account[e] \in [status : {"none", "pending", "approved", "rejected"}, verified : BOOLEAN,
                               password : 0 .. MaxPassword]
    <3>1. account[e] \in AccountRow /\ account[e].password <= MaxPassword
      BY <2>1 DEF BoundsInv, PasswordsBounded
    <3>2. account[e].password \in 0..MaxPassword
      BY <2>1, <3>1 DEF AccountRow
    <3> QED  BY <3>1, <3>2 DEF AccountRow
  <2>3. ASSUME NEW s \in Sessions
        PROVE  session[s] \in [email : Emails \cup {None}, state : {"none", "live", "revoked"},
                               password : 0 .. MaxPassword, crossed : BOOLEAN]
    <3>1. session[s] \in SessionRow /\ session[s].password <= MaxPassword
      BY <2>1 DEF BoundsInv, PasswordsBounded
    <3>2. session[s].password \in 0..MaxPassword
      BY <2>1, <3>1 DEF SessionRow
    <3> QED  BY <3>1, <3>2 DEF SessionRow
  <2> QED  BY <2>1, <2>2, <2>3 DEF AccountsTypeOK, TokenRow
<1>3. ASSUME NEW e \in Emails
      PROVE  trial[e] \in [user : Guests \cup {None}, redeemed : BOOLEAN, generation : 0 .. MaxGeneration,
                           cooling : BOOLEAN, sent : 0 .. DailyLimit]
  <2>1. /\ trial[e] \in TrialRow /\ trial[e].generation <= MaxGeneration /\ trial[e].sent <= DailyLimit
        /\ MaxGeneration \in Nat /\ DailyLimit \in Nat
    BY GuestsAssumption DEF RowsInv, GuestRows, BoundsInv, TrialsBounded
  <2>2. trial[e].generation \in 0..MaxGeneration /\ trial[e].sent \in 0..DailyLimit
    BY <2>1 DEF TrialRow
  <2> QED  BY <2>1, <2>2 DEF TrialRow
<1>4. ASSUME NEW c \in Codes PROVE code[c].state \in {"none", "open", "consumed", "expired", "deleted"}
  BY DEF RowsInv, GuestRows, CodeRow
<1>5. ASSUME NEW g \in Guests
      PROVE  guest[g].state \in {"none", "active", "expired", "erased"} /\ guest[g].content \in 0 .. MaxContent
  <2>1. guest[g] \in GuestRow /\ guest[g].content <= MaxContent /\ MaxContent \in Nat
    BY GuestsAssumption DEF RowsInv, GuestRows, BoundsInv, TrialsBounded
  <2> QED  BY <2>1 DEF GuestRow
<1>6. trial \in [Emails -> TrialRow] /\ sweep \in [todo : SUBSET Guests, cursor : Guests \cup {0}]
  BY DEF RowsInv, GuestRows, BoundsInv, SweepBounded
<1> QED  BY <1>1, <1>2, <1>3, <1>4, <1>5, <1>6 DEF GuestsTypeOK

\* However requests, operators, deadlines and sweeps interleave, an address has one trial in a
\* generation, one usable code and one running trial, and an erased guest leaves nothing it
\* could return with.
THEOREM TrialsAreSound == AuthSpec => []TrialsSound
<1> DEFINE I == TrialsInv /\ BoundsInv
<1>1. NotifyInit /\ AccountsInit /\ GuestsInit => I
  BY TrialsInitially, BoundsInitially
<1>2. AuthInv /\ AuthInv' /\ I /\ [AuthNext]_<<nvars, avars, gvars>> => I'
  BY TrialsStep, PasswordsStepBounded, TrialsStepBounded, SweepStepBounded, AttemptsStep
  DEF AuthInv, AlertsInv, BoundsInv
<1>3. AuthInv /\ I => TrialsSound
  BY TrialsSuffice, GuestsTyped DEF AuthInv, AlertsInv, TrialsInv, TrialsSound
<1> QED  BY <1>1, <1>2, <1>3, AuthInvariance, PTL DEF AuthSpec
=============================================================================
