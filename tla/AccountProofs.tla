---------------------------- MODULE AccountProofs ----------------------------
(***************************************************************************)
(* What an account may rely on, for all accounts, authorities, partners,   *)
(* periods and amounts: it stays recoverable by its old owner and its old  *)
(* partner, and by nobody else (Recovery), and its shares are counted      *)
(* right, promised once and withdrawn exactly (Stake).                     *)
(***************************************************************************)
EXTENDS Recovery, Stake, FoldLemmas, SequenceTheorems

-----------------------------------------------------------------------------
(* Recovery: the inductive invariant. *)

Olds  == [auth : OwnerAuths, until : Nat]
Pasts == [auth : OwnerAuths, until : Nat, partners : SUBSET (Partners \cup {Nobody})]

RecoveryShape ==
    /\ clock \in Nat /\ owner \in OwnerAuths
    /\ last_update \in Int /\ last_recovery \in Int
    /\ recovery_account \in Partners \cup {Nobody} /\ top_witness \in Partners
    /\ history \in Seq(Olds) /\ past \in Seq(Pasts)
    /\ request \in [auth : OwnerAuths, expires : Nat, by : Partners] \cup {Nobody}
    /\ change \in [account : Partners, effective : Nat] \cup {Nobody}
    /\ held \in [Partners -> Int]

\* Requests and changes are removed in the block in which they are due.
NotDue ==
    /\ request # Nobody => request.expires > clock
    /\ change # Nobody => change.effective > clock

\* Nothing in the history is in the future, and it is in order.
InOrder ==
    /\ \A i \in 1 .. Len(history) : history[i].until <= clock
    /\ \A i, j \in 1 .. Len(history) : i < j => history[i].until <= history[j].until
    /\ \A i \in 1 .. Len(past) : past[i].until <= clock

Listed(hist, h) == \E i \in 1 .. Len(hist) : hist[i] = h
Been(h) == \E i \in 1 .. Len(past) : past[i].auth = h.auth /\ past[i].until = h.until

\* HistoryIsComplete, entry by entry.
Complete == \A h \in Olds : Listed(history, h) <=> Been(h) /\ h.until + RecoveryPeriod >= clock

\* A partner that was not one when an authority was replaced does not become
\* one while that authority can still be used.
PartnersKept ==
    \A i \in 1 .. Len(past) :
        clock < past[i].until + RecoveryPeriod =>
            /\ recovery_account \in past[i].partners
            /\ change # Nobody => \/ change.account \in past[i].partners
                                  \/ change.effective >= past[i].until + RecoveryPeriod

\* The partner can request now, and no request is older than when its author
\* last could.
Requested ==
    /\ held[Partner(recovery_account, top_witness)] = clock
    /\ \A p \in Partners : held[p] <= clock
    /\ request # Nobody => request.expires <= held[request.by] + RequestPeriod

RecoveryInv == RecoveryShape /\ NotDue /\ InOrder /\ Complete /\ PartnersKept /\ Requested

-----------------------------------------------------------------------------

LEMMA Periods == RecoveryPeriod \in Nat \ {0} /\ RequestPeriod \in Nat \ {0} /\ UpdateLimit \in Nat
BY RecoveryAssumption

LEMMA PartnerIsOne ==
    ASSUME NEW a \in Partners \cup {Nobody}, NEW top \in Partners
    PROVE  Partner(a, top) \in Partners
BY DEF Partner

\* The times of the entries.
LEMMA Times ==
    /\ \A s \in Seq(Olds) : \A i \in 1 .. Len(s) : s[i] \in Olds /\ s[i].until \in Nat
    /\ \A s \in Seq(Pasts) : \A i \in 1 .. Len(s) : s[i] \in Pasts /\ s[i].until \in Nat
<1>1. /\ \A s \in Seq(Olds) : \A i \in 1 .. Len(s) : s[i] \in Olds
      /\ \A s \in Seq(Pasts) : \A i \in 1 .. Len(s) : s[i] \in Pasts
  OBVIOUS
<1>2. (\A h \in Olds : h.until \in Nat) /\ (\A h \in Pasts : h.until \in Nat)
  BY DEF Olds, Pasts
<1> QED  BY <1>1, <1>2

LEMMA RecoveryInitInv == RecoveryInit => RecoveryInv
<1> SUFFICES ASSUME RecoveryInit PROVE RecoveryInv
  OBVIOUS
<1> USE Periods DEF RecoveryInit
<1>1. history = <<>> /\ past = <<>> /\ Len(history) = 0 /\ Len(past) = 0
  OBVIOUS
<1>2. RecoveryShape
  BY <1>1 DEF RecoveryShape
<1>3. NotDue
  BY DEF NotDue
<1>4. InOrder /\ Complete /\ PartnersKept
  BY <1>1 DEF InOrder, Complete, PartnersKept, Listed, Been
<1>5. Requested
  BY PartnerIsOne DEF Requested
<1> QED  BY <1>2, <1>3, <1>4, <1>5 DEF RecoveryInv

\* An owner authority that is replaced goes into the history, with those who
\* are or are about to become the partner.
LEMMA UpdateKeeps ==
    ASSUME RecoveryInv, NEW auth \in OwnerAuths, update_owner_authority(auth),
           UNCHANGED <<clock, recovery_account, change>>
    PROVE  /\ owner' \in OwnerAuths /\ last_update' \in Int
           /\ history' \in Seq(Olds) /\ past' \in Seq(Pasts)
           /\ InOrder' /\ Complete' /\ PartnersKept'
<1> DEFINE old == [auth |-> owner, until |-> clock]
           was == [auth |-> owner, until |-> clock,
                   partners |-> {recovery_account}
                                \cup (IF change = Nobody THEN {} ELSE {change.account})]
<1> USE Periods DEF RecoveryInv
<1>1. old \in Olds
  BY DEF Olds, RecoveryShape
<1>2. was \in Pasts
  <2>1. change # Nobody => change.account \in Partners
    BY DEF RecoveryShape
  <2> QED  BY <2>1 DEF Pasts, RecoveryShape
<1>3. history' = Append(history, old) /\ past' = Append(past, was)
  BY DEF update_owner_authority
<1>4. was.auth = owner /\ was.until = clock /\ recovery_account \in was.partners
      /\ (change # Nobody => change.account \in was.partners)
  OBVIOUS
<1>5. old.auth = owner /\ old.until = clock
  OBVIOUS
<1> HIDE DEF old, was
<1>6. history \in Seq(Olds) /\ past \in Seq(Pasts) /\ clock \in Nat
  BY DEF RecoveryShape
<1>7. /\ history' \in Seq(Olds) /\ Len(history') = Len(history) + 1
      /\ \A i \in 1 .. Len(history) : history'[i] = history[i]
      /\ history'[Len(history) + 1] = old
  BY <1>1, <1>3, <1>6, AppendProperties
<1>8. /\ past' \in Seq(Pasts) /\ Len(past') = Len(past) + 1
      /\ \A i \in 1 .. Len(past) : past'[i] = past[i]
      /\ past'[Len(past) + 1] = was
  BY <1>2, <1>3, <1>6, AppendProperties
<1>9. Len(history) \in Nat /\ Len(past) \in Nat
  BY <1>6
<1>10. \A i \in 1 .. Len(history') : i \in 1 .. Len(history) \/ i = Len(history) + 1
  BY <1>7, <1>9
<1>11. \A i \in 1 .. Len(past') : i \in 1 .. Len(past) \/ i = Len(past) + 1
  BY <1>8, <1>9
<1>12. InOrder'
  <2>1. \A i \in 1 .. Len(history') : history'[i].until <= clock
    BY <1>5, <1>6, <1>7, <1>10 DEF InOrder
  <2>2. \A i \in 1 .. Len(past') : past'[i].until <= clock
    BY <1>4, <1>6, <1>8, <1>11 DEF InOrder
  <2>3. ASSUME NEW i \in 1 .. Len(history'), NEW j \in 1 .. Len(history'), i < j
        PROVE  history'[i].until <= history'[j].until
    <3>1. i \in 1 .. Len(history)
      BY <1>7, <1>9, <2>3
    <3>2. CASE j \in 1 .. Len(history)
      BY <1>7, <2>3, <3>1, <3>2 DEF InOrder
    <3>3. CASE j = Len(history) + 1
      BY <1>5, <1>7, <3>1, <3>3 DEF InOrder
    <3> QED  BY <1>10, <3>2, <3>3
  <2> QED  BY <2>1, <2>2, <2>3 DEF InOrder
<1>13. Complete'
  <2> SUFFICES ASSUME NEW h \in Olds
               PROVE  Listed(history', h) <=> Been(h)' /\ h.until + RecoveryPeriod >= clock
    BY DEF Complete
  <2>1. Listed(history', h) <=> Listed(history, h) \/ h = old
    <3>1. Len(history) + 1 \in 1 .. Len(history') /\ \A i \in 1 .. Len(history) : i \in 1 .. Len(history')
      BY <1>7, <1>9
    <3> QED  BY <1>7, <1>10, <3>1 DEF Listed
  <2>2. Been(h)' <=> Been(h) \/ (h.auth = owner /\ h.until = clock)
    <3>1. Len(past) + 1 \in 1 .. Len(past') /\ \A i \in 1 .. Len(past) : i \in 1 .. Len(past')
      BY <1>8, <1>9
    <3> QED  BY <1>4, <1>8, <1>11, <3>1 DEF Been
  <2>3. h = old <=> h.auth = owner /\ h.until = clock
    BY <1>1 DEF Olds, old
  <2>4. Listed(history, h) <=> Been(h) /\ h.until + RecoveryPeriod >= clock
    BY DEF Complete
  <2>5. h.until = clock => h.until + RecoveryPeriod >= clock
    BY <1>6
  <2> QED  BY <2>1, <2>2, <2>3, <2>4, <2>5
<1>14. PartnersKept'
  <2> SUFFICES ASSUME NEW i \in 1 .. Len(past'), clock < past'[i].until + RecoveryPeriod
               PROVE  /\ recovery_account \in past'[i].partners
                      /\ change # Nobody => \/ change.account \in past'[i].partners
                                            \/ change.effective >= past'[i].until + RecoveryPeriod
    BY DEF PartnersKept
  <2>1. CASE i \in 1 .. Len(past)
    BY <1>8, <2>1 DEF PartnersKept
  <2>2. CASE i = Len(past) + 1
    BY <1>4, <1>8, <2>2
  <2> QED  BY <1>11, <2>1, <2>2
<1> QED  BY <1>6, <1>7, <1>8, <1>12, <1>13, <1>14 DEF update_owner_authority, RecoveryShape

LEMMA AccountUpdateInv ==
    ASSUME RecoveryInv, NEW auth \in OwnerAuths, AccountUpdate(auth)
    PROVE  RecoveryInv'
<1>1. /\ owner' \in OwnerAuths /\ last_update' \in Int
      /\ history' \in Seq(Olds) /\ past' \in Seq(Pasts)
      /\ InOrder' /\ Complete' /\ PartnersKept'
  BY UpdateKeeps DEF AccountUpdate
<1> QED  BY <1>1 DEF RecoveryInv, AccountUpdate, RecoveryShape, NotDue, Requested

LEMMA RecoverAccountInv ==
    ASSUME RecoveryInv, NEW recent \in OwnerAuths, NEW auth \in OwnerAuths, RecoverAccount(recent, auth)
    PROVE  RecoveryInv'
<1>1. /\ owner' \in OwnerAuths /\ last_update' \in Int
      /\ history' \in Seq(Olds) /\ past' \in Seq(Pasts)
      /\ InOrder' /\ Complete' /\ PartnersKept'
  BY UpdateKeeps DEF RecoverAccount
<1> QED  BY <1>1 DEF RecoveryInv, RecoverAccount, RecoveryShape, NotDue, Requested

\* A request is as new as the partner's time.
LEMMA RequestInv ==
    ASSUME RecoveryInv, NEW p \in Partners,
           CancelRequest(p) \/ \E auth \in OwnerAuths : RequestRecovery(p, auth)
    PROVE  RecoveryInv'
<1> USE Periods DEF RecoveryInv
<1>1. /\ request' \in [auth : OwnerAuths, expires : Nat, by : Partners] \cup {Nobody}
      /\ request' # Nobody => request'.expires = clock + RequestPeriod /\ request'.by = p
      /\ p = Partner(recovery_account, top_witness)
  <2>1. CASE CancelRequest(p)
    BY <2>1 DEF CancelRequest
  <2>2. ASSUME NEW auth \in OwnerAuths, RequestRecovery(p, auth)
        PROVE  /\ request' = [auth |-> auth, expires |-> clock + RequestPeriod, by |-> p]
               /\ p = Partner(recovery_account, top_witness)
    BY <2>2 DEF RequestRecovery
  <2>3. clock + RequestPeriod \in Nat
    BY DEF RecoveryShape
  <2> QED  BY <2>1, <2>2, <2>3
<1>2. UNCHANGED <<clock, owner, last_update, last_recovery, recovery_account, top_witness,
                  history, change, past, held>>
  BY DEF CancelRequest, RequestRecovery
<1>3. RecoveryShape' /\ InOrder' /\ Complete' /\ PartnersKept'
  BY <1>1, <1>2 DEF RecoveryShape, InOrder, Complete, PartnersKept, Listed, Been
<1>4. NotDue'
  BY <1>1, <1>2 DEF NotDue, RecoveryShape
<1>5. Requested'
  BY <1>1, <1>2 DEF Requested, RecoveryShape
<1> QED  BY <1>3, <1>4, <1>5

\* A change of the recovery account takes as long as the history reaches back.
LEMMA ChangeInv ==
    ASSUME RecoveryInv, NEW p \in Partners, ChangeRecoveryAccount(p)
    PROVE  RecoveryInv'
<1> USE Periods DEF RecoveryInv
<1>1. /\ change' \in [account : Partners, effective : Nat] \cup {Nobody}
      /\ change' # Nobody => change'.effective = clock + RecoveryPeriod
  <2>1. clock + RecoveryPeriod \in Nat
    BY DEF RecoveryShape
  <2> QED  BY <2>1 DEF ChangeRecoveryAccount
<1>2. UNCHANGED <<clock, owner, last_update, last_recovery, recovery_account, top_witness,
                  history, request, past, held>>
  BY DEF ChangeRecoveryAccount
<1>3. RecoveryShape' /\ InOrder' /\ Complete' /\ Requested'
  BY <1>1, <1>2 DEF RecoveryShape, InOrder, Complete, Requested, Listed, Been
<1>4. NotDue'
  BY <1>1, <1>2 DEF NotDue, RecoveryShape
<1>5. PartnersKept'
  <2>1. \A i \in 1 .. Len(past) : past[i].until <= clock /\ past[i].until \in Nat
    BY Times DEF InOrder, RecoveryShape
  <2>2. clock \in Nat
    BY DEF RecoveryShape
  <2> QED  BY <1>1, <1>2, <2>1, <2>2 DEF PartnersKept
<1> QED  BY <1>3, <1>4, <1>5

\* Forgetting from the oldest on leaves exactly what is still valid.
LEMMA ForgetKeeps ==
    ASSUME RecoveryInv, NEW t \in Nat, t > clock, Forget(t)
    PROVE  /\ history' \in Seq(Olds)
           /\ \A i \in 1 .. Len(history') : history'[i].until <= clock
           /\ \A i, j \in 1 .. Len(history') : i < j => history'[i].until <= history'[j].until
           /\ \A h \in Olds : Listed(history', h) <=> Listed(history, h) /\ ~Invalid(h, t)
<1>1. PICK k \in 0 .. Len(history) :
        /\ \A i \in 1 .. k : Invalid(history[i], t)
        /\ k < Len(history) => ~Invalid(history[k + 1], t)
        /\ history' = SubSeq(history, k + 1, Len(history))
  BY DEF Forget
<1>2. history \in Seq(Olds) /\ Len(history) \in Nat /\ clock \in Nat /\ RecoveryPeriod \in Nat
  BY Periods DEF RecoveryInv, RecoveryShape
<1>3. \A i \in 1 .. Len(history) : history[i] \in Olds /\ history[i].until \in Nat
  BY <1>2, Times
<1>4. PICK n \in Nat : n = Len(history)
  BY <1>2
<1>5. /\ history' \in Seq(Olds) /\ Len(history') = n - k
      /\ \A i \in 1 .. n - k : history'[i] = history[k + i]
  BY <1>1, <1>2, <1>3, <1>4
<1>6. \A i \in 1 .. n - k : k + i \in 1 .. n
  BY <1>1, <1>4
<1>7. \A i, j \in 1 .. n : i < j => history[i].until <= history[j].until
  BY <1>4 DEF RecoveryInv, InOrder
<1>8. \A i \in 1 .. n : history[i].until <= clock
  BY <1>4 DEF RecoveryInv, InOrder
<1>9. \A i \in 1 .. Len(history') : history'[i].until <= clock
  BY <1>5, <1>6, <1>8
<1>10. \A i, j \in 1 .. Len(history') : i < j => history'[i].until <= history'[j].until
  <2> SUFFICES ASSUME NEW i \in 1 .. n - k, NEW j \in 1 .. n - k, i < j
               PROVE  history'[i].until <= history'[j].until
    BY <1>5
  <2>1. k + i \in 1 .. n /\ k + j \in 1 .. n /\ k + i < k + j
    BY <1>1, <1>4, <1>6
  <2> QED  BY <1>5, <1>7, <2>1
<1>11. ASSUME NEW i \in 1 .. n, i > k PROVE ~Invalid(history[i], t)
  <2>1. k + 1 \in 1 .. n /\ k < n
    BY <1>1, <1>4, <1>11
  <2>2. history[k + 1].until <= history[i].until
    <3>1. CASE i = k + 1
      BY <1>3, <1>4, <2>1, <3>1
    <3>2. CASE i # k + 1
      BY <1>1, <1>4, <1>7, <1>11, <2>1, <3>2
    <3> QED  BY <3>1, <3>2
  <2>3. history[k + 1].until \in Nat /\ history[i].until \in Nat
    BY <1>3, <1>4, <2>1
  <2> QED  BY <1>1, <1>2, <1>4, <2>1, <2>2, <2>3, SMTT(30) DEF Invalid
<1>12. ASSUME NEW h \in Olds
       PROVE  Listed(history', h) <=> Listed(history, h) /\ ~Invalid(h, t)
  <2>1. ASSUME Listed(history', h) PROVE Listed(history, h) /\ ~Invalid(h, t)
    <3>1. PICK i \in 1 .. n - k : history'[i] = h
      BY <1>5, <2>1 DEF Listed
    <3>2. k + i \in 1 .. n /\ k + i > k /\ history[k + i] = h
      BY <1>1, <1>4, <1>5, <1>6, <3>1
    <3> QED  BY <1>4, <1>11, <3>2 DEF Listed
  <2>2. ASSUME Listed(history, h), ~Invalid(h, t) PROVE Listed(history', h)
    <3>1. PICK i \in 1 .. n : history[i] = h
      BY <1>4, <2>2 DEF Listed
    <3>2. i > k
      BY <1>1, <1>4, <2>2, <3>1
    <3>3. i - k \in 1 .. n - k /\ k + (i - k) = i
      BY <1>1, <1>4, <3>2
    <3>4. history'[i - k] = h
      BY <1>5, <3>1, <3>3
    <3> QED  BY <1>5, <3>3, <3>4 DEF Listed
  <2> QED  BY <2>1, <2>2
<1> QED  BY <1>5, <1>9, <1>10, <1>12

LEMMA RecoveryBlockInv ==
    ASSUME RecoveryInv, NEW t \in {clock + 1, clock + 2}, NEW top \in Partners, RecoveryBlock(t, top)
    PROVE  RecoveryInv'
<1> USE Periods DEF RecoveryInv
<1>1. t \in Nat /\ t > clock /\ clock \in Nat /\ clock' = t /\ top_witness' = top
  BY DEF RecoveryShape, RecoveryBlock
<1>2. /\ history' \in Seq(Olds)
      /\ \A i \in 1 .. Len(history') : history'[i].until <= clock
      /\ \A i, j \in 1 .. Len(history') : i < j => history'[i].until <= history'[j].until
      /\ \A h \in Olds : Listed(history', h) <=> Listed(history, h) /\ ~Invalid(h, t)
  BY <1>1, ForgetKeeps DEF RecoveryBlock
<1>3. UNCHANGED <<owner, last_update, last_recovery, past>>
  BY DEF RecoveryBlock
<1>4. request' = IF request # Nobody /\ request.expires <= t THEN Nobody ELSE request
  BY DEF RecoveryBlock, Expire
<1>5. \/ change # Nobody /\ change.effective <= t /\ recovery_account' = change.account /\ change' = Nobody
      \/ ~(change # Nobody /\ change.effective <= t) /\ UNCHANGED <<recovery_account, change>>
  BY DEF RecoveryBlock, ApplyChange
<1>6. recovery_account' \in Partners \cup {Nobody}
  BY <1>5 DEF RecoveryShape
<1>7. held' = [p \in Partners |-> IF p = Partner(recovery_account, top_witness) THEN t
                                  ELSE IF p = Partner(recovery_account', top) THEN t ELSE held[p]]
  BY DEF RecoveryBlock
<1>8. RecoveryShape'
  <2>1. held' \in [Partners -> Int]
    BY <1>1, <1>7 DEF RecoveryShape
  <2> QED  BY <1>1, <1>2, <1>3, <1>4, <1>5, <1>6, <2>1 DEF RecoveryShape
<1>9. NotDue'
  BY <1>1, <1>4, <1>5 DEF NotDue, RecoveryShape
<1>10. \A i \in 1 .. Len(past) : past[i].until \in Nat /\ past[i].until <= clock
  BY Times DEF InOrder, RecoveryShape
<1>11. InOrder'
  <2>1. \A i \in 1 .. Len(history') : history'[i].until \in Nat
    BY <1>2, Times
  <2>2. \A i \in 1 .. Len(history') : history'[i].until <= t
    BY <1>1, <1>2, <2>1
  <2>3. \A i \in 1 .. Len(past) : past[i].until <= t
    BY <1>1, <1>10
  <2> QED  BY <1>1, <1>2, <1>3, <2>2, <2>3 DEF InOrder
<1>12. Complete'
  <2> SUFFICES ASSUME NEW h \in Olds
               PROVE  Listed(history', h) <=> Been(h) /\ h.until + RecoveryPeriod >= t
    BY <1>1, <1>3 DEF Complete, Been
  <2>1. Listed(history, h) <=> Been(h) /\ h.until + RecoveryPeriod >= clock
    BY DEF Complete
  <2>2. h.until \in Nat
    BY DEF Olds
  <2>3. ~Invalid(h, t) <=> h.until + RecoveryPeriod >= t
    BY <1>1, <2>2 DEF Invalid
  <2>4. h.until + RecoveryPeriod >= t => h.until + RecoveryPeriod >= clock
    BY <1>1, <2>2
  <2> QED  BY <1>2, <2>1, <2>3, <2>4
<1>13. PartnersKept'
  <2> SUFFICES ASSUME NEW i \in 1 .. Len(past), t < past[i].until + RecoveryPeriod
               PROVE  /\ recovery_account' \in past[i].partners
                      /\ change' # Nobody => \/ change'.account \in past[i].partners
                                             \/ change'.effective >= past[i].until + RecoveryPeriod
    BY <1>1, <1>3 DEF PartnersKept
  <2>1. clock < past[i].until + RecoveryPeriod
    BY <1>1, <1>10
  <2>2. /\ recovery_account \in past[i].partners
        /\ change # Nobody => \/ change.account \in past[i].partners
                              \/ change.effective >= past[i].until + RecoveryPeriod
    BY <2>1 DEF PartnersKept
  <2>3. change # Nobody => change.effective \in Nat
    BY DEF RecoveryShape
  <2> QED  BY <1>1, <1>5, <1>10, <2>2, <2>3
<1>14. Requested'
  <2>1. Partner(recovery_account', top) \in Partners
    BY <1>6, PartnerIsOne
  <2>2. held'[Partner(recovery_account', top)] = t
    BY <1>7, <2>1
  <2>3. \A p \in Partners : held[p] \in Int /\ held[p] <= clock
    BY DEF Requested, RecoveryShape
  <2>4. \A p \in Partners : held'[p] \in Int /\ held'[p] <= t /\ held'[p] >= held[p]
    BY <1>1, <1>7, <2>3
  <2>5. ASSUME request' # Nobody PROVE request'.expires <= held'[request'.by] + RequestPeriod
    <3>1. request' = request /\ request # Nobody
      BY <1>4, <2>5
    <3>2. request.by \in Partners /\ request.expires \in Nat
      BY <3>1 DEF RecoveryShape
    <3>3. request.expires <= held[request.by] + RequestPeriod
      BY <3>1 DEF Requested
    <3> QED  BY <2>3, <2>4, <3>1, <3>2, <3>3
  <2> QED  BY <1>1, <2>2, <2>4, <2>5 DEF Requested
<1> QED  BY <1>8, <1>9, <1>11, <1>12, <1>13, <1>14

LEMMA RecoveryStepInv == RecoveryInv /\ [RecoveryNext]_recoveryVars => RecoveryInv'
<1>1. ASSUME RecoveryInv, RecoveryNext PROVE RecoveryInv'
  BY <1>1, AccountUpdateInv, RecoverAccountInv, RequestInv, ChangeInv, RecoveryBlockInv DEF RecoveryNext
<1>2. ASSUME RecoveryInv, UNCHANGED recoveryVars PROVE RecoveryInv'
  BY <1>2 DEF recoveryVars, RecoveryInv, RecoveryShape, NotDue, InOrder, Complete, Listed, Been,
              PartnersKept, Requested
<1> QED  BY <1>1, <1>2

LEMMA RecoveryInvSound == RecoveryInv => RecoveryTypeOK /\ HistoryIsComplete /\ RecoveryPartnerHolds
<1> SUFFICES ASSUME RecoveryInv PROVE RecoveryTypeOK /\ HistoryIsComplete /\ RecoveryPartnerHolds
  OBVIOUS
<1> USE DEF RecoveryInv
<1>1. history \in Seq(Olds) /\ past \in Seq(Pasts)
  BY DEF RecoveryShape
<1>2. DOMAIN history = 1 .. Len(history) /\ DOMAIN past = 1 .. Len(past)
  BY <1>1
<1>3. RecoveryTypeOK
  BY <1>2 DEF RecoveryTypeOK, RecoveryShape, NotDue, InOrder
<1>4. RecoveryPartnerHolds
  BY <1>2 DEF RecoveryPartnerHolds, PartnersKept
<1>5. HistoryIsComplete
  <2> DEFINE H == {<<h.auth, h.until>> : h \in {history[i] : i \in DOMAIN history}}
             P == {<<h.auth, h.until>> : h \in {past[i] : i \in {j \in DOMAIN past :
                                       past[j].until + RecoveryPeriod >= clock}}}
  <2>1. ASSUME NEW i \in DOMAIN history PROVE <<history[i].auth, history[i].until>> \in P
    <3>1. history[i] \in Olds /\ Listed(history, history[i])
      BY <1>1, <1>2 DEF Listed
    <3>2. Been(history[i]) /\ history[i].until + RecoveryPeriod >= clock
      BY <3>1 DEF Complete
    <3>3. PICK j \in DOMAIN past : past[j].auth = history[i].auth /\ past[j].until = history[i].until
      BY <1>2, <3>2 DEF Been
    <3> QED  BY <3>2, <3>3
  <2>2. ASSUME NEW j \in DOMAIN past, past[j].until + RecoveryPeriod >= clock
        PROVE  <<past[j].auth, past[j].until>> \in H
    <3> DEFINE h == [auth |-> past[j].auth, until |-> past[j].until]
    <3>1. past[j] \in Pasts
      BY <1>1
    <3>2. h \in Olds /\ h.auth = past[j].auth /\ h.until = past[j].until
      BY <3>1 DEF Pasts, Olds
    <3> HIDE DEF h
    <3>3. Been(h) /\ h.until + RecoveryPeriod >= clock
      BY <1>2, <2>2, <3>2 DEF Been
    <3>4. PICK i \in DOMAIN history : history[i] = h
      BY <1>2, <3>2, <3>3 DEF Complete, Listed
    <3> QED  BY <3>2, <3>4
  <2>3. H = P
    BY <2>1, <2>2
  <2> QED  BY <2>3 DEF HistoryIsComplete
<1> QED  BY <1>3, <1>4, <1>5

\* Through any order of updates, requests, changes, recoveries and missed
\* blocks: every owner authority of the last RecoveryPeriod can take part in a
\* recovery and no older one, no one who replaced it can have replaced the
\* recovery account too, and only a partner of the last RequestPeriod brings
\* about a recovery (update_owner_authority, account_recovery_processing, the
\* evaluators of the recovery operations).
THEOREM RecoveryCorrect == RecoverySpec => RecoverySound
<1>1. RecoveryInv /\ [RecoveryNext]_recoveryVars => RecoveryInv'
  BY RecoveryStepInv
<1>2. RecoveryInv /\ [RecoveryNext]_recoveryVars =>
        [last_recovery' # last_recovery => clock < held[request.by] + RequestPeriod]_recoveryVars
  <2> SUFFICES ASSUME RecoveryInv, RecoveryNext, last_recovery' # last_recovery
               PROVE  clock < held[request.by] + RequestPeriod
    BY DEF recoveryVars
  <2>1. PICK recent \in OwnerAuths, auth \in OwnerAuths : RecoverAccount(recent, auth)
    BY DEF RecoveryNext, AccountUpdate, RequestRecovery, CancelRequest, ChangeRecoveryAccount, RecoveryBlock
  <2>2. request # Nobody
    BY <2>1 DEF RecoverAccount
  <2>3. clock \in Nat /\ request.expires \in Nat /\ held[request.by] \in Int /\ RequestPeriod \in Nat
    BY <2>2, Periods DEF RecoveryInv, RecoveryShape
  <2> QED  BY <2>2, <2>3 DEF RecoveryInv, NotDue, Requested
<1> QED  BY <1>1, <1>2, RecoveryInitInv, RecoveryInvSound, PTL DEF RecoverySpec, RecoverySound, RecoveredByPartner

-----------------------------------------------------------------------------
(* Stake: sums over the accounts. *)

LEMMA Finite == IsFiniteSet(Accounts)
BY StakeAssumption

LEMMA SumOf ==
    ASSUME NEW f, DOMAIN f = Accounts
    PROVE  SumFunction(f) = SumFunctionOnSet(f, Accounts)
BY DEF SumFunction

LEMMA SumInt ==
    ASSUME NEW f, DOMAIN f = Accounts, \A a \in Accounts : f[a] \in Int
    PROVE  SumFunction(f) \in Int
BY Finite, SumOf, SumOnSet DEF IntOn

LEMMA SharesSum ==
    ASSUME NEW f \in [Accounts -> Nat]
    PROVE  SumFunction(f) \in Nat /\ \A a \in Accounts : f[a] <= SumFunction(f)
<1>1. DOMAIN f = Accounts /\ \A a \in Accounts : f[a] \in Nat
  OBVIOUS
<1>2. SumFunctionOnSet(f, Accounts) \in Nat /\ \A a \in Accounts : f[a] <= SumFunctionOnSet(f, Accounts)
  BY <1>1, Finite, SumNat
<1> QED  BY <1>1, <1>2, SumOf

\* Each account's number changes by so much.
LEMMA SumDiffers ==
    ASSUME NEW f, NEW g, NEW e, DOMAIN f = Accounts, DOMAIN g = Accounts, DOMAIN e = Accounts,
           \A a \in Accounts : f[a] \in Int /\ e[a] \in Int /\ g[a] = f[a] + e[a]
    PROVE  SumFunction(f) \in Int /\ SumFunction(e) \in Int /\ SumFunction(g) = SumFunction(f) + SumFunction(e)
<1>1. IntOn(f, Accounts) /\ IntOn(e, Accounts) /\ \A a \in Accounts : g[a] = f[a] + e[a]
  BY DEF IntOn
<1>2. /\ SumFunctionOnSet(f, Accounts) \in Int /\ SumFunctionOnSet(e, Accounts) \in Int
      /\ SumFunctionOnSet(g, Accounts) = SumFunctionOnSet(f, Accounts) + SumFunctionOnSet(e, Accounts)
  BY <1>1, Finite, SumPlus
<1> QED  BY <1>2, SumOf

\* One account's number changes.
DiffersAt(f, g, a, d) ==
    /\ DOMAIN f = Accounts /\ DOMAIN g = Accounts
    /\ \A b \in Accounts : f[b] \in Int /\ g[b] = IF b = a THEN f[b] + d ELSE f[b]

LEMMA SumDiffersAt ==
    ASSUME NEW f, NEW g, NEW a \in Accounts, NEW d \in Int, DiffersAt(f, g, a, d)
    PROVE  SumFunction(f) \in Int /\ SumFunction(g) = SumFunction(f) + d
<1>1. IntOn(f, Accounts) /\ ChangesAt(f, g, Accounts, a) /\ f[a] \in Int /\ g[a] = f[a] + d
  BY DEF IntOn, ChangesAt, DiffersAt
<1>2. /\ SumFunctionOnSet(f, Accounts) \in Int
      /\ SumFunctionOnSet(g, Accounts) = SumFunctionOnSet(f, Accounts) + (g[a] - f[a])
  BY <1>1, Finite, SumChange
<1>3. PICK x \in Int, y \in Int : x = SumFunctionOnSet(f, Accounts) /\ y = f[a]
  BY <1>1, <1>2
<1>4. x + ((y + d) - y) = x + d
  BY ONLY x \in Int, y \in Int, d \in Int
<1>5. SumFunctionOnSet(g, Accounts) = x + d
  BY ONLY <1>1, <1>2, <1>3, <1>4
<1> QED  BY <1>3, <1>5, SumOf DEF DiffersAt

\* What an account gives to others, and what it gets from them.
Given(dl, a) == SumFunction([b \in Accounts |-> dl[a][b].shares])
Got(dl, a) == SumFunction([b \in Accounts |-> dl[b][a].shares])

\* All that one account gives changes.
RowMore(dl, dm, b, e) ==
    /\ DOMAIN e = Accounts /\ \A y \in Accounts : e[y] \in Int
    /\ \A x, y \in Accounts : /\ dl[x][y].shares \in Int
                              /\ dm[x][y].shares = IF x = b THEN dl[x][y].shares + e[y] ELSE dl[x][y].shares

SumsWithRowMore(dl, dm, b, e, x) ==
    /\ Given(dl, x) \in Int /\ Got(dl, x) \in Int /\ SumFunction(e) \in Int
    /\ Given(dm, x) = IF x = b THEN Given(dl, x) + SumFunction(e) ELSE Given(dl, x)
    /\ Got(dm, x) = Got(dl, x) + e[x]

LEMMA RowChanges ==
    ASSUME NEW dl, NEW dm, NEW b \in Accounts, NEW e, RowMore(dl, dm, b, e), NEW x \in Accounts
    PROVE  SumsWithRowMore(dl, dm, b, e, x)
<1>0. DOMAIN e = Accounts /\ \A y \in Accounts : e[y] \in Int
  BY DEF RowMore
<1> DEFINE f == [y \in Accounts |-> dl[x][y].shares]
           g == [y \in Accounts |-> dm[x][y].shares]
           p == [y \in Accounts |-> dl[y][x].shares]
           q == [y \in Accounts |-> dm[y][x].shares]
<1>1. Given(dl, x) = SumFunction(f) /\ Given(dm, x) = SumFunction(g)
  BY DEF Given
<1>2. Got(dl, x) = SumFunction(p) /\ Got(dm, x) = SumFunction(q)
  BY DEF Got
<1>3. /\ DOMAIN f = Accounts /\ DOMAIN g = Accounts
      /\ \A y \in Accounts : f[y] \in Int /\ g[y] = IF x = b THEN f[y] + e[y] ELSE f[y]
  BY DEF RowMore
<1>4. /\ DOMAIN p = Accounts /\ DOMAIN q = Accounts
      /\ \A y \in Accounts : p[y] \in Int /\ q[y] = IF y = b THEN p[y] + e[x] ELSE p[y]
  BY DEF RowMore
<1>5. ASSUME x # b PROVE f = g
  BY <1>5 DEF RowMore
<1> HIDE DEF f, g, p, q
<1>6. SumFunction(p) \in Int /\ SumFunction(q) = SumFunction(p) + e[x]
  <2>1. DiffersAt(p, q, b, e[x]) /\ e[x] \in Int
    BY <1>0, <1>4 DEF DiffersAt
  <2> QED  BY <2>1, SumDiffersAt
<1>7. SumFunction(f) \in Int /\ SumFunction(e) \in Int
  BY <1>0, <1>3, SumInt
<1>8. CASE x = b
  <2>1. SumFunction(g) = SumFunction(f) + SumFunction(e)
    BY <1>0, <1>3, <1>8, SumDiffers
  <2> QED  BY <1>1, <1>2, <1>6, <1>7, <1>8, <2>1 DEF SumsWithRowMore
<1>9. CASE x # b
  BY <1>1, <1>2, <1>5, <1>6, <1>7, <1>9 DEF SumsWithRowMore
<1> QED  BY <1>8, <1>9

\* What one account gives to another changes.
OneMore(dl, dm, a, b, d) ==
    \A x, y \in Accounts : /\ dl[x][y].shares \in Int
                           /\ dm[x][y].shares = IF x = a /\ y = b THEN dl[x][y].shares + d ELSE dl[x][y].shares

SumsWithOneMore(dl, dm, a, b, d, x) ==
    /\ Given(dl, x) \in Int /\ Got(dl, x) \in Int
    /\ Given(dm, x) = IF x = a THEN Given(dl, x) + d ELSE Given(dl, x)
    /\ Got(dm, x) = IF x = b THEN Got(dl, x) + d ELSE Got(dl, x)

LEMMA OneChanges ==
    ASSUME NEW dl, NEW dm, NEW a \in Accounts, NEW b \in Accounts, NEW d \in Int, OneMore(dl, dm, a, b, d),
           NEW x \in Accounts
    PROVE  SumsWithOneMore(dl, dm, a, b, d, x)
<1> DEFINE f == [y \in Accounts |-> dl[x][y].shares]
           g == [y \in Accounts |-> dm[x][y].shares]
           p == [y \in Accounts |-> dl[y][x].shares]
           q == [y \in Accounts |-> dm[y][x].shares]
<1>1. Given(dl, x) = SumFunction(f) /\ Given(dm, x) = SumFunction(g)
  BY DEF Given
<1>2. Got(dl, x) = SumFunction(p) /\ Got(dm, x) = SumFunction(q)
  BY DEF Got
<1>3. /\ DOMAIN f = Accounts /\ DOMAIN g = Accounts
      /\ \A y \in Accounts : f[y] \in Int /\ g[y] = IF x = a /\ y = b THEN f[y] + d ELSE f[y]
  BY DEF OneMore
<1>4. /\ DOMAIN p = Accounts /\ DOMAIN q = Accounts
      /\ \A y \in Accounts : p[y] \in Int /\ q[y] = IF y = a /\ x = b THEN p[y] + d ELSE p[y]
  BY DEF OneMore
<1>5. (x # a => f = g) /\ (x # b => p = q)
  BY DEF OneMore
<1> HIDE DEF f, g, p, q
<1>6. SumFunction(f) \in Int /\ SumFunction(p) \in Int
  BY <1>3, <1>4, SumInt
<1>7. Given(dm, x) = IF x = a THEN Given(dl, x) + d ELSE Given(dl, x)
  <2>1. CASE x = a
    <3>1. DiffersAt(f, g, b, d)
      BY <1>3, <2>1 DEF DiffersAt
    <3> QED  BY <1>1, <2>1, <3>1, SumDiffersAt
  <2> QED  BY <1>1, <1>5, <2>1
<1>8. Got(dm, x) = IF x = b THEN Got(dl, x) + d ELSE Got(dl, x)
  <2>1. CASE x = b
    <3>1. DiffersAt(p, q, a, d)
      BY <1>4, <2>1 DEF DiffersAt
    <3> QED  BY <1>2, <2>1, <3>1, SumDiffersAt
  <2> QED  BY <1>2, <1>5, <2>1
<1> QED  BY <1>1, <1>2, <1>6, <1>7, <1>8 DEF SumsWithOneMore

-----------------------------------------------------------------------------
(* Stake: the inductive invariant. *)

Grants == [shares : Nat, lasts : 0 .. CreateTime]
Parts == [pct : 0 .. Hundred, shares : Int]
Ways == [percent : 0 .. Hundred, auto_vest : BOOLEAN]

OwnedShape ==
    /\ profile \in Profiles /\ accounts \subseteq Accounts /\ platforms \subseteq accounts
    /\ vesting_shares \in [Accounts -> Nat]
    /\ total_vesting_shares \in Amounts /\ total_vested_by_platforms \in Int
    /\ routes \in [Accounts -> [Accounts -> Ways]]

LentShape ==
    /\ delegated \in [Accounts -> Nat] /\ received \in [Accounts -> Nat]
    /\ delegation \in [Accounts -> [Accounts -> Grants]]
    /\ expiring \in [Accounts -> [0 .. CreateTime -> Nat]]

RelentShape ==
    /\ redelegated \in [Accounts -> Int] /\ rereceived \in [Accounts -> Int]
    /\ redelegations \in [Accounts -> [Accounts -> Parts]]
    /\ requests \subseteq platforms \X platforms

\* A withdrawal that goes on has something left and has taken its rate so many
\* times.
WithdrawalsRun ==
    /\ to_withdraw \in [Accounts -> Amounts] /\ withdraw_rate \in [Accounts -> Amounts]
    /\ withdrawn \in [Accounts -> Nat]
    /\ \A a \in Accounts :
          /\ withdrawn[a] <= to_withdraw[a]
          /\ withdraw_rate[a] # 0 => /\ withdrawn[a] < to_withdraw[a]
                                     /\ withdrawn[a] % withdraw_rate[a] = 0

\* Nothing is delegated to accounts that do not exist.
NotYet == \A a \in Accounts \ accounts, b \in Accounts : delegation[b][a].shares = 0

\* The routes that are met carry no more than there is.
Routed(a) == SumFunctionOnSet([b \in Accounts |-> routes[a][b].percent], Met(a))
RoutesWithin == \A a \in Accounts : Routed(a) <= Hundred

StakeInv ==
    /\ OwnedShape /\ LentShape /\ RelentShape
    /\ WithdrawalsRun /\ NotYet /\ RoutesWithin
    /\ PromisedOnce /\ DelegationsAddUp /\ RedelegationsAddUp /\ SharesAddUp

LEMMA StakeNumbers ==
    /\ Intervals \in Nat \ {0} /\ CreateTime \in Nat \ {0} /\ Ratio \in Nat
    /\ Fee \in Nat \ {0} /\ TenFees \in Nat \ {0} /\ Hundred \in Nat \ {0} /\ MaxRoutes \in Nat
    /\ MaxShares \in Nat
BY StakeAssumption

\* What the profiles ask for are numbers of shares.
LEMMA Inputs ==
    ASSUME NEW q \in Profiles
    PROVE  /\ q.bought \subseteq Nat /\ q.asked \subseteq Nat /\ q.lent \subseteq Nat
           /\ q.most \in Amounts /\ q.withdrawers \subseteq Accounts /\ q.delegators \subseteq Accounts
           /\ q.candidates \subseteq Accounts
           /\ \A r \in q.routes : r[1] \in Accounts /\ r[2] \in 0 .. Hundred /\ r[3] \in BOOLEAN
<1>1. q \in Profile
  BY StakeAssumption
<1>2. q.routes \in SUBSET (Accounts \X (0 .. Hundred) \X BOOLEAN)
  BY <1>1 DEF Profile
<1>3. \A r \in Accounts \X (0 .. Hundred) \X BOOLEAN :
         r[1] \in Accounts /\ r[2] \in 0 .. Hundred /\ r[3] \in BOOLEAN
  OBVIOUS
<1>4. \A r \in q.routes : r[1] \in Accounts /\ r[2] \in 0 .. Hundred /\ r[3] \in BOOLEAN
  BY <1>2, <1>3
<1>5. /\ q.bought \subseteq Nat /\ q.asked \subseteq Nat /\ q.lent \subseteq Nat
      /\ q.most \in 0 .. MaxShares /\ q.withdrawers \subseteq Accounts /\ q.delegators \subseteq Accounts
      /\ q.candidates \subseteq Accounts
  BY <1>1 DEF Profile
<1> QED  BY <1>4, <1>5 DEF Amounts

\* What is delegated or being withdrawn is owned.
LEMMA Available ==
    ASSUME StakeInv, NEW a \in Accounts
    PROVE  /\ available_shares(a) \in Nat /\ delegated[a] + available_shares(a) <= vesting_shares[a]
           /\ vesting_shares[a] \in Amounts /\ delegated[a] \in Nat
<1>1. /\ vesting_shares[a] \in Nat /\ delegated[a] \in Nat /\ to_withdraw[a] \in Nat /\ withdrawn[a] \in Nat
      /\ withdrawn[a] <= to_withdraw[a] /\ delegated[a] + to_withdraw[a] - withdrawn[a] <= vesting_shares[a]
  BY DEF StakeInv, OwnedShape, LentShape, WithdrawalsRun, PromisedOnce, Amounts
<1>2. vesting_shares[a] <= total_vesting_shares /\ total_vesting_shares \in Amounts
  BY SharesSum DEF StakeInv, OwnedShape, SharesAddUp
<1>3. PICK v \in Nat, d \in Nat, t \in Nat, w \in Nat, m \in Nat, s \in Nat :
         /\ v = vesting_shares[a] /\ d = delegated[a] /\ t = to_withdraw[a] /\ w = withdrawn[a]
         /\ m = MaxShares /\ s = total_vesting_shares
  BY <1>1, <1>2, StakeNumbers DEF Amounts
<1>4. w <= t /\ d + t - w <= v /\ v <= s /\ s <= m
  BY <1>1, <1>2, <1>3 DEF Amounts
<1>5. v - d - (t - w) \in Nat /\ d + (v - d - (t - w)) <= v /\ v \in 0 .. m
  BY ONLY <1>4, v \in Nat, d \in Nat, t \in Nat, w \in Nat, m \in Nat, s \in Nat
<1> QED  BY ONLY <1>3, <1>5, d \in Nat DEF available_shares, Amounts

LEMMA StakeInitInv == Init => StakeInv
<1> SUFFICES ASSUME Init PROVE StakeInv
  OBVIOUS
<1> DEFINE z == [a \in Accounts |-> 0]
<1>1. SumFunction(z) = 0
  <2>1. DOMAIN z = Accounts /\ IntOn(z, Accounts) /\ \A a \in Accounts \ {} : z[a] = 0
    BY DEF IntOn
  <2> HIDE DEF z
  <2>2. SumFunctionOnSet(z, Accounts) = SumFunctionOnSet(z, {})
    BY <2>1, Finite, SumWithout
  <2>3. SumFunctionOnSet(z, {}) = 0
    BY SumOnSet, FS_EmptySet DEF IntOn
  <2> QED  BY <2>1, <2>2, <2>3, SumOf
<1>2. OwnedShape /\ LentShape /\ RelentShape /\ WithdrawalsRun /\ NotYet
  BY StakeNumbers, StakeAssumption DEF Init, OwnedShape, LentShape, RelentShape, WithdrawalsRun, NotYet,
     Grants, Parts, Ways, NoRoute, Amounts
<1>3. PromisedOnce /\ SharesAddUp
  BY <1>1 DEF Init, PromisedOnce, SharesAddUp
<1>4. DelegationsAddUp
  <2> SUFFICES ASSUME NEW a \in Accounts
               PROVE  /\ delegated[a] = Given(delegation, a) + SumFunction(expiring[a])
                      /\ received[a] = Got(delegation, a)
    BY DEF DelegationsAddUp, Given, Got
  <2>1. Given(delegation, a) = SumFunction(z) /\ Got(delegation, a) = SumFunction(z)
    <3>1. [b \in Accounts |-> delegation[a][b].shares] = z /\ [b \in Accounts |-> delegation[b][a].shares] = z
      BY DEF Init
    <3> HIDE DEF z
    <3> QED  BY <3>1 DEF Given, Got
  <2>2. SumFunction(expiring[a]) = 0
    <3> DEFINE f == [t \in 0 .. CreateTime |-> 0]
               T == 0 .. CreateTime
    <3>1. expiring[a] = f
      BY DEF Init
    <3>2. DOMAIN f = T /\ IntOn(f, T) /\ \A t \in T \ {} : f[t] = 0
      BY DEF IntOn
    <3>3. IsFiniteSet(T)
      BY StakeNumbers, FS_Interval
    <3> HIDE DEF f, T
    <3>4. SumFunctionOnSet(f, T) = SumFunctionOnSet(f, {})
      BY <3>2, <3>3, SumWithout
    <3>5. SumFunctionOnSet(f, {}) = 0
      BY SumOnSet, FS_EmptySet DEF IntOn
    <3> QED  BY <3>1, <3>2, <3>4, <3>5 DEF SumFunction
  <2>3. delegated[a] = 0 /\ received[a] = 0
    BY DEF Init
  <2> HIDE DEF z
  <2> QED  BY <1>1, <2>1, <2>2, <2>3
<1>5. RedelegationsAddUp
  <2> SUFFICES ASSUME NEW a \in Accounts
               PROVE  /\ redelegated[a] = Given(redelegations, a) /\ rereceived[a] = Got(redelegations, a)
                      /\ \A r \in Accounts : redelegations[a][r] = [pct |-> 0, shares |-> 0]
    BY DEF RedelegationsAddUp, Given, Got
  <2>1. Given(redelegations, a) = SumFunction(z) /\ Got(redelegations, a) = SumFunction(z)
    <3>1. [b \in Accounts |-> redelegations[a][b].shares] = z /\ [b \in Accounts |-> redelegations[b][a].shares] = z
      BY DEF Init
    <3> HIDE DEF z
    <3> QED  BY <3>1 DEF Given, Got
  <2>3. redelegated[a] = 0 /\ rereceived[a] = 0 /\ \A r \in Accounts : redelegations[a][r] = [pct |-> 0, shares |-> 0]
    BY DEF Init
  <2> HIDE DEF z
  <2> QED  BY <1>1, <2>1, <2>3
<1>6. RoutesWithin
  <2> SUFFICES ASSUME NEW a \in Accounts PROVE Routed(a) <= Hundred
    BY DEF RoutesWithin
  <2>1. Met(a) = {}
    BY DEF Init, Met, NoRoute
  <2>2. Routed(a) = 0
    BY <2>1, SumOnSet, FS_EmptySet DEF Routed, IntOn
  <2> QED  BY <2>2, StakeNumbers
<1> QED  BY <1>2, <1>3, <1>4, <1>5, <1>6 DEF StakeInv

-----------------------------------------------------------------------------
(* Stake: shares come into being, and withdrawals are asked for. *)

\* What is left alone stays right.
LEMMA Kept ==
    /\ RoutesWithin /\ UNCHANGED routes => RoutesWithin'
    /\ LentShape /\ UNCHANGED <<delegated, received, delegation, expiring>> => LentShape'
    /\ RelentShape /\ UNCHANGED <<redelegated, rereceived, redelegations, requests, platforms>> => RelentShape'
    /\ WithdrawalsRun /\ UNCHANGED withdrawal => WithdrawalsRun'
    /\ DelegationsAddUp /\ UNCHANGED <<delegated, received, delegation, expiring>> => DelegationsAddUp'
    /\ RedelegationsAddUp /\ UNCHANGED <<redelegated, rereceived, redelegations, requests>> => RedelegationsAddUp'
    /\ SharesAddUp /\ UNCHANGED <<vesting_shares, total_vesting_shares>> => SharesAddUp'
    /\ NotYet /\ UNCHANGED delegation /\ accounts \subseteq accounts' => NotYet'
    /\ PromisedOnce /\ UNCHANGED <<vesting_shares, delegated, withdrawal>> => PromisedOnce'
<1>1. RoutesWithin /\ UNCHANGED routes => RoutesWithin'
  BY DEF RoutesWithin, Routed, Met
<1>2. LentShape /\ UNCHANGED <<delegated, received, delegation, expiring>> => LentShape'
  BY DEF LentShape
<1>3. RelentShape /\ UNCHANGED <<redelegated, rereceived, redelegations, requests, platforms>> => RelentShape'
  BY DEF RelentShape
<1>4. WithdrawalsRun /\ UNCHANGED withdrawal => WithdrawalsRun'
  BY DEF WithdrawalsRun, withdrawal
<1>5. DelegationsAddUp /\ UNCHANGED <<delegated, received, delegation, expiring>> => DelegationsAddUp'
  BY DEF DelegationsAddUp
<1>6. RedelegationsAddUp /\ UNCHANGED <<redelegated, rereceived, redelegations, requests>> => RedelegationsAddUp'
  BY DEF RedelegationsAddUp
<1>7. SharesAddUp /\ UNCHANGED <<vesting_shares, total_vesting_shares>> => SharesAddUp'
  BY DEF SharesAddUp
<1>8. NotYet /\ UNCHANGED delegation /\ accounts \subseteq accounts' => NotYet'
  BY DEF NotYet
<1>9. PromisedOnce /\ UNCHANGED <<vesting_shares, delegated, withdrawal>> => PromisedOnce'
  BY DEF PromisedOnce, withdrawal
<1> QED  BY <1>1, <1>2, <1>3, <1>4, <1>5, <1>6, <1>7, <1>8, <1>9

LEMMA Created ==
    ASSUME StakeInv, NEW a \in Accounts, NEW n \in Nat, create_vesting(a, n),
           UNCHANGED <<profile, routes, platforms>>, accounts \subseteq accounts', accounts' \subseteq Accounts
    PROVE  /\ OwnedShape' /\ SharesAddUp'
           /\ \A b \in Accounts : vesting_shares[b] \in Nat /\ vesting_shares'[b] \in Nat
                                  /\ vesting_shares[b] <= vesting_shares'[b]
<1>1. /\ vesting_shares \in [Accounts -> Nat] /\ total_vesting_shares \in Nat /\ total_vested_by_platforms \in Int
      /\ profile \in Profiles /\ total_vesting_shares = SumFunction(vesting_shares)
  BY DEF StakeInv, OwnedShape, SharesAddUp, Amounts
<1>2. /\ vesting_shares' = [vesting_shares EXCEPT ![a] = vesting_shares[a] + n]
      /\ total_vesting_shares' = total_vesting_shares + n
      /\ total_vesting_shares + n <= profile.most
      /\ total_vested_by_platforms' = total_vested_by_platforms + IsPlatform(a) * n
  BY DEF create_vesting
<1>3. profile.most \in Nat /\ profile.most <= MaxShares
  BY <1>1, Inputs, StakeNumbers DEF Amounts
<1>4. total_vesting_shares' \in Amounts
  <2>1. PICK s \in Nat, m \in Nat, M \in Nat : s = total_vesting_shares /\ m = profile.most /\ M = MaxShares
    BY <1>1, <1>3, StakeNumbers
  <2>2. s + n \in 0 .. M
    BY <1>2, <1>3, <2>1
  <2> QED  BY <1>2, <2>1, <2>2 DEF Amounts
<1>5. total_vested_by_platforms' \in Int
  BY <1>1, <1>2 DEF IsPlatform
<1>6. \A b \in Accounts : /\ vesting_shares[b] \in Nat
                          /\ vesting_shares'[b] = IF b = a THEN vesting_shares[b] + n ELSE vesting_shares[b]
  BY <1>1, <1>2
<1>7. SumFunction(vesting_shares') = SumFunction(vesting_shares) + n
  <2>1. DiffersAt(vesting_shares, vesting_shares', a, n)
    BY <1>1, <1>2, <1>6 DEF DiffersAt
  <2> QED  BY <2>1, SumDiffersAt
<1>8. OwnedShape'
  BY <1>1, <1>2, <1>4, <1>5 DEF StakeInv, OwnedShape
<1> QED  BY <1>1, <1>2, <1>6, <1>7, <1>8 DEF SharesAddUp

\* Who owns more has not promised too much.
LEMMA StillPromisedOnce ==
    ASSUME StakeInv, UNCHANGED <<delegated, withdrawal>>,
           \A b \in Accounts : vesting_shares[b] \in Nat /\ vesting_shares'[b] \in Nat
                               /\ vesting_shares[b] <= vesting_shares'[b]
    PROVE  PromisedOnce'
<1> SUFFICES ASSUME NEW b \in Accounts
             PROVE  delegated'[b] + to_withdraw'[b] - withdrawn'[b] <= vesting_shares'[b]
  BY DEF PromisedOnce
<1>1. delegated[b] \in Nat /\ to_withdraw[b] \in Nat /\ withdrawn[b] \in Nat
  BY DEF StakeInv, LentShape, WithdrawalsRun, Amounts
<1>2. delegated[b] + to_withdraw[b] - withdrawn[b] <= vesting_shares[b]
  BY DEF StakeInv, PromisedOnce
<1>3. delegated'[b] = delegated[b] /\ to_withdraw'[b] = to_withdraw[b] /\ withdrawn'[b] = withdrawn[b]
  BY DEF withdrawal
<1> QED  BY <1>1, <1>2, <1>3

LEMMA TransferToVestingInv ==
    ASSUME StakeInv, UNCHANGED profile, NEW a \in Accounts, NEW n \in Nat, transfer_to_vesting(a, n)
    PROVE  StakeInv'
<1>1. /\ create_vesting(a, n) /\ accounts' = accounts
      /\ UNCHANGED <<delegated, received, redelegated, rereceived, withdrawal, routes, delegation, expiring,
                     redelegations, requests, platforms>>
  BY DEF transfer_to_vesting
<1>2. accounts \subseteq Accounts
  BY DEF StakeInv, OwnedShape
<1>3. OwnedShape' /\ SharesAddUp' /\ PromisedOnce'
  BY <1>1, <1>2, Created, StillPromisedOnce
<1> QED  BY <1>1, <1>3, Kept DEF StakeInv

LEMMA AccountCreateInv ==
    ASSUME StakeInv, UNCHANGED profile, NEW a, NEW b \in Accounts, NEW n \in Nat, account_create(a, b, n)
    PROVE  StakeInv'
<1>1. /\ create_vesting(b, n) /\ accounts' = accounts \cup {b}
      /\ UNCHANGED <<delegated, received, redelegated, rereceived, withdrawal, routes, delegation, expiring,
                     redelegations, requests, platforms>>
  BY DEF account_create
<1>2. accounts \subseteq accounts' /\ accounts' \subseteq Accounts
  BY <1>1 DEF StakeInv, OwnedShape
<1>3. OwnedShape' /\ SharesAddUp' /\ PromisedOnce'
  BY <1>1, <1>2, Created, StillPromisedOnce
<1> QED  BY <1>1, <1>2, <1>3, Kept DEF StakeInv

LEMMA WithdrawVestingInv ==
    ASSUME StakeInv, UNCHANGED profile, NEW a \in Accounts, NEW n \in Nat, withdraw_vesting(a, n)
    PROVE  StakeInv'
<1>1. UNCHANGED <<accounts, vesting_shares, delegated, received, redelegated, rereceived, routes, delegation,
                  expiring, redelegations, requests, platforms, total_vesting_shares, total_vested_by_platforms>>
  BY DEF withdraw_vesting, holdings
<1>2. /\ vesting_shares[a] - delegated[a] >= n
      /\ withdrawn' = [withdrawn EXCEPT ![a] = 0]
  BY DEF withdraw_vesting
<1>3. /\ vesting_shares[a] \in Nat /\ delegated[a] \in Nat /\ vesting_shares[a] <= MaxShares
      /\ Intervals \in Nat \ {0} /\ MaxShares \in Nat
  BY Available, StakeNumbers DEF Amounts
<1>4. n <= MaxShares
  BY <1>2, <1>3
<1>5. /\ to_withdraw \in [Accounts -> Amounts] /\ withdraw_rate \in [Accounts -> Amounts]
      /\ withdrawn \in [Accounts -> Nat]
  BY DEF StakeInv, WithdrawalsRun
<1>6. \E r \in Amounts : /\ to_withdraw' = [to_withdraw EXCEPT ![a] = n]
                         /\ withdraw_rate' = [withdraw_rate EXCEPT ![a] = r]
                         /\ r # 0 => n > 0
  <2>1. CASE n = 0
    BY <1>3, <2>1 DEF withdraw_vesting, stop_withdrawal, Amounts
  <2>2. CASE n # 0
    <3>1. n \div Intervals \in Nat /\ n \div Intervals <= n
      BY <1>3
    <3>2. \A x \in Nat : x <= n => Max({1, x}) \in Nat /\ Max({1, x}) <= n
      <4> TAKE x \in Nat
      <4> HAVE x <= n
      <4>1. \E m \in {1, x} : \A k \in {1, x} : m >= k
        OBVIOUS
      <4>2. Max({1, x}) \in {1, x}
        BY <4>1 DEF Max
      <4> QED  BY <2>2, <4>2
    <3>3. Max({1, n \div Intervals}) \in Amounts
      BY <1>3, <1>4, <3>1, <3>2 DEF Amounts
    <3> QED  BY <2>2, <3>3 DEF withdraw_vesting, start_withdrawal
  <2> QED  BY <2>1, <2>2
<1>7. PICK r \in Amounts : /\ to_withdraw' = [to_withdraw EXCEPT ![a] = n]
                           /\ withdraw_rate' = [withdraw_rate EXCEPT ![a] = r]
                           /\ r # 0 => n > 0
  BY <1>6
<1>8. \A b \in Accounts : /\ to_withdraw'[b] = IF b = a THEN n ELSE to_withdraw[b]
                          /\ withdraw_rate'[b] = IF b = a THEN r ELSE withdraw_rate[b]
                          /\ withdrawn'[b] = IF b = a THEN 0 ELSE withdrawn[b]
  BY <1>2, <1>5, <1>7
<1>9. WithdrawalsRun'
  <2>1. /\ to_withdraw' \in [Accounts -> Amounts] /\ withdraw_rate' \in [Accounts -> Amounts]
        /\ withdrawn' \in [Accounts -> Nat]
    <3>1. n \in Amounts
      BY <1>3, <1>4 DEF Amounts
    <3> QED  BY <1>2, <1>5, <1>7, <3>1
  <2>2. r # 0 => 0 % r = 0
    BY <1>3 DEF Amounts
  <2> QED  BY <1>7, <1>8, <2>1, <2>2 DEF StakeInv, WithdrawalsRun
<1>10. PromisedOnce'
  <2> SUFFICES ASSUME NEW b \in Accounts
               PROVE  delegated'[b] + to_withdraw'[b] - withdrawn'[b] <= vesting_shares'[b]
    BY DEF PromisedOnce
  <2>1. delegated[b] + to_withdraw[b] - withdrawn[b] <= vesting_shares[b]
    BY DEF StakeInv, PromisedOnce
  <2> QED  BY <1>1, <1>2, <1>3, <1>8, <2>1
<1>11. OwnedShape'
  BY <1>1 DEF StakeInv, OwnedShape
<1> QED  BY <1>1, <1>9, <1>10, <1>11, Kept DEF StakeInv

LEMMA SetRouteInv ==
    ASSUME StakeInv, UNCHANGED profile, NEW a \in Accounts, NEW b \in Accounts, NEW p \in 0 .. Hundred,
           NEW v \in BOOLEAN, set_withdraw_vesting_route(a, b, p, v)
    PROVE  StakeInv'
<1>1. UNCHANGED <<accounts, vesting_shares, delegated, received, redelegated, rereceived, withdrawal, delegation,
                  expiring, redelegations, requests, platforms, total_vesting_shares, total_vested_by_platforms>>
  BY DEF set_withdraw_vesting_route, holdings
<1>2. PICK w \in Ways : routes' = [routes EXCEPT ![a] = [routes[a] EXCEPT ![b] = w]]
  <2>1. NoRoute \in Ways /\ [percent |-> p, auto_vest |-> v] \in Ways
    BY StakeNumbers DEF NoRoute, Ways
  <2> QED  BY <2>1 DEF set_withdraw_vesting_route, StakeInv, OwnedShape
<1>3. routes \in [Accounts -> [Accounts -> Ways]]
  BY DEF StakeInv, OwnedShape
<1>4. routes' \in [Accounts -> [Accounts -> Ways]]
  BY <1>2, <1>3
<1>5. RoutesWithin'
  <2> SUFFICES ASSUME NEW c \in Accounts PROVE Routed(c)' <= Hundred
    BY DEF RoutesWithin
  <2>1. CASE c = a
    BY <2>1 DEF set_withdraw_vesting_route, Routed
  <2>2. CASE c # a
    <3>1. routes'[c] = routes[c]
      BY <1>2, <1>3, <2>2
    <3>2. Routed(c)' = Routed(c)
      BY <3>1 DEF Routed, Met
    <3> QED  BY <3>2 DEF StakeInv, RoutesWithin
  <2> QED  BY <2>1, <2>2
<1>6. OwnedShape'
  BY <1>1, <1>4 DEF StakeInv, OwnedShape
<1> QED  BY <1>1, <1>5, <1>6, Kept DEF StakeInv

-----------------------------------------------------------------------------
(* Stake: delegations. *)

LEMMA PercentNat == ASSUME NEW n \in Nat, NEW p \in 0 .. Hundred
                    PROVE  Percent(n, p) \in Nat /\ Hundred * Percent(n, p) <= n * p /\ (p = 0 => Percent(n, p) = 0)
<1>1. PICK h \in Nat \ {0} : h = Hundred
  BY StakeNumbers
<1>2. PICK q \in Nat : q = p
  BY <1>1
<1>3. PICK m \in Nat : m = n * q /\ (q = 0 => m = 0)
  BY ONLY n \in Nat, q \in Nat
<1>4. m \div h \in Nat /\ h * (m \div h) <= m /\ (m = 0 => m \div h = 0)
  BY ONLY m \in Nat, h \in Nat \ {0}
<1> QED  BY <1>1, <1>2, <1>3, <1>4 DEF Percent

LEMMA SumZero ==
    ASSUME NEW f, DOMAIN f = Accounts, \A a \in Accounts : f[a] = 0
    PROVE  SumFunction(f) = 0
<1>1. IntOn(f, Accounts) /\ \A a \in Accounts \ {} : f[a] = 0
  BY DEF IntOn
<1>2. SumFunctionOnSet(f, Accounts) = SumFunctionOnSet(f, {})
  BY <1>1, Finite, SumWithout
<1>3. SumFunctionOnSet(f, {}) = 0
  BY SumOnSet, FS_EmptySet DEF IntOn
<1> QED  BY <1>2, <1>3, SumOf

\* The times at which shares return.
LEMMA ExpiringSum ==
    ASSUME NEW f \in [0 .. CreateTime -> Nat]
    PROVE  /\ SumFunction(f) \in Nat /\ \A t \in 0 .. CreateTime : f[t] <= SumFunction(f)
           /\ IsFiniteSet(0 .. CreateTime) /\ SumFunction(f) = SumFunctionOnSet(f, 0 .. CreateTime)
<1>1. IsFiniteSet(0 .. CreateTime)
  BY StakeNumbers, FS_Interval
<1>2. \A t \in 0 .. CreateTime : f[t] \in Nat
  OBVIOUS
<1>3. SumFunction(f) = SumFunctionOnSet(f, 0 .. CreateTime)
  BY DEF SumFunction
<1> QED  BY <1>1, <1>2, <1>3, SumNat

\* a gives d more to b, and e more are on their way back to a.
Moves(a, b, d, e) ==
    /\ \A x, y \in Accounts : delegation'[x][y].shares = IF x = a /\ y = b THEN delegation[x][y].shares + d
                                                         ELSE delegation[x][y].shares
    /\ \A x \in Accounts : SumFunction(expiring'[x]) = IF x = a THEN SumFunction(expiring[x]) + e
                                                       ELSE SumFunction(expiring[x])
    /\ \A x \in Accounts : delegated'[x] = IF x = a THEN delegated[x] + (d + e) ELSE delegated[x]
    /\ \A x \in Accounts : received'[x] = IF x = b THEN received[x] + d ELSE received[x]

LEMMA DelegationMoves ==
    ASSUME StakeInv, NEW a \in Accounts, NEW b \in Accounts, NEW d \in Int, NEW e \in Int, Moves(a, b, d, e),
           delegated' \in [Accounts -> Int], received' \in [Accounts -> Int],
           delegation' \in [Accounts -> [Accounts -> Grants]], expiring' \in [Accounts -> [0 .. CreateTime -> Nat]]
    PROVE  LentShape' /\ DelegationsAddUp'
<1>1. \A x, y \in Accounts : delegation[x][y].shares \in Nat /\ delegation'[x][y].shares \in Nat
  <2>1. delegation \in [Accounts -> [Accounts -> Grants]]
    BY DEF StakeInv, LentShape
  <2>2. \A g \in Grants : g.shares \in Nat
    BY DEF Grants
  <2> HIDE DEF Grants
  <2> QED  BY <2>1, <2>2
<1>2. \A x \in Accounts : /\ Given(delegation, x) \in Int /\ Got(delegation, x) \in Int
                          /\ Given(delegation', x) = IF x = a THEN Given(delegation, x) + d ELSE Given(delegation, x)
                          /\ Got(delegation', x) = IF x = b THEN Got(delegation, x) + d ELSE Got(delegation, x)
  <2>1. PICK dl, dm : dl = delegation /\ dm = delegation'
    OBVIOUS
  <2>2. OneMore(dl, dm, a, b, d)
    BY <1>1, <2>1 DEF Moves, OneMore
  <2>3. \A x \in Accounts : SumsWithOneMore(dl, dm, a, b, d, x)
    BY <2>2, OneChanges
  <2> QED  BY ONLY <2>1, <2>3 DEF SumsWithOneMore
<1>3. \A x \in Accounts : /\ delegated[x] = Given(delegation, x) + SumFunction(expiring[x])
                          /\ received[x] = Got(delegation, x)
  BY DEF StakeInv, DelegationsAddUp, Given, Got
<1>4. \A x \in Accounts : SumFunction(expiring[x]) \in Nat /\ SumFunction(expiring'[x]) \in Nat
  <2> TAKE x \in Accounts
  <2>1. expiring[x] \in [0 .. CreateTime -> Nat] /\ expiring'[x] \in [0 .. CreateTime -> Nat]
    BY DEF StakeInv, LentShape
  <2> QED  BY <2>1, ExpiringSum
<1>5. \A x \in Accounts : Given(delegation', x) \in Nat /\ Got(delegation', x) \in Nat
  <2> TAKE x \in Accounts
  <2>1. /\ [y \in Accounts |-> delegation'[x][y].shares] \in [Accounts -> Nat]
        /\ [y \in Accounts |-> delegation'[y][x].shares] \in [Accounts -> Nat]
    BY <1>1
  <2> QED  BY <2>1, SharesSum DEF Given, Got
<1>6. ASSUME NEW x \in Accounts
      PROVE  /\ delegated'[x] = Given(delegation', x) + SumFunction(expiring'[x])
             /\ received'[x] = Got(delegation', x)
  <2>1. /\ Given(delegation, x) \in Int /\ Got(delegation, x) \in Int
        /\ Given(delegation', x) = IF x = a THEN Given(delegation, x) + d ELSE Given(delegation, x)
        /\ Got(delegation', x) = IF x = b THEN Got(delegation, x) + d ELSE Got(delegation, x)
    BY <1>2
  <2>2. /\ delegated[x] = Given(delegation, x) + SumFunction(expiring[x])
        /\ received[x] = Got(delegation, x) /\ SumFunction(expiring[x]) \in Nat
    BY <1>3, <1>4
  <2>3. /\ SumFunction(expiring'[x]) = IF x = a THEN SumFunction(expiring[x]) + e ELSE SumFunction(expiring[x])
        /\ delegated'[x] = IF x = a THEN delegated[x] + (d + e) ELSE delegated[x]
        /\ received'[x] = IF x = b THEN received[x] + d ELSE received[x]
    BY DEF Moves
  <2>4. PICK g \in Int, o \in Int, s \in Int :
           g = Given(delegation, x) /\ o = Got(delegation, x) /\ s = SumFunction(expiring[x])
    BY <2>1, <2>2
  <2>5. (g + s) + (d + e) = (g + d) + (s + e)
    BY ONLY g \in Int, s \in Int, d \in Int, e \in Int
  <2> QED  BY ONLY <2>1, <2>2, <2>3, <2>4, <2>5
<1>7. delegated' \in [Accounts -> Nat] /\ received' \in [Accounts -> Nat]
  <2>1. \A x \in Accounts : delegated'[x] \in Nat /\ received'[x] \in Nat
    <3> TAKE x \in Accounts
    <3>1. PICK g \in Nat, o \in Nat, s \in Nat :
             g = Given(delegation', x) /\ o = Got(delegation', x) /\ s = SumFunction(expiring'[x])
      BY <1>4, <1>5
    <3>2. delegated'[x] = g + s /\ received'[x] = o
      BY <1>6, <3>1
    <3> QED  BY ONLY <3>2, g \in Nat, o \in Nat, s \in Nat
  <2> QED  BY <2>1
<1> QED  BY <1>6, <1>7 DEF LentShape, DelegationsAddUp, Given, Got


LEMMA RedelegateKeeps ==
    ASSUME StakeInv, NEW b \in Accounts, NEW old \in Nat, NEW new \in Nat, redelegate(b, old, new),
           UNCHANGED <<requests, platforms>>
    PROVE  RelentShape' /\ RedelegationsAddUp'
<1> DEFINE e == [r \in Accounts |-> RedelegationDelta(b, r, old, new)]
           Grown(p, n) == [pct |-> p.pct, shares |-> p.shares + n]
<1>1. redelegations \in [Accounts -> [Accounts -> Parts]]
  BY DEF StakeInv, RelentShape
<1>2. \A r \in Accounts : e[r] \in Int /\ e[r] = RedelegationDelta(b, r, old, new)
                          /\ (redelegations[b][r].pct = 0 => e[r] = 0)
  <2> TAKE r \in Accounts
  <2>1. redelegations[b][r].pct \in 0 .. Hundred
    BY <1>1 DEF Parts
  <2>2. /\ Percent(new, redelegations[b][r].pct) \in Nat /\ Percent(old, redelegations[b][r].pct) \in Nat
        /\ redelegations[b][r].pct = 0 => /\ Percent(new, redelegations[b][r].pct) = 0
                                          /\ Percent(old, redelegations[b][r].pct) = 0
    BY <2>1, PercentNat
  <2> QED  BY <2>2 DEF RedelegationDelta
<1>3. DOMAIN e = Accounts
  OBVIOUS
<1>4. /\ redelegations' = [redelegations EXCEPT ![b] =
                             [r \in Accounts |-> Grown(redelegations[b][r], RedelegationDelta(b, r, old, new))]]
      /\ redelegated' = [redelegated EXCEPT ![b] = redelegated[b] + SumFunction(e)]
      /\ rereceived' = [r \in Accounts |-> rereceived[r] + RedelegationDelta(b, r, old, new)]
  <2>1. redelegations' = [redelegations EXCEPT ![b] =
                            [r \in Accounts |-> Grown(redelegations[b][r], RedelegationDelta(b, r, old, new))]]
    BY <1>1 DEF redelegate
  <2>2. redelegated' = [redelegated EXCEPT ![b] = redelegated[b] + SumFunction(e)]
    BY DEF redelegate
  <2>3. rereceived' = [r \in Accounts |-> rereceived[r] + RedelegationDelta(b, r, old, new)]
    BY DEF redelegate
  <2> QED  BY <2>1, <2>2, <2>3
<1> HIDE DEF e
<1>5. \A x, y \in Accounts :
         /\ redelegations[x][y] \in Parts
         /\ redelegations'[x][y] = IF x = b THEN Grown(redelegations[x][y], e[y]) ELSE redelegations[x][y]
  BY <1>1, <1>2, <1>4
<1>6. \A p \in Parts : \A n \in Int : Grown(p, n) \in Parts /\ Grown(p, n).shares = p.shares + n /\ p.shares \in Int
  BY DEF Parts
<1>7. redelegations' \in [Accounts -> [Accounts -> Parts]]
  <2>1. \A r \in Accounts : Grown(redelegations[b][r], RedelegationDelta(b, r, old, new)) \in Parts
    BY <1>2, <1>5, <1>6
  <2> HIDE DEF Parts
  <2> QED  BY <1>1, <1>4, <2>1
<1>8. RowMore(redelegations, redelegations', b, e)
  <2>1. \A x, y \in Accounts : /\ redelegations[x][y].shares \in Int
                               /\ redelegations'[x][y].shares = IF x = b THEN redelegations[x][y].shares + e[y]
                                                                ELSE redelegations[x][y].shares
    <3> TAKE x, y \in Accounts
    <3>1. e[y] \in Int /\ redelegations[x][y] \in Parts
      BY <1>2, <1>5
    <3>2. /\ Grown(redelegations[x][y], e[y]).shares = redelegations[x][y].shares + e[y]
          /\ redelegations[x][y].shares \in Int
      BY <1>6, <3>1
    <3> QED  BY <1>5, <3>2
  <2> QED  BY <1>2, <1>3, <2>1 DEF RowMore
<1>9. \A x \in Accounts : SumsWithRowMore(redelegations, redelegations', b, e, x)
  <2>1. PICK dl, dm : dl = redelegations /\ dm = redelegations'
    OBVIOUS
  <2>2. \A x \in Accounts : SumsWithRowMore(dl, dm, b, e, x)
    BY <1>8, <2>1, RowChanges
  <2> QED  BY <2>1, <2>2
<1>10. \A x \in Accounts : /\ redelegated[x] = Given(redelegations, x) /\ rereceived[x] = Got(redelegations, x)
                           /\ redelegated[x] \in Int /\ rereceived[x] \in Int
  BY DEF StakeInv, RedelegationsAddUp, Given, Got, RelentShape
<1>11. ASSUME NEW x \in Accounts
       PROVE  /\ redelegated'[x] = Given(redelegations', x) /\ rereceived'[x] = Got(redelegations', x)
              /\ redelegated'[x] \in Int /\ rereceived'[x] \in Int
  <2>1. /\ redelegated'[x] = IF x = b THEN redelegated[x] + SumFunction(e) ELSE redelegated[x]
        /\ rereceived'[x] = rereceived[x] + e[x]
    BY <1>2, <1>4 DEF StakeInv, RelentShape
  <2>2. SumsWithRowMore(redelegations, redelegations', b, e, x)
    BY <1>9
  <2>3. SumFunction(e) \in Int /\ e[x] \in Int
    BY <1>2, <2>2 DEF SumsWithRowMore
  <2>4. redelegated'[x] \in Int /\ rereceived'[x] \in Int
    BY <1>10, <2>1, <2>3
  <2> QED  BY <1>10, <2>1, <2>2, <2>4 DEF SumsWithRowMore
<1>12. redelegated' \in [Accounts -> Int] /\ rereceived' \in [Accounts -> Int]
  <2>1. redelegated' = [x \in Accounts |-> redelegated'[x]] /\ rereceived' = [x \in Accounts |-> rereceived'[x]]
    BY <1>4 DEF StakeInv, RelentShape
  <2> QED  BY <1>11, <2>1
<1>13. \A x, y \in Accounts : <<x, y>> \notin requests' => redelegations'[x][y] = [pct |-> 0, shares |-> 0]
  <2> SUFFICES ASSUME NEW x \in Accounts, NEW y \in Accounts, <<x, y>> \notin requests
               PROVE  redelegations'[x][y] = [pct |-> 0, shares |-> 0]
    OBVIOUS
  <2>1. redelegations[x][y] = [pct |-> 0, shares |-> 0]
    BY DEF StakeInv, RedelegationsAddUp
  <2>2. CASE x = b
    <3>1. e[y] = 0
      BY <1>2, <2>1, <2>2
    <3> QED  BY <1>5, <2>1, <2>2, <3>1
  <2> QED  BY <1>5, <2>1, <2>2
<1> QED  BY <1>7, <1>11, <1>12, <1>13 DEF StakeInv, RelentShape, RedelegationsAddUp, Given, Got


LEMMA ExpiringMore ==
    ASSUME NEW f \in [0 .. CreateTime -> Nat], NEW k \in 0 .. CreateTime, NEW n \in Nat
    PROVE  /\ [f EXCEPT ![k] = f[k] + n] \in [0 .. CreateTime -> Nat]
           /\ SumFunction([f EXCEPT ![k] = f[k] + n]) = SumFunction(f) + n
<1> DEFINE g == [f EXCEPT ![k] = f[k] + n]
           T == 0 .. CreateTime
<1>1. g \in [T -> Nat] /\ g[k] = f[k] + n /\ f[k] \in Nat
  OBVIOUS
<1>2. IntOn(f, T) /\ ChangesAt(f, g, T, k)
  BY DEF IntOn, ChangesAt
<1>3. IsFiniteSet(T) /\ SumFunction(f) = SumFunctionOnSet(f, T) /\ SumFunction(g) = SumFunctionOnSet(g, T)
  BY <1>1, ExpiringSum
<1> HIDE DEF g, T
<1>4. /\ SumFunctionOnSet(f, T) \in Int /\ SumFunctionOnSet(g, T) = SumFunctionOnSet(f, T) + (g[k] - f[k])
  <2>1. k \in T
    BY DEF T
  <2> QED  BY <1>2, <1>3, <2>1, SumChange
<1>5. PICK x \in Int, y \in Int : x = SumFunctionOnSet(f, T) /\ y = f[k]
  BY <1>1, <1>4
<1>6. x + ((y + n) - y) = x + n
  BY ONLY x \in Int, y \in Int, n \in Nat
<1>7. SumFunction(g) = SumFunction(f) + n
  BY ONLY <1>1, <1>3, <1>4, <1>5, <1>6
<1> QED  BY <1>1, <1>7 DEF g, T

LEMMA IncreaseMoves ==
    ASSUME StakeInv, NEW a \in Accounts, NEW b \in accounts, NEW old \in Nat, NEW new \in Nat, new >= old,
           old = delegation[a][b].shares, increase_delegation(a, b, old, new),
           received' = [received EXCEPT ![b] = @ + new - old], UNCHANGED <<vesting_shares, withdrawal, accounts>>
    PROVE  /\ LentShape' /\ DelegationsAddUp' /\ PromisedOnce' /\ NotYet'
           /\ total_vested_by_platforms' \in Int
<1>1. /\ delegated \in [Accounts -> Nat] /\ received \in [Accounts -> Nat]
      /\ delegation \in [Accounts -> [Accounts -> Grants]] /\ expiring \in [Accounts -> [0 .. CreateTime -> Nat]]
      /\ accounts \subseteq Accounts /\ total_vested_by_platforms \in Int
  BY DEF StakeInv, LentShape, OwnedShape
<1>2. /\ available_shares(a) >= new - old
      /\ delegated' = [delegated EXCEPT ![a] = @ + new - old]
      /\ delegation' = [delegation EXCEPT ![a][b].shares = new]
      /\ total_vested_by_platforms' = total_vested_by_platforms + (IsPlatform(b) - IsPlatform(a)) * (new - old)
      /\ expiring' = expiring
  BY DEF increase_delegation
<1>3. b \in Accounts
  BY <1>1
<1>4. PICK d \in Nat : d = new - old
  OBVIOUS
<1>5. delegation' \in [Accounts -> [Accounts -> Grants]]
  <2>1. \A g \in Grants : [g EXCEPT !.shares = new] \in Grants
    BY DEF Grants
  <2> HIDE DEF Grants
  <2> QED  BY <1>1, <1>2, <1>3, <2>1
<1>6. \A x, y \in Accounts : delegation'[x][y].shares = IF x = a /\ y = b THEN delegation[x][y].shares + d
                                                        ELSE delegation[x][y].shares
  <2>1. \A x, y \in Accounts : delegation'[x][y] = IF x = a /\ y = b THEN [delegation[a][b] EXCEPT !.shares = new]
                                                  ELSE delegation[x][y]
    BY <1>1, <1>2, <1>3
  <2>2. [delegation[a][b] EXCEPT !.shares = new].shares = new
    <3>1. delegation[a][b] \in Grants
      BY <1>1, <1>3
    <3> QED  BY <3>1 DEF Grants
  <2>3. new = delegation[a][b].shares + d
    BY <1>4
  <2> QED  BY <2>1, <2>2, <2>3
<1>7. \A x \in Accounts : /\ delegated[x] \in Nat /\ received[x] \in Nat
                          /\ delegated'[x] = IF x = a THEN delegated[x] + (d + 0) ELSE delegated[x]
                          /\ received'[x] = IF x = b THEN received[x] + d ELSE received[x]
  BY <1>1, <1>2, <1>3, <1>4
<1>8. \A x \in Accounts : SumFunction(expiring'[x]) = IF x = a THEN SumFunction(expiring[x]) + 0
                                                      ELSE SumFunction(expiring[x])
  <2> TAKE x \in Accounts
  <2>1. SumFunction(expiring[x]) \in Nat
    BY <1>1, ExpiringSum
  <2> QED  BY <1>2, <2>1
<1>9. Moves(a, b, d, 0)
  BY <1>6, <1>7, <1>8 DEF Moves
<1>10. delegated' \in [Accounts -> Int] /\ received' \in [Accounts -> Int]
  BY <1>1, <1>2, <1>3
<1>11. expiring' \in [Accounts -> [0 .. CreateTime -> Nat]]
  BY <1>1, <1>2
<1>12. LentShape' /\ DelegationsAddUp'
  <2>1. d \in Int /\ 0 \in Int
    OBVIOUS
  <2> QED  BY <1>3, <1>5, <1>9, <1>10, <1>11, <2>1, DelegationMoves
<1>13. PromisedOnce'
  <2> SUFFICES ASSUME NEW x \in Accounts
               PROVE  delegated'[x] + to_withdraw'[x] - withdrawn'[x] <= vesting_shares'[x]
    BY DEF PromisedOnce
  <2>1. /\ to_withdraw'[x] = to_withdraw[x] /\ withdrawn'[x] = withdrawn[x] /\ vesting_shares'[x] = vesting_shares[x]
        /\ to_withdraw[x] \in Nat /\ withdrawn[x] \in Nat /\ vesting_shares[x] \in Nat
        /\ delegated[x] + to_withdraw[x] - withdrawn[x] <= vesting_shares[x]
    BY DEF withdrawal, StakeInv, WithdrawalsRun, OwnedShape, Amounts, PromisedOnce
  <2>2. x = a => vesting_shares[x] - delegated[x] - (to_withdraw[x] - withdrawn[x]) >= d
    BY <1>2, <1>4 DEF available_shares
  <2> QED  BY <1>7, <2>1, <2>2
<1>14. NotYet'
  BY <1>1, <1>3, <1>6, ZenonT(60) DEF StakeInv, NotYet
<1>15. total_vested_by_platforms' \in Int
  BY <1>1, <1>2 DEF IsPlatform
<1> QED  BY <1>12, <1>13, <1>14, <1>15

LEMMA DecreaseMoves ==
    ASSUME StakeInv, NEW a \in Accounts, NEW b \in accounts, NEW old \in Nat, NEW new \in Nat, new < old,
           old = delegation[a][b].shares, decrease_delegation(a, b, old, new),
           received' = [received EXCEPT ![b] = @ + new - old], UNCHANGED <<vesting_shares, withdrawal, accounts>>
    PROVE  /\ LentShape' /\ DelegationsAddUp' /\ PromisedOnce' /\ NotYet'
           /\ total_vested_by_platforms' \in Int
<1>1. /\ delegated \in [Accounts -> Nat] /\ received \in [Accounts -> Nat]
      /\ delegation \in [Accounts -> [Accounts -> Grants]] /\ expiring \in [Accounts -> [0 .. CreateTime -> Nat]]
      /\ accounts \subseteq Accounts /\ total_vested_by_platforms \in Int
  BY DEF StakeInv, LentShape, OwnedShape
<1> DEFINE k == Max({1, delegation[a][b].lasts})
           g == IF new = 0 THEN [shares |-> 0, lasts |-> 0] ELSE [delegation[a][b] EXCEPT !.shares = new]
<1>2. /\ expiring' = [expiring EXCEPT ![a] = [expiring[a] EXCEPT ![k] = expiring[a][k] + old - new]]
      /\ delegation' = [delegation EXCEPT ![a] = [delegation[a] EXCEPT ![b] = g]]
      /\ total_vested_by_platforms' = total_vested_by_platforms - IsPlatform(b) * (1 - IsPlatform(a)) * (old - new)
      /\ delegated' = delegated
  BY <1>1 DEF decrease_delegation
<1>3. b \in Accounts /\ CreateTime \in Nat \ {0}
  BY <1>1, StakeNumbers
<1>4. PICK d \in Nat : d = old - new
  OBVIOUS
<1>5. g \in Grants /\ g.shares = new
  <2>1. delegation[a][b] \in Grants
    BY <1>1, <1>3
  <2> QED  BY <1>3, <2>1 DEF Grants
<1>6. k \in 0 .. CreateTime
  <2>1. delegation[a][b].lasts \in 0 .. CreateTime
    BY <1>1, <1>3 DEF Grants
  <2>2. PICK x \in Nat : x = delegation[a][b].lasts /\ x <= CreateTime
    BY <1>3, <2>1
  <2>3. \E m \in {1, x} : \A i \in {1, x} : m >= i
    OBVIOUS
  <2>4. Max({1, x}) \in {1, x}
    BY <2>3 DEF Max
  <2> QED  BY <1>3, <2>2, <2>4
<1> HIDE DEF k, g
<1>7. delegation' \in [Accounts -> [Accounts -> Grants]]
  <2> HIDE DEF Grants
  <2> QED  BY <1>1, <1>2, <1>3, <1>5
<1>8. \A x, y \in Accounts : delegation'[x][y] = IF x = a /\ y = b THEN g ELSE delegation[x][y]
  BY <1>1, <1>2, <1>3
<1>9. \A x, y \in Accounts : delegation'[x][y].shares = IF x = a /\ y = b THEN delegation[x][y].shares + (-d)
                                                        ELSE delegation[x][y].shares
  BY <1>4, <1>5, <1>8
<1>10. expiring[a][k] \in Nat /\ expiring[a] \in [0 .. CreateTime -> Nat]
  BY <1>1, <1>6
<1>11. expiring' = [expiring EXCEPT ![a] = [expiring[a] EXCEPT ![k] = expiring[a][k] + d]]
  <2>1. expiring[a][k] + old - new = expiring[a][k] + d
    BY <1>4, <1>10
  <2> QED  BY <1>2, <2>1
<1>12. /\ [expiring[a] EXCEPT ![k] = expiring[a][k] + d] \in [0 .. CreateTime -> Nat]
       /\ SumFunction([expiring[a] EXCEPT ![k] = expiring[a][k] + d]) = SumFunction(expiring[a]) + d
  BY <1>6, <1>10, ExpiringMore
<1>13. expiring' \in [Accounts -> [0 .. CreateTime -> Nat]]
  BY <1>1, <1>11, <1>12
<1>14. \A x \in Accounts : SumFunction(expiring'[x]) = IF x = a THEN SumFunction(expiring[x]) + d
                                                       ELSE SumFunction(expiring[x])
  <2> TAKE x \in Accounts
  <2>1. expiring'[x] = IF x = a THEN [expiring[a] EXCEPT ![k] = expiring[a][k] + d] ELSE expiring[x]
    BY <1>1, <1>11
  <2> QED  BY <1>12, <2>1
<1>15. \A x \in Accounts : /\ delegated[x] \in Nat /\ received[x] \in Nat
                           /\ delegated'[x] = IF x = a THEN delegated[x] + ((-d) + d) ELSE delegated[x]
                           /\ received'[x] = IF x = b THEN received[x] + (-d) ELSE received[x]
  <2> TAKE x \in Accounts
  <2>1. PICK u \in Nat, v \in Nat : u = delegated[x] /\ v = received[x]
    BY <1>1
  <2>2. u + ((-d) + d) = u /\ v + new - old = v + (-d)
    BY ONLY <1>4, u \in Nat, v \in Nat, d \in Nat, old \in Nat, new \in Nat
  <2>3. received'[x] = IF x = b THEN received[x] + new - old ELSE received[x]
    BY <1>1, <1>3
  <2> QED  BY <1>2, <2>1, <2>2, <2>3
<1>16. Moves(a, b, -d, d)
  BY <1>9, <1>14, <1>15 DEF Moves
<1>17. delegated' \in [Accounts -> Int] /\ received' \in [Accounts -> Int]
  <2>1. received[b] + new - old \in Int
    BY <1>1, <1>3
  <2>2. received' \in [Accounts -> Int]
    BY <1>1, <1>3, <2>1
  <2> QED  BY <1>1, <1>2, <2>2, SMTT(30)
<1>18. LentShape' /\ DelegationsAddUp'
  <2>1. -d \in Int /\ d \in Int
    OBVIOUS
  <2> QED  BY <1>3, <1>7, <1>13, <1>16, <1>17, <2>1, DelegationMoves
<1>19. PromisedOnce'
  BY <1>2, Kept DEF StakeInv
<1>20. NotYet'
  BY <1>1, <1>3, <1>8, ZenonT(60) DEF StakeInv, NotYet
<1>21. total_vested_by_platforms' \in Int
  BY <1>1, <1>2 DEF IsPlatform
<1> QED  BY <1>18, <1>19, <1>20, <1>21


LEMMA DelegateInv ==
    ASSUME StakeInv, UNCHANGED profile, NEW a \in Accounts, NEW b \in Accounts, NEW n \in Nat,
           delegate_vesting_shares(a, b, n)
    PROVE  StakeInv'
<1>1. /\ b \in accounts
      /\ UNCHANGED <<accounts, vesting_shares, withdrawal, routes, requests, platforms, total_vesting_shares>>
  BY DEF delegate_vesting_shares
<1>2. delegation[a][b].shares \in Nat
  BY DEF StakeInv, LentShape, Grants
<1>3. PICK old \in Nat : old = delegation[a][b].shares
  BY <1>2
<1>4. /\ IF n >= old THEN increase_delegation(a, b, old, n) ELSE decrease_delegation(a, b, old, n)
      /\ received' = [received EXCEPT ![b] = @ + n - old]
      /\ redelegate(b, old, n)
  BY <1>3 DEF delegate_vesting_shares
<1>5. RelentShape' /\ RedelegationsAddUp'
  BY <1>1, <1>4, RedelegateKeeps
<1>6. LentShape' /\ DelegationsAddUp' /\ PromisedOnce' /\ NotYet' /\ total_vested_by_platforms' \in Int
  <2>1. CASE n >= old
    BY <1>1, <1>3, <1>4, <2>1, IncreaseMoves
  <2>2. CASE n < old
    <3>1. ~ (n >= old)
      BY <2>2
    <3> QED  BY <1>1, <1>3, <1>4, <2>2, <3>1, DecreaseMoves
  <2> QED  BY <2>1, <2>2
<1>7. OwnedShape'
  BY <1>1, <1>6 DEF StakeInv, OwnedShape
<1> QED  BY <1>1, <1>5, <1>6, <1>7, Kept DEF StakeInv

LEMMA NothingGot ==
    ASSUME StakeInv, NEW b \in Accounts, b \notin accounts
    PROVE  received[b] = 0
<1> DEFINE f == [x \in Accounts |-> delegation[x][b].shares]
<1>1. received[b] = SumFunction(f)
  BY DEF StakeInv, DelegationsAddUp
<1>2. DOMAIN f = Accounts /\ \A x \in Accounts : f[x] = 0
  BY DEF StakeInv, NotYet
<1> HIDE DEF f
<1> QED  BY <1>1, <1>2, SumZero

LEMMA CreateWithDelegationInv ==
    ASSUME StakeInv, UNCHANGED profile, NEW a \in Accounts, NEW b \in Accounts, NEW n \in Nat, NEW m \in Nat,
           account_create_with_delegation(a, b, n, m)
    PROVE  StakeInv'
<1>1. /\ create_vesting(b, n) /\ accounts' = accounts \cup {b} /\ a \in accounts /\ b \notin accounts
      /\ available_shares(a) >= m
      /\ delegated' = [delegated EXCEPT ![a] = @ + m]
      /\ received' = [received EXCEPT ![b] = m]
      /\ delegation' = IF m = 0 THEN delegation
                       ELSE [delegation EXCEPT ![a][b] = [shares |-> m, lasts |-> CreateTime]]
      /\ UNCHANGED <<redelegated, rereceived, withdrawal, routes, expiring, redelegations, requests, platforms>>
  BY DEF account_create_with_delegation
<1>2. accounts \subseteq accounts' /\ accounts' \subseteq Accounts
  BY <1>1 DEF StakeInv, OwnedShape
<1>3. /\ OwnedShape' /\ SharesAddUp'
      /\ \A x \in Accounts : vesting_shares[x] \in Nat /\ vesting_shares'[x] \in Nat
                             /\ vesting_shares[x] <= vesting_shares'[x]
  BY <1>1, <1>2, Created
<1>4. /\ delegated \in [Accounts -> Nat] /\ received \in [Accounts -> Nat]
      /\ delegation \in [Accounts -> [Accounts -> Grants]] /\ expiring \in [Accounts -> [0 .. CreateTime -> Nat]]
  BY DEF StakeInv, LentShape
<1>5. \A x \in Accounts : delegation[x][b].shares = 0
  BY <1>1 DEF StakeInv, NotYet
<1>6. received[b] = 0
  BY <1>1, NothingGot
<1>7. [shares |-> m, lasts |-> CreateTime] \in Grants
  BY StakeNumbers DEF Grants
<1>8. delegation' \in [Accounts -> [Accounts -> Grants]]
  <2> HIDE DEF Grants
  <2> QED  BY <1>1, <1>4, <1>7
<1>9. \A x, y \in Accounts : delegation'[x][y].shares = IF x = a /\ y = b THEN delegation[x][y].shares + m
                                                        ELSE delegation[x][y].shares
  <2>1. CASE m = 0
    <3>1. delegation[a][b].shares + m = delegation[a][b].shares
      BY <1>5, <2>1
    <3> QED  BY <1>1, <2>1, <3>1
  <2>2. CASE m # 0
    <3>1. \A x, y \in Accounts : delegation'[x][y] = IF x = a /\ y = b THEN [shares |-> m, lasts |-> CreateTime]
                                                    ELSE delegation[x][y]
      BY <1>1, <1>4, <2>2
    <3>2. delegation[a][b].shares + m = m
      BY <1>5
    <3>3. [shares |-> m, lasts |-> CreateTime].shares = m
      OBVIOUS
    <3> QED  BY <3>1, <3>2, <3>3
  <2> QED  BY <2>1, <2>2
<1>10. \A x \in Accounts : /\ delegated[x] \in Nat /\ received[x] \in Nat
                           /\ delegated'[x] = IF x = a THEN delegated[x] + (m + 0) ELSE delegated[x]
                           /\ received'[x] = IF x = b THEN received[x] + m ELSE received[x]
  BY <1>1, <1>4, <1>6
<1>11. \A x \in Accounts : SumFunction(expiring'[x]) = IF x = a THEN SumFunction(expiring[x]) + 0
                                                       ELSE SumFunction(expiring[x])
  <2> TAKE x \in Accounts
  <2>1. SumFunction(expiring[x]) \in Nat
    BY <1>4, ExpiringSum
  <2> QED  BY <1>1, <2>1
<1>12. Moves(a, b, m, 0)
  BY <1>9, <1>10, <1>11 DEF Moves
<1>13. /\ delegated' \in [Accounts -> Int] /\ received' \in [Accounts -> Int]
       /\ expiring' \in [Accounts -> [0 .. CreateTime -> Nat]] /\ m \in Int /\ 0 \in Int
  BY <1>1, <1>4
<1>14. LentShape' /\ DelegationsAddUp'
  BY <1>8, <1>12, <1>13, DelegationMoves
<1>15. PromisedOnce'
  <2> SUFFICES ASSUME NEW x \in Accounts
               PROVE  delegated'[x] + to_withdraw'[x] - withdrawn'[x] <= vesting_shares'[x]
    BY DEF PromisedOnce
  <2>1. /\ to_withdraw'[x] = to_withdraw[x] /\ withdrawn'[x] = withdrawn[x]
        /\ to_withdraw[x] \in Nat /\ withdrawn[x] \in Nat
        /\ delegated[x] + to_withdraw[x] - withdrawn[x] <= vesting_shares[x]
    BY <1>1 DEF withdrawal, StakeInv, WithdrawalsRun, Amounts, PromisedOnce
  <2>2. x = a => vesting_shares[x] - delegated[x] - (to_withdraw[x] - withdrawn[x]) >= m
    BY <1>1 DEF available_shares
  <2> QED  BY <1>3, <1>10, <2>1, <2>2
<1>16. NotYet'
  BY <1>1, <1>9 DEF StakeInv, NotYet
<1> QED  BY <1>1, <1>3, <1>14, <1>15, <1>16, Kept DEF StakeInv

-----------------------------------------------------------------------------
(* Stake: the platforms. *)

LEMMA PlatformUpdateInv ==
    ASSUME StakeInv, UNCHANGED profile, NEW a \in Accounts, streaming_platform_update(a)
    PROVE  StakeInv'
<1>1. /\ a \in accounts /\ platforms' = platforms \cup {a}
      /\ total_vested_by_platforms' = total_vested_by_platforms + vesting_shares[a] + received[a] - delegated[a]
      /\ UNCHANGED <<accounts, vesting_shares, delegated, received, redelegated, rereceived, withdrawal, routes,
                     delegation, expiring, redelegations, requests, total_vesting_shares>>
  BY DEF streaming_platform_update, holdings
<1>2. total_vested_by_platforms' \in Int
  BY <1>1 DEF StakeInv, OwnedShape, LentShape
<1>3. OwnedShape'
  BY <1>1, <1>2 DEF StakeInv, OwnedShape
<1>4. RelentShape'
  BY <1>1 DEF StakeInv, RelentShape
<1> QED  BY <1>1, <1>3, <1>4, Kept DEF StakeInv

LEMMA SetRedelegationInv ==
    ASSUME StakeInv, UNCHANGED profile, NEW q \in Accounts, NEW r \in Accounts, NEW p \in 0 .. Hundred,
           NEW n \in Int, set_redelegation(q, r, p, n), requests' \subseteq platforms \X platforms,
           \A x, y \in Accounts : <<x, y>> # <<q, r>> /\ <<x, y>> \in requests => <<x, y>> \in requests',
           <<q, r>> \in requests' \/ (p = 0 /\ n = 0)
    PROVE  StakeInv'
<1>1. /\ redelegations' = [redelegations EXCEPT ![q][r] = [pct |-> p, shares |-> n]]
      /\ redelegated' = [redelegated EXCEPT ![q] = @ + n - redelegations[q][r].shares]
      /\ rereceived' = [rereceived EXCEPT ![r] = @ + n - redelegations[q][r].shares]
      /\ UNCHANGED <<accounts, vesting_shares, delegated, received, withdrawal, routes, delegation, expiring,
                     platforms, total_vesting_shares, total_vested_by_platforms>>
  BY DEF set_redelegation
<1>2. /\ redelegations \in [Accounts -> [Accounts -> Parts]]
      /\ redelegated \in [Accounts -> Int] /\ rereceived \in [Accounts -> Int]
  BY DEF StakeInv, RelentShape
<1>3. \A x, y \in Accounts : redelegations[x][y] \in Parts /\ redelegations[x][y].shares \in Int
  BY <1>2 DEF Parts
<1>4. PICK s \in Int, d \in Int : s = redelegations[q][r].shares /\ d = n - s
  BY <1>3
<1>5. [pct |-> p, shares |-> n] \in Parts
  BY DEF Parts
<1>6. redelegations' \in [Accounts -> [Accounts -> Parts]]
  <2> HIDE DEF Parts
  <2> QED  BY <1>1, <1>2, <1>5
<1>7. \A x, y \in Accounts : redelegations'[x][y] = IF x = q /\ y = r THEN [pct |-> p, shares |-> n]
                                                    ELSE redelegations[x][y]
  BY <1>1, <1>2
<1>8. OneMore(redelegations, redelegations', q, r, d)
  <2>1. [pct |-> p, shares |-> n].shares = redelegations[q][r].shares + d
    BY <1>4
  <2> QED  BY <1>3, <1>7, <2>1 DEF OneMore
<1>9. \A x \in Accounts : SumsWithOneMore(redelegations, redelegations', q, r, d, x)
  <2>1. PICK dl, dm : dl = redelegations /\ dm = redelegations'
    OBVIOUS
  <2>2. \A x \in Accounts : SumsWithOneMore(dl, dm, q, r, d, x)
    BY <1>8, <2>1, OneChanges
  <2> QED  BY <2>1, <2>2
<1>10. ASSUME NEW x \in Accounts
       PROVE  /\ redelegated'[x] = Given(redelegations', x) /\ rereceived'[x] = Got(redelegations', x)
              /\ redelegated'[x] \in Int /\ rereceived'[x] \in Int
  <2>1. redelegated[x] = Given(redelegations, x) /\ rereceived[x] = Got(redelegations, x)
    BY DEF StakeInv, RedelegationsAddUp, Given, Got
  <2>2. PICK u \in Int, v \in Int : u = redelegated[x] /\ v = rereceived[x]
    BY <1>2
  <2>3. u + n - s = u + d /\ v + n - s = v + d
    BY ONLY <1>4, u \in Int, v \in Int, s \in Int, d \in Int, n \in Int
  <2>4. /\ redelegated'[x] = IF x = q THEN u + d ELSE u
        /\ rereceived'[x] = IF x = r THEN v + d ELSE v
    BY <1>1, <1>2, <1>4, <2>2, <2>3
  <2>5. SumsWithOneMore(redelegations, redelegations', q, r, d, x)
    BY <1>9
  <2>6. redelegated'[x] \in Int /\ rereceived'[x] \in Int
    BY <2>4
  <2> QED  BY <2>1, <2>2, <2>4, <2>5, <2>6 DEF SumsWithOneMore
<1>11. RelentShape'
  <2>1. redelegated' \in [Accounts -> Int] /\ rereceived' \in [Accounts -> Int]
    BY <1>1, <1>2, <1>4
  <2> QED  BY <1>1, <1>6, <2>1 DEF RelentShape
<1>12. \A x, y \in Accounts : <<x, y>> \notin requests' => redelegations'[x][y] = [pct |-> 0, shares |-> 0]
  <2> SUFFICES ASSUME NEW x \in Accounts, NEW y \in Accounts, <<x, y>> \notin requests'
               PROVE  redelegations'[x][y] = [pct |-> 0, shares |-> 0]
    OBVIOUS
  <2>1. CASE x = q /\ y = r
    BY <1>7, <2>1
  <2>2. CASE ~ (x = q /\ y = r)
    <3>1. <<x, y>> \notin requests
      BY <2>2
    <3>2. redelegations[x][y] = [pct |-> 0, shares |-> 0]
      BY <3>1 DEF StakeInv, RedelegationsAddUp
    <3> QED  BY <1>7, <2>2, <3>2
  <2> QED  BY <2>1, <2>2
<1>13. RedelegationsAddUp'
  BY <1>10, <1>12 DEF RedelegationsAddUp, Given, Got
<1>14. OwnedShape'
  BY <1>1 DEF StakeInv, OwnedShape
<1> QED  BY <1>1, <1>11, <1>13, <1>14, Kept DEF StakeInv

LEMMA ReportingInv ==
    ASSUME StakeInv, UNCHANGED profile, NEW q \in Accounts, NEW r \in Accounts
    PROVE  /\ \A p \in 0 .. Hundred : request_stream_reporting(q, r, p) => StakeInv'
           /\ cancel_stream_reporting(q, r) => StakeInv'
<1>0. requests \subseteq platforms \X platforms
  BY DEF StakeInv, RelentShape
<1>1. ASSUME NEW p \in 0 .. Hundred, request_stream_reporting(q, r, p) PROVE StakeInv'
  <2>1. /\ q \in platforms /\ r \in platforms /\ requests' = requests \cup {<<q, r>>}
        /\ set_redelegation(q, r, p, Percent(received[q], p))
    BY <1>1 DEF request_stream_reporting
  <2>2. received[q] \in Nat
    BY DEF StakeInv, LentShape
  <2>3. PICK n \in Int : n = Percent(received[q], p)
    BY <2>2, PercentNat
  <2>4. set_redelegation(q, r, p, n)
    BY <2>1, <2>3
  <2>5. requests' \subseteq platforms \X platforms /\ <<q, r>> \in requests'
    BY <1>0, <2>1
  <2>6. \A x, y \in Accounts : <<x, y>> # <<q, r>> /\ <<x, y>> \in requests => <<x, y>> \in requests'
    BY <2>1
  <2> QED  BY <2>4, <2>5, <2>6, SetRedelegationInv
<1>2. ASSUME cancel_stream_reporting(q, r) PROVE StakeInv'
  <2>1. requests' = requests \ {<<q, r>>} /\ set_redelegation(q, r, 0, 0)
    BY <1>2 DEF cancel_stream_reporting
  <2>2. 0 \in 0 .. Hundred /\ 0 \in Int
    BY StakeNumbers
  <2>3. requests' \subseteq platforms \X platforms
    BY <1>0, <2>1
  <2>4. \A x, y \in Accounts : <<x, y>> # <<q, r>> /\ <<x, y>> \in requests => <<x, y>> \in requests'
    BY <2>1
  <2> QED  BY <2>1, <2>2, <2>3, <2>4, SetRedelegationInv
<1> QED  BY <1>1, <1>2


-----------------------------------------------------------------------------
(* Stake: delegations return. *)

Shifted(f) == [t \in DOMAIN f |-> IF t + 1 \in DOMAIN f THEN f[t + 1] ELSE 0]

\* What is not yet due moves one interval closer; what is due leaves.
LEMMA ShiftedSum ==
    ASSUME NEW f \in [0 .. CreateTime -> Nat]
    PROVE  /\ Shifted(f) \in [0 .. CreateTime -> Nat]
           /\ SumFunction(f) = SumFunction(Shifted(f)) + f[0]
<1>0. PICK c \in Nat : c = CreateTime
  BY StakeNumbers
<1> DEFINE g == Shifted(f)
           F(k) == SumFunctionOnSet(f, 0 .. k)
           G(k) == SumFunctionOnSet(g, 0 .. k)
           N == {k \in Nat : k <= c => G(k) + f[0] = F(k) + g[k]}
<1>1. /\ g \in [0 .. c -> Nat] /\ f \in [0 .. c -> Nat]
      /\ \A t \in 0 .. c : g[t] = IF t + 1 \in 0 .. c THEN f[t + 1] ELSE 0
  BY <1>0 DEF Shifted
<1>2. \A t \in 0 .. c : f[t] \in Nat /\ g[t] \in Nat
  BY <1>1
<1> HIDE DEF g
<1>3. ASSUME NEW k \in Nat, k + 1 <= c
      PROVE  /\ F(k) \in Int /\ G(k) \in Int
             /\ F(k + 1) = f[k + 1] + F(k) /\ G(k + 1) = g[k + 1] + G(k)
  <2> DEFINE T == 0 .. k
             x == k + 1
  <2>0. x \notin T /\ T \cup {x} = 0 .. x
    BY SMT
  <2>1. IsFiniteSet(T) /\ x \notin T /\ T \cup {x} = 0 .. x
    BY <2>0, FS_Interval
  <2>2. \A t \in T \cup {x} : t \in 0 .. c
    BY <1>3
  <2> HIDE DEF T, x
  <2>3. IntOn(f, T \cup {x}) /\ IntOn(g, T \cup {x})
    BY <1>2, <2>2 DEF IntOn
  <2>4. SumFunctionOnSet(f, T) \in Int /\ SumFunctionOnSet(f, T \cup {x}) = f[x] + SumFunctionOnSet(f, T)
    BY <2>1, <2>3, SumInsert
  <2>5. SumFunctionOnSet(g, T) \in Int /\ SumFunctionOnSet(g, T \cup {x}) = g[x] + SumFunctionOnSet(g, T)
    BY <2>1, <2>3, SumInsert
  <2> QED  BY <2>1, <2>4, <2>5 DEF T, x
<1>4. F(0) = f[0] /\ G(0) = g[0]
  <2>0. 0 .. 0 = {} \cup {0} /\ IsFiniteSet({}) /\ 0 \notin {} /\ 0 \in 0 .. c
    BY FS_EmptySet
  <2>1. IntOn(f, {} \cup {0}) /\ IntOn(g, {} \cup {0}) /\ IntOn(f, {}) /\ IntOn(g, {})
    BY <1>2, <2>0 DEF IntOn
  <2>2. SumFunctionOnSet(f, {}) = 0 /\ SumFunctionOnSet(g, {}) = 0
    BY <2>0, <2>1, SumOnSet
  <2>3. SumFunctionOnSet(f, {} \cup {0}) = f[0] + SumFunctionOnSet(f, {})
    BY <2>0, <2>1, SumInsert
  <2>4. SumFunctionOnSet(g, {} \cup {0}) = g[0] + SumFunctionOnSet(g, {})
    BY <2>0, <2>1, SumInsert
  <2>5. PICK x \in Nat, y \in Nat : x = f[0] /\ y = g[0]
    BY <1>2, <2>0
  <2>6. x + 0 = x /\ y + 0 = y
    OBVIOUS
  <2> QED  BY <2>0, <2>2, <2>3, <2>4, <2>5, <2>6
<1>5. 0 \in N
  <2>1. PICK x \in Nat, y \in Nat : x = f[0] /\ y = g[0]
    BY <1>2
  <2>2. y + x = x + y
    OBVIOUS
  <2> QED  BY <1>4, <2>1, <2>2
<1>6. ASSUME NEW k \in N PROVE k + 1 \in N
  <2> SUFFICES ASSUME k + 1 <= c PROVE G(k + 1) + f[0] = F(k + 1) + g[k + 1]
    OBVIOUS
  <2>1. /\ F(k) \in Int /\ G(k) \in Int
        /\ F(k + 1) = f[k + 1] + F(k) /\ G(k + 1) = g[k + 1] + G(k)
    BY <1>3
  <2>2. k \in 0 .. c /\ k + 1 \in 0 .. c /\ 0 \in 0 .. c
    OBVIOUS
  <2>3. g[k] = f[k + 1]
    BY <1>1, <2>2
  <2>4. G(k) + f[0] = F(k) + g[k]
    BY <2>2
  <2>5. PICK p \in Int, q \in Int, u \in Int, v \in Int, z \in Int :
           p = F(k) /\ q = G(k) /\ u = f[k + 1] /\ v = g[k + 1] /\ z = f[0]
    BY <1>2, <2>1, <2>2, SMTT(30)
  <2>6. q + z = p + u
    BY <2>3, <2>4, <2>5
  <2>7. (v + q) + z = (u + p) + v
    BY ONLY <2>6, p \in Int, q \in Int, u \in Int, v \in Int, z \in Int
  <2> QED  BY <2>1, <2>5, <2>7
<1>7. N = Nat
  <2>1. N \in SUBSET Nat
    OBVIOUS
  <2> HIDE DEF N
  <2> QED  BY <1>5, <1>6, <2>1, NatSetInduction
<1>8. G(c) + f[0] = F(c) + g[c]
  BY <1>7
<1>9. g[c] = 0
  BY <1>1
<1>10. SumFunction(f) = F(c) /\ SumFunction(g) = G(c) /\ F(c) \in Nat
  BY <1>0, <1>1, ExpiringSum
<1>11. PICK p \in Int : p = F(c)
  BY <1>10
<1>12. p + 0 = p
  OBVIOUS
<1> QED  BY <1>0, <1>1, <1>8, <1>9, <1>10, <1>11, <1>12 DEF g


LEMMA ReturnedInv ==
    ASSUME StakeInv, clear_expired_delegations, UNCHANGED <<received, platforms, accounts>>,
           delegation' = [a \in Accounts |-> [b \in Accounts |-> [delegation[a][b] EXCEPT !.lasts = Max({@ - 1, 0})]]]
    PROVE  /\ LentShape' /\ DelegationsAddUp' /\ NotYet' /\ total_vested_by_platforms' \in Int
           /\ \A a \in Accounts : delegated[a] \in Nat /\ delegated'[a] \in Nat /\ delegated'[a] <= delegated[a]
<1>1. /\ delegated \in [Accounts -> Nat] /\ received \in [Accounts -> Nat]
      /\ delegation \in [Accounts -> [Accounts -> Grants]] /\ expiring \in [Accounts -> [0 .. CreateTime -> Nat]]
      /\ total_vested_by_platforms \in Int /\ platforms \subseteq Accounts
  BY DEF StakeInv, LentShape, OwnedShape
<1>2. PICK c \in Nat : c = CreateTime /\ c # 0
  BY StakeNumbers
<1>3. /\ delegated' = [a \in Accounts |-> delegated[a] - expiring[a][0]]
      /\ total_vested_by_platforms' = total_vested_by_platforms
           + SumFunctionOnSet([a \in Accounts |-> expiring[a][0]], platforms)
      /\ \A a \in Accounts : expiring'[a] = Shifted(expiring[a])
      /\ DOMAIN expiring' = Accounts
      /\ expiring' = [a \in Accounts |-> expiring'[a]]
  BY DEF clear_expired_delegations, Shifted
<1>4. \A a, b \in Accounts : delegation'[a][b] \in Grants /\ delegation'[a][b].shares = delegation[a][b].shares
  <2> TAKE a, b \in Accounts
  <2>1. delegation[a][b] \in Grants
    BY <1>1
  <2>2. PICK l \in 0 .. c : l = delegation[a][b].lasts
    BY <1>2, <2>1 DEF Grants
  <2>3. delegation'[a][b] = [delegation[a][b] EXCEPT !.lasts = Max({l - 1, 0})]
    BY <2>2
  <2>4. \E m \in {l - 1, 0} : \A i \in {l - 1, 0} : m >= i
    OBVIOUS
  <2>5. Max({l - 1, 0}) \in {l - 1, 0} /\ Max({l - 1, 0}) >= 0
    BY <2>4 DEF Max
  <2>6. Max({l - 1, 0}) \in 0 .. c
    BY <2>5
  <2> QED  BY <1>2, <2>1, <2>3, <2>6 DEF Grants
<1>5. delegation' \in [Accounts -> [Accounts -> Grants]]
  <2>1. /\ delegation' = [a \in Accounts |-> delegation'[a]]
        /\ \A a \in Accounts : delegation'[a] = [b \in Accounts |-> delegation'[a][b]]
    OBVIOUS
  <2> HIDE DEF Grants
  <2>2. \A a \in Accounts : delegation'[a] \in [Accounts -> Grants]
    BY <1>4, <2>1
  <2> QED  BY <2>1, <2>2
<1>6. NotYet'
  <2>1. \A a \in Accounts \ accounts, b \in Accounts : delegation[b][a].shares = 0
    BY DEF StakeInv, NotYet
  <2>2. \A a \in Accounts \ accounts, b \in Accounts : delegation'[b][a].shares = 0
    BY ONLY <1>4, <2>1
  <2> QED  BY <2>2 DEF NotYet
<1>7. \A x \in Accounts : Given(delegation', x) = Given(delegation, x) /\ Got(delegation', x) = Got(delegation, x)
  <2> TAKE x \in Accounts
  <2>1. /\ [b \in Accounts |-> delegation'[x][b].shares] = [b \in Accounts |-> delegation[x][b].shares]
        /\ [b \in Accounts |-> delegation'[b][x].shares] = [b \in Accounts |-> delegation[b][x].shares]
    BY <1>4
  <2> QED  BY <2>1 DEF Given, Got
<1>8. \A x \in Accounts : Given(delegation, x) \in Nat
  <2> TAKE x \in Accounts
  <2>1. [b \in Accounts |-> delegation[x][b].shares] \in [Accounts -> Nat]
    BY <1>1 DEF Grants
  <2> QED  BY <2>1, SharesSum DEF Given
<1>9. ASSUME NEW x \in Accounts
      PROVE  /\ expiring'[x] \in [0 .. CreateTime -> Nat] /\ expiring[x][0] \in Nat
             /\ delegated[x] \in Nat /\ delegated'[x] \in Nat /\ delegated'[x] <= delegated[x]
             /\ delegated'[x] = Given(delegation', x) + SumFunction(expiring'[x])
             /\ received'[x] = Got(delegation', x)
  <2>1. expiring[x] \in [0 .. CreateTime -> Nat] /\ expiring'[x] = Shifted(expiring[x])
    BY <1>1, <1>3
  <2>2. /\ expiring'[x] \in [0 .. CreateTime -> Nat]
        /\ SumFunction(expiring[x]) = SumFunction(expiring'[x]) + expiring[x][0]
    BY <2>1, ShiftedSum
  <2>3. SumFunction(expiring'[x]) \in Nat
    BY <2>2, ExpiringSum
  <2>4. expiring[x][0] \in Nat
    BY <1>2, <2>1
  <2>5. /\ delegated[x] = Given(delegation, x) + SumFunction(expiring[x]) /\ received[x] = Got(delegation, x)
    BY DEF StakeInv, DelegationsAddUp, Given, Got
  <2>6. PICK g \in Nat, s \in Nat, z \in Nat :
           g = Given(delegation, x) /\ s = SumFunction(expiring'[x]) /\ z = expiring[x][0]
    BY <1>8, <2>3, <2>4
  <2>7. (g + (s + z)) - z = g + s /\ g + s <= g + (s + z) /\ g + s \in Nat /\ g + (s + z) \in Nat
    BY ONLY g \in Nat, s \in Nat, z \in Nat
  <2>8. delegated'[x] = delegated[x] - expiring[x][0]
    BY <1>3
  <2>9. delegated[x] = g + (s + z) /\ delegated'[x] = g + s
    BY <2>2, <2>5, <2>6, <2>7, <2>8
  <2> QED  BY <1>7, <2>2, <2>4, <2>5, <2>6, <2>7, <2>9
<1>10. total_vested_by_platforms' \in Int
  <2> DEFINE f == [a \in Accounts |-> expiring[a][0]]
  <2>1. IntOn(f, platforms)
    <3>1. \A a \in platforms : f[a] \in Int
      <4> TAKE a \in platforms
      <4>1. a \in Accounts
        BY <1>1
      <4>2. expiring[a][0] \in Nat
        BY <1>9, <4>1
      <4> QED  BY <4>1, <4>2
    <3> HIDE DEF f
    <3> QED  BY <3>1 DEF IntOn
  <2>2. IsFiniteSet(platforms)
    BY <1>1, Finite, FS_Subset
  <2> HIDE DEF f
  <2>3. SumFunctionOnSet(f, platforms) \in Int
    BY <2>1, <2>2, SumOnSet
  <2> QED  BY <1>1, <1>3, <2>3 DEF f
<1>11. expiring' \in [Accounts -> [0 .. CreateTime -> Nat]]
  BY <1>3, <1>9
<1>12. delegated' \in [Accounts -> Nat]
  <2>1. delegated' = [a \in Accounts |-> delegated'[a]]
    BY <1>3
  <2> QED  BY <1>9, <2>1
<1>13. LentShape' /\ DelegationsAddUp'
  BY <1>1, <1>5, <1>9, <1>11, <1>12 DEF LentShape, DelegationsAddUp, Given, Got
<1> QED  BY <1>6, <1>9, <1>10, <1>13

-----------------------------------------------------------------------------
(* Stake: a round of withdrawals. *)

\* What is left of a withdrawal that has taken its rate so many times, or the
\* rate.
Rest(t, w, r) == (t - w < r => t % r = t - w) /\ (w + r) % r = 0

LEMMA LastPart ==
    ASSUME NEW t \in Nat, NEW w \in Nat, NEW r \in Nat \ {0}, w % r = 0, w <= t
    PROVE  Rest(t, w, r)
<1>1. PICK k \in Nat : w = r * k
  <2>1. w \div r \in Nat /\ w = r * (w \div r) + (w % r)
    OBVIOUS
  <2> QED  BY <2>1
<1>2. ASSUME NEW m \in Nat, NEW l \in Nat, l < r, m = r * k + l PROVE m % r = l
  <2>1. PICK q \in Nat, e \in Nat : m = r * q + e /\ e < r /\ e = m % r
    <3>1. m \div r \in Nat /\ m = r * (m \div r) + (m % r) /\ m % r \in Nat /\ m % r < r
      OBVIOUS
    <3> QED  BY <3>1
  <2>2. CASE q >= k + 1
    <3>1. PICK d \in Nat : q = k + 1 + d
      BY <2>2
    <3>2. r * q = r * k + r + r * d /\ r * d \in Nat /\ r * k \in Nat
      BY <3>1
    <3> QED  BY <1>2, <2>1, <3>2
  <2>3. CASE k >= q + 1
    <3>1. PICK d \in Nat : k = q + 1 + d
      BY <2>3
    <3>2. r * k = r * q + r + r * d /\ r * d \in Nat /\ r * q \in Nat
      BY <3>1
    <3> QED  BY <1>2, <2>1, <3>2
  <2>4. CASE q = k
    <3>1. PICK x \in Nat : x = r * k
      OBVIOUS
    <3>2. m = x + l /\ m = x + e
      BY <1>2, <2>1, <2>4, <3>1
    <3>3. l = e
      BY ONLY <3>2, x \in Nat, l \in Nat, e \in Nat
    <3> QED  BY <2>1, <3>3
  <2> QED  BY <2>2, <2>3, <2>4
<1>3. ASSUME t - w < r PROVE t % r = t - w
  <2>1. PICK l \in Nat : l = t - w /\ l < r
    BY <1>3
  <2>2. t = r * k + l
    BY <1>1, <2>1
  <2> QED  BY <1>2, <2>1, <2>2
<1>4. (w + r) % r = 0
  <2>1. PICK q \in Nat, e \in Nat : w + r = r * q + e /\ e < r /\ e = (w + r) % r
    <3>1. (w + r) \div r \in Nat /\ w + r = r * ((w + r) \div r) + ((w + r) % r) /\ (w + r) % r \in Nat /\ (w + r) % r < r
      OBVIOUS
    <3> QED  BY <3>1
  <2>2. r * (k + 1) + 0 = w + r
    BY <1>1
  <2>3. CASE q >= k + 2
    <3>1. PICK d \in Nat : q = k + 2 + d
      BY <2>3
    <3>2. r * q = r * k + r + r + r * d /\ r * d \in Nat /\ r * k \in Nat
      BY <3>1
    <3> QED  BY <1>1, <2>1, <3>2
  <2>4. CASE k >= q
    <3>1. PICK d \in Nat : k = q + d
      BY <2>4
    <3>2. r * k = r * q + r * d /\ r * d \in Nat /\ r * q \in Nat
      BY <3>1
    <3> QED  BY <1>1, <2>1, <3>2
  <2>5. CASE q = k + 1
    BY <2>1, <2>2, <2>5
  <2> QED  BY <2>3, <2>4, <2>5
<1> QED  BY <1>3, <1>4 DEF Rest


\* The routes of a withdrawal carry no more than is withdrawn.
LEMMA DepositsWithin ==
    ASSUME StakeInv, NEW a \in Accounts, NEW n \in Nat, NEW f, f = [b \in Accounts |-> Deposit(a, b, n)]
    PROVE  /\ \A b \in Accounts : f[b] = Deposit(a, b, n) /\ f[b] \in Nat
           /\ SumFunction(f) \in Nat /\ SumFunction(f) <= n
<1> DEFINE M == Met(a)
           p == [b \in Accounts |-> routes[a][b].percent]
           g == [b \in Accounts |-> IF b \in M THEN p[b] ELSE 0]
<1>1. M \subseteq Accounts /\ DOMAIN f = Accounts /\ Hundred \in Nat \ {0}
  BY StakeNumbers DEF Met
<1>2. \A b \in Accounts : p[b] = routes[a][b].percent /\ p[b] \in 0 .. Hundred
  BY DEF StakeInv, OwnedShape, Ways
<1>3. \A b \in Accounts : /\ f[b] = Deposit(a, b, n) /\ f[b] \in Nat
                          /\ Hundred * f[b] <= n * g[b]
  <2> TAKE b \in Accounts
  <2>1. f[b] = IF b \in M /\ routes[a][b].auto_vest THEN Percent(n, p[b]) ELSE 0
    BY DEF Deposit
  <2>2. Percent(n, p[b]) \in Nat /\ Hundred * Percent(n, p[b]) <= n * p[b]
    BY <1>2, PercentNat
  <2>3. g[b] = IF b \in M THEN p[b] ELSE 0
    OBVIOUS
  <2>4. PICK x \in Nat, h \in Nat : x = p[b] /\ h = Hundred
    BY <1>1, <1>2
  <2> HIDE DEF M, p, g
  <2>5. h * 0 <= n * x /\ h * 0 <= n * 0
    BY ONLY n \in Nat, h \in Nat, x \in Nat
  <2>6. CASE b \in M /\ routes[a][b].auto_vest
    BY <2>1, <2>2, <2>3, <2>6
  <2>7. CASE ~ (b \in M /\ routes[a][b].auto_vest)
    BY <2>1, <2>3, <2>4, <2>5, <2>7
  <2>8. f[b] = Deposit(a, b, n)
    OBVIOUS
  <2>9. f[b] \in Nat
    BY <2>1, <2>2
  <2> QED  BY <2>6, <2>7, <2>8, <2>9
<1>4. \A b \in Accounts : g[b] \in Int /\ (b \in M => g[b] = p[b]) /\ (b \notin M => g[b] = 0)
  BY <1>1, <1>2
<1>5. SumFunctionOnSet(p, M) <= Hundred
  BY DEF StakeInv, RoutesWithin, Routed
<1> HIDE DEF M, p, g
<1>6. IntOn(f, Accounts) /\ IntOn(g, Accounts) /\ IntOn(g, M) /\ IsFiniteSet(M)
  <2>1. IsFiniteSet(M)
    BY <1>1, Finite, FS_Subset
  <2> QED  BY <1>1, <1>3, <1>4, <2>1 DEF IntOn
<1>7. SumFunctionOnSet(g, Accounts) = SumFunctionOnSet(g, M)
  BY <1>1, <1>4, <1>6, Finite, SumWithout
<1>8. SumFunctionOnSet(g, M) = SumFunctionOnSet(p, M)
  BY <1>1, <1>4, <1>6, SumEqual
<1>9. SumFunctionOnSet(g, Accounts) \in Int /\ SumFunctionOnSet(f, Accounts) \in Nat
  BY <1>3, <1>6, Finite, SumOnSet, SumNat
<1>10. Hundred * SumFunctionOnSet(f, Accounts) <= n * SumFunctionOnSet(g, Accounts)
  <2>1. PICK h \in Int, m \in Int : h = Hundred /\ m = n
    BY <1>1
  <2>2. \A b \in Accounts : h * f[b] <= m * g[b]
    BY <1>3, <2>1
  <2>3. h * SumFunctionOnSet(f, Accounts) <= m * SumFunctionOnSet(g, Accounts)
    BY <1>6, <2>2, Finite, SumScaled
  <2> QED  BY <2>1, <2>3
<1>11. PICK x \in Nat, y \in Int, h \in Nat \ {0} :
          x = SumFunctionOnSet(f, Accounts) /\ y = SumFunctionOnSet(g, Accounts) /\ h = Hundred
  BY <1>1, <1>9
<1>12. h * x <= n * y /\ y <= h
  BY <1>5, <1>7, <1>8, <1>10, <1>11
<1>13. x <= n
  <2> SUFFICES ASSUME x >= n + 1 PROVE FALSE
    OBVIOUS
  <2>1. PICK d \in Nat : x = n + 1 + d
    OBVIOUS
  <2>2. PICK e \in Nat : y = h - e
    BY <1>12
  <2>3. h * x = h * n + h + h * d
    BY ONLY <2>1, h \in Nat, n \in Nat, d \in Nat, x \in Nat
  <2>4. n * y = h * n - n * e
    BY ONLY <2>2, h \in Nat, n \in Nat, e \in Nat, y \in Int
  <2>5. h * d \in Nat /\ n * e \in Nat /\ h * n \in Nat
    OBVIOUS
  <2> QED  BY <1>12, <2>3, <2>4, <2>5
<1> QED  BY <1>1, <1>3, <1>11, <1>13, SumOf

\* What a withdrawal asks for this time.
Part(a) == IF to_withdraw[a] - withdrawn[a] < withdraw_rate[a] THEN to_withdraw[a] % withdraw_rate[a]
           ELSE withdraw_rate[a]

\* It is something, it is no more than is left, and it is either all of that or
\* the rate once more; there are enough shares for it.
LEMMA PartFits ==
    ASSUME StakeInv, NEW a \in Accounts, withdraw_rate[a] # 0
    PROVE  /\ Part(a) \in Nat \ {0} /\ to_withdraw[a] \in Nat /\ withdrawn[a] \in Nat /\ withdraw_rate[a] \in Nat
           /\ withdrawn[a] + Part(a) <= to_withdraw[a]
           /\ withdrawn[a] + Part(a) = to_withdraw[a] \/ (withdrawn[a] + Part(a)) % withdraw_rate[a] = 0
           /\ vesting_shares[a] \in Nat /\ to_withdraw[a] - withdrawn[a] <= vesting_shares[a]
<1>1. /\ to_withdraw[a] \in Nat /\ withdrawn[a] \in Nat /\ withdraw_rate[a] \in Nat \ {0}
      /\ vesting_shares[a] \in Nat /\ delegated[a] \in Nat
      /\ withdrawn[a] < to_withdraw[a] /\ withdrawn[a] % withdraw_rate[a] = 0
      /\ delegated[a] + to_withdraw[a] - withdrawn[a] <= vesting_shares[a]
  BY StakeNumbers DEF StakeInv, WithdrawalsRun, OwnedShape, LentShape, PromisedOnce, Amounts
<1>2. PICK t \in Nat, w \in Nat, r \in Nat \ {0}, v \in Nat, d \in Nat :
         /\ t = to_withdraw[a] /\ w = withdrawn[a] /\ r = withdraw_rate[a]
         /\ v = vesting_shares[a] /\ d = delegated[a]
  BY <1>1
<1>3. w < t /\ w % r = 0 /\ d + t - w <= v
  BY ONLY <1>1, <1>2
<1>4. (t - w < r => t % r = t - w) /\ (w + r) % r = 0
  <2>1. w % r = 0 /\ w <= t
    BY <1>3
  <2>2. Rest(t, w, r)
    BY <2>1, LastPart
  <2> QED  BY <2>2 DEF Rest
<1>5. PICK p \in Int : p = IF t - w < r THEN t - w ELSE r
  BY ONLY t \in Nat, w \in Nat, r \in Nat \ {0}
<1>6. Part(a) = p
  BY <1>2, <1>4, <1>5 DEF Part
<1>7. p \in Nat \ {0} /\ w + p <= t /\ (w + p = t \/ p = r) /\ t - w <= v
  BY ONLY <1>3, <1>5, p \in Int, t \in Nat, w \in Nat, r \in Nat \ {0}, v \in Nat, d \in Nat
<1>8. w + p = t \/ (w + p) % r = 0
  BY <1>4, <1>7
<1> QED  BY <1>2, <1>6, <1>7, <1>8

Round == [owned : [Accounts -> Nat], taken : [Accounts -> Nat], gone : Nat, empty : SUBSET Accounts]

\* In a round that has come so far, no share is lost: what the accounts own
\* and what was turned into BTCM is what there was.
Balanced == {round \in Round : SumFunction(round.owned) + round.gone = total_vesting_shares}

\* One account's withdrawal: nobody else loses shares, and it takes its part if
\* there is enough.
Withdrew(round, k, a) ==
    \A b \in Accounts :
       /\ b # a => /\ k.owned[b] >= round.owned[b] /\ k.taken[b] = round.taken[b]
                   /\ b \in k.empty <=> b \in round.empty
       /\ b = a /\ round.owned[a] >= Part(a) =>
                   /\ k.owned[a] >= round.owned[a] - Part(a) /\ k.taken[a] = Part(a)
                   /\ a \in k.empty => a \in round.empty \/ round.owned[a] <= Part(a)

LEMMA WithdrawStep ==
    ASSUME StakeInv, NEW round \in Balanced, NEW a \in Accounts, withdraw_rate[a] # 0
    PROVE  Withdraw(round, a) \in Balanced /\ Withdrew(round, Withdraw(round, a), a)
<1>1. /\ round.owned \in [Accounts -> Nat] /\ round.taken \in [Accounts -> Nat] /\ round.gone \in Nat
      /\ round.empty \subseteq Accounts /\ SumFunction(round.owned) + round.gone = total_vesting_shares
  BY DEF Balanced, Round
<1>2. PICK o \in Nat, p \in Nat : o = round.owned[a] /\ p = Part(a)
  BY <1>1, PartFits
<1>3. PICK n \in Nat : n = ThisTime(a, round.owned[a]) /\ n <= o /\ (o >= p => n = p)
  <2>1. ThisTime(a, round.owned[a]) = Min({o, p})
    BY <1>2 DEF ThisTime, Part
  <2>2. \E m \in {o, p} : \A i \in {o, p} : m <= i
    OBVIOUS
  <2>3. Min({o, p}) \in {o, p} /\ \A i \in {o, p} : Min({o, p}) <= i
    BY <2>2 DEF Min
  <2> QED  BY <2>1, <2>3
<1> DEFINE f == [b \in Accounts |-> Deposit(a, b, n)]
           e == [b \in Accounts |-> f[b] - (IF b = a THEN n ELSE 0)]
           g == [b \in Accounts |-> round.owned[b] + Deposit(a, b, n) - (IF b = a THEN n ELSE 0)]
<1>4. /\ \A b \in Accounts : f[b] = Deposit(a, b, n) /\ f[b] \in Nat
      /\ SumFunction(f) \in Nat /\ SumFunction(f) <= n /\ DOMAIN f = Accounts
  BY DepositsWithin
<1>5. Withdraw(round, a) = [owned |-> g, taken |-> [round.taken EXCEPT ![a] = n],
                            gone |-> round.gone + n - SumFunction(f),
                            empty |-> round.empty \cup {b \in {a} : g[b] = 0}]
  BY <1>3 DEF Withdraw
<1>6. \A b \in Accounts : /\ round.owned[b] \in Nat /\ g[b] = round.owned[b] + f[b] - (IF b = a THEN n ELSE 0)
                          /\ e[b] = f[b] - (IF b = a THEN n ELSE 0) /\ e[b] \in Int
                          /\ g[b] \in Nat /\ g[b] = round.owned[b] + e[b]
                          /\ b # a => g[b] >= round.owned[b]
                          /\ b = a => g[b] >= o - n
  <2> TAKE b \in Accounts
  <2>1. PICK x \in Nat, y \in Nat : x = round.owned[b] /\ y = f[b]
    BY <1>1, <1>4
  <2>2. b = a => n <= x /\ x = o
    BY <1>2, <1>3, <2>1
  <2>3. g[b] = x + y - (IF b = a THEN n ELSE 0) /\ e[b] = y - (IF b = a THEN n ELSE 0)
    BY <1>4, <2>1
  <2> HIDE DEF g, e, f
  <2> QED  BY <2>1, <2>2, <2>3
<1>7. DOMAIN g = Accounts /\ DOMAIN e = Accounts
  OBVIOUS
<1>8. g \in [Accounts -> Nat]
  BY <1>4, <1>6
<1> HIDE DEF e, f, g
<1>9. SumFunction(e) = SumFunction(f) - n
  <2>1. DiffersAt(f, e, a, -n) /\ -n \in Int
    BY <1>4, <1>6, <1>7 DEF DiffersAt
  <2>2. SumFunction(e) = SumFunction(f) + (-n)
    BY <2>1, SumDiffersAt
  <2> QED  BY <1>4, <2>2
<1>10. SumFunction(g) = SumFunction(round.owned) + SumFunction(e) /\ SumFunction(round.owned) \in Int
  <2>1. PICK x : x = round.owned
    OBVIOUS
  <2>2. DOMAIN x = Accounts /\ \A b \in Accounts : x[b] \in Int /\ e[b] \in Int /\ g[b] = x[b] + e[b]
    BY <1>1, <1>6, <2>1
  <2> QED  BY <1>7, <2>1, <2>2, SumDiffers
<1>11. PICK s \in Int, z \in Nat, q \in Nat :
          s = SumFunction(round.owned) /\ z = round.gone /\ q = SumFunction(f) /\ q <= n
  BY <1>1, <1>4, <1>10
<1>12. z + n - q \in Nat /\ (s + (q - n)) + (z + n - q) = s + z
  BY ONLY <1>11, s \in Int, z \in Nat, q \in Nat, n \in Nat
<1>13. PICK k : k = Withdraw(round, a)
  OBVIOUS
<1>14. /\ k.owned = g /\ k.taken = [round.taken EXCEPT ![a] = n] /\ k.gone = z + n - q
       /\ k.empty = round.empty \cup {b \in {a} : g[b] = 0} /\ k \in Round
  <2>1. /\ [round.taken EXCEPT ![a] = n] \in [Accounts -> Nat]
        /\ round.empty \cup {b \in {a} : g[b] = 0} \in SUBSET Accounts
    BY <1>1
  <2> QED  BY <1>5, <1>8, <1>11, <1>12, <1>13, <2>1 DEF Round
<1>15. k \in Balanced
  <2>1. SumFunction(k.owned) + k.gone = s + z
    BY <1>9, <1>10, <1>11, <1>12, <1>14
  <2>2. s + z = total_vesting_shares
    BY <1>1, <1>11
  <2> QED  BY <1>14, <2>1, <2>2 DEF Balanced
<1>16. ASSUME NEW b \in Accounts
       PROVE  /\ b # a => k.owned[b] >= round.owned[b] /\ k.taken[b] = round.taken[b]
                          /\ (b \in k.empty <=> b \in round.empty)
              /\ b = a /\ o >= p => k.owned[a] >= o - p /\ k.taken[a] = p
                                    /\ (a \in k.empty => a \in round.empty \/ o <= p)
  <2>1. g[a] >= o - n /\ g[a] \in Nat
    BY <1>6
  <2>2. b # a => k.owned[b] >= round.owned[b] /\ k.taken[b] = round.taken[b] /\ (b \in k.empty <=> b \in round.empty)
    BY <1>1, <1>6, <1>14
  <2>3. k.taken[a] = n
    BY <1>1, <1>14
  <2>4. a \in k.empty => a \in round.empty \/ g[a] = 0
    BY <1>14
  <2>5. ASSUME o >= p PROVE k.owned[a] >= o - p /\ k.taken[a] = p /\ (a \in k.empty => a \in round.empty \/ o <= p)
    <3>1. n = p
      BY <1>3, <2>5
    <3>2. g[a] = 0 => o <= p
      BY <2>1, <3>1
    <3>3. k.owned[a] >= o - p
      BY <1>14, <2>1, <3>1
    <3> QED  BY <2>3, <2>4, <3>1, <3>2, <3>3
  <2> QED  BY <2>2, <2>5
<1>17. Withdrew(round, k, a)
  BY <1>2, <1>16 DEF Withdrew
<1> QED  BY <1>13, <1>15, <1>17


Rounds == INSTANCE SequenceFolds WITH Op <- WithdrawIfDue

WholeRound == FoldLeft(WithdrawIfDue, FirstRound, IdOrder)

LEMMA WithdrawalsFold == WholeRound = Rounds!Fold(FirstRound, IdOrder)
BY DEF WholeRound, WithdrawIfDue, Rounds!Fold, FoldLeft, Rounds!MapThenFoldSet, MapThenFoldSet,
       Max, Rounds!Largest

\* Where an account stands in a round that has come to the i-th account: its
\* turn was already, and it was due, or nothing was taken from it.
Served(a, i) == withdraw_rate[a] # 0 /\ \E j \in 1 .. i : IdOrder[j] = a

StandsRight(round, a, i) ==
    /\ Served(a, i) => /\ round.taken[a] = Part(a) /\ round.owned[a] >= vesting_shares[a] - Part(a)
                       /\ a \in round.empty => vesting_shares[a] <= Part(a)
    /\ ~ Served(a, i) => round.taken[a] = 0 /\ round.owned[a] >= vesting_shares[a] /\ a \notin round.empty

LEMMA RoundStep ==
    ASSUME StakeInv, NEW round \in Balanced, NEW i \in Nat, i + 1 <= Len(IdOrder),
           \A a \in Accounts : StandsRight(round, a, i)
    PROVE  \A a \in Accounts : StandsRight(WithdrawIfDue(round, IdOrder[i + 1]), a, i + 1)
<1>0. IdOrder \in Seq(Accounts) /\ IsInjective(IdOrder)
  BY StakeAssumption
<1>1. PICK c \in Accounts : c = IdOrder[i + 1]
  BY <1>0
<1>2. ASSUME NEW a \in Accounts, a # c PROVE Served(a, i + 1) <=> Served(a, i)
  <2>1. \A j \in 1 .. (i + 1) : IdOrder[j] = a => j \in 1 .. i
    BY <1>1, <1>2
  <2> QED  BY <2>1 DEF Served
<1>3. ~ Served(c, i)
  <2> SUFFICES ASSUME NEW j \in 1 .. i, IdOrder[j] = c PROVE FALSE
    BY DEF Served
  <2>1. j \in DOMAIN IdOrder /\ i + 1 \in DOMAIN IdOrder /\ j # i + 1 /\ IdOrder[j] = IdOrder[i + 1]
    BY <1>0, <1>1
  <2> QED  BY <1>0, <2>1 DEF IsInjective
<1>4. /\ round.owned \in [Accounts -> Nat] /\ round.taken \in [Accounts -> Nat]
      /\ vesting_shares \in [Accounts -> Nat]
  BY DEF Balanced, Round, StakeInv, OwnedShape
<1>5. CASE withdraw_rate[c] = 0
  <2>1. WithdrawIfDue(round, c) = round
    BY <1>5 DEF WithdrawIfDue
  <2>2. ~ Served(c, i + 1)
    BY <1>5 DEF Served
  <2>3. \A a \in Accounts : Served(a, i + 1) <=> Served(a, i)
    BY <1>2, <1>3, <2>2
  <2> QED  BY <1>1, <2>1, <2>3 DEF StandsRight
<1>6. CASE withdraw_rate[c] # 0
  <2>1. Served(c, i + 1)
    <3>1. i + 1 \in 1 .. (i + 1)
      OBVIOUS
    <3> QED  BY <1>1, <1>6, <3>1 DEF Served
  <2>2. PICK k : k = Withdraw(round, c) /\ k = WithdrawIfDue(round, IdOrder[i + 1])
    BY <1>1, <1>6 DEF WithdrawIfDue
  <2>3. /\ Part(c) \in Nat /\ vesting_shares[c] \in Nat /\ vesting_shares[c] >= Part(c)
    <3>1. /\ Part(c) \in Nat \ {0} /\ to_withdraw[c] \in Nat /\ withdrawn[c] \in Nat
          /\ withdrawn[c] + Part(c) <= to_withdraw[c]
          /\ vesting_shares[c] \in Nat /\ to_withdraw[c] - withdrawn[c] <= vesting_shares[c]
      BY <1>6, PartFits
    <3>2. PICK p \in Nat, t \in Nat, w \in Nat, v \in Nat :
             p = Part(c) /\ t = to_withdraw[c] /\ w = withdrawn[c] /\ v = vesting_shares[c]
      BY <3>1
    <3>3. w + p <= t /\ t - w <= v
      BY <3>1, <3>2
    <3>4. v >= p
      BY ONLY <3>3, p \in Nat, t \in Nat, w \in Nat, v \in Nat
    <3> QED  BY <3>2, <3>4
  <2>4. round.owned[c] >= vesting_shares[c] /\ c \notin round.empty /\ round.owned[c] \in Nat
    BY <1>3, <1>4 DEF StandsRight
  <2>5. round.owned[c] >= Part(c)
    BY <2>3, <2>4
  <2>6. /\ k.owned[c] >= round.owned[c] - Part(c) /\ k.taken[c] = Part(c)
        /\ c \in k.empty => c \in round.empty \/ round.owned[c] <= Part(c)
    <3>1. Withdrew(round, k, c)
      BY <1>6, <2>2, WithdrawStep
    <3> QED  BY <2>5, <3>1 DEF Withdrew
  <2>7. k \in Balanced
    BY <1>6, <2>2, WithdrawStep
  <2>8. k.owned \in [Accounts -> Nat]
    BY <2>7 DEF Balanced, Round
  <2>9. ASSUME NEW a \in Accounts PROVE StandsRight(k, a, i + 1)
    <3>1. CASE a = c
      <4>1. PICK x \in Nat, y \in Nat, v \in Nat, p \in Nat :
               x = k.owned[c] /\ y = round.owned[c] /\ v = vesting_shares[c] /\ p = Part(c)
        BY <2>3, <2>4, <2>8
      <4>2. x >= y - p /\ y >= v /\ (c \in k.empty => y <= p) /\ k.taken[c] = p
        BY ONLY <2>4, <2>6, <4>1
      <4>3. x >= v - p /\ (c \in k.empty => v <= p)
        BY ONLY <4>2, x \in Nat, y \in Nat, v \in Nat, p \in Nat
      <4> QED  BY <2>1, <3>1, <4>1, <4>2, <4>3 DEF StandsRight
    <3>2. CASE a # c
      <4>1. /\ k.owned[a] >= round.owned[a] /\ k.taken[a] = round.taken[a] /\ (a \in k.empty <=> a \in round.empty)
            /\ k.owned[a] \in Nat /\ round.owned[a] \in Nat /\ vesting_shares[a] \in Nat
        <5>1. k.owned[a] >= round.owned[a] /\ k.taken[a] = round.taken[a] /\ (a \in k.empty <=> a \in round.empty)
          <6>1. Withdrew(round, k, c)
            BY <1>6, <2>2, WithdrawStep
          <6> QED  BY <3>2, <6>1 DEF Withdrew
        <5>2. k.owned[a] \in Nat /\ round.owned[a] \in Nat /\ vesting_shares[a] \in Nat
          BY <1>4, <2>8
        <5> QED  BY ONLY <5>1, <5>2
      <4>2. Served(a, i + 1) <=> Served(a, i)
        BY <1>2, <3>2
      <4>3. StandsRight(round, a, i)
        OBVIOUS
      <4>4. CASE Served(a, i)
        <5>1. Part(a) \in Nat
          BY <4>4, PartFits DEF Served
        <5>2. /\ round.taken[a] = Part(a) /\ round.owned[a] >= vesting_shares[a] - Part(a)
              /\ a \in round.empty => vesting_shares[a] <= Part(a)
          BY <4>3, <4>4 DEF StandsRight
        <5>3. k.owned[a] >= vesting_shares[a] - Part(a)
          BY <4>1, <5>1, <5>2
        <5> QED  BY <4>1, <4>2, <4>4, <5>2, <5>3 DEF StandsRight
      <4>5. CASE ~ Served(a, i)
        <5>1. round.taken[a] = 0 /\ round.owned[a] >= vesting_shares[a] /\ a \notin round.empty
          BY <4>3, <4>5 DEF StandsRight
        <5>2. k.owned[a] >= vesting_shares[a]
          BY <4>1, <5>1
        <5> QED  BY <4>1, <4>2, <4>5, <5>1, <5>2 DEF StandsRight
      <4> QED  BY <4>4, <4>5
    <3> QED  BY <3>1, <3>2
  <2> QED  BY <2>2, <2>9
<1> QED  BY <1>5, <1>6

\* The round as a whole: every withdrawal that is due has its turn.
LEMMA RoundRight ==
    ASSUME StakeInv
    PROVE  /\ WholeRound \in Balanced
           /\ \A a \in Accounts : /\ StandsRight(WholeRound, a, Len(IdOrder))
                                  /\ Served(a, Len(IdOrder)) <=> withdraw_rate[a] # 0
<1>0. IdOrder \in Seq(Accounts) /\ Range(IdOrder) = Accounts
  BY StakeAssumption
<1>1. PICK V : V = Balanced
  OBVIOUS
<1>2. FirstRound \in V
  <2>1. /\ vesting_shares \in [Accounts -> Nat] /\ total_vesting_shares \in Nat
        /\ SumFunction(vesting_shares) = total_vesting_shares
    BY DEF StakeInv, OwnedShape, SharesAddUp, Amounts
  <2>2. FirstRound \in Round
    BY <2>1 DEF FirstRound, Round
  <2>3. FirstRound.owned = vesting_shares /\ FirstRound.gone = 0
    BY DEF FirstRound
  <2>4. total_vesting_shares + 0 = total_vesting_shares
    BY <2>1
  <2> QED  BY <1>1, <2>1, <2>2, <2>3, <2>4 DEF Balanced
<1>3. Rounds!Closed(V, Accounts)
  <2>1. ASSUME NEW x \in Balanced, NEW a \in Accounts PROVE WithdrawIfDue(x, a) \in Balanced
    <3>1. CASE withdraw_rate[a] # 0
      <4>1. Withdraw(x, a) \in Balanced
        BY <3>1, WithdrawStep
      <4> QED  BY <3>1, <4>1 DEF WithdrawIfDue
    <3> QED  BY <3>1 DEF WithdrawIfDue
  <2> QED  BY <1>1, <2>1 DEF Rounds!Closed
<1>4. PICK base : base = FirstRound /\ base \in V
  BY <1>2
<1>5. PICK g \in [0 .. Len(IdOrder) -> V] :
         Rounds!FoldsTo(g, base, IdOrder) /\ Rounds!Fold(base, IdOrder) = g[Len(IdOrder)]
  BY ONLY <1>0, <1>3, <1>4, Rounds!FoldSteps
<1>6. PICK n \in Nat : n = Len(IdOrder)
  BY <1>0
<1> DEFINE N == {i \in Nat : i <= n => \A a \in Accounts : StandsRight(g[i], a, i)}
<1>7. 0 \in N
  <2>1. g[0] = FirstRound
    BY <1>4, <1>5 DEF Rounds!FoldsTo
  <2>2. ASSUME NEW a \in Accounts PROVE StandsRight(FirstRound, a, 0)
    <3>1. ~ Served(a, 0)
      BY DEF Served
    <3>2. vesting_shares[a] \in Nat
      BY DEF StakeInv, OwnedShape
    <3>3. FirstRound.taken[a] = 0 /\ FirstRound.owned[a] >= vesting_shares[a] /\ a \notin FirstRound.empty
      BY <3>2 DEF FirstRound
    <3> QED  BY <3>1, <3>3 DEF StandsRight
  <2> QED  BY <2>1, <2>2
<1>8. ASSUME NEW i \in N PROVE i + 1 \in N
  <2> SUFFICES ASSUME i + 1 <= n PROVE \A a \in Accounts : StandsRight(g[i + 1], a, i + 1)
    OBVIOUS
  <2>1. i \in Nat /\ i \in 0 .. n /\ i + 1 \in 1 .. n /\ (i + 1) - 1 = i
    OBVIOUS
  <2>2. \A a \in Accounts : StandsRight(g[i], a, i)
    BY <2>1
  <2>3. g[i + 1] = WithdrawIfDue(g[i], IdOrder[i + 1])
    BY <1>5, <1>6, <2>1 DEF Rounds!FoldsTo
  <2>4. PICK x \in Balanced : x = g[i]
    BY <1>1, <1>5, <1>6, <2>1
  <2>5. \A a \in Accounts : StandsRight(x, a, i)
    BY <2>2, <2>4
  <2>6. \A a \in Accounts : StandsRight(WithdrawIfDue(x, IdOrder[i + 1]), a, i + 1)
    BY <1>6, <2>1, <2>5, RoundStep
  <2> QED  BY <2>3, <2>4, <2>6
<1>9. N = Nat
  <2>1. N \in SUBSET Nat
    OBVIOUS
  <2> HIDE DEF N
  <2> QED  BY <1>7, <1>8, <2>1, NatSetInduction
<1>10. WholeRound = g[n]
  BY <1>4, <1>5, <1>6, WithdrawalsFold
<1>11. WholeRound \in Balanced
  <2>1. n \in 0 .. n
    OBVIOUS
  <2> QED  BY <1>1, <1>5, <1>6, <1>10, <2>1
<1>12. \A a \in Accounts : StandsRight(WholeRound, a, Len(IdOrder))
  BY <1>6, <1>9, <1>10
<1>13. ASSUME NEW a \in Accounts, withdraw_rate[a] # 0 PROVE Served(a, Len(IdOrder))
  <2>1. PICK j \in DOMAIN IdOrder : IdOrder[j] = a
    BY <1>0 DEF Range
  <2>2. j \in 1 .. Len(IdOrder)
    BY <1>0
  <2> QED  BY <1>13, <2>1, <2>2 DEF Served
<1> QED  BY <1>11, <1>12, <1>13 DEF Served


LEMMA StakeBlockInv ==
    ASSUME StakeInv, UNCHANGED profile, Block
    PROVE  /\ StakeInv'
           /\ \A a \in Accounts : withdraw_rate[a] # 0 =>
                /\ withdrawn[a] < withdrawn'[a]
                /\ withdrawn'[a] <= to_withdraw[a]
                /\ withdraw_rate'[a] = 0 => withdrawn'[a] = to_withdraw[a]
<1>1. /\ clear_expired_delegations /\ process_vesting_withdrawals
      /\ delegation' = [a \in Accounts |-> [b \in Accounts |->
                          [delegation[a][b] EXCEPT !.lasts = Max({@ - 1, 0})]]]
      /\ UNCHANGED <<accounts, received, redelegated, rereceived, routes, redelegations, requests, platforms>>
  BY DEF Block
<1>2. /\ LentShape' /\ DelegationsAddUp' /\ NotYet' /\ total_vested_by_platforms' \in Int
      /\ \A a \in Accounts : delegated[a] \in Nat /\ delegated'[a] \in Nat /\ delegated'[a] <= delegated[a]
  BY <1>1, ReturnedInv
<1>3. PICK k \in Balanced : k = WholeRound
  BY RoundRight
<1>4. \A a \in Accounts : StandsRight(k, a, Len(IdOrder)) /\ (Served(a, Len(IdOrder)) <=> withdraw_rate[a] # 0)
  BY <1>3, RoundRight
<1>5. /\ k.owned \in [Accounts -> Nat] /\ k.taken \in [Accounts -> Nat] /\ k.gone \in Nat
      /\ SumFunction(k.owned) + k.gone = total_vesting_shares
  BY DEF Balanced, Round
<1>6. /\ vesting_shares' = k.owned
      /\ withdrawn' = [a \in Accounts |-> withdrawn[a] + k.taken[a]]
      /\ withdraw_rate' = [a \in Accounts |->
           IF withdrawn'[a] >= to_withdraw[a] \/ a \in k.empty THEN 0 ELSE withdraw_rate[a]]
      /\ total_vesting_shares' = total_vesting_shares - k.gone
      /\ to_withdraw' = to_withdraw
  BY <1>1, <1>3 DEF process_vesting_withdrawals, Settle, WholeRound
<1>7. /\ to_withdraw \in [Accounts -> Amounts] /\ withdraw_rate \in [Accounts -> Amounts]
      /\ withdrawn \in [Accounts -> Nat] /\ vesting_shares \in [Accounts -> Nat]
      /\ total_vesting_shares \in Amounts
  BY DEF StakeInv, WithdrawalsRun, OwnedShape
<1>8. SumFunction(k.owned) \in Nat
  <2>1. PICK f \in [Accounts -> Nat] : f = k.owned
    BY <1>5
  <2> QED  BY <2>1, SharesSum
<1>9. total_vesting_shares' = SumFunction(vesting_shares') /\ total_vesting_shares' \in Amounts
  <2>1. PICK s \in Nat, g \in Nat, m \in Nat, t \in Nat :
           s = SumFunction(k.owned) /\ g = k.gone /\ m = MaxShares /\ t = total_vesting_shares
    BY <1>5, <1>7, <1>8, StakeNumbers DEF Amounts
  <2>2. s + g = t /\ t <= m
    BY <1>5, <1>7, <2>1 DEF Amounts
  <2>3. t - g = s /\ s \in 0 .. m
    BY ONLY <2>2, s \in Nat, g \in Nat, m \in Nat, t \in Nat
  <2>4. total_vesting_shares' = s
    BY <1>6, <2>1, <2>3
  <2> QED  BY <1>6, <2>1, <2>3, <2>4 DEF Amounts
<1>10. ASSUME NEW a \in Accounts
       PROVE  /\ withdrawn'[a] \in Nat /\ to_withdraw'[a] = to_withdraw[a] /\ to_withdraw[a] \in Nat
              /\ withdrawn'[a] <= to_withdraw[a]
              /\ withdraw_rate'[a] # 0 => /\ withdraw_rate'[a] = withdraw_rate[a]
                                          /\ withdrawn'[a] < to_withdraw[a]
                                          /\ withdrawn'[a] % withdraw_rate'[a] = 0
              /\ withdraw_rate'[a] \in Amounts
              /\ delegated'[a] + to_withdraw'[a] - withdrawn'[a] <= vesting_shares'[a]
              /\ withdraw_rate[a] # 0 => /\ withdrawn[a] < withdrawn'[a]
                                         /\ withdraw_rate'[a] = 0 => withdrawn'[a] = to_withdraw[a]
  <2>1. PICK t \in Nat, w \in Nat, v \in Nat, d \in Nat, e \in Nat, o \in Nat, x \in Nat, r \in Amounts :
           /\ t = to_withdraw[a] /\ w = withdrawn[a] /\ v = vesting_shares[a] /\ d = delegated[a]
           /\ e = delegated'[a] /\ o = k.owned[a] /\ x = k.taken[a] /\ r = withdraw_rate[a]
    BY <1>2, <1>5, <1>7 DEF Amounts
  <2>2. r \in Nat /\ 0 \in Amounts
    BY StakeNumbers DEF Amounts
  <2>3. /\ withdrawn'[a] = w + x /\ to_withdraw'[a] = t /\ vesting_shares'[a] = o
        /\ withdraw_rate'[a] = IF w + x >= t \/ a \in k.empty THEN 0 ELSE r
    BY <1>6, <2>1
  <2>4. e <= d /\ d + t - w <= v /\ w <= t
    BY <1>2, <2>1 DEF StakeInv, PromisedOnce, WithdrawalsRun
  <2>5. CASE r # 0
    <3>1. PICK p \in Nat \ {0} : /\ p = Part(a) /\ w + p <= t /\ (w + p = t \/ (w + p) % r = 0)
      <4>1. /\ Part(a) \in Nat \ {0} /\ withdrawn[a] + Part(a) <= to_withdraw[a]
            /\ withdrawn[a] + Part(a) = to_withdraw[a] \/ (withdrawn[a] + Part(a)) % withdraw_rate[a] = 0
        BY <2>1, <2>5, PartFits
      <4>2. PICK p \in Nat \ {0} : p = Part(a)
        BY <4>1
      <4>3. w + p <= t /\ (w + p = t \/ (w + p) % r = 0)
        BY ONLY <2>1, <4>1, <4>2
      <4> QED  BY <4>2, <4>3
    <3>2. StandsRight(k, a, Len(IdOrder)) /\ Served(a, Len(IdOrder))
      <4>1. withdraw_rate[a] # 0
        BY <2>1, <2>5
      <4> QED  BY ONLY <1>4, <4>1, a \in Accounts
    <3>3. x = p /\ o >= v - p /\ (a \in k.empty => v <= p)
      BY <2>1, <3>1, <3>2 DEF StandsRight
    <3>4. /\ w + x \in Nat /\ w + x <= t /\ w < w + x /\ e + t - (w + x) <= o
          /\ (w + x >= t \/ a \in k.empty) => w + x = t
          /\ ~ (w + x >= t \/ a \in k.empty) => w + x < t
      <4>1. w + p <= t /\ x = p /\ o >= v - p
        BY <3>1, <3>3
      <4>2. w + x \in Nat /\ w + x <= t /\ w < w + x /\ e + t - (w + x) <= o
        BY ONLY <2>4, <4>1, t \in Nat, w \in Nat, v \in Nat, d \in Nat, e \in Nat, o \in Nat, x \in Nat,
           p \in Nat \ {0}
      <4>3. (v <= p => w + x = t) /\ (w + x >= t => w + x = t) /\ (~ (w + x >= t) => w + x < t)
        BY ONLY <2>4, <4>1, t \in Nat, w \in Nat, v \in Nat, d \in Nat, x \in Nat, p \in Nat \ {0}
      <4> QED  BY <3>3, <4>2, <4>3
    <3>5. ~ (w + x >= t \/ a \in k.empty) => (w + x) % r = 0
      <4>1. w + x < t => (w + p) % r = 0
        BY <3>1, <3>3
      <4> QED  BY <3>3, <3>4, <4>1
    <3>6. CASE w + x >= t \/ a \in k.empty
      BY <2>1, <2>2, <2>3, <3>4, <3>6
    <3>7. CASE ~ (w + x >= t \/ a \in k.empty)
      BY <2>1, <2>2, <2>3, <2>5, <3>4, <3>5, <3>7
    <3> QED  BY <3>6, <3>7
  <2>6. CASE r = 0
    <3>1. x = 0 /\ o >= v
      BY <1>4, <2>1, <2>6 DEF StandsRight
    <3>2. w + x \in Nat /\ w + x <= t /\ e + t - (w + x) <= o
      BY ONLY <2>4, <3>1, t \in Nat, w \in Nat, v \in Nat, d \in Nat, e \in Nat, o \in Nat, x \in Nat
    <3>3. withdraw_rate'[a] = 0
      BY <2>3, <2>6
    <3> QED  BY <2>1, <2>2, <2>3, <2>6, <3>2, <3>3
  <2> QED  BY <2>5, <2>6
<1>11. WithdrawalsRun'
  <2>1. /\ withdrawn' = [a \in Accounts |-> withdrawn'[a]]
        /\ withdraw_rate' = [a \in Accounts |-> withdraw_rate'[a]]
    BY <1>6
  <2>2. withdrawn' \in [Accounts -> Nat] /\ withdraw_rate' \in [Accounts -> Amounts]
    BY <1>10, <2>1
  <2> QED  BY <1>6, <1>7, <1>10, <2>2 DEF WithdrawalsRun
<1>12. PromisedOnce'
  BY <1>10 DEF PromisedOnce
<1>13. OwnedShape' /\ SharesAddUp'
  BY <1>1, <1>2, <1>5, <1>6, <1>9 DEF StakeInv, OwnedShape, SharesAddUp
<1>14. StakeInv'
  BY <1>1, <1>2, <1>11, <1>12, <1>13, Kept DEF StakeInv
<1> QED  BY <1>10, <1>14

-----------------------------------------------------------------------------
(* Stake: the theorems. *)

LEMMA StakeStepInv == StakeInv /\ [Next]_vars => StakeInv'
<1> SUFFICES ASSUME StakeInv, [Next]_vars PROVE StakeInv'
  OBVIOUS
<1>0. /\ profile.bought \subseteq Nat /\ profile.asked \subseteq Nat /\ profile.lent \subseteq Nat
      /\ profile.withdrawers \subseteq Accounts /\ profile.delegators \subseteq Accounts
      /\ profile.candidates \subseteq Accounts
      /\ \A r \in profile.routes : r[1] \in Accounts /\ r[2] \in 0 .. Hundred /\ r[3] \in BOOLEAN
  BY Inputs DEF StakeInv, OwnedShape
<1>1. CASE UNCHANGED vars
  <2>1. UNCHANGED <<profile, accounts, vesting_shares, delegated, received, redelegated, rereceived, withdrawal,
                    routes, delegation, expiring, redelegations, requests, platforms, total_vesting_shares,
                    total_vested_by_platforms>>
    BY <1>1 DEF vars, holdings
  <2>2. OwnedShape'
    BY <2>1 DEF StakeInv, OwnedShape
  <2> QED  BY <2>1, <2>2, Kept DEF StakeInv
<1>2. CASE Next
  <2> USE <1>0
  <2>0. UNCHANGED profile /\ Step
    BY <1>2 DEF Next
  <2>1. ASSUME NEW a \in Accounts, NEW n \in profile.bought, transfer_to_vesting(a, n) PROVE StakeInv'
    <3>1. n \in Nat
      OBVIOUS
    <3> QED  BY <2>0, <2>1, <3>1, TransferToVestingInv
  <2>2. ASSUME NEW a \in Accounts, NEW b \in Accounts, NEW n \in profile.bought, account_create(a, b, n)
        PROVE  StakeInv'
    <3>1. n \in Nat
      OBVIOUS
    <3> QED  BY <2>0, <2>2, <3>1, AccountCreateInv
  <2>3. ASSUME NEW a \in profile.delegators, NEW b \in Accounts, NEW n \in profile.bought \cup {0},
               NEW m \in profile.lent, account_create_with_delegation(a, b, n, m)
        PROVE  StakeInv'
    <3>1. n \in Nat /\ m \in Nat /\ a \in Accounts
      OBVIOUS
    <3> QED  BY <2>0, <2>3, <3>1, CreateWithDelegationInv
  <2>4. ASSUME NEW a \in profile.withdrawers, NEW n \in profile.asked, withdraw_vesting(a, n) PROVE StakeInv'
    <3>1. n \in Nat /\ a \in Accounts
      OBVIOUS
    <3> QED  BY <2>0, <2>4, <3>1, WithdrawVestingInv
  <2>5. ASSUME NEW a \in profile.withdrawers, NEW r \in profile.routes,
               set_withdraw_vesting_route(a, r[1], r[2], r[3])
        PROVE  StakeInv'
    <3>1. PICK b \in Accounts, p \in 0 .. Hundred, v \in BOOLEAN : b = r[1] /\ p = r[2] /\ v = r[3]
      OBVIOUS
    <3>2. a \in Accounts /\ set_withdraw_vesting_route(a, b, p, v)
      BY <2>5, <3>1
    <3> QED  BY <2>0, <3>2, SetRouteInv
  <2>6. ASSUME NEW a \in profile.delegators, NEW b \in Accounts, NEW n \in profile.lent,
               delegate_vesting_shares(a, b, n)
        PROVE  StakeInv'
    <3>1. n \in Nat /\ a \in Accounts
      OBVIOUS
    <3> QED  BY <2>0, <2>6, <3>1, DelegateInv
  <2>7. ASSUME NEW a \in profile.candidates, streaming_platform_update(a) PROVE StakeInv'
    <3>1. a \in Accounts
      OBVIOUS
    <3> QED  BY <2>0, <2>7, <3>1, PlatformUpdateInv
  <2>8. ASSUME NEW q \in Accounts, NEW r \in Accounts, NEW p \in 0 .. Hundred, request_stream_reporting(q, r, p)
        PROVE  StakeInv'
    BY <2>0, <2>8, ReportingInv
  <2>9. ASSUME NEW q \in Accounts, NEW r \in Accounts, cancel_stream_reporting(q, r) PROVE StakeInv'
    BY <2>0, <2>9, ReportingInv
  <2>10. ASSUME Block PROVE StakeInv'
    BY <2>0, <2>10, StakeBlockInv
  <2> QED  BY <2>0, <2>1, <2>2, <2>3, <2>4, <2>5, <2>6, <2>7, <2>8, <2>9, <2>10 DEF Step
<1> QED  BY <1>1, <1>2


\* No number of shares is larger than all there are.
LEMMA StakeInvSound == StakeInv => StakeAddsUp
<1> SUFFICES ASSUME StakeInv PROVE StakeTypeOK
  BY DEF StakeInv, StakeAddsUp
<1>1. PICK m \in Nat : m = MaxShares /\ Amounts = 0 .. m
  BY StakeNumbers DEF Amounts
<1>2. /\ vesting_shares \in [Accounts -> Nat] /\ delegated \in [Accounts -> Nat] /\ received \in [Accounts -> Nat]
      /\ to_withdraw \in [Accounts -> Amounts] /\ withdraw_rate \in [Accounts -> Amounts]
      /\ withdrawn \in [Accounts -> Nat]
      /\ delegation \in [Accounts -> [Accounts -> Grants]] /\ expiring \in [Accounts -> [0 .. CreateTime -> Nat]]
  BY DEF StakeInv, OwnedShape, LentShape, WithdrawalsRun
<1>3. \A a \in Accounts : /\ vesting_shares[a] \in Nat /\ vesting_shares[a] <= m
                          /\ delegated[a] \in Nat /\ delegated[a] <= vesting_shares[a]
                          /\ withdrawn[a] \in Nat /\ withdrawn[a] <= m
  <2> TAKE a \in Accounts
  <2>1. /\ available_shares(a) \in Nat /\ delegated[a] + available_shares(a) <= vesting_shares[a]
        /\ vesting_shares[a] \in Amounts /\ delegated[a] \in Nat
    BY Available
  <2>2. PICK v \in Nat, d \in Nat, f \in Nat, t \in Nat, w \in Nat :
           /\ v = vesting_shares[a] /\ d = delegated[a] /\ f = available_shares(a) /\ t = to_withdraw[a]
           /\ w = withdrawn[a]
    BY <1>1, <1>2, <2>1
  <2>3. d + f <= v /\ v <= m /\ t <= m /\ w <= t
    BY <1>1, <1>2, <2>1, <2>2 DEF StakeInv, WithdrawalsRun
  <2>4. d <= v /\ w <= m
    BY ONLY <2>3, v \in Nat, d \in Nat, f \in Nat, t \in Nat, w \in Nat, m \in Nat
  <2> QED  BY <2>2, <2>3, <2>4
<1>4. \A a, b \in Accounts : delegation[a][b].shares \in Nat /\ delegation[a][b].shares <= delegated[a]
  <2> TAKE a, b \in Accounts
  <2> DEFINE f == [y \in Accounts |-> delegation[a][y].shares]
  <2>1. f \in [Accounts -> Nat] /\ f[b] = delegation[a][b].shares
    BY <1>2 DEF Grants
  <2>2. delegated[a] = SumFunction(f) + SumFunction(expiring[a])
    BY DEF StakeInv, DelegationsAddUp
  <2> HIDE DEF f
  <2>3. SumFunction(f) \in Nat /\ f[b] <= SumFunction(f) /\ f[b] \in Nat
    BY <2>1, SharesSum
  <2>4. SumFunction(expiring[a]) \in Nat
    BY <1>2, ExpiringSum
  <2>5. PICK x \in Nat, y \in Nat, z \in Nat : x = f[b] /\ y = SumFunction(f) /\ z = SumFunction(expiring[a])
    BY <2>3, <2>4
  <2>6. x <= y + z
    BY <2>3, <2>5
  <2> QED  BY <2>1, <2>2, <2>5, <2>6
<1>5. \A a \in Accounts : \A t \in 0 .. CreateTime : expiring[a][t] \in Nat /\ expiring[a][t] <= delegated[a]
  <2> TAKE a \in Accounts
  <2> TAKE t \in 0 .. CreateTime
  <2> DEFINE f == [y \in Accounts |-> delegation[a][y].shares]
  <2>1. f \in [Accounts -> Nat]
    BY <1>2 DEF Grants
  <2>2. delegated[a] = SumFunction(f) + SumFunction(expiring[a])
    BY DEF StakeInv, DelegationsAddUp
  <2> HIDE DEF f
  <2>3. SumFunction(f) \in Nat
    BY <2>1, SharesSum
  <2>4. SumFunction(expiring[a]) \in Nat /\ expiring[a][t] <= SumFunction(expiring[a]) /\ expiring[a][t] \in Nat
    BY <1>2, ExpiringSum, ZenonT(60)
  <2>5. PICK x \in Nat, y \in Nat, z \in Nat :
           x = expiring[a][t] /\ y = SumFunction(f) /\ z = SumFunction(expiring[a])
    BY <2>3, <2>4
  <2>6. x <= y + z
    BY <2>4, <2>5
  <2> QED  BY <2>2, <2>5, <2>6
<1>6. \A a \in Accounts : received[a] <= m
  <2> TAKE a \in Accounts
  <2> DEFINE f == [y \in Accounts |-> delegation[y][a].shares]
  <2>1. received[a] = SumFunction(f) /\ DOMAIN f = Accounts /\ DOMAIN vesting_shares = Accounts
    BY <1>2 DEF StakeInv, DelegationsAddUp
  <2>2. IntOn(f, Accounts) /\ IntOn(vesting_shares, Accounts)
    BY <1>3, <1>4 DEF IntOn
  <2>3. \A y \in Accounts : 1 * f[y] <= 1 * vesting_shares[y]
    <3> TAKE y \in Accounts
    <3>1. PICK s \in Nat, d \in Nat, v \in Nat :
             s = delegation[y][a].shares /\ d = delegated[y] /\ v = vesting_shares[y]
      BY <1>3, <1>4
    <3>2. s <= d /\ d <= v
      BY <1>3, <1>4, <3>1
    <3>3. 1 * s <= 1 * v
      BY ONLY <3>2, s \in Nat, d \in Nat, v \in Nat
    <3> QED  BY <3>1, <3>3
  <2> HIDE DEF f
  <2>4. PICK i \in Int : i = 1
    OBVIOUS
  <2>5. i * SumFunctionOnSet(f, Accounts) <= i * SumFunctionOnSet(vesting_shares, Accounts)
    BY <2>2, <2>3, <2>4, Finite, SumScaled
  <2>6. /\ SumFunction(f) = SumFunctionOnSet(f, Accounts) /\ SumFunctionOnSet(f, Accounts) \in Int
        /\ SumFunction(vesting_shares) = SumFunctionOnSet(vesting_shares, Accounts)
        /\ SumFunctionOnSet(vesting_shares, Accounts) \in Int
    BY <2>1, <2>2, Finite, SumOf, SumOnSet
  <2>7. SumFunction(vesting_shares) <= m
    BY <1>1 DEF StakeInv, OwnedShape, SharesAddUp
  <2>8. PICK x \in Int, y \in Int :
           x = SumFunctionOnSet(f, Accounts) /\ y = SumFunctionOnSet(vesting_shares, Accounts)
    BY <2>6
  <2>9. x <= y
    BY <2>4, <2>5, <2>8
  <2>10. y <= m
    BY <2>6, <2>7, <2>8
  <2> QED  BY <2>1, <2>6, <2>8, <2>9, <2>10
<1>7. /\ vesting_shares \in [Accounts -> Amounts] /\ delegated \in [Accounts -> Amounts]
      /\ received \in [Accounts -> Amounts] /\ withdrawn \in [Accounts -> Amounts]
  <2>1. \A a \in Accounts : /\ vesting_shares[a] \in Amounts /\ delegated[a] \in Amounts
                            /\ received[a] \in Amounts /\ withdrawn[a] \in Amounts
    BY <1>1, <1>2, <1>3, <1>6
  <2> QED  BY <1>2, <2>1
<1>8. delegation \in [Accounts -> [Accounts -> [shares : Amounts, lasts : 0 .. CreateTime]]]
  <2>1. ASSUME NEW a \in Accounts, NEW b \in Accounts
        PROVE  delegation[a][b] \in [shares : Amounts, lasts : 0 .. CreateTime]
    <3>1. delegation[a][b] \in Grants
      BY <1>2
    <3>2. PICK s \in Nat, d \in Nat, v \in Nat :
             s = delegation[a][b].shares /\ d = delegated[a] /\ v = vesting_shares[a]
      BY <1>3, <1>4
    <3>3. s <= d /\ d <= v /\ v <= m
      BY <1>3, <1>4, <3>2
    <3>4. delegation[a][b].shares \in Amounts
      BY <1>1, <3>2, <3>3
    <3> QED  BY <3>1, <3>4 DEF Grants
  <2> QED  BY <1>2, <2>1
<1>9. expiring \in [Accounts -> [0 .. CreateTime -> Amounts]]
  <2>1. ASSUME NEW a \in Accounts, NEW t \in 0 .. CreateTime PROVE expiring[a][t] \in Amounts
    <3>1. PICK s \in Nat, d \in Nat, v \in Nat :
             s = expiring[a][t] /\ d = delegated[a] /\ v = vesting_shares[a]
      BY <1>3, <1>5
    <3>2. s <= d /\ d <= v /\ v <= m
      BY <1>3, <1>5, <3>1
    <3> QED  BY <1>1, <3>1, <3>2
  <2> QED  BY <1>2, <2>1
<1> QED  BY <1>2, <1>7, <1>8, <1>9 DEF StakeTypeOK, StakeInv, OwnedShape, RelentShape, Parts, Ways

\* After any sequence of operations and blocks, for any accounts and any
\* amounts: delegated and received shares are what the delegation objects say,
\* redelegated ones what the requests say, the total is the sum, and nobody has
\* promised more than is owned (the differences the evaluators and
\* process_vesting_withdrawals apply).
THEOREM StakeCorrect == Spec => []StakeAddsUp
<1>1. Init => StakeInv
  BY StakeInitInv
<1>2. StakeInv /\ [Next]_vars => StakeInv'
  BY StakeStepInv
<1>3. StakeInv => StakeAddsUp
  BY StakeInvSound
<1> QED  BY <1>1, <1>2, <1>3, PTL DEF Spec

\* Every withdrawal that is due moves, takes no more than is left of it, and
\* ends only when it has taken all that was asked for, whatever the routes of
\* the accounts before it in the round carry (process_vesting_withdrawals).
THEOREM WithdrawalsExact == Spec => WithdrawalsMove
<1> DEFINE Moved == Block => \A a \in Accounts : withdraw_rate[a] # 0 =>
                      /\ withdrawn[a] < withdrawn'[a]
                      /\ withdrawn'[a] <= to_withdraw[a]
                      /\ withdraw_rate'[a] = 0 => withdrawn'[a] = to_withdraw[a]
<1>1. Init => StakeInv
  BY StakeInitInv
<1>2. StakeInv /\ [Next]_vars => StakeInv'
  BY StakeStepInv
<1>3. StakeInv /\ [Next]_vars => [Moved]_vars
  <2> SUFFICES ASSUME StakeInv, Next, Block PROVE Moved
    OBVIOUS
  <2>1. UNCHANGED profile
    BY DEF Next
  <2> QED  BY <2>1, StakeBlockInv
<1>4. [][Moved]_vars => WithdrawalsMove
  BY DEF WithdrawalsMove
<1> HIDE DEF Moved
<1> QED  BY <1>1, <1>2, <1>3, <1>4, PTL DEF Spec


-----------------------------------------------------------------------------
(* Stake: what the platforms hold. *)

Hold(a) == vesting_shares[a] - delegated[a] + received[a]

LEMMA HeldByPlatforms ==
    ASSUME StakeInv
    PROVE  /\ \A a \in Accounts : Hold(a) \in Int
           /\ VestedByPlatforms \in Int /\ IsFiniteSet(platforms) /\ platforms \subseteq Accounts
           /\ VestedByPlatforms = SumFunctionOnSet([a \in Accounts |-> Hold(a)], platforms)
<1>1. /\ vesting_shares \in [Accounts -> Nat] /\ delegated \in [Accounts -> Nat] /\ received \in [Accounts -> Nat]
      /\ platforms \subseteq Accounts
  BY DEF StakeInv, OwnedShape, LentShape
<1>2. IsFiniteSet(platforms)
  BY <1>1, Finite, FS_Subset
<1>3. \A a \in Accounts : Hold(a) \in Int
  BY <1>1 DEF Hold
<1> DEFINE h == [a \in Accounts |-> Hold(a)]
<1>4. VestedByPlatforms = SumFunctionOnSet(h, platforms)
  BY DEF VestedByPlatforms, Hold
<1>5. \A a \in platforms : h[a] \in Int
  BY <1>1, <1>3
<1> HIDE DEF h
<1>6. SumFunctionOnSet(h, platforms) \in Int
  BY <1>2, <1>5, SumOnSet DEF IntOn
<1> QED  BY <1>1, <1>2, <1>3, <1>4, <1>6 DEF h

\* One account's difference counts if it is a platform.
Only(a, d) == [x \in Accounts |-> IF x = a THEN d ELSE 0]

LEMMA OnlyPlatforms ==
    ASSUME NEW P \in SUBSET Accounts, IsFiniteSet(P), NEW a \in Accounts, NEW d \in Int
    PROVE  SumFunctionOnSet(Only(a, d), P) = IF a \in P THEN d ELSE 0
<1>1. \A x \in Accounts : Only(a, d)[x] = IF x = a THEN d ELSE 0
  BY DEF Only
<1>2. PICK f : f = Only(a, d)
  OBVIOUS
<1>3. \A x \in Accounts : f[x] = IF x = a THEN d ELSE 0
  BY <1>1, <1>2
<1>4. IntOn(f, P) /\ IntOn(f, {}) /\ IsFiniteSet({})
  BY <1>3, FS_EmptySet DEF IntOn
<1>5. SumFunctionOnSet(f, {}) = 0
  BY <1>4, SumOnSet
<1>6. CASE a \in P
  <2>1. IsFiniteSet({}) /\ a \notin {} /\ IntOn(f, {} \cup {a}) /\ {} \cup {a} = {a} /\ {a} \subseteq P
    BY <1>3, <1>4, <1>6 DEF IntOn
  <2>2. SumFunctionOnSet(f, {} \cup {a}) = f[a] + SumFunctionOnSet(f, {})
    BY <2>1, SumInsert
  <2>3. SumFunctionOnSet(f, {a}) = d
    BY <1>3, <1>5, <2>1, <2>2
  <2>4. \A x \in P \ {a} : f[x] = 0
    BY <1>3
  <2>5. SumFunctionOnSet(f, P) = SumFunctionOnSet(f, {a})
    <3>1. PICK R : R = {a} /\ R \subseteq P /\ \A x \in P \ R : f[x] = 0
      BY <2>1, <2>4
    <3>2. SumFunctionOnSet(f, P) = SumFunctionOnSet(f, R)
      BY <1>4, <3>1, SumWithout
    <3> QED  BY <3>1, <3>2
  <2> QED  BY <1>2, <1>6, <2>3, <2>5
<1>7. CASE a \notin P
  <2>1. \A x \in P \ {} : f[x] = 0
    BY <1>3, <1>7
  <2>2. SumFunctionOnSet(f, P) = SumFunctionOnSet(f, {})
    BY <1>4, <2>1, SumWithout
  <2> QED  BY <1>2, <1>5, <1>7, <2>2
<1> QED  BY <1>6, <1>7

\* Two accounts hold more or less than before.
HoldsMore(a, da, b, db) ==
    \A x \in Accounts : Hold(x)' = Hold(x) + ((IF x = a THEN da ELSE 0) + (IF x = b THEN db ELSE 0))

LEMMA PlatformsDiffer ==
    ASSUME StakeInv, StakeInv', UNCHANGED platforms, NEW a \in Accounts, NEW b \in Accounts,
           NEW da \in Int, NEW db \in Int, HoldsMore(a, da, b, db)
    PROVE  VestedByPlatforms' = VestedByPlatforms + ((IF a \in platforms THEN da ELSE 0)
                                                    + (IF b \in platforms THEN db ELSE 0))
<1>1. PICK P, h, k : P = platforms /\ h = [x \in Accounts |-> Hold(x)] /\ k = [x \in Accounts |-> Hold(x)']
  OBVIOUS
<1>2. /\ \A x \in Accounts : h[x] \in Int
      /\ IsFiniteSet(P) /\ P \in SUBSET Accounts /\ VestedByPlatforms = SumFunctionOnSet(h, P)
  BY <1>1, HeldByPlatforms
<1>3. VestedByPlatforms' = SumFunctionOnSet(k, P)
  <2>1. VestedByPlatforms' = SumFunctionOnSet([x \in Accounts |-> vesting_shares'[x] - delegated'[x] + received'[x]], P)
    BY <1>1 DEF VestedByPlatforms
  <2>2. k = [x \in Accounts |-> vesting_shares'[x] - delegated'[x] + received'[x]]
    BY <1>1 DEF Hold
  <2> QED  BY <2>1, <2>2
<1> DEFINE f == Only(a, da)
           g == Only(b, db)
           e == [x \in Accounts |-> f[x] + g[x]]
<1>4. \A x \in Accounts : /\ f[x] \in Int /\ g[x] \in Int /\ e[x] = f[x] + g[x] /\ e[x] \in Int
                          /\ k[x] = h[x] + e[x]
  BY <1>1 DEF HoldsMore, Only
<1>5. /\ SumFunctionOnSet(f, P) = IF a \in P THEN da ELSE 0
      /\ SumFunctionOnSet(g, P) = IF b \in P THEN db ELSE 0
  BY <1>2, OnlyPlatforms
<1> HIDE DEF f, g, e
<1>6. IntOn(f, P) /\ IntOn(g, P) /\ IntOn(e, P) /\ IntOn(h, P)
  BY <1>2, <1>4 DEF IntOn
<1>7. SumFunctionOnSet(e, P) = SumFunctionOnSet(f, P) + SumFunctionOnSet(g, P)
  BY <1>2, <1>4, <1>6, SumPlus
<1>8. SumFunctionOnSet(k, P) = SumFunctionOnSet(h, P) + SumFunctionOnSet(e, P)
  BY <1>2, <1>4, <1>6, SumPlus
<1> QED  BY <1>1, <1>2, <1>3, <1>5, <1>7, <1>8

\* The platforms' total follows what they hold.
Follows == total_vested_by_platforms' - VestedByPlatforms' = total_vested_by_platforms - VestedByPlatforms

LEMMA FollowsDifference ==
    ASSUME StakeInv, StakeInv', UNCHANGED platforms, NEW a \in Accounts, NEW b \in Accounts,
           NEW da \in Int, NEW db \in Int, HoldsMore(a, da, b, db),
           total_vested_by_platforms' = total_vested_by_platforms + ((IF a \in platforms THEN da ELSE 0)
                                                                    + (IF b \in platforms THEN db ELSE 0))
    PROVE  Follows
<1>1. VestedByPlatforms' = VestedByPlatforms + ((IF a \in platforms THEN da ELSE 0)
                                               + (IF b \in platforms THEN db ELSE 0))
  BY PlatformsDiffer
<1>2. PICK t \in Int, v \in Int, d \in Int :
         /\ t = total_vested_by_platforms /\ v = VestedByPlatforms
         /\ d = (IF a \in platforms THEN da ELSE 0) + (IF b \in platforms THEN db ELSE 0)
  BY HeldByPlatforms DEF StakeInv, OwnedShape
<1>3. (t + d) - (v + d) = t - v
  BY ONLY t \in Int, v \in Int, d \in Int
<1> QED  BY <1>1, <1>2, <1>3 DEF Follows

LEMMA FollowsNothing ==
    ASSUME UNCHANGED <<vesting_shares, delegated, received, platforms, total_vested_by_platforms>>
    PROVE  Follows
BY DEF Follows, VestedByPlatforms

LEMMA FollowsCreated ==
    ASSUME StakeInv, StakeInv', NEW a \in Accounts, NEW n \in Nat, create_vesting(a, n),
           UNCHANGED <<delegated, received, platforms>>
    PROVE  Follows
<1>1. /\ vesting_shares' = [vesting_shares EXCEPT ![a] = vesting_shares[a] + n]
      /\ total_vested_by_platforms' = total_vested_by_platforms + IsPlatform(a) * n
  BY DEF create_vesting
<1>2. /\ vesting_shares \in [Accounts -> Nat] /\ delegated \in [Accounts -> Nat] /\ received \in [Accounts -> Nat]
      /\ total_vested_by_platforms \in Int
  BY DEF StakeInv, OwnedShape, LentShape
<1>3. HoldsMore(a, n, a, 0)
  <2> SUFFICES ASSUME NEW x \in Accounts
               PROVE  Hold(x)' = Hold(x) + ((IF x = a THEN n ELSE 0) + (IF x = a THEN 0 ELSE 0))
    BY DEF HoldsMore
  <2>1. PICK v \in Nat, d \in Nat, r \in Nat : v = vesting_shares[x] /\ d = delegated[x] /\ r = received[x]
    BY <1>2
  <2>2. (v + n) - d + r = (v - d + r) + (n + 0) /\ v - d + r = (v - d + r) + (0 + 0)
    BY ONLY v \in Nat, d \in Nat, r \in Nat, n \in Nat
  <2>3. vesting_shares'[x] = IF x = a THEN v + n ELSE v
    BY <1>1, <1>2, <2>1
  <2> QED  BY <2>1, <2>2, <2>3 DEF Hold
<1>4. total_vested_by_platforms' = total_vested_by_platforms + ((IF a \in platforms THEN n ELSE 0)
                                                               + (IF a \in platforms THEN 0 ELSE 0))
  BY <1>1, <1>2 DEF IsPlatform
<1>5. n \in Int /\ 0 \in Int
  OBVIOUS
<1> QED  BY <1>3, <1>4, <1>5, FollowsDifference


\* A platform that creates an account with a delegation is the exception.
LEMMA FollowsCreatedWithDelegation ==
    ASSUME StakeInv, StakeInv', NEW a \in Accounts, NEW b \in Accounts, NEW n \in Nat, NEW m \in Nat,
           account_create_with_delegation(a, b, n, m)
    PROVE  Follows \/ (accounts' # accounts /\ \E x \in platforms : delegated'[x] > delegated[x])
<1>1. /\ create_vesting(b, n) /\ accounts' = accounts \cup {b} /\ a \in accounts /\ b \notin accounts
      /\ delegated' = [delegated EXCEPT ![a] = @ + m]
      /\ received' = [received EXCEPT ![b] = m]
      /\ UNCHANGED platforms
  BY DEF account_create_with_delegation
<1>2. /\ vesting_shares' = [vesting_shares EXCEPT ![b] = vesting_shares[b] + n]
      /\ total_vested_by_platforms' = total_vested_by_platforms + IsPlatform(b) * n
  BY <1>1 DEF create_vesting
<1>3. /\ vesting_shares \in [Accounts -> Nat] /\ delegated \in [Accounts -> Nat] /\ received \in [Accounts -> Nat]
      /\ total_vested_by_platforms \in Int /\ platforms \subseteq accounts
  BY DEF StakeInv, OwnedShape, LentShape
<1>4. b \notin platforms /\ a # b /\ accounts' # accounts
  BY <1>1, <1>3
<1>5. received[b] = 0
  BY <1>1, NothingGot
<1>6. CASE a \in platforms /\ m # 0
  <2>1. delegated'[a] = delegated[a] + m /\ delegated[a] \in Nat
    BY <1>1, <1>3
  <2>2. delegated'[a] > delegated[a]
    BY <1>6, <2>1
  <2> QED  BY <1>4, <1>6, <2>2
<1>7. CASE a \notin platforms \/ m = 0
  <2>1. PICK mm \in Int, s \in Int : mm = -m /\ s = n + m
    OBVIOUS
  <2>2. HoldsMore(a, mm, b, s)
    <3> SUFFICES ASSUME NEW x \in Accounts
                 PROVE  Hold(x)' = Hold(x) + ((IF x = a THEN mm ELSE 0) + (IF x = b THEN s ELSE 0))
      BY DEF HoldsMore
    <3>1. PICK v \in Nat, d \in Nat, r \in Nat : v = vesting_shares[x] /\ d = delegated[x] /\ r = received[x]
      BY <1>3
    <3>2. /\ vesting_shares'[x] = IF x = b THEN v + n ELSE v
          /\ delegated'[x] = IF x = a THEN d + m ELSE d
          /\ received'[x] = IF x = b THEN m ELSE r
      BY <1>1, <1>2, <1>3, <3>1
    <3>3. x = b => r = 0
      BY <1>5, <3>1
    <3>4. Hold(x) = v - d + r
      BY <3>1 DEF Hold
    <3>5. CASE x = a
      <4>1. Hold(x)' = v - (d + m) + r
        BY <1>4, <3>2, <3>5 DEF Hold
      <4>2. v - (d + m) + r = (v - d + r) + (mm + 0)
        BY ONLY <2>1, v \in Nat, d \in Nat, r \in Nat, m \in Nat, mm \in Int
      <4> QED  BY <1>4, <3>4, <3>5, <4>1, <4>2
    <3>6. CASE x = b
      <4>1. Hold(x)' = (v + n) - d + m
        BY <1>4, <3>2, <3>6 DEF Hold
      <4>2. (v + n) - d + m = (v - d + r) + (0 + s)
        BY <2>1, <3>3, <3>6
      <4> QED  BY <1>4, <3>4, <3>6, <4>1, <4>2
    <3>7. CASE x # a /\ x # b
      <4>1. Hold(x)' = v - d + r
        BY <3>2, <3>7 DEF Hold
      <4>2. v - d + r = (v - d + r) + (0 + 0)
        OBVIOUS
      <4> QED  BY <3>4, <3>7, <4>1, <4>2
    <3> QED  BY <3>5, <3>6, <3>7
  <2>3. total_vested_by_platforms' = total_vested_by_platforms + ((IF a \in platforms THEN mm ELSE 0)
                                                                 + (IF b \in platforms THEN s ELSE 0))
    BY <1>2, <1>3, <1>4, <1>7, <2>1 DEF IsPlatform
  <2>4. Follows
    BY <1>1, <2>2, <2>3, FollowsDifference
  <2> QED  BY <2>4
<1> QED  BY <1>6, <1>7

\* A platform that takes shares back from another is the exception.
LEMMA FollowsDelegated ==
    ASSUME StakeInv, StakeInv', NEW a \in Accounts, NEW b \in Accounts, NEW n \in Nat,
           delegate_vesting_shares(a, b, n)
    PROVE  Follows \/ \E x, y \in platforms : delegation'[x][y].shares < delegation[x][y].shares
<1>1. /\ a # b /\ UNCHANGED <<vesting_shares, platforms>>
  BY DEF delegate_vesting_shares
<1>2. PICK old \in Nat : old = delegation[a][b].shares
  BY DEF StakeInv, LentShape, Grants
<1>3. /\ IF n >= old THEN increase_delegation(a, b, old, n) ELSE decrease_delegation(a, b, old, n)
      /\ received' = [received EXCEPT ![b] = @ + n - old]
  BY <1>2 DEF delegate_vesting_shares
<1>4. /\ vesting_shares \in [Accounts -> Nat] /\ delegated \in [Accounts -> Nat] /\ received \in [Accounts -> Nat]
      /\ total_vested_by_platforms \in Int /\ delegation \in [Accounts -> [Accounts -> Grants]]
  BY DEF StakeInv, OwnedShape, LentShape
<1>5. PICK d \in Int, z \in Int : d = n - old /\ z = -d
  OBVIOUS
<1>6. ASSUME NEW x \in Accounts
      PROVE  \E v \in Nat, g \in Nat, r \in Nat :
                /\ v = vesting_shares[x] /\ g = delegated[x] /\ r = received[x]
                /\ vesting_shares'[x] = v /\ received'[x] = IF x = b THEN r + d ELSE r
  <2>1. PICK v \in Nat, g \in Nat, r \in Nat : v = vesting_shares[x] /\ g = delegated[x] /\ r = received[x]
    BY <1>4
  <2>2. r + n - old = r + d
    BY <1>5
  <2> QED  BY <1>1, <1>3, <1>4, <2>1, <2>2
<1>7. CASE n >= old
  <2>1. /\ delegated' = [delegated EXCEPT ![a] = @ + n - old]
        /\ total_vested_by_platforms' = total_vested_by_platforms + (IsPlatform(b) - IsPlatform(a)) * (n - old)
    BY <1>3, <1>7 DEF increase_delegation
  <2>2. HoldsMore(a, z, b, d)
    <3> SUFFICES ASSUME NEW x \in Accounts
                 PROVE  Hold(x)' = Hold(x) + ((IF x = a THEN z ELSE 0) + (IF x = b THEN d ELSE 0))
      BY DEF HoldsMore
    <3>1. PICK v \in Nat, g \in Nat, r \in Nat :
                /\ v = vesting_shares[x] /\ g = delegated[x] /\ r = received[x]
                /\ vesting_shares'[x] = v /\ received'[x] = IF x = b THEN r + d ELSE r
      BY <1>6
    <3>2. delegated'[x] = IF x = a THEN g + d ELSE g
      <4>1. g + n - old = g + d
        BY <1>5
      <4> QED  BY <1>4, <2>1, <3>1, <4>1
    <3>3. Hold(x) = v - g + r /\ Hold(x)' = v - (IF x = a THEN g + d ELSE g) + (IF x = b THEN r + d ELSE r)
      BY <3>1, <3>2 DEF Hold
    <3>4. /\ v - (g + d) + r = (v - g + r) + (z + 0)
          /\ v - g + (r + d) = (v - g + r) + (0 + d)
          /\ v - g + r = (v - g + r) + (0 + 0)
      BY ONLY <1>5, v \in Nat, g \in Nat, r \in Nat, d \in Int, z \in Int
    <3> QED  BY <1>1, <3>3, <3>4
  <2>3. total_vested_by_platforms' = total_vested_by_platforms + ((IF a \in platforms THEN z ELSE 0)
                                                                 + (IF b \in platforms THEN d ELSE 0))
    <3>1. /\ (1 - 1) * (n - old) = z + d /\ (0 - 0) * (n - old) = 0 + 0
          /\ (1 - 0) * (n - old) = 0 + d /\ (0 - 1) * (n - old) = z + 0
      BY <1>5
    <3> QED  BY <2>1, <3>1 DEF IsPlatform
  <2> QED  BY <1>1, <2>2, <2>3, FollowsDifference
<1>8. CASE ~ (n >= old)
  <2>1. /\ UNCHANGED delegated
        /\ delegation' = [delegation EXCEPT ![a][b] =
                            IF n = 0 THEN [shares |-> 0, lasts |-> 0] ELSE [@ EXCEPT !.shares = n]]
        /\ total_vested_by_platforms' = total_vested_by_platforms - IsPlatform(b) * (1 - IsPlatform(a)) * (old - n)
    BY <1>3, <1>8 DEF decrease_delegation
  <2>2. CASE a \in platforms /\ b \in platforms
    <3>1. delegation[a][b] \in Grants
      BY <1>4
    <3>2. delegation'[a][b] = IF n = 0 THEN [shares |-> 0, lasts |-> 0] ELSE [delegation[a][b] EXCEPT !.shares = n]
      BY <1>4, <2>1
    <3>3. delegation'[a][b].shares = n
      BY <3>1, <3>2 DEF Grants
    <3>4. delegation'[a][b].shares < delegation[a][b].shares
      BY <1>2, <1>8, <3>3
    <3> QED  BY <2>2, <3>4
  <2>3. CASE ~ (a \in platforms /\ b \in platforms)
    <3>1. HoldsMore(a, 0, b, d)
      <4> SUFFICES ASSUME NEW x \in Accounts
                   PROVE  Hold(x)' = Hold(x) + ((IF x = a THEN 0 ELSE 0) + (IF x = b THEN d ELSE 0))
        BY DEF HoldsMore
      <4>1. PICK v \in Nat, g \in Nat, r \in Nat :
                  /\ v = vesting_shares[x] /\ g = delegated[x] /\ r = received[x]
                  /\ vesting_shares'[x] = v /\ received'[x] = IF x = b THEN r + d ELSE r
        BY <1>6
      <4>2. Hold(x) = v - g + r /\ Hold(x)' = v - g + (IF x = b THEN r + d ELSE r)
        BY <2>1, <4>1 DEF Hold
      <4>3. v - g + (r + d) = (v - g + r) + (0 + d) /\ v - g + r = (v - g + r) + (0 + 0)
        BY ONLY v \in Nat, g \in Nat, r \in Nat, d \in Int
      <4> QED  BY <4>2, <4>3
    <3>2. total_vested_by_platforms' = total_vested_by_platforms + ((IF a \in platforms THEN 0 ELSE 0)
                                                                   + (IF b \in platforms THEN d ELSE 0))
      <4>1. PICK t \in Int : t = total_vested_by_platforms
        BY <1>4
      <4>2. /\ t - 1 * (1 - 0) * (old - n) = t + (0 + d) /\ t - 0 * (1 - 0) * (old - n) = t + (0 + 0)
            /\ t - 0 * (1 - 1) * (old - n) = t + (0 + 0)
        BY ONLY <1>5, t \in Int, d \in Int, old \in Nat, n \in Nat
      <4> QED  BY <2>1, <2>3, <4>1, <4>2 DEF IsPlatform
    <3>3. 0 \in Int
      OBVIOUS
    <3> QED  BY <1>1, <3>1, <3>2, <3>3, FollowsDifference
  <2> QED  BY <2>2, <2>3
<1> QED  BY <1>7, <1>8

\* A new platform brings what it holds.
LEMMA FollowsPlatform ==
    ASSUME StakeInv, StakeInv', NEW a \in Accounts, streaming_platform_update(a)
    PROVE  Follows
<1>1. /\ a \notin platforms /\ platforms' = platforms \cup {a}
      /\ total_vested_by_platforms' = total_vested_by_platforms + vesting_shares[a] + received[a] - delegated[a]
      /\ UNCHANGED <<vesting_shares, delegated, received>>
  BY DEF streaming_platform_update, holdings
<1>2. PICK P, h : P = platforms /\ h = [x \in Accounts |-> Hold(x)]
  OBVIOUS
<1>3. /\ \A x \in Accounts : h[x] \in Int
      /\ IsFiniteSet(P) /\ P \in SUBSET Accounts /\ VestedByPlatforms = SumFunctionOnSet(h, P)
  BY <1>2, HeldByPlatforms
<1>4. VestedByPlatforms' = SumFunctionOnSet(h, P \cup {a})
  BY <1>1, <1>2 DEF VestedByPlatforms, Hold
<1>5. IntOn(h, P \cup {a}) /\ a \notin P
  BY <1>1, <1>2, <1>3 DEF IntOn
<1>6. SumFunctionOnSet(h, P) \in Int /\ SumFunctionOnSet(h, P \cup {a}) = h[a] + SumFunctionOnSet(h, P)
  BY <1>3, <1>5, SumInsert
<1>7. PICK v \in Nat, d \in Nat, r \in Nat, t \in Int, s \in Int :
         /\ v = vesting_shares[a] /\ d = delegated[a] /\ r = received[a] /\ t = total_vested_by_platforms
         /\ s = SumFunctionOnSet(h, P)
  BY <1>6 DEF StakeInv, OwnedShape, LentShape
<1>8. h[a] = v - d + r
  BY <1>2, <1>7 DEF Hold
<1>9. (t + v + r - d) - ((v - d + r) + s) = t - s
  BY ONLY v \in Nat, d \in Nat, r \in Nat, t \in Int, s \in Int
<1> QED  BY <1>1, <1>3, <1>4, <1>6, <1>7, <1>8, <1>9 DEF Follows

\* Shares that return to a platform are counted; those it withdraws are not.
LEMMA FollowsBlock ==
    ASSUME StakeInv, StakeInv', Block
    PROVE  Follows \/ \E a \in platforms : vesting_shares'[a] # vesting_shares[a]
<1> SUFFICES ASSUME \A a \in platforms : vesting_shares'[a] = vesting_shares[a] PROVE Follows
  OBVIOUS
<1>1. /\ UNCHANGED <<received, platforms>> /\ clear_expired_delegations
  BY DEF Block
<1> DEFINE e == [a \in Accounts |-> expiring[a][0]]
<1>2. /\ delegated' = [a \in Accounts |-> delegated[a] - expiring[a][0]]
      /\ total_vested_by_platforms' = total_vested_by_platforms + SumFunctionOnSet(e, platforms)
  BY <1>1 DEF clear_expired_delegations
<1>3. /\ vesting_shares \in [Accounts -> Nat] /\ delegated \in [Accounts -> Nat] /\ received \in [Accounts -> Nat]
      /\ total_vested_by_platforms \in Int /\ expiring \in [Accounts -> [0 .. CreateTime -> Nat]]
  BY DEF StakeInv, OwnedShape, LentShape
<1>4. PICK P, h, k : P = platforms /\ h = [x \in Accounts |-> Hold(x)]
                     /\ k = [x \in Accounts |-> vesting_shares'[x] - delegated'[x] + received'[x]]
  OBVIOUS
<1>5. /\ \A x \in Accounts : h[x] \in Int
      /\ IsFiniteSet(P) /\ P \in SUBSET Accounts /\ VestedByPlatforms = SumFunctionOnSet(h, P)
  BY <1>4, HeldByPlatforms
<1>6. VestedByPlatforms' = SumFunctionOnSet(k, P)
  BY <1>1, <1>4 DEF VestedByPlatforms
<1>7. \A x \in P : e[x] \in Int /\ k[x] = h[x] + e[x] /\ h[x] \in Int
  <2> TAKE x \in P
  <2>1. x \in Accounts /\ h[x] \in Int
    BY <1>5
  <2>2. 0 \in 0 .. CreateTime
    BY StakeNumbers
  <2>3. PICK v \in Nat, d \in Nat, r \in Nat, z \in Nat :
           v = vesting_shares[x] /\ d = delegated[x] /\ r = received[x] /\ z = expiring[x][0]
    BY <1>3, <2>1, <2>2
  <2>4. v - (d - z) + r = (v - d + r) + z
    BY ONLY v \in Nat, d \in Nat, r \in Nat, z \in Nat
  <2>5. e[x] = z /\ h[x] = v - d + r /\ k[x] = v - (d - z) + r
    BY <1>1, <1>2, <1>4, <2>1, <2>3 DEF Hold
  <2> HIDE DEF e
  <2> QED  BY <2>1, <2>3, <2>4, <2>5
<1> HIDE DEF e
<1>8. IntOn(h, P) /\ IntOn(e, P)
  BY <1>7 DEF IntOn
<1>9. /\ SumFunctionOnSet(h, P) \in Int /\ SumFunctionOnSet(e, P) \in Int
      /\ SumFunctionOnSet(k, P) = SumFunctionOnSet(h, P) + SumFunctionOnSet(e, P)
  BY <1>5, <1>7, <1>8, SumPlus
<1>10. PICK t \in Int, s \in Int, y \in Int :
          t = total_vested_by_platforms /\ s = SumFunctionOnSet(h, P) /\ y = SumFunctionOnSet(e, P)
  BY <1>3, <1>9
<1>11. (t + y) - (s + y) = t - s
  BY ONLY t \in Int, s \in Int, y \in Int
<1> QED  BY <1>2, <1>4, <1>5, <1>6, <1>9, <1>10, <1>11 DEF Follows


PlatformsKept ==
    (total_vested_by_platforms - VestedByPlatforms)' # total_vested_by_platforms - VestedByPlatforms
       => \/ Block /\ \E a \in platforms : vesting_shares'[a] # vesting_shares[a]
          \/ \E a, b \in platforms : delegation'[a][b].shares < delegation[a][b].shares
          \/ accounts' # accounts /\ \E a \in platforms : delegated'[a] > delegated[a]

LEMMA PlatformsStep ==
    ASSUME StakeInv, StakeInv', Next
    PROVE  PlatformsKept
<1>0. /\ profile.bought \subseteq Nat /\ profile.asked \subseteq Nat /\ profile.lent \subseteq Nat
      /\ profile.withdrawers \subseteq Accounts /\ profile.delegators \subseteq Accounts
      /\ profile.candidates \subseteq Accounts
  BY Inputs DEF StakeInv, OwnedShape
<1> USE <1>0
<1>a. Follows => PlatformsKept
  BY DEF Follows, PlatformsKept
<1>1. ASSUME NEW a \in Accounts, NEW n \in profile.bought, transfer_to_vesting(a, n) PROVE Follows
  <2>1. n \in Nat /\ create_vesting(a, n) /\ UNCHANGED <<delegated, received, platforms>>
    BY <1>1 DEF transfer_to_vesting
  <2> QED  BY <2>1, FollowsCreated
<1>2. ASSUME NEW a \in Accounts, NEW b \in Accounts, NEW n \in profile.bought, account_create(a, b, n)
      PROVE  Follows
  <2>1. n \in Nat /\ create_vesting(b, n) /\ UNCHANGED <<delegated, received, platforms>>
    BY <1>2 DEF account_create
  <2> QED  BY <2>1, FollowsCreated
<1>3. ASSUME NEW a \in profile.delegators, NEW b \in Accounts, NEW n \in profile.bought \cup {0},
             NEW m \in profile.lent, account_create_with_delegation(a, b, n, m)
      PROVE  PlatformsKept
  <2>1. n \in Nat /\ m \in Nat /\ a \in Accounts
    OBVIOUS
  <2>2. Follows \/ (accounts' # accounts /\ \E x \in platforms : delegated'[x] > delegated[x])
    BY <1>3, <2>1, FollowsCreatedWithDelegation
  <2> QED  BY <1>a, <2>2 DEF PlatformsKept
<1>4. ASSUME NEW a \in profile.withdrawers, NEW n \in profile.asked, withdraw_vesting(a, n) PROVE Follows
  BY <1>4, FollowsNothing DEF withdraw_vesting, holdings
<1>5. ASSUME NEW a \in profile.withdrawers, NEW r \in profile.routes,
             set_withdraw_vesting_route(a, r[1], r[2], r[3])
      PROVE  Follows
  BY <1>5, FollowsNothing DEF set_withdraw_vesting_route, holdings
<1>6. ASSUME NEW a \in profile.delegators, NEW b \in Accounts, NEW n \in profile.lent,
             delegate_vesting_shares(a, b, n)
      PROVE  PlatformsKept
  <2>1. n \in Nat /\ a \in Accounts
    OBVIOUS
  <2>2. Follows \/ \E x, y \in platforms : delegation'[x][y].shares < delegation[x][y].shares
    BY <1>6, <2>1, FollowsDelegated
  <2> QED  BY <1>a, <2>2 DEF PlatformsKept
<1>7. ASSUME NEW a \in profile.candidates, streaming_platform_update(a) PROVE Follows
  <2>1. a \in Accounts
    OBVIOUS
  <2> QED  BY <1>7, <2>1, FollowsPlatform
<1>8. ASSUME NEW q \in Accounts, NEW r \in Accounts, NEW p \in 0 .. Hundred, request_stream_reporting(q, r, p)
      PROVE  Follows
  BY <1>8, FollowsNothing DEF request_stream_reporting, set_redelegation
<1>9. ASSUME NEW q \in Accounts, NEW r \in Accounts, cancel_stream_reporting(q, r) PROVE Follows
  BY <1>9, FollowsNothing DEF cancel_stream_reporting, set_redelegation
<1>10. ASSUME Block PROVE PlatformsKept
  <2>1. Follows \/ \E a \in platforms : vesting_shares'[a] # vesting_shares[a]
    BY <1>10, FollowsBlock
  <2> QED  BY <1>a, <1>10, <2>1 DEF PlatformsKept
<1>11. Step
  BY DEF Next
<1> QED  BY <1>a, <1>1, <1>2, <1>3, <1>4, <1>5, <1>6, <1>7, <1>8, <1>9, <1>10, <1>11 DEF Step

\* The total by which the platforms' rewards are divided follows what the
\* platforms hold in every step of every operation, but for the three the
\* property names: a platform's withdrawal, a delegation taken back between two
\* platforms, an account a platform creates with a delegation.
THEOREM PlatformsFollowed == Spec => PlatformsTotalKept
<1>1. Init => StakeInv
  BY StakeInitInv
<1>2. StakeInv /\ [Next]_vars => StakeInv'
  BY StakeStepInv
<1>3. StakeInv /\ StakeInv' /\ [Next]_vars => [PlatformsKept]_vars
  BY PlatformsStep
<1>4. [][PlatformsKept]_vars => PlatformsTotalKept
  BY DEF PlatformsTotalKept, PlatformsKept
<1> QED  BY <1>1, <1>2, <1>3, <1>4, PTL DEF Spec

=============================================================================
