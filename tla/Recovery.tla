----------------------------- MODULE Recovery ------------------------------
(***************************************************************************)
(* Recovery of an account whose owner authority was taken over: the        *)
(* history of owner authorities, the requests of the recovery account, and *)
(* the change of that account, which takes as long as the history reaches  *)
(* back.                                                                   *)
(*                                                                         *)
(* Accounts do not interact here, so there is one.  Whoever satisfies its  *)
(* owner authority, its holder or a thief, may do what that allows at any  *)
(* time.  Authorities are model values; one that is open or impossible is  *)
(* refused or, in a request, cancels it.  Missed slots let time pass by    *)
(* more than one between blocks.  MaxClock and MaxChanges are bounds.      *)
(***************************************************************************)
EXTENDS Integers, Sequences

CONSTANTS
    OwnerAuths,     \* owner authorities
    Partners,       \* accounts that may be the recovery account
    Nobody,         \* no account, no request
    RecoveryPeriod, \* BTCM_OWNER_AUTH_RECOVERY_PERIOD
    RequestPeriod,  \* BTCM_ACCOUNT_RECOVERY_REQUEST_EXPIRATION_PERIOD
    UpdateLimit,    \* BTCM_OWNER_UPDATE_LIMIT
    MaxClock,       \* bound: time
    MaxChanges      \* bound: changes of the owner authority

ASSUME RecoveryAssumption ==
    /\ {RecoveryPeriod, RequestPeriod} \subseteq Nat \ {0}
    /\ {UpdateLimit, MaxClock, MaxChanges} \subseteq Nat
    /\ Nobody \notin Partners

VARIABLES
    clock,            \* head block time
    owner,            \* the owner authority
    last_update,      \* last_owner_update
    last_recovery,    \* last_account_recovery
    recovery_account, \* Nobody for the top witness
    top_witness,      \* the witness with the most votes
    history,          \* owner_authority_history_objects, in the order of their ids
    request,          \* the account_recovery_request_object
    change,           \* the change_recovery_account_request_object
    past,             \* history: all owner authorities there have been
    held              \* history: when each partner was last able to request

recoveryVars == <<clock, owner, last_update, last_recovery, recovery_account, top_witness,
                  history, request, change, past, held>>

\* Who may request a recovery.
Partner(account, top) == IF account = Nobody THEN top ELSE account

RecoveryInit ==
    /\ clock = 0
    /\ owner \in OwnerAuths
    /\ last_update = -RecoveryPeriod /\ last_recovery = -RecoveryPeriod
    /\ recovery_account \in Partners \cup {Nobody}
    /\ top_witness \in Partners
    /\ history = <<>> /\ past = <<>>
    /\ request = Nobody /\ change = Nobody
    /\ held = [p \in Partners |->
                  IF p = Partner(recovery_account, top_witness) THEN 0 ELSE -RequestPeriod]

\* Mutant: a recovery leaves no trace of the authority it replaces.
update_owner_authority_NoTrace(auth) ==
    /\ Len(past) < MaxChanges
    /\ history' = history
    /\ past' = Append(past, [auth |-> owner, until |-> clock,
                             partners |-> {recovery_account}
                                          \cup (IF change = Nobody THEN {} ELSE {change.account})])
    /\ owner' = auth
    /\ last_update' = clock

\* update_owner_authority
update_owner_authority(auth) ==
    /\ Len(past) < MaxChanges
    /\ history' = Append(history, [auth |-> owner, until |-> clock])
    /\ past' = Append(past, [auth |-> owner, until |-> clock,
                             partners |-> {recovery_account}
                                          \cup (IF change = Nobody THEN {} ELSE {change.account})])
    /\ owner' = auth
    /\ last_update' = clock

\* account_update with a new owner authority
AccountUpdate(auth) ==
    /\ clock - last_update > UpdateLimit
    /\ update_owner_authority(auth)
    /\ UNCHANGED <<clock, last_recovery, recovery_account, top_witness, request, change, held>>

\* request_account_recovery: a new request, or one that is renewed
RequestRecovery(p, auth) ==
    /\ p = Partner(recovery_account, top_witness)
    /\ request' = [auth |-> auth, expires |-> clock + RequestPeriod, by |-> p]
    /\ UNCHANGED <<clock, owner, last_update, last_recovery, recovery_account, top_witness,
                   history, change, past, held>>

\* ... with an open authority
CancelRequest(p) ==
    /\ p = Partner(recovery_account, top_witness)
    /\ request # Nobody
    /\ request' = Nobody
    /\ UNCHANGED <<clock, owner, last_update, last_recovery, recovery_account, top_witness,
                   history, change, past, held>>

\* recover_account
RecoverAccount(recent, auth) ==
    /\ recent # auth
    /\ clock - last_recovery > UpdateLimit
    /\ request # Nobody /\ request.auth = auth
    /\ \E i \in DOMAIN history : history[i].auth = recent
    /\ request' = Nobody
    /\ update_owner_authority(auth)
    /\ last_recovery' = clock
    /\ UNCHANGED <<clock, recovery_account, top_witness, change, held>>

\* Mutant: a change that is pending keeps its date.
ChangeRecoveryAccount_SameDate(p) ==
    /\ change' = IF change # Nobody /\ recovery_account = p THEN Nobody
                 ELSE [account |-> p, effective |-> IF change = Nobody THEN clock + RecoveryPeriod
                                                    ELSE change.effective]
    /\ UNCHANGED <<clock, owner, last_update, last_recovery, recovery_account, top_witness,
                   history, request, past, held>>

\* change_recovery_account: a new request, another target, or changed back
ChangeRecoveryAccount(p) ==
    /\ change' = IF change # Nobody /\ recovery_account = p THEN Nobody
                 ELSE [account |-> p, effective |-> clock + RecoveryPeriod]
    /\ UNCHANGED <<clock, owner, last_update, last_recovery, recovery_account, top_witness,
                   history, request, past, held>>

\* Mutant: requests do not expire.
Expire_Never(t) == request' = request

\* "Clear expired recovery requests"
Expire(t) == request' = IF request # Nobody /\ request.expires <= t THEN Nobody ELSE request

\* "Clear invalid historical authorities": from the oldest on.
Invalid(h, t) == h.until + RecoveryPeriod < t

Forget(t) ==
    \E k \in 0 .. Len(history) :
        /\ \A i \in 1 .. k : Invalid(history[i], t)
        /\ k < Len(history) => ~Invalid(history[k + 1], t)
        /\ history' = SubSeq(history, k + 1, Len(history))

\* "Apply effective recovery_account changes"
ApplyChange(t) ==
    IF change # Nobody /\ change.effective <= t
    THEN recovery_account' = change.account /\ change' = Nobody
    ELSE UNCHANGED <<recovery_account, change>>

\* A block: votes may bring up another witness, and account_recovery_processing.
RecoveryBlock(t, top) ==
    /\ clock' = t
    /\ top_witness' = top
    /\ Expire(t)
    /\ Forget(t)
    /\ ApplyChange(t)
    /\ held' = [p \in Partners |-> IF p = Partner(recovery_account, top_witness) THEN t
                                   ELSE IF p = Partner(recovery_account', top) THEN t ELSE held[p]]
    /\ UNCHANGED <<owner, last_update, last_recovery, past>>

RecoveryNext ==
    \/ \E auth \in OwnerAuths : AccountUpdate(auth)
    \/ \E p \in Partners, auth \in OwnerAuths : RequestRecovery(p, auth)
    \/ \E p \in Partners : CancelRequest(p) \/ ChangeRecoveryAccount(p)
    \/ \E recent, auth \in OwnerAuths : RecoverAccount(recent, auth)
    \/ \E t \in {clock + 1, clock + 2}, top \in Partners : t <= MaxClock /\ RecoveryBlock(t, top)

RecoverySpec == RecoveryInit /\ [][RecoveryNext]_recoveryVars

-----------------------------------------------------------------------------
(* Properties. *)

\* Requests and changes are open only while they are due, and the history is in
\* order of time.
RecoveryTypeOK ==
    /\ owner \in OwnerAuths
    /\ recovery_account \in Partners \cup {Nobody}
    /\ request # Nobody => request.auth \in OwnerAuths /\ request.expires > clock
    /\ change # Nobody => change.account \in Partners /\ change.effective > clock
    /\ \A i, j \in DOMAIN history : i < j => history[i].until <= history[j].until

\* The history holds exactly the authorities that were valid in the last
\* RecoveryPeriod, whichever way they were replaced, so that the holder of any
\* of them can take part in a recovery ("Being able to satisfy an owner
\* authority that was used in the past 30 days is sufficient").
HistoryIsComplete ==
    {<<h.auth, h.until>> : h \in {history[i] : i \in DOMAIN history}}
    = {<<h.auth, h.until>> : h \in {past[i] : i \in {j \in DOMAIN past :
                                       past[j].until + RecoveryPeriod >= clock}}}

\* As long as an authority can be used for recovery, whoever replaced it cannot
\* have replaced the recovery account too: it is the one there was, or one
\* whose change was already pending ("This delay is to prevent an attacker from
\* changing the recovery account to a malicious account during an attack").
RecoveryPartnerHolds ==
    \A i \in DOMAIN past :
        clock < past[i].until + RecoveryPeriod => recovery_account \in past[i].partners

\* An account is recovered only at the request of an account that has been its
\* recovery account within the last RequestPeriod: the request of one that was
\* replaced dies with it soon.
RecoveredByPartner ==
    [][last_recovery' # last_recovery => clock < held[request.by] + RequestPeriod]_recoveryVars

\* The account stays recoverable by its old owner and the old partner together,
\* and by nobody else, through any order of changes, requests and expiries.
RecoverySound ==
    /\ [](RecoveryTypeOK /\ HistoryIsComplete /\ RecoveryPartnerHolds)
    /\ RecoveredByPartner

=============================================================================
