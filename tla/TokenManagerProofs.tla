------------------------- MODULE TokenManagerProofs -------------------------
(***************************************************************************)
(* Proofs about TokenManager, for any callers, audiences and bounds.       *)
(***************************************************************************)
EXTENDS TokenManager, TLAPS

\* The fields of an answer that grants a token.
LEMMA GrantFields ==
    ASSUME NEW g \in Grant, g.state = "granted"
    PROVE  /\ g.life \in Nat
           /\ g.at \in Nat
           /\ g.rotated \in Nat
  <1>1. g \in [state : {"granted"}, presented : Nat, at : Nat,
              life : Lifetime, rotated : Nat]
    BY DEF Grant, NoGrant
  <1>2. QED
    BY <1>1, TokenAssumption

\* A token of the sign-in dies no earlier before its reckoned end than its
\* answer took to arrive.
LEMMA FirstTokens ==
    ASSUME NEW t \in FirstToken
    PROVE  t \in Token /\ t.expires <= t.dies + MaxLatency
  <1>1. PICK life \in Lifetime, late \in 0 .. MaxLatency :
          t = [expires |-> life, dies |-> life - late]
    BY DEF FirstToken
  <1>2. life \in Nat /\ late \in Int /\ late <= MaxLatency /\ MaxLatency \in Nat
    BY TokenAssumption
  <1>3. QED
    BY <1>1, <1>2 DEF Token

\* The initial states are well typed.
LEMMA InitType == Init => TypeOK
  <1> SUFFICES ASSUME Init PROVE TypeOK
    OBVIOUS
  <1>1. cache \in [Audience -> Token]
    <2>1. NoToken \in Token
      BY DEF NoToken, Token
    <2>2. CASE credential = "ClientSecret"
      BY <2>1, <2>2 DEF Init, InitCredential
    <2>3. CASE credential = "Delegated"
      <3>1. PICK first \in [Audience -> FirstToken] :
              cache = [a \in Audience |->
                         IF consent[a] = "Granted" THEN first[a] ELSE NoToken]
        BY <2>3 DEF Init, InitCredential
      <3>2. FirstToken \subseteq Token
        BY FirstTokens
      <3>3. QED
        BY <2>1, <3>1, <3>2
    <2>4. QED
      BY <2>2, <2>3 DEF Init, InitCredential
  <1>2. grant \in [Caller -> Grant]
    BY DEF Init, Grant
  <1>3. /\ credential \in {"ClientSecret", "Delegated"}
        /\ consent \in [Audience -> {"Granted", "Missing"}]
    BY DEF Init, InitCredential
  <1>4. lostNewest \in BOOLEAN
    BY DEF Init
  <1>5. /\ waiters \in Seq(Caller)
        /\ lock \in Caller \cup {Free}
        /\ pc \in [Caller -> PC]
        /\ aud \in [Caller -> Audience \cup {NoAudience}]
    BY DEF Init, PC
  <1>6. QED
    BY <1>1, <1>2, <1>3, <1>4, <1>5 DEF Init, TypeOK

\* Every step keeps the state well typed.
LEMMA StepType == TypeOK /\ [Next]_vars => TypeOK'
  <1> SUFFICES ASSUME TypeOK, [Next]_vars PROVE TypeOK'
    OBVIOUS
  <1> USE TokenAssumption DEF TypeOK, renewal, session, provider, PC, Holding
  <1>1. ASSUME NEW c \in Caller, NEW a \in Audience, Begin(c, a)
        PROVE  TypeOK'
    BY <1>1 DEF Begin
  <1>2. ASSUME NEW c \in Caller, CacheHit(c) PROVE TypeOK'
    BY <1>2 DEF CacheHit, Return
  <1>3. ASSUME NEW c \in Caller, CacheMiss(c) PROVE TypeOK'
    BY <1>3 DEF CacheMiss
  <1>4. ASSUME NEW c \in Caller, Acquire(c) PROVE TypeOK'
    BY <1>4 DEF Acquire
  <1>5. ASSUME NEW c \in Caller, RecheckSession(c) PROVE TypeOK'
    BY <1>5 DEF RecheckSession, Return
  <1>6. ASSUME NEW c \in Caller, RecheckHit(c) PROVE TypeOK'
    BY <1>6 DEF RecheckHit, Return
  <1>7. ASSUME NEW c \in Caller, SendGrant(c) PROVE TypeOK'
    <2>1. [state |-> "sent", presented |-> refresh] \in Grant
      BY DEF Grant
    <2>2. QED
      BY <1>7, <2>1 DEF SendGrant
  <1>8. ASSUME NEW c \in Caller, ReceiveToken(c) PROVE TypeOK'
    <2>1. /\ grant[c] \in Grant
          /\ grant[c].state = "granted"
      BY <1>8 DEF ReceiveToken
    <2>2. /\ grant[c].life \in Nat
          /\ grant[c].at \in Nat
          /\ grant[c].rotated \in Nat
      BY <2>1, GrantFields
    <2>3. cache' \in [Audience -> Token]
      <3>1. [expires |-> now + grant[c].life,
             dies |-> grant[c].at + grant[c].life] \in Token
        BY <2>2 DEF Token
      <3>2. QED
        BY <1>8, <3>1 DEF ReceiveToken, CacheToken
    <2>4. grant' \in [Caller -> Grant]
      BY <1>8 DEF ReceiveToken, Grant
    <2>5. QED
      BY <1>8, <2>2, <2>3, <2>4 DEF ReceiveToken, Rotate, Return
  <1>9. ASSUME NEW c \in Caller, ReceiveError(c) PROVE TypeOK'
    <2>1. grant' \in [Caller -> Grant]
      BY <1>9 DEF ReceiveError, Grant
    <2>2. reauth' \in {"unset"} \cup ReauthReason
      BY <1>9 DEF ReceiveError, SetReauth
    <2>3. consent' \in [Audience -> {"Granted", "Missing"}]
      BY <1>9 DEF ReceiveError
    <2>4. QED
      BY <1>9, <2>1, <2>2, <2>3 DEF ReceiveError, Return
  <1>10. ASSUME NEW c \in Caller, FinishUse(c) PROVE TypeOK'
    BY <1>10 DEF FinishUse, SetReauth, ReauthReason
  <1>11. ASSUME NEW c \in Caller, ProviderGrants(c) PROVE TypeOK'
    <2>1. PICK life \in Lifetime, gen \in {0, issued + 1} :
            /\ issued' = IF gen = 0 THEN issued ELSE gen
            /\ grant' = [grant EXCEPT ![c] =
                           [state |-> "granted",
                            presented |-> grant[c].presented,
                            at |-> now, life |-> life, rotated |-> gen]]
      BY <1>11 DEF ProviderGrants
    <2>2. grant[c].presented \in Nat
      BY <1>11 DEF ProviderGrants, Grant, NoGrant
    <2>3. [state |-> "granted", presented |-> grant[c].presented,
           at |-> now, life |-> life, rotated |-> gen] \in Grant
      BY <2>2 DEF Grant
    <2>4. QED
      BY <1>11, <2>1, <2>3 DEF ProviderGrants
  <1>12. ASSUME NEW c \in Caller, ProviderRefuses(c) PROVE TypeOK'
    <2>1. PICK error \in GrantError : Refuse(c, error)
      BY <1>12 DEF ProviderRefuses
    <2>2. grant[c].presented \in Nat
      BY <1>12 DEF ProviderRefuses, Grant, NoGrant
    <2>3. [state |-> "refused", presented |-> grant[c].presented,
           error |-> error] \in Grant
      BY <2>2 DEF Grant
    <2>4. QED
      BY <1>12, <2>1, <2>3 DEF ProviderRefuses, Refuse
  <1>13. ASSUME NEW c \in Caller, AnswerLost(c) PROVE TypeOK'
    <2>1. grant[c].presented \in Nat
      BY <1>13 DEF AnswerLost, Grant, NoGrant
    <2>2. [state |-> "refused", presented |-> grant[c].presented,
           error |-> "failed"] \in Grant
      BY <2>1 DEF Grant, GrantError
    <2>3. QED
      BY <1>13, <2>2 DEF AnswerLost, Refuse
  <1>14. CASE Tick
    BY <1>14 DEF Tick
  <1>15. CASE UNCHANGED vars
    BY <1>15 DEF vars
  <1>16. QED
    BY <1>1, <1>2, <1>3, <1>4, <1>5, <1>6, <1>7, <1>8, <1>9, <1>10, <1>11,
       <1>12, <1>13, <1>14, <1>15 DEF Next, Get, Answer

(***************************************************************************)
(* Every reachable state is of its type: the clock, the expiries and the   *)
(* refresh-token generations stay naturals and each grant is a request,    *)
(* an answer or a refusal.                                                 *)
(***************************************************************************)
THEOREM TypeCorrect == Spec => []TypeOK
  BY InitType, StepType, PTL DEF Spec

-----------------------------------------------------------------------------
(***************************************************************************)
(* The renewal lock and what stands under it.                              *)
(***************************************************************************)

\* Exactly the holder of the lock is in the code the lock guards, and exactly
\* a caller whose request is in flight waits for its answer there.
LockInv ==
    \A c \in Caller :
        /\ pc[c] \in Holding <=> lock = c
        /\ pc[c] = "granting" <=> grant[c] # NoGrant

\* A caller in get_token asks for one of the audiences; past its checks under
\* the lock, the audience has consent; past both, its cached token is stale.
CheckedInv ==
    \A c \in Caller :
        /\ pc[c] \in {"checked", "waiting"} \cup Holding => aud[c] \in Audience
        /\ pc[c] \in {"rechecked", "granting"} /\ Delegated
              => consent[aud[c]] = "Granted"
        /\ pc[c] = "granting" => ~IsValid(cache[aud[c]])

\* The one grant that can leave after reauth is set is that of a caller which
\* was past its checks; once it has left there is no such caller.
LateInv ==
    /\ reauth = "unset" => lateGrants = 0
    /\ reauth # "unset" => Delegated
    /\ lateGrants = 0 \/ lateGrants = 1
    /\ lateGrants = 1 => \A c \in Caller : pc[c] # "rechecked"

SessionInv == LockInv /\ CheckedInv /\ LateInv

\* Nobody holds the lock, waits for an answer or is late at the start.
LEMMA InitSession == Init => SessionInv
  BY TokenAssumption
     DEF Init, SessionInv, LockInv, CheckedInv, LateInv, Holding

\* Every step of get_token, of the provider and of the clock keeps the lock
\* with the one caller past it, whose checks still stand.
LEMMA StepSession ==
    TypeOK /\ SessionInv /\ [Next]_vars => SessionInv'
  <1> SUFFICES ASSUME TypeOK, SessionInv, [Next]_vars PROVE SessionInv'
    OBVIOUS
  <1> USE TokenAssumption DEF SessionInv, LockInv, CheckedInv, LateInv,
        Holding, TypeOK, renewal, session, provider, Delegated, IsValid
  <1>1. ASSUME NEW c \in Caller, NEW a \in Audience, Begin(c, a)
        PROVE  SessionInv'
    BY <1>1 DEF Begin
  <1>2. ASSUME NEW c \in Caller, CacheHit(c) PROVE SessionInv'
    BY <1>2 DEF CacheHit, Return
  <1>3. ASSUME NEW c \in Caller, CacheMiss(c) PROVE SessionInv'
    BY <1>3 DEF CacheMiss
  <1>4. ASSUME NEW c \in Caller, Acquire(c) PROVE SessionInv'
    BY <1>4 DEF Acquire
  <1>5. ASSUME NEW c \in Caller, RecheckSession(c) PROVE SessionInv'
    BY <1>5 DEF RecheckSession, Return, MayAcquire
  <1>6. ASSUME NEW c \in Caller, RecheckHit(c) PROVE SessionInv'
    BY <1>6 DEF RecheckHit, Return
  <1>7. ASSUME NEW c \in Caller, SendGrant(c) PROVE SessionInv'
    BY <1>7 DEF SendGrant, NoGrant
  <1>8. ASSUME NEW c \in Caller, ReceiveToken(c) PROVE SessionInv'
    BY <1>8 DEF ReceiveToken, Rotate, CacheToken, Return
  <1>9. ASSUME NEW c \in Caller, ReceiveError(c) PROVE SessionInv'
    BY <1>9 DEF ReceiveError, SetReauth, Return
  <1>10. ASSUME NEW c \in Caller, FinishUse(c) PROVE SessionInv'
    BY <1>10 DEF FinishUse, SetReauth
  <1>11. ASSUME NEW c \in Caller, ProviderGrants(c) PROVE SessionInv'
    BY <1>11 DEF ProviderGrants, NoGrant
  <1>12. ASSUME NEW c \in Caller, ProviderRefuses(c) PROVE SessionInv'
    BY <1>12 DEF ProviderRefuses, Refuse, NoGrant
  <1>13. ASSUME NEW c \in Caller, AnswerLost(c) PROVE SessionInv'
    BY <1>13 DEF AnswerLost, Refuse, NoGrant
  <1>14. CASE Tick
    <2>1. /\ now' = now + 1
          /\ UNCHANGED <<credential, cache, renewal, session, pc, aud, grant,
                         provider, lateGrants>>
      BY <1>14 DEF Tick
    <2>2. ASSUME NEW c \in Caller, pc[c] = "granting"
          PROVE  ~IsValid(cache[aud[c]])'
      <3>1. cache[aud[c]] \in Token /\ ~IsValid(cache[aud[c]])
        BY <2>2
      <3>2. QED
        BY <2>1, <3>1 DEF Token
    <2>3. QED
      BY <2>1, <2>2
  <1>15. CASE UNCHANGED vars
    BY <1>15 DEF vars
  <1>16. QED
    BY <1>1, <1>2, <1>3, <1>4, <1>5, <1>6, <1>7, <1>8, <1>9, <1>10, <1>11,
       <1>12, <1>13, <1>14, <1>15 DEF Next, Get, Answer

\* The lock, the checks made under it and the late grants, at all times.
LEMMA SessionInvariant == Spec => []SessionInv
  BY InitSession, StepSession, TypeCorrect, PTL DEF Spec

(***************************************************************************)
(* At most one token request is in flight, for any number of callers and   *)
(* audiences: the renewal lock is held from before the request leaves      *)
(* until its answer is handled, on every path out of get_token.            *)
(***************************************************************************)
THEOREM RenewalsExclude == Spec => []SingleFlight
  <1>1. TypeOK /\ SessionInv => SingleFlight
    BY DEF SessionInv, LockInv, SingleFlight, Holding
  <1>2. QED
    BY <1>1, TypeCorrect, SessionInvariant, PTL

(***************************************************************************)
(* Nobody renews a token that is still good, whatever happened while it    *)
(* queued.                                                                 *)
(***************************************************************************)
THEOREM RenewalsNeeded == Spec => []GrantOnlyWhenStale
  <1>1. TypeOK /\ SessionInv => GrantOnlyWhenStale
    BY DEF SessionInv, LockInv, CheckedInv, GrantOnlyWhenStale, TypeOK, NoGrant
  <1>2. QED
    BY <1>1, TypeCorrect, SessionInvariant, PTL

(***************************************************************************)
(* Nobody asks for an audience whose consent is missing, also if it went   *)
(* missing while the caller queued; and after re-authentication is         *)
(* required at most one more request leaves, however many callers were     *)
(* queued when it was.                                                     *)
(***************************************************************************)
THEOREM EndedSessionsRest == Spec => []EndedSessionLeftAlone
  <1>1. TypeOK /\ SessionInv => GrantHasConsent
    BY DEF SessionInv, LockInv, CheckedInv, GrantHasConsent, TypeOK, NoGrant
  <1>2. SessionInv => ReauthStopsGrants
    BY DEF SessionInv, LateInv, ReauthStopsGrants
  <1>3. TypeOK /\ SessionInv => EndedSessionLeftAlone
    BY <1>1, <1>2 DEF EndedSessionLeftAlone
  <1>4. QED
    BY <1>3, TypeCorrect, SessionInvariant, PTL

(***************************************************************************)
(* The reason for re-authentication never changes once it is set: a failed *)
(* renewal and a claims challenge, which alone can set one, both leave the *)
(* one they find.                                                          *)
(***************************************************************************)
THEOREM ReauthStays == Spec => ReauthSetOnce
  <1>1. [Next]_vars => [reauth # "unset" => reauth' = reauth]_vars
    <2>1. ASSUME NEW c \in Caller, ReceiveError(c) \/ FinishUse(c)
          PROVE  reauth # "unset" => reauth' = reauth
      BY <2>1 DEF ReceiveError, FinishUse, SetReauth
    <2>2. ASSUME NEW c \in Caller,
                 \/ CacheHit(c) \/ CacheMiss(c) \/ Acquire(c)
                 \/ RecheckSession(c) \/ RecheckHit(c)
                 \/ SendGrant(c) \/ ReceiveToken(c)
                 \/ \E a \in Audience : Begin(c, a)
          PROVE  reauth' = reauth
      BY <2>2 DEF CacheHit, CacheMiss, Acquire, RecheckSession, RecheckHit,
                  SendGrant, ReceiveToken, Begin, session
    <2>3. ASSUME (\E c \in Caller : Answer(c)) \/ Tick PROVE reauth' = reauth
      BY <2>3 DEF Answer, ProviderGrants, ProviderRefuses, AnswerLost, Tick,
                  session
    <2>4. QED
      BY <2>1, <2>2, <2>3 DEF Next, Get, vars, session
  <1>2. QED
    BY <1>1, PTL DEF Spec, ReauthSetOnce

-----------------------------------------------------------------------------
(***************************************************************************)
(* The queue for the renewal lock.                                         *)
(***************************************************************************)

\* The queue holds the calls that wait, each once.
QueueInv ==
    /\ \A i \in 1 .. Len(waiters) : pc[waiters[i]] = "waiting"
    /\ \A i, j \in 1 .. Len(waiters) : waiters[i] = waiters[j] => i = j
    /\ \A c \in Caller : pc[c] = "waiting"
                           => \E i \in 1 .. Len(waiters) : waiters[i] = c

\* Nobody waits at the start.
LEMMA InitQueue == Init => QueueInv
  BY DEF Init, QueueInv

\* A step that changes neither the queue nor who waits.
LEMMA QueueKept ==
    ASSUME TypeOK, QueueInv, waiters' = waiters,
           \A d \in Caller : pc'[d] = "waiting" <=> pc[d] = "waiting"
    PROVE  QueueInv'
  BY DEF TypeOK, QueueInv

\* Every step keeps the queue and the calls that wait the same.
LEMMA StepQueue == TypeOK /\ QueueInv /\ [Next]_vars => QueueInv'
  <1> SUFFICES ASSUME TypeOK, QueueInv, [Next]_vars PROVE QueueInv'
    OBVIOUS
  <1> USE DEF TypeOK, renewal
  <1>1. ASSUME NEW c \in Caller, CacheMiss(c) PROVE QueueInv'
    <2>1. /\ pc[c] = "checked"
          /\ pc' = [pc EXCEPT ![c] = "waiting"]
          /\ waiters' = Append(waiters, c)
      BY <1>1 DEF CacheMiss
    <2>2. /\ Len(waiters') = Len(waiters) + 1
          /\ \A i \in 1 .. Len(waiters) : waiters'[i] = waiters[i]
          /\ waiters'[Len(waiters) + 1] = c
      BY <2>1
    <2>3. \A i \in 1 .. Len(waiters) : waiters[i] \in Caller /\ waiters[i] # c
      BY <2>1 DEF QueueInv
    <2>4. \A i \in 1 .. Len(waiters') : pc'[waiters'[i]] = "waiting"
      <3>1. \A i \in 1 .. Len(waiters) : pc'[waiters'[i]] = "waiting"
        BY <2>1, <2>2, <2>3 DEF QueueInv
      <3>2. pc'[waiters'[Len(waiters) + 1]] = "waiting"
        BY <2>1, <2>2
      <3>3. QED
        BY <2>2, <3>1, <3>2
    <2>5. \A i, j \in 1 .. Len(waiters') : waiters'[i] = waiters'[j] => i = j
      <3>1. \A i \in 1 .. Len(waiters') :
              i \in 1 .. Len(waiters) \/ i = Len(waiters) + 1
        BY <2>2
      <3>2. QED
        BY <2>2, <2>3, <3>1 DEF QueueInv
    <2>6. ASSUME NEW d \in Caller, pc'[d] = "waiting"
          PROVE  \E i \in 1 .. Len(waiters') : waiters'[i] = d
      <3>1. CASE d = c
        BY <2>2, <3>1
      <3>2. CASE d # c
        <4>1. PICK i \in 1 .. Len(waiters) : waiters[i] = d
          BY <2>1, <2>6, <3>2 DEF QueueInv
        <4>2. i \in 1 .. Len(waiters') /\ waiters'[i] = d
          BY <2>2, <4>1
        <4>3. QED
          BY <4>2
      <3>3. QED
        BY <3>1, <3>2
    <2>7. QED
      BY <2>4, <2>5, <2>6 DEF QueueInv
  <1>2. ASSUME NEW c \in Caller, Acquire(c) PROVE QueueInv'
    <2>1. /\ waiters # <<>> /\ waiters[1] = c
          /\ pc' = [pc EXCEPT ![c] = "locked"]
          /\ waiters' = Tail(waiters)
      BY <1>2 DEF Acquire
    <2>2. /\ Len(waiters) \in Nat \ {0} /\ Len(waiters') = Len(waiters) - 1
          /\ \A i \in 1 .. Len(waiters') : waiters'[i] = waiters[i + 1]
      BY <2>1
    <2>3. \A i \in 2 .. Len(waiters) :
            waiters[i] \in Caller /\ waiters[i] # c
      BY <2>1, <2>2 DEF QueueInv
    <2>4. ASSUME NEW d \in Caller, pc'[d] = "waiting"
          PROVE  \E i \in 1 .. Len(waiters') : waiters'[i] = d
      <3>1. pc[d] = "waiting" /\ d # c
        BY <2>1, <2>4
      <3>2. PICK i \in 1 .. Len(waiters) : waiters[i] = d
        BY <3>1 DEF QueueInv
      <3>3. i - 1 \in 1 .. Len(waiters') /\ waiters'[i - 1] = d
        BY <2>1, <2>2, <3>1, <3>2
      <3>4. QED
        BY <3>3
    <2>5. \A i \in 1 .. Len(waiters') : pc'[waiters'[i]] = "waiting"
      BY <2>1, <2>2, <2>3 DEF QueueInv
    <2>6. \A i, j \in 1 .. Len(waiters') : waiters'[i] = waiters'[j] => i = j
      BY <2>2 DEF QueueInv
    <2>7. QED
      BY <2>4, <2>5, <2>6 DEF QueueInv
  <1>3. ASSUME NEW c \in Caller,
               \/ \E a \in Audience : Begin(c, a)
               \/ CacheHit(c) \/ RecheckSession(c) \/ RecheckHit(c)
               \/ SendGrant(c) \/ ReceiveToken(c) \/ ReceiveError(c)
               \/ FinishUse(c)
        PROVE  QueueInv'
    BY <1>3, QueueKept DEF Begin, CacheHit, RecheckSession, RecheckHit,
       SendGrant, ReceiveToken, ReceiveError, FinishUse, Return
  <1>4. ASSUME \/ \E c \in Caller : Answer(c)
               \/ Tick
               \/ UNCHANGED vars
        PROVE  QueueInv'
    BY <1>4, QueueKept DEF Answer, ProviderGrants, ProviderRefuses,
       AnswerLost, Tick, vars
  <1>5. QED
    BY <1>1, <1>2, <1>3, <1>4 DEF Next, Get

\* The holder of the lock is at work under it, and the first in the queue is a
\* call that waits.
LEMMA HeadWaits ==
    ASSUME TypeOK, SessionInv, QueueInv
    PROVE  NoneStranded
  <1> SUFFICES ASSUME NEW c \in Caller, pc[c] = "waiting"
               PROVE  /\ \E i \in 1 .. Len(waiters) : waiters[i] = c
                      /\ \/ lock # Free /\ pc[lock] \in Holding
                         \/ lock = Free /\ pc[Head(waiters)] = "waiting"
    BY DEF NoneStranded
  <1>1. \E i \in 1 .. Len(waiters) : waiters[i] = c
    BY DEF QueueInv
  <1>2. Head(waiters) = waiters[1] /\ 1 \in 1 .. Len(waiters)
    BY <1>1 DEF TypeOK
  <1>3. lock # Free => pc[lock] \in Holding
    BY DEF TypeOK, SessionInv, LockInv
  <1>4. QED
    BY <1>1, <1>2, <1>3 DEF QueueInv

(***************************************************************************)
(* No call is stranded in front of the renewal lock, however many there    *)
(* are: whenever one waits, the holder of the lock has a step to take, or  *)
(* the first of the queue has.                                             *)
(***************************************************************************)
THEOREM NobodyStranded == Spec => []NoneStranded
  BY HeadWaits, InitQueue, StepQueue, TypeCorrect, SessionInvariant, PTL
     DEF Spec

-----------------------------------------------------------------------------
(***************************************************************************)
(* The refresh token.                                                      *)
(***************************************************************************)

\* A rotated token on its way is the newest there is: no other grant can have
\* been made since.
RotationInv ==
    /\ refresh <= issued
    /\ \A c \in Caller : grant[c].state = "granted"
                            => grant[c].rotated \in {0, issued}
    /\ RefreshTokenNewest

\* The first refresh token is the one the session holds.
LEMMA InitRotation == Init => RotationInv
  BY DEF Init, RotationInv, RefreshTokenNewest, NoGrant

\* Every step keeps the session's refresh token the newest, on its way or lost.
LEMMA StepRotation ==
    TypeOK /\ SessionInv /\ RotationInv /\ [Next]_vars => RotationInv'
  <1> SUFFICES ASSUME TypeOK, SessionInv, RotationInv, [Next]_vars
               PROVE  RotationInv'
    OBVIOUS
  <1>a. \A c, d \in Caller :
          grant[c].state # "none" /\ grant[d].state # "none" => c = d
    BY DEF SessionInv, LockInv, Holding, TypeOK, NoGrant
  <1>b. \A c \in Caller : grant[c].state = "granted" => grant[c].rotated \in Nat
    BY GrantFields DEF TypeOK
  <1> USE DEF RotationInv, RefreshTokenNewest, TypeOK, renewal, session,
              provider
  <1>1. ASSUME NEW c \in Caller, ReceiveToken(c) PROVE RotationInv'
    <2>1. /\ grant[c].rotated \in {0, issued}
          /\ \A d \in Caller : grant'[d].state = "granted" => FALSE
      BY <1>1, <1>a DEF ReceiveToken, NoGrant
    <2>2. issued' = issued
      BY <1>1 DEF ReceiveToken
    <2>3. CASE grant[c].rotated = 0
      BY <1>1, <1>a, <1>b, <2>1, <2>2, <2>3 DEF ReceiveToken, Rotate, NoGrant
    <2>4. CASE grant[c].rotated # 0
      BY <1>1, <2>1, <2>2, <2>4 DEF ReceiveToken, Rotate
    <2>5. QED
      BY <2>3, <2>4
  <1>2. ASSUME NEW c \in Caller, ReceiveError(c) PROVE RotationInv'
    BY <1>2, <1>a DEF ReceiveError, NoGrant
  <1>3. ASSUME NEW c \in Caller, ProviderGrants(c) PROVE RotationInv'
    <2>1. PICK life \in Lifetime, gen \in {0, issued + 1} :
            /\ issued' = IF gen = 0 THEN issued ELSE gen
            /\ grant' = [grant EXCEPT ![c] =
                           [state |-> "granted",
                            presented |-> grant[c].presented,
                            at |-> now, life |-> life, rotated |-> gen]]
      BY <1>3 DEF ProviderGrants
    <2>2. \A d \in Caller : d # c => grant'[d].state = "none"
      <3>1. grant[c].state = "sent"
        BY <1>3 DEF ProviderGrants
      <3>2. \A d \in Caller : grant[d] \in Grant
        OBVIOUS
      <3>3. QED
        BY <1>a, <2>1, <3>1, <3>2 DEF Grant, NoGrant
    <2>3. grant'[c].rotated = gen /\ grant'[c].state = "granted"
      BY <2>1
    <2>4. refresh' = refresh /\ lostNewest' = lostNewest
      BY <1>3 DEF ProviderGrants
    <2>5. CASE gen = 0
      <3>1. refresh = issued \/ lostNewest
        BY <1>3, <1>a DEF ProviderGrants
      <3>2. QED
        BY <2>1, <2>2, <2>3, <2>4, <2>5, <3>1
    <2>6. CASE gen = issued + 1
      BY <2>1, <2>2, <2>3, <2>4, <2>6
    <2>7. QED
      BY <2>5, <2>6
  <1>4. ASSUME NEW c \in Caller, ProviderRefuses(c) PROVE RotationInv'
    BY <1>4, <1>a DEF ProviderRefuses, Refuse
  <1>5. ASSUME NEW c \in Caller, AnswerLost(c) PROVE RotationInv'
    <2>1. /\ issued' = issued /\ refresh' = refresh
          /\ lostNewest' = (lostNewest \/ grant[c].rotated # 0)
          /\ grant[c].state = "granted"
      BY <1>5 DEF AnswerLost
    <2>2. \A d \in Caller : grant'[d].state # "granted"
      BY <1>5, <1>a DEF AnswerLost, Refuse
    <2>3. refresh' = issued' \/ lostNewest'
      <3>1. CASE grant[c].rotated # 0
        BY <2>1, <3>1
      <3>2. CASE grant[c].rotated = 0
        <4>1. refresh = issued \/ lostNewest
          BY <1>a, <2>1, <3>2
        <4>2. QED
          BY <2>1, <4>1
      <3>3. QED
        BY <3>1, <3>2
    <2>4. QED
      BY <2>1, <2>2, <2>3
  <1>6. ASSUME NEW c \in Caller, SendGrant(c) PROVE RotationInv'
    <2>1. grant[c].state = "none"
      BY <1>6 DEF SendGrant, SessionInv, LockInv, NoGrant
    <2>2. QED
      BY <1>6, <2>1 DEF SendGrant
  <1>7. ASSUME NEW c \in Caller,
               \/ \E a \in Audience : Begin(c, a)
               \/ CacheHit(c) \/ CacheMiss(c) \/ Acquire(c)
               \/ RecheckSession(c) \/ RecheckHit(c) \/ FinishUse(c)
        PROVE  RotationInv'
    BY <1>7 DEF Begin, CacheHit, CacheMiss, Acquire, RecheckSession,
                RecheckHit, FinishUse
  <1>8. CASE Tick
    BY <1>8 DEF Tick
  <1>9. CASE UNCHANGED vars
    BY <1>9 DEF vars
  <1>10. QED
    BY <1>1, <1>2, <1>3, <1>4, <1>5, <1>6, <1>7, <1>8, <1>9
       DEF Next, Get, Answer

(***************************************************************************)
(* The session holds the newest refresh token issued, unless it is on its  *)
(* way or its answer was lost.                                             *)
(***************************************************************************)
THEOREM RefreshTokenKept == Spec => []RefreshTokenNewest
  <1>1. RotationInv => RefreshTokenNewest
    BY DEF RotationInv
  <1>2. QED
    BY <1>1, InitRotation, StepRotation, TypeCorrect, SessionInvariant, PTL
       DEF Spec

-----------------------------------------------------------------------------
(***************************************************************************)
(* The expiry margin.                                                      *)
(***************************************************************************)

\* The server's expiry is late by no more than the answer took to arrive.
ExpiryInv ==
    /\ \A a \in Audience : cache[a].expires <= cache[a].dies + MaxLatency
    /\ \A c \in Caller : grant[c].state = "granted"
                            => now <= grant[c].at + MaxLatency

\* So it is with the tokens sign_in_user left.
LEMMA InitExpiry == Init => ExpiryInv
  <1> SUFFICES ASSUME Init PROVE ExpiryInv
    OBVIOUS
  <1>1. \A a \in Audience : cache[a] = NoToken \/ cache[a] \in FirstToken
    BY DEF Init, InitCredential
  <1>2. \A a \in Audience : cache[a].expires <= cache[a].dies + MaxLatency
    BY <1>1, FirstTokens, TokenAssumption DEF NoToken
  <1>3. QED
    BY <1>2 DEF Init, ExpiryInv, NoGrant

\* Every step keeps what the session reckons within the latency of the truth.
LEMMA StepExpiry == TypeOK /\ ExpiryInv /\ [Next]_vars => ExpiryInv'
  <1> SUFFICES ASSUME TypeOK, ExpiryInv, [Next]_vars PROVE ExpiryInv'
    OBVIOUS
  <1>a. \A c \in Caller : grant[c].state = "granted" => grant[c].at \in Nat
    BY GrantFields DEF TypeOK
  <1> USE TokenAssumption DEF ExpiryInv, TypeOK, renewal, session, provider
  <1>1. ASSUME NEW c \in Caller, ReceiveToken(c) PROVE ExpiryInv'
    <2>1. /\ grant[c].life \in Nat
          /\ grant[c].at \in Nat
          /\ now <= grant[c].at + MaxLatency
      BY <1>1, GrantFields DEF ReceiveToken
    <2>2. \A a \in Audience : cache'[a].expires <= cache'[a].dies + MaxLatency
      BY <1>1, <2>1 DEF ReceiveToken, CacheToken
    <2>3. \A d \in Caller : grant'[d].state = "granted"
                               => grant'[d] = grant[d]
      BY <1>1 DEF ReceiveToken, NoGrant
    <2>4. QED
      BY <1>1, <2>2, <2>3 DEF ReceiveToken
  <1>2. ASSUME NEW c \in Caller, ReceiveError(c) PROVE ExpiryInv'
    BY <1>2 DEF ReceiveError, NoGrant
  <1>3. ASSUME NEW c \in Caller, ProviderGrants(c) PROVE ExpiryInv'
    BY <1>3 DEF ProviderGrants
  <1>4. ASSUME NEW c \in Caller, ProviderRefuses(c) \/ AnswerLost(c)
        PROVE  ExpiryInv'
    BY <1>4 DEF ProviderRefuses, AnswerLost, Refuse
  <1>5. ASSUME NEW c \in Caller, SendGrant(c) PROVE ExpiryInv'
    BY <1>5 DEF SendGrant
  <1>6. ASSUME NEW c \in Caller,
               \/ \E a \in Audience : Begin(c, a)
               \/ CacheHit(c) \/ CacheMiss(c) \/ Acquire(c)
               \/ RecheckSession(c) \/ RecheckHit(c) \/ FinishUse(c)
        PROVE  ExpiryInv'
    BY <1>6 DEF Begin, CacheHit, CacheMiss, Acquire, RecheckSession,
                RecheckHit, FinishUse
  <1>7. CASE Tick
    BY <1>7, <1>a DEF Tick
  <1>8. CASE UNCHANGED vars
    BY <1>8 DEF vars
  <1>9. QED
    BY <1>1, <1>2, <1>3, <1>4, <1>5, <1>6, <1>7, <1>8 DEF Next, Get, Answer

(***************************************************************************)
(* A token served from the cache has been dead at the provider for less    *)
(* than the client's timeout exceeds the margin, however the answers that  *)
(* brought the tokens were delayed; it is alive if they came within the    *)
(* margin.                                                                 *)
(***************************************************************************)
THEOREM CachedTokensFresh == Spec => []DeadTokenBounded
  <1>1. ASSUME TypeOK, ExpiryInv PROVE DeadTokenBounded
    <2> SUFFICES ASSUME NEW a \in Audience, IsValid(cache[a])
                 PROVE  now + Buffer < cache[a].dies + MaxLatency
      BY DEF DeadTokenBounded
    <2>1. /\ cache[a].expires \in Nat
          /\ cache[a].dies \in Int
          /\ cache[a].expires <= cache[a].dies + MaxLatency
      BY <1>1 DEF TypeOK, Token, ExpiryInv
    <2>2. QED
      BY <1>1, <2>1, TokenAssumption DEF IsValid, TypeOK
  <1>2. QED
    BY <1>1, InitExpiry, StepExpiry, TypeCorrect, PTL DEF Spec

====
