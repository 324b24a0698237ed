---------------------------- MODULE TokenManager ----------------------------
(***************************************************************************)
(* The access-token manager every tool call goes through (auth.rs), with   *)
(* the delegated session it renews (auth/session.rs) and the use a client  *)
(* call makes of the token it is given (client.rs).                        *)
(*                                                                         *)
(* A caller is one tool call: it asks for a token for one audience, holds  *)
(* it while the API answers, and ends.  Callers are tokio tasks and        *)
(* interleave at every step below; the two audiences share one renewal     *)
(* lock.  The identity provider and the network are external.              *)
(***************************************************************************)
EXTENDS Integers, Sequences

CONSTANTS
    Caller,        \* the tool calls that can be in progress at once
    Audience,      \* the APIs a token is for: Endpoint and Graph
    Buffer,        \* TOKEN_EXPIRY_BUFFER_SECS, in ticks
    Lifetime,      \* the expires_in values the provider can answer with
    MaxLatency,    \* REQUEST_TIMEOUT_SECS, the HTTP client's timeout, in ticks
    ProviderReason, \* the reasons a refused refresh token gives for signing
                   \* in again: SessionExpired, MfaRequired,
                   \* InteractionRequired, SessionRevoked
    Free,          \* the value of the renewal lock when no task holds it
    NoAudience,    \* the audience of a caller that asks for no token
    MaxTime,       \* bound on the clock
    MaxRefresh     \* bound on the refresh tokens the provider issues

ASSUME TokenAssumption ==
    /\ Free \notin Caller
    /\ NoAudience \notin Audience
    /\ ProviderReason \cap {"unset", "consent", "failed"} = {}
    /\ Buffer \in Nat
    /\ Lifetime \subseteq Nat
    /\ MaxLatency \in Nat
    /\ MaxTime \in Nat
    /\ MaxRefresh \in Nat

VARIABLES
    now,         \* the wall clock, in ticks
    credential,  \* "ClientSecret" (app mode) or "Delegated" (user mode)
    cache,       \* the cached token of each audience, or NoToken
    lock,        \* the holder of refresh_lock, or Free
    waiters,     \* the tasks waiting for refresh_lock, first come first served
    reauth,      \* the session's reauth cell: "unset" or the first reason set
    consent,     \* the session's consent state of each audience
    refresh,     \* the refresh token the session holds, as its generation
    pc,          \* where each caller is
    aud,         \* the audience each caller asks for
    grant,       \* the token request each caller has in flight, or NoGrant
    issued,      \* provider: generation of the newest refresh token it issued
    lostNewest,  \* history: the newest refresh token was in a lost answer
    lateGrants   \* history: grants sent after reauth was set

session == <<reauth, consent, refresh>>
renewal == <<lock, waiters>>
provider == <<issued, lostNewest>>
vars == <<now, credential, cache, lock, waiters, reauth, consent, refresh,
          pc, aud, grant, issued, lostNewest, lateGrants>>

-----------------------------------------------------------------------------

NoToken == [expires |-> 0, dies |-> 0]

\* "expires" is what the server computed when it received the token, "dies"
\* when the token really stops being accepted.
Token == [expires : Nat, dies : Int]

ReauthReason == ProviderReason \cup {"ConditionalAccess"}

\* What a grant can end with: a token, one of the endpoint errors the manager
\* tells apart, or a failure it does not ("failed": HTTP error, unusable body,
\* network error, the client's timeout).
GrantError == ProviderReason \cup {"consent", "failed"}

NoGrant == [state |-> "none"]

Grant ==
    {NoGrant}
        \cup [state : {"sent"}, presented : Nat]
        \cup [state : {"granted"}, presented : Nat, at : Nat,
              life : Lifetime, rotated : Nat]
        \cup [state : {"refused"}, presented : Nat, error : GrantError]

\* Where a caller that holds the renewal lock can be.
Holding == {"locked", "rechecked", "granting"}

PC == {"idle", "checked", "waiting", "using"} \cup Holding

TypeOK ==
    /\ now \in Nat
    /\ credential \in {"ClientSecret", "Delegated"}
    /\ cache \in [Audience -> Token]
    /\ lock \in Caller \cup {Free}
    /\ waiters \in Seq(Caller)
    /\ reauth \in {"unset"} \cup ReauthReason
    /\ consent \in [Audience -> {"Granted", "Missing"}]
    /\ refresh \in Nat
    /\ pc \in [Caller -> PC]
    /\ aud \in [Caller -> Audience \cup {NoAudience}]
    /\ grant \in [Caller -> Grant]
    /\ issued \in Nat
    /\ lostNewest \in BOOLEAN
    /\ lateGrants \in Nat

-----------------------------------------------------------------------------

Delegated == credential = "Delegated"

\* Mutant: no safety margin.
IsValidToTheEnd(token) == now < token.expires

IsValid(token) == now + Buffer < token.expires

\* The check get_token makes first, and again under the lock.
MayAcquire(a) == Delegated => reauth = "unset" /\ consent[a] # "Missing"

\* Mutant: the last reason wins.
SetReauthAgain(reason) ==
    reauth' = IF Delegated THEN reason ELSE reauth

\* OnceLock: the first reason stays.
SetReauth(reason) ==
    reauth' = IF Delegated /\ reauth = "unset" THEN reason ELSE reauth

\* A token the sign-in obtained just before the start: its answer, too, may
\* have taken some time.
FirstToken == {[expires |-> life, dies |-> life - late] :
                 life \in Lifetime, late \in 0 .. MaxLatency}

\* App mode starts with an empty cache; user mode with what sign_in_user left:
\* a fresh token for every audience that has consent, and at least one has.
InitCredential ==
    \/ /\ credential = "ClientSecret"
       /\ cache = [a \in Audience |-> NoToken]
       /\ consent = [a \in Audience |-> "Granted"]
    \/ /\ credential = "Delegated"
       /\ consent \in [Audience -> {"Granted", "Missing"}]
       /\ \E a \in Audience : consent[a] = "Granted"
       /\ \E first \in [Audience -> FirstToken] :
            cache = [a \in Audience |->
                       IF consent[a] = "Granted" THEN first[a] ELSE NoToken]

Init ==
    /\ InitCredential
    /\ now = 0
    /\ lock = Free
    /\ waiters = <<>>
    /\ reauth = "unset"
    /\ refresh = 0
    /\ pc = [c \in Caller |-> "idle"]
    /\ aud = [c \in Caller |-> NoAudience]
    /\ grant = [c \in Caller |-> NoGrant]
    /\ issued = 0
    /\ lostNewest = FALSE
    /\ lateGrants = 0

-----------------------------------------------------------------------------
(***************************************************************************)
(* get_token, step by step.  Each action is the code between two awaits or *)
(* between two reads of state another task may change.                     *)
(***************************************************************************)

\* Mutant: an early return that leaves the lock held.
ReturnHolding(c, place) ==
    /\ pc' = [pc EXCEPT ![c] = place]
    /\ aud' = [aud EXCEPT ![c] = NoAudience]
    /\ UNCHANGED renewal

\* get_token returns: the lock guard, if the caller has it, is dropped.
Return(c, place) ==
    /\ pc' = [pc EXCEPT ![c] = place]
    /\ aud' = [aud EXCEPT ![c] = NoAudience]
    /\ lock' = IF lock = c THEN Free ELSE lock
    /\ UNCHANGED waiters

\* A call whose first check fails returns at once and changes nothing, so only
\* a call that passes it is a step.
Begin(c, a) ==
    /\ pc[c] = "idle"
    /\ MayAcquire(a)
    /\ pc' = [pc EXCEPT ![c] = "checked"]
    /\ aud' = [aud EXCEPT ![c] = a]
    /\ UNCHANGED <<now, credential, cache, renewal, session, grant, provider,
                   lateGrants>>

CacheHit(c) ==
    /\ pc[c] = "checked"
    /\ IsValid(cache[aud[c]])
    /\ Return(c, "using")
    /\ UNCHANGED <<now, credential, cache, session, grant, provider,
                   lateGrants>>

CacheMiss(c) ==
    /\ pc[c] = "checked"
    /\ ~IsValid(cache[aud[c]])
    /\ pc' = [pc EXCEPT ![c] = "waiting"]
    /\ waiters' = Append(waiters, c)
    /\ UNCHANGED <<now, credential, cache, lock, session, aud, grant, provider,
                   lateGrants>>

\* Mutant: the lock does not exclude.
AcquireShared(c) ==
    /\ pc[c] = "waiting"
    /\ waiters # <<>>
    /\ Head(waiters) = c
    /\ lock' = c
    /\ waiters' = Tail(waiters)
    /\ pc' = [pc EXCEPT ![c] = "locked"]
    /\ UNCHANGED <<now, credential, cache, session, aud, grant, provider,
                   lateGrants>>

\* tokio's Mutex hands itself to the task that has waited longest.
Acquire(c) ==
    /\ pc[c] = "waiting"
    /\ lock = Free
    /\ waiters # <<>>
    /\ Head(waiters) = c
    /\ lock' = c
    /\ waiters' = Tail(waiters)
    /\ pc' = [pc EXCEPT ![c] = "locked"]
    /\ UNCHANGED <<now, credential, cache, session, aud, grant, provider,
                   lateGrants>>

\* Mutant: the session is not looked at again under the lock.
RecheckNothing(c) ==
    /\ pc[c] = "locked"
    /\ pc' = [pc EXCEPT ![c] = "rechecked"]
    /\ UNCHANGED <<now, credential, cache, renewal, session, aud, grant,
                   provider, lateGrants>>

RecheckSession(c) ==
    /\ pc[c] = "locked"
    /\ IF MayAcquire(aud[c])
       THEN /\ pc' = [pc EXCEPT ![c] = "rechecked"]
            /\ UNCHANGED <<renewal, aud>>
       ELSE Return(c, "idle")
    /\ UNCHANGED <<now, credential, cache, session, grant, provider,
                   lateGrants>>

RecheckHit(c) ==
    /\ pc[c] = "rechecked"
    /\ IsValid(cache[aud[c]])
    /\ Return(c, "using")
    /\ UNCHANGED <<now, credential, cache, session, grant, provider,
                   lateGrants>>

\* Mutant: the cache is not looked at again under the lock.
SendGrantBlindly(c) ==
    /\ pc[c] = "rechecked"
    /\ pc' = [pc EXCEPT ![c] = "granting"]
    /\ grant' = [grant EXCEPT ![c] = [state |-> "sent", presented |-> refresh]]
    /\ lateGrants' = IF reauth = "unset" THEN lateGrants ELSE lateGrants + 1
    /\ UNCHANGED <<now, credential, cache, renewal, session, aud, provider>>

\* fetch_app_token or refresh_token_grant: the request leaves.  A refresh
\* grant carries the refresh token the session holds at this moment.
SendGrant(c) ==
    /\ pc[c] = "rechecked"
    /\ ~IsValid(cache[aud[c]])
    /\ pc' = [pc EXCEPT ![c] = "granting"]
    /\ grant' = [grant EXCEPT ![c] = [state |-> "sent", presented |-> refresh]]
    /\ lateGrants' = IF reauth = "unset" THEN lateGrants ELSE lateGrants + 1
    /\ UNCHANGED <<now, credential, cache, renewal, session, aud, provider>>

\* Mutant: the margin is taken off when the token is cached, below zero if the
\* lifetime is shorter.
CacheTokenEarly(c, life, at) ==
    cache' = [cache EXCEPT ![aud[c]] =
                [expires |-> now + life - Buffer, dies |-> at + life]]

\* The expiry is reckoned from the receipt of the answer.
CacheToken(c, life, at) ==
    cache' = [cache EXCEPT ![aud[c]] =
                [expires |-> now + life, dies |-> at + life]]

\* Mutant: a rotated refresh token is not kept.
KeepOldRefresh(g) == UNCHANGED <<refresh, lostNewest>>

\* A refresh token in the answer replaces the one held (none comes in app mode).
Rotate(g) ==
    /\ refresh' = IF g.rotated = 0 THEN refresh ELSE g.rotated
    /\ lostNewest' = (lostNewest /\ g.rotated = 0)

\* The token is cached and returned even when it is too short-lived to be
\* valid in the cache.
ReceiveToken(c) ==
    /\ pc[c] = "granting"
    /\ grant[c].state = "granted"
    /\ CacheToken(c, grant[c].life, grant[c].at)
    /\ Rotate(grant[c])
    /\ grant' = [grant EXCEPT ![c] = NoGrant]
    /\ Return(c, "using")
    /\ UNCHANGED <<now, credential, reauth, consent, issued, lateGrants>>

\* A refusal sets the session's reauth cell, marks consent missing for this
\* audience alone, or is passed on and leaves the session as it is.
ReceiveError(c) ==
    /\ pc[c] = "granting"
    /\ grant[c].state = "refused"
    /\ IF grant[c].error \in ReauthReason
       THEN SetReauth(grant[c].error)
       ELSE UNCHANGED reauth
    /\ consent' = IF grant[c].error = "consent"
                  THEN [consent EXCEPT ![aud[c]] = "Missing"] ELSE consent
    /\ grant' = [grant EXCEPT ![c] = NoGrant]
    /\ Return(c, "idle")
    /\ UNCHANGED <<now, credential, cache, refresh, provider, lateGrants>>

\* The API call the token was for ends.  A 401 whose challenge says
\* insufficient_claims sets the reauth cell; any other answer, a plain 401
\* included, leaves the manager as it is.
FinishUse(c) ==
    /\ pc[c] = "using"
    /\ \/ UNCHANGED reauth
       \/ SetReauth("ConditionalAccess")
    /\ pc' = [pc EXCEPT ![c] = "idle"]
    /\ UNCHANGED <<now, credential, cache, renewal, consent, refresh, aud,
                   grant, provider, lateGrants>>

-----------------------------------------------------------------------------
(***************************************************************************)
(* The identity provider and the network.                                  *)
(***************************************************************************)

\* The provider grants a token and may rotate the refresh token.
ProviderGrants(c) ==
    /\ grant[c].state = "sent"
    /\ \E life \in Lifetime, gen \in {0, issued + 1} :
        /\ gen # 0 => Delegated /\ issued < MaxRefresh
        /\ issued' = IF gen = 0 THEN issued ELSE gen
        /\ grant' = [grant EXCEPT ![c] =
                       [state |-> "granted", presented |-> grant[c].presented,
                        at |-> now, life |-> life, rotated |-> gen]]
    /\ UNCHANGED <<now, credential, cache, renewal, session, pc, aud,
                   lostNewest, lateGrants>>

Refuse(c, error) ==
    grant' = [grant EXCEPT ![c] =
                [state |-> "refused", presented |-> grant[c].presented,
                 error |-> error]]

\* The provider refuses, or the request is lost.  In app mode every failure is
\* alike; the errors of the session concern only a refresh token.
ProviderRefuses(c) ==
    /\ grant[c].state = "sent"
    /\ \E error \in GrantError :
        /\ error # "failed" => Delegated
        /\ Refuse(c, error)
    /\ UNCHANGED <<now, credential, cache, renewal, session, pc, aud, provider,
                   lateGrants>>

\* The provider's answer is lost or unusable, and with it a rotated token.
AnswerLost(c) ==
    /\ grant[c].state = "granted"
    /\ Refuse(c, "failed")
    /\ lostNewest' = (lostNewest \/ grant[c].rotated # 0)
    /\ UNCHANGED <<now, credential, cache, renewal, session, pc, aud, issued,
                   lateGrants>>

\* The client gives up a request after MaxLatency, so that is how old an answer
\* can be when it is received: longer than the buffer, if the code's are meant.
Tick ==
    /\ now < MaxTime
    /\ \A c \in Caller :
         grant[c].state = "granted" => now < grant[c].at + MaxLatency
    /\ now' = now + 1
    /\ UNCHANGED <<credential, cache, renewal, session, pc, aud, grant,
                   provider, lateGrants>>

Get(c) ==
    \/ CacheHit(c)
    \/ CacheMiss(c)
    \/ Acquire(c)
    \/ RecheckSession(c)
    \/ RecheckHit(c)
    \/ SendGrant(c)
    \/ ReceiveToken(c)
    \/ ReceiveError(c)
    \/ FinishUse(c)

Answer(c) ==
    \/ ProviderGrants(c)
    \/ ProviderRefuses(c)
    \/ AnswerLost(c)

Next ==
    \/ \E c \in Caller :
        \/ \E a \in Audience : Begin(c, a)
        \/ Get(c)
        \/ Answer(c)
    \/ Tick

Spec == Init /\ [][Next]_vars

\* tokio keeps polling a task that can run, and the HTTP client's timeout ends
\* every request.  Nothing makes a client call a tool.
Fairness == \A c \in Caller : WF_vars(Get(c)) /\ WF_vars(Answer(c))

FairSpec == Spec /\ Fairness

-----------------------------------------------------------------------------
(***************************************************************************)
(* What the manager promises.                                              *)
(***************************************************************************)

\* "Guards in-flight renewals so exactly one request is made concurrently":
\* whatever the audiences, two callers never have token requests in flight.
SingleFlight ==
    \A c, d \in Caller : grant[c] # NoGrant /\ grant[d] # NoGrant => c = d

\* Callers that queued behind a renewal use its token: no token is requested
\* for an audience whose cached token is still good.
GrantOnlyWhenStale ==
    \A c \in Caller : grant[c] # NoGrant => ~IsValid(cache[aud[c]])

\* No request is ever made for an audience whose consent is missing, even one
\* that was waiting for the lock when consent was found missing.
GrantHasConsent ==
    \A c \in Caller :
        Delegated /\ grant[c].state \in {"sent", "granted"}
            => consent[aud[c]] = "Granted"

\* Once re-authentication is required the provider hears from the server at
\* most once more, however many calls are queued: the request of the one task
\* that had already made its checks under the lock.
ReauthStopsGrants == lateGrants <= 1

\* A session that has ended, for an audience or for all, is left alone by the
\* tasks that queued while it had not: their checks are made again under the
\* lock.
EndedSessionLeftAlone == GrantHasConsent /\ ReauthStopsGrants

\* The first reason for re-authentication stays, whichever tasks race to set
\* one, and the session never recovers by itself.
ReauthSetOnce == [][reauth # "unset" => reauth' = reauth]_vars

\* The session holds the newest refresh token the provider issued unless the
\* answer that carried it is on its way or was lost: an answer never replaces
\* a newer token by an older one.
RefreshTokenNewest ==
    \/ refresh = issued
    \/ lostNewest
    \/ \E c \in Caller : grant[c].state = "granted" /\ grant[c].rotated = issued

\* The server counts a token's lifetime from the receipt of the answer, the
\* provider from the issue, and the margin makes up for the time between them
\* as far as it goes: a token served from the cache has been dead for less
\* than the client's timeout exceeds the margin.  With the code's 210 s and
\* 60 s that is not never; it would be if answers came within the margin.
DeadTokenBounded ==
    \A a \in Audience : IsValid(cache[a])
        => now + Buffer < cache[a].dies + MaxLatency

\* No call waits for nobody: it is in the queue, and either the lock's holder
\* is at work under it, or the first in the queue can take it.  A path out of
\* get_token that kept the lock, or a turn given away, would hang every call
\* that comes after, and no test waits that long.
NoneStranded ==
    \A c \in Caller : pc[c] = "waiting" =>
        /\ \E i \in 1 .. Len(waiters) : waiters[i] = c
        /\ \/ lock # Free /\ pc[lock] \in Holding
           \/ lock = Free /\ pc[Head(waiters)] = "waiting"

\* Every tool call's request for a token, and its use, ends.
CallReturns == \A c \in Caller : pc[c] # "idle" ~> pc[c] = "idle"

====
