-------------------------------- MODULE Server --------------------------------
(***************************************************************************)
(* The server as a whole: the mutating attempts of MutationPipeline and    *)
(* the read-only calls beside them, which all take their tokens from one   *)
(* TokenManager (request_mutation and read_json of client.rs join the      *)
(* two).  An attempt is a caller of the token manager between its intent   *)
(* record and its outcome, and a process that ends takes both with it.     *)
(***************************************************************************)
EXTENDS Integers, Sequences

CONSTANTS
    Attempt, Request, Flags, PowerCanFail,          \* of MutationPipeline
    Audience, Buffer, Lifetime, MaxLatency, ProviderReason, Free, NoAudience,
    MaxTime, MaxRefresh,                            \* of TokenManager
    Reader       \* the read-only tool calls in progress beside the attempts

VARIABLES
    now, credential, cache, lock, waiters, reauth, consent, refresh, pc, aud,
    grant, issued, lostNewest, lateGrants,          \* of TokenManager
    up, config, request, entry, answer, wire, log, unlogged,
    stage        \* pc of MutationPipeline

tokens == <<now, credential, cache, lock, waiters, reauth, consent, refresh,
            pc, aud, grant, issued, lostNewest, lateGrants>>

pipeline == <<up, config, stage, request, entry, answer, wire, log, unlogged>>

vars == <<tokens, pipeline>>

Caller == Attempt \cup Reader

Tokens == INSTANCE TokenManager

Pipeline == INSTANCE MutationPipeline WITH pc <- stage

ASSUME ServerAssumption ==
    /\ Attempt \cap Reader = {}
    /\ Tokens!TokenAssumption
    /\ Pipeline!PipelineAssumption

TypeOK == Tokens!TypeOK /\ Pipeline!TypeOK

Init == Tokens!Init /\ Pipeline!Init

-----------------------------------------------------------------------------
(***************************************************************************)
(* An attempt that has its intent on record: request_mutation.             *)
(***************************************************************************)

\* Mutant: a cached token is used whatever the session has come to.
AskBlindly(a, audience) ==
    /\ stage[a] = "acting" /\ pc[a] = "idle"
    /\ pc' = [pc EXCEPT ![a] = "checked"]
    /\ aud' = [aud EXCEPT ![a] = audience]
    /\ UNCHANGED <<now, credential, cache, lock, waiters, reauth, consent,
                   refresh, grant, issued, lostNewest, lateGrants, pipeline>>

\* get_token is called.
Ask(a, audience) ==
    /\ stage[a] = "acting" /\ pc[a] = "idle"
    /\ Tokens!Begin(a, audience)
    /\ UNCHANGED pipeline

\* get_token fails at its first check.
AskRefused(a, audience) ==
    /\ stage[a] = "acting" /\ pc[a] = "idle"
    /\ ~Tokens!MayAcquire(audience)
    /\ Pipeline!UpstreamNotReached(a)
    /\ UNCHANGED tokens

\* A step of get_token; if it is the one that fails, the attempt is over.
GetForAttempt(a) ==
    /\ stage[a] = "acting"
    /\ pc[a] \notin {"idle", "using"}
    /\ Tokens!Get(a)
    /\ IF pc'[a] = "idle"
       THEN Pipeline!UpstreamNotReached(a) ELSE UNCHANGED pipeline

\* The request leaves with the token.
Send(a) ==
    /\ pc[a] = "using"
    /\ Pipeline!SendRequest(a)
    /\ UNCHANGED tokens

\* There is no connection.
SendFails(a) ==
    /\ pc[a] = "using"
    /\ Pipeline!UpstreamNotReached(a)
    /\ Tokens!FinishUse(a)
    /\ reauth' = reauth

\* The API's answer, or none.  A claims challenge is an error without an HTTP
\* status: what is recorded of it is a transport error.
Answered(a) ==
    /\ stage[a] = "sent"
    /\ Tokens!FinishUse(a)
    /\ \/ reauth' = reauth /\ Pipeline!ReceiveStatus(a)
       \/ reauth' = reauth /\ Pipeline!UpstreamFails(a)
       \/ /\ wire[a] = "refused"
          /\ Pipeline!UpstreamFails(a)
          /\ entry'[a].result = "TransportError"

-----------------------------------------------------------------------------
(***************************************************************************)
(* The rest of the server, side by side.                                   *)
(***************************************************************************)

\* An attempt before its intent is on record, or after its request.
PipelineAlone(a) ==
    /\ \/ \E r \in Request :
            \/ Pipeline!CallRejected(a, r)
            \/ Pipeline!CallUnlisted(a, r)
            \/ Pipeline!CallUnconfirmable(a, r)
            \/ Pipeline!CallAsks(a, r)
            \/ Pipeline!CallUnasked(a, r)
       \/ Pipeline!HumanAnswers(a)
       \/ Pipeline!ApiHandles(a)
    /\ UNCHANGED tokens

PipelineProceeds(a) ==
    /\ \/ Pipeline!ReceiveAnswer(a)
       \/ Pipeline!PromptTimesOut(a)
       \/ Pipeline!Recorded(a)
       \/ Pipeline!RecordFails(a)
    /\ UNCHANGED tokens

ReaderBegins(c, audience) ==
    up /\ Tokens!Begin(c, audience) /\ UNCHANGED pipeline

ReaderProceeds(c) == Tokens!Get(c) /\ UNCHANGED pipeline

ProviderAnswers(c) == Tokens!Answer(c) /\ UNCHANGED pipeline

Tick == Tokens!Tick /\ UNCHANGED pipeline

\* The callers, the lock and the requests for tokens end with the process.
EndCallers ==
    /\ pc' = [c \in Caller |-> "idle"]
    /\ aud' = [c \in Caller |-> NoAudience]
    /\ grant' = [c \in Caller |-> Tokens!NoGrant]
    /\ lock' = Free
    /\ waiters' = <<>>

Stop ==
    /\ Pipeline!End
    /\ EndCallers
    /\ UNCHANGED <<now, credential, cache, reauth, consent, refresh, issued,
                   lostNewest, lateGrants>>

\* A new process has no tokens, or those of a new sign-in; its clock and its
\* refresh tokens are counted from its start.
StartTokens ==
    /\ \/ /\ credential' = "ClientSecret"
          /\ consent' = [a \in Audience |-> "Granted"]
          /\ cache' = [a \in Audience |-> Tokens!NoToken]
       \/ /\ credential' = "Delegated"
          /\ consent' \in [Audience -> {"Granted", "Missing"}]
          /\ \E a \in Audience : consent'[a] = "Granted"
          /\ \E first \in [Audience -> Tokens!FirstToken] :
               cache' = [a \in Audience |-> IF consent'[a] = "Granted"
                                           THEN first[a] ELSE Tokens!NoToken]
    /\ now' = 0 /\ reauth' = "unset" /\ refresh' = 0
    /\ issued' = 0 /\ lostNewest' = FALSE /\ lateGrants' = 0
    /\ UNCHANGED <<lock, waiters, pc, aud, grant>>

Restart == Pipeline!Restart /\ StartTokens

\* The steps of an attempt its own task takes.
AttemptProceeds(a) ==
    \/ PipelineProceeds(a)
    \/ \E audience \in Audience : Ask(a, audience) \/ AskRefused(a, audience)
    \/ GetForAttempt(a)
    \/ Send(a)
    \/ SendFails(a)
    \/ Answered(a)

Next ==
    \/ \E a \in Attempt : PipelineAlone(a) \/ AttemptProceeds(a)
    \/ \E c \in Reader :
        \/ \E audience \in Audience : ReaderBegins(c, audience)
        \/ ReaderProceeds(c)
    \/ \E c \in Caller : ProviderAnswers(c)
    \/ Tick
    \/ Stop
    \/ Restart

Spec == Init /\ [][Next]_vars

\* tokio polls a task that can run; the prompt, the request to the API and
\* the request for a token have their timeouts.
Fairness ==
    /\ \A a \in Attempt : WF_vars(AttemptProceeds(a))
    /\ \A c \in Reader : WF_vars(ReaderProceeds(c))
    /\ \A c \in Caller : WF_vars(ProviderAnswers(c))

FairSpec == Spec /\ Fairness

-----------------------------------------------------------------------------
(***************************************************************************)
(* What the server promises.                                               *)
(***************************************************************************)

\* What the manager promises of its renewals holds with mutations among its
\* callers, whose refusals and failures give the lock back, and of a process
\* that replaces one that ended in the middle of a renewal: one at a time, of
\* a stale token, with consent, and one more at most once the session needs a
\* new sign-in; and no call waits for nobody.
RenewalsSafe ==
    /\ Tokens!SingleFlight
    /\ Tokens!GrantOnlyWhenStale
    /\ Tokens!GrantHasConsent
    /\ Tokens!ReauthStopsGrants
    /\ Tokens!NoneStranded

\* Every call's request for a token, and its use, ends, also when the call is
\* a mutation between its intent and its outcome.
CallReturns == Tokens!CallReturns

\* Every attempt is answered, or ends with the process: even if the human
\* never answers the prompt, the API never answers the request, and the token
\* it needs is being renewed for another call.
AttemptEnds == Pipeline!AttemptEnds

\* A mutation that is being confirmed or recorded when the session comes to
\* need a new sign-in, is about to ask for its token or is queued for the
\* renewal lock, never leaves the server, although its audience's token may
\* still be in the cache, or be put there: it ends with an outcome, and no
\* restart revives it.  One that is past both checks of get_token, between
\* the first and the cache, or has its token, may still leave.
StopsAfterReauth(a) ==
    [](/\ reauth # "unset"
       /\ stage[a] \in {"prompting", "writing", "acting"}
       /\ pc[a] \in {"idle", "waiting", "locked"}
       /\ wire[a] = "none"
       => [](wire[a] = "none"))

ReauthStopsMutations == \A a \in Attempt : StopsAfterReauth(a)
====
