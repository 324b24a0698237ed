------------------------------- MODULE SignIn -------------------------------
(***************************************************************************)
(* The interactive sign-in of user mode (auth/signin.rs) and the session   *)
(* TokenManager::sign_in_user (auth.rs) makes of it, from the start of the *)
(* process until it serves or stops.                                       *)
(*                                                                         *)
(* The server is one task here; the loopback listener is another.  The     *)
(* human, the browser, whoever else connects to the loopback port and the  *)
(* identity provider are external.  Timers count down to 0.                *)
(***************************************************************************)
EXTENDS Integers, Sequences

CONSTANTS
    BrowserTimeout,  \* BROWSER_SIGN_IN_TIMEOUT_SECS, in ticks
    Interval,        \* the poll intervals the provider can ask for
    CodeLife,        \* the lifetimes a device code can have
    SlowDownStep,    \* what slow_down adds to the interval
    MaxQuiet         \* bound on the measured time between two polls

ASSUME SignInAssumption ==
    /\ BrowserTimeout \in Nat
    /\ Interval \subseteq Nat
    /\ CodeLife \subseteq Nat
    /\ SlowDownStep \in Nat \ {0}
    /\ MaxQuiet \in Nat

Audience == {"Endpoint", "Graph"}

\* The order sign_in_user takes the audiences in.
Order == <<"Endpoint", "Graph">>

VARIABLES
    flow,       \* the sign-in flow asked for
    headless,   \* no display is there to open a browser on
    pc,         \* where the server is
    outcome,    \* why the server stopped, or "none"
    attempt,    \* the browser attempts begun; names the state parameter too
    scopes,     \* what the authorize URL asks for: "resource" or "oidc"
    unopened,   \* the attempts whose browser did not start
    listeners,  \* the attempts whose listener still accepts connections
    answered,   \* the attempts whose listener has been told to shut down
    slot,       \* the one answer the listener hands to the server
    timer,      \* ticks left of the current wait
    life,       \* ticks left of the device code
    interval,   \* the poll interval in force
    quiet,      \* ticks since the provider last answered about the code
    floor,      \* history: the interval the provider asked for, all told
    latePolls,  \* history: polls sent with an expired device code
    handler,    \* Ctrl-C is caught rather than ending the process
    turn,       \* how many audiences have been exchanged for
    consent,    \* the consent found for each audience
    cached,     \* the audiences with a token in the cache
    refresh,    \* the refresh token held, as its generation
    issued      \* the newest refresh token the provider issued

config == <<flow, headless>>
browser == <<attempt, scopes, unopened, listeners, answered, slot>>
device == <<life, interval, quiet, floor, latePolls>>
session == <<turn, consent, cached, refresh, issued>>
vars == <<config, pc, outcome, browser, timer, device, handler, session>>

-----------------------------------------------------------------------------

NoRedirect == [result |-> "empty"]

\* "of" is the attempt whose state parameter the request carries; 0 stands
\* for none, or one the server never made.
RedirectResult == {"code", "InvalidScope", "TokenEndpoint", "Internal",
                   "StateMismatch"}

Redirect == {NoRedirect} \cup [of : Nat, result : RedirectResult]

InBrowser == {"opening", "waiting", "redeeming"}

InDevice == {"requesting", "asleep", "polling"}

InProgress == InBrowser \cup InDevice \cup {"exchanging"}

TypeOK ==
    /\ flow \in {"Auto", "Browser", "DeviceCode"}
    /\ headless \in BOOLEAN
    /\ pc \in InProgress \cup {"serving", "stopped"}
    /\ outcome \in {"none", "Cancelled", "Timeout", "ExpiredToken",
                    "BrowserLaunchFailed", "InvalidScope", "StateMismatch",
                    "TokenEndpoint", "Internal", "ConsentMissing"}
    /\ attempt \in Nat
    /\ scopes \in {"resource", "oidc"}
    /\ unopened \subseteq Nat
    /\ listeners \subseteq Nat
    /\ answered \subseteq Nat
    /\ slot \in Redirect
    /\ timer \in Nat
    /\ life \in Nat
    /\ interval \in Nat
    /\ quiet \in 0 .. MaxQuiet
    /\ floor \in Nat
    /\ latePolls \in Nat
    /\ handler \in BOOLEAN
    /\ turn \in 0 .. Len(Order)
    /\ consent \in [Audience -> {"unknown", "Granted", "Missing"}]
    /\ cached \subseteq Audience
    /\ refresh \in Nat
    /\ issued \in Nat

\* interactive_sign_in: what is tried first.
DeviceFirst == flow = "DeviceCode" \/ (flow = "Auto" /\ headless)

Init ==
    /\ flow \in {"Auto", "Browser", "DeviceCode"}
    /\ headless \in BOOLEAN
    /\ pc = IF DeviceFirst THEN "requesting" ELSE "opening"
    /\ outcome = "none"
    /\ attempt = 0
    /\ scopes = "resource"
    /\ unopened = {}
    /\ listeners = {}
    /\ answered = {}
    /\ slot = NoRedirect
    /\ timer = 0
    /\ life = 0
    /\ interval = 0
    /\ quiet = 0
    /\ floor = 0
    /\ latePolls = 0
    /\ handler = FALSE
    /\ turn = 0
    /\ consent = [a \in Audience |-> "unknown"]
    /\ cached = {}
    /\ refresh = 0
    /\ issued = 0

-----------------------------------------------------------------------------

\* The process exits with an error, and its listeners with it.
Stop(why) ==
    /\ pc' = "stopped"
    /\ outcome' = why
    /\ listeners' = {}

Continue(place) ==
    /\ pc' = place
    /\ UNCHANGED outcome

-----------------------------------------------------------------------------
(***************************************************************************)
(* The browser flow.                                                       *)
(***************************************************************************)

\* A new listener, a new state parameter, and the browser on its way.
OpenBrowser ==
    /\ pc = "opening"
    /\ Continue("waiting")
    /\ attempt' = attempt + 1
    /\ listeners' = listeners \cup {attempt + 1}
    /\ slot' = NoRedirect
    /\ timer' = BrowserTimeout
    /\ handler' = TRUE
    /\ UNCHANGED <<config, scopes, unopened, answered, device, session>>

\* interactive_sign_in: only an automatic choice of flow is reconsidered, and
\* only if there was no browser to open.
FallBack(why) ==
    IF flow = "Auto" /\ why = "BrowserLaunchFailed"
    THEN /\ Continue("requesting")
         /\ listeners' = listeners \cup {attempt'}
    ELSE Stop(why)

\* The launcher fails.  The listener's task is left running: nothing tells it
\* to shut down or aborts it.
LaunchFails ==
    /\ pc = "opening"
    /\ attempt' = attempt + 1
    /\ unopened' = unopened \cup {attempt + 1}
    /\ slot' = NoRedirect
    /\ FallBack("BrowserLaunchFailed")
    /\ UNCHANGED <<config, scopes, answered, timer, device, handler, session>>

\* The loopback port cannot be bound, or no random bytes are to be had.
ListenFails ==
    /\ pc = "opening"
    /\ FallBack("Internal")
    /\ attempt' = attempt + 1
    /\ UNCHANGED <<config, scopes, unopened, answered, slot, timer, device,
                   handler, session>>

\* Mutant: the state parameter is not compared.
ResultOfAny(l, s, kind) == kind

ResultOf(l, s, kind) == IF s # l THEN "StateMismatch" ELSE kind

\* A request reaches a listener, from the browser or from anyone else on the
\* machine.  The first one decides, and tells the listener to shut down; one
\* the server no longer waits for is answered all the same.
RequestArrives(l) ==
    /\ l \in listeners
    /\ \E s \in 0 .. attempt, kind \in RedirectResult \ {"StateMismatch"} :
        slot' = IF l = attempt /\ pc = "waiting" /\ slot = NoRedirect
                THEN [of |-> s, result |-> ResultOf(l, s, kind)] ELSE slot
    /\ answered' = answered \cup {l}
    /\ UNCHANGED <<config, pc, outcome, attempt, scopes, unopened, listeners,
                   timer, device, handler, session>>

\* The listener stops accepting connections.
ListenerCloses(l) ==
    /\ l \in listeners \cap answered
    /\ listeners' = listeners \ {l}
    /\ UNCHANGED <<config, pc, outcome, attempt, scopes, unopened, answered,
                   slot, timer, device, handler, session>>

\* Mutant: an invalid scope is tried again whatever was asked.
RetryAlways == slot.result = "InvalidScope"

\* run_browser_flow: without the resource scopes there is one more attempt.
Retry == slot.result = "InvalidScope" /\ scopes = "resource"

\* Mutant: the listener's task goes on.
AbortNothing == UNCHANGED listeners

Abort == listeners' = listeners \ {attempt}

\* wait_for_code returns with the redirect; the listener's task is aborted.
ReceiveCode ==
    /\ pc = "waiting"
    /\ slot.result = "code"
    /\ Continue("redeeming")
    /\ Abort
    /\ UNCHANGED <<config, attempt, scopes, unopened, answered, slot, timer,
                   device, handler, session>>

ReceiveInvalidScope ==
    /\ pc = "waiting"
    /\ Retry
    /\ Continue("opening")
    /\ scopes' = "oidc"
    /\ Abort
    /\ UNCHANGED <<config, attempt, unopened, answered, slot, timer, device,
                   handler, session>>

ReceiveFailure ==
    /\ pc = "waiting"
    /\ slot # NoRedirect
    /\ slot.result # "code" /\ ~Retry
    /\ FallBack(slot.result)
    /\ UNCHANGED <<config, attempt, scopes, unopened, answered, slot, timer,
                   device, handler, session>>

\* Mutant: the wait has no end.
WaitGoesOn ==
    /\ pc = "waiting"
    /\ timer = 0
    /\ UNCHANGED vars

\* The wait is over; a redirect that arrives at the same moment may be lost.
WaitTimesOut ==
    /\ pc = "waiting"
    /\ timer = 0
    /\ FallBack("Timeout")
    /\ UNCHANGED <<config, attempt, scopes, unopened, answered, slot, timer,
                   device, handler, session>>

\* The code is redeemed for the first refresh token, or is not.
Redeem ==
    /\ pc = "redeeming"
    /\ \/ /\ Continue("exchanging")
          /\ issued' = issued + 1
          /\ refresh' = issued + 1
          /\ UNCHANGED listeners
       \/ /\ \E why \in {"TokenEndpoint", "Internal"} : FallBack(why)
          /\ UNCHANGED <<issued, refresh>>
    /\ UNCHANGED <<config, attempt, scopes, unopened, answered, slot, timer,
                   device, handler, turn, consent, cached>>

-----------------------------------------------------------------------------
(***************************************************************************)
(* The device code flow.                                                   *)
(***************************************************************************)

\* Mutant: the sleep is cut to the time left, the wrong way round.
SleepDifference(remaining, wait) ==
    /\ Continue("asleep")
    /\ timer' = wait - remaining
    /\ handler' = TRUE
    /\ UNCHANGED listeners

\* The top of the polling loop: the expiry is looked at before the sleep.
SleepAgain(remaining, wait) ==
    IF remaining = 0
    THEN /\ Stop("ExpiredToken")
         /\ UNCHANGED <<timer, handler>>
    ELSE /\ Continue("asleep")
         /\ timer' = wait
         /\ handler' = TRUE
         /\ UNCHANGED listeners

DeviceFails ==
    /\ \E why \in {"TokenEndpoint", "Internal"} : Stop(why)
    /\ UNCHANGED <<timer, handler>>

RequestCode ==
    /\ pc = "requesting"
    /\ \/ \E i \in Interval, n \in CodeLife :
            /\ interval' = i
            /\ floor' = i
            /\ life' = n
            /\ SleepAgain(n, i)
       \/ /\ DeviceFails
          /\ UNCHANGED <<life, interval, floor>>
    /\ quiet' = 0
    /\ UNCHANGED <<config, attempt, scopes, unopened, answered, slot,
                   latePolls, session>>

\* The device code may have expired during the sleep.
Poll ==
    /\ pc = "asleep"
    /\ timer = 0
    /\ Continue("polling")
    /\ latePolls' = IF life = 0 THEN latePolls + 1 ELSE latePolls
    /\ UNCHANGED <<config, browser, timer, life, interval, quiet, floor,
                   handler, session>>

\* Mutant: slow_down is taken for authorization_pending.
SlowDownIgnored == UNCHANGED interval

SlowDown == interval' = interval + SlowDownStep

PollPending ==
    /\ pc = "polling"
    /\ \/ UNCHANGED <<interval, floor>>
       \/ /\ SlowDown
          /\ floor' = floor + SlowDownStep
    /\ SleepAgain(life, interval')
    /\ quiet' = 0
    /\ UNCHANGED <<config, attempt, scopes, unopened, answered, slot, life,
                   latePolls, session>>

\* The provider issues the tokens, or refuses for good.
PollSettled ==
    /\ pc = "polling"
    /\ \/ /\ Continue("exchanging")
          /\ issued' = issued + 1
          /\ refresh' = issued + 1
          /\ UNCHANGED <<listeners, timer, handler>>
       \/ /\ DeviceFails
          /\ UNCHANGED <<issued, refresh>>
    /\ UNCHANGED <<config, attempt, scopes, unopened, answered, slot, device,
                   turn, consent, cached>>

-----------------------------------------------------------------------------
(***************************************************************************)
(* sign_in_user: a token for each audience.                                *)
(***************************************************************************)

Exchanging == pc = "exchanging" /\ turn < Len(Order)

Subject == Order[turn + 1]

\* Mutant: a rotated refresh token is used for the next audience only.
KeepFirst(gen) == UNCHANGED refresh

Keep(gen) == refresh' = gen

\* The answer may carry a new refresh token.
AudienceGranted ==
    /\ Exchanging
    /\ turn' = turn + 1
    /\ consent' = [consent EXCEPT ![Subject] = "Granted"]
    /\ cached' = cached \cup {Subject}
    /\ \E gen \in {refresh, issued + 1} :
        /\ Keep(gen)
        /\ issued' = IF gen > issued THEN gen ELSE issued
    /\ UNCHANGED <<config, pc, outcome, browser, timer, device, handler>>

AudienceMissing ==
    /\ Exchanging
    /\ turn' = turn + 1
    /\ consent' = [consent EXCEPT ![Subject] = "Missing"]
    /\ UNCHANGED <<config, pc, outcome, browser, timer, device, handler,
                   cached, refresh, issued>>

\* Any other failure ends the sign-in, even after the other audience's token.
AudienceFails ==
    /\ Exchanging
    /\ Stop("TokenEndpoint")
    /\ UNCHANGED <<config, attempt, scopes, unopened, answered, slot, timer,
                   device, handler, session>>

SomeConsent == \E a \in Audience : consent[a] # "Missing"

\* The session is made, and the server begins to serve.
Serve ==
    /\ pc = "exchanging"
    /\ turn = Len(Order)
    /\ IF SomeConsent
       THEN /\ Continue("serving")
            /\ UNCHANGED listeners
       ELSE Stop("ConsentMissing")
    /\ UNCHANGED <<config, attempt, scopes, unopened, answered, slot, timer,
                   device, handler, session>>

-----------------------------------------------------------------------------

\* Ctrl-C ends the process until a wait has installed tokio's handler.  From
\* then on it is heard in the waits alone, and has no effect elsewhere.
Interrupt ==
    /\ pc \in InProgress
    /\ pc \in {"waiting", "asleep"} \/ ~handler
    /\ Stop("Cancelled")
    /\ UNCHANGED <<config, attempt, scopes, unopened, answered, slot, timer,
                   device, handler, session>>

Less(n) == IF n = 0 THEN 0 ELSE n - 1

Tick ==
    /\ pc \in InProgress
    /\ timer > 0 \/ life > 0
    /\ timer' = Less(timer)
    /\ life' = Less(life)
    /\ quiet' = IF quiet = MaxQuiet THEN quiet ELSE quiet + 1
    /\ UNCHANGED <<config, pc, outcome, browser, interval, floor, latePolls,
                   handler, session>>

Step ==
    \/ OpenBrowser
    \/ LaunchFails
    \/ ListenFails
    \/ ReceiveCode
    \/ ReceiveInvalidScope
    \/ ReceiveFailure
    \/ WaitTimesOut
    \/ Redeem
    \/ RequestCode
    \/ Poll
    \/ PollPending
    \/ PollSettled
    \/ AudienceGranted
    \/ AudienceMissing
    \/ AudienceFails
    \/ Serve

Next ==
    \/ Step
    \/ \E l \in listeners : RequestArrives(l) \/ ListenerCloses(l)
    \/ Interrupt
    \/ Tick

Spec == Init /\ [][Next]_vars

\* The server's task runs, every request is answered or times out, and time
\* passes.  The human and the browser owe nothing.
Fairness == WF_vars(Step) /\ WF_vars(Tick)

FairSpec == Spec /\ Fairness

-----------------------------------------------------------------------------
(***************************************************************************)
(* What the sign-in promises.                                              *)
(***************************************************************************)

\* A code is redeemed only if it came with the state parameter of the attempt
\* that waits: not one of an earlier attempt, nor one nobody asked for.
OwnCodeOnly == pc = "redeeming" => slot = [of |-> attempt, result |-> "code"]

\* The user is asked to sign in on a device only if that was the choice, or if
\* no browser could be opened: never because of what happened in the browser.
DeviceOnlyWithoutBrowser ==
    pc \in InDevice => DeviceFirst \/ (flow = "Auto" /\ attempt \in unopened)

\* An invalid scope is tried again once, with other scopes, whatever the
\* second answer is.
OneRetry == attempt <= 2 /\ (attempt = 2 => scopes = "oidc")

\* Whatever goes wrong in a browser leads to one more browser at most, and
\* never to a device code.
FallsBackOnce == DeviceOnlyWithoutBrowser /\ OneRetry

\* The provider is not polled more often than it asked, every slow_down it
\* ever sent counted.
PollsSpaced ==
    pc = "polling" => quiet >= floor \/ quiet = MaxQuiet

\* The expiry is looked at before the sleep, so one poll may follow it; there
\* is never a second one.
OneLatePoll == latePolls <= 1

\* However the intervals, slow_downs and the life of the code fall together,
\* the polls keep to both: apart as asked, and over with the code.
PollsKeepToCode == PollsSpaced /\ OneLatePoll

\* A listener outlives its attempt only if the browser could not be opened.
ListenersClosed ==
    listeners \subseteq unopened \cup (IF pc = "waiting" THEN {attempt} ELSE {})

\* What the token manager starts from: a cached token for exactly the
\* audiences with consent, one at least, and the newest refresh token.
SessionComplete ==
    pc = "serving" =>
        /\ cached # {}
        /\ \A a \in Audience :
            consent[a] = IF a \in cached THEN "Granted" ELSE "Missing"
        /\ refresh = issued

\* The server always comes to serve or to stop, whatever the human does.
SignInEnds == <>(pc \in {"serving", "stopped"})
====
