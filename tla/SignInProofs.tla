---------------------------- MODULE SignInProofs ----------------------------
(***************************************************************************)
(* Theorems of SignIn, for any timers, intervals and code lifetimes.       *)
(***************************************************************************)
EXTENDS SignIn, TLAPS

\* In the order of sign_in_user every audience comes once.
LEMMA OrderFacts ==
    /\ Len(Order) = 2
    /\ Order[1] = "Endpoint"
    /\ Order[2] = "Graph"
  BY DEF Order

\* What a listener can hand over.
LEMMA RedirectFacts ==
    /\ NoRedirect \in Redirect
    /\ \A r \in Redirect : r # NoRedirect =>
         r.of \in Nat /\ r.result \in RedirectResult
    /\ NoRedirect.result = "empty"
    /\ "empty" \notin RedirectResult
    /\ "BrowserLaunchFailed" \notin RedirectResult
  BY DEF Redirect, NoRedirect, RedirectResult

\* The initial states are well typed.
LEMMA InitType == Init => TypeOK
  <1> SUFFICES ASSUME Init PROVE TypeOK
    OBVIOUS
  <1>1. pc \in InProgress
    BY DEF Init, InProgress, InBrowser, InDevice
  <1>2. /\ quiet \in 0 .. MaxQuiet
        /\ turn \in 0 .. Len(Order)
    BY SignInAssumption, OrderFacts DEF Init
  <1>3. QED
    BY <1>1, <1>2, RedirectFacts DEF Init, TypeOK

Place == InProgress \cup {"serving", "stopped"}

Outcome == {"none", "Cancelled", "Timeout", "ExpiredToken",
            "BrowserLaunchFailed", "InvalidScope", "StateMismatch",
            "TokenEndpoint", "Internal", "ConsentMissing"}

\* Wherever the server goes on or stops, its place and reason are of the type.
LEMMA PlaceTypes ==
    /\ InBrowser \cup InDevice \cup {"exchanging", "serving", "stopped"} = Place
    /\ RedirectResult \ {"code"} \subseteq Outcome
    /\ RedirectResult \subseteq {"code"} \cup Outcome
  BY DEF Place, Outcome, InProgress, RedirectResult

\* A browser flow that fails goes on in the device code flow or stops.
LEMMA FallBackType ==
    ASSUME TypeOK, attempt' \in Nat, NEW why \in Outcome, FallBack(why)
    PROVE  /\ pc' \in Place
           /\ outcome' \in Outcome
           /\ listeners' \subseteq Nat
  <1>1. CASE flow = "Auto" /\ why = "BrowserLaunchFailed"
    BY <1>1, PlaceTypes DEF FallBack, Continue, TypeOK, Outcome, InDevice
  <1>2. CASE ~(flow = "Auto" /\ why = "BrowserLaunchFailed")
    BY <1>2, PlaceTypes DEF FallBack, Stop
  <1>3. QED
    BY <1>1, <1>2

\* The top of the polling loop goes to sleep or stops.
LEMMA SleepType ==
    ASSUME TypeOK, NEW n \in Nat, NEW i \in Nat, SleepAgain(n, i)
    PROVE  /\ pc' \in Place
           /\ outcome' \in Outcome
           /\ listeners' \subseteq Nat
           /\ timer' \in Nat
           /\ handler' \in BOOLEAN
  <1>1. CASE n = 0
    BY <1>1, PlaceTypes DEF SleepAgain, Stop, TypeOK, Outcome
  <1>2. CASE n # 0
    BY <1>2, PlaceTypes DEF SleepAgain, Continue, TypeOK, Outcome, InDevice
  <1>3. QED
    BY <1>1, <1>2

\* A request of the device flow that fails stops the server.
LEMMA DeviceFailsType ==
    ASSUME TypeOK, DeviceFails
    PROVE  /\ pc' = "stopped"
           /\ outcome' \in Outcome
           /\ listeners' = {}
           /\ UNCHANGED <<timer, handler>>
  BY DEF DeviceFails, Stop, Outcome

\* Every step keeps the state well typed.
LEMMA StepType == TypeOK /\ [Next]_vars => TypeOK'
  <1> SUFFICES ASSUME TypeOK, [Next]_vars PROVE TypeOK'
    OBVIOUS
  <1> USE SignInAssumption, RedirectFacts
      DEF TypeOK, InProgress, InBrowser, InDevice, config, browser, device,
          session
  <1>1. CASE OpenBrowser
    BY <1>1 DEF OpenBrowser, Continue
  <1>2. CASE LaunchFails
    <2>1. attempt' \in Nat /\ "BrowserLaunchFailed" \in Outcome
      BY <1>2 DEF LaunchFails, Outcome
    <2>2. /\ pc' \in Place /\ outcome' \in Outcome
          /\ listeners' \subseteq Nat
      BY <1>2, <2>1, FallBackType DEF LaunchFails
    <2>3. QED
      BY <1>2, <2>1, <2>2 DEF LaunchFails, Place, Outcome
  <1>3. CASE ListenFails
    BY <1>3 DEF ListenFails, FallBack, Continue, Stop
  <1>4. CASE ReceiveCode
    BY <1>4 DEF ReceiveCode, Continue, Abort
  <1>5. CASE ReceiveInvalidScope
    BY <1>5 DEF ReceiveInvalidScope, Continue, Abort
  <1>6. CASE ReceiveFailure
    <2>1. slot.result \in RedirectResult
      BY <1>6 DEF ReceiveFailure
    <2>2. pc' = "stopped" /\ outcome' = slot.result /\ listeners' = {}
      BY <1>6, <2>1 DEF ReceiveFailure, FallBack, Stop, RedirectResult
    <2>3. slot.result # "code"
      BY <1>6 DEF ReceiveFailure
    <2>4. QED
      BY <1>6, <2>1, <2>2, <2>3 DEF ReceiveFailure, RedirectResult
  <1>7. CASE WaitTimesOut
    BY <1>7 DEF WaitTimesOut, FallBack, Continue, Stop
  <1>8. CASE Redeem
    <2>1. CASE Continue("exchanging") /\ UNCHANGED listeners
      BY <1>8, <2>1 DEF Redeem, FallBack, Continue, Stop
    <2>2. ASSUME NEW why \in {"TokenEndpoint", "Internal"}, FallBack(why),
                 UNCHANGED <<issued, refresh>>
          PROVE  TypeOK'
      <3>1. attempt' \in Nat /\ why \in Outcome
        BY <1>8 DEF Redeem, Outcome
      <3>2. /\ pc' \in Place /\ outcome' \in Outcome
            /\ listeners' \subseteq Nat
        BY <2>2, <3>1, FallBackType
      <3>3. QED
        BY <1>8, <2>2, <3>2 DEF Redeem, Place, Outcome
    <2>3. QED
      BY <1>8, <2>1, <2>2 DEF Redeem
  <1>9. CASE RequestCode
    <2>1. ASSUME NEW i \in Interval, NEW n \in CodeLife,
                 interval' = i, floor' = i, life' = n, SleepAgain(n, i)
          PROVE  TypeOK'
      <3>1. i \in Nat /\ n \in Nat
        OBVIOUS
      <3>2. /\ pc' \in Place /\ outcome' \in Outcome
            /\ listeners' \subseteq Nat
            /\ timer' \in Nat /\ handler' \in BOOLEAN
        BY <2>1, <3>1, SleepType
      <3>3. QED
        BY <1>9, <2>1, <3>1, <3>2 DEF RequestCode, Place, Outcome
    <2>2. CASE DeviceFails /\ UNCHANGED <<life, interval, floor>>
      BY <1>9, <2>2, DeviceFailsType DEF RequestCode, Outcome
    <2>3. QED
      BY <1>9, <2>1, <2>2 DEF RequestCode
  <1>10. CASE Poll
    BY <1>10 DEF Poll, Continue
  <1>11. CASE PollPending
    <2>1. interval' \in Nat /\ floor' \in Nat
      BY <1>11 DEF PollPending, SlowDown
    <2>2. /\ pc' \in Place /\ outcome' \in Outcome
          /\ listeners' \subseteq Nat
          /\ timer' \in Nat /\ handler' \in BOOLEAN
      BY <1>11, <2>1, SleepType DEF PollPending
    <2>3. QED
      BY <1>11, <2>1, <2>2 DEF PollPending, Place, Outcome
  <1>12. CASE PollSettled
    <2>1. CASE DeviceFails /\ UNCHANGED <<issued, refresh>>
      BY <1>12, <2>1, DeviceFailsType DEF PollSettled, Outcome
    <2>2. ASSUME Continue("exchanging"), issued' = issued + 1,
                 refresh' = issued + 1, UNCHANGED <<listeners, timer, handler>>
          PROVE  TypeOK'
      BY <1>12, <2>2 DEF PollSettled, Continue
    <2>3. QED
      BY <1>12, <2>1, <2>2 DEF PollSettled
  <1>13. CASE AudienceGranted \/ AudienceMissing
    <2>1. turn' \in 0 .. Len(Order)
      BY <1>13, OrderFacts DEF AudienceGranted, AudienceMissing, Exchanging
    <2>2. Subject \in Audience
      BY <1>13, OrderFacts
         DEF AudienceGranted, AudienceMissing, Exchanging, Subject, Audience
    <2>3. /\ consent' \in [Audience -> {"unknown", "Granted", "Missing"}]
          /\ cached' \subseteq Audience
      BY <1>13, <2>2 DEF AudienceGranted, AudienceMissing
    <2>4. refresh' \in Nat /\ issued' \in Nat
      BY <1>13 DEF AudienceGranted, AudienceMissing, Keep
    <2>5. QED
      <3>1. UNCHANGED <<config, pc, outcome, browser, timer, device, handler>>
        BY <1>13 DEF AudienceGranted, AudienceMissing
      <3>2. QED
        BY <2>1, <2>3, <2>4, <3>1
  <1>14. CASE AudienceFails
    BY <1>14 DEF AudienceFails, Stop
  <1>15. CASE Serve
    BY <1>15 DEF Serve, Continue, Stop
  <1>16. ASSUME NEW l \in listeners, RequestArrives(l) PROVE TypeOK'
    <2>1. PICK s \in 0 .. attempt, kind \in RedirectResult \ {"StateMismatch"} :
            slot' = IF l = attempt /\ pc = "waiting" /\ slot = NoRedirect
                    THEN [of |-> s, result |-> ResultOf(l, s, kind)] ELSE slot
      BY <1>16 DEF RequestArrives
    <2>2. ResultOf(l, s, kind) \in RedirectResult
      BY DEF ResultOf, RedirectResult
    <2>3. slot' \in Redirect
      BY <2>1, <2>2 DEF Redirect
    <2>4. QED
      BY <1>16, <2>3 DEF RequestArrives
  <1>17. ASSUME NEW l \in listeners, ListenerCloses(l) PROVE TypeOK'
    BY <1>17 DEF ListenerCloses
  <1>18. CASE Interrupt
    BY <1>18 DEF Interrupt, Stop
  <1>19. CASE Tick
    BY <1>19 DEF Tick, Less
  <1>20. CASE UNCHANGED vars
    BY <1>20 DEF vars
  <1>21. QED
    BY <1>1, <1>2, <1>3, <1>4, <1>5, <1>6, <1>7, <1>8, <1>9, <1>10, <1>11,
       <1>12, <1>13, <1>14, <1>15, <1>16, <1>17, <1>18, <1>19, <1>20
       DEF Next, Step

\* The state is always well typed.
THEOREM TypeCorrect == Spec => []TypeOK
  BY InitType, StepType, PTL DEF Spec

-----------------------------------------------------------------------------
(***************************************************************************)
(* The browser.                                                            *)
(***************************************************************************)

\* What a failure of the browser flow can lead to.
LEMMA FallBackFacts ==
    ASSUME NEW why, FallBack(why)
    PROVE  \/ pc' = "stopped" /\ listeners' = {}
           \/ /\ flow = "Auto" /\ why = "BrowserLaunchFailed"
              /\ pc' = "requesting"
              /\ listeners' = listeners \cup {attempt'}
  BY DEF FallBack, Continue, Stop

\* A request of the listener's, or a wait's end, is not a failed launch.
LEMMA FailureStops ==
    ASSUME TypeOK, ReceiveFailure \/ WaitTimesOut
    PROVE  pc' = "stopped" /\ listeners' = {}
  <1>1. CASE ReceiveFailure
    <2>1. slot.result \in RedirectResult
      BY <1>1, RedirectFacts DEF ReceiveFailure, TypeOK
    <2>2. slot.result # "BrowserLaunchFailed"
      BY <2>1, RedirectFacts
    <2>3. QED
      BY <1>1, <2>2, FallBackFacts DEF ReceiveFailure
  <1>2. CASE WaitTimesOut
    BY <1>2, FallBackFacts DEF WaitTimesOut
  <1>3. QED
    BY <1>1, <1>2

\* The first attempt asks for the resource scopes and the second does not; a
\* code in the slot came with the state of the attempt that waits; and a
\* listener outlives its attempt only where the browser did not start.
BrowserInv ==
    /\ attempt \in 0 .. 2
    /\ pc = "opening" => attempt = (IF scopes = "resource" THEN 0 ELSE 1)
    /\ pc = "waiting" => attempt = (IF scopes = "resource" THEN 1 ELSE 2)
    /\ attempt = 2 => scopes = "oidc"
    /\ pc \in {"waiting", "redeeming"} /\ slot.result = "code"
         => slot = [of |-> attempt, result |-> "code"]
    /\ pc = "redeeming" => slot.result = "code"
    /\ ListenersClosed
    /\ DeviceOnlyWithoutBrowser

\* Nothing has been opened at the start.
LEMMA InitBrowser == Init => BrowserInv
  BY DEF Init, BrowserInv, ListenersClosed, DeviceOnlyWithoutBrowser, InDevice,
         DeviceFirst

\* A step that leaves the browser alone and stays out of the browser flow.
LEMMA BrowserLeft ==
    ASSUME BrowserInv, pc \notin InBrowser, pc' \notin InBrowser,
           pc \in InDevice \/ pc' \notin InDevice,
           listeners' \subseteq listeners,
           UNCHANGED <<config, attempt, scopes, unopened>>
    PROVE  BrowserInv'
  BY DEF BrowserInv, ListenersClosed, DeviceOnlyWithoutBrowser, InBrowser,
         InDevice, DeviceFirst, config

\* Every step keeps what is known of the browser.
LEMMA StepBrowser == TypeOK /\ BrowserInv /\ [Next]_vars => BrowserInv'
  <1> SUFFICES ASSUME TypeOK, BrowserInv, [Next]_vars PROVE BrowserInv'
    OBVIOUS
  <1> USE DEF BrowserInv, ListenersClosed, DeviceOnlyWithoutBrowser, InDevice,
              DeviceFirst, config, browser, device, session
  <1>1. CASE OpenBrowser
    <2>1. slot'.result # "code"
      BY <1>1 DEF OpenBrowser, NoRedirect
    <2>2. QED
      BY <1>1, <2>1 DEF OpenBrowser, Continue, TypeOK
  <1>2. CASE LaunchFails
    <2>1. /\ pc = "opening"
          /\ attempt' = attempt + 1 /\ attempt' \in 1 .. 2
          /\ attempt' = 2 => scopes = "oidc"
          /\ unopened' = unopened \cup {attempt'}
          /\ UNCHANGED <<config, scopes>>
      BY <1>2 DEF LaunchFails, TypeOK
    <2>2. \/ pc' = "stopped" /\ listeners' = {}
          \/ /\ flow = "Auto" /\ pc' = "requesting"
             /\ listeners' = listeners \cup {attempt'}
      BY <1>2, FallBackFacts DEF LaunchFails
    <2>3. listeners \subseteq unopened
      BY <2>1
    <2>4. listeners' \subseteq unopened'
      BY <2>1, <2>2, <2>3
    <2>5. QED
      BY <2>1, <2>2, <2>4
  <1>3. CASE ListenFails
    BY <1>3, FallBackFacts DEF ListenFails, TypeOK
  <1>4. CASE ReceiveCode
    BY <1>4 DEF ReceiveCode, Continue, Abort
  <1>5. CASE ReceiveInvalidScope
    BY <1>5 DEF ReceiveInvalidScope, Retry, Continue, Abort, TypeOK
  <1>6. CASE ReceiveFailure \/ WaitTimesOut
    BY <1>6, FailureStops DEF ReceiveFailure, WaitTimesOut
  <1>7. CASE Redeem
    BY <1>7, FallBackFacts DEF Redeem, Continue
  <1>8. CASE RequestCode
    <2>1. pc' \in {"stopped", "asleep"} /\ listeners' \subseteq listeners
      BY <1>8 DEF RequestCode, SleepAgain, DeviceFails, Continue, Stop
    <2>2. QED
      BY <1>8, <2>1, BrowserLeft DEF RequestCode, InBrowser
  <1>9. CASE Poll
    BY <1>9, BrowserLeft DEF Poll, Continue, InBrowser
  <1>10. CASE PollPending
    <2>1. pc' \in {"stopped", "asleep"} /\ listeners' \subseteq listeners
      BY <1>10 DEF PollPending, SleepAgain, Continue, Stop
    <2>2. QED
      BY <1>10, <2>1, BrowserLeft DEF PollPending, InBrowser
  <1>11. CASE PollSettled
    <2>1. pc' \in {"stopped", "exchanging"} /\ listeners' \subseteq listeners
      BY <1>11 DEF PollSettled, DeviceFails, Continue, Stop
    <2>2. QED
      BY <1>11, <2>1, BrowserLeft DEF PollSettled, InBrowser
  <1>12. CASE \/ AudienceGranted \/ AudienceMissing \/ AudienceFails \/ Serve
    <2>1. /\ pc' \in {"stopped", "exchanging", "serving"}
          /\ listeners' \subseteq listeners
          /\ pc = "exchanging"
          /\ UNCHANGED <<config, attempt, scopes, unopened>>
      BY <1>12 DEF AudienceGranted, AudienceMissing, AudienceFails, Serve,
                   Exchanging, Continue, Stop
    <2>2. QED
      BY <2>1, BrowserLeft DEF InBrowser
  <1>13. ASSUME NEW l \in listeners, RequestArrives(l) PROVE BrowserInv'
    <2>1. PICK s \in 0 .. attempt, kind \in RedirectResult \ {"StateMismatch"} :
            slot' = IF l = attempt /\ pc = "waiting" /\ slot = NoRedirect
                    THEN [of |-> s, result |-> ResultOf(l, s, kind)] ELSE slot
      BY <1>13 DEF RequestArrives
    <2>2. UNCHANGED <<config, pc, attempt, scopes, unopened, listeners>>
      BY <1>13 DEF RequestArrives
    <2>3. CASE l = attempt /\ pc = "waiting" /\ slot = NoRedirect
      <3>1. slot' = [of |-> s, result |-> ResultOf(attempt, s, kind)]
        BY <2>1, <2>3
      <3>2. slot'.result = "code" => s = attempt
        BY <3>1 DEF ResultOf
      <3>3. slot'.result = "code" => slot' = [of |-> attempt, result |-> "code"]
        BY <3>1, <3>2
      <3>4. QED
        BY <2>2, <2>3, <3>3
    <2>4. CASE ~(l = attempt /\ pc = "waiting" /\ slot = NoRedirect)
      BY <2>1, <2>2, <2>4
    <2>5. QED
      BY <2>3, <2>4
  <1>14. ASSUME NEW l \in listeners, ListenerCloses(l) PROVE BrowserInv'
    BY <1>14 DEF ListenerCloses
  <1>15. CASE Interrupt
    BY <1>15 DEF Interrupt, Stop
  <1>16. CASE Tick \/ UNCHANGED vars
    BY <1>16 DEF Tick, vars
  <1>17. QED
    BY <1>1, <1>2, <1>3, <1>4, <1>5, <1>6, <1>7, <1>8, <1>9, <1>10, <1>11,
       <1>12, <1>13, <1>14, <1>15, <1>16 DEF Next, Step

\* What is known of the browser is always so.
LEMMA BrowserInvariant == Spec => []BrowserInv
  BY InitBrowser, StepBrowser, TypeCorrect, PTL DEF Spec

\* Only the code of the attempt that waits is redeemed, whoever else connects
\* to the loopback port.
THEOREM CodeIsOwn == Spec => []OwnCodeOnly
  <1>1. BrowserInv => OwnCodeOnly
    BY DEF BrowserInv, OwnCodeOnly
  <1>2. QED
    BY <1>1, BrowserInvariant, PTL

\* The device code flow is entered by choice or for want of a browser, never
\* because of what a browser did; and an invalid scope is tried again once,
\* however often the provider says so.
THEOREM FallsBackOnlyOnce == Spec => []FallsBackOnce
  <1>1. BrowserInv => DeviceOnlyWithoutBrowser
    BY DEF BrowserInv
  <1>2. BrowserInv => OneRetry
    BY DEF BrowserInv, OneRetry
  <1>3. BrowserInv => FallsBackOnce
    BY <1>1, <1>2 DEF FallsBackOnce
  <1>4. QED
    BY <1>3, BrowserInvariant, PTL

\* A listener is left behind only where the browser could not be opened.
THEOREM ListenersEnd == Spec => []ListenersClosed
  <1>1. BrowserInv => ListenersClosed
    BY DEF BrowserInv
  <1>2. QED
    BY <1>1, BrowserInvariant, PTL

-----------------------------------------------------------------------------
(***************************************************************************)
(* The device code.                                                        *)
(***************************************************************************)

\* The interval in force is all the provider asked for, and the sleep makes up
\* what is missing of it; a late poll finds the device code expired, which is
\* looked at before the next sleep.
DeviceInv ==
    /\ interval = floor
    /\ pc = "asleep" => quiet + timer >= floor \/ quiet = MaxQuiet
    /\ PollsSpaced
    /\ pc \in InBrowser \cup {"requesting", "asleep"} => latePolls = 0
    /\ latePolls = 0 \/ (latePolls = 1 /\ (pc = "polling" => life = 0))

\* The provider has asked for nothing at the start.
LEMMA InitDevice == Init => DeviceInv
  BY DEF Init, DeviceInv, PollsSpaced

\* A step out of the device code flow, which leaves its state alone.
LEMMA DeviceLeft ==
    ASSUME DeviceInv, UNCHANGED device,
           pc' \notin {"asleep", "polling"},
           pc' \in InBrowser \cup {"requesting"} => pc \in InBrowser
    PROVE  DeviceInv'
  BY DEF DeviceInv, PollsSpaced, device, InBrowser

\* The loop goes on only while the device code lives.
LEMMA SleepFacts ==
    ASSUME NEW n, NEW i, SleepAgain(n, i)
    PROVE  \/ n = 0 /\ pc' = "stopped"
           \/ n # 0 /\ pc' = "asleep" /\ timer' = i
  BY DEF SleepAgain, Continue, Stop

\* Every step keeps the pace the provider set, and the count of late polls.
LEMMA StepDevice == TypeOK /\ DeviceInv /\ [Next]_vars => DeviceInv'
  <1> SUFFICES ASSUME TypeOK, DeviceInv, [Next]_vars PROVE DeviceInv'
    OBVIOUS
  <1>1. CASE \/ OpenBrowser \/ ReceiveCode \/ ReceiveInvalidScope
    BY <1>1, DeviceLeft
       DEF OpenBrowser, ReceiveCode, ReceiveInvalidScope, Continue, InBrowser
  <1>2. CASE LaunchFails \/ ListenFails
    BY <1>2, FallBackFacts, DeviceLeft DEF LaunchFails, ListenFails, InBrowser
  <1>3. CASE ReceiveFailure \/ WaitTimesOut
    BY <1>3, FailureStops, DeviceLeft
       DEF ReceiveFailure, WaitTimesOut, InBrowser
  <1>4. CASE Redeem
    <2>1. pc' \in {"stopped", "exchanging"}
      BY <1>4, FallBackFacts DEF Redeem, Continue
    <2>2. QED
      BY <1>4, <2>1, DeviceLeft DEF Redeem, InBrowser
  <1>5. CASE RequestCode
    <2>1. pc = "requesting" /\ UNCHANGED latePolls /\ quiet' = 0
      BY <1>5 DEF RequestCode
    <2>2. latePolls = 0
      BY <2>1 DEF DeviceInv
    <2>3. ASSUME NEW i \in Interval, NEW n \in CodeLife,
                 interval' = i, floor' = i, life' = n, SleepAgain(n, i)
          PROVE  DeviceInv'
      BY <2>1, <2>2, <2>3, SleepFacts, SignInAssumption
         DEF DeviceInv, PollsSpaced, InBrowser
    <2>4. CASE DeviceFails /\ UNCHANGED <<life, interval, floor>>
      BY <2>1, <2>2, <2>4
         DEF DeviceFails, Stop, DeviceInv, PollsSpaced, InBrowser
    <2>5. QED
      BY <1>5, <2>3, <2>4 DEF RequestCode
  <1>6. CASE Poll
    BY <1>6 DEF Poll, Continue, DeviceInv, PollsSpaced, InBrowser, TypeOK
  <1>7. CASE PollPending
    <2>1. /\ pc = "polling" /\ quiet' = 0 /\ UNCHANGED <<life, latePolls>>
          /\ SleepAgain(life, interval')
          /\ interval' = floor' /\ interval' \in Nat
      BY <1>7, SignInAssumption DEF PollPending, SlowDown, DeviceInv, TypeOK
    <2>2. QED
      BY <2>1, SleepFacts DEF DeviceInv, PollsSpaced, InBrowser, TypeOK
  <1>8. CASE PollSettled
    <2>1. pc' \in {"stopped", "exchanging"}
      BY <1>8 DEF PollSettled, DeviceFails, Continue, Stop
    <2>2. QED
      BY <1>8, <2>1, DeviceLeft DEF PollSettled, InBrowser
  <1>9. CASE \/ AudienceGranted \/ AudienceMissing \/ AudienceFails \/ Serve
    <2>1. /\ pc' \in {"stopped", "exchanging", "serving"}
          /\ UNCHANGED device
      BY <1>9 DEF AudienceGranted, AudienceMissing, AudienceFails, Serve,
                  Exchanging, Continue, Stop
    <2>2. QED
      BY <2>1, DeviceLeft DEF InBrowser
  <1>10. ASSUME NEW l \in listeners, RequestArrives(l) \/ ListenerCloses(l)
         PROVE  DeviceInv'
    BY <1>10 DEF RequestArrives, ListenerCloses, DeviceInv, PollsSpaced, device
  <1>11. CASE Interrupt
    BY <1>11, DeviceLeft DEF Interrupt, Stop, InBrowser
  <1>12. CASE Tick
    BY <1>12 DEF Tick, Less, DeviceInv, PollsSpaced, InBrowser, TypeOK
  <1>13. CASE UNCHANGED vars
    BY <1>13 DEF vars, DeviceInv, PollsSpaced, device
  <1>14. QED
    BY <1>1, <1>2, <1>3, <1>4, <1>5, <1>6, <1>7, <1>8, <1>9, <1>10, <1>11,
       <1>12, <1>13 DEF Next, Step

\* The pace and the count of late polls are always so.
LEMMA DeviceInvariant == Spec => []DeviceInv
  BY InitDevice, StepDevice, TypeCorrect, PTL DEF Spec

\* The provider is polled no faster than it asked, its slow_downs included,
\* and at most once with a device code that has expired.
THEOREM PollsKeepPace == Spec => []PollsKeepToCode
  <1>1. DeviceInv => PollsSpaced
    BY DEF DeviceInv
  <1>2. DeviceInv => OneLatePoll
    BY DEF DeviceInv, OneLatePoll
  <1>3. DeviceInv => PollsKeepToCode
    BY <1>1, <1>2 DEF PollsKeepToCode
  <1>4. QED
    BY <1>3, DeviceInvariant, PTL

-----------------------------------------------------------------------------
(***************************************************************************)
(* The session.                                                            *)
(***************************************************************************)

\* The audiences before turn are settled, with a token or without consent, and
\* the refresh token held is the newest.
SessionInv ==
    /\ refresh = issued
    /\ \A a \in Audience :
         /\ a \in cached <=> consent[a] = "Granted"
         /\ consent[a] = "unknown" <=> turn = 0 \/ (turn = 1 /\ a = "Graph")
    /\ pc = "serving" => turn = 2 /\ SomeConsent

\* Nothing is settled at the start.
LEMMA InitSession == Init => SessionInv
  BY DEF Init, SessionInv

\* A step that neither settles an audience nor begins to serve.
LEMMA SessionLeft ==
    ASSUME SessionInv, UNCHANGED <<turn, consent, cached>>,
           refresh' = issued', pc' # "serving"
    PROVE  SessionInv'
  BY DEF SessionInv

\* Every step keeps the session whole up to its turn.
LEMMA StepSession == TypeOK /\ SessionInv /\ [Next]_vars => SessionInv'
  <1> SUFFICES ASSUME TypeOK, SessionInv, [Next]_vars PROVE SessionInv'
    OBVIOUS
  <1> USE DEF session
  <1>0. refresh = issued /\ issued \in Nat
    BY DEF SessionInv, TypeOK
  <1>1. CASE \/ OpenBrowser \/ ReceiveCode \/ ReceiveInvalidScope \/ Poll
    BY <1>0, <1>1, SessionLeft
       DEF OpenBrowser, ReceiveCode, ReceiveInvalidScope, Poll, Continue
  <1>2. CASE LaunchFails \/ ListenFails
    BY <1>0, <1>2, FallBackFacts, SessionLeft DEF LaunchFails, ListenFails
  <1>3. CASE ReceiveFailure \/ WaitTimesOut
    BY <1>0, <1>3, FailureStops, SessionLeft DEF ReceiveFailure, WaitTimesOut
  <1>4. CASE Redeem
    BY <1>0, <1>4, FallBackFacts, SessionLeft DEF Redeem, Continue
  <1>5. CASE RequestCode
    BY <1>0, <1>5, SessionLeft
       DEF RequestCode, SleepAgain, DeviceFails, Continue, Stop
  <1>6. CASE PollPending
    BY <1>0, <1>6, SessionLeft DEF PollPending, SleepAgain, Continue, Stop
  <1>7. CASE PollSettled
    BY <1>0, <1>7, SessionLeft DEF PollSettled, DeviceFails, Continue, Stop
  <1>8. CASE AudienceGranted \/ AudienceMissing
    <2>1. /\ turn \in {0, 1}
          /\ turn' = turn + 1
          /\ Subject = IF turn = 0 THEN "Endpoint" ELSE "Graph"
          /\ pc = "exchanging" /\ UNCHANGED pc
      BY <1>8, OrderFacts
         DEF AudienceGranted, AudienceMissing, Exchanging, Subject, TypeOK
    <2>2. refresh' = issued'
      BY <1>0, <1>8 DEF AudienceGranted, AudienceMissing, Keep
    <2>3. \/ /\ consent' = [consent EXCEPT ![Subject] = "Granted"]
             /\ cached' = cached \cup {Subject}
          \/ /\ consent' = [consent EXCEPT ![Subject] = "Missing"]
             /\ cached' = cached
      BY <1>8 DEF AudienceGranted, AudienceMissing
    <2>4. ASSUME NEW a \in Audience
          PROVE  /\ a \in cached' <=> consent'[a] = "Granted"
                 /\ consent'[a] = "unknown"
                      <=> turn' = 0 \/ (turn' = 1 /\ a = "Graph")
      BY <2>1, <2>3 DEF SessionInv, TypeOK, Audience
    <2>5. QED
      BY <2>1, <2>2, <2>4 DEF SessionInv
  <1>9. CASE AudienceFails
    BY <1>0, <1>9, SessionLeft DEF AudienceFails, Stop
  <1>10. CASE Serve
    BY <1>10, OrderFacts DEF Serve, Continue, Stop, SessionInv, SomeConsent
  <1>11. ASSUME NEW l \in listeners, RequestArrives(l) \/ ListenerCloses(l)
         PROVE  SessionInv'
    BY <1>11 DEF RequestArrives, ListenerCloses, SessionInv, SomeConsent
  <1>12. CASE Interrupt
    BY <1>0, <1>12, SessionLeft DEF Interrupt, Stop
  <1>13. CASE Tick
    BY <1>13 DEF Tick, SessionInv, SomeConsent
  <1>14. CASE UNCHANGED vars
    BY <1>14 DEF vars, SessionInv, SomeConsent
  <1>15. QED
    BY <1>1, <1>2, <1>3, <1>4, <1>5, <1>6, <1>7, <1>8, <1>9, <1>10, <1>11,
       <1>12, <1>13, <1>14 DEF Next, Step

\* The server begins to serve only with a token for exactly the audiences that
\* have consent, one at least, and the newest refresh token.
THEOREM SessionIsComplete == Spec => []SessionComplete
  <1>1. TypeOK /\ SessionInv => SessionComplete
    <2> SUFFICES ASSUME TypeOK, SessionInv, pc = "serving"
                 PROVE  /\ cached # {}
                        /\ \A a \in Audience :
                             consent[a] = IF a \in cached THEN "Granted"
                                          ELSE "Missing"
                        /\ refresh = issued
      BY DEF SessionComplete
    <2>1. \A a \in Audience : consent[a] # "unknown"
      BY DEF SessionInv
    <2>2. QED
      BY <2>1 DEF SessionInv, SomeConsent, TypeOK
  <1>2. QED
    BY <1>1, InitSession, StepSession, TypeCorrect, PTL DEF Spec

-----------------------------------------------------------------------------
(***************************************************************************)
(* From the sign-in to the token manager.                                  *)
(***************************************************************************)

CONSTANTS
    Caller, Buffer, Lifetime, MaxLatency, ProviderReason, Free, NoAudience,
    MaxTime, MaxRefresh,    \* of TokenManager
    First                   \* the token the answer for each audience carried

\* The manager sign_in_user returns: its cache, consents and refresh token are
\* the sign-in's, nobody has called it yet, and what the provider issues is
\* counted from here.
Manager == INSTANCE TokenManager WITH
    now <- 0,
    credential <- "Delegated",
    cache <- [a \in Audience |->
                IF a \in cached THEN First[a] ELSE [expires |-> 0, dies |-> 0]],
    lock <- Free,
    waiters <- <<>>,
    reauth <- "unset",
    refresh <- issued - refresh,
    pc <- [c \in Caller |-> "idle"],
    aud <- [c \in Caller |-> NoAudience],
    grant <- [c \in Caller |-> [state |-> "none"]],
    issued <- 0,
    lostNewest <- FALSE,
    lateGrants <- 0

(***************************************************************************)
(* Where the sign-in ends the token manager begins: whatever flow was      *)
(* taken, retried or fallen back to, the server serves from one of the     *)
(* initial states that the theorems about the manager start from.          *)
(***************************************************************************)
THEOREM ServesFromInit ==
    ASSUME First \in [Audience -> Manager!FirstToken]
    PROVE  Spec => [](pc = "serving" => Manager!Init)
  <1>1. ASSUME TypeOK, SessionComplete, pc = "serving" PROVE Manager!Init
    <2>1. /\ consent \in [Audience -> {"Granted", "Missing"}]
          /\ \A a \in Audience : consent[a] = "Granted" <=> a \in cached
          /\ \E a \in Audience : consent[a] = "Granted"
          /\ issued - refresh = 0
      BY <1>1 DEF TypeOK, SessionComplete
    <2>2. [a \in Audience |->
             IF a \in cached THEN First[a] ELSE [expires |-> 0, dies |-> 0]]
          = [a \in Audience |->
               IF consent[a] = "Granted" THEN First[a] ELSE Manager!NoToken]
      BY <2>1 DEF Manager!NoToken
    <2>3. Manager!InitCredential
      BY <2>1, <2>2 DEF Manager!InitCredential
    <2>4. QED
      BY <2>1, <2>3 DEF Manager!Init, Manager!NoGrant
  <1>2. QED
    BY <1>1, TypeCorrect, SessionIsComplete, PTL
====
