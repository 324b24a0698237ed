----------------------------- MODULE ServerProofs -----------------------------
(***************************************************************************)
(* Theorems of Server: the server's attempts are the pipeline's, whatever  *)
(* the token manager does beside them; once a new sign-in is required no   *)
(* attempt that had not yet asked for its token ever sends; and what the   *)
(* two parts promise, the server does, over any number of processes.       *)
(***************************************************************************)
EXTENDS Server, TLAPS

-----------------------------------------------------------------------------
(***************************************************************************)
(* The pipeline inside the server.                                         *)
(***************************************************************************)

\* A step of the server is a step of the pipeline or leaves it alone.
LEMMA StepPipeline == [Next]_vars => [Pipeline!Next]_(Pipeline!vars)
  <1> SUFFICES ASSUME [Next]_vars PROVE [Pipeline!Next]_(Pipeline!vars)
    OBVIOUS
  <1> USE DEF pipeline, Pipeline!vars
  <1>1. ASSUME NEW a \in Attempt, PipelineAlone(a) PROVE Pipeline!Next
    BY <1>1 DEF PipelineAlone, Pipeline!Next
  <1>2. ASSUME NEW a \in Attempt, AttemptProceeds(a)
        PROVE  [Pipeline!Next]_(Pipeline!vars)
    <2>1. CASE PipelineProceeds(a)
      BY <2>1 DEF PipelineProceeds, Pipeline!Next, Pipeline!Proceed
    <2>2. ASSUME NEW audience \in Audience, Ask(a, audience)
          PROVE  UNCHANGED Pipeline!vars
      BY <2>2 DEF Ask
    <2>3. CASE Pipeline!UpstreamNotReached(a)
      BY <2>3 DEF Pipeline!Next, Pipeline!Proceed
    <2>4. CASE Send(a)
      BY <2>4 DEF Send, Pipeline!Next, Pipeline!Proceed
    <2>5. CASE Answered(a)
      BY <2>5 DEF Answered, Pipeline!Next, Pipeline!Proceed
    <2>6. QED
      BY <1>2, <2>1, <2>2, <2>3, <2>4, <2>5
         DEF AttemptProceeds, AskRefused, GetForAttempt, SendFails
  <1>3. CASE Stop
    BY <1>3 DEF Stop, Pipeline!Next
  <1>4. CASE Restart
    BY <1>4 DEF Restart, Pipeline!Next
  <1>5. CASE UNCHANGED vars
    BY <1>5 DEF vars
  <1>6. QED
    BY <1>1, <1>2, <1>3, <1>4, <1>5
       DEF Next, ReaderBegins, ReaderProceeds, ProviderAnswers, Tick

\* The server implements the pipeline: what the token manager does to an
\* attempt, it does by letting its request leave or not.
THEOREM ImplementsPipeline == Spec => Pipeline!Spec
  <1>1. Init => Pipeline!Init
    BY DEF Init
  <1>2. QED
    BY <1>1, StepPipeline, PTL DEF Spec, Pipeline!Spec

-----------------------------------------------------------------------------
(***************************************************************************)
(* Where an attempt is in both components at once.                         *)
(***************************************************************************)

\* Only an attempt with its intent on record, in a process that runs, is a
\* caller of the token manager.
CallerInv(a) ==
    /\ stage[a] \notin {"acting", "sent"} => pc[a] = "idle"
    /\ stage[a] \in Pipeline!Running => up

JointInv ==
    /\ pc \in [Caller -> Tokens!PC]
    /\ stage \in [Attempt -> Pipeline!PC]
    /\ wire \in [Attempt -> {"none", "inflight", "applied", "refused"}]
    /\ reauth # "unset" => credential = "Delegated"
    /\ \A a \in Attempt : CallerInv(a)

\* A step of get_token by one caller: no other moves, and it ends at "using"
\* or with the lock given back.
LEMMA GetStep ==
    ASSUME NEW c \in Caller, pc \in [Caller -> Tokens!PC],
           reauth # "unset" => credential = "Delegated", Tokens!Get(c)
    PROVE  /\ pc[c] # "idle"
           /\ pc' \in [Caller -> Tokens!PC]
           /\ \A d \in Caller \ {c} : pc'[d] = pc[d]
           /\ credential' = credential
           /\ reauth # "unset" => reauth' = reauth
           /\ reauth' # "unset" => credential = "Delegated"
           /\ pc[c] \in {"waiting", "locked"} /\ reauth # "unset" =>
                pc'[c] \in {"idle", "locked"}
  BY DEF Tokens!MayAcquire, Tokens!Get, Tokens!CacheHit, Tokens!CacheMiss, Tokens!Acquire,
         Tokens!RecheckSession, Tokens!RecheckHit, Tokens!SendGrant,
         Tokens!ReceiveToken, Tokens!ReceiveError, Tokens!FinishUse,
         Tokens!Return, Tokens!SetReauth, Tokens!Delegated, Tokens!session,
         Tokens!PC, Tokens!Holding

\* A call for a token starts only while the session can be renewed.
LEMMA BeginStep ==
    ASSUME NEW c \in Caller, NEW audience \in Audience,
           pc \in [Caller -> Tokens!PC],
           reauth # "unset" => credential = "Delegated",
           Tokens!Begin(c, audience)
    PROVE  /\ pc' \in [Caller -> Tokens!PC]
           /\ \A d \in Caller \ {c} : pc'[d] = pc[d]
           /\ credential' = credential /\ reauth' = reauth
           /\ reauth = "unset"
  BY DEF Tokens!Begin, Tokens!MayAcquire, Tokens!Delegated, Tokens!session,
         Tokens!PC, Tokens!Holding

\* The provider's answers and the clock move no caller.
LEMMA ProviderStep ==
    ASSUME (\E c \in Caller : Tokens!Answer(c)) \/ Tokens!Tick
    PROVE  pc' = pc /\ credential' = credential /\ reauth' = reauth
  BY DEF Tokens!Answer, Tokens!ProviderGrants, Tokens!ProviderRefuses,
         Tokens!AnswerLost, Tokens!Tick, Tokens!session

\* A step of one attempt in the pipeline moves no other attempt.
Alone(a) ==
    /\ stage' \in [Attempt -> Pipeline!PC]
    /\ wire' \in [Attempt -> {"none", "inflight", "applied", "refused"}]
    /\ \A b \in Attempt \ {a} : stage'[b] = stage[b] /\ wire'[b] = wire[b]
    /\ up' = up

\* The steps that write a record, or skip it for want of a log.
LEMMA WriteStep ==
    ASSUME NEW a \in Attempt, stage \in [Attempt -> Pipeline!PC], NEW e,
           Pipeline!Write(a, e)
    PROVE  /\ stage' \in [Attempt -> Pipeline!PC]
           /\ stage'[a] \in {"writing", "done"}
           /\ \A b \in Attempt \ {a} : stage'[b] = stage[b]
  BY DEF Pipeline!Write, Pipeline!PC, Pipeline!Running

\* The attempt's steps outside the token manager: a request is under way only
\* where one had left, and a call starts in a process that runs.
LEMMA AloneStep ==
    ASSUME JointInv, NEW a \in Attempt, PipelineAlone(a)
    PROVE  /\ Alone(a) /\ tokens' = tokens
           /\ \/ stage'[a] = stage[a]
              \/ up /\ stage[a] = "new"
                    /\ stage'[a] \in {"prompting", "writing", "done"}
           /\ wire[a] = "none" => wire'[a] = "none"
  <1>1. tokens' = tokens
    BY DEF PipelineAlone
  <1>2. ASSUME NEW r \in Request, NEW e, Pipeline!Call(a, r),
               Pipeline!Write(a, e)
        PROVE  /\ Alone(a) /\ up /\ stage[a] = "new" /\ wire' = wire
               /\ stage'[a] \in {"writing", "done"}
    BY <1>2, WriteStep DEF JointInv, Alone, Pipeline!Call
  <1>3. ASSUME NEW r \in Request,
               Pipeline!CallUnlisted(a, r) \/ Pipeline!CallAsks(a, r)
        PROVE  /\ Alone(a) /\ up /\ stage[a] = "new" /\ wire' = wire
               /\ stage'[a] \in {"prompting", "done"}
    BY <1>3 DEF JointInv, Alone, Pipeline!Call, Pipeline!CallUnlisted,
                Pipeline!CallAsks, Pipeline!PC, Pipeline!Running
  <1>4. CASE Pipeline!HumanAnswers(a) \/ Pipeline!ApiHandles(a)
    <2>1. /\ Alone(a) /\ stage'[a] = stage[a]
          /\ wire[a] = "none" => wire'[a] = "none"
      BY <1>4 DEF JointInv, Alone, Pipeline!HumanAnswers, Pipeline!ApiHandles
    <2>2. QED
      BY <1>1, <2>1
  <1>5. ASSUME NEW r \in Request,
               \/ Pipeline!CallRejected(a, r)
               \/ Pipeline!CallUnconfirmable(a, r)
               \/ Pipeline!CallUnasked(a, r)
        PROVE  /\ Alone(a) /\ up /\ stage[a] = "new" /\ wire' = wire
               /\ stage'[a] \in {"writing", "done"}
    BY <1>2, <1>5 DEF Pipeline!CallRejected, Pipeline!CallUnconfirmable,
                      Pipeline!CallUnasked
  <1>6. QED
    BY <1>1, <1>3, <1>4, <1>5 DEF PipelineAlone

LEMMA ProceedsStep ==
    ASSUME JointInv, NEW a \in Attempt, PipelineProceeds(a)
    PROVE  /\ Alone(a) /\ tokens' = tokens /\ wire' = wire
           /\ stage[a] \in {"prompting", "writing"}
           /\ stage'[a] \in {"writing", "acting", "done"}
  <1>1. tokens' = tokens
    BY DEF PipelineProceeds
  <1>2. CASE Pipeline!ReceiveAnswer(a) \/ Pipeline!PromptTimesOut(a)
    <2>1. PICK e : Pipeline!Write(a, e)
      BY <1>2 DEF Pipeline!ReceiveAnswer, Pipeline!PromptTimesOut
    <2>2. stage[a] = "prompting" /\ wire' = wire /\ up' = up
      BY <1>2 DEF Pipeline!ReceiveAnswer, Pipeline!PromptTimesOut
    <2>3. QED
      BY <1>1, <2>1, <2>2, WriteStep DEF JointInv, Alone
  <1>3. CASE Pipeline!Recorded(a)
    BY <1>1, <1>3 DEF JointInv, Alone, Pipeline!Recorded, Pipeline!PC,
                      Pipeline!Running
  <1>4. CASE Pipeline!RecordFails(a)
    <2>1. stage[a] = "writing" /\ wire' = wire /\ up' = up
      BY <1>4 DEF Pipeline!RecordFails
    <2>2. CASE entry[a].phase = "Intent"
      <3>1. PICK e : Pipeline!Write(a, e)
        BY <1>4, <2>2 DEF Pipeline!RecordFails
      <3>2. QED
        BY <1>1, <2>1, <3>1, WriteStep DEF JointInv, Alone
    <2>3. CASE entry[a].phase # "Intent"
      BY <1>1, <1>4, <2>1, <2>3
         DEF JointInv, Alone, Pipeline!RecordFails, Pipeline!PC,
             Pipeline!Running
    <2>4. QED
      BY <2>2, <2>3
  <1>5. QED
    BY <1>2, <1>3, <1>4 DEF PipelineProceeds

\* A step of one caller of the token manager moves no other caller and never
\* clears the reason to sign in again.
Moves(c) ==
    /\ pc' \in [Caller -> Tokens!PC]
    /\ \A d \in Caller \ {c} : pc'[d] = pc[d]
    /\ credential' = credential
    /\ reauth # "unset" => reauth' = reauth
    /\ reauth' # "unset" => credential = "Delegated"

\* What ends an attempt's use of a token, one way or the other.
LEMMA UseEnds ==
    ASSUME JointInv, NEW a \in Attempt, Tokens!FinishUse(a)
    PROVE  Moves(a) /\ pc'[a] = "idle"
  BY DEF JointInv, Moves, Caller, Tokens!FinishUse, Tokens!SetReauth,
         Tokens!Delegated, Tokens!PC, Tokens!Holding

\* Where the attempt comes to its outcome without or after its request.
LEMMA OutcomeStep ==
    ASSUME JointInv, NEW a \in Attempt,
           \/ Pipeline!UpstreamNotReached(a)
           \/ Pipeline!ReceiveStatus(a)
           \/ Pipeline!UpstreamFails(a)
    PROVE  /\ Alone(a) /\ wire' = wire
           /\ stage[a] \in {"acting", "sent"}
           /\ stage'[a] \in {"writing", "done"}
  <1>1. PICK e : Pipeline!Write(a, e)
    BY DEF Pipeline!UpstreamNotReached, Pipeline!ReceiveStatus,
           Pipeline!UpstreamFails, Pipeline!WriteOutcome
  <1>2. stage[a] \in {"acting", "sent"} /\ wire' = wire /\ up' = up
    BY DEF Pipeline!UpstreamNotReached, Pipeline!ReceiveStatus,
           Pipeline!UpstreamFails
  <1>3. QED
    BY <1>1, <1>2, WriteStep DEF JointInv, Alone

\* The attempt's steps with its token: it comes to its outcome, goes on with
\* get_token, or sends with the token in hand.
LEMMA UpstreamStep ==
    ASSUME JointInv, NEW a \in Attempt, AttemptProceeds(a),
           ~PipelineProceeds(a)
    PROVE  /\ Alone(a) /\ Moves(a)
           /\ stage[a] \in {"acting", "sent"}
           /\ \/ /\ stage'[a] \in {"writing", "done"}
                 /\ pc'[a] = "idle" /\ wire'[a] = wire[a]
              \/ /\ stage[a] = "acting" /\ stage'[a] = "acting"
                 /\ pc[a] = "idle" => reauth = "unset"
                 /\ pc[a] \in {"waiting", "locked"} /\ reauth # "unset" =>
                      pc'[a] \in {"idle", "locked"}
                 /\ wire'[a] = wire[a]
              \/ stage'[a] = "sent" /\ pc[a] = "using"
  <1> a \in Caller
    BY DEF Caller
  <1>1. ASSUME NEW audience \in Audience, Ask(a, audience)
        PROVE  /\ Alone(a) /\ Moves(a) /\ wire' = wire
               /\ stage[a] = "acting" /\ stage' = stage
               /\ reauth = "unset" /\ pc[a] = "idle"
    BY <1>1, BeginStep DEF Ask, JointInv, Alone, Moves, pipeline
  <1>2. ASSUME NEW audience \in Audience, AskRefused(a, audience)
        PROVE  /\ Alone(a) /\ Moves(a) /\ wire' = wire
               /\ stage[a] = "acting" /\ stage'[a] \in {"writing", "done"}
               /\ pc'[a] = "idle"
    BY <1>2, OutcomeStep DEF AskRefused, JointInv, Moves, tokens
  <1>3. CASE GetForAttempt(a)
    <2>1. /\ Moves(a) /\ stage[a] = "acting" /\ pc[a] # "idle"
          /\ pc[a] \in {"waiting", "locked"} /\ reauth # "unset" =>
               pc'[a] \in {"idle", "locked"}
      BY <1>3, GetStep DEF GetForAttempt, JointInv, Moves
    <2>2. CASE pc'[a] = "idle"
      BY <1>3, <2>1, <2>2, OutcomeStep DEF GetForAttempt
    <2>3. CASE pc'[a] # "idle"
      <3>1. UNCHANGED pipeline
        BY <1>3, <2>3 DEF GetForAttempt
      <3>2. Alone(a) /\ stage' = stage /\ wire' = wire
        BY <3>1 DEF pipeline, JointInv, Alone
      <3>3. QED
        BY <2>1, <3>2
    <2>4. QED
      BY <2>2, <2>3
  <1>4. CASE Send(a)
    <2>1. pc[a] = "using" /\ Moves(a)
      BY <1>4 DEF Send, JointInv, Moves, tokens
    <2>2. Alone(a) /\ stage[a] = "acting" /\ stage'[a] = "sent"
      BY <1>4 DEF Send, JointInv, Alone, Pipeline!SendRequest, Pipeline!PC,
                  Pipeline!Running
    <2>3. QED
      BY <2>1, <2>2
  <1>5. CASE SendFails(a)
    BY <1>5, OutcomeStep, UseEnds DEF SendFails
  <1>6. CASE Answered(a)
    BY <1>6, OutcomeStep, UseEnds DEF Answered
  <1>7. QED
    BY <1>1, <1>2, <1>3, <1>4, <1>5, <1>6 DEF AttemptProceeds

\* The steps of no attempt: of a reading call, the provider or the clock.
OthersNext ==
    \/ \E c \in Reader :
        \/ \E audience \in Audience : ReaderBegins(c, audience)
        \/ ReaderProceeds(c)
    \/ \E c \in Caller : ProviderAnswers(c)
    \/ Tick

\* Every step is an attempt's, on its own or with its token, or one of these.
LEMMA NextCases ==
    Next => \/ \E a \in Attempt :
                 \/ PipelineAlone(a)
                 \/ PipelineProceeds(a)
                 \/ AttemptProceeds(a) /\ ~PipelineProceeds(a)
            \/ OthersNext
            \/ Stop
            \/ Restart
  BY DEF Next, OthersNext

LEMMA OtherStep ==
    ASSUME JointInv, OthersNext \/ UNCHANGED vars
    PROVE  /\ UNCHANGED pipeline
           /\ pc' \in [Caller -> Tokens!PC]
           /\ \A a \in Attempt : pc'[a] = pc[a]
           /\ credential' = credential
           /\ reauth # "unset" => reauth' = reauth
           /\ reauth' # "unset" => credential = "Delegated"
  <1> DEFINE Goal == /\ UNCHANGED pipeline
                     /\ pc' \in [Caller -> Tokens!PC]
                     /\ \A a \in Attempt : pc'[a] = pc[a]
                     /\ credential' = credential
                     /\ reauth # "unset" => reauth' = reauth
                     /\ reauth' # "unset" => credential = "Delegated"
  <1>1. ASSUME NEW c \in Reader PROVE c \in Caller /\ c \notin Attempt
    BY <1>1, ServerAssumption DEF Caller
  <1>2. Attempt \subseteq Caller
    BY DEF Caller
  <1>3. ASSUME NEW c \in Reader, NEW audience \in Audience,
               ReaderBegins(c, audience)
        PROVE  Goal
    BY <1>1, <1>2, <1>3, BeginStep DEF ReaderBegins, JointInv
  <1>4. ASSUME NEW c \in Reader, ReaderProceeds(c) PROVE Goal
    BY <1>1, <1>2, <1>4, GetStep DEF ReaderProceeds, JointInv
  <1>5. ASSUME (\E c \in Caller : ProviderAnswers(c)) \/ Tick PROVE Goal
    BY <1>5, ProviderStep DEF ProviderAnswers, Tick, JointInv
  <1>6. CASE UNCHANGED vars
    BY <1>6 DEF vars, tokens, JointInv
  <1>7. QED
    BY <1>3, <1>4, <1>5, <1>6 DEF OthersNext

\* The end of the process takes the attempts in progress and every caller.
LEMMA StopStep ==
    ASSUME JointInv, Stop
    PROVE  /\ pc' \in [Caller -> Tokens!PC]
           /\ stage' \in [Attempt -> Pipeline!PC]
           /\ \A a \in Attempt :
                /\ pc'[a] = "idle"
                /\ stage'[a] = IF stage[a] \in Pipeline!Running
                               THEN "dead" ELSE stage[a]
           /\ wire' = wire /\ reauth' = reauth /\ credential' = credential
  <1>1. Pipeline!ProcessEnds
    BY DEF Stop, Pipeline!End, Pipeline!Crash, Pipeline!PowerFails
  <1>2. QED
    BY <1>1 DEF Stop, EndCallers, Pipeline!ProcessEnds, JointInv, Caller,
                Tokens!PC, Pipeline!PC

\* A new process starts with no call in progress and no reason to sign in.
LEMMA RestartStep ==
    ASSUME JointInv, Restart
    PROVE  /\ pc' = pc /\ stage' = stage /\ wire' = wire /\ reauth' = "unset"
           /\ up' = TRUE
           /\ \A a \in Attempt : stage[a] \notin Pipeline!Running
  BY DEF Restart, StartTokens, Pipeline!Restart, JointInv, CallerInv

LEMMA InitJoint == Init => JointInv
  BY DEF Init, Tokens!Init, Pipeline!Init, JointInv, CallerInv, Tokens!PC,
         Pipeline!PC, Pipeline!Running, Caller

LEMMA StepJoint == JointInv /\ [Next]_vars => JointInv'
  <1> SUFFICES ASSUME JointInv, [Next]_vars PROVE JointInv'
    OBVIOUS
  <1> Attempt \subseteq Caller
    BY DEF Caller
  <1> USE DEF Pipeline!Running
  <1>1. ASSUME NEW a \in Attempt, PipelineAlone(a) PROVE JointInv'
    <2>1. /\ Alone(a) /\ tokens' = tokens
          /\ \/ stage'[a] = stage[a]
             \/ up /\ stage[a] = "new"
                   /\ stage'[a] \in {"prompting", "writing", "done"}
      BY <1>1, AloneStep
    <2>2. \A b \in Attempt : CallerInv(b)'
      BY <2>1 DEF Alone, JointInv, CallerInv, tokens
    <2>3. QED
      BY <2>1, <2>2 DEF Alone, JointInv, tokens
  <1>2. ASSUME NEW a \in Attempt, PipelineProceeds(a) PROVE JointInv'
    <2>1. /\ Alone(a) /\ tokens' = tokens
          /\ stage[a] \in {"prompting", "writing"}
          /\ stage'[a] \in {"writing", "acting", "done"}
      BY <1>2, ProceedsStep
    <2>2. \A b \in Attempt : CallerInv(b)'
      BY <2>1 DEF Alone, JointInv, CallerInv, tokens
    <2>3. QED
      BY <2>1, <2>2 DEF Alone, JointInv, tokens
  <1>3. ASSUME NEW a \in Attempt, AttemptProceeds(a), ~PipelineProceeds(a)
        PROVE  JointInv'
    <2>1. /\ Alone(a) /\ Moves(a)
          /\ stage[a] \in {"acting", "sent"}
          /\ stage'[a] \in {"acting", "sent"} \/ pc'[a] = "idle"
      BY <1>3, UpstreamStep
    <2>2. \A b \in Attempt : CallerInv(b)'
      BY <2>1 DEF Alone, Moves, JointInv, CallerInv
    <2>3. QED
      BY <2>1, <2>2 DEF Alone, Moves, JointInv
  <1>4. CASE OthersNext \/ UNCHANGED vars
    BY <1>4, OtherStep DEF JointInv, CallerInv, pipeline
  <1>5. CASE Stop
    BY <1>5, StopStep DEF JointInv, CallerInv
  <1>6. CASE Restart
    BY <1>6, RestartStep DEF JointInv, CallerInv
  <1>7. QED
    BY <1>1, <1>2, <1>3, <1>4, <1>5, <1>6, NextCases

\* In every state the two components agree on where an attempt is.
THEOREM Invariance == Spec => []JointInv
  BY InitJoint, StepJoint, PTL DEF Spec

-----------------------------------------------------------------------------
(***************************************************************************)
(* A new sign-in is required.                                              *)
(***************************************************************************)

\* The attempt has not sent, and has no way left to a token it could send with.
Grounded(a) ==
    /\ wire[a] = "none"
    /\ stage[a] \in {"prompting", "writing", "acting", "done", "dead"}
    /\ stage[a] \in {"prompting", "writing", "acting"} =>
         reauth # "unset" /\ pc[a] \in {"idle", "waiting", "locked"}

LEMMA StepGrounded ==
    ASSUME NEW a \in Attempt, JointInv, Grounded(a), [Next]_vars
    PROVE  Grounded(a)'
  <1> a \in Caller
    BY DEF Caller
  <1> USE DEF Grounded
  <1>1. ASSUME NEW b \in Attempt, PipelineAlone(b) PROVE Grounded(a)'
    BY <1>1, AloneStep DEF Alone, tokens
  <1>2. ASSUME NEW b \in Attempt, PipelineProceeds(b) PROVE Grounded(a)'
    BY <1>2, ProceedsStep DEF Alone, tokens
  <1>3. ASSUME NEW b \in Attempt, AttemptProceeds(b), ~PipelineProceeds(b)
        PROVE  Grounded(a)'
    BY <1>3, UpstreamStep DEF Alone, Moves
  <1>4. CASE OthersNext \/ UNCHANGED vars
    BY <1>4, OtherStep DEF pipeline
  <1>5. CASE Stop
    BY <1>5, StopStep
  <1>6. CASE Restart
    BY <1>6, RestartStep DEF Pipeline!Running
  <1>7. QED
    BY <1>1, <1>2, <1>3, <1>4, <1>5, <1>6, NextCases

\* A mutation that the need for a new sign-in meets before get_token has
\* checked the session for the last time never leaves the server, even with a
\* good token in the cache, and even if the process restarts with a new
\* sign-in.
THEOREM ReauthStops == Spec => ReauthStopsMutations
  <1>1. ASSUME NEW a \in Attempt PROVE Spec => StopsAfterReauth(a)
    <2> DEFINE Late == /\ reauth # "unset"
                       /\ stage[a] \in {"prompting", "writing", "acting"}
                       /\ pc[a] \in {"idle", "waiting", "locked"}
                       /\ wire[a] = "none"
    <2>1. JointInv /\ Late => Grounded(a)
      BY DEF JointInv, CallerInv, Grounded
    <2>2. JointInv /\ Grounded(a) /\ [Next]_vars => Grounded(a)'
      BY StepGrounded
    <2>3. Grounded(a) => wire[a] = "none"
      BY DEF Grounded
    <2>4. QED
      BY <2>1, <2>2, <2>3, Invariance, PTL DEF Spec, StopsAfterReauth
  <1>2. QED
    BY <1>1 DEF ReauthStopsMutations
-----------------------------------------------------------------------------
(***************************************************************************)
(* The token manager inside the server.  Its proofs are about a process    *)
(* that never ends: here each process is one such, and what has to be      *)
(* added is that an ended process leaves nothing for the next to inherit.  *)
(***************************************************************************)

Manager == INSTANCE TokenManagerProofs

\* What the manager's proofs assume of the constants, the server assumes.
LEMMA ManagerAssumption == Manager!TokenAssumption
  BY ServerAssumption DEF ServerAssumption, Tokens!TokenAssumption,
     Manager!TokenAssumption, Tokens!GrantError, Manager!GrantError

\* A caller that asks takes a step of the manager.
LEMMA BeginManager ==
    ASSUME NEW c \in Caller, NEW audience \in Audience,
           Tokens!Begin(c, audience)
    PROVE  Manager!Next
  <1>1. Manager!Begin(c, audience)
    BY DEF Tokens!Begin, Manager!Begin, Tokens!MayAcquire,
           Manager!MayAcquire, Tokens!Delegated, Manager!Delegated,
           Tokens!renewal, Manager!renewal, Tokens!session, Manager!session,
           Tokens!provider, Manager!provider
  <1>2. QED
    BY <1>1 DEF Manager!Next

\* So does one that goes on,
LEMMA GetManager ==
    ASSUME NEW c \in Caller, Tokens!Get(c)
    PROVE  Manager!Next
  <1> USE DEF Tokens!Delegated, Manager!Delegated, Tokens!renewal,
              Manager!renewal, Tokens!session, Manager!session,
              Tokens!provider, Manager!provider, Tokens!IsValid,
              Manager!IsValid, Tokens!Return, Manager!Return,
              Tokens!SetReauth, Manager!SetReauth, Tokens!NoGrant,
              Manager!NoGrant, Manager!Get
  <1>1. CASE Tokens!CacheHit(c) \/ Tokens!CacheMiss(c)
    BY <1>1 DEF Tokens!CacheHit, Manager!CacheHit, Tokens!CacheMiss,
                Manager!CacheMiss, Manager!Next
  <1>2. CASE Tokens!Acquire(c)
    BY <1>2 DEF Tokens!Acquire, Manager!Acquire, Manager!Next
  <1>3. CASE Tokens!RecheckSession(c)
    BY <1>3 DEF Tokens!RecheckSession, Manager!RecheckSession,
                Tokens!MayAcquire, Manager!MayAcquire, Manager!Next
  <1>4. CASE Tokens!RecheckHit(c)
    BY <1>4 DEF Tokens!RecheckHit, Manager!RecheckHit, Manager!Next
  <1>5. CASE Tokens!SendGrant(c)
    BY <1>5 DEF Tokens!SendGrant, Manager!SendGrant, Manager!Next
  <1>6. CASE Tokens!ReceiveToken(c)
    BY <1>6 DEF Tokens!ReceiveToken, Manager!ReceiveToken,
                Tokens!CacheToken, Manager!CacheToken, Tokens!Rotate,
                Manager!Rotate, Manager!Next
  <1>7. CASE Tokens!ReceiveError(c)
    BY <1>7 DEF Tokens!ReceiveError, Manager!ReceiveError,
                Tokens!ReauthReason, Manager!ReauthReason, Manager!Next
  <1>8. CASE Tokens!FinishUse(c)
    BY <1>8 DEF Tokens!FinishUse, Manager!FinishUse, Manager!Next
  <1>9. QED
    BY <1>1, <1>2, <1>3, <1>4, <1>5, <1>6, <1>7, <1>8 DEF Tokens!Get

\* the provider that answers, and the clock.
LEMMA ProviderManager ==
    ASSUME (\E c \in Caller : Tokens!Answer(c)) \/ Tokens!Tick
    PROVE  Manager!Next
  <1> USE DEF Tokens!renewal, Manager!renewal, Tokens!session,
              Manager!session, Tokens!provider, Manager!provider,
              Tokens!Delegated, Manager!Delegated, Tokens!Refuse,
              Manager!Refuse, Tokens!GrantError, Manager!GrantError
  <1>1. ASSUME NEW c \in Caller, Tokens!ProviderGrants(c)
        PROVE  Manager!ProviderGrants(c)
    BY <1>1 DEF Tokens!ProviderGrants, Manager!ProviderGrants
  <1>2. ASSUME NEW c \in Caller, Tokens!ProviderRefuses(c)
        PROVE  Manager!ProviderRefuses(c)
    BY <1>2 DEF Tokens!ProviderRefuses, Manager!ProviderRefuses
  <1>3. ASSUME NEW c \in Caller, Tokens!AnswerLost(c)
        PROVE  Manager!AnswerLost(c)
    BY <1>3 DEF Tokens!AnswerLost, Manager!AnswerLost
  <1>4. Tokens!Tick => Manager!Tick
    BY DEF Tokens!Tick, Manager!Tick
  <1>5. QED
    BY <1>1, <1>2, <1>3, <1>4
       DEF Tokens!Answer, Manager!Answer, Manager!Next

\* What an attempt does with its token: a step of the manager, or none of it.
LEMMA AttemptManager ==
    ASSUME NEW a \in Attempt, AttemptProceeds(a)
    PROVE  Manager!Next \/ UNCHANGED tokens
  <1> a \in Caller
    BY DEF Caller
  <1>1. Tokens!FinishUse(a) => Manager!Next
    BY GetManager DEF Tokens!Get
  <1>2. ASSUME NEW audience \in Audience, Ask(a, audience)
        PROVE  Manager!Next
    BY <1>2, BeginManager DEF Ask
  <1>3. GetForAttempt(a) => Manager!Next
    BY GetManager DEF GetForAttempt
  <1>4. QED
    BY <1>1, <1>2, <1>3
       DEF AttemptProceeds, PipelineProceeds, AskRefused, Send, SendFails,
           Answered

\* Between the end of one process and the start of the next, a step of the
\* server is one of the token manager or leaves it alone.
LEMMA StepTokens ==
    ASSUME [Next]_vars, ~Stop, ~Restart
    PROVE  [Manager!Next]_(Manager!vars)
  <1>1. UNCHANGED tokens => UNCHANGED Manager!vars
    BY DEF tokens, Manager!vars
  <1>2. ASSUME NEW a \in Attempt, PipelineAlone(a) PROVE UNCHANGED tokens
    BY <1>2 DEF PipelineAlone
  <1>3. ASSUME NEW c \in Reader, NEW audience \in Audience,
               ReaderBegins(c, audience)
        PROVE  Manager!Next
    BY <1>3, BeginManager DEF ReaderBegins, Caller
  <1>4. ASSUME NEW c \in Reader, ReaderProceeds(c) PROVE Manager!Next
    BY <1>4, GetManager DEF ReaderProceeds, Caller
  <1>5. ASSUME (\E c \in Caller : ProviderAnswers(c)) \/ Tick
        PROVE  Manager!Next
    BY <1>5, ProviderManager DEF ProviderAnswers, Tick
  <1>6. CASE UNCHANGED vars
    BY <1>1, <1>6 DEF vars
  <1>7. QED
    BY <1>1, <1>2, <1>3, <1>4, <1>5, <1>6, AttemptManager DEF Next

\* No call, no lock and no request for a token is left where no process runs.
DownInv ==
    ~up => /\ pc = [c \in Caller |-> "idle"]
           /\ aud = [c \in Caller |-> NoAudience]
           /\ grant = [c \in Caller |-> Manager!NoGrant]
           /\ lock = Free
           /\ waiters = <<>>

\* A refresh token on its way is lost with the process that asked for it; what
\* the manager promises of it is a promise to a process that runs.
ManagerInv ==
    /\ Manager!TypeOK
    /\ Manager!SessionInv
    /\ Manager!QueueInv
    /\ Manager!ExpiryInv
    /\ up => Manager!RotationInv
    /\ DownInv

\* Where no process runs, only the clock and the API do.
LEMMA DownStep ==
    ASSUME JointInv, DownInv, [Next]_vars, ~Stop, ~Restart
    PROVE  up' = up /\ DownInv'
  <1> DEFINE Still == pc' = pc /\ aud' = aud /\ grant' = grant
                      /\ lock' = lock /\ waiters' = waiters
  <1>1. ASSUME NEW a \in Attempt, PipelineAlone(a) \/ PipelineProceeds(a)
        PROVE  up' = up /\ Still
    BY <1>1, AloneStep, ProceedsStep DEF Alone, tokens
  <1>2. ASSUME NEW a \in Attempt, AttemptProceeds(a), ~PipelineProceeds(a)
        PROVE  up' = up /\ up
    BY <1>2, UpstreamStep DEF Alone, JointInv, CallerInv, Pipeline!Running
  <1>3. CASE OthersNext
    <2>1. ASSUME NEW c \in Reader, NEW audience \in Audience,
                 ReaderBegins(c, audience)
          PROVE  up
      BY <2>1 DEF ReaderBegins
    <2>2. ASSUME NEW c \in Reader, ReaderProceeds(c) PROVE up
      BY <2>2, GetStep DEF ReaderProceeds, JointInv, Caller, DownInv
    <2>3. ASSUME NEW c \in Caller, ProviderAnswers(c) PROVE up
      BY <2>3 DEF ProviderAnswers, Tokens!Answer, Tokens!ProviderGrants,
         Tokens!ProviderRefuses, Tokens!AnswerLost, DownInv, Manager!NoGrant
    <2>4. Tick => Still
      BY DEF Tick, Tokens!Tick, Tokens!renewal
    <2>5. up' = up
      BY <1>3, OtherStep DEF pipeline
    <2>6. QED
      BY <1>3, <2>1, <2>2, <2>3, <2>4, <2>5 DEF OthersNext, DownInv
  <1>4. CASE UNCHANGED vars
    BY <1>4 DEF vars, tokens, pipeline, DownInv
  <1>5. QED
    BY <1>1, <1>2, <1>3, <1>4, NextCases DEF DownInv

\* A process that ends takes its calls, its lock and its requests with it, and
\* leaves the rest of what the manager knew as it was.
LEMMA StopManager == ManagerInv /\ Stop => ManagerInv'
  <1> SUFFICES ASSUME ManagerInv, Stop PROVE ManagerInv'
    OBVIOUS
  <1>1. ~up'
    BY DEF Stop, Pipeline!End, Pipeline!Crash, Pipeline!PowerFails,
           Pipeline!ProcessEnds
  <1>2. /\ EndCallers
        /\ UNCHANGED <<now, credential, cache, reauth, consent, refresh,
                       issued, lostNewest, lateGrants>>
    BY DEF Stop
  <1>3. DownInv'
    BY <1>2 DEF DownInv, EndCallers, Tokens!NoGrant, Manager!NoGrant
  <1> USE <1>2 DEF ManagerInv, EndCallers, Tokens!NoGrant, Manager!NoGrant
  <1>4. Manager!TypeOK'
    BY DEF Manager!TypeOK, Manager!Grant, Manager!PC
  <1>5. Manager!SessionInv'
    BY ManagerAssumption
       DEF Manager!SessionInv, Manager!LockInv, Manager!CheckedInv,
           Manager!LateInv, Manager!Holding, Manager!Delegated,
           Manager!TokenAssumption
  <1>6. Manager!QueueInv' /\ Manager!ExpiryInv'
    BY DEF Manager!QueueInv, Manager!ExpiryInv
  <1>7. QED
    BY <1>1, <1>3, <1>4, <1>5, <1>6

\* The next process starts where the manager's specification does.
LEMMA RestartManager == ManagerInv /\ Restart => ManagerInv'
  <1> SUFFICES ASSUME ManagerInv, Restart PROVE ManagerInv'
    OBVIOUS
  <1>1. Manager!Init'
    BY DEF Restart, StartTokens, Pipeline!Restart, ManagerInv, DownInv,
           Manager!Init, Manager!InitCredential, Tokens!NoToken,
           Manager!NoToken, Tokens!FirstToken, Manager!FirstToken
  <1>2. (Manager!Init => /\ Manager!TypeOK /\ Manager!SessionInv
                         /\ Manager!QueueInv /\ Manager!ExpiryInv
                         /\ Manager!RotationInv)'
    BY ManagerAssumption, Manager!InitType, Manager!InitSession,
       Manager!InitQueue, Manager!InitExpiry, Manager!InitRotation, PTL
  <1>3. up'
    BY DEF Restart, Pipeline!Restart
  <1>4. QED
    BY <1>1, <1>2, <1>3 DEF ManagerInv, DownInv

\* The server starts as the manager does.
LEMMA InitManager == Init => ManagerInv
  <1> SUFFICES ASSUME Init PROVE ManagerInv
    OBVIOUS
  <1>1. Manager!Init
    BY DEF Init, Tokens!Init, Tokens!InitCredential, Tokens!NoToken,
           Tokens!NoGrant, Tokens!FirstToken, Manager!Init,
           Manager!InitCredential, Manager!NoToken, Manager!NoGrant,
           Manager!FirstToken
  <1>2. up
    BY DEF Init, Pipeline!Init
  <1>3. QED
    BY <1>1, <1>2, ManagerAssumption, Manager!InitType, Manager!InitSession,
       Manager!InitQueue, Manager!InitExpiry, Manager!InitRotation
       DEF ManagerInv, DownInv

\* Every step of the server keeps what the manager promises of its tokens.
LEMMA StepManager == JointInv /\ ManagerInv /\ [Next]_vars => ManagerInv'
  <1> SUFFICES ASSUME JointInv, ManagerInv, [Next]_vars, ~Stop, ~Restart
               PROVE  ManagerInv'
    BY StopManager, RestartManager
  <1>1. [Manager!Next]_(Manager!vars)
    BY StepTokens
  <1>2. up' = up /\ DownInv'
    BY DownStep DEF ManagerInv
  <1>3. /\ Manager!TypeOK' /\ Manager!SessionInv'
        /\ Manager!QueueInv' /\ Manager!ExpiryInv'
    BY <1>1, ManagerAssumption, Manager!StepType, Manager!StepSession,
       Manager!StepQueue, Manager!StepExpiry DEF ManagerInv
  <1>4. up => Manager!RotationInv'
    BY <1>1, ManagerAssumption, Manager!StepRotation DEF ManagerInv
  <1>5. QED
    BY <1>2, <1>3, <1>4 DEF ManagerInv

\* In every state of the server, the manager's invariants hold of its tokens.
LEMMA ManagerInvariance == Spec => []ManagerInv
  BY Invariance, InitManager, StepManager, PTL DEF Spec

(***************************************************************************)
(* What the token manager promises of its renewals, it keeps with          *)
(* mutations among its callers, whatever becomes of the process: one       *)
(* request at a time, for a token that is stale, for an audience with      *)
(* consent, and at most one after a new sign-in is required; and no call   *)
(* is stranded in the queue for it.                                        *)
(***************************************************************************)
THEOREM RenewalsStaySafe == Spec => []RenewalsSafe
  <1>1. ManagerInv => RenewalsSafe
    <2> SUFFICES ASSUME ManagerInv PROVE RenewalsSafe
      OBVIOUS
    <2> USE DEF ManagerInv, Manager!SessionInv, Manager!LockInv,
                Manager!CheckedInv, Manager!LateInv, Manager!TypeOK,
                Manager!NoGrant, Tokens!NoGrant, Manager!Holding
    <2>1. Tokens!SingleFlight
      BY DEF Tokens!SingleFlight
    <2>2. Tokens!GrantOnlyWhenStale
      BY DEF Tokens!GrantOnlyWhenStale, Manager!IsValid, Tokens!IsValid
    <2>3. Tokens!GrantHasConsent
      BY DEF Tokens!GrantHasConsent, Manager!Delegated, Tokens!Delegated
    <2>4. Tokens!ReauthStopsGrants
      BY DEF Tokens!ReauthStopsGrants
    <2>5. Tokens!NoneStranded
      <3>1. Manager!NoneStranded
        BY ManagerAssumption, Manager!HeadWaits
      <3>2. QED
        BY <3>1 DEF Manager!NoneStranded, Tokens!NoneStranded, Tokens!Holding
    <2>6. QED
      BY <2>1, <2>2, <2>3, <2>4, <2>5 DEF RenewalsSafe
  <1>2. QED
    BY <1>1, ManagerInvariance, PTL

(***************************************************************************)
(* A process that runs holds the newest refresh token it was issued,       *)
(* unless it is on its way or its answer was lost.                         *)
(***************************************************************************)
THEOREM RefreshTokenKept == Spec => [](up => Tokens!RefreshTokenNewest)
  <1>1. ManagerInv => (up => Tokens!RefreshTokenNewest)
    BY DEF ManagerInv, Manager!RotationInv, Manager!RefreshTokenNewest,
           Tokens!RefreshTokenNewest
  <1>2. QED
    BY <1>1, ManagerInvariance, PTL

(***************************************************************************)
(* No mutation and no reading call, of this process or the next, is given  *)
(* a cached token that has been dead for as long as the client's timeout   *)
(* exceeds the margin.                                                     *)
(***************************************************************************)
THEOREM CachedTokensFresh == Spec => []Tokens!DeadTokenBounded
  <1>1. ASSUME ManagerInv PROVE Tokens!DeadTokenBounded
    <2> SUFFICES ASSUME NEW a \in Audience, Tokens!IsValid(cache[a])
                 PROVE  now + Buffer < cache[a].dies + MaxLatency
      BY DEF Tokens!DeadTokenBounded
    <2>1. /\ cache[a].expires \in Nat
          /\ cache[a].dies \in Int
          /\ cache[a].expires <= cache[a].dies + MaxLatency
      BY <1>1 DEF ManagerInv, Manager!TypeOK, Manager!Token,
                  Manager!ExpiryInv
    <2>2. now \in Nat /\ MaxLatency \in Nat /\ Buffer \in Nat
      BY <1>1, ManagerAssumption
         DEF ManagerInv, Manager!TypeOK, Manager!TokenAssumption
    <2>3. QED
      BY <2>1, <2>2 DEF Tokens!IsValid
  <1>2. QED
    BY <1>1, ManagerInvariance, PTL

-----------------------------------------------------------------------------
(***************************************************************************)
(* What the pipeline promises is true of the server: its theorems, carried *)
(* over by ImplementsPipeline.                                             *)
(***************************************************************************)

Audit == INSTANCE MutationPipelineProofs WITH pc <- stage

\* What the pipeline's proofs assume of the constants, the server assumes.
LEMMA AuditAssumption == Audit!PipelineAssumption
  BY ServerAssumption DEF ServerAssumption, Pipeline!PipelineAssumption,
     Audit!PipelineAssumption, Pipeline!RequestType, Audit!RequestType,
     Pipeline!FlagsType, Audit!FlagsType, Pipeline!MutatingTool,
     Audit!MutatingTool

\* The calls a client makes.
LEMMA CallAudit ==
    ASSUME NEW a \in Attempt, NEW r \in Request,
           \/ Pipeline!CallRejected(a, r)
           \/ Pipeline!CallUnlisted(a, r)
           \/ Pipeline!CallUnconfirmable(a, r)
           \/ Pipeline!CallAsks(a, r)
           \/ Pipeline!CallUnasked(a, r)
    PROVE  Audit!Next
  <1> USE DEF Pipeline!Call, Audit!Call, Pipeline!Write, Audit!Write,
              Pipeline!HasSink, Audit!HasSink, Pipeline!Categories,
              Audit!Categories, Pipeline!ToolEnabled, Audit!ToolEnabled,
              Pipeline!Known, Audit!Known, Pipeline!Offboarding,
              Audit!Offboarding, Pipeline!Rejection, Audit!Rejection,
              Pipeline!MustAsk, Audit!MustAsk, Pipeline!Destructive,
              Audit!Destructive, Pipeline!FinalEntry, Audit!FinalEntry
  <1>1. Pipeline!CallRejected(a, r) => Audit!CallRejected(a, r)
    BY DEF Pipeline!CallRejected, Audit!CallRejected
  <1>2. Pipeline!CallUnlisted(a, r) => Audit!CallUnlisted(a, r)
    BY DEF Pipeline!CallUnlisted, Audit!CallUnlisted
  <1>3. Pipeline!CallUnconfirmable(a, r) => Audit!CallUnconfirmable(a, r)
    BY DEF Pipeline!CallUnconfirmable, Audit!CallUnconfirmable
  <1>4. Pipeline!CallAsks(a, r) => Audit!CallAsks(a, r)
    BY DEF Pipeline!CallAsks, Audit!CallAsks
  <1>5. Pipeline!CallUnasked(a, r) => Audit!CallUnasked(a, r)
    BY DEF Pipeline!CallUnasked, Audit!CallUnasked, Pipeline!IntentEntry,
           Audit!IntentEntry, Pipeline!Unasked, Audit!Unasked
  <1>6. QED
    BY <1>1, <1>2, <1>3, <1>4, <1>5 DEF Audit!Next

\* An attempt that goes on.
LEMMA ProceedAudit ==
    ASSUME NEW a \in Attempt, Pipeline!Proceed(a)
    PROVE  Audit!Proceed(a)
  <1> USE DEF Pipeline!Write, Audit!Write, Pipeline!HasSink, Audit!HasSink,
              Pipeline!Categories, Audit!Categories, Pipeline!FinalEntry,
              Audit!FinalEntry, Pipeline!IntentEntry, Audit!IntentEntry,
              Pipeline!AppendEntry, Audit!AppendEntry,
              Pipeline!WriteOutcome, Audit!WriteOutcome
  <1>1. Pipeline!ReceiveAnswer(a) => Audit!ReceiveAnswer(a)
    BY DEF Pipeline!ReceiveAnswer, Audit!ReceiveAnswer
  <1>2. Pipeline!PromptTimesOut(a) => Audit!PromptTimesOut(a)
    BY DEF Pipeline!PromptTimesOut, Audit!PromptTimesOut
  <1>3. Pipeline!Recorded(a) => Audit!Recorded(a)
    BY DEF Pipeline!Recorded, Audit!Recorded
  <1>4. Pipeline!RecordFails(a) => Audit!RecordFails(a)
    BY DEF Pipeline!RecordFails, Audit!RecordFails
  <1>5. Pipeline!UpstreamNotReached(a) => Audit!UpstreamNotReached(a)
    BY DEF Pipeline!UpstreamNotReached, Audit!UpstreamNotReached
  <1>6. Pipeline!SendRequest(a) => Audit!SendRequest(a)
    BY DEF Pipeline!SendRequest, Audit!SendRequest
  <1>7. Pipeline!ReceiveStatus(a) => Audit!ReceiveStatus(a)
    BY DEF Pipeline!ReceiveStatus, Audit!ReceiveStatus
  <1>8. Pipeline!UpstreamFails(a) => Audit!UpstreamFails(a)
    BY DEF Pipeline!UpstreamFails, Audit!UpstreamFails
  <1>9. QED
    BY <1>1, <1>2, <1>3, <1>4, <1>5, <1>6, <1>7, <1>8
       DEF Pipeline!Proceed, Audit!Proceed

\* The human, the API, and the process that ends and starts again.
LEMMA OutsideAudit ==
    ASSUME \/ \E a \in Attempt : \/ Pipeline!HumanAnswers(a)
                                 \/ Pipeline!ApiHandles(a)
           \/ Pipeline!End \/ Pipeline!Restart
    PROVE  Audit!Next
  <1>1. ASSUME NEW a \in Attempt
        PROVE  /\ Pipeline!HumanAnswers(a) => Audit!HumanAnswers(a)
               /\ Pipeline!ApiHandles(a) => Audit!ApiHandles(a)
    BY DEF Pipeline!HumanAnswers, Audit!HumanAnswers, Pipeline!ApiHandles,
           Audit!ApiHandles
  <1>2. Pipeline!End => Audit!End
    BY DEF Pipeline!End, Audit!End, Pipeline!Crash, Audit!Crash,
           Pipeline!PowerFails, Audit!PowerFails, Pipeline!ProcessEnds,
           Audit!ProcessEnds, Pipeline!Running, Audit!Running,
           Pipeline!AppendEntry, Audit!AppendEntry
  <1>3. Pipeline!Restart => Audit!Restart
    BY DEF Pipeline!Restart, Audit!Restart
  <1>4. QED
    BY <1>1, <1>2, <1>3 DEF Audit!Next

\* The server implements the pipeline the proofs are about.
LEMMA ImplementsAudit == Spec => Audit!Spec
  <1>1. Pipeline!Init => Audit!Init
    BY DEF Pipeline!Init, Audit!Init, Pipeline!NoRequest, Audit!NoRequest,
           Pipeline!NoEntry, Audit!NoEntry
  <1>2. [Pipeline!Next]_(Pipeline!vars) => [Audit!Next]_(Audit!vars)
    <2>1. Pipeline!Next => Audit!Next
      BY CallAudit, ProceedAudit, OutsideAudit DEF Pipeline!Next, Audit!Next
    <2>2. UNCHANGED Pipeline!vars => UNCHANGED Audit!vars
      BY DEF Pipeline!vars, Audit!vars
    <2>3. QED
      BY <2>1, <2>2
  <1>3. QED
    BY <1>1, <1>2, ImplementsPipeline, PTL DEF Pipeline!Spec, Audit!Spec

(***************************************************************************)
(* What a reader of the log concludes is so, also where it was the token   *)
(* manager that kept a request from being sent.                            *)
(***************************************************************************)
THEOREM LogIsTrue == Spec => []Pipeline!LogTellsTruth
  <1>1. Audit!LogTellsTruth => Pipeline!LogTellsTruth
    BY DEF Audit!LogTellsTruth, Pipeline!LogTellsTruth, Audit!IntentEntry,
           Pipeline!IntentEntry
  <1>2. QED
    BY <1>1, ImplementsAudit, AuditAssumption, Audit!LogIsTrue, PTL

(***************************************************************************)
(* A request leaves the server only for a tool this run of it enables and, *)
(* where confirmation is asked, after the human accepted in time.          *)
(***************************************************************************)
THEOREM OnlyAsConfigured == Spec => Pipeline!SentAsConfigured
  <1>1. Audit!SentAsConfigured => Pipeline!SentAsConfigured
    <2>1. \A r : Audit!MustAsk(r) = Pipeline!MustAsk(r)
      BY DEF Audit!MustAsk, Pipeline!MustAsk, Audit!Destructive,
             Pipeline!Destructive
    <2>2. [\A a \in Attempt : wire[a] = "none" /\ wire'[a] # "none" =>
            /\ ~config.readOnly /\ request[a].tool \in config.enable
            /\ request[a].action = "offboard" => config.offboarding
            /\ Audit!MustAsk(request[a]) => answer[a] = "accepted"
          ]_(Audit!vars)
        => [\A a \in Attempt : wire[a] = "none" /\ wire'[a] # "none" =>
            /\ ~config.readOnly /\ request[a].tool \in config.enable
            /\ request[a].action = "offboard" => config.offboarding
            /\ Pipeline!MustAsk(request[a]) => answer[a] = "accepted"
          ]_(Pipeline!vars)
      BY <2>1 DEF Audit!vars, Pipeline!vars
    <2>3. QED
      BY <2>2, PTL DEF Audit!SentAsConfigured, Pipeline!SentAsConfigured
  <1>2. QED
    BY <1>1, ImplementsAudit, AuditAssumption, Audit!OnlyAsConfigured, PTL

(***************************************************************************)
(* On a machine that keeps its power the server keeps the promise of       *)
(* AuditedMutation, whatever the token manager does.                       *)
(***************************************************************************)
THEOREM ServerKeepsPromise ==
    ASSUME PowerCanFail = FALSE
    PROVE  Spec => Pipeline!PromiseKept
  <1>1. Audit!Promise!Init => Pipeline!Promise!Init
    BY DEF Audit!Promise!Init, Pipeline!Promise!Init, Audit!Logged,
           Pipeline!Logged
  <1>2. [Audit!Promise!Next]_(Audit!Promise!vars)
          => [Pipeline!Promise!Next]_(Pipeline!Promise!vars)
    BY DEF Audit!Promise!Next, Pipeline!Promise!Next, Audit!Promise!vars,
           Pipeline!Promise!vars, Audit!Promise!Intend,
           Pipeline!Promise!Intend, Audit!Promise!Refuse,
           Pipeline!Promise!Refuse, Audit!Promise!Run, Pipeline!Promise!Run,
           Audit!Logged, Pipeline!Logged
  <1>3. QED
    BY <1>1, <1>2, ImplementsAudit, AuditAssumption,
       Audit!PipelineKeepsPromise, PTL
       DEF Audit!PromiseKept, Pipeline!PromiseKept, Audit!Promise!Spec,
           Pipeline!Promise!Spec

(***************************************************************************)
(* And what it answered is in its log, unless writing that record failed.  *)
(***************************************************************************)
THEOREM AnswersLogged ==
    ASSUME PowerCanFail = FALSE
    PROVE  Spec => []Pipeline!AnsweredIsLogged
  <1>1. Audit!AnsweredIsLogged => Pipeline!AnsweredIsLogged
    BY DEF Audit!AnsweredIsLogged, Pipeline!AnsweredIsLogged, Audit!Logged,
           Pipeline!Logged, Audit!NoEntry, Pipeline!NoEntry
  <1>2. QED
    BY <1>1, ImplementsAudit, AuditAssumption, Audit!AnswersLogged, PTL
====
