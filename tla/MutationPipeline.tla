-------------------------- MODULE MutationPipeline --------------------------
(***************************************************************************)
(* The pipeline every mutating tool call goes through: the router that     *)
(* leaves disabled tools out (call_tool, new_with_config), the dispatchers *)
(* of the tools, execute_mutation with its seven stages (server.rs), the   *)
(* human's confirmation (confirm.rs) and the append-only audit log         *)
(* (audit.rs), under the configuration main.rs derives from the flags.     *)
(*                                                                         *)
(* An attempt is one tool call.  Attempts are tokio tasks and interleave;  *)
(* the log is one file behind a mutex, and it survives the process.  The   *)
(* human, the Defender API, the network and the disk are external.         *)
(***************************************************************************)
EXTENDS Integers, Sequences

CONSTANTS
    Attempt,       \* the attempts at a mutating action
    Request,       \* the calls a client can make, out of RequestType
    Flags,         \* the flags the server is started with, out of FlagsType
    PowerCanFail   \* whether the machine itself can lose power

MutatingTool == {"Response", "DeviceResponse", "Indicators", "Triage"}

\* "forms": the client supports form elicitation.  "valid": the parameters
\* pass validation and the justification has its ten characters.  "unlisted"
\* is any action no dispatcher knows.
RequestType == [tool : MutatingTool,
                action : {"listed", "offboard", "unlisted"},
                valid : BOOLEAN, forms : BOOLEAN]

FlagsType == [readOnly : BOOLEAN, enable : SUBSET MutatingTool,
              offboarding : BOOLEAN, confirm : BOOLEAN, explicitLog : BOOLEAN]

ASSUME PipelineAssumption ==
    /\ Request \subseteq RequestType
    /\ Flags \subseteq FlagsType
    /\ PowerCanFail \in BOOLEAN

VARIABLES
    up,       \* the server process runs
    config,   \* the flags it was started with
    pc,       \* where each attempt is
    request,  \* the call each attempt makes
    entry,    \* the record the attempt writes, or wrote last, or NoEntry
    answer,   \* what the human answered to the attempt's prompt
    wire,     \* what became of the attempt's upstream request
    log,      \* the audit file: the fragments appended to it, in order
    unlogged  \* history: the attempts whose last record was not written

vars == <<up, config, pc, request, entry, answer, wire, log, unlogged>>

-----------------------------------------------------------------------------

Confirmation == {"Accepted", "Declined", "Unavailable", "TurnedOff",
                 "NotApplicable"}

RejectReason == {"ReadOnly", "CategoryDisabled", "Validation",
                 "ConfirmationUnavailable", "AuditUnavailable"}

UpstreamResult == {"Submitted", "UpstreamError", "TransportError"}

\* With these a mutation goes ahead.
GoAhead == {"Accepted", "TurnedOff", "NotApplicable"}

Entry ==
    [phase : {"Intent"}, confirmation : GoAhead, result : {"Pending"}]
        \cup [phase : {"Outcome"}, confirmation : GoAhead,
              result : UpstreamResult]
        \cup [phase : {"Final"}, confirmation : Confirmation,
              result : {"Declined"} \cup RejectReason]

NoEntry == [phase |-> "none"]

NoRequest == [tool |-> "none"]

\* A fragment is a whole line, or the torn beginning of one.
Fragment == [attempt : Attempt, entry : Entry, whole : BOOLEAN]

\* The places where an attempt is in progress.
Running == {"prompting", "writing", "acting", "sent"}

PC == {"new", "done", "dead"} \cup Running

\* "acceptedLate": accepted when the server no longer waited.
Answer == {"unasked", "pending", "accepted", "acceptedLate", "declined"}

TypeOK ==
    /\ up \in BOOLEAN
    /\ config \in Flags
    /\ pc \in [Attempt -> PC]
    /\ request \in [Attempt -> Request \cup {NoRequest}]
    /\ entry \in [Attempt -> Entry \cup {NoEntry}]
    /\ answer \in [Attempt -> Answer]
    /\ wire \in [Attempt -> {"none", "inflight", "applied", "refused"}]
    /\ log \in Seq(Fragment)
    /\ unlogged \subseteq Attempt

-----------------------------------------------------------------------------
(***************************************************************************)
(* What the configuration allows.                                          *)
(***************************************************************************)

Categories == IF config.readOnly THEN {} ELSE config.enable

ToolEnabled(tool) == tool \in Categories

Offboarding == config.offboarding /\ ToolEnabled("DeviceResponse")

\* A server that cannot open the log it should have does not start.
HasSink == Categories # {} \/ config.explicitLog

\* The router has the tool, and the tool's dispatcher the action.
Known(r) ==
    /\ r.action # "unlisted"
    /\ r.action = "offboard" => r.tool = "DeviceResponse" /\ Offboarding

Destructive(tool) == tool # "Triage"

MustAsk(r) == Destructive(r.tool) /\ config.confirm

\* The confirmation of an attempt that is not put to the human.
Unasked(r) ==
    IF Destructive(r.tool) THEN "TurnedOff" ELSE "NotApplicable"

\* Stages 1 to 3, and call_tool for a tool that has no route, give the first
\* of these reasons that applies.
Rejection(r) ==
    IF config.readOnly THEN "ReadOnly"
    ELSE IF ~ToolEnabled(r.tool) THEN "CategoryDisabled"
    ELSE IF r.action = "offboard" /\ ~Offboarding THEN "CategoryDisabled"
    ELSE IF ~r.valid THEN "Validation"
    ELSE "none"

\* Mutant: the record of a refusal is written as an outcome.
FinalEntryAsOutcome(confirmation, reason) ==
    [phase |-> "Outcome", confirmation |-> confirmation, result |-> reason]

FinalEntry(confirmation, reason) ==
    [phase |-> "Final", confirmation |-> confirmation, result |-> reason]

IntentEntry(confirmation) ==
    [phase |-> "Intent", confirmation |-> confirmation, result |-> "Pending"]

Init ==
    /\ up = TRUE
    /\ config \in Flags
    /\ pc = [a \in Attempt |-> "new"]
    /\ request = [a \in Attempt |-> NoRequest]
    /\ entry = [a \in Attempt |-> NoEntry]
    /\ answer = [a \in Attempt |-> "unasked"]
    /\ wire = [a \in Attempt |-> "none"]
    /\ log = <<>>
    /\ unlogged = {}

-----------------------------------------------------------------------------
(***************************************************************************)
(* The handler, from the call to the confirmation.                         *)
(***************************************************************************)

\* Mutant: an attempt turned down is answered without a record.
WriteIntentOnly(a, e) ==
    /\ entry' = [entry EXCEPT ![a] = e]
    /\ pc' = [pc EXCEPT ![a] =
                IF HasSink /\ e.phase = "Intent" THEN "writing" ELSE "done"]
    /\ unlogged' = IF HasSink THEN unlogged ELSE unlogged \cup {a}

\* The attempt goes on to append e to the log.  Without a log the record goes
\* to stderr only and the call is answered, an intent as audit_unavailable.
Write(a, e) ==
    /\ entry' = [entry EXCEPT ![a] = e]
    /\ pc' = [pc EXCEPT ![a] = IF HasSink THEN "writing" ELSE "done"]
    /\ unlogged' = IF HasSink THEN unlogged ELSE unlogged \cup {a}

Call(a, r) ==
    /\ up
    /\ pc[a] = "new"
    /\ request' = [request EXCEPT ![a] = r]
    /\ UNCHANGED <<up, config, wire, log>>

\* The tool has no route, or stage 1, 2 or 3 turns the call down.
CallRejected(a, r) ==
    /\ Call(a, r)
    /\ ~ToolEnabled(r.tool) \/ Known(r)
    /\ Rejection(r) # "none"
    /\ Write(a, FinalEntry("NotApplicable", Rejection(r)))
    /\ UNCHANGED answer

\* The dispatcher does not know the action, and answers with a protocol error.
CallUnlisted(a, r) ==
    /\ Call(a, r)
    /\ ToolEnabled(r.tool) /\ ~Known(r)
    /\ pc' = [pc EXCEPT ![a] = "done"]
    /\ UNCHANGED <<entry, answer, unlogged>>

CallUnconfirmable(a, r) ==
    /\ Call(a, r)
    /\ Known(r) /\ Rejection(r) = "none"
    /\ MustAsk(r) /\ ~r.forms
    /\ Write(a, FinalEntry("Unavailable", "ConfirmationUnavailable"))
    /\ UNCHANGED answer

CallAsks(a, r) ==
    /\ Call(a, r)
    /\ Known(r) /\ Rejection(r) = "none"
    /\ MustAsk(r) /\ r.forms
    /\ pc' = [pc EXCEPT ![a] = "prompting"]
    /\ answer' = [answer EXCEPT ![a] = "pending"]
    /\ UNCHANGED <<entry, unlogged>>

CallUnasked(a, r) ==
    /\ Call(a, r)
    /\ Known(r) /\ Rejection(r) = "none"
    /\ ~MustAsk(r)
    /\ Write(a, IntentEntry(Unasked(r)))
    /\ UNCHANGED answer

\* "accepted" is an Accept that carries confirm = true; any other reply, and
\* an error of the client, is "declined".  The human may answer long after the
\* server has stopped waiting.
HumanAnswers(a) ==
    /\ answer[a] = "pending"
    /\ \E reply \in {"declined", IF pc[a] = "prompting" THEN "accepted"
                                                    ELSE "acceptedLate"} :
         answer' = [answer EXCEPT ![a] = reply]
    /\ UNCHANGED <<up, config, pc, request, entry, wire, log, unlogged>>

\* Mutant: an answer is taken even while the lapse of the prompt is recorded.
ReceiveAnswerLate(a) ==
    /\ \/ pc[a] = "prompting"
       \/ pc[a] = "writing" /\ entry[a] = FinalEntry("Declined", "Declined")
    /\ answer[a] # "pending"
    /\ IF answer[a] \in {"accepted", "acceptedLate"}
       THEN Write(a, IntentEntry("Accepted"))
       ELSE Write(a, FinalEntry("Declined", "Declined"))
    /\ UNCHANGED <<up, config, request, answer, wire, log>>

ReceiveAnswer(a) ==
    /\ pc[a] = "prompting"
    /\ answer[a] # "pending"
    /\ IF answer[a] = "accepted"
       THEN Write(a, IntentEntry("Accepted"))
       ELSE Write(a, FinalEntry("Declined", "Declined"))
    /\ UNCHANGED <<up, config, request, answer, wire, log>>

\* Mutant: the prompt waits for as long as it takes.
PromptStaysOpen(a) ==
    /\ pc[a] = "prompting"
    /\ UNCHANGED vars

\* ELICITATION_TIMEOUT_SECS pass; an answer on its way is lost.
PromptTimesOut(a) ==
    /\ pc[a] = "prompting"
    /\ Write(a, FinalEntry("Declined", "Declined"))
    /\ UNCHANGED <<up, config, request, answer, wire, log>>

-----------------------------------------------------------------------------
(***************************************************************************)
(* The audit log.  append holds the file's mutex for one whole write, so a *)
(* write is one step; what interrupts it is a failure of the disk, or the  *)
(* end of the process.                                                     *)
(***************************************************************************)

AppendEntry(a, whole) ==
    log' = Append(log, [attempt |-> a, entry |-> entry[a], whole |-> whole])

Recorded(a) ==
    /\ pc[a] = "writing"
    /\ AppendEntry(a, TRUE)
    /\ pc' = [pc EXCEPT ![a] =
                IF entry[a].phase = "Intent" THEN "acting" ELSE "done"]
    /\ UNCHANGED <<up, config, request, entry, answer, wire, unlogged>>

\* Mutant: the log is best effort for intents too.
RecordFailsOpen(a) ==
    /\ pc[a] = "writing"
    /\ \/ UNCHANGED log
       \/ AppendEntry(a, FALSE)
    /\ unlogged' = unlogged \cup {a}
    /\ pc' = [pc EXCEPT ![a] =
                IF entry[a].phase = "Intent" THEN "acting" ELSE "done"]
    /\ UNCHANGED <<up, config, request, entry, answer, wire>>

\* The write fails, with or without part of the line in the file.  A failed
\* intent turns the attempt down, with one more record; any other failure is
\* only reported on stderr.
RecordFails(a) ==
    /\ pc[a] = "writing"
    /\ \/ UNCHANGED log
       \/ AppendEntry(a, FALSE)
    /\ IF entry[a].phase = "Intent"
       THEN Write(a, FinalEntry(entry[a].confirmation, "AuditUnavailable"))
       ELSE /\ pc' = [pc EXCEPT ![a] = "done"]
            /\ unlogged' = unlogged \cup {a}
            /\ UNCHANGED entry
    /\ UNCHANGED <<up, config, request, answer, wire>>

-----------------------------------------------------------------------------
(***************************************************************************)
(* The upstream request and its outcome.                                   *)
(***************************************************************************)

WriteOutcome(a, result) ==
    Write(a, [phase |-> "Outcome", confirmation |-> entry[a].confirmation,
              result |-> result])

\* Nothing is sent: there is no token for the request, or no connection.
UpstreamNotReached(a) ==
    /\ pc[a] = "acting"
    /\ WriteOutcome(a, "TransportError")
    /\ UNCHANGED <<up, config, request, answer, wire, log>>

\* The request leaves.
SendRequest(a) ==
    /\ pc[a] = "acting"
    /\ pc' = [pc EXCEPT ![a] = "sent"]
    /\ wire' = [wire EXCEPT ![a] = "inflight"]
    /\ UNCHANGED <<up, config, request, entry, answer, log, unlogged>>

\* External: the API carries a request out, or refuses it, whenever the
\* request reaches it, whether or not the server still waits.
ApiHandles(a) ==
    /\ wire[a] = "inflight"
    /\ \E handled \in {"applied", "refused"} :
         wire' = [wire EXCEPT ![a] = handled]
    /\ UNCHANGED <<up, config, pc, request, entry, answer, log, unlogged>>

\* Mutant: the status of the answer is not looked at.
ReceiveAnyStatus(a) ==
    /\ pc[a] = "sent"
    /\ wire[a] \in {"applied", "refused"}
    /\ WriteOutcome(a, "Submitted")
    /\ UNCHANGED <<up, config, request, answer, wire, log>>

\* The API's answer arrives.
ReceiveStatus(a) ==
    /\ pc[a] = "sent"
    /\ wire[a] \in {"applied", "refused"}
    /\ WriteOutcome(a, IF wire[a] = "applied" THEN "Submitted"
                       ELSE "UpstreamError")
    /\ UNCHANGED <<up, config, request, answer, wire, log>>

\* REQUEST_TIMEOUT_SECS pass, the answer is lost or unusable, or a gateway
\* answers in place of the API.  The request is not sent again.
UpstreamFails(a) ==
    /\ pc[a] = "sent"
    /\ \E result \in {"TransportError", "UpstreamError"} :
         WriteOutcome(a, result)
    /\ UNCHANGED <<up, config, request, answer, wire, log>>

-----------------------------------------------------------------------------
(***************************************************************************)
(* The process and the machine.                                            *)
(***************************************************************************)

\* Every attempt in progress ends with the process.
ProcessEnds ==
    /\ up' = FALSE
    /\ pc' = [a \in Attempt |-> IF pc[a] \in Running THEN "dead" ELSE pc[a]]
    /\ UNCHANGED <<config, request, entry, answer, wire, unlogged>>

\* The process exits or is killed, perhaps in the middle of a write.
Crash ==
    /\ ProcessEnds
    /\ \/ UNCHANGED log
       \/ \E a \in Attempt : pc[a] = "writing" /\ AppendEntry(a, FALSE)

\* append flushes to the operating system and never syncs the file: what the
\* machine loses with its power is any suffix of the log.
PowerFails ==
    /\ PowerCanFail
    /\ ProcessEnds
    /\ \E kept \in 0 .. Len(log) : log' = SubSeq(log, 1, kept)

End == up /\ (Crash \/ PowerFails)

\* Started again, with the flags of this start and the same log.
Restart ==
    /\ ~up
    /\ up' = TRUE
    /\ config' \in Flags
    /\ UNCHANGED <<pc, request, entry, answer, wire, log, unlogged>>

\* The steps of an attempt its own task takes.
Proceed(a) ==
    \/ ReceiveAnswer(a)
    \/ PromptTimesOut(a)
    \/ Recorded(a)
    \/ RecordFails(a)
    \/ UpstreamNotReached(a)
    \/ SendRequest(a)
    \/ ReceiveStatus(a)
    \/ UpstreamFails(a)

Next ==
    \/ \E a \in Attempt :
        \/ \E r \in Request :
            \/ CallRejected(a, r)
            \/ CallUnlisted(a, r)
            \/ CallUnconfirmable(a, r)
            \/ CallAsks(a, r)
            \/ CallUnasked(a, r)
        \/ HumanAnswers(a)
        \/ Proceed(a)
        \/ ApiHandles(a)
    \/ End
    \/ Restart

Spec == Init /\ [][Next]_vars

\* tokio polls a task that can run, and both waits have a timeout.  The human
\* and the API owe nothing, and nobody owes the server a restart.
Fairness == \A a \in Attempt : WF_vars(Proceed(a))

FairSpec == Spec /\ Fairness

-----------------------------------------------------------------------------
(***************************************************************************)
(* What the pipeline promises.                                             *)
(***************************************************************************)

Logged(a, phase) ==
    \E i \in 1 .. Len(log) :
        log[i].attempt = a /\ log[i].whole /\ log[i].entry.phase = phase

Promise == INSTANCE AuditedMutation WITH
    intended <- {a \in Attempt : Logged(a, "Intent")},
    refused <- {a \in Attempt : Logged(a, "Final")},
    run <- {a \in Attempt : wire[a] # "none"}

\* "Fails closed: intent records must be committed to disk before any mutating
\* request is dispatched upstream": the log and the API keep the promise of
\* AuditedMutation through failed writes, crashes and restarts; a loss
\* of power can take the intent, which is flushed but not synced.
PromiseKept == Promise!Spec

\* A request leaves only if this run of the server enables its tool, and, for
\* offboarding, its flag too; and, if the tool is destructive and confirmation
\* is on, only after the human has accepted while the prompt was open: never
\* because it lapsed, and never for an answer that came after that.
SentAsConfigured ==
    [][\A a \in Attempt : wire[a] = "none" /\ wire'[a] # "none" =>
        /\ ~config.readOnly /\ request[a].tool \in config.enable
        /\ request[a].action = "offboard" => config.offboarding
        /\ MustAsk(request[a]) => answer[a] = "accepted"]_vars

\* What a reader of the log concludes is so: an attempt that was turned down
\* was never sent, one that was submitted was carried out, every outcome has
\* the intent it belongs to, and only what the human accepted says so.
LogTellsTruth ==
    \A i \in 1 .. Len(log) :
        LET a == log[i].attempt
            e == log[i].entry
        IN  /\ e.phase = "Final" => wire[a] = "none"
            /\ e.result = "Submitted" => wire[a] = "applied"
            /\ e.result = "UpstreamError" => wire[a] # "none"
            /\ e.confirmation = "Accepted" => answer[a] = "accepted"
            /\ e.phase = "Outcome" =>
                 \E j \in 1 .. i - 1 :
                    /\ log[j].attempt = a /\ log[j].whole
                    /\ log[j].entry = IntentEntry(e.confirmation)

\* "Every rejection of a known action thus leaves one audit record": an
\* attempt that was answered has its closing record in the log, unless the
\* dispatcher did not know the action or the record could not be written.
AnsweredIsLogged ==
    \A a \in Attempt : pc[a] = "done" =>
        \/ Logged(a, "Final") \/ Logged(a, "Outcome")
        \/ a \in unlogged
        \/ entry[a] = NoEntry

\* Every attempt is answered, or ends with the process, even if the human
\* never answers the prompt and the API never answers the request.
AttemptEnds ==
    \A a \in Attempt : pc[a] \in Running ~> pc[a] \in {"done", "dead"}

\* audit.rs: "Each line is a single UTF-8 JSON object ending in \n".  Not so:
\* what is appended after a torn record shares its line.
LinesAreRecords ==
    \A i \in 2 .. Len(log) : log[i].whole => log[i - 1].whole

\* README: "Every mutating attempt is recorded".  Not so: offboarding a
\* device without --enable-offboarding leaves no record.
EveryAttemptRecorded ==
    \A a \in Attempt :
        /\ pc[a] = "done" /\ a \notin unlogged
        /\ request[a].action # "unlisted"
        => \E i \in 1 .. Len(log) : log[i].attempt = a
====
