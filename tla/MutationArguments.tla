-------------------------- MODULE MutationArguments --------------------------
(***************************************************************************)
(* What the dispatchers of the four mutating tools make of a call's        *)
(* arguments (response_action, device_response_action, indicators_action   *)
(* and triage_action of server.rs, with the validators of validation.rs):  *)
(* the request they would send, the targets and parameters they record in  *)
(* the audit log, and what the human is shown of them (confirm.rs).        *)
(* MutationPipeline models what happens to a call that is accepted here;   *)
(* the flags are all on.                                                   *)
(*                                                                         *)
(* Dispatchers share no state, so there is one call.                       *)
(***************************************************************************)
CONSTANT Call     \* the calls a client can make, out of CallType

VARIABLES
    call,     \* the call being handled, or Idle
    record,   \* what is recorded of it, or NoRecord
    prompt,   \* what the human is asked to confirm, or NoPrompt
    sent      \* the request: what each field it carries is sent as

vars == <<call, record, prompt, sent>>

-----------------------------------------------------------------------------
(***************************************************************************)
(* The calls.  A field is absent, or one of these.                         *)
(***************************************************************************)

ResponseAction == {"collect_investigation_package", "stop_and_quarantine_file",
    "live_response_run", "upload_library_file", "library_file_delete"}

DeviceAction == {"isolate", "unisolate", "restrict_app_execution",
    "unrestrict_app_execution", "run_av_scan", "start_investigation",
    "cancel_machine_action", "tag_add", "tag_remove", "set_device_value",
    "offboard"}

IndicatorAction == {"submit", "delete", "batch_delete"}

CommentAction ==
    {"endpoint_alert_comment", "xdr_alert_comment", "xdr_incident_comment"}

TriageAction == CommentAction \cup {"endpoint_alert_update",
    "endpoint_alert_batch_update", "xdr_alert_update", "xdr_incident_update"}

\* Texts, or lists, of more than 200 characters, the same up to there.
Long == {"long", "longer"}

\* "padded" passes its validator once trimmed, "wrong" passes none and is no
\* justification, "short" passes but is none either.
Text == {"plain", "padded", "short", "wrong"} \cup Long

Status == {"new", "inProgress", "resolved", "active", "redirected"}

Classification ==
    {"truePositive", "informationalExpectedActivity", "falsePositive"}

AllowedFor == [
    truePositive |-> {"multiStagedAttack", "maliciousUserActivity",
        "compromisedAccount", "malware", "phishing", "unwantedSoftware",
        "other"},
    informationalExpectedActivity |-> {"securityTesting",
        "lineOfBusinessApplication", "confirmedActivity", "other"},
    falsePositive |-> {"notMalicious", "notEnoughDataToValidate", "other"}]

Determination == UNION {AllowedFor[c] : c \in Classification}

Hash == {"FileSha1", "FileSha256", "FileMd5", "CertificateThumbprint"}

Network == {"IpAddress", "DomainName", "Url"}

TriageField == {"justification", "id", "ids", "status", "assigned_to",
    "classification", "determination", "tags", "comment"}

DeviceField == {"machine_id", "action_id", "comment", "isolation_type",
    "scan_type", "tag", "device_value"}

IndicatorField == {"comment", "indicator_value", "indicator_type",
    "indicator_action", "title", "description", "severity",
    "expiration_time", "rbac_group_names", "recommended_actions",
    "generate_alert", "indicator_id", "indicator_ids"}

ResponseField == {"machine_id", "comment", "commands", "file_name",
    "file_content", "description", "parameters_description",
    "override_if_exists", "sha1"}

\* Commands of a live response: "other" are of the same types as "plain".
Commands == {"plain", "other", "wrong"} \cup Long

Value(f) ==
    CASE f = "status" -> Status
      [] f = "classification" -> Classification
      [] f = "determination" -> Determination
      [] f = "indicator_type" -> Hash \cup Network
      [] f = "indicator_action" ->
           {"Allowed", "Audit", "Warn", "Block", "BlockAndRemediate"}
      [] f \in {"generate_alert", "override_if_exists"} -> {"true", "false"}
      [] f = "isolation_type" -> {"Full", "Selective", "UnManagedDevice"}
      [] f = "scan_type" -> {"Quick", "Full"}
      [] f \in {"device_value", "severity"} -> {"Low", "High"}
      [] f \in {"recommended_actions", "parameters_description"} ->
           Text \ {"wrong"}     \* these have no validator
      [] f = "commands" -> Commands
      [] f \in {"action_id", "sha1", "tag"} -> Text \ Long
      [] OTHER -> Text

FieldOf(a) ==
    CASE a \in ResponseAction -> ResponseField
      [] a \in DeviceAction -> DeviceField
      [] a \in IndicatorAction -> IndicatorField
      [] a \in TriageAction -> TriageField

\* Closed enums and unknown fields are refused before the handler runs.
IsCall(c) ==
    /\ c.action \in ResponseAction \cup DeviceAction \cup IndicatorAction
                        \cup TriageAction
    /\ DOMAIN c.args \subseteq FieldOf(c.action)
    /\ \A f \in DOMAIN c.args : c.args[f] \in Value(f)

\* What is assumed of the constant.
ArgumentAssumption == \A c \in Call : IsCall(c)

Given(c) == DOMAIN c.args

-----------------------------------------------------------------------------
(***************************************************************************)
(* The fields each action uses, needs and sends.  The code says so in      *)
(* three places, and so do these definitions.                              *)
(***************************************************************************)

\* The two actions of defender_response that look at no field they do not use.
Unchecked == {"collect_investigation_package", "stop_and_quarantine_file"}

ResponseUses(a) ==
    CASE a \in Unchecked -> ResponseField
      [] a = "live_response_run" -> {"machine_id", "commands", "comment"}
      [] a = "upload_library_file" -> {"file_name", "file_content", "comment",
             "description", "parameters_description", "override_if_exists"}
      [] a = "library_file_delete" -> {"file_name", "comment"}

DeviceUses(a) ==
    {"comment"} \cup
    CASE a = "cancel_machine_action" -> {"action_id"}
      [] a = "isolate" -> {"machine_id", "isolation_type"}
      [] a = "run_av_scan" -> {"machine_id", "scan_type"}
      [] a \in {"tag_add", "tag_remove"} -> {"machine_id", "tag"}
      [] a = "set_device_value" -> {"machine_id", "device_value"}
      [] OTHER -> {"machine_id"}

IndicatorUses(a) ==
    CASE a = "submit" -> IndicatorField \ {"indicator_id", "indicator_ids"}
      [] a = "delete" -> {"comment", "indicator_id"}
      [] a = "batch_delete" -> {"comment", "indicator_ids"}

Updated == {"status", "assigned_to", "classification", "determination"}

\* Mutant: the tags given for a batch are overlooked.
TriageUsesTags(a) ==
    {"justification"} \cup
    CASE a \in CommentAction -> {"id", "comment"}
      [] a = "endpoint_alert_batch_update" ->
           Updated \cup {"ids", "comment", "tags"}
      [] a = "endpoint_alert_update" -> Updated \cup {"id", "comment"}
      [] a = "xdr_alert_update" -> Updated \cup {"id"}
      [] a = "xdr_incident_update" -> Updated \cup {"id", "tags"}

TriageUses(a) ==
    {"justification"} \cup
    CASE a \in CommentAction -> {"id", "comment"}
      [] a = "endpoint_alert_batch_update" -> Updated \cup {"ids", "comment"}
      [] a = "endpoint_alert_update" -> Updated \cup {"id", "comment"}
      [] a = "xdr_alert_update" -> Updated \cup {"id"}
      [] a = "xdr_incident_update" -> Updated \cup {"id", "tags"}

Uses(a) ==
    CASE a \in ResponseAction -> ResponseUses(a)
      [] a \in DeviceAction -> DeviceUses(a)
      [] a \in IndicatorAction -> IndicatorUses(a)
      [] a \in TriageAction -> TriageUses(a)

Needs(a) ==
    CASE a = "collect_investigation_package" -> {"machine_id"}
      [] a = "stop_and_quarantine_file" -> {"machine_id", "sha1"}
      [] a = "live_response_run" -> {"machine_id", "commands", "comment"}
      [] a = "upload_library_file" ->
           {"file_name", "file_content", "description"}
      [] a = "library_file_delete" -> {"file_name"}
      [] a \in DeviceAction -> DeviceUses(a) \ {"comment", "isolation_type"}
      [] a = "submit" -> {"title", "description", "indicator_value",
                          "indicator_type", "indicator_action"}
      [] a = "delete" -> {"indicator_id"}
      [] a = "batch_delete" -> {"indicator_ids"}
      [] a = "endpoint_alert_batch_update" -> {"ids"}
      [] a \in CommentAction -> {"id", "comment"}
      [] OTHER -> {"id"}

\* An update has at least one of these; a determination alone is none.
Changes(a) ==
    {"status", "assigned_to", "classification"} \cup
    CASE a \in {"endpoint_alert_update", "endpoint_alert_batch_update"} ->
           {"comment"}
      [] a = "xdr_incident_update" -> {"tags"}
      [] OTHER -> {}

\* The fields that go into the request, in its path or its body.
Sends(a) ==
    CASE a = "collect_investigation_package" -> {"machine_id", "comment"}
      [] a = "stop_and_quarantine_file" -> {"machine_id", "sha1", "comment"}
      [] a = "live_response_run" -> {"machine_id", "commands", "comment"}
      [] a = "upload_library_file" -> {"file_name", "file_content",
             "description", "parameters_description", "override_if_exists"}
      [] a = "library_file_delete" -> {"file_name"}
      [] a = "cancel_machine_action" -> {"action_id", "comment"}
      [] a = "isolate" -> {"machine_id", "comment", "isolation_type"}
      [] a = "run_av_scan" -> {"machine_id", "comment", "scan_type"}
      [] a \in {"tag_add", "tag_remove"} -> {"machine_id", "tag"}
      [] a = "set_device_value" -> {"machine_id", "device_value"}
      [] a = "submit" -> {"indicator_value", "indicator_type",
             "indicator_action", "title", "description", "severity",
             "expiration_time", "rbac_group_names", "recommended_actions",
             "generate_alert"}
      [] a = "delete" -> {"indicator_id"}
      [] a = "batch_delete" -> {"indicator_ids"}
      [] a = "endpoint_alert_batch_update" -> Updated \cup {"ids", "comment"}
      [] a \in TriageAction \ {"endpoint_alert_batch_update"} ->
           Updated \cup {"id", "comment", "tags"}
      [] OTHER -> {"machine_id", "comment"}

-----------------------------------------------------------------------------
(***************************************************************************)
(* Validation.                                                             *)
(***************************************************************************)

Unused(c) == Given(c) \ Uses(c.action)

ChangesNothing(c) ==
    /\ c.action \in TriageAction \ CommentAction
    /\ Given(c) \cap Changes(c.action) = {}

\* Mutant: a pair is looked at only when it is one.
PairValidIfBoth(c) ==
    {"classification", "determination"} \subseteq Given(c) =>
        c.args["determination"] \in AllowedFor[c.args["classification"]]

PairValid(c) ==
    "determination" \in Given(c) =>
        /\ "classification" \in Given(c)
        /\ c.args["determination"] \in AllowedFor[c.args["classification"]]

StatusValid(c) ==
    "status" \in Given(c) =>
        c.args["status"] \in
            IF c.action = "xdr_incident_update"
            THEN Status \ {"new"} ELSE Status \ {"active", "redirected"}

ActionValid(c) ==
    c.action = "submit" =>
        LET type == c.args["indicator_type"]
            act == c.args["indicator_action"]
        IN  /\ act = "BlockAndRemediate" => type \in Hash
            /\ act = "Warn" => type \in Network
            /\ act = "Audit" /\ "generate_alert" \in Given(c) =>
                 c.args["generate_alert"] = "true"

\* What goes nowhere has no validator, nor has a comment outside triage.
Validated(a) ==
    IF a \in TriageAction THEN Sends(a) ELSE Sends(a) \ {"comment"}

\* A machine is a hash but to a live response, most indicators are as short.
TooLong(c) ==
    {f \in Given(c) \cap {"machine_id", "indicator_value"} :
        /\ c.args[f] \in Long
        /\ c.action # "live_response_run"
        /\ f = "indicator_value" =>
             c.args["indicator_type"] \notin {"DomainName", "Url"}}

\* The fields whose validator refuses them.
Wrong(c) ==
    {f \in Given(c) \cap Validated(c.action) :
        c.args[f] = "wrong" \/ f \in TooLong(c)}

Valid(c) ==
    Wrong(c) = {} /\ PairValid(c) /\ StatusValid(c) /\ ActionValid(c)

\* The field the justification is taken from.
Reason(c) ==
    CASE c.action \in TriageAction -> "justification"
      [] c.action = "upload_library_file" /\ "comment" \notin Given(c) ->
           "description"
      [] OTHER -> "comment"

Justified(c) ==
    Reason(c) \in Given(c) /\ c.args[Reason(c)] \notin {"short", "wrong"}

-----------------------------------------------------------------------------
(***************************************************************************)
(* The request and the record.                                             *)
(***************************************************************************)

\* What names the objects a request changes.
Names == {"machine_id", "action_id", "sha1", "file_name", "id", "ids",
          "indicator_id", "indicator_ids", "indicator_value"}

\* The text whose trimmed form is used from the validator on.  Lists, the
\* value of an indicator and all other text go out as they came.
Trimmed(a) ==
    (Names \ {"ids", "indicator_ids", "indicator_value"}) \cup {"tag"}
        \cup (IF a = "upload_library_file" THEN {"description"} ELSE {})

\* What is wrong becomes the empty string.
Trim(value) ==
    CASE value = "padded" -> "plain"
      [] value = "wrong" -> ""
      [] OTHER -> value

\* Endpoint and Graph name the same thing in words of their own, the batch
\* endpoint in some that its sibling does not have.
MeaningAt(a, d) ==
    IF a \notin {"endpoint_alert_update", "endpoint_alert_batch_update"} THEN d
    ELSE CASE d = "compromisedAccount" -> "CompromisedUser"
           [] d = "notEnoughDataToValidate" -> "InsufficientData"
           [] d = "confirmedActivity" /\ a = "endpoint_alert_batch_update" ->
                "ConfirmedUserActivity"
           [] d = "notMalicious" /\ a = "endpoint_alert_batch_update" -> "Clean"
           [] OTHER -> d

\* isolation_type is Full unless given, and an Audit indicator always alerts.
Defaults(c) ==
    (IF c.action = "isolate" THEN {"isolation_type"} ELSE {})
        \cup (IF c.action = "submit" /\ c.args["indicator_action"] = "Audit"
              THEN {"generate_alert"} ELSE {})

\* A given field as the code has it after validation.
Argument(c, f) ==
    IF f \notin Given(c) THEN IF f = "isolation_type" THEN "Full" ELSE "true"
    ELSE IF f \in Trimmed(c.action) THEN Trim(c.args[f]) ELSE c.args[f]

RequestOf(c) ==
    [f \in (Sends(c.action) \cap Given(c)) \cup Defaults(c) |->
        IF f = "determination" THEN MeaningAt(c.action, c.args[f])
        ELSE Argument(c, f)]

\* Mutant: the target is recorded as it was given.
TargetsAsGiven(c) ==
    {[field |-> f, value |-> c.args[f]] : f \in Names \cap Given(c)}

\* A list of ids is recorded whatever is in it, any other name only if it is
\* valid: with a few actions only if everything is.
Targets(c) ==
    {[field |-> f, value |-> Argument(c, f)] :
        f \in {n \in Names \cap Sends(c.action) \cap Given(c) :
            \/ n \in {"ids", "indicator_ids"}
            \/ /\ n \notin Wrong(c)
               /\ c.action \in {"live_response_run", "upload_library_file",
                                "library_file_delete"} => Valid(c)}}

\* The parameters shown to the human and recorded.  The number of ids to
\* delete, which is shown too, is left out.
Shown == Updated \cup {"isolation_type", "scan_type", "tag", "device_value",
    "indicator_type", "indicator_action", "severity", "commands",
    "parameters_description", "override_if_exists"}

\* The types of commands, without what is run and with which arguments.
TypesOf(commands) == IF commands = "other" THEN "plain" ELSE commands

\* A parameter in the form it is recorded in.
Kept(f, value) == IF f = "commands" THEN TypesOf(value) ELSE value

Parameters(c) ==
    LET shown == Shown \cap (Given(c) \cup (Defaults(c) \cap {"isolation_type"}))
    IN  [f \in IF c.action \in Unchecked THEN {} ELSE shown |->
            Kept(f, Argument(c, f))]

\* The prompt shows 200 characters of each value, and then an ellipsis.
Cut(value) == IF value \in Long THEN "cut" ELSE value

\* The prompt: a line for each target, the parameters and the reason.
Message(c) ==
    [targets |-> {[field |-> t.field, value |-> Cut(t.value)] :
                     t \in Targets(c)},
     parameters |-> [f \in DOMAIN Parameters(c) |-> Cut(Parameters(c)[f])],
     reason |-> Cut(Trim(c.args[Reason(c)]))]

-----------------------------------------------------------------------------

Idle == [action |-> "none"]

NoRecord == [result |-> "none"]

NoPrompt == [targets |-> {}]

NotSent == [f \in {} |-> ""]

Init ==
    /\ call = Idle /\ record = NoRecord
    /\ prompt = NoPrompt /\ sent = NotSent

Record(result, targets, parameters) ==
    record' = [result |-> result, targets |-> targets,
               parameters |-> parameters]

NoParameters == [f \in {} |-> ""]

Handle(c) == call' = c

\* A field the action does not use, named in the error.
RejectUnused(c) ==
    /\ Handle(c)
    /\ Unused(c) # {}
    /\ Record("Validation", {}, NoParameters)
    /\ UNCHANGED <<prompt, sent>>

RejectNoChange(c) ==
    /\ Handle(c)
    /\ Unused(c) = {}
    /\ ChangesNothing(c)
    /\ Record("Validation", {}, NoParameters)
    /\ UNCHANGED <<prompt, sent>>

\* A protocol error, which audit_validation_error turns into a record.
RejectMissing(c) ==
    /\ Handle(c)
    /\ Unused(c) = {} /\ ~ChangesNothing(c)
    /\ ~(Needs(c.action) \subseteq Given(c))
    /\ Record("Validation", {}, NoParameters)
    /\ UNCHANGED <<prompt, sent>>

Complete(c) ==
    Unused(c) = {} /\ ~ChangesNothing(c) /\ Needs(c.action) \subseteq Given(c)

\* A value is wrong, or the justification is missing or too short.
RejectInvalid(c) ==
    /\ Handle(c)
    /\ Complete(c)
    /\ ~Valid(c) \/ ~Justified(c)
    /\ Record("Validation", Targets(c), Parameters(c))
    /\ UNCHANGED <<prompt, sent>>

\* The call goes on to its confirmation, if its tool is a destructive one,
\* with the request it will send.
Accept(c) ==
    /\ Handle(c)
    /\ Complete(c)
    /\ Valid(c) /\ Justified(c)
    /\ Record("Pending", Targets(c), Parameters(c))
    /\ prompt' = IF c.action \in TriageAction THEN NoPrompt ELSE Message(c)
    /\ sent' = RequestOf(c)

Return ==
    /\ call # Idle
    /\ call' = Idle /\ record' = NoRecord
    /\ prompt' = NoPrompt /\ sent' = NotSent

Next ==
    \/ /\ call = Idle
       /\ \E c \in Call :
            \/ RejectUnused(c)
            \/ RejectNoChange(c)
            \/ RejectMissing(c)
            \/ RejectInvalid(c)
            \/ Accept(c)
    \/ Return

Spec == Init /\ [][Next]_vars

-----------------------------------------------------------------------------
(***************************************************************************)
(* What the dispatchers promise.                                           *)
(***************************************************************************)

Accepted == record.result = "Pending"

\* "field ... is not used by action ...": what a client gives is in the
\* request, or is the justification, or the call is rejected: never does a
\* call go out without something it asked for.  The two actions that do not
\* look at the fields they do not use are left out.
NothingDropped ==
    Accepted /\ call.action \notin Unchecked =>
        Given(call) \subseteq DOMAIN sent \cup {Reason(call)}

\* What the log keeps is what is sent: the targets are exactly the objects the
\* request names, in the form it names them, and every parameter is sent as it
\* is recorded, but that of commands only the types are.  What the human
\* confirms is no other: it is the same targets and parameters, each whole up
\* to 200 characters and cut from there: two names that differ only later are
\* not told apart in it.
RecordedIsSent ==
    Accepted =>
        /\ record.targets = {[field |-> f, value |-> sent[f]] :
                                f \in Names \cap DOMAIN sent}
        /\ \A f \in DOMAIN record.parameters :
             /\ f \in DOMAIN sent
             /\ f # "determination" => record.parameters[f] = Kept(f, sent[f])
        /\ prompt # NoPrompt =>
             /\ prompt.targets = {[field |-> f, value |-> Cut(sent[f])] :
                                     f \in Names \cap DOMAIN sent}
             /\ \A f \in DOMAIN prompt.parameters :
                  /\ f \in DOMAIN sent
                  /\ prompt.parameters[f] = Cut(Kept(f, sent[f]))

\* A determination that is sent goes with its classification, and the word it
\* is sent as says nothing else of an alert of that classification.
DeterminationKept ==
    Accepted /\ "determination" \in DOMAIN sent =>
        /\ "classification" \in DOMAIN sent
        /\ {d \in AllowedFor[sent["classification"]] :
              MeaningAt(call.action, d) = sent["determination"]}
             = {call.args["determination"]}
====
