----------------------------- MODULE Permissions -----------------------------
(***************************************************************************)
(* Which call may send which request, and with which permission: the tool  *)
(* dispatchers of DefenderServer (server.rs), the mutation categories      *)
(* (cli.rs), the scopes a sign-in asks for and the permission categories   *)
(* a refusal is explained with (auth.rs).                                  *)
(*                                                                         *)
(* The code keeps these as separate tables that have to agree.  A server   *)
(* is started with some flags, then handles one call after the other;      *)
(* calls share nothing here, so one at a time shows every behaviour.       *)
(* Arguments are valid or not.  What happens inside the mutation pipeline  *)
(* is MutationPipeline's; what happens to an SAS link is Staging's.        *)
(***************************************************************************)
EXTENDS FiniteSets

CONSTANT FlagSets   \* the sets of --enable-... flags a server is started with

Flags == {"live_response", "device_response", "offboarding", "indicators",
          "triage"}

ASSUME FlagSetsAssumption == FlagSets \subseteq SUBSET Flags

(***************************************************************************)
(* Tools and their actions.                                                *)
(***************************************************************************)
HuntingActions == {"validate", "run", "schema", "tables"}

ProfileReads ==
    {"intel_profiles_list", "intel_profile_get",
     "intel_profile_indicators_list", "intel_profile_indicator_get",
     "intel_profile_indicators_global_list"}

ArticleReads ==
    {"articles_list", "article_get", "article_indicators_list",
     "article_indicator_get", "article_indicators_global_list"}

HostReads ==
    {"host_get", "host_reputation_get", "host_components_list",
     "host_component_get", "host_cookies_list", "host_cookie_get",
     "host_ports_list", "host_port_get"}

HostDetailReads ==
    {"host_trackers_list", "host_tracker_get", "host_subdomains_list",
     "host_ssl_certs_list", "host_whois_get", "host_whois_history_list"}

HostPairReads ==
    {"host_pairs_list", "host_pair_get", "host_child_pairs_list",
     "host_parent_pairs_list", "host_passive_dns_list",
     "host_passive_dns_reverse_list"}

RecordReads ==
    {"ssl_certs_list", "ssl_cert_get", "ssl_cert_related_hosts_list",
     "whois_records_list", "whois_record_get", "passive_dns_get",
     "vulnerability_get", "vulnerability_components_list",
     "vulnerability_component_get"}

GraphTiActions ==
    ProfileReads \cup ArticleReads \cup HostReads \cup HostDetailReads
        \cup HostPairReads \cup RecordReads

TiActions == GraphTiActions \cup {"custom_indicator_list"}

XdrReads ==
    {"xdr_alert_list", "xdr_alert_get", "xdr_incident_list",
     "xdr_incident_get"}

RelatedAlertReads ==
    {"endpoint_alert_list", "endpoint_alert_get", "ip_related_alerts",
     "domain_related_alerts", "file_related_alerts", "user_related_alerts"}

IncidentsAlertsActions == XdrReads \cup RelatedAlertReads

DeviceReads ==
    {"machine_list", "machine_get", "logged_on_users", "find_by_tag",
     "installed_software", "security_recommendations"}

EntityReads ==
    {"ip_statistics", "domain_statistics", "domain_related_machines",
     "file_get", "file_statistics", "file_related_machines",
     "user_related_machines"}

MachinesActions ==
    DeviceReads \cup EntityReads
        \cup {"find_by_ip", "machine_alerts", "machine_vulnerabilities",
              "machine_missing_kbs"}

SoftwareReads ==
    {"software_list", "software_get", "software_machines",
     "software_vulnerabilities", "software_missing_kbs",
     "software_distribution"}

VulnerabilityReads ==
    {"vulnerability_list", "vulnerability_get_by_cve",
     "vulnerability_get_machines", "vulnerability_get_by_machine_software"}

RecommendationReads ==
    {"recommendation_list", "recommendation_get", "recommendation_machines",
     "recommendation_vulnerabilities", "recommendation_by_software"}

RemediationReads ==
    {"remediation_list", "remediation_get", "remediation_exposed_devices"}

ScoreReads == {"exposure_score", "exposure_score_by_machine_groups"}

VulnerabilitiesActions ==
    SoftwareReads \cup VulnerabilityReads \cup RecommendationReads
        \cup RemediationReads \cup ScoreReads

ForensicsActions ==
    {"machine_action_list", "machine_action_get_status",
     "get_investigation_package_sas_url", "download_investigation_package",
     "download_quarantined_file", "live_response_get_result",
     "investigation_list", "investigation_get", "library_file_list"}

ResponseActions ==
    {"collect_investigation_package", "live_response_run",
     "upload_library_file", "stop_and_quarantine_file", "library_file_delete"}

DeviceResponseActions ==
    {"isolate", "unisolate", "restrict_app_execution",
     "unrestrict_app_execution", "run_av_scan", "start_investigation",
     "cancel_machine_action", "tag_add", "tag_remove", "set_device_value",
     "offboard"}

IndicatorsActions == {"submit", "delete", "batch_delete"}

EndpointTriage ==
    {"endpoint_alert_update", "endpoint_alert_batch_update",
     "endpoint_alert_comment"}

XdrTriage ==
    {"xdr_alert_update", "xdr_alert_comment", "xdr_incident_update",
     "xdr_incident_comment"}

TriageActions == EndpointTriage \cup XdrTriage

ReadTools ==
    {"hunting", "ti", "incidents_alerts", "machines", "vulnerabilities",
     "forensics"}

MutatingTools == {"response", "device_response", "indicators", "triage"}

Actions ==
    [hunting |-> HuntingActions,
     ti |-> TiActions,
     incidents_alerts |-> IncidentsAlertsActions,
     machines |-> MachinesActions,
     vulnerabilities |-> VulnerabilitiesActions,
     forensics |-> ForensicsActions,
     response |-> ResponseActions,
     device_response |-> DeviceResponseActions,
     indicators |-> IndicatorsActions,
     triage |-> TriageActions]

(***************************************************************************)
(* Scopes.                                                                 *)
(***************************************************************************)
EndpointRead ==
    {"Machine.Read", "Alert.Read", "Vulnerability.Read", "Software.Read",
     "SecurityRecommendation.Read", "Score.Read", "RemediationTasks.Read",
     "User.Read.All"}

WriteNamed ==
    {"Machine.ReadWrite", "Alert.ReadWrite", "Ti.ReadWrite", "Library.Manage"}

GraphRead ==
    {"ThreatHunting.Read.All", "ThreatIntelligence.Read.All",
     "SecurityAlert.Read.All", "SecurityIncident.Read.All"}

\* PermissionCategory::delegated_scope: what a refusal says is required.
DelegatedScopes ==
    [ReadEndpoint |-> EndpointRead,
     ReadGraph |-> GraphRead,
     ReadWriteNamed |-> WriteNamed,
     LiveResponse |-> {"Machine.LiveResponse", "Machine.CollectForensics",
                       "Machine.StopAndQuarantine", "Library.Manage"},
     DeviceResponse |-> {"Machine.Isolate", "Machine.RestrictExecution",
                         "Machine.Scan", "Machine.ReadWrite",
                         "Alert.ReadWrite"},
     Offboarding |-> {"Machine.Offboard"},
     Indicators |-> {"Ti.ReadWrite"},
     Triage |-> {"Alert.ReadWrite", "SecurityAlert.ReadWrite.All",
                 "SecurityIncident.ReadWrite.All"}]

\* The scope check_scope_not_requested names for a read.  For find_by_ip and
\* user_related_machines the README has a scope that does with reading.
ScopeTable ==
    [scope \in WriteNamed |->
        CASE scope = "Machine.ReadWrite" ->
                {"domain_related_machines", "file_related_machines",
                 "user_related_machines", "find_by_ip",
                 "download_quarantined_file", "download_live_response_result",
                 "live_response_get_result"}
          [] scope = "Alert.ReadWrite" ->
                {"file_related_alerts", "machine_alerts",
                 "get_investigation_package_sas_url",
                 "download_investigation_package", "investigation_list",
                 "investigation_get"}
          [] scope = "Ti.ReadWrite" -> {"custom_indicator_list"}
          [] scope = "Library.Manage" -> {"library_file_list"}]

\* The category an action's request is explained with.
Category(a) ==
    CASE a \in ResponseActions -> "LiveResponse"
      [] a = "offboard" -> "Offboarding"
      [] a \in DeviceResponseActions \ {"offboard"} -> "DeviceResponse"
      [] a \in IndicatorsActions \cup {"custom_indicator_list"} -> "Indicators"
      [] a \in TriageActions -> "Triage"
      [] a \in {"find_by_ip", "machine_alerts", "investigation_list",
                "investigation_get", "library_file_list"} -> "ReadWriteNamed"
      [] a \in HuntingActions \cup GraphTiActions \cup XdrReads -> "ReadGraph"
      [] OTHER -> "ReadEndpoint"

\* The API an action's request goes to: GraphClient or EndpointClient.
Audience(a) ==
    IF a \in HuntingActions \cup GraphTiActions \cup XdrReads \cup XdrTriage
    THEN "Graph" ELSE "Endpoint"

(***************************************************************************)
(* State.                                                                  *)
(***************************************************************************)
VARIABLES
    config,   \* how the server was started
    stage,    \* "idle", "called", "sent" or "answered"
    call,     \* the call being handled
    answer    \* its answer: what it says and which scopes it names

vars == <<config, stage, call, answer>>

Configs == [auth : {"App", "User"}, readOnly : BOOLEAN, flags : FlagSets]

\* An action name may be of another tool, or of none.
Calls ==
    UNION {{[tool |-> t, action |-> a] :
                a \in Actions[t] \cup {"no_such_action"}
                        \cup UNION {ScopeTable[s] : s \in WriteNamed}} :
           t \in DOMAIN Actions}

NoCall == [tool |-> "none", action |-> "none"]

Unanswered == [says |-> "nothing", scopes |-> {}]

Init ==
    /\ config \in Configs
    /\ stage = "idle"
    /\ call = NoCall
    /\ answer = Unanswered

\* Mutants: the flags hold under --read-only, and
\* --enable-offboarding brings its tool along.
CategoriesAnyway ==
    {f \in config.flags :
        f = "offboarding" => "device_response" \in config.flags}

CategoriesLoose ==
    IF config.readOnly THEN {}
    ELSE config.flags
            \cup (IF "offboarding" \in config.flags
                  THEN {"device_response"} ELSE {})

\* MutationCategories::from_flags.
Categories ==
    IF config.readOnly THEN {}
    ELSE {f \in config.flags :
            f = "offboarding" => "device_response" \in config.flags}

\* MutationCategories::tool_enabled; the category has its tool's name, but
\* for Live Response.
ToolEnabled(t) ==
    (IF t = "response" THEN "live_response" ELSE t) \in Categories

\* compute_audience_scopes, both audiences together.
Requested ==
    EndpointRead \cup GraphRead
        \cup (IF config.readOnly THEN {} ELSE WriteNamed)
        \cup (IF "live_response" \in Categories
              THEN DelegatedScopes.LiveResponse ELSE {})
        \cup (IF "device_response" \in Categories
              THEN DelegatedScopes.DeviceResponse ELSE {})
        \cup (IF "offboarding" \in Categories
              THEN DelegatedScopes.Offboarding ELSE {})
        \cup (IF "indicators" \in Categories
              THEN DelegatedScopes.Indicators ELSE {})
        \cup (IF "triage" \in Categories
              THEN DelegatedScopes.Triage ELSE {})

(***************************************************************************)
(* Handling a call.                                                        *)
(***************************************************************************)
Answer(says, scopes) ==
    /\ stage' = "answered"
    /\ answer' = [says |-> says, scopes |-> scopes]
    /\ UNCHANGED <<config, call>>

Receive(c) ==
    /\ stage = "idle"
    /\ stage' = "called"
    /\ call' = c
    /\ answer' = Unanswered
    /\ UNCHANGED config

\* A tool whose category is off has no route: call_tool answers for it.
RouteMissing ==
    /\ stage = "called"
    /\ call.tool \in MutatingTools
    /\ ~ToolEnabled(call.tool)
    /\ Answer(IF config.readOnly THEN "read_only" ELSE "category_disabled", {})

\* Mutant: one dispatcher does not do it.
MissingScopeNotInForensics ==
    IF /\ call.tool \in {"ti", "incidents_alerts", "machines"}
       /\ config.auth = "User"
       /\ config.readOnly
    THEN {s \in WriteNamed : call.action \in ScopeTable[s]}
    ELSE {}

\* The dispatchers of four tools look the name up before they match it.
MissingScope ==
    IF /\ call.tool \in {"ti", "incidents_alerts", "machines", "forensics"}
       /\ config.auth = "User"
       /\ config.readOnly
    THEN {s \in WriteNamed : call.action \in ScopeTable[s]}
    ELSE {}

RefuseScope ==
    /\ stage = "called"
    /\ MissingScope # {}
    /\ Answer("scope_not_requested", MissingScope)

Known ==
    /\ call.action \in Actions[call.tool]
    /\ call.action = "offboard" => "offboarding" \in Categories

Dispatched ==
    /\ stage = "called"
    /\ call.tool \in MutatingTools => ToolEnabled(call.tool)
    /\ MissingScope = {}

\* Unknown action, or arguments the action's handler does not accept.
Invalid ==
    /\ Dispatched
    /\ Answer("invalid", {})

\* validate and tables ask nobody; schema may be in the cache, a query may
\* break the policy.
AnswerLocally ==
    /\ Dispatched /\ Known
    /\ call.tool = "hunting"
    /\ \/ Answer("ok", {}) /\ call.action # "run"
       \/ Answer("not_run", {}) /\ call.action = "run"

\* defender_endpoint_live_response_get_result is behind Live Response.
Gated ==
    /\ call.action = "live_response_get_result"
    /\ "live_response" \notin Categories

GateLiveResponse ==
    /\ Dispatched /\ Known /\ Gated
    /\ Answer("live_response_disabled", {})

\* execute_mutation: the read-only barrier, the category, then validation,
\* the human and the intent record, each of which may end the call.
Rejected ==
    /\ Dispatched /\ Known
    /\ call.tool \in MutatingTools
    /\ Answer("rejected", {})

MayMutate ==
    /\ ~config.readOnly
    /\ ToolEnabled(call.tool)
    /\ call.action = "offboard" => "offboarding" \in Categories

MaySend ==
    /\ Dispatched /\ Known /\ ~Gated
    /\ call.action \notin {"validate", "tables"}
    /\ call.tool \in MutatingTools => MayMutate

\* ApiClient::request: no token for the audience, no request.
NoToken ==
    /\ MaySend
    /\ Answer("no_token", {})

Send ==
    /\ MaySend
    /\ stage' = "sent"
    /\ UNCHANGED <<config, call, answer>>

\* http_error: in user mode a 403 names the category's delegated scopes.
Denied ==
    /\ stage = "sent"
    /\ Answer("permission_denied",
              IF config.auth = "User"
              THEN DelegatedScopes[Category(call.action)] ELSE {})

Replied ==
    /\ stage = "sent"
    /\ \E says \in {"ok", "failed"} : Answer(says, {})

Done ==
    /\ stage = "answered"
    /\ stage' = "idle"
    /\ call' = NoCall
    /\ answer' = Unanswered
    /\ UNCHANGED config

Next ==
    \/ \E c \in Calls : Receive(c)
    \/ RouteMissing
    \/ RefuseScope
    \/ Invalid
    \/ AnswerLocally
    \/ GateLiveResponse
    \/ Rejected
    \/ NoToken
    \/ Send
    \/ Denied
    \/ Replied
    \/ Done

Spec == Init /\ [][Next]_vars

-----------------------------------------------------------------------------
(***************************************************************************)
(* Properties.                                                             *)
(***************************************************************************)

\* Between calls nothing of the last one is left, a request is under way only
\* for a call, and an answer names scopes the code knows.
TypeOK ==
    /\ config \in Configs
    /\ stage \in {"idle", "called", "sent", "answered"}
    /\ call \in Calls \cup {NoCall}
    /\ call = NoCall <=> stage = "idle"
    /\ answer.says \in {"nothing", "read_only", "category_disabled",
                        "scope_not_requested", "invalid", "ok", "not_run",
                        "live_response_disabled", "rejected", "no_token",
                        "permission_denied", "failed"}
    /\ answer.says = "nothing" <=> stage # "answered"
    /\ answer.scopes \subseteq UNION {DelegatedScopes[c] :
                                        c \in DOMAIN DelegatedScopes}

\* When a request of a signed-in user is refused, the scopes the answer tells
\* the user to hold are scopes the sign-in asked for: delegated_scope,
\* compute_audience_scopes and check_scope_not_requested, three tables kept
\* apart, agree for every action, every flag set and both modes.  Were they
\* to disagree, no role or consent the user could be given would help.
ExplainedScopesRequested ==
    answer.says = "permission_denied" /\ config.auth = "User"
        => answer.scopes \subseteq Requested

\* Under --read-only the sign-in asks for reading scopes alone and no request
\* of a mutating tool is sent, whatever --enable flags are given with it.
ReadOnlyMeansRead ==
    config.readOnly =>
        /\ Requested \subseteq EndpointRead \cup GraphRead
        /\ stage = "sent" => call.tool \in ReadTools

\* The flags a mutating call has to be enabled with.
EnablingFlags(c) ==
    CASE c.tool = "response" -> {"live_response"}
      [] c.action = "offboard" -> {"device_response", "offboarding"}
      [] OTHER -> {c.tool}

\* A mutating request is sent only by a server started with the flag of its
\* category, an offboarding only with the flag of its tool as well: the route
\* table, the list of known actions and the pipeline's own check together
\* leave no way around the flags.
SentOnlyIfEnabled ==
    stage = "sent" /\ call.tool \in MutatingTools
        => EnablingFlags(call) \subseteq config.flags

\* The delegated scopes the README's list of upstream permissions accepts for
\* the reads of defender_machines and defender_vulnerabilities.
DocumentedScopes(a) ==
    CASE a \in {"machine_list", "machine_get", "find_by_tag", "find_by_ip"} ->
            {"Machine.Read", "Machine.ReadWrite"}
      [] a \in {"logged_on_users", "user_related_machines"} ->
            {"User.Read.All"}
      [] a \in SoftwareReads
                \cup {"installed_software", "machine_missing_kbs"} ->
            {"Software.Read"}
      [] a \in RecommendationReads \cup {"security_recommendations"} ->
            {"SecurityRecommendation.Read"}
      [] a = "machine_alerts" -> {"Alert.ReadWrite"}
      [] a \in VulnerabilityReads \cup {"machine_vulnerabilities"} ->
            {"Vulnerability.Read"}
      [] a = "ip_statistics" -> {"Ip.Read"}
      [] a = "domain_statistics" -> {"URL.Read"}
      [] a \in {"file_get", "file_statistics"} -> {"File.Read"}
      [] a \in {"domain_related_machines", "file_related_machines"} ->
            {"Machine.ReadWrite"}
      [] a \in RemediationReads -> {"RemediationTasks.Read"}
      [] a \in ScoreReads -> {"Score.Read"}

\* A read of the two tools that is sent for a signed-in user carries a scope
\* the README says it needs.
DocumentedScopeHeld ==
    stage = "sent" /\ config.auth = "User"
            /\ call.tool \in {"machines", "vulnerabilities"}
        => DocumentedScopes(call.action) \cap Requested # {}
====
