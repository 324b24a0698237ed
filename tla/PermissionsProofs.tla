-------------------------- MODULE PermissionsProofs --------------------------
(***************************************************************************)
(* Proofs about Permissions, for any family of flag sets.                  *)
(***************************************************************************)
EXTENDS Permissions, TLAPS

-----------------------------------------------------------------------------
(***************************************************************************)
(* The tables.                                                             *)
(***************************************************************************)

MutatingActions ==
    ResponseActions \cup DeviceResponseActions \cup IndicatorsActions
        \cup TriageActions

ReadActions ==
    HuntingActions \cup TiActions \cup IncidentsAlertsActions
        \cup MachinesActions \cup VulnerabilitiesActions \cup ForensicsActions

\* No action is both of a tool that reads and of one that mutates.
LEMMA ReadsApart ==
    ASSUME NEW a \in ReadActions
    PROVE  a \notin MutatingActions
  <1> USE DEF MutatingActions, ResponseActions, DeviceResponseActions,
              IndicatorsActions, TriageActions, EndpointTriage, XdrTriage
  <1>1. CASE a \in HuntingActions
    BY <1>1 DEF HuntingActions
  <1>2. CASE a \in TiActions
    <2>1. CASE a \in ProfileReads \cup ArticleReads \cup HostReads
      BY <2>1 DEF ProfileReads, ArticleReads, HostReads
    <2>2. CASE a \in HostDetailReads \cup HostPairReads \cup RecordReads
      BY <2>2 DEF HostDetailReads, HostPairReads, RecordReads
    <2>3. CASE a = "custom_indicator_list"
      BY <2>3
    <2>4. QED
      BY <1>2, <2>1, <2>2, <2>3 DEF TiActions, GraphTiActions
  <1>3. CASE a \in IncidentsAlertsActions
    BY <1>3 DEF IncidentsAlertsActions, XdrReads, RelatedAlertReads
  <1>4. CASE a \in MachinesActions
    BY <1>4 DEF MachinesActions, DeviceReads, EntityReads
  <1>5. CASE a \in VulnerabilitiesActions
    BY <1>5 DEF VulnerabilitiesActions, SoftwareReads, VulnerabilityReads,
                RecommendationReads, RemediationReads, ScoreReads
  <1>6. CASE a \in ForensicsActions
    BY <1>6 DEF ForensicsActions
  <1>7. QED
    BY <1>1, <1>2, <1>3, <1>4, <1>5, <1>6 DEF ReadActions

\* The reads that are explained with the scopes of a writing category.
WritingReads == {"custom_indicator_list", "find_by_ip", "machine_alerts",
                 "investigation_list", "investigation_get", "library_file_list"}

\* Each is in the scope table, and dispatched by a tool that looks it up.
LEMMA WritingReadsLookedUp ==
    ASSUME NEW t \in ReadTools, NEW a \in WritingReads \cap Actions[t]
    PROVE  /\ t \in {"ti", "incidents_alerts", "machines", "forensics"}
           /\ \E s \in WriteNamed : a \in ScopeTable[s]
  <1>1. a \notin HuntingActions \cup VulnerabilitiesActions
    BY DEF WritingReads, HuntingActions, VulnerabilitiesActions, SoftwareReads,
           VulnerabilityReads, RecommendationReads, RemediationReads, ScoreReads
  <1>2. t \in {"ti", "incidents_alerts", "machines", "forensics"}
    BY <1>1 DEF ReadTools, Actions
  <1>3. \E s \in WriteNamed : a \in ScopeTable[s]
    <2>1. /\ "find_by_ip" \in ScopeTable["Machine.ReadWrite"]
          /\ {"machine_alerts", "investigation_list", "investigation_get"}
               \subseteq ScopeTable["Alert.ReadWrite"]
          /\ "custom_indicator_list" \in ScopeTable["Ti.ReadWrite"]
          /\ "library_file_list" \in ScopeTable["Library.Manage"]
      BY DEF ScopeTable, WriteNamed
    <2>2. QED
      BY <2>1 DEF WritingReads, WriteNamed
  <1>4. QED
    BY <1>2, <1>3

\* A read is explained with reading scopes, but for these.
LEMMA ReadCategory ==
    ASSUME NEW a \in ReadActions
    PROVE  Category(a) \in IF a \in WritingReads
                           THEN {"Indicators", "ReadWriteNamed"}
                           ELSE {"ReadEndpoint", "ReadGraph"}
  <1>1. a \notin MutatingActions
    BY ReadsApart
  <1>2. CASE a \notin WritingReads
    <2>1. a # "offboard"
      BY <1>1 DEF MutatingActions, DeviceResponseActions
    <2>2. CASE a \in HuntingActions \cup GraphTiActions \cup XdrReads
      BY <1>1, <1>2, <2>1, <2>2 DEF Category, MutatingActions, WritingReads
    <2>3. CASE a \notin HuntingActions \cup GraphTiActions \cup XdrReads
      BY <1>1, <1>2, <2>1, <2>3 DEF Category, MutatingActions, WritingReads
    <2>4. QED
      BY <2>2, <2>3
  <1>3. CASE a \in WritingReads
    <2>1. a \notin HuntingActions \cup GraphTiActions \cup XdrReads
      BY <1>3 DEF WritingReads, HuntingActions, GraphTiActions, XdrReads,
                  ProfileReads, ArticleReads, HostReads, HostDetailReads,
                  HostPairReads, RecordReads
    <2>2. QED
      BY <1>1, <1>3, <2>1 DEF Category, MutatingActions, WritingReads
  <1>4. QED
    BY <1>2, <1>3

\* A mutation is explained with the scopes of its own category.
LEMMA MutatingCategory ==
    ASSUME NEW a \in MutatingActions
    PROVE  /\ a \in ResponseActions => Category(a) = "LiveResponse"
           /\ a \in DeviceResponseActions =>
                Category(a) = IF a = "offboard" THEN "Offboarding"
                              ELSE "DeviceResponse"
           /\ a \in IndicatorsActions => Category(a) = "Indicators"
           /\ a \in TriageActions => Category(a) = "Triage"
  <1>1. a \notin HuntingActions \cup GraphTiActions \cup XdrReads
                     \cup WritingReads
    <2>1. HuntingActions \cup GraphTiActions \cup XdrReads \cup WritingReads
            \subseteq ReadActions
      BY DEF ReadActions, TiActions, IncidentsAlertsActions, MachinesActions,
             ForensicsActions, WritingReads
    <2>2. QED
      BY <2>1, ReadsApart
  <1> USE DEF ResponseActions, DeviceResponseActions, IndicatorsActions,
              TriageActions, EndpointTriage, XdrTriage, WritingReads, Category
  <1>2. CASE a \in ResponseActions
    BY <1>1, <1>2
  <1>3. CASE a \in DeviceResponseActions
    BY <1>1, <1>3
  <1>4. CASE a \in IndicatorsActions
    BY <1>1, <1>4
  <1>5. CASE a \in TriageActions
    BY <1>1, <1>5
  <1>6. QED
    BY <1>2, <1>3, <1>4, <1>5 DEF MutatingActions

-----------------------------------------------------------------------------
(***************************************************************************)
(* What a server asks for.                                                 *)
(***************************************************************************)

LEMMA ToolsAre == DOMAIN Actions = ReadTools \cup MutatingTools
  BY DEF Actions, ReadTools, MutatingTools

LEMMA CallType ==
    ASSUME NEW c \in Calls
    PROVE  c.tool \in ReadTools \cup MutatingTools
  BY ToolsAre DEF Calls

LEMMA ActionsOfTools ==
    /\ \A t \in ReadTools : Actions[t] \subseteq ReadActions
    /\ \A t \in MutatingTools : Actions[t] \subseteq MutatingActions
  BY DEF ReadTools, MutatingTools, Actions, ReadActions, MutatingActions

\* Under --read-only no category is on.
LEMMA ReadOnlyAsksToRead ==
    ASSUME config.readOnly
    PROVE  /\ Categories = {}
           /\ Requested = EndpointRead \cup GraphRead
           /\ Requested \cap WriteNamed = {}
  <1>1. Categories = {}
    BY DEF Categories
  <1>2. Requested = EndpointRead \cup GraphRead
    BY <1>1 DEF Requested
  <1>3. QED
    BY <1>1, <1>2 DEF EndpointRead, GraphRead, WriteNamed

\* What may be sent is explained with scopes that were asked for.
LEMMA SentIsAskedFor ==
    ASSUME config.readOnly \in BOOLEAN, config.auth = "User",
           call \in Calls, MissingScope = {}, Known,
           call.tool \in MutatingTools => MayMutate
    PROVE  /\ Category(call.action) \in DOMAIN DelegatedScopes
           /\ DelegatedScopes[Category(call.action)] \subseteq Requested
  <1>1. call.action \in Actions[call.tool]
    BY DEF Known
  <1>2. CASE call.tool \in ReadTools
    <2>1. call.action \in ReadActions
      BY <1>1, <1>2, ActionsOfTools
    <2>2. CASE call.action \in WritingReads
      <3>1. ~config.readOnly
        <4>1. SUFFICES ASSUME config.readOnly PROVE FALSE
          OBVIOUS
        <4>2. PICK s \in WriteNamed : call.action \in ScopeTable[s]
          BY <1>1, <1>2, <2>2, WritingReadsLookedUp
        <4>3. s \in MissingScope
          BY <1>1, <1>2, <2>2, <4>1, <4>2, WritingReadsLookedUp
             DEF MissingScope
        <4>4. QED
          BY <4>3
      <3>2. WriteNamed \subseteq Requested
        BY <3>1 DEF Requested
      <3>3. Category(call.action) \in {"Indicators", "ReadWriteNamed"}
        BY <2>1, <2>2, ReadCategory
      <3>4. QED
        BY <3>2, <3>3 DEF DelegatedScopes, WriteNamed
    <2>3. CASE call.action \notin WritingReads
      BY <2>1, <2>3, ReadCategory DEF DelegatedScopes, Requested
    <2>4. QED
      BY <2>2, <2>3
  <1>3. CASE call.tool \in MutatingTools
    <2>1. /\ ToolEnabled(call.tool)
          /\ call.action = "offboard" => "offboarding" \in Categories
      BY <1>3 DEF MayMutate
    <2>2. call.action \in MutatingActions
      BY <1>1, <1>3, ActionsOfTools
    <2>3. CASE call.tool = "response"
      BY <1>1, <2>1, <2>2, <2>3, MutatingCategory
         DEF Actions, ToolEnabled, Requested, DelegatedScopes
    <2>4. CASE call.tool = "device_response"
      BY <1>1, <2>1, <2>2, <2>4, MutatingCategory
         DEF Actions, ToolEnabled, Requested, DelegatedScopes
    <2>5. CASE call.tool = "indicators"
      BY <1>1, <2>1, <2>2, <2>5, MutatingCategory
         DEF Actions, ToolEnabled, Requested, DelegatedScopes
    <2>6. CASE call.tool = "triage"
      BY <1>1, <2>1, <2>2, <2>6, MutatingCategory
         DEF Actions, ToolEnabled, Requested, DelegatedScopes
    <2>7. QED
      BY <1>3, <2>3, <2>4, <2>5, <2>6 DEF MutatingTools
  <1>4. QED
    BY <1>2, <1>3, CallType

-----------------------------------------------------------------------------
(***************************************************************************)
(* The invariant.                                                          *)
(***************************************************************************)

\* A request under way has passed every check of its dispatcher.
SentInv ==
    stage = "sent" =>
        /\ MissingScope = {}
        /\ Known
        /\ call.tool \in MutatingTools => MayMutate

IInv == TypeOK /\ SentInv /\ ExplainedScopesRequested

KnownScopes == UNION {DelegatedScopes[c] : c \in DOMAIN DelegatedScopes}

\* The answers that carry no scopes.
Plain == {"read_only", "category_disabled", "invalid", "ok", "not_run",
          "live_response_disabled", "rejected", "no_token", "failed"}

LEMMA RequestedStays == config' = config => Requested' = Requested
  BY DEF Requested, Categories

LEMMA ConfigType ==
    ASSUME TypeOK
    PROVE  config.readOnly \in BOOLEAN /\ config.flags \subseteq Flags
  BY FlagSetsAssumption DEF TypeOK, Configs

LEMMA CallStays ==
    ASSUME TypeOK, stage \in {"called", "sent"}
    PROVE  call \in Calls
  BY DEF TypeOK

LEMMA NoCallIsNone == NoCall \notin Calls
  BY CallType DEF NoCall, ReadTools, MutatingTools

\* An answer to a call keeps the invariant if its scopes are as they should be.
LEMMA AnswerKeeps ==
    ASSUME IInv, stage \in {"called", "sent"}, NEW says, NEW scopes,
           Answer(says, scopes),
           says \in Plain \cup {"scope_not_requested", "permission_denied"},
           scopes \subseteq KnownScopes,
           says = "permission_denied" /\ config.auth = "User"
             => scopes \subseteq Requested
    PROVE  IInv'
  <1>1. /\ stage' = "answered" /\ config' = config /\ call' = call
        /\ answer'.says = says /\ answer'.scopes = scopes
    BY DEF Answer
  <1>2. TypeOK'
    <2>1. call # NoCall
      BY DEF IInv, TypeOK
    <2>2. says # "nothing"
      BY DEF Plain
    <2>3. QED
      BY <1>1, <2>1, <2>2 DEF IInv, TypeOK, Plain, KnownScopes
  <1>3. ExplainedScopesRequested'
    BY <1>1, RequestedStays DEF ExplainedScopesRequested
  <1>4. QED
    BY <1>1, <1>2, <1>3 DEF IInv, SentInv

LEMMA PlainAnswerKeeps ==
    ASSUME IInv, stage \in {"called", "sent"}, NEW says \in Plain,
           Answer(says, {})
    PROVE  IInv'
  BY AnswerKeeps DEF Plain

LEMMA Step == IInv /\ [Next]_vars => IInv'
  <1> SUFFICES ASSUME IInv, [Next]_vars PROVE IInv'
    OBVIOUS
  <1>1. ASSUME NEW c \in Calls, Receive(c) PROVE IInv'
    <2>1. c # NoCall
      BY NoCallIsNone
    <2>2. TypeOK'
      BY <1>1, <2>1 DEF Receive, IInv, TypeOK, Unanswered
    <2>3. QED
      BY <1>1, <2>2 DEF Receive, IInv, SentInv, Unanswered,
                        ExplainedScopesRequested
  <1>2. CASE RouteMissing
    BY <1>2, PlainAnswerKeeps DEF RouteMissing, Plain
  <1>3. CASE RefuseScope
    <2>1. /\ stage = "called"
          /\ Answer("scope_not_requested", MissingScope)
      BY <1>3 DEF RefuseScope
    <2>2. MissingScope \subseteq WriteNamed
      BY DEF MissingScope
    <2>3. WriteNamed \subseteq KnownScopes
      BY DEF KnownScopes, DelegatedScopes
    <2>4. QED
      BY <2>1, <2>2, <2>3, AnswerKeeps
  <1>4. CASE Invalid
    BY <1>4, PlainAnswerKeeps DEF Invalid, Dispatched, Plain
  <1>5. CASE AnswerLocally
    BY <1>5, PlainAnswerKeeps DEF AnswerLocally, Dispatched, Plain
  <1>6. CASE GateLiveResponse
    BY <1>6, PlainAnswerKeeps DEF GateLiveResponse, Dispatched, Plain
  <1>7. CASE Rejected
    BY <1>7, PlainAnswerKeeps DEF Rejected, Dispatched, Plain
  <1>8. CASE NoToken
    BY <1>8, PlainAnswerKeeps DEF NoToken, MaySend, Dispatched, Plain
  <1>9. CASE Send
    <2>1. /\ stage = "called" /\ stage' = "sent"
          /\ UNCHANGED <<config, call, answer>>
          /\ MissingScope = {} /\ Known
          /\ call.tool \in MutatingTools => MayMutate
      BY <1>9 DEF Send, MaySend, Dispatched
    <2>2. SentInv'
      BY <2>1 DEF SentInv, MissingScope, Known, Categories, MayMutate,
                  ToolEnabled
    <2>3. TypeOK'
      BY <2>1 DEF IInv, TypeOK
    <2>4. ExplainedScopesRequested'
      BY <2>1, RequestedStays
         DEF IInv, ExplainedScopesRequested
    <2>5. QED
      BY <2>2, <2>3, <2>4 DEF IInv
  <1>10. CASE Denied
    <2>1. CASE config.auth = "User"
      <3>1. /\ stage = "sent"
            /\ Answer("permission_denied",
                      DelegatedScopes[Category(call.action)])
        BY <1>10, <2>1 DEF Denied
      <3>2. /\ Category(call.action) \in DOMAIN DelegatedScopes
            /\ DelegatedScopes[Category(call.action)] \subseteq Requested
        BY <2>1, <3>1, ConfigType, CallStays, SentIsAskedFor DEF IInv, SentInv
      <3>3. DelegatedScopes[Category(call.action)] \subseteq KnownScopes
        BY <3>2 DEF KnownScopes
      <3>4. QED
        BY <3>1, <3>2, <3>3, AnswerKeeps
    <2>2. CASE config.auth # "User"
      <3>1. stage = "sent" /\ Answer("permission_denied", {})
        BY <1>10, <2>2 DEF Denied
      <3>2. QED
        BY <3>1, AnswerKeeps
    <2>3. QED
      BY <2>1, <2>2
  <1>11. CASE Replied
    BY <1>11, PlainAnswerKeeps DEF Replied, Plain
  <1>12. CASE Done
    BY <1>12 DEF Done, IInv, TypeOK, SentInv, Unanswered,
                 ExplainedScopesRequested
  <1>13. CASE UNCHANGED vars
    <2>1. MissingScope' = MissingScope /\ Known' = Known /\ MayMutate' = MayMutate
      BY <1>13 DEF vars, MissingScope, Known, Categories, MayMutate, ToolEnabled
    <2>2. SentInv'
      BY <1>13, <2>1 DEF vars, IInv, SentInv
    <2>3. QED
      BY <1>13, <2>2, RequestedStays
         DEF vars, IInv, TypeOK, ExplainedScopesRequested
  <1>14. QED
    BY <1>1, <1>2, <1>3, <1>4, <1>5, <1>6, <1>7, <1>8, <1>9, <1>10, <1>11,
       <1>12, <1>13 DEF Next

LEMMA Invariance == Spec => []IInv
  <1>1. Init => IInv
    <2> SUFFICES ASSUME Init PROVE IInv
      OBVIOUS
    <2>1. TypeOK
      BY DEF Init, TypeOK, Unanswered
    <2>2. QED
      BY <2>1 DEF Init, IInv, SentInv, Unanswered, ExplainedScopesRequested
  <1>2. QED
    BY <1>1, Step, PTL DEF Spec
-----------------------------------------------------------------------------
(***************************************************************************)
(* The theorems.                                                           *)
(***************************************************************************)

\* A server's state is well typed, and nothing of a call outlives it.
THEOREM TypeCorrect == Spec => []TypeOK
  <1>1. IInv => TypeOK
    BY DEF IInv
  <1>2. QED
    BY <1>1, Invariance, PTL

\* Every scope a refusal by the API is explained with was asked for at the
\* sign-in, for every action, mode and set of flags.
THEOREM ExplanationsHelp == Spec => []ExplainedScopesRequested
  <1>1. IInv => ExplainedScopesRequested
    BY DEF IInv
  <1>2. QED
    BY <1>1, Invariance, PTL

\* Under --read-only nothing but reading is asked for or sent, whatever flags
\* come with it.
THEOREM ReadOnlyReads == Spec => []ReadOnlyMeansRead
  <1>1. IInv => ReadOnlyMeansRead
    <2> SUFFICES ASSUME IInv, config.readOnly
                 PROVE  /\ Requested \subseteq EndpointRead \cup GraphRead
                        /\ stage = "sent" => call.tool \in ReadTools
      BY DEF ReadOnlyMeansRead
    <2>1. Requested \subseteq EndpointRead \cup GraphRead
      BY ReadOnlyAsksToRead
    <2>2. ASSUME stage = "sent" PROVE call.tool \in ReadTools
      BY <2>2, CallStays, CallType DEF IInv, SentInv, MayMutate
    <2>3. QED
      BY <2>1, <2>2
  <1>2. QED
    BY <1>1, Invariance, PTL

\* No mutation is sent without the flags of its category, whatever flags the
\* server was started with.
THEOREM FlagsAreNeeded == Spec => []SentOnlyIfEnabled
  <1>1. IInv => SentOnlyIfEnabled
    <2> SUFFICES ASSUME IInv, stage = "sent", call.tool \in MutatingTools
                 PROVE  EnablingFlags(call) \subseteq config.flags
      BY DEF SentOnlyIfEnabled
    <2>1. /\ ToolEnabled(call.tool)
          /\ call.action = "offboard" => "offboarding" \in Categories
          /\ call.action \in Actions[call.tool]
      BY DEF IInv, SentInv, MayMutate, Known
    <2>2. Categories \subseteq config.flags
      BY DEF Categories
    <2>3. CASE call.tool = "response"
      <3>1. call.action # "offboard"
        BY <2>1, <2>3 DEF Actions, ResponseActions
      <3>2. QED
        BY <2>1, <2>2, <2>3, <3>1 DEF ToolEnabled, EnablingFlags
    <2>4. CASE call.action = "offboard"
      <3>1. call.tool = "device_response"
        BY <2>1, <2>4 DEF Actions, MutatingTools, ResponseActions,
             IndicatorsActions, TriageActions, EndpointTriage, XdrTriage
      <3>2. QED
        BY <2>1, <2>2, <2>4, <3>1 DEF ToolEnabled, EnablingFlags
    <2>5. CASE call.tool # "response" /\ call.action # "offboard"
      BY <2>1, <2>2, <2>5 DEF ToolEnabled, EnablingFlags
    <2>6. QED
      BY <2>3, <2>4, <2>5
  <1>2. QED
    BY <1>1, Invariance, PTL
====
