--------------------------- MODULE ToolCallsProofs ---------------------------
(***************************************************************************)
(* Proofs about ToolCalls, for any queries, parse trees, row limits and    *)
(* calls of the clients.                                                   *)
(***************************************************************************)
EXTENDS ToolCalls, TLAPS

-----------------------------------------------------------------------------
(***************************************************************************)
(* The tables of fields.                                                   *)
(***************************************************************************)

LEMMA ActionsDiffer ==
    ASSUME NEW c, Mutation!IsCall(c)
    PROVE  \/ c.action \in Mutation!ResponseAction
           \/ c.action \in Mutation!DeviceAction
           \/ c.action \in Mutation!IndicatorAction
           \/ c.action \in Mutation!TriageAction
  BY DEF Mutation!IsCall

\* What an action uses is sent, but for the field its reason is taken from.
LEMMA UsedIsSent ==
    ASSUME NEW c, Mutation!IsCall(c),
           c.action \notin Mutation!Unchecked,
           NEW f \in Mutation!Uses(c.action) \cap Mutation!Given(c)
    PROVE  f \in Mutation!Sends(c.action) \/ f = Mutation!Reason(c)
  <1> USE DEF Mutation!Uses, Mutation!Sends, Mutation!Reason,
              Mutation!Unchecked, Mutation!ResponseAction,
              Mutation!DeviceAction, Mutation!IndicatorAction,
              Mutation!TriageAction, Mutation!CommentAction, Mutation!Updated
  <1>1. CASE c.action \in Mutation!ResponseAction
    BY <1>1 DEF Mutation!ResponseUses
  <1>2. CASE c.action \in Mutation!DeviceAction
    BY <1>2 DEF Mutation!DeviceUses
  <1>3. CASE c.action \in Mutation!IndicatorAction
    BY <1>3 DEF Mutation!IndicatorUses, Mutation!IndicatorField
  <1>4. CASE c.action \in Mutation!TriageAction
    BY <1>4 DEF Mutation!TriageUses
  <1>5. QED
    BY <1>1, <1>2, <1>3, <1>4, ActionsDiffer

\* Nothing that names an object or is shown is sent but if it is used.
LEMMA ShownIsSent ==
    ASSUME NEW c, Mutation!IsCall(c),
           c.action \notin Mutation!Unchecked,
           NEW f \in Mutation!Shown \cap Mutation!Uses(c.action)
                        \cap Mutation!Given(c)
    PROVE  f \in Mutation!Sends(c.action)
  <1>1. f \notin {"comment", "justification", "description"}
    BY DEF Mutation!Shown, Mutation!Updated
  <1>2. Mutation!Reason(c) \in {"comment", "justification", "description"}
    BY DEF Mutation!Reason, Mutation!TriageAction
  <1>3. QED
    BY <1>1, <1>2, UsedIsSent

\* Only triage sends a determination, and triage asks nobody.
LEMMA SentDeterminations ==
    ASSUME NEW c, Mutation!IsCall(c), c.action \notin Mutation!TriageAction
    PROVE  "determination" \notin Mutation!Sends(c.action)
  BY DEF Mutation!IsCall, Mutation!Sends, Mutation!TriageAction,
         Mutation!CommentAction, Mutation!ResponseAction,
         Mutation!DeviceAction, Mutation!IndicatorAction, Mutation!Updated

\* The determinations of one classification keep apart at every API.
LEMMA MeaningsDiffer ==
    ASSUME NEW a, NEW cl \in Mutation!Classification,
           NEW d \in Mutation!AllowedFor[cl], NEW e \in Mutation!AllowedFor[cl],
           Mutation!MeaningAt(a, d) = Mutation!MeaningAt(a, e)
    PROVE  d = e
  <1> USE DEF Mutation!MeaningAt, Mutation!AllowedFor
  <1>1. CASE cl = "truePositive"
    BY <1>1
  <1>2. CASE cl = "informationalExpectedActivity"
    BY <1>2
  <1>3. CASE cl = "falsePositive"
    BY <1>3
  <1>4. QED
    BY <1>1, <1>2, <1>3 DEF Mutation!Classification

-----------------------------------------------------------------------------
(***************************************************************************)
(* The call that is accepted.                                              *)
(***************************************************************************)

\* What the dispatcher has made sure of, and made, of a call it accepts.
CallInv ==
    Mutation!Accepted =>
        /\ call \in Call
        /\ Mutation!Complete(call)
        /\ Mutation!Valid(call)
        /\ record.targets = Mutation!Targets(call)
        /\ record.parameters = Mutation!Parameters(call)
        /\ \/ prompt = Mutation!NoPrompt
           \/ /\ prompt = Mutation!Message(call)
              /\ call.action \notin Mutation!TriageAction
        /\ sent = Mutation!RequestOf(call)

LEMMA CallInit == Mutation!Init => CallInv
  BY DEF Mutation!Init, CallInv, Mutation!Accepted, Mutation!NoRecord

LEMMA CallStep == CallInv /\ [Mutation!Next]_(Mutation!vars) => CallInv'
  <1> SUFFICES ASSUME CallInv, [Mutation!Next]_(Mutation!vars) PROVE CallInv'
    OBVIOUS
  <1> USE DEF CallInv, Mutation!Accepted, Mutation!Record
  <1>1. ASSUME NEW c \in Call,
               \/ Mutation!RejectUnused(c)
               \/ Mutation!RejectNoChange(c)
               \/ Mutation!RejectMissing(c)
               \/ Mutation!RejectInvalid(c)
        PROVE  CallInv'
    <2>1. record'.result = "Validation"
      BY <1>1 DEF Mutation!RejectUnused, Mutation!RejectNoChange,
                  Mutation!RejectMissing, Mutation!RejectInvalid
    <2>2. QED
      BY <2>1
  <1>2. ASSUME NEW c \in Call, Mutation!Accept(c) PROVE CallInv'
    BY <1>2 DEF Mutation!Accept, Mutation!Handle
  <1>3. CASE Mutation!Return
    BY <1>3 DEF Mutation!Return, Mutation!NoRecord
  <1>4. CASE UNCHANGED Mutation!vars
    BY <1>4 DEF Mutation!vars
  <1>5. QED
    BY <1>1, <1>2, <1>3, <1>4 DEF Mutation!Next

LEMMA AcceptedCall ==
    ASSUME CallInv, Mutation!Accepted
    PROVE  /\ Mutation!IsCall(call)
           /\ Mutation!Given(call) \subseteq Mutation!Uses(call.action)
           /\ Mutation!Wrong(call) = {}
           /\ DOMAIN sent = (Mutation!Sends(call.action)
                               \cap Mutation!Given(call))
                              \cup Mutation!Defaults(call)
           /\ \A f \in DOMAIN sent :
                sent[f] = IF f = "determination"
                          THEN Mutation!MeaningAt(call.action, call.args[f])
                          ELSE Mutation!Argument(call, f)
  <1>1. /\ call \in Call /\ Mutation!Complete(call) /\ Mutation!Valid(call)
        /\ sent = Mutation!RequestOf(call)
    BY DEF CallInv
  <1>2. Mutation!IsCall(call)
    BY <1>1, ToolCallsAssumption DEF Mutation!ArgumentAssumption
  <1>3. /\ Mutation!Given(call) \subseteq Mutation!Uses(call.action)
        /\ Mutation!Wrong(call) = {}
    BY <1>1 DEF Mutation!Complete, Mutation!Unused, Mutation!Valid
  <1>4. QED
    BY <1>1, <1>2, <1>3 DEF Mutation!RequestOf

LEMMA AcceptedDropsNothing == CallInv => NothingDropped
  <1> SUFFICES ASSUME CallInv, Mutation!Accepted,
                      call.action \notin Mutation!Unchecked,
                      NEW f \in Mutation!Given(call)
               PROVE  f \in DOMAIN sent \/ f = Mutation!Reason(call)
    BY DEF NothingDropped, Mutation!NothingDropped
  <1>1. f \in Mutation!Sends(call.action) \/ f = Mutation!Reason(call)
    BY AcceptedCall, UsedIsSent
  <1>2. QED
    BY <1>1, AcceptedCall

LEMMA AcceptedRecordIsSent == CallInv => RecordedIsSent
  <1> SUFFICES ASSUME CallInv, Mutation!Accepted
               PROVE  Mutation!RecordedIsSent
    BY DEF RecordedIsSent, Mutation!RecordedIsSent
  <1>1. /\ record.targets = Mutation!Targets(call)
        /\ record.parameters = Mutation!Parameters(call)
        /\ Mutation!Valid(call)
    BY DEF CallInv
  <1>2. Mutation!Names \cap DOMAIN sent =
          Mutation!Names \cap Mutation!Sends(call.action)
              \cap Mutation!Given(call)
    BY AcceptedCall DEF Mutation!Names, Mutation!Defaults
  <1>3. ASSUME NEW f \in Mutation!Names \cap Mutation!Sends(call.action)
                             \cap Mutation!Given(call)
        PROVE  /\ f \notin Mutation!Wrong(call)
               /\ sent[f] = Mutation!Argument(call, f)
    <2>1. f # "determination"
      BY DEF Mutation!Names
    <2>2. QED
      BY <1>2, <2>1, AcceptedCall
  <1>4. /\ Mutation!Targets(call) =
             {[field |-> f, value |-> Mutation!Argument(call, f)] :
                f \in Mutation!Names \cap DOMAIN sent}
        /\ Mutation!Targets(call) =
             {[field |-> f, value |-> sent[f]] :
                f \in Mutation!Names \cap DOMAIN sent}
    BY <1>1, <1>2, <1>3 DEF Mutation!Targets
  <1>5. ASSUME NEW f \in DOMAIN Mutation!Parameters(call)
        PROVE  /\ f \in DOMAIN sent
               /\ f # "determination" =>
                    Mutation!Parameters(call)[f] = Mutation!Kept(f, sent[f])
    <2>1. /\ call.action \notin Mutation!Unchecked
          /\ f \in Mutation!Shown
          /\ f \in Mutation!Given(call) \cup Mutation!Defaults(call)
          /\ Mutation!Parameters(call)[f] =
               Mutation!Kept(f, Mutation!Argument(call, f))
      BY <1>5 DEF Mutation!Parameters
    <2>2. CASE f \in Mutation!Given(call)
      BY <2>1, <2>2, AcceptedCall, ShownIsSent
    <2>3. CASE f \in Mutation!Defaults(call)
      BY <2>1, <2>3, AcceptedCall
    <2>4. QED
      BY <2>1, <2>2, <2>3
  <1>6. ASSUME prompt # Mutation!NoPrompt
        PROVE  /\ prompt.targets =
                    {[field |-> f, value |-> Mutation!Cut(sent[f])] :
                       f \in Mutation!Names \cap DOMAIN sent}
               /\ \A f \in DOMAIN prompt.parameters :
                    /\ f \in DOMAIN sent
                    /\ prompt.parameters[f] =
                         Mutation!Cut(Mutation!Kept(f, sent[f]))
    <2>1. /\ prompt = Mutation!Message(call)
          /\ call.action \notin Mutation!TriageAction
      BY <1>6 DEF CallInv
    <2>2. prompt.targets =
            {[field |-> t.field, value |-> Mutation!Cut(t.value)] :
               t \in Mutation!Targets(call)}
      BY <2>1 DEF Mutation!Message
    <2>3. prompt.targets =
            {[field |-> f, value |-> Mutation!Cut(sent[f])] :
               f \in Mutation!Names \cap DOMAIN sent}
      <3> DEFINE fields == Mutation!Names \cap DOMAIN sent
                 T == {[field |-> f, value |-> sent[f]] : f \in fields}
                 line(t) == [field |-> t.field, value |-> Mutation!Cut(t.value)]
      <3>1. prompt.targets = {line(t) : t \in T}
        BY <2>2, <1>4
      <3>2. ASSUME NEW f \in fields
            PROVE  line([field |-> f, value |-> sent[f]]) =
                     [field |-> f, value |-> Mutation!Cut(sent[f])]
        OBVIOUS
      <3> HIDE DEF fields
      <3>3. {line(t) : t \in T} =
              {line([field |-> f, value |-> sent[f]]) : f \in fields}
        <4> HIDE DEF line
        <4> QED
          OBVIOUS
      <3>4. QED
        BY <3>1, <3>2, <3>3 DEF fields
    <2>4. prompt.parameters =
            [f \in DOMAIN Mutation!Parameters(call) |->
               Mutation!Cut(Mutation!Parameters(call)[f])]
      BY <2>1 DEF Mutation!Message
    <2>5. "determination" \notin DOMAIN sent
      BY <2>1, AcceptedCall, SentDeterminations DEF Mutation!Defaults
    <2>6. QED
      BY <2>3, <2>4, <2>5, <1>5
  <1>7. QED
    BY <1>1, <1>4, <1>5, <1>6 DEF Mutation!RecordedIsSent

LEMMA AcceptedKeepsDetermination == CallInv => DeterminationKept
  <1> SUFFICES ASSUME CallInv, Mutation!Accepted, "determination" \in DOMAIN sent
               PROVE
        /\ "classification" \in DOMAIN sent
        /\ {d \in Mutation!AllowedFor[sent["classification"]] :
              Mutation!MeaningAt(call.action, d) = sent["determination"]}
             = {call.args["determination"]}
    BY DEF DeterminationKept, Mutation!DeterminationKept
  <1> DEFINE cl == call.args["classification"]
             d == call.args["determination"]
  <1>1. /\ "determination" \in Mutation!Sends(call.action)
        /\ "determination" \in Mutation!Given(call)
    BY AcceptedCall DEF Mutation!Defaults
  <1>2. /\ "classification" \in Mutation!Given(call)
        /\ d \in Mutation!AllowedFor[cl]
        /\ cl \in Mutation!Classification
    BY <1>1, AcceptedCall
       DEF CallInv, Mutation!Valid, Mutation!PairValid, Mutation!IsCall,
           Mutation!Value, Mutation!Given
  <1>3. "classification" \in Mutation!Sends(call.action)
    BY <1>1 DEF Mutation!Sends, Mutation!Updated
  <1>4. /\ "classification" \in DOMAIN sent
        /\ sent["classification"] = cl
        /\ sent["determination"] = Mutation!MeaningAt(call.action, d)
    BY <1>1, <1>2, <1>3, AcceptedCall
       DEF Mutation!Argument, Mutation!Trimmed, Mutation!Names
  <1>5. QED
    BY <1>2, <1>4, MeaningsDiffer

-----------------------------------------------------------------------------
(***************************************************************************)
(* The walk over a parse tree.  A pair that is not yet walked is between   *)
(* the ends of a frame, and no frame is given up before what it spans has  *)
(* been recorded, is spanned by the frames that take its place, or holds   *)
(* nothing to refuse.                                                      *)
(***************************************************************************)

\* A frame spans whole pairs; a descent has followed only children.
FrameOK(t, f) ==
    /\ f \in [how : Hunt!Walking \cup Hunt!Descending,
              from : Hunt!Pairs(t), at : Hunt!Pairs(t), to : Hunt!Pairs(t)]
    /\ f.from <= f.at /\ f.at <= f.to
    /\ \A q \in f.from .. f.to : t.last[q] <= f.to
    /\ f.how \in Hunt!Walking => f.at = f.from
    /\ f.how \in Hunt!Descending =>
         /\ t.last[f.from] = f.to /\ t.last[f.at] = f.to
         /\ \A q \in f.from .. f.at - 1 : Hunt!OnlyChild(t, q)

\* Some frame will walk p.
Spans(frames, p) ==
    \E f \in frames : f.how # "string" /\ p \in f.from .. f.to

LEMMA TreeFacts ==
    ASSUME NEW t, Hunt!IsParsed(t)
    PROVE  /\ t.size \in Nat /\ t.size >= 1
           /\ \A p \in Hunt!Pairs(t) :
                /\ p \in Nat /\ 1 <= p /\ p <= t.size
                /\ t.rule[p] \in STRING /\ t.text[p] \in STRING
                /\ t.last[p] \in Nat /\ p <= t.last[p] /\ t.last[p] <= t.size
                /\ t.last[p] \in Hunt!Pairs(t)
                /\ \A q \in p .. t.last[p] :
                     q \in Hunt!Pairs(t) /\ t.last[q] <= t.last[p]
  BY DEF Hunt!IsParsed, Hunt!IsTree, Hunt!Pairs

\* The frame of the pairs between from and to, if there are any.
LEMMA RestWalks ==
    ASSUME NEW t, Hunt!IsParsed(t), NEW how \in Hunt!Walking,
           NEW from \in Nat \ {0}, NEW to \in Hunt!Pairs(t),
           \A q \in from .. to : t.last[q] <= to
    PROVE  /\ \A f \in Hunt!Rest(how, from, to) : FrameOK(t, f)
           /\ \A p \in from .. to : Spans(Hunt!Rest(how, from, to), p)
  <1>1. to \in Nat /\ to <= t.size
    BY DEF Hunt!Pairs
  <1>2. how # "string" /\ how \notin Hunt!Descending
    BY DEF Hunt!Walking, Hunt!Descending
  <1>3. CASE from > to
    BY <1>1, <1>3 DEF Hunt!Rest
  <1>4. CASE from <= to
    <2> DEFINE only == [how |-> how, from |-> from, at |-> from, to |-> to]
    <2>1. Hunt!Rest(how, from, to) = {only}
      BY <1>1, <1>4 DEF Hunt!Rest
    <2>2. from \in Hunt!Pairs(t)
      BY <1>1, <1>4, TreeFacts DEF Hunt!Pairs
    <2>3. FrameOK(t, only)
      BY <1>1, <1>2, <1>4, <2>2 DEF FrameOK
    <2>4. ASSUME NEW p \in from .. to
          PROVE  only.how # "string" /\ p \in only.from .. only.to
      BY <1>2
    <2> HIDE DEF only
    <2>5. QED
      BY <2>1, <2>3, <2>4, Zenon DEF Spans
  <1>5. from > to \/ from <= to
    BY <1>1
  <1>6. QED
    BY <1>3, <1>4, <1>5, Zenon

\* A descent begins at a pair.
LEMMA RestDescends ==
    ASSUME NEW t, Hunt!IsParsed(t), NEW how \in Hunt!Descending,
           NEW p \in Hunt!Pairs(t)
    PROVE  /\ \A f \in Hunt!Rest(how, p, t.last[p]) : FrameOK(t, f)
           /\ how # "string" =>
                \A q \in p .. t.last[p] : Spans(Hunt!Rest(how, p, t.last[p]), q)
  <1> DEFINE f == [how |-> how, from |-> p, at |-> p, to |-> t.last[p]]
  <1>1. /\ p \in Nat /\ t.last[p] \in Hunt!Pairs(t) /\ t.last[p] \in Nat
        /\ p <= t.last[p]
        /\ \A q \in p .. t.last[p] : t.last[q] <= t.last[p]
    BY TreeFacts
  <1>2. Hunt!Rest(how, p, t.last[p]) = {f}
    BY <1>1 DEF Hunt!Rest
  <1>3. FrameOK(t, f)
    BY <1>1 DEF FrameOK, Hunt!Walking, Hunt!Descending
  <1>4. QED
    BY <1>2, <1>3 DEF Spans

LEMMA CodesUnite ==
    ASSUME NEW A, NEW B
    PROVE  /\ Hunt!Check({}) = {}
           /\ Hunt!Check(A \cup B) = Hunt!Check(A) \cup Hunt!Check(B)
  BY DEF Hunt!Check

LEMMA OneFact ==
    ASSUME NEW f
    PROVE  Hunt!Check({f}) = Hunt!CodeOf(f)
  BY DEF Hunt!Check

\* What a flag, or a name, is refused for.
LEMMA FlagCode ==
    ASSUME NEW kind \in Hunt!FlagKind
    PROVE  /\ {Hunt!Flag(kind)} \subseteq Hunt!FactType
           /\ Hunt!Check({Hunt!Flag(kind)}) = {kind} \ {"ungrouped_aggregate"}
  <1>1. Hunt!Flag(kind).kind = kind
    BY DEF Hunt!Flag
  <1>2. Hunt!CodeOf(Hunt!Flag(kind)) = {kind} \ {"ungrouped_aggregate"}
    BY <1>1 DEF Hunt!CodeOf, Hunt!FlagKind
  <1>3. Hunt!Flag(kind) \in Hunt!FactType
    BY DEF Hunt!Flag, Hunt!FactType
  <1>4. QED
    BY <1>2, <1>3, OneFact

LEMMA FactCode ==
    ASSUME NEW kind \in Hunt!NameKind, NEW text \in STRING
    PROVE  /\ {Hunt!Fact(kind, text)} \subseteq Hunt!FactType
           /\ Hunt!Check({Hunt!Fact(kind, text)}) =
                CASE kind = "plugin" ->
                       IF text \in Hunt!ExternalPlugin
                       THEN {"external_plugin"} ELSE {}
                  [] kind = "table_pattern" -> {"wildcard_table"}
                  [] kind = "set_option" -> {"set_statement"}
                  [] OTHER -> {}
  <1>1. Hunt!Fact(kind, text).kind = kind /\ Hunt!Fact(kind, text).text = text
    BY DEF Hunt!Fact
  <1>2. Hunt!CodeOf(Hunt!Fact(kind, text)) =
          CASE kind = "plugin" ->
                 IF text \in Hunt!ExternalPlugin THEN {"external_plugin"} ELSE {}
            [] kind = "table_pattern" -> {"wildcard_table"}
            [] kind = "set_option" -> {"set_statement"}
            [] OTHER -> {}
    BY <1>1 DEF Hunt!CodeOf, Hunt!NameKind
  <1>3. Hunt!Fact(kind, text) \in Hunt!FactType
    BY DEF Hunt!Fact, Hunt!FactType
  <1>4. QED
    BY <1>2, <1>3, OneFact, Zenon

\* A pair that is walked is recorded with what it is to be refused for.
LEMMA OwnCodes ==
    ASSUME NEW t, Hunt!IsParsed(t), NEW p \in Hunt!Pairs(t)
    PROVE  /\ Hunt!OwnFacts(t, p) \subseteq Hunt!FactType
           /\ Hunt!Check(Hunt!OwnFacts(t, p)) = Hunt!RefusedFor(t, p)
  <1> DEFINE rule == t.rule[p]
             facts == Hunt!OwnFacts(t, p)
             codes == Hunt!RefusedFor(t, p)
  <1> SUFFICES facts \subseteq Hunt!FactType /\ Hunt!Check(facts) = codes
    OBVIOUS
  <1> USE DEF Hunt!FlagKind, Hunt!NameKind
  <1>1. CASE rule \in {"find_op", "search_op"}
    <2>1. facts = IF Hunt!HasChild(t, p, "kw_in")
                  THEN {} ELSE {Hunt!Flag("unscoped_search")}
      BY <1>1 DEF Hunt!OwnFacts
    <2>2. codes = IF Hunt!HasChild(t, p, "kw_in")
                  THEN {} ELSE {"unscoped_search"}
      BY <1>1 DEF Hunt!RefusedFor, Hunt!HasChild, Hunt!Code
    <2> HIDE DEF facts, codes
    <2>3. QED
      BY <2>1, <2>2, FlagCode, CodesUnite
  <1>2. CASE rule = "externaldata_op"
    <2>1. facts = {Hunt!Flag("external_data")}
      BY <1>2 DEF Hunt!OwnFacts
    <2>2. codes = {"external_data"}
      BY <1>2 DEF Hunt!RefusedFor, Hunt!Code
    <2> HIDE DEF facts, codes
    <2>3. QED
      BY <2>1, <2>2, FlagCode
  <1>3. CASE rule \in {"count_op", "summarize_op"}
    <2>1. facts = {} \/ facts = {Hunt!Flag("ungrouped_aggregate")}
      BY <1>3 DEF Hunt!OwnFacts
    <2>2. codes = {}
      BY <1>3 DEF Hunt!RefusedFor
    <2> HIDE DEF facts, codes
    <2>3. QED
      BY <2>1, <2>2, FlagCode, CodesUnite
  <1>4. CASE rule = "plugin_call"
    <2>1. t.text[p + 1] \in STRING
      BY <1>4, TreeFacts DEF Hunt!IsParsed
    <2>2. facts = {Hunt!Fact("plugin", t.text[p + 1])}
      BY <1>4 DEF Hunt!OwnFacts
    <2>3. codes = IF t.text[p + 1] \in Hunt!ExternalPlugin
                  THEN {"external_plugin"} ELSE {}
      BY <1>4 DEF Hunt!RefusedFor, Hunt!Code
    <2> HIDE DEF facts, codes
    <2>4. QED
      BY <2>1, <2>2, <2>3, FactCode
  <1>5. CASE rule = "postfix"
    <2> DEFINE called == Hunt!Called(t, p)
               cross == called \cap {"cluster", "database"} # {}
               outside == "external_table" \in called
    <2>1. facts = (IF cross THEN {Hunt!Flag("cross_cluster")} ELSE {})
                  \cup (IF outside THEN {Hunt!Flag("external_data")} ELSE {})
      BY <1>5 DEF Hunt!OwnFacts, Hunt!CallFacts
    <2>2. codes = (IF cross THEN {"cross_cluster"} ELSE {})
                  \cup (IF outside THEN {"external_data"} ELSE {})
      BY <1>5 DEF Hunt!RefusedFor, Hunt!Code
    <2> HIDE DEF facts, codes, cross, outside
    <2>3. QED
      BY <2>1, <2>2, FlagCode, CodesUnite
  <1>6. CASE rule = "table_pattern"
    <2>1. t.text[p] \in STRING
      BY TreeFacts
    <2>2. facts = {Hunt!Fact("table_pattern", t.text[p])}
      BY <1>6 DEF Hunt!OwnFacts
    <2>3. codes = {"wildcard_table"}
      BY <1>6 DEF Hunt!RefusedFor, Hunt!Code
    <2> HIDE DEF facts, codes
    <2>4. QED
      BY <2>1, <2>2, <2>3, FactCode
  <1>7. CASE rule = "set_stmt"
    <2> DEFINE options == {k \in Hunt!Children(t, p) : t.rule[k] = "option_name"}
    <2>1. facts = {Hunt!Fact("set_option", t.text[j]) : j \in options}
      BY <1>7 DEF Hunt!OwnFacts
    <2>2. options # {} /\ \A j \in options : t.text[j] \in STRING
      BY <1>7, TreeFacts
         DEF Hunt!IsParsed, Hunt!HasChild, Hunt!Children
    <2>3. codes = {"set_statement"}
      BY <1>7 DEF Hunt!RefusedFor, Hunt!Code
    <2> HIDE DEF options, facts, codes
    <2>4. \A j \in options :
            /\ Hunt!Fact("set_option", t.text[j]) \in Hunt!FactType
            /\ Hunt!CodeOf(Hunt!Fact("set_option", t.text[j])) = {"set_statement"}
      BY <2>2, FactCode, OneFact
    <2>5. Hunt!Check(facts) = {"set_statement"}
      BY <2>1, <2>2, <2>4 DEF Hunt!Check
    <2>6. QED
      BY <2>1, <2>3, <2>4, <2>5
  <1>8. CASE rule = "let_stmt"
    <2>1. t.last[p + 1] = p + 1 /\ p + 2 \in Hunt!Pairs(t) /\ p \in Nat
      BY <1>8, TreeFacts DEF Hunt!IsParsed, Hunt!Pairs
    <2>2. /\ facts = {Hunt!Fact("let_name", t.text[p + 2])}
          /\ t.text[p + 2] \in STRING
      BY <1>8, <2>1, TreeFacts DEF Hunt!OwnFacts
    <2>3. codes = {}
      BY <1>8 DEF Hunt!RefusedFor
    <2> HIDE DEF facts, codes
    <2>4. QED
      BY <2>2, <2>3, FactCode
  <1>9. CASE rule \notin {"find_op", "search_op", "externaldata_op", "count_op",
                         "summarize_op", "plugin_call", "postfix",
                         "table_pattern", "set_stmt", "let_stmt"}
    <2>1. facts = {}
      BY <1>9 DEF Hunt!OwnFacts
    <2>2. codes = {}
      BY <1>9 DEF Hunt!RefusedFor
    <2>3. QED
      BY <2>1, <2>2, CodesUnite
  <1>10. QED
    BY <1>1, <1>2, <1>3, <1>4, <1>5, <1>6, <1>7, <1>8, <1>9

\* Only these are refused.
LEMMA Unrefused ==
    ASSUME NEW t, NEW p,
           t.rule[p] \notin {"externaldata_op", "postfix", "plugin_call",
                             "find_op", "search_op", "table_pattern", "set_stmt"}
    PROVE  Hunt!RefusedFor(t, p) = {}
  BY DEF Hunt!RefusedFor

LEMMA SpansMore ==
    ASSUME NEW A, NEW B, NEW p
    PROVE  /\ Spans(A, p) => Spans(A \cup B, p)
           /\ Spans(B, p) => Spans(A \cup B, p)
  BY DEF Spans

\* Between from and to, what is to be refused is spanned.
Covers(t, from, to, frames) ==
    \A p \in from .. to : Hunt!RefusedFor(t, p) = {} \/ Spans(frames, p)

\* The table arguments of a chain are whole pairs.
LEMMA ArgumentsDescend ==
    ASSUME NEW t, Hunt!IsParsed(t), NEW p \in Hunt!Pairs(t)
    PROVE  \A f \in Hunt!TableArguments(t, p) : FrameOK(t, f)
  <1> SUFFICES ASSUME NEW j \in Hunt!Callees(t, p),
                      t.last[t.last[j] + 1] > t.last[j] + 1,
                      NEW f \in Hunt!Rest("string", t.last[j] + 2,
                                          t.last[t.last[j] + 2])
               PROVE  FrameOK(t, f)
    BY DEF Hunt!TableArguments
  <1> DEFINE k == t.last[j]
  <1>1. j \in Hunt!Pairs(t) /\ k < t.last[p]
    BY TreeFacts DEF Hunt!Callees, Hunt!Children
  <1>2. k \in Nat /\ t.last[p] <= t.size /\ t.last[p] \in Nat /\ t.size \in Nat
    BY <1>1, TreeFacts
  <1>3. k + 1 \in Hunt!Pairs(t)
    BY <1>1, <1>2 DEF Hunt!Pairs
  <1>4. t.last[k + 1] <= t.size /\ t.last[k + 1] \in Nat
    BY <1>3, TreeFacts
  <1>5. k + 2 \in Hunt!Pairs(t)
    BY <1>2, <1>4 DEF Hunt!Pairs
  <1>6. QED
    BY <1>5, RestDescends DEF Hunt!Descending

\* What walk goes on with inside a pair covers it.
LEMMA InsideCovers ==
    ASSUME NEW t, Hunt!IsParsed(t), NEW p \in Hunt!Pairs(t),
           NEW how \in {"table", "value"}
    PROVE  /\ \A f \in Hunt!Inside(t, p, how) : FrameOK(t, f)
           /\ Covers(t, p + 1, t.last[p], Hunt!Inside(t, p, how))
  <1> DEFINE rule == t.rule[p]
             last == t.last[p]
  <1>1. /\ p \in Nat /\ p >= 1 /\ last \in Nat /\ last \in Hunt!Pairs(t)
        /\ p <= last /\ p + 1 \in Nat \ {0}
        /\ \A q \in p .. last : q \in Hunt!Pairs(t) /\ t.last[q] <= last
    BY TreeFacts
  <1>2. ASSUME NEW mode \in Hunt!Walking, NEW from \in p + 1 .. last + 1
        PROVE  /\ \A f \in Hunt!Rest(mode, from, last) : FrameOK(t, f)
               /\ \A q \in from .. last : Spans(Hunt!Rest(mode, from, last), q)
    <2>1. from \in Nat \ {0} /\ \A q \in from .. last : t.last[q] <= last
      BY <1>1
    <2>2. QED
      BY <1>1, <2>1, RestWalks
  <1>3. /\ "table" \in Hunt!Walking /\ "value" \in Hunt!Walking
        /\ "operand" \in Hunt!Walking /\ "source" \in Hunt!Descending
    BY DEF Hunt!Walking, Hunt!Descending
  <1> HIDE DEF last
  <1>4. CASE rule \in Hunt!Opaque
    <2>1. \A q \in p + 1 .. last : Hunt!RefusedFor(t, q) = {}
      BY <1>4 DEF Hunt!IsParsed, last
    <2>2. Hunt!Inside(t, p, how) = {}
      BY <1>4 DEF Hunt!Inside, Hunt!Opaque
    <2>3. QED
      BY <2>1, <2>2 DEF Covers, last
  <1>5. CASE rule = "let_stmt"
    <2> DEFINE name == t.last[p + 2]
               frames == Hunt!Rest("table", name + 1, last)
    <2>1. /\ p + 1 < last /\ t.last[p + 1] = p + 1
          /\ t.rule[p + 1] = "kw_let" /\ t.rule[p + 2] = "name_decl"
      BY <1>5 DEF Hunt!IsParsed, last
    <2>2. Hunt!Inside(t, p, how) = frames
      BY <1>1, <1>5, <2>1 DEF Hunt!Inside, Hunt!Opaque, last
    <2>3. p + 2 \in Hunt!Pairs(t) /\ name <= last
      BY <1>1, <2>1
    <2>4. name \in Nat /\ p + 2 <= name
      BY <2>3, TreeFacts
    <2>5. name + 1 \in p + 1 .. last + 1
      BY <1>1, <2>3, <2>4
    <2>6. Hunt!RefusedFor(t, p + 1) = {} /\ Hunt!RefusedFor(t, p + 2) = {}
      BY <2>1, Unrefused
    <2>7. \A q \in p + 3 .. name : Hunt!RefusedFor(t, q) = {}
      <3>1. \A q \in p + 2 + 1 .. name : Hunt!RefusedFor(t, q) = {}
        BY <2>1, <2>3 DEF Hunt!IsParsed, Hunt!Opaque
      <3>2. QED
        BY <1>1, <3>1
    <2> HIDE DEF name, frames
    <2>8. (\A f \in frames : FrameOK(t, f)) /\ \A q \in name + 1 .. last : Spans(frames, q)
      BY <1>2, <1>3, <2>5 DEF frames
    <2>9. ASSUME NEW q \in p + 1 .. last
          PROVE  Hunt!RefusedFor(t, q) = {} \/ Spans(frames, q)
      <3>1. q = p + 1 \/ q = p + 2 \/ q \in p + 3 .. name \/ q \in name + 1 .. last
        BY <1>1, <2>4
      <3>2. QED
        BY <2>6, <2>7, <2>8, <3>1
    <2>10. QED
      BY <2>2, <2>8, <2>9 DEF Covers, last
  <1>6. CASE rule = "pipe_expr"
    <2> DEFINE head == t.last[p + 1]
               ops == Hunt!Rest("value", head + 1, last)
               mode == IF how = "table" \/ head < last THEN "source" ELSE "value"
               source == Hunt!Rest(mode, p + 1, head)
    <2>1. p < last
      BY <1>6 DEF Hunt!IsParsed, last
    <2>2. p + 1 \in Hunt!Pairs(t) /\ head <= last
      BY <1>1, <2>1
    <2>3. /\ head \in Nat /\ p + 1 <= head /\ head \in Hunt!Pairs(t)
          /\ \A q \in p + 1 .. head : t.last[q] <= head
      BY <2>2, TreeFacts
    <2>4. Hunt!Inside(t, p, how) = ops \cup source
      BY <1>6 DEF Hunt!Inside, Hunt!PipeFrames, Hunt!Opaque, last
    <2>5. head + 1 \in p + 1 .. last + 1
      BY <1>1, <2>2, <2>3
    <2>6. /\ \A f \in ops : FrameOK(t, f)
          /\ \A q \in head + 1 .. last : Spans(ops, q)
      BY <1>2, <1>3, <2>5
    <2>7. /\ \A f \in source : FrameOK(t, f)
          /\ \A q \in p + 1 .. head : Spans(source, q)
      <3>1. CASE mode = "source"
        <4>1. "source" # "string"
          OBVIOUS
        <4>2. QED
          BY <1>3, <2>2, <3>1, <4>1, RestDescends
      <3>2. CASE mode = "value"
        BY <1>1, <1>3, <2>3, <3>2, RestWalks
      <3>3. QED
        BY <3>1, <3>2
    <2> HIDE DEF head, ops, mode, source
    <2>8. ASSUME NEW q \in p + 1 .. last
          PROVE  Spans(ops \cup source, q)
      <3>1. q \in p + 1 .. head \/ q \in head + 1 .. last
        BY <1>1, <2>3
      <3>2. QED
        BY <2>6, <2>7, <3>1, SpansMore
    <2>9. QED
      BY <2>4, <2>6, <2>7, <2>8 DEF Covers, last
  <1>7. CASE rule \in {"tabular_operand", "find_source"}
    <2>1. Hunt!Inside(t, p, how) = Hunt!Rest("operand", p + 1, last)
      BY <1>7 DEF Hunt!Inside, Hunt!Opaque, last
    <2>2. p + 1 \in p + 1 .. last + 1
      BY <1>1
    <2>3. QED
      BY <1>2, <1>3, <2>1, <2>2 DEF Covers, last
  <1>8. CASE rule = "postfix"
    <2> DEFINE parts == Hunt!Rest("value", p + 1, last)
               arguments == Hunt!TableArguments(t, p)
    <2>1. Hunt!Inside(t, p, how) = parts \cup arguments
      BY <1>8 DEF Hunt!Inside, Hunt!Opaque, last
    <2>2. p + 1 \in p + 1 .. last + 1
      BY <1>1
    <2>3. /\ \A f \in parts : FrameOK(t, f)
          /\ \A q \in p + 1 .. last : Spans(parts, q)
      BY <1>2, <1>3, <2>2
    <2>4. \A f \in arguments : FrameOK(t, f)
      BY ArgumentsDescend
    <2> HIDE DEF parts, arguments
    <2>5. QED
      BY <2>1, <2>3, <2>4, SpansMore DEF Covers, last
  <1>9. CASE rule \notin Hunt!Opaque \cup {"let_stmt", "pipe_expr", "postfix",
                                            "tabular_operand", "find_source"}
    <2>1. Hunt!Inside(t, p, how) = Hunt!Rest("value", p + 1, last)
      BY <1>9 DEF Hunt!Inside, last
    <2>2. p + 1 \in p + 1 .. last + 1
      BY <1>1
    <2>3. QED
      BY <1>2, <1>3, <2>1, <2>2 DEF Covers, last
  <1>10. QED
    BY <1>4, <1>5, <1>6, <1>7, <1>8, <1>9

\* A step of the walk that has f loses nothing between its ends, and blames
\* nothing that is not there.
Continues(t, f, step) ==
    /\ \A g \in step.frames : FrameOK(t, g)
    /\ step.facts \subseteq Hunt!FactType
    /\ Hunt!Check(step.facts) \subseteq Hunt!RefusedIn(t)
    /\ f.how # "string" =>
         \A p \in f.from .. f.to :
             \/ Hunt!RefusedFor(t, p) \subseteq Hunt!Check(step.facts)
             \/ Spans(step.frames, p)

LEMMA FrameFacts ==
    ASSUME NEW t, Hunt!IsParsed(t), NEW f, FrameOK(t, f)
    PROVE  /\ f.how \in Hunt!Walking \cup Hunt!Descending
           /\ f.from \in Hunt!Pairs(t) /\ f.at \in Hunt!Pairs(t)
           /\ f.to \in Hunt!Pairs(t)
           /\ f.from \in Nat /\ f.at \in Nat /\ f.to \in Nat /\ f.from >= 1
           /\ f.from <= f.at /\ f.at <= f.to
           /\ \A q \in f.from .. f.to :
                q \in Hunt!Pairs(t) /\ t.last[q] \in q .. f.to
           /\ t.last[f.from] \in Nat /\ t.last[f.from] \in f.from .. f.to
  <1>1. /\ f.how \in Hunt!Walking \cup Hunt!Descending
        /\ f.from \in Hunt!Pairs(t) /\ f.at \in Hunt!Pairs(t)
        /\ f.to \in Hunt!Pairs(t)
        /\ f.from <= f.at /\ f.at <= f.to
        /\ \A q \in f.from .. f.to : t.last[q] <= f.to
    BY DEF FrameOK
  <1>2. /\ f.from \in Nat /\ f.at \in Nat /\ f.to \in Nat /\ f.from >= 1
        /\ f.to <= t.size /\ t.size \in Nat
    BY <1>1, TreeFacts
  <1>3. \A q \in f.from .. f.to : q \in Hunt!Pairs(t)
    BY <1>2 DEF Hunt!Pairs
  <1>4. \A q \in f.from .. f.to : t.last[q] \in Nat /\ q <= t.last[q]
    BY <1>3, TreeFacts
  <1>5. QED
    BY <1>1, <1>2, <1>3, <1>4

\* The pairs beside the first one of a frame.
LEMMA RestBeside ==
    ASSUME NEW t, Hunt!IsParsed(t), NEW f, FrameOK(t, f), f.how \in Hunt!Walking
    PROVE  LET rest == Hunt!Rest(f.how, t.last[f.from] + 1, f.to) IN
           /\ \A g \in rest : FrameOK(t, g)
           /\ \A q \in t.last[f.from] + 1 .. f.to : Spans(rest, q)
  <1>1. /\ t.last[f.from] + 1 \in Nat \ {0}
        /\ \A q \in t.last[f.from] + 1 .. f.to : t.last[q] <= f.to
    BY FrameFacts
  <1>2. QED
    BY <1>1, FrameFacts, RestWalks

LEMMA WalkContinues ==
    ASSUME NEW t, Hunt!IsParsed(t), NEW f, FrameOK(t, f),
           f.how \in Hunt!Walking, NEW how \in {"table", "value"}
    PROVE  Continues(t, f, Hunt!Walk(t, f, how))
  <1> DEFINE step == Hunt!Walk(t, f, how)
             facts == Hunt!OwnFacts(t, f.from)
             inside == Hunt!Inside(t, f.from, how)
             rest == Hunt!Rest(f.how, t.last[f.from] + 1, f.to)
             last == t.last[f.from]
  <1>1. step.facts = facts /\ step.frames = inside \cup rest
    BY DEF Hunt!Walk
  <1>2. /\ f.from \in Hunt!Pairs(t)
        /\ f.from \in Nat /\ f.to \in Nat /\ last \in f.from .. f.to
    BY FrameFacts
  <1>3. /\ facts \subseteq Hunt!FactType
        /\ Hunt!Check(facts) = Hunt!RefusedFor(t, f.from)
    BY <1>2, OwnCodes
  <1>4. /\ \A g \in inside : FrameOK(t, g)
        /\ \A q \in f.from + 1 .. last :
             Hunt!RefusedFor(t, q) = {} \/ Spans(inside, q)
    BY <1>2, InsideCovers DEF Covers
  <1>5. /\ \A g \in rest : FrameOK(t, g)
        /\ \A q \in last + 1 .. f.to : Spans(rest, q)
    BY RestBeside
  <1> HIDE DEF step, facts, inside, rest, last
  <1>6. ASSUME NEW q \in f.from .. f.to
        PROVE  \/ Hunt!RefusedFor(t, q) \subseteq Hunt!Check(facts)
               \/ Spans(inside \cup rest, q)
    <2>1. q = f.from \/ q \in f.from + 1 .. last \/ q \in last + 1 .. f.to
      BY <1>2
    <2>2. QED
      BY <2>1, <1>3, <1>4, <1>5, SpansMore
  <1>7. Continues(t, f, step)
    BY <1>1, <1>2, <1>3, <1>4, <1>5, <1>6 DEF Continues, Hunt!RefusedIn
  <1>8. QED
    BY <1>7 DEF step

LEMMA OperandContinues ==
    ASSUME NEW t, Hunt!IsParsed(t), NEW f, FrameOK(t, f), f.how = "operand"
    PROVE  Continues(t, f, Hunt!WalkOperand(t, f))
  <1> DEFINE step == Hunt!WalkOperand(t, f)
             rule == t.rule[f.from]
             last == t.last[f.from]
             rest == Hunt!Rest("operand", last + 1, f.to)
  <1>1. f.how \in Hunt!Walking /\ "table" \in Hunt!Walking
    BY DEF Hunt!Walking
  <1>2. /\ f.from \in Hunt!Pairs(t)
        /\ f.from \in Nat /\ f.to \in Nat /\ last \in f.from .. f.to
    BY FrameFacts
  <1>3. /\ \A g \in rest : FrameOK(t, g)
        /\ \A q \in last + 1 .. f.to : Spans(rest, q)
    BY <1>1, RestBeside
  <1>4. CASE rule = "paren_pipe"
    <2> DEFINE inside == Hunt!Rest("table", f.from + 1, last)
    <2>1. step.facts = {} /\ step.frames = rest \cup inside
      BY <1>4 DEF Hunt!WalkOperand
    <2>2. /\ last \in Hunt!Pairs(t) /\ f.from + 1 \in Nat \ {0}
          /\ \A q \in f.from + 1 .. last : t.last[q] <= last
      BY <1>2, TreeFacts
    <2>3. /\ \A g \in inside : FrameOK(t, g)
          /\ \A q \in f.from + 1 .. last : Spans(inside, q)
      BY <1>1, <2>2, RestWalks
    <2>4. Hunt!RefusedFor(t, f.from) = {}
      BY <1>4, Unrefused
    <2> HIDE DEF step, rest, last, inside
    <2>5. ASSUME NEW q \in f.from .. f.to
          PROVE  Hunt!RefusedFor(t, q) = {} \/ Spans(rest \cup inside, q)
      <3>1. q = f.from \/ q \in f.from + 1 .. last \/ q \in last + 1 .. f.to
        BY <1>2
      <3>2. QED
        BY <3>1, <1>3, <2>3, <2>4, SpansMore
    <2>6. Continues(t, f, step)
      BY <2>1, <1>3, <2>3, <2>5, CodesUnite DEF Continues
    <2>7. QED
      BY <2>6 DEF step
  <1>5. CASE rule = "postfix"
    <2> DEFINE callee == Hunt!Rest("callee", f.from, last)
    <2>1. step.facts = {} /\ step.frames = rest \cup callee
      BY <1>5 DEF Hunt!WalkOperand
    <2>2. "callee" \in Hunt!Descending /\ "callee" # "string"
      BY DEF Hunt!Descending
    <2>3. /\ \A g \in callee : FrameOK(t, g)
          /\ \A q \in f.from .. last : Spans(callee, q)
      BY <1>2, <2>2, RestDescends
    <2> HIDE DEF step, rest, last, callee
    <2>4. ASSUME NEW q \in f.from .. f.to
          PROVE  Spans(rest \cup callee, q)
      <3>1. q \in f.from .. last \/ q \in last + 1 .. f.to
        BY <1>2
      <3>2. QED
        BY <3>1, <1>3, <2>3, SpansMore
    <2>5. Continues(t, f, step)
      BY <2>1, <1>3, <2>3, <2>4, CodesUnite DEF Continues
    <2>6. QED
      BY <2>5 DEF step
  <1>6. CASE rule \notin {"paren_pipe", "postfix"}
    <2>1. step = Hunt!Walk(t, f, "table")
      BY <1>6 DEF Hunt!WalkOperand
    <2>2. QED
      BY <1>1, <2>1, WalkContinues
  <1>7. QED
    BY <1>4, <1>5, <1>6

\* The way a descent has come has nothing to refuse on it.
LEMMA DescentFollowsOnly ==
    ASSUME NEW t, Hunt!IsParsed(t), NEW f, FrameOK(t, f),
           f.how \in Hunt!Descending
    PROVE  \A q \in f.from .. f.at - 1 : Hunt!RefusedFor(t, q) = {}
  <1>1. \A q \in f.from .. f.at - 1 : Hunt!OnlyChild(t, q)
    BY DEF FrameOK, Hunt!Walking, Hunt!Descending
  <1>2. \A q \in f.from .. f.at - 1 : q \in Hunt!Pairs(t)
    BY FrameFacts
  <1>3. QED
    BY <1>1, <1>2 DEF Hunt!IsParsed

\* One child further.
LEMMA DescentGoesOn ==
    ASSUME NEW t, Hunt!IsParsed(t), NEW f, FrameOK(t, f),
           f.how \in Hunt!Descending, Hunt!OnlyChild(t, f.at)
    PROVE  FrameOK(t, [f EXCEPT !.at = f.at + 1])
  <1> DEFINE g == [f EXCEPT !.at = f.at + 1]
  <1>1. /\ f \in [how : Hunt!Walking \cup Hunt!Descending,
                  from : Hunt!Pairs(t), at : Hunt!Pairs(t), to : Hunt!Pairs(t)]
        /\ \A q \in f.from .. f.to : t.last[q] <= f.to
        /\ t.last[f.from] = f.to /\ t.last[f.at] = f.to
        /\ \A q \in f.from .. f.at - 1 : Hunt!OnlyChild(t, q)
    BY DEF FrameOK
  <1>2. /\ f.from \in Nat /\ f.at \in Nat /\ f.to \in Nat /\ f.from <= f.at
        /\ \A q \in f.from .. f.to : q \in Hunt!Pairs(t)
    BY FrameFacts
  <1>3. t.last[f.at + 1] = f.to /\ f.at + 1 <= f.to
    BY <1>1, <1>2 DEF Hunt!OnlyChild
  <1>4. f.at + 1 \in Hunt!Pairs(t)
    BY <1>2, <1>3
  <1>5. \A q \in f.from .. f.at : Hunt!OnlyChild(t, q)
    BY <1>1, <1>2
  <1>6. /\ g \in [how : Hunt!Walking \cup Hunt!Descending,
                  from : Hunt!Pairs(t), at : Hunt!Pairs(t), to : Hunt!Pairs(t)]
        /\ g.how = f.how /\ g.from = f.from /\ g.at = f.at + 1 /\ g.to = f.to
    BY <1>1, <1>4
  <1>7. f.how \notin Hunt!Walking
    BY DEF Hunt!Walking, Hunt!Descending
  <1> HIDE DEF g
  <1>8. FrameOK(t, g)
    BY <1>1, <1>2, <1>3, <1>5, <1>6, <1>7 DEF FrameOK
  <1>9. QED
    BY <1>8 DEF g

LEMMA NamesUnrefused ==
    ASSUME NEW text \in STRING
    PROVE  /\ {Hunt!Fact("table", text)} \subseteq Hunt!FactType
           /\ Hunt!Check({Hunt!Fact("table", text)}) = {}
  <1>1. "table" \in Hunt!NameKind
    BY DEF Hunt!NameKind
  <1>2. QED
    BY <1>1, FactCode

LEMMA DescendContinues ==
    ASSUME NEW t, Hunt!IsParsed(t), NEW f, FrameOK(t, f),
           f.how \in {"source", "callee"}
    PROVE  Continues(t, f, Hunt!Descend(t, f))
  <1> DEFINE step == Hunt!Descend(t, f)
             rule == t.rule[f.at]
  <1>1. /\ f.how \in Hunt!Descending /\ f.how # "string"
        /\ "table" \in Hunt!Walking /\ "value" \in Hunt!Walking
    BY DEF Hunt!Descending, Hunt!Walking
  <1>2. t.last[f.from] = f.to /\ t.last[f.at] = f.to
    BY <1>1 DEF FrameOK
  <1>3. /\ f.from \in Hunt!Pairs(t) /\ f.at \in Hunt!Pairs(t)
        /\ f.to \in Hunt!Pairs(t) /\ t.text[f.at] \in STRING
        /\ f.from \in Nat /\ f.at \in Nat /\ f.to \in Nat /\ f.from >= 1
        /\ f.from <= f.at /\ f.at <= f.to
        /\ \A q \in f.from .. f.to : t.last[q] <= f.to
    BY FrameFacts, TreeFacts
  <1>4. \A q \in f.from .. f.at - 1 : Hunt!RefusedFor(t, q) = {}
    BY <1>1, DescentFollowsOnly
  <1>5. CASE rule = "name_ref"
    <2>1. step.facts = {Hunt!Fact("table", t.text[f.at])} /\ step.frames = {}
      BY <1>5 DEF Hunt!Descend
    <2>2. Hunt!RefusedFor(t, f.at) = {}
      BY <1>5, Unrefused
    <2>3. \A q \in f.at + 1 .. f.to : Hunt!RefusedFor(t, q) = {}
      BY <1>2, <1>3, <1>5 DEF Hunt!IsParsed, Hunt!Opaque
    <2> HIDE DEF step
    <2>4. ASSUME NEW q \in f.from .. f.to PROVE Hunt!RefusedFor(t, q) = {}
      <3>1. q \in f.from .. f.at - 1 \/ q = f.at \/ q \in f.at + 1 .. f.to
        BY <1>3
      <3>2. QED
        BY <1>4, <2>2, <2>3, <3>1
    <2>5. Continues(t, f, step)
      BY <1>3, <2>1, <2>4, NamesUnrefused DEF Continues
    <2>6. QED
      BY <2>5 DEF step
  <1>6. CASE rule = "paren_pipe" /\ f.how = "source"
    <2> DEFINE inside == Hunt!Rest("table", f.at + 1, f.to)
    <2>1. step.facts = {} /\ step.frames = inside
      BY <1>2, <1>6 DEF Hunt!Descend
    <2>2. /\ f.at + 1 \in Nat \ {0}
          /\ \A q \in f.at + 1 .. f.to : t.last[q] <= f.to
      BY <1>3
    <2>3. /\ \A g \in inside : FrameOK(t, g)
          /\ \A q \in f.at + 1 .. f.to : Spans(inside, q)
      BY <1>1, <1>3, <2>2, RestWalks
    <2>4. Hunt!RefusedFor(t, f.at) = {}
      BY <1>6, Unrefused
    <2> HIDE DEF step, inside
    <2>5. ASSUME NEW q \in f.from .. f.to
          PROVE  Hunt!RefusedFor(t, q) = {} \/ Spans(inside, q)
      <3>1. q \in f.from .. f.at - 1 \/ q = f.at \/ q \in f.at + 1 .. f.to
        BY <1>3
      <3>2. QED
        BY <1>4, <2>3, <2>4, <3>1
    <2>6. Continues(t, f, step)
      BY <2>1, <2>3, <2>5, CodesUnite DEF Continues
    <2>7. QED
      BY <2>6 DEF step
  <1>7. CASE /\ rule # "name_ref" /\ ~(rule = "paren_pipe" /\ f.how = "source")
             /\ Hunt!OnlyChild(t, f.at) /\ rule # "paren_pipe"
    <2> DEFINE g == [f EXCEPT !.at = f.at + 1]
    <2>1. step.facts = {} /\ step.frames = {g}
      BY <1>7 DEF Hunt!Descend
    <2>2. FrameOK(t, g)
      BY <1>1, <1>7, DescentGoesOn
    <2>3. g.how = f.how /\ g.from = f.from /\ g.to = f.to
      BY DEF FrameOK
    <2> HIDE DEF step, g
    <2>4. \A q \in f.from .. f.to : Spans({g}, q)
      BY <1>1, <2>3 DEF Spans
    <2>5. Continues(t, f, step)
      BY <2>1, <2>2, <2>4, CodesUnite DEF Continues
    <2>6. QED
      BY <2>5 DEF step
  <1>8. CASE /\ rule # "name_ref" /\ ~(rule = "paren_pipe" /\ f.how = "source")
             /\ ~(Hunt!OnlyChild(t, f.at) /\ rule # "paren_pipe")
    <2> DEFINE again == Hunt!Rest("value", f.from, f.to)
    <2>1. step.facts = {} /\ step.frames = again
      BY <1>8 DEF Hunt!Descend
    <2>2. /\ \A g \in again : FrameOK(t, g)
          /\ \A q \in f.from .. f.to : Spans(again, q)
      BY <1>1, <1>3, RestWalks
    <2> HIDE DEF step, again
    <2>3. Continues(t, f, step)
      BY <2>1, <2>2, CodesUnite DEF Continues
    <2>4. QED
      BY <2>3 DEF step
  <1>9. QED
    BY <1>5, <1>6, <1>7, <1>8

LEMMA StringContinues ==
    ASSUME NEW t, Hunt!IsParsed(t), NEW f, FrameOK(t, f), f.how = "string"
    PROVE  Continues(t, f, Hunt!DescendString(t, f))
  <1> DEFINE step == Hunt!DescendString(t, f)
  <1>1. t.text[f.at] \in STRING /\ f.how \in Hunt!Descending
    BY FrameFacts, TreeFacts DEF Hunt!Descending
  <1>2. CASE t.rule[f.at] = "string_lit"
    <2>1. step.facts = {Hunt!Fact("table", t.text[f.at])} /\ step.frames = {}
      BY <1>2 DEF Hunt!DescendString
    <2> HIDE DEF step
    <2>2. Continues(t, f, step)
      BY <1>1, <2>1, NamesUnrefused DEF Continues
    <2>3. QED
      BY <2>2 DEF step
  <1>3. CASE t.rule[f.at] # "string_lit"
    <2> DEFINE g == [f EXCEPT !.at = f.at + 1]
    <2>1. /\ step.facts = {}
          /\ step.frames = IF Hunt!OnlyChild(t, f.at) THEN {g} ELSE {}
      BY <1>3 DEF Hunt!DescendString
    <2>2. Hunt!OnlyChild(t, f.at) => FrameOK(t, g)
      BY <1>1, DescentGoesOn
    <2> HIDE DEF step, g
    <2>3. Continues(t, f, step)
      BY <2>1, <2>2, CodesUnite DEF Continues
    <2>4. QED
      BY <2>3 DEF step
  <1>4. QED
    BY <1>2, <1>3

LEMMA StepContinues ==
    ASSUME NEW t, Hunt!IsParsed(t), NEW f, FrameOK(t, f)
    PROVE  Continues(t, f, Hunt!StepOf(t, f))
  <1>1. f.how \in Hunt!Walking \cup Hunt!Descending
    BY FrameFacts
  <1>2. CASE f.how \in {"table", "value"}
    <2>1. Hunt!StepOf(t, f) = Hunt!Walk(t, f, f.how)
      BY <1>2 DEF Hunt!StepOf
    <2>2. QED
      BY <1>2, <2>1, WalkContinues DEF Hunt!Walking
  <1>3. CASE f.how = "operand"
    <2>1. Hunt!StepOf(t, f) = Hunt!WalkOperand(t, f)
      BY <1>3 DEF Hunt!StepOf
    <2>2. QED
      BY <1>3, <2>1, OperandContinues
  <1>4. CASE f.how \in {"source", "callee"}
    <2>1. Hunt!StepOf(t, f) = Hunt!Descend(t, f)
      BY <1>4 DEF Hunt!StepOf
    <2>2. QED
      BY <1>4, <2>1, DescendContinues
  <1>5. CASE f.how = "string"
    <2>1. Hunt!StepOf(t, f) = Hunt!DescendString(t, f)
      BY <1>5 DEF Hunt!StepOf
    <2>2. QED
      BY <1>5, <2>1, StringContinues
  <1>6. QED
    BY <1>1, <1>2, <1>3, <1>4, <1>5 DEF Hunt!Walking, Hunt!Descending

-----------------------------------------------------------------------------
(***************************************************************************)
(* The whole walk: what is to be refused has been recorded or is spanned,  *)
(* and what has been recorded stands in the tree.                          *)
(***************************************************************************)

WalkInv(t, todo, facts) ==
    /\ \A f \in todo : FrameOK(t, f)
    /\ facts \subseteq Hunt!FactType
    /\ Hunt!Check(facts) \subseteq Hunt!RefusedIn(t)
    /\ \A p \in Hunt!Pairs(t) :
         Hunt!RefusedFor(t, p) \subseteq Hunt!Check(facts) \/ Spans(todo, p)

\* Frames are of the type HuntingRun gives them.
LEMMA WalkTyped ==
    ASSUME NEW t, Hunt!IsParsed(t), NEW todo, NEW facts, WalkInv(t, todo, facts)
    PROVE  todo \subseteq [how : Hunt!Walking \cup Hunt!Descending,
                           from : Nat, at : Nat, to : Nat]
  <1> SUFFICES ASSUME NEW f \in todo
               PROVE  f \in [how : Hunt!Walking \cup Hunt!Descending,
                             from : Nat, at : Nat, to : Nat]
    OBVIOUS
  <1>1. FrameOK(t, f)
    BY DEF WalkInv
  <1>2. f \in [how : Hunt!Walking \cup Hunt!Descending,
               from : Hunt!Pairs(t), at : Hunt!Pairs(t), to : Hunt!Pairs(t)]
    BY <1>1 DEF FrameOK
  <1>3. \A p \in Hunt!Pairs(t) : p \in Nat
    BY TreeFacts
  <1>4. QED
    BY <1>2, <1>3

\* The statements are all of a query but its own pair.
LEMMA WalkBegins ==
    ASSUME NEW t, Hunt!IsParsed(t)
    PROVE  WalkInv(t, Hunt!Statements(t), {})
  <1> DEFINE todo == Hunt!Statements(t)
  <1>1. t.size \in Nat /\ t.size >= 1 /\ t.last[1] = t.size /\ t.rule[1] = "query"
    BY TreeFacts DEF Hunt!IsParsed, Hunt!IsTree
  <1>2. t.size \in Hunt!Pairs(t) /\ 1 \in Hunt!Pairs(t)
    BY <1>1 DEF Hunt!Pairs
  <1>3. \A q \in 2 .. t.size : t.last[q] <= t.size
    BY <1>1, TreeFacts DEF Hunt!Pairs
  <1>4. "table" \in Hunt!Walking /\ 2 \in Nat \ {0}
    BY DEF Hunt!Walking
  <1>5. /\ \A f \in todo : FrameOK(t, f)
        /\ \A p \in 2 .. t.size : Spans(todo, p)
    BY <1>2, <1>3, <1>4, RestWalks DEF Hunt!Statements
  <1>6. Hunt!RefusedFor(t, 1) = {}
    BY <1>1, Unrefused
  <1> HIDE DEF todo
  <1>7. ASSUME NEW p \in Hunt!Pairs(t)
        PROVE  Hunt!RefusedFor(t, p) = {} \/ Spans(todo, p)
    <2>1. p = 1 \/ p \in 2 .. t.size
      BY <1>1 DEF Hunt!Pairs
    <2>2. QED
      BY <1>5, <1>6, <2>1
  <1>8. WalkInv(t, todo, {})
    BY <1>5, <1>7, CodesUnite DEF WalkInv
  <1>9. QED
    BY <1>8 DEF todo

LEMMA WalkGoesOn ==
    ASSUME NEW t, Hunt!IsParsed(t), NEW todo, NEW facts, WalkInv(t, todo, facts),
           NEW f \in todo
    PROVE  LET step == Hunt!StepOf(t, f) IN
           WalkInv(t, (todo \ {f}) \cup step.frames, facts \cup step.facts)
  <1> DEFINE step == Hunt!StepOf(t, f)
             todoN == (todo \ {f}) \cup step.frames
             factsN == facts \cup step.facts
  <1>1. FrameOK(t, f) /\ Continues(t, f, step)
    BY StepContinues DEF WalkInv
  <1>2. Hunt!Check(factsN) = Hunt!Check(facts) \cup Hunt!Check(step.facts)
    BY CodesUnite
  <1> HIDE DEF step
  <1>3. \A g \in todoN : FrameOK(t, g)
    BY <1>1 DEF WalkInv, Continues
  <1>4. factsN \subseteq Hunt!FactType
    BY <1>1 DEF WalkInv, Continues
  <1> HIDE DEF factsN
  <1>5. Hunt!Check(factsN) \subseteq Hunt!RefusedIn(t)
    BY <1>1, <1>2 DEF WalkInv, Continues, Hunt!RefusedIn
  <1>6. ASSUME NEW p \in Hunt!Pairs(t)
        PROVE  \/ Hunt!RefusedFor(t, p) \subseteq Hunt!Check(factsN)
               \/ Spans(todoN, p)
    <2>1. \/ Hunt!RefusedFor(t, p) \subseteq Hunt!Check(facts)
          \/ Spans(todo, p)
      BY DEF WalkInv
    <2>2. CASE Hunt!RefusedFor(t, p) \subseteq Hunt!Check(facts)
      BY <1>2, <2>2
    <2>3. CASE Spans(todo, p)
      <3>1. PICK g \in todo : g.how # "string" /\ p \in g.from .. g.to
        BY <2>3 DEF Spans
      <3>2. CASE g = f
        <4>1. \/ Hunt!RefusedFor(t, p) \subseteq Hunt!Check(step.facts)
              \/ Spans(step.frames, p)
          BY <1>1, <3>1, <3>2 DEF Continues
        <4>2. QED
          BY <1>2, <4>1, SpansMore
      <3>3. CASE g # f
        BY <3>1, <3>3 DEF Spans
      <3>4. QED
        BY <3>2, <3>3
    <2>4. QED
      BY <2>1, <2>2, <2>3
  <1> HIDE DEF todoN
  <1>7. WalkInv(t, todoN, factsN)
    BY <1>3, <1>4, <1>5, <1>6 DEF WalkInv
  <1>8. QED
    BY <1>7 DEF todoN, factsN, step

\* At its end the walk has recorded exactly what stands in the tree.
LEMMA WalkEnds ==
    ASSUME NEW t, NEW facts, WalkInv(t, {}, facts)
    PROVE  Hunt!Check(facts) = Hunt!RefusedIn(t)
  BY DEF WalkInv, Hunt!RefusedIn, Spans

-----------------------------------------------------------------------------
(***************************************************************************)
(* A query, from the call to its answer.                                   *)
(***************************************************************************)

HuntInv ==
    /\ Hunt!TypeOK
    /\ hunt.state = "walking" =>
         WalkInv(Tree[hunt.query], hunt.todo, hunt.facts)
    /\ hunt.state = "sent" => hunt.take = Hunt!Bound(hunt.limit)
    /\ Hunt!CutAnswersSaySo
    /\ Hunt!OnlyScopedSent
    /\ Hunt!RefusalsExact

LEMMA HuntInit == Hunt!Init => HuntInv
  BY DEF Hunt!Init, Hunt!Idle, HuntInv, Hunt!TypeOK, Hunt!CutAnswersSaySo,
         Hunt!OnlyScopedSent, Hunt!RefusalsExact

LEMMA HuntTyped ==
    ASSUME HuntInv
    PROVE  /\ hunt.state = "walking" =>
                /\ hunt \in Hunt!Walks
                /\ Hunt!IsParsed(Tree[hunt.query])
           /\ hunt.state = "sent" => hunt \in Hunt!Sent
  BY ToolCallsAssumption
     DEF HuntInv, Hunt!TypeOK, Hunt!Idle, Hunt!Ended, Hunt!Walks, Hunt!Refused,
         Hunt!Sent, Hunt!Answered, Hunt!HuntingAssumption

\* A walk at its end has what both verdicts are made of.
LEMMA WalkedExactly ==
    ASSUME HuntInv, hunt.state = "walking", hunt.todo = {}
    PROVE  Hunt!Check(hunt.facts) = Hunt!RefusedIn(Tree[hunt.query])
  BY WalkEnds DEF HuntInv

LEMMA RefusesExactly == HuntInv /\ Hunt!RunRefused => HuntInv'
  <1> SUFFICES ASSUME HuntInv, Hunt!RunRefused PROVE HuntInv'
    OBVIOUS
  <1> DEFINE t == Tree[hunt.query]
             problems == Hunt!Problems
             shape == IF Hunt!IsTabular(t) THEN {} ELSE {"not_tabular"}
  <1>1. /\ hunt.state = "walking" /\ hunt.todo = {}
        /\ hunt' = [state |-> "refused", query |-> hunt.query,
                    problems |-> problems]
    BY DEF Hunt!RunRefused
  <1>2. hunt.query \in Query
    BY <1>1, HuntTyped DEF Hunt!Walks
  <1>3. Hunt!RefusedIn(t) \subseteq Hunt!Code
    BY DEF Hunt!RefusedIn, Hunt!RefusedFor
  <1>4. problems = Hunt!RefusedIn(t) \cup shape
                     \cup (IF Hunt!Tables(hunt.facts) = {}
                           THEN {"no_table"} ELSE {})
    BY <1>1, WalkedExactly DEF Hunt!Problems, Hunt!Errors
  <1>5. problems \subseteq Hunt!Problem
    BY <1>3, <1>4 DEF Hunt!Problem
  <1>6. problems \ {"no_table"} = Hunt!RefusedIn(t) \cup shape
    BY <1>3, <1>4 DEF Hunt!Code
  <1> HIDE DEF problems
  <1>7. hunt' \in Hunt!Refused
    BY <1>1, <1>2, <1>5 DEF Hunt!Refused
  <1>8. hunt'.state = "refused" /\ hunt'.query = hunt.query
        /\ hunt'.problems = problems
    BY <1>1
  <1>9. Hunt!RefusalsExact'
    BY <1>6, <1>8 DEF Hunt!RefusalsExact
  <1>10. QED
    BY <1>7, <1>8, <1>9
       DEF HuntInv, Hunt!TypeOK, Hunt!CutAnswersSaySo, Hunt!OnlyScopedSent

LEMMA SendsScoped == HuntInv /\ Hunt!RunSent => HuntInv'
  <1> SUFFICES ASSUME HuntInv, Hunt!RunSent PROVE HuntInv'
    OBVIOUS
  <1> DEFINE t == Tree[hunt.query]
             warned == Hunt!Warnings(hunt.facts) # {}
  <1>1. /\ hunt.state = "walking" /\ hunt.todo = {} /\ Hunt!Problems = {}
        /\ hunt' = [state |-> "sent", query |-> hunt.query,
                    limit |-> hunt.limit, take |-> Hunt!Bound(hunt.limit),
                    warned |-> warned]
    BY DEF Hunt!RunSent
  <1>2. hunt.query \in Query /\ hunt.limit \in 1 .. Hunt!MaxMaxRows
    BY <1>1, HuntTyped DEF Hunt!Walks
  <1>3. Hunt!Bound(hunt.limit) \in Nat
    BY <1>2, ToolCallsAssumption
       DEF Hunt!HuntingAssumption, Hunt!MaxMaxRows, Hunt!Bound
  <1>4. Hunt!RefusedIn(t) = {} /\ Hunt!IsTabular(t)
    BY <1>1, WalkedExactly DEF Hunt!Problems, Hunt!Errors
  <1>5. \A p \in Hunt!Pairs(t) : Hunt!RefusedFor(t, p) = {}
    BY <1>4 DEF Hunt!RefusedIn
  <1>6. warned \in BOOLEAN
    OBVIOUS
  <1> HIDE DEF warned
  <1>7. hunt' \in Hunt!Sent
    BY <1>1, <1>2, <1>3, <1>6 DEF Hunt!Sent
  <1>8. hunt'.state = "sent" /\ hunt'.query = hunt.query
        /\ hunt'.limit = hunt.limit /\ hunt'.take = Hunt!Bound(hunt.limit)
    BY <1>1
  <1>9. QED
    BY <1>4, <1>5, <1>7, <1>8
       DEF HuntInv, Hunt!TypeOK, Hunt!CutAnswersSaySo, Hunt!OnlyScopedSent,
           Hunt!RefusalsExact

\* The bound is more than may be returned and no more than Graph returns, so
\* the answer has the one row too many exactly if there is one, when they fit.
LEMMA AnswersTell ==
    ASSUME HuntInv, NEW matched \in 0 .. MaxMatched,
           NEW fit \in 0 .. MaxMatched, Hunt!GraphAnswers(matched, fit)
    PROVE  HuntInv'
  <1> DEFINE whole == Hunt!AtMost(Hunt!AtMost(matched, hunt.take), GraphRowLimit)
             rows == Hunt!AtMost(whole, fit)
             large == fit < whole
             cut == rows > hunt.limit
             count == Hunt!AtMost(rows, hunt.limit)
  <1>1. /\ hunt.state = "sent"
        /\ hunt' = Hunt!Compact(matched, large, rows)
    BY DEF Hunt!GraphAnswers
  <1>2. /\ hunt \in Hunt!Sent
        /\ hunt.take = Hunt!Bound(hunt.limit)
    BY <1>1, HuntTyped DEF HuntInv
  <1>3. /\ hunt.query \in Query /\ hunt.limit \in 1 .. Hunt!MaxMaxRows
        /\ hunt.warned \in BOOLEAN /\ matched \in Nat /\ fit \in Nat
    BY <1>2 DEF Hunt!Sent
  <1>4. hunt' = [state |-> "answered", query |-> hunt.query,
                 limit |-> hunt.limit, matched |-> matched,
                 tooLarge |-> large, rowCount |-> count, truncated |-> cut, warned |-> hunt.warned]
    BY <1>1 DEF Hunt!Compact
  <1>5. /\ count \in Nat
        /\ cut => matched > count
        /\ ~large => /\ count = Hunt!AtMost(matched, hunt.limit)
                     /\ cut <=> matched > count
    <2>1. /\ whole = Hunt!AtMost(Hunt!AtMost(matched, Hunt!Bound(hunt.limit)),
                                 GraphRowLimit)
          /\ rows = Hunt!AtMost(whole, fit)
      BY <1>2
    <2> DEFINE limit == hunt.limit
    <2>2. /\ limit \in 1 .. Hunt!MaxMaxRows
          /\ whole = Hunt!AtMost(Hunt!AtMost(matched, Hunt!Bound(limit)),
                                 GraphRowLimit)
      BY <1>3, <2>1
    <2> HIDE DEF whole, rows, limit
    <2>3. /\ Hunt!AtMost(rows, limit) \in Nat
          /\ rows > limit => matched > Hunt!AtMost(rows, limit)
          /\ ~(fit < whole) =>
               /\ Hunt!AtMost(rows, limit) = Hunt!AtMost(matched, limit)
               /\ rows > limit <=> matched > Hunt!AtMost(rows, limit)
      <3>1. matched \in Nat /\ fit \in Nat
        BY <1>3
      <3>2. QED
        BY <3>1, <2>1, <2>2, ToolCallsAssumption
           DEF Hunt!HuntingAssumption, Hunt!MaxMaxRows, Hunt!Bound, Hunt!AtMost
    <2>4. QED
      BY <2>3 DEF limit
  <1>6. cut \in BOOLEAN /\ large \in BOOLEAN
    OBVIOUS
  <1> HIDE DEF whole, rows, large, cut, count
  <1>7. hunt' \in Hunt!Answered
    BY <1>3, <1>4, <1>5, <1>6 DEF Hunt!Answered
  <1>8. /\ hunt'.state = "answered" /\ hunt'.limit = hunt.limit
        /\ hunt'.matched = matched /\ hunt'.rowCount = count
        /\ hunt'.truncated = cut /\ hunt'.tooLarge = large
    BY <1>4
  <1>9. QED
    BY <1>5, <1>7, <1>8
       DEF HuntInv, Hunt!TypeOK, Hunt!CutAnswersSaySo, Hunt!OnlyScopedSent,
           Hunt!RefusalsExact

LEMMA HuntStep == HuntInv /\ [Hunt!Next]_hunt => HuntInv'
  <1> SUFFICES ASSUME HuntInv, [Hunt!Next]_hunt PROVE HuntInv'
    OBVIOUS
  <1> USE DEF Hunt!TypeOK, Hunt!CutAnswersSaySo, Hunt!OnlyScopedSent,
              Hunt!RefusalsExact
  <1>1. ASSUME NEW q \in Query, NEW limit \in Asked, Hunt!Run(q, limit)
        PROVE  HuntInv'
    <2> DEFINE todo == Hunt!Statements(Tree[q])
    <2>1. /\ limit \in 1 .. Hunt!MaxMaxRows
          /\ hunt' = [state |-> "walking", query |-> q, limit |-> limit,
                      todo |-> todo, facts |-> {}]
      BY <1>1 DEF Hunt!Run
    <2>2. Hunt!IsParsed(Tree[q])
      BY ToolCallsAssumption DEF Hunt!HuntingAssumption
    <2>3. WalkInv(Tree[q], todo, {})
      BY <2>2, WalkBegins
    <2>4. todo \subseteq [how : Hunt!Walking \cup Hunt!Descending,
                          from : Nat, at : Nat, to : Nat]
      BY <2>2, <2>3, WalkTyped
    <2> HIDE DEF todo
    <2>5. hunt' \in Hunt!Walks
      BY <2>1, <2>4 DEF Hunt!Walks
    <2>6. /\ hunt'.state = "walking" /\ hunt'.query = q
          /\ hunt'.todo = todo /\ hunt'.facts = {}
      BY <2>1
    <2>7. QED
      BY <2>3, <2>5, <2>6 DEF HuntInv
  <1>2. ASSUME NEW f \in hunt.todo, Hunt!WalkOn(f) PROVE HuntInv'
    <2> DEFINE t == Tree[hunt.query]
               step == Hunt!StepOf(t, f)
               todo == (hunt.todo \ {f}) \cup step.frames
               facts == hunt.facts \cup step.facts
    <2>1. /\ hunt.state = "walking"
          /\ hunt' = [hunt EXCEPT !.todo = todo, !.facts = facts]
      BY <1>2 DEF Hunt!WalkOn
    <2>2. hunt \in Hunt!Walks /\ Hunt!IsParsed(t)
      BY <2>1, HuntTyped
    <2>3. WalkInv(t, hunt.todo, hunt.facts)
      BY <2>1 DEF HuntInv
    <2>4. WalkInv(t, todo, facts)
      BY <2>2, <2>3, WalkGoesOn
    <2>5. /\ todo \subseteq [how : Hunt!Walking \cup Hunt!Descending,
                             from : Nat, at : Nat, to : Nat]
          /\ facts \subseteq Hunt!FactType
      <3>1. facts \subseteq Hunt!FactType
        BY <2>4 DEF WalkInv
      <3>2. QED
        BY <2>2, <2>4, <3>1, WalkTyped
    <2> HIDE DEF todo, facts, step
    <2>6. hunt' \in Hunt!Walks
      BY <2>1, <2>2, <2>5 DEF Hunt!Walks
    <2>7. /\ hunt'.state = "walking" /\ hunt'.query = hunt.query
          /\ hunt'.todo = todo /\ hunt'.facts = facts
      BY <2>1, <2>2 DEF Hunt!Walks
    <2>8. QED
      BY <2>4, <2>6, <2>7 DEF HuntInv
  <1>3. CASE Hunt!RunInvalid \/ Hunt!RunUnparsed \/ Hunt!GraphFails
    <2>1. PICK state \in {"invalid", "unparsed", "failed"} :
            hunt' = [state |-> state]
      BY <1>3 DEF Hunt!RunInvalid, Hunt!RunUnparsed, Hunt!GraphFails
    <2>2. hunt' \in Hunt!Ended /\ hunt'.state = state
      BY <2>1 DEF Hunt!Ended
    <2>3. QED
      BY <2>2 DEF HuntInv
  <1>4. CASE Hunt!Return
    <2>1. hunt' = Hunt!Idle
      BY <1>4 DEF Hunt!Return
    <2>2. hunt'.state = "idle"
      BY <2>1 DEF Hunt!Idle
    <2>3. QED
      BY <2>1, <2>2 DEF HuntInv
  <1>5. CASE UNCHANGED hunt
    BY <1>5 DEF HuntInv
  <1>6. QED
    BY <1>1, <1>2, <1>3, <1>4, <1>5, RefusesExactly, SendsScoped, AnswersTell
       DEF Hunt!Next

-----------------------------------------------------------------------------

IInv == CallInv /\ HuntInv

\* Whatever is called, and whatever Graph and the clients do, the invariant
\* the six theorems rest on holds.
THEOREM Invariance == Spec => []IInv
  <1>1. Init => IInv
    BY CallInit, HuntInit DEF Init, IInv
  <1>2. IInv /\ [Next]_vars => IInv'
    <2> SUFFICES ASSUME IInv, [Next]_vars PROVE IInv'
      OBVIOUS
    <2>1. [Hunt!Next]_hunt
      BY DEF Next, RunQuery, Mutate, vars
    <2>2. [Mutation!Next]_(Mutation!vars)
      BY DEF Next, RunQuery, Mutate, vars, Mutation!vars
    <2>3. QED
      BY <2>1, <2>2, CallStep, HuntStep DEF IInv
  <1>3. QED
    BY <1>1, <1>2, PTL DEF Spec

\* For any row limit of Graph and any maxRows that passes validation, only an
\* answer that lacks rows is marked truncated, and every such answer is if its
\* result was not too large for Graph.
THEOREM CutAnswers == Spec => []CutAnswersSaySo
  <1>1. IInv => CutAnswersSaySo
    BY DEF IInv, HuntInv, CutAnswersSaySo
  <1>2. QED
    BY <1>1, Invariance, PTL

\* For any parse tree, no query that should be refused is in flight, however
\* deep in it, and beneath whatever, it hides what it should be refused for.
THEOREM OnlyScoped == Spec => []OnlyScopedSent
  <1>1. IInv => OnlyScopedSent
    BY DEF IInv, HuntInv, OnlyScopedSent
  <1>2. QED
    BY <1>1, Invariance, PTL

\* For any parse tree, a refusal names all that stands in it to be refused and
\* nothing else.
THEOREM RefusalsAreExact == Spec => []RefusalsExact
  <1>1. IInv => RefusalsExact
    BY DEF IInv, HuntInv, RefusalsExact
  <1>2. QED
    BY <1>1, Invariance, PTL

\* Every field given to an action that is accepted is in its request or is
\* its justification, whatever fields are given.
THEOREM NoneDropped == Spec => []NothingDropped
  <1>1. IInv => NothingDropped
    BY AcceptedDropsNothing DEF IInv
  <1>2. QED
    BY <1>1, Invariance, PTL

\* The targets shown and recorded are those of the request, and so is every
\* parameter, for every combination of fields and values.
THEOREM RecordsAreSent == Spec => []RecordedIsSent
  <1>1. IInv => RecordedIsSent
    BY AcceptedRecordIsSent DEF IInv
  <1>2. QED
    BY <1>1, Invariance, PTL

\* No determination is sent without its classification, or as a word that
\* says something else.
THEOREM DeterminationsKept == Spec => []DeterminationKept
  <1>1. IInv => DeterminationKept
    BY AcceptedKeepsDetermination DEF IInv
  <1>2. QED
    BY <1>1, Invariance, PTL
====
