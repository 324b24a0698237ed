----------------------- MODULE MutationPipelineProofs -----------------------
(***************************************************************************)
(* Theorems of MutationPipeline, for any attempts, calls and flags.        *)
(*                                                                         *)
(* Everything rests on one inductive invariant: AttemptInv says, for each  *)
(* place an attempt can be at, what has been settled about it by then, and *)
(* FragmentInv what a fragment of the log says of its attempt.             *)
(***************************************************************************)
EXTENDS MutationPipeline, TLAPS

\* Stages 1 to 3 have let the attempt through.
Allowed(a) ==
    /\ request[a] \in Request
    /\ Rejection(request[a]) = "none"

\* And so has stage 4.
Cleared(a) ==
    /\ Allowed(a)
    /\ MustAsk(request[a]) => answer[a] = "accepted"

\* The log has nothing of the attempt, not even a torn line.
Absent(a) == \A i \in 1 .. Len(log) : log[i].attempt # a

\* The intent the attempt's entry belongs to is in the log.
IntentOf(a) ==
    \E j \in 1 .. Len(log) :
        /\ log[j].attempt = a /\ log[j].whole
        /\ log[j].entry = IntentEntry(entry[a].confirmation)

WritingInv(a) ==
    /\ entry[a] \in Entry
    /\ entry[a].phase = "Intent" =>
        /\ Absent(a) /\ Cleared(a) /\ wire[a] = "none"
        /\ entry[a] = IntentEntry(entry[a].confirmation)
    /\ entry[a].phase = "Final" =>
        /\ ~Logged(a, "Intent") /\ ~Logged(a, "Final") /\ wire[a] = "none"
        /\ entry[a].result \notin UpstreamResult
    /\ entry[a].phase = "Outcome" =>
        /\ IntentOf(a)
        /\ entry[a].result = "Submitted" => wire[a] = "applied"
        /\ entry[a].result = "UpstreamError" => wire[a] # "none"

SentInv(a) ==
    /\ entry[a] \in Entry
    /\ entry[a] = IntentEntry(entry[a].confirmation)
    /\ IntentOf(a)

AttemptInv(a) ==
    /\ pc[a] \in Running => up
    /\ entry[a] # NoEntry /\ entry[a].confirmation = "Accepted"
         => answer[a] = "accepted"
    /\ pc[a] \in {"new", "prompting"} => Absent(a) /\ wire[a] = "none"
    /\ pc[a] = "new" => entry[a] = NoEntry /\ answer[a] = "unasked"
    /\ pc[a] = "prompting" => Allowed(a) /\ entry[a] = NoEntry
    /\ pc[a] = "writing" => WritingInv(a)
    /\ pc[a] = "acting" => SentInv(a) /\ Cleared(a) /\ wire[a] = "none"
    /\ pc[a] = "sent" => SentInv(a) /\ wire[a] # "none"

FragmentInv(i) ==
    LET a == log[i].attempt
        e == log[i].entry
    IN  /\ e.phase = "Final" => wire[a] = "none" /\ pc[a] \in {"done", "dead"}
        /\ e.result = "Submitted" => wire[a] = "applied"
        /\ e.result = "UpstreamError" => wire[a] # "none"
        /\ e.confirmation = "Accepted" => answer[a] = "accepted"
        /\ e.phase = "Outcome" =>
             \E j \in 1 .. i - 1 :
                /\ log[j].attempt = a /\ log[j].whole
                /\ log[j].entry = IntentEntry(e.confirmation)

IInv ==
    /\ TypeOK
    /\ \A a \in Attempt : AttemptInv(a)
    /\ \A i \in 1 .. Len(log) : FragmentInv(i)

-----------------------------------------------------------------------------
(***************************************************************************)
(* Types.                                                                  *)
(***************************************************************************)

\* The records final, intent and outcome entries are made of are entries.
LEMMA EntryTypes ==
    /\ \A c \in Confirmation, r \in RejectReason \cup {"Declined"} :
         FinalEntry(c, r) \in Entry
    /\ \A c \in GoAhead : IntentEntry(c) \in Entry
    /\ \A c \in GoAhead, r \in UpstreamResult :
         [phase |-> "Outcome", confirmation |-> c, result |-> r] \in Entry
    /\ NoEntry \notin Entry
    /\ \A e \in Entry : e.confirmation \in Confirmation
    /\ \A c : IntentEntry(c) \in Entry => c \in GoAhead
  <1>1. GoAhead \subseteq Confirmation
    BY DEF GoAhead, Confirmation
  <1>2. ASSUME NEW c, IntentEntry(c) \in Entry PROVE c \in GoAhead
    BY <1>2 DEF IntentEntry, Entry
  <1>3. NoEntry \notin Entry
    BY DEF NoEntry, Entry
  <1>4. \A e \in Entry : e.confirmation \in Confirmation
    BY <1>1 DEF Entry
  <1>5. /\ \A c \in Confirmation, r \in RejectReason \cup {"Declined"} :
             FinalEntry(c, r) \in Entry
        /\ \A c \in GoAhead : IntentEntry(c) \in Entry
        /\ \A c \in GoAhead, r \in UpstreamResult :
             [phase |-> "Outcome", confirmation |-> c, result |-> r] \in Entry
    BY DEF FinalEntry, IntentEntry, Entry
  <1>6. QED
    BY <1>2, <1>3, <1>4, <1>5

\* What Append does to the log, an index at a time.
LEMMA AppendFacts ==
    ASSUME TypeOK, NEW f \in Fragment, log' = Append(log, f)
    PROVE  /\ log' \in Seq(Fragment)
           /\ Len(log) \in Nat
           /\ Len(log') = Len(log) + 1
           /\ \A i \in 1 .. Len(log) : log'[i] = log[i]
           /\ log'[Len(log) + 1] = f
  <1>1. log \in Seq(Fragment)
    BY DEF TypeOK
  <1> QED
    BY <1>1

\* Appending the entry of an attempt that has one is appending a fragment.
LEMMA EntryFacts ==
    ASSUME TypeOK, NEW a \in Attempt, entry[a] \in Entry,
           NEW w \in BOOLEAN, AppendEntry(a, w)
    PROVE  /\ log' \in Seq(Fragment)
           /\ Len(log) \in Nat
           /\ Len(log') = Len(log) + 1
           /\ \A i \in 1 .. Len(log) : log'[i] = log[i]
           /\ log'[Len(log) + 1].attempt = a
           /\ log'[Len(log) + 1].entry = entry[a]
           /\ log'[Len(log) + 1].whole = w
  <1> DEFINE f == [attempt |-> a, entry |-> entry[a], whole |-> w]
  <1>1. f \in Fragment
    BY DEF Fragment
  <1>2. log' = Append(log, f)
    BY DEF AppendEntry
  <1>3. f.attempt = a /\ f.entry = entry[a] /\ f.whole = w
    OBVIOUS
  <1> HIDE DEF f
  <1> QED
    BY <1>1, <1>2, <1>3, AppendFacts

\* Write keeps the types of what it changes.
LEMMA WriteType ==
    ASSUME TypeOK, NEW a \in Attempt, NEW e \in Entry, Write(a, e)
    PROVE  /\ entry' \in [Attempt -> Entry \cup {NoEntry}]
           /\ pc' \in [Attempt -> PC]
           /\ unlogged' \subseteq Attempt
  BY DEF TypeOK, Write, PC, Running

\* The initial states are well typed.
LEMMA InitType == Init => TypeOK
  <1> SUFFICES ASSUME Init PROVE TypeOK
    OBVIOUS
  <1>1. up \in BOOLEAN /\ config \in Flags
    BY DEF Init
  <1>2. /\ pc \in [Attempt -> PC] /\ log \in Seq(Fragment)
        /\ answer \in [Attempt -> Answer]
    BY DEF Init, PC, Answer
  <1>3. QED
    BY <1>1, <1>2 DEF Init, TypeOK

\* The entries an attempt that writes, acts or waits has.
LEMMA RunningEntry ==
    ASSUME IInv, NEW a \in Attempt, pc[a] \in {"writing", "acting", "sent"}
    PROVE  entry[a] \in Entry /\ entry[a].confirmation \in Confirmation
  <1>1. entry[a] \in Entry
    BY DEF IInv, AttemptInv, WritingInv, SentInv
  <1>2. QED
    BY <1>1, EntryTypes

\* Every step from a state of the invariant keeps the state well typed.
LEMMA StepType == IInv /\ [Next]_vars => TypeOK'
  <1> SUFFICES ASSUME IInv, [Next]_vars PROVE TypeOK'
    OBVIOUS
  <1>0. TypeOK
    BY DEF IInv
  <1>1. ASSUME NEW a \in Attempt, NEW r \in Request, Call(a, r)
        PROVE  /\ up' \in BOOLEAN /\ config' \in Flags
               /\ request' \in [Attempt -> Request \cup {NoRequest}]
               /\ wire' \in
                    [Attempt -> {"none", "inflight", "applied", "refused"}]
               /\ log' \in Seq(Fragment)
    BY <1>0, <1>1 DEF Call, TypeOK
  <1>2. ASSUME NEW a \in Attempt, NEW e \in Entry, Write(a, e)
        PROVE  /\ entry' \in [Attempt -> Entry \cup {NoEntry}]
               /\ pc' \in [Attempt -> PC]
               /\ unlogged' \subseteq Attempt
    BY <1>0, <1>2, WriteType
  <1>3. ASSUME NEW a \in Attempt, NEW r \in Request,
               \/ CallRejected(a, r) \/ CallUnlisted(a, r)
               \/ CallUnconfirmable(a, r) \/ CallAsks(a, r)
               \/ CallUnasked(a, r)
        PROVE  TypeOK'
    <2>1. ASSUME CallRejected(a, r) PROVE TypeOK'
      <3>1. Rejection(r) \in RejectReason
        BY <2>1 DEF CallRejected, Rejection, RejectReason
      <3>2. FinalEntry("NotApplicable", Rejection(r)) \in Entry
        BY <3>1, EntryTypes DEF Confirmation
      <3>3. QED
        BY <1>0, <1>1, <1>2, <2>1, <3>2 DEF CallRejected, TypeOK
    <2>2. ASSUME CallUnlisted(a, r) PROVE TypeOK'
      BY <1>0, <1>1, <2>2 DEF CallUnlisted, TypeOK, PC, Running
    <2>3. ASSUME CallUnconfirmable(a, r) PROVE TypeOK'
      <3>1. FinalEntry("Unavailable", "ConfirmationUnavailable") \in Entry
        BY EntryTypes DEF Confirmation, RejectReason
      <3>2. QED
        BY <1>0, <1>1, <1>2, <2>3, <3>1 DEF CallUnconfirmable, TypeOK
    <2>4. ASSUME CallAsks(a, r) PROVE TypeOK'
      BY <1>0, <1>1, <2>4 DEF CallAsks, TypeOK, Answer, PC, Running
    <2>5. ASSUME CallUnasked(a, r) PROVE TypeOK'
      <3>1. IntentEntry(Unasked(r)) \in Entry
        BY EntryTypes DEF GoAhead, Unasked
      <3>2. QED
        BY <1>0, <1>1, <1>2, <2>5, <3>1 DEF CallUnasked, TypeOK
    <2>6. QED
      BY <1>3, <2>1, <2>2, <2>3, <2>4, <2>5
  <1>4. ASSUME NEW a \in Attempt, HumanAnswers(a) \/ ApiHandles(a)
        PROVE  TypeOK'
    BY <1>0, <1>4 DEF HumanAnswers, ApiHandles, TypeOK, Answer
  <1>5. ASSUME NEW a \in Attempt, ReceiveAnswer(a) \/ PromptTimesOut(a)
        PROVE  TypeOK'
    <2>1. /\ IntentEntry("Accepted") \in Entry
          /\ FinalEntry("Declined", "Declined") \in Entry
      BY EntryTypes DEF Confirmation, GoAhead
    <2>2. QED
      BY <1>0, <1>2, <1>5, <2>1 DEF ReceiveAnswer, PromptTimesOut, TypeOK
  <1>6. ASSUME NEW a \in Attempt, Recorded(a) PROVE TypeOK'
    <2>1. entry[a] \in Entry /\ AppendEntry(a, TRUE)
      BY <1>6, RunningEntry DEF Recorded
    <2>2. log' \in Seq(Fragment)
      BY <1>0, <2>1, EntryFacts
    <2>3. QED
      BY <1>0, <1>6, <2>2 DEF Recorded, TypeOK, PC, Running
  <1>7. ASSUME NEW a \in Attempt, RecordFails(a) PROVE TypeOK'
    <2>1. entry[a] \in Entry /\ entry[a].confirmation \in Confirmation
      BY <1>7, RunningEntry DEF RecordFails
    <2>2. log' \in Seq(Fragment)
      <3>1. CASE UNCHANGED log
        BY <1>0, <3>1 DEF TypeOK
      <3>2. CASE AppendEntry(a, FALSE)
        BY <1>0, <2>1, <3>2, EntryFacts
      <3>3. QED
        BY <1>7, <3>1, <3>2 DEF RecordFails
    <2>3. CASE entry[a].phase = "Intent"
      <3>1. FinalEntry(entry[a].confirmation, "AuditUnavailable") \in Entry
        BY <2>1, EntryTypes DEF RejectReason
      <3>2. QED
        BY <1>0, <1>2, <1>7, <2>2, <2>3, <3>1 DEF RecordFails, TypeOK
    <2>4. CASE entry[a].phase # "Intent"
      BY <1>0, <1>7, <2>2, <2>4 DEF RecordFails, TypeOK, PC, Running
    <2>5. QED
      BY <2>3, <2>4
  <1>8. ASSUME NEW a \in Attempt, NEW result \in UpstreamResult,
               pc[a] \in {"acting", "sent"}, WriteOutcome(a, result)
        PROVE  /\ entry' \in [Attempt -> Entry \cup {NoEntry}]
               /\ pc' \in [Attempt -> PC]
               /\ unlogged' \subseteq Attempt
    <2>1. entry[a].confirmation \in GoAhead
      <3>1. IntentEntry(entry[a].confirmation) \in Entry
        BY <1>8 DEF IInv, AttemptInv, SentInv
      <3>2. QED
        BY <3>1, EntryTypes
    <2>2. [phase |-> "Outcome", confirmation |-> entry[a].confirmation,
           result |-> result] \in Entry
      BY <2>1, EntryTypes
    <2>3. QED
      BY <1>2, <1>8, <2>2 DEF WriteOutcome
  <1>9. ASSUME NEW a \in Attempt,
               \/ UpstreamNotReached(a) \/ SendRequest(a)
               \/ ReceiveStatus(a) \/ UpstreamFails(a)
        PROVE  TypeOK'
    <2>1. ASSUME UpstreamNotReached(a) PROVE TypeOK'
      BY <1>0, <1>8, <2>1 DEF UpstreamNotReached, UpstreamResult, TypeOK
    <2>2. ASSUME SendRequest(a) PROVE TypeOK'
      BY <1>0, <2>2 DEF SendRequest, TypeOK, PC, Running
    <2>3. ASSUME ReceiveStatus(a) PROVE TypeOK'
      BY <1>0, <1>8, <2>3 DEF ReceiveStatus, UpstreamResult, TypeOK
    <2>4. ASSUME UpstreamFails(a) PROVE TypeOK'
      BY <1>0, <1>8, <2>4 DEF UpstreamFails, UpstreamResult, TypeOK
    <2>5. QED
      BY <1>9, <2>1, <2>2, <2>3, <2>4
  <1>10. ASSUME ProcessEnds, log' \in Seq(Fragment) PROVE TypeOK'
    <2>1. pc' \in [Attempt -> PC]
      BY <1>0, <1>10 DEF ProcessEnds, TypeOK, PC
    <2>2. up' \in BOOLEAN
      BY <1>10 DEF ProcessEnds
    <2>3. QED
      BY <1>0, <1>10, <2>1, <2>2 DEF ProcessEnds, TypeOK
  <1>11. ASSUME Crash PROVE TypeOK'
    <2>1. CASE UNCHANGED log
      BY <1>0, <1>10, <1>11, <2>1 DEF Crash, TypeOK
    <2>2. ASSUME NEW a \in Attempt, pc[a] = "writing", AppendEntry(a, FALSE)
          PROVE  log' \in Seq(Fragment)
      BY <1>0, <2>2, RunningEntry, EntryFacts
    <2>3. QED
      BY <1>10, <1>11, <2>1, <2>2 DEF Crash
  <1>12. ASSUME PowerFails PROVE TypeOK'
    <2>1. PICK kept \in 0 .. Len(log) : log' = SubSeq(log, 1, kept)
      BY <1>12 DEF PowerFails
    <2>2. log' \in Seq(Fragment)
      BY <1>0, <2>1 DEF TypeOK
    <2>3. QED
      BY <1>10, <1>12, <2>2 DEF PowerFails
  <1>13. ASSUME Restart PROVE TypeOK'
    <2>1. up' \in BOOLEAN
      BY <1>13 DEF Restart
    <2>2. QED
      BY <1>0, <1>13, <2>1 DEF Restart, TypeOK
  <1>14. ASSUME UNCHANGED vars PROVE TypeOK'
    BY <1>0, <1>14 DEF vars, TypeOK
  <1>15. QED
    BY <1>3, <1>4, <1>5, <1>6, <1>7, <1>9, <1>11, <1>12, <1>13, <1>14
    DEF Next, End, Proceed

-----------------------------------------------------------------------------
(***************************************************************************)
(* What the steps of one attempt leave of another.                         *)
(***************************************************************************)

\* The log stays, or gains a fragment of attempt a.
Grows(a) ==
    \/ UNCHANGED log
    \/ /\ Len(log) \in Nat
       /\ Len(log') = Len(log) + 1
       /\ \A i \in 1 .. Len(log) : log'[i] = log[i]
       /\ log'[Len(log) + 1].attempt = a

\* What the attempt's own state is made of stays.
Same(b) ==
    /\ pc'[b] = pc[b]
    /\ request'[b] = request[b]
    /\ entry'[b] = entry[b]
    /\ answer'[b] = answer[b]
    /\ wire'[b] = wire[b]
    /\ UNCHANGED <<up, config>>

\* A fragment of one attempt changes nothing of what the log says of another.
LEMMA LogOfOthers ==
    ASSUME NEW a \in Attempt, NEW b \in Attempt, Grows(a), a # b \/ UNCHANGED log,
           entry'[b] = entry[b]
    PROVE  /\ Absent(b) => Absent(b)'
           /\ \A phase : Logged(b, phase)' <=> Logged(b, phase)
           /\ IntentOf(b) => IntentOf(b)'
  <1>1. CASE UNCHANGED log
    BY <1>1 DEF Absent, Logged, IntentOf
  <1>2. CASE log' # log
    <2> USE <1>2 DEF Grows
    <2>1. Absent(b) => Absent(b)'
      BY DEF Absent
    <2>2. ASSUME NEW phase PROVE Logged(b, phase)' <=> Logged(b, phase)
      BY DEF Logged
    <2>3. IntentOf(b) => IntentOf(b)'
      BY DEF IntentOf
    <2>4. QED
      BY <2>1, <2>2, <2>3
  <1>3. QED
    BY <1>1, <1>2

\* An attempt keeps what is known of it while another one moves.
LEMMA OthersKeep ==
    ASSUME NEW a \in Attempt, NEW b \in Attempt, AttemptInv(b), Same(b),
           Grows(a), a # b \/ UNCHANGED log
    PROVE  AttemptInv(b)'
  <1>1. /\ Absent(b) => Absent(b)'
        /\ Logged(b, "Intent")' <=> Logged(b, "Intent")
        /\ Logged(b, "Final")' <=> Logged(b, "Final")
        /\ IntentOf(b) => IntentOf(b)'
    BY LogOfOthers DEF Same
  <1>2. Allowed(b)' <=> Allowed(b)
    BY DEF Same, Allowed, Rejection, ToolEnabled, Categories, Offboarding
  <1>3. Cleared(b)' <=> Cleared(b)
    BY <1>2 DEF Same, Cleared, MustAsk
  <1>4. WritingInv(b) => WritingInv(b)'
    BY <1>1, <1>3 DEF WritingInv, Same
  <1>5. SentInv(b) => SentInv(b)'
    BY <1>1 DEF SentInv, Same
  <1>6. QED
    BY <1>1, <1>2, <1>3, <1>4, <1>5 DEF AttemptInv, Same

-----------------------------------------------------------------------------
(***************************************************************************)
(* What the log says stays so.                                             *)
(***************************************************************************)

\* What once became of an attempt is not undone.
Monotone(c) ==
    /\ wire[c] = "applied" => wire'[c] = "applied"
    /\ wire[c] # "none" => wire'[c] # "none"
    /\ answer[c] = "accepted" => answer'[c] = "accepted"
    /\ pc[c] \in {"done", "dead"} =>
        /\ pc'[c] \in {"done", "dead"}
        /\ wire[c] = "none" => wire'[c] = "none"

\* A fragment that is still where it was still tells the truth.
LEMMA FragmentsKeep ==
    ASSUME TypeOK, \A c \in Attempt : Monotone(c),
           NEW i \in 1 .. Len(log), FragmentInv(i),
           \A j \in 1 .. i : log'[j] = log[j]
    PROVE  FragmentInv(i)'
  <1>1. log[i] \in Fragment
    BY DEF TypeOK
  <1>2. log[i].attempt \in Attempt
    BY <1>1 DEF Fragment
  <1>3. i \in Nat /\ i \in 1 .. i
    OBVIOUS
  <1>4. log'[i] = log[i]
    BY <1>3
  <1>5. \A j \in 1 .. i - 1 : log'[j] = log[j]
    BY <1>3
  <1>6. QED
    BY <1>2, <1>4, <1>5 DEF FragmentInv, Monotone

\* What an attempt writes is true when it is written.
LEMMA NewFragment ==
    ASSUME IInv, NEW a \in Attempt, NEW w \in BOOLEAN,
           pc[a] = "writing", AppendEntry(a, w), UNCHANGED <<wire, answer>>,
           entry[a].phase = "Final" => pc'[a] \in {"done", "dead"},
           NEW n, n = Len(log) + 1
    PROVE  FragmentInv(n)'
  <1>1. TypeOK /\ AttemptInv(a)
    BY DEF IInv
  <1>2. WritingInv(a)
    BY <1>1 DEF AttemptInv
  <1>3. entry[a] \in Entry
    BY <1>2 DEF WritingInv
  <1>4. /\ Len(log) \in Nat
        /\ \A i \in 1 .. Len(log) : log'[i] = log[i]
        /\ log'[n].attempt = a
        /\ log'[n].entry = entry[a]
    BY <1>1, <1>3, EntryFacts
  <1>5. entry[a] # NoEntry
    BY <1>3, EntryTypes
  <1>6. entry[a].confirmation = "Accepted" => answer'[a] = "accepted"
    BY <1>1, <1>5 DEF AttemptInv
  <1>7. entry[a].phase \in {"Intent", "Outcome", "Final"}
    BY <1>3 DEF Entry
  <1>8. CASE entry[a].phase = "Intent"
    <2>1. entry[a].result = "Pending"
      BY <1>2, <1>8 DEF WritingInv, IntentEntry
    <2>2. QED
      BY <1>4, <1>6, <1>8, <2>1 DEF FragmentInv
  <1>9. CASE entry[a].phase = "Final"
    <2>1. entry[a].result \notin UpstreamResult /\ wire[a] = "none"
      BY <1>2, <1>9 DEF WritingInv
    <2>2. QED
      BY <1>4, <1>6, <1>9, <2>1 DEF FragmentInv, UpstreamResult
  <1>10. CASE entry[a].phase = "Outcome"
    <2>1. /\ IntentOf(a)
          /\ entry[a].result = "Submitted" => wire[a] = "applied"
          /\ entry[a].result = "UpstreamError" => wire[a] # "none"
      BY <1>2, <1>10 DEF WritingInv
    <2>2. \E j \in 1 .. n - 1 :
            /\ log'[j].attempt = a /\ log'[j].whole
            /\ log'[j].entry = IntentEntry(entry[a].confirmation)
      BY <1>4, <2>1 DEF IntentOf
    <2>3. QED
      BY <1>4, <1>6, <1>10, <2>1, <2>2 DEF FragmentInv
  <1>11. QED
    BY <1>7, <1>8, <1>9, <1>10

\* No step undoes what became of an attempt.
LEMMA StepMonotone ==
    ASSUME IInv, [Next]_vars, NEW c \in Attempt
    PROVE  Monotone(c)
  <1>1. TypeOK /\ AttemptInv(c)
    BY DEF IInv
  <1> USE <1>1 DEF Monotone, TypeOK, PC, Running
  <1>2. ASSUME NEW a \in Attempt, NEW r \in Request,
               \/ CallRejected(a, r) \/ CallUnlisted(a, r)
               \/ CallUnconfirmable(a, r) \/ CallUnasked(a, r)
        PROVE  Monotone(c)
    BY <1>2 DEF Call, Write, CallRejected, CallUnlisted, CallUnconfirmable,
                CallUnasked
  <1>3. ASSUME NEW a \in Attempt, NEW r \in Request, CallAsks(a, r)
        PROVE  Monotone(c)
    BY <1>3 DEF Call, CallAsks, AttemptInv
  <1>4. ASSUME NEW a \in Attempt, HumanAnswers(a) \/ ApiHandles(a)
        PROVE  Monotone(c)
    BY <1>4 DEF HumanAnswers, ApiHandles
  <1>5. ASSUME NEW a \in Attempt, ReceiveAnswer(a) \/ PromptTimesOut(a)
        PROVE  Monotone(c)
    BY <1>5 DEF ReceiveAnswer, PromptTimesOut, Write
  <1>6. ASSUME NEW a \in Attempt, Recorded(a) \/ RecordFails(a)
        PROVE  Monotone(c)
    BY <1>6 DEF Recorded, RecordFails, Write
  <1>7. ASSUME NEW a \in Attempt,
               UpstreamNotReached(a) \/ ReceiveStatus(a) \/ UpstreamFails(a)
        PROVE  Monotone(c)
    BY <1>7 DEF UpstreamNotReached, ReceiveStatus, UpstreamFails, WriteOutcome,
                Write
  <1>8. ASSUME NEW a \in Attempt, SendRequest(a) PROVE Monotone(c)
    BY <1>8 DEF SendRequest, AttemptInv
  <1>9. ASSUME ProcessEnds PROVE Monotone(c)
    BY <1>9 DEF ProcessEnds
  <1>10. ASSUME Restart PROVE Monotone(c)
    BY <1>10 DEF Restart
  <1>11. ASSUME UNCHANGED vars PROVE Monotone(c)
    BY <1>11 DEF vars
  <1>12. QED
    BY <1>2, <1>3, <1>4, <1>5, <1>6, <1>7, <1>8, <1>9, <1>10, <1>11
    DEF Next, End, Proceed, Crash, PowerFails

\* Every step keeps the log truthful.
LEMMA StepFragments ==
    ASSUME IInv, [Next]_vars
    PROVE  (\A i \in 1 .. Len(log) : FragmentInv(i))'
  <1>1. /\ TypeOK
        /\ \A a \in Attempt : AttemptInv(a)
        /\ \A i \in 1 .. Len(log) : FragmentInv(i)
        /\ \A c \in Attempt : Monotone(c)
    BY StepMonotone DEF IInv
  <1>2. Len(log) \in Nat
    BY <1>1 DEF TypeOK
  <1>3. SUFFICES ASSUME NEW i \in 1 .. Len(log') PROVE FragmentInv(i)'
    OBVIOUS
  <1>4. CASE UNCHANGED log
    <2>1. i \in 1 .. Len(log) /\ \A j \in 1 .. i : log'[j] = log[j]
      BY <1>3, <1>4
    <2>2. QED
      BY <1>1, <2>1, FragmentsKeep
  <1>5. ASSUME NEW a \in Attempt, NEW w \in BOOLEAN, pc[a] = "writing",
               AppendEntry(a, w), UNCHANGED <<wire, answer>>,
               entry[a].phase = "Final" => pc'[a] \in {"done", "dead"}
        PROVE  FragmentInv(i)'
    <2>1. entry[a] \in Entry
      BY <1>5, RunningEntry
    <2>2. /\ Len(log') = Len(log) + 1
          /\ \A j \in 1 .. Len(log) : log'[j] = log[j]
      BY <1>1, <1>5, <2>1, EntryFacts
    <2>3. CASE i = Len(log) + 1
      BY <1>5, <2>3, NewFragment
    <2>4. CASE i \in 1 .. Len(log)
      <3>1. \A j \in 1 .. i : log'[j] = log[j]
        BY <1>2, <2>2, <2>4
      <3>2. QED
        BY <1>1, <2>4, <3>1, FragmentsKeep
    <2>5. QED
      BY <1>2, <1>3, <2>2, <2>3, <2>4
  <1>6. ASSUME NEW a \in Attempt, Recorded(a) PROVE FragmentInv(i)'
    <2>1. entry[a].phase = "Final" => pc'[a] \in {"done", "dead"}
      BY <1>1, <1>6 DEF Recorded, TypeOK
    <2>2. QED
      BY <1>5, <1>6, <2>1 DEF Recorded
  <1>7. ASSUME NEW a \in Attempt, RecordFails(a) PROVE FragmentInv(i)'
    <2>1. entry[a].phase = "Final" => pc'[a] \in {"done", "dead"}
      BY <1>1, <1>7 DEF RecordFails, TypeOK
    <2>2. QED
      BY <1>4, <1>5, <1>7, <2>1 DEF RecordFails
  <1>8. ASSUME Crash PROVE FragmentInv(i)'
    <2>1. ASSUME NEW a \in Attempt, pc[a] = "writing", AppendEntry(a, FALSE)
          PROVE  FragmentInv(i)'
      <3>1. pc'[a] \in {"done", "dead"} /\ UNCHANGED <<wire, answer>>
        BY <1>8, <2>1 DEF Crash, ProcessEnds, Running
      <3>2. QED
        BY <1>5, <2>1, <3>1
    <2>2. QED
      BY <1>4, <1>8, <2>1 DEF Crash
  <1>9. ASSUME PowerFails PROVE FragmentInv(i)'
    <2>1. PICK kept \in 0 .. Len(log) : log' = SubSeq(log, 1, kept)
      BY <1>9 DEF PowerFails
    <2>2. Len(log') = kept /\ \A j \in 1 .. kept : log'[j] = log[j]
      BY <1>1, <1>2, <2>1 DEF TypeOK
    <2>3. i \in 1 .. Len(log) /\ \A j \in 1 .. i : log'[j] = log[j]
      BY <1>2, <1>3, <2>2
    <2>4. QED
      BY <1>1, <2>3, FragmentsKeep
  <1>10. CASE \/ \E a \in Attempt, r \in Request :
                   \/ CallRejected(a, r) \/ CallUnlisted(a, r)
                   \/ CallUnconfirmable(a, r) \/ CallAsks(a, r)
                   \/ CallUnasked(a, r)
              \/ \E a \in Attempt :
                   \/ HumanAnswers(a) \/ ApiHandles(a) \/ ReceiveAnswer(a)
                   \/ PromptTimesOut(a) \/ UpstreamNotReached(a)
                   \/ SendRequest(a) \/ ReceiveStatus(a) \/ UpstreamFails(a)
              \/ Restart
              \/ UNCHANGED vars
    <2>1. UNCHANGED log
      BY <1>10 DEF Call, CallRejected, CallUnlisted, CallUnconfirmable,
                   CallAsks, CallUnasked, HumanAnswers, ApiHandles,
                   ReceiveAnswer, PromptTimesOut, UpstreamNotReached,
                   SendRequest, ReceiveStatus, UpstreamFails, Restart, vars
    <2>2. QED
      BY <1>4, <2>1
  <1>11. QED
    BY <1>6, <1>7, <1>8, <1>9, <1>10 DEF Next, End, Proceed

-----------------------------------------------------------------------------
(***************************************************************************)
(* What is settled about an attempt when it comes to write a record.       *)
(***************************************************************************)

\* An attempt that is turned down has not been sent and has no record yet.
LEMMA WriteFinal ==
    ASSUME TypeOK, NEW a \in Attempt, NEW c \in Confirmation,
           NEW r \in RejectReason \cup {"Declined"},
           Write(a, FinalEntry(c, r)), up',
           wire'[a] = "none", ~Logged(a, "Intent")', ~Logged(a, "Final")',
           c = "Accepted" => answer'[a] = "accepted"
    PROVE  AttemptInv(a)'
  <1>1. entry'[a] = FinalEntry(c, r) /\ pc'[a] \in {"writing", "done"}
    BY DEF Write, TypeOK
  <1>2. FinalEntry(c, r) \in Entry
    BY EntryTypes
  <1>3. /\ FinalEntry(c, r).phase = "Final"
        /\ FinalEntry(c, r).confirmation = c
        /\ FinalEntry(c, r).result \notin UpstreamResult
    BY DEF FinalEntry, RejectReason, UpstreamResult
  <1>4. WritingInv(a)'
    BY <1>1, <1>2, <1>3 DEF WritingInv
  <1>5. QED
    BY <1>1, <1>3, <1>4 DEF AttemptInv

\* An attempt that may run is cleared and has left nothing in the log.
LEMMA WriteIntent ==
    ASSUME TypeOK, NEW a \in Attempt, NEW c \in GoAhead,
           Write(a, IntentEntry(c)), up',
           wire'[a] = "none", Absent(a)', Cleared(a)',
           c = "Accepted" => answer'[a] = "accepted"
    PROVE  AttemptInv(a)'
  <1>1. entry'[a] = IntentEntry(c) /\ pc'[a] \in {"writing", "done"}
    BY DEF Write, TypeOK
  <1>2. IntentEntry(c) \in Entry
    BY EntryTypes
  <1>3. IntentEntry(c).phase = "Intent" /\ IntentEntry(c).confirmation = c
    BY DEF IntentEntry
  <1>4. WritingInv(a)'
    BY <1>1, <1>2, <1>3 DEF WritingInv
  <1>5. QED
    BY <1>1, <1>3, <1>4 DEF AttemptInv

\* The outcome of an attempt is what became of its request.
LEMMA WriteOutcomeTrue ==
    ASSUME TypeOK, NEW a \in Attempt, AttemptInv(a), NEW r \in UpstreamResult,
           pc[a] \in {"acting", "sent"}, WriteOutcome(a, r),
           UNCHANGED <<up, wire, answer, log>>,
           r = "Submitted" => wire[a] = "applied",
           r = "UpstreamError" => wire[a] # "none"
    PROVE  AttemptInv(a)'
  <1> DEFINE c == entry[a].confirmation
             e == [phase |-> "Outcome", confirmation |-> c, result |-> r]
  <1>1. SentInv(a) /\ up
    BY DEF AttemptInv, Running
  <1>2. c \in GoAhead
    BY <1>1, EntryTypes DEF SentInv
  <1>3. e \in Entry
    BY <1>2, EntryTypes
  <1>4. e.phase = "Outcome" /\ e.confirmation = c /\ e.result = r
    OBVIOUS
  <1>5. entry'[a] = e /\ pc'[a] \in {"writing", "done"}
    BY DEF WriteOutcome, Write, TypeOK
  <1>6. entry[a] # NoEntry
    BY <1>1, EntryTypes DEF SentInv
  <1>7. c = "Accepted" => answer'[a] = "accepted"
    BY <1>6 DEF AttemptInv
  <1>8. IntentOf(a)'
    BY <1>1, <1>4, <1>5 DEF SentInv, IntentOf
  <1> HIDE DEF e, c
  <1>9. WritingInv(a)'
    BY <1>3, <1>4, <1>5, <1>8 DEF WritingInv
  <1>10. QED
    BY <1>1, <1>4, <1>5, <1>7, <1>9 DEF AttemptInv

-----------------------------------------------------------------------------
(***************************************************************************)
(* The steps of an attempt, and what they leave of the others.             *)
(***************************************************************************)

\* Stages 1 to 4 of a call settle what the attempt may do.
LEMMA CallKeeps ==
    ASSUME IInv, NEW a \in Attempt, NEW r \in Request,
           \/ CallRejected(a, r) \/ CallUnlisted(a, r)
           \/ CallUnconfirmable(a, r) \/ CallAsks(a, r) \/ CallUnasked(a, r)
    PROVE  AttemptInv(a)'
  <1>1. TypeOK /\ AttemptInv(a)
    BY DEF IInv
  <1>2. Call(a, r)
    BY DEF CallRejected, CallUnlisted, CallUnconfirmable, CallAsks, CallUnasked
  <1>3. /\ up' /\ UNCHANGED <<config, wire, log>>
        /\ request'[a] = r
        /\ wire'[a] = "none"
        /\ Absent(a) /\ Absent(a)'
        /\ entry[a] = NoEntry
    BY <1>1, <1>2 DEF Call, AttemptInv, Absent, TypeOK
  <1>4. ~Logged(a, "Intent")' /\ ~Logged(a, "Final")'
    BY <1>3 DEF Absent, Logged
  <1>5. ASSUME Rejection(r) = "none" PROVE Allowed(a)'
    BY <1>3, <1>5 DEF Allowed, Rejection, ToolEnabled, Categories, Offboarding
  <1>6. CASE CallRejected(a, r)
    <2>1. Rejection(r) \in RejectReason
      BY <1>6 DEF CallRejected, Rejection, RejectReason
    <2>2. QED
      BY <1>1, <1>3, <1>4, <1>6, <2>1, WriteFinal
      DEF CallRejected, Confirmation
  <1>7. CASE CallUnlisted(a, r)
    <2>1. pc'[a] = "done" /\ entry'[a] = NoEntry
      BY <1>1, <1>3, <1>7 DEF CallUnlisted, TypeOK
    <2>2. QED
      BY <1>3, <2>1 DEF AttemptInv
  <1>8. CASE CallUnconfirmable(a, r)
    BY <1>1, <1>3, <1>4, <1>8, WriteFinal
    DEF CallUnconfirmable, Confirmation, RejectReason
  <1>9. CASE CallAsks(a, r)
    <2>1. pc'[a] = "prompting" /\ entry'[a] = NoEntry
      BY <1>1, <1>3, <1>9 DEF CallAsks, TypeOK
    <2>2. Allowed(a)'
      BY <1>5, <1>9 DEF CallAsks
    <2>3. QED
      BY <1>3, <2>1, <2>2 DEF AttemptInv
  <1>10. CASE CallUnasked(a, r)
    <2>1. Allowed(a)'
      BY <1>5, <1>10 DEF CallUnasked
    <2>2. ~MustAsk(request[a])'
      BY <1>3, <1>10 DEF CallUnasked, MustAsk
    <2>3. Cleared(a)'
      BY <2>1, <2>2 DEF Cleared
    <2>4. Unasked(r) \in GoAhead \ {"Accepted"}
      BY DEF Unasked, GoAhead
    <2>5. QED
      BY <1>1, <1>3, <1>10, <2>3, <2>4, WriteIntent DEF CallUnasked
  <1>11. QED
    BY <1>6, <1>7, <1>8, <1>9, <1>10

\* The human's answer, or the lack of one, ends the prompt.
LEMMA PromptKeeps ==
    ASSUME IInv, NEW a \in Attempt, ReceiveAnswer(a) \/ PromptTimesOut(a)
    PROVE  AttemptInv(a)'
  <1>1. TypeOK /\ AttemptInv(a)
    BY DEF IInv
  <1>2. /\ pc[a] = "prompting"
        /\ UNCHANGED <<up, config, request, answer, wire, log>>
    BY DEF ReceiveAnswer, PromptTimesOut
  <1>3. up' /\ wire'[a] = "none" /\ Absent(a) /\ Absent(a)' /\ Allowed(a)
    BY <1>1, <1>2 DEF AttemptInv, Absent, Running
  <1>4. ~Logged(a, "Intent")' /\ ~Logged(a, "Final")'
    BY <1>3 DEF Absent, Logged
  <1>5. CASE Write(a, FinalEntry("Declined", "Declined"))
    BY <1>1, <1>3, <1>4, <1>5, WriteFinal DEF Confirmation
  <1>6. CASE answer[a] = "accepted" /\ Write(a, IntentEntry("Accepted"))
    <2>1. Cleared(a)'
      BY <1>2, <1>3, <1>6
      DEF Cleared, Allowed, Rejection, ToolEnabled, Categories, Offboarding
    <2>2. QED
      BY <1>1, <1>2, <1>3, <1>6, <2>1, WriteIntent DEF GoAhead
  <1>7. QED
    BY <1>5, <1>6 DEF ReceiveAnswer, PromptTimesOut

\* An answer or an upstream step touches neither place nor record.
LEMMA OutsideKeeps ==
    ASSUME IInv, NEW a \in Attempt, HumanAnswers(a) \/ ApiHandles(a)
    PROVE  AttemptInv(a)'
  <1>1. TypeOK /\ AttemptInv(a)
    BY DEF IInv
  <1>2. UNCHANGED <<up, config, pc, request, entry, log>>
    BY DEF HumanAnswers, ApiHandles
  <1>3. /\ answer[a] = "accepted" => answer'[a] = "accepted"
        /\ answer[a] = "unasked" => answer'[a] = "unasked"
        /\ wire[a] = "none" <=> wire'[a] = "none"
        /\ wire[a] = "applied" => wire'[a] = "applied"
    BY <1>1 DEF HumanAnswers, ApiHandles, TypeOK
  <1>4. /\ Absent(a) <=> Absent(a)'
        /\ Logged(a, "Intent") <=> Logged(a, "Intent")'
        /\ Logged(a, "Final") <=> Logged(a, "Final")'
        /\ IntentOf(a) <=> IntentOf(a)'
    BY <1>2 DEF Absent, Logged, IntentOf
  <1>5. Allowed(a) <=> Allowed(a)'
    BY <1>2 DEF Allowed, Rejection, ToolEnabled, Categories, Offboarding
  <1>6. Cleared(a) => Cleared(a)'
    BY <1>2, <1>3, <1>5 DEF Cleared, MustAsk
  <1>7. WritingInv(a) => WritingInv(a)'
    BY <1>2, <1>3, <1>4, <1>6 DEF WritingInv
  <1>8. SentInv(a) => SentInv(a)'
    BY <1>2, <1>4 DEF SentInv
  <1>9. QED
    BY <1>1, <1>2, <1>3, <1>4, <1>5, <1>6, <1>7, <1>8 DEF AttemptInv

\* A record that is written, or fails, settles where the attempt goes.
LEMMA RecordKeeps ==
    ASSUME IInv, NEW a \in Attempt, Recorded(a) \/ RecordFails(a)
    PROVE  AttemptInv(a)'
  <1>1. /\ TypeOK
        /\ pc[a] = "writing"
        /\ UNCHANGED <<up, config, request, answer, wire>>
    BY DEF IInv, Recorded, RecordFails
  <1>2. up' /\ WritingInv(a) /\ AttemptInv(a)
    BY <1>1 DEF IInv, AttemptInv, Running
  <1>3. entry[a] \in Entry /\ entry[a].confirmation \in Confirmation
    BY <1>1, RunningEntry
  <1>4. entry[a] # NoEntry
    BY <1>3, EntryTypes
  <1>5. entry[a].confirmation = "Accepted" => answer'[a] = "accepted"
    BY <1>1, <1>2, <1>4 DEF AttemptInv
  <1>6. ASSUME pc'[a] = "done", entry'[a] = entry[a] PROVE AttemptInv(a)'
    BY <1>1, <1>5, <1>6 DEF AttemptInv, Running
  <1>7. ASSUME entry[a].phase = "Intent"
        PROVE  /\ Absent(a) /\ Cleared(a) /\ wire'[a] = "none"
               /\ entry[a] = IntentEntry(entry[a].confirmation)
    BY <1>1, <1>2, <1>7 DEF WritingInv
  <1>8. CASE Recorded(a) /\ entry[a].phase # "Intent"
    BY <1>1, <1>6, <1>8 DEF Recorded, TypeOK
  <1>9. CASE Recorded(a) /\ entry[a].phase = "Intent"
    <2>1. pc'[a] = "acting" /\ entry'[a] = entry[a] /\ AppendEntry(a, TRUE)
      BY <1>1, <1>9 DEF Recorded, TypeOK
    <2>2. /\ Len(log) \in Nat
          /\ Len(log') = Len(log) + 1
          /\ log'[Len(log) + 1].attempt = a
          /\ log'[Len(log) + 1].entry = entry[a]
          /\ log'[Len(log) + 1].whole
      BY <1>1, <1>3, <2>1, EntryFacts
    <2>3. IntentOf(a)'
      BY <1>7, <1>9, <2>1, <2>2 DEF IntentOf
    <2>4. Cleared(a)'
      BY <1>1, <1>7, <1>9
      DEF Cleared, MustAsk, Allowed, Rejection, ToolEnabled, Categories,
          Offboarding
    <2>5. SentInv(a)'
      BY <1>3, <1>7, <1>9, <2>1, <2>3 DEF SentInv
    <2>6. QED
      BY <1>2, <1>5, <1>7, <1>9, <2>1, <2>4, <2>5 DEF AttemptInv
  <1>10. CASE RecordFails(a) /\ entry[a].phase # "Intent"
    BY <1>1, <1>6, <1>10 DEF RecordFails, TypeOK
  <1>11. CASE RecordFails(a) /\ entry[a].phase = "Intent"
    <2>1. Write(a, FinalEntry(entry[a].confirmation, "AuditUnavailable"))
      BY <1>11 DEF RecordFails
    <2>2. ASSUME NEW phase PROVE ~Logged(a, phase)'
      <3>1. CASE UNCHANGED log
        BY <1>7, <1>11, <3>1 DEF Absent, Logged
      <3>2. CASE AppendEntry(a, FALSE)
        <4>1. /\ Len(log) \in Nat
              /\ Len(log') = Len(log) + 1
              /\ \A i \in 1 .. Len(log) : log'[i] = log[i]
              /\ log'[Len(log) + 1].whole = FALSE
          BY <1>1, <1>3, <3>2, EntryFacts
        <4>2. QED
          BY <1>7, <1>11, <4>1 DEF Absent, Logged
      <3>3. QED
        BY <1>11, <3>1, <3>2 DEF RecordFails
    <2>3. QED
      BY <1>1, <1>2, <1>3, <1>5, <1>7, <1>11, <2>1, <2>2, WriteFinal
      DEF RejectReason
  <1>12. QED
    BY <1>8, <1>9, <1>10, <1>11

\* The request leaves once, with its intent on record, and the outcome is the
\* one it had.
LEMMA UpstreamKeeps ==
    ASSUME IInv, NEW a \in Attempt,
           \/ UpstreamNotReached(a) \/ SendRequest(a)
           \/ ReceiveStatus(a) \/ UpstreamFails(a)
    PROVE  AttemptInv(a)'
  <1>1. TypeOK /\ AttemptInv(a)
    BY DEF IInv
  <1>2. CASE UpstreamNotReached(a)
    BY <1>1, <1>2, WriteOutcomeTrue DEF UpstreamNotReached, UpstreamResult
  <1>3. CASE SendRequest(a)
    <2>1. /\ pc'[a] = "sent" /\ wire'[a] # "none" /\ entry'[a] = entry[a]
          /\ UNCHANGED <<up, answer, log>>
      BY <1>1, <1>3 DEF SendRequest, TypeOK
    <2>2. SentInv(a) /\ up
      BY <1>1, <1>3 DEF SendRequest, AttemptInv, Running
    <2>3. SentInv(a)'
      BY <2>1, <2>2 DEF SentInv, IntentOf
    <2>4. QED
      BY <1>1, <2>1, <2>2, <2>3 DEF AttemptInv
  <1>4. CASE ReceiveStatus(a)
    BY <1>1, <1>4, WriteOutcomeTrue DEF ReceiveStatus, UpstreamResult
  <1>5. CASE UpstreamFails(a)
    <2>1. wire[a] # "none"
      BY <1>1, <1>5 DEF UpstreamFails, AttemptInv
    <2>2. QED
      BY <1>1, <1>5, <2>1, WriteOutcomeTrue DEF UpstreamFails, UpstreamResult
  <1>6. QED
    BY <1>2, <1>3, <1>4, <1>5

\* Nothing is in progress once the process has ended.
LEMMA EndKeeps ==
    ASSUME IInv, NEW a \in Attempt, Crash \/ PowerFails
    PROVE  AttemptInv(a)'
  <1>1. TypeOK /\ AttemptInv(a)
    BY DEF IInv
  <1>2. ProcessEnds
    BY DEF Crash, PowerFails
  <1>3. /\ pc'[a] \in {"new", "done", "dead"}
        /\ pc'[a] = "new" => pc[a] = "new"
        /\ UNCHANGED <<entry, answer, wire>>
    BY <1>1, <1>2 DEF ProcessEnds, TypeOK, PC, Running
  <1>4. ASSUME pc[a] = "new" PROVE Absent(a)'
    <2>1. Absent(a) /\ log \in Seq(Fragment) /\ Len(log) \in Nat
      BY <1>1, <1>4 DEF AttemptInv, TypeOK
    <2>2. CASE UNCHANGED log
      BY <2>1, <2>2 DEF Absent
    <2>3. ASSUME NEW b \in Attempt, pc[b] = "writing", AppendEntry(b, FALSE)
          PROVE  Absent(a)'
      <3>1. entry[b] \in Entry
        BY <2>3, RunningEntry
      <3>2. /\ Len(log') = Len(log) + 1
            /\ \A i \in 1 .. Len(log) : log'[i] = log[i]
            /\ log'[Len(log) + 1].attempt = b
        BY <1>1, <2>3, <3>1, EntryFacts
      <3>3. a # b
        BY <1>4, <2>3
      <3>4. QED
        BY <2>1, <3>2, <3>3 DEF Absent
    <2>4. ASSUME NEW kept \in 0 .. Len(log), log' = SubSeq(log, 1, kept)
          PROVE  Absent(a)'
      BY <2>1, <2>4 DEF Absent
    <2>5. QED
      BY <2>2, <2>3, <2>4 DEF Crash, PowerFails
  <1>5. QED
    BY <1>1, <1>3, <1>4 DEF AttemptInv, Running

\* A step of one attempt keeps every other attempt as it is.
LEMMA OneMoves ==
    ASSUME IInv, NEW a \in Attempt, NEW b \in Attempt, a # b,
           \/ \E r \in Request :
                \/ CallRejected(a, r) \/ CallUnlisted(a, r)
                \/ CallUnconfirmable(a, r) \/ CallAsks(a, r)
                \/ CallUnasked(a, r)
           \/ HumanAnswers(a) \/ ApiHandles(a) \/ Proceed(a)
    PROVE  AttemptInv(b)'
  <1>1. TypeOK /\ AttemptInv(b)
    BY DEF IInv
  <1>2. Same(b) /\ Grows(a)
    <2>1. ASSUME NEW r \in Request,
                 \/ CallRejected(a, r) \/ CallUnlisted(a, r)
                 \/ CallUnconfirmable(a, r) \/ CallAsks(a, r)
                 \/ CallUnasked(a, r)
          PROVE  Same(b) /\ Grows(a)
      BY <1>1, <2>1 DEF CallRejected, CallUnlisted, CallUnconfirmable,
                        CallAsks, CallUnasked, Call, Write, Same, Grows, TypeOK
    <2>2. CASE HumanAnswers(a) \/ ApiHandles(a)
      BY <1>1, <2>2 DEF HumanAnswers, ApiHandles, Same, Grows, TypeOK
    <2>3. CASE ReceiveAnswer(a) \/ PromptTimesOut(a)
      BY <1>1, <2>3 DEF ReceiveAnswer, PromptTimesOut, Write, Same, Grows,
                        TypeOK
    <2>4. CASE Recorded(a) \/ RecordFails(a)
      <3>1. Same(b)
        BY <1>1, <2>4 DEF Recorded, RecordFails, Write, Same, TypeOK
      <3>2. entry[a] \in Entry
        BY <2>4, RunningEntry DEF Recorded, RecordFails
      <3>3. ASSUME NEW w \in BOOLEAN, AppendEntry(a, w) PROVE Grows(a)
        BY <1>1, <3>2, <3>3, EntryFacts DEF Grows
      <3>4. Grows(a)
        BY <2>4, <3>3 DEF Recorded, RecordFails, Grows
      <3>5. QED
        BY <3>1, <3>4
    <2>5. CASE \/ UpstreamNotReached(a) \/ SendRequest(a)
               \/ ReceiveStatus(a) \/ UpstreamFails(a)
      BY <1>1, <2>5 DEF UpstreamNotReached, SendRequest, ReceiveStatus,
                        UpstreamFails, WriteOutcome, Write, Same, Grows, TypeOK
    <2>6. QED
      BY <2>1, <2>2, <2>3, <2>4, <2>5 DEF Proceed
  <1>3. QED
    BY <1>1, <1>2, OthersKeep

\* Every step keeps what is settled about every attempt.
LEMMA StepAttempts ==
    ASSUME IInv, [Next]_vars, NEW b \in Attempt
    PROVE  AttemptInv(b)'
  <1>1. TypeOK /\ AttemptInv(b)
    BY DEF IInv
  <1>2. ASSUME NEW a \in Attempt,
               \/ \E r \in Request :
                    \/ CallRejected(a, r) \/ CallUnlisted(a, r)
                    \/ CallUnconfirmable(a, r) \/ CallAsks(a, r)
                    \/ CallUnasked(a, r)
               \/ HumanAnswers(a) \/ ApiHandles(a) \/ Proceed(a)
        PROVE  AttemptInv(b)'
    <2>1. CASE a # b
      BY <1>2, <2>1, OneMoves
    <2>2. CASE a = b
      BY <1>2, <2>2, CallKeeps, PromptKeeps, OutsideKeeps, RecordKeeps,
         UpstreamKeeps DEF Proceed
    <2>3. QED
      BY <2>1, <2>2
  <1>3. CASE Crash \/ PowerFails
    BY <1>3, EndKeeps
  <1>4. CASE Restart
    <2>1. pc[b] \notin Running
      BY <1>1, <1>4 DEF Restart, AttemptInv
    <2>2. UNCHANGED <<pc, request, entry, answer, wire, log>>
      BY <1>4 DEF Restart
    <2>3. Absent(b) <=> Absent(b)'
      BY <2>2 DEF Absent
    <2>4. QED
      BY <1>1, <2>1, <2>2, <2>3 DEF AttemptInv, Running
  <1>5. CASE UNCHANGED vars
    BY <1>1, <1>5, OthersKeep DEF vars, Same, Grows
  <1>6. QED
    BY <1>2, <1>3, <1>4, <1>5 DEF Next, End

-----------------------------------------------------------------------------
(***************************************************************************)
(* The theorems.                                                           *)
(***************************************************************************)

\* The invariant holds at the start.
LEMMA InitInvariant == Init => IInv
  <1> SUFFICES ASSUME Init PROVE IInv
    OBVIOUS
  <1>1. Len(log) = 0 /\ up
    BY DEF Init
  <1>2. ASSUME NEW a \in Attempt PROVE AttemptInv(a)
    BY <1>1 DEF Init, AttemptInv, Absent, Running
  <1>3. QED
    BY <1>1, <1>2, InitType DEF IInv

\* The invariant is kept by every step, crashes and restarts included.
LEMMA Invariance == Spec => []IInv
  <1>1. IInv /\ [Next]_vars => IInv'
    <2> SUFFICES ASSUME IInv, [Next]_vars PROVE IInv'
      OBVIOUS
    <2>1. TypeOK'
      BY StepType
    <2>2. (\A a \in Attempt : AttemptInv(a))'
      BY StepAttempts
    <2>3. (\A i \in 1 .. Len(log) : FragmentInv(i))'
      BY StepFragments
    <2>4. QED
      BY <2>1, <2>2, <2>3 DEF IInv
  <1>2. QED
    BY <1>1, InitInvariant, PTL DEF Spec

\* The state is always well typed.
THEOREM TypeCorrect == Spec => []TypeOK
  <1>1. IInv => TypeOK
    BY DEF IInv
  <1>2. QED
    BY <1>1, Invariance, PTL

\* What a reader of the audit log concludes is so, whatever failed on the way:
\* writes, the process, or the machine.
THEOREM LogIsTrue == Spec => []LogTellsTruth
  <1>1. IInv => LogTellsTruth
    BY DEF IInv, FragmentInv, LogTellsTruth
  <1>2. QED
    BY <1>1, Invariance, PTL

\* A request leaves only for a tool this run of the server enables and, where
\* confirmation is asked, only after the human accepted in time.
THEOREM OnlyAsConfigured == Spec => SentAsConfigured
  <1>1. ASSUME IInv, [Next]_vars, NEW a \in Attempt,
               wire[a] = "none", wire'[a] # "none"
        PROVE  /\ ~config.readOnly /\ request[a].tool \in config.enable
               /\ request[a].action = "offboard" => config.offboarding
               /\ MustAsk(request[a]) => answer[a] = "accepted"
    <2>1. TypeOK /\ AttemptInv(a)
      BY <1>1 DEF IInv
    <2>2. PICK b \in Attempt : SendRequest(b) \/ ApiHandles(b)
      BY <1>1 DEF Next, End, Proceed, vars, Call, CallRejected, CallUnlisted,
                  CallUnconfirmable, CallAsks, CallUnasked, HumanAnswers,
                  ReceiveAnswer, PromptTimesOut, Recorded, RecordFails,
                  UpstreamNotReached, ReceiveStatus, UpstreamFails, Crash,
                  PowerFails, ProcessEnds, Restart
    <2>3. pc[a] = "acting"
      BY <1>1, <2>1, <2>2 DEF SendRequest, ApiHandles, TypeOK
    <2>4. Cleared(a)
      BY <2>1, <2>3 DEF AttemptInv
    <2>5. QED
      BY <2>4 DEF Cleared, Allowed, Rejection, ToolEnabled, Categories,
                  Offboarding
  <1>2. IInv /\ [Next]_vars =>
          [\A a \in Attempt : wire[a] = "none" /\ wire'[a] # "none" =>
            /\ ~config.readOnly /\ request[a].tool \in config.enable
            /\ request[a].action = "offboard" => config.offboarding
            /\ MustAsk(request[a]) => answer[a] = "accepted"]_vars
    BY <1>1
  <1>3. QED
    BY <1>2, Invariance, PTL DEF Spec, SentAsConfigured

-----------------------------------------------------------------------------
(***************************************************************************)
(* The pipeline implements AuditedMutation, as long as the machine keeps   *)
(* its power.                                                              *)
(***************************************************************************)

\* A whole record adds itself to what is logged, and a torn one adds nothing.
LEMMA LoggedAfter ==
    ASSUME TypeOK, NEW a \in Attempt, entry[a] \in Entry,
           NEW w \in BOOLEAN, AppendEntry(a, w),
           NEW b \in Attempt, NEW phase
    PROVE  Logged(b, phase)' <=>
             Logged(b, phase) \/ (w /\ b = a /\ entry[a].phase = phase)
  <1>1. /\ Len(log) \in Nat
        /\ Len(log') = Len(log) + 1
        /\ \A i \in 1 .. Len(log) : log'[i] = log[i]
        /\ log'[Len(log) + 1].attempt = a
        /\ log'[Len(log) + 1].entry = entry[a]
        /\ log'[Len(log) + 1].whole = w
    BY EntryFacts
  <1>2. 1 .. Len(log') = 1 .. Len(log) \cup {Len(log) + 1}
    BY <1>1
  <1>3. Logged(b, phase)' <=>
          \/ \E i \in 1 .. Len(log) :
                log'[i].attempt = b /\ log'[i].whole
                  /\ log'[i].entry.phase = phase
          \/ log'[Len(log) + 1].attempt = b /\ log'[Len(log) + 1].whole
               /\ log'[Len(log) + 1].entry.phase = phase
    BY <1>2 DEF Logged
  <1>4. (\E i \in 1 .. Len(log) :
           log'[i].attempt = b /\ log'[i].whole /\ log'[i].entry.phase = phase)
          <=> Logged(b, phase)
    BY <1>1 DEF Logged
  <1>5. QED
    BY <1>1, <1>3, <1>4

\* A step that only tears the log, or leaves it, is none of AuditedMutation's.
LEMMA Stutters ==
    ASSUME \A b \in Attempt :
             /\ wire'[b] = "none" <=> wire[b] = "none"
             /\ \A phase : Logged(b, phase)' <=> Logged(b, phase)
    PROVE  UNCHANGED Promise!vars
  BY DEF Promise!vars

\* Every step of the pipeline is a step of AuditedMutation or none.
LEMMA StepPromise ==
    ASSUME IInv, [Next]_vars, PowerCanFail = FALSE
    PROVE  [Promise!Next]_(Promise!vars)
  <1>1. TypeOK /\ \A a \in Attempt : AttemptInv(a)
    BY DEF IInv
  <1>2. CASE UNCHANGED log /\ \A b \in Attempt :
               wire'[b] = "none" <=> wire[b] = "none"
    BY <1>2, Stutters DEF Logged
  <1>3. ASSUME NEW a \in Attempt, entry[a] \in Entry, AppendEntry(a, FALSE),
               UNCHANGED wire
        PROVE  UNCHANGED Promise!vars
    <2>1. ASSUME NEW b \in Attempt, NEW phase
          PROVE  Logged(b, phase)' <=> Logged(b, phase)
      BY <1>1, <1>3, LoggedAfter
    <2>2. QED
      BY <1>3, <2>1, Stutters
  <1>4. ASSUME NEW a \in Attempt, Recorded(a)
        PROVE  [Promise!Next]_(Promise!vars)
    <2>1. /\ pc[a] = "writing" /\ AppendEntry(a, TRUE) /\ UNCHANGED wire
          /\ entry[a] \in Entry
      BY <1>4, RunningEntry DEF Recorded
    <2>2. WritingInv(a)
      BY <1>1, <2>1 DEF AttemptInv
    <2>3. ASSUME NEW b \in Attempt, NEW phase
          PROVE  Logged(b, phase)' <=>
                   Logged(b, phase) \/ (b = a /\ entry[a].phase = phase)
      BY <1>1, <2>1, LoggedAfter
    <2>4. CASE entry[a].phase = "Intent"
      <3>1. ~Logged(a, "Intent") /\ ~Logged(a, "Final")
        BY <2>2, <2>4 DEF WritingInv, Absent, Logged
      <3>2. Promise!Intend(a)
        BY <2>1, <2>3, <2>4, <3>1 DEF Promise!Intend
      <3>3. QED
        BY <3>2 DEF Promise!Next
    <2>5. CASE entry[a].phase = "Final"
      <3>1. ~Logged(a, "Intent") /\ ~Logged(a, "Final")
        BY <2>2, <2>5 DEF WritingInv
      <3>2. Promise!Refuse(a)
        BY <2>1, <2>3, <2>5, <3>1 DEF Promise!Refuse
      <3>3. QED
        BY <3>2 DEF Promise!Next
    <2>6. CASE entry[a].phase = "Outcome"
      <3>1. UNCHANGED Promise!vars
        BY <2>1, <2>3, <2>6 DEF Promise!vars
      <3>2. QED
        BY <3>1
    <2>7. QED
      BY <2>1, <2>4, <2>5, <2>6 DEF Entry
  <1>5. ASSUME NEW a \in Attempt, SendRequest(a)
        PROVE  [Promise!Next]_(Promise!vars)
    <2>1. SentInv(a) /\ wire[a] = "none"
      BY <1>1, <1>5 DEF SendRequest, AttemptInv
    <2>2. Logged(a, "Intent")
      BY <2>1 DEF SentInv, IntentOf, IntentEntry, Logged
    <2>3. /\ UNCHANGED log
          /\ wire' = [wire EXCEPT ![a] = "inflight"]
      BY <1>5 DEF SendRequest
    <2>4. Promise!Run(a)
      BY <1>1, <2>1, <2>2, <2>3 DEF Promise!Run, Logged, TypeOK
    <2>5. QED
      BY <2>4 DEF Promise!Next
  <1>6. ASSUME NEW a \in Attempt, ApiHandles(a)
        PROVE  UNCHANGED log /\ \A b \in Attempt :
                 wire'[b] = "none" <=> wire[b] = "none"
    BY <1>1, <1>6 DEF ApiHandles, TypeOK
  <1>7. ASSUME NEW a \in Attempt, RecordFails(a)
        PROVE  [Promise!Next]_(Promise!vars)
    <2>1. entry[a] \in Entry /\ UNCHANGED wire
      BY <1>7, RunningEntry DEF RecordFails
    <2>2. QED
      BY <1>2, <1>3, <1>7, <2>1 DEF RecordFails
  <1>8. ASSUME Crash PROVE [Promise!Next]_(Promise!vars)
    <2>1. ASSUME NEW a \in Attempt, pc[a] = "writing", AppendEntry(a, FALSE)
          PROVE  UNCHANGED Promise!vars
      <3>1. entry[a] \in Entry /\ UNCHANGED wire
        BY <1>8, <2>1, RunningEntry DEF Crash, ProcessEnds
      <3>2. QED
        BY <1>3, <2>1, <3>1
    <2>2. CASE UNCHANGED log
      BY <1>2, <1>8, <2>2 DEF Crash, ProcessEnds
    <2>3. QED
      BY <1>8, <2>1, <2>2 DEF Crash
  <1>9. CASE \/ \E a \in Attempt, r \in Request :
                  \/ CallRejected(a, r) \/ CallUnlisted(a, r)
                  \/ CallUnconfirmable(a, r) \/ CallAsks(a, r)
                  \/ CallUnasked(a, r)
             \/ \E a \in Attempt :
                  \/ HumanAnswers(a) \/ ReceiveAnswer(a)
                  \/ PromptTimesOut(a) \/ UpstreamNotReached(a)
                  \/ ReceiveStatus(a) \/ UpstreamFails(a)
             \/ Restart
             \/ UNCHANGED vars
    <2>1. UNCHANGED <<log, wire>>
      BY <1>9 DEF Call, CallRejected, CallUnlisted, CallUnconfirmable,
                  CallAsks, CallUnasked, HumanAnswers, ReceiveAnswer,
                  PromptTimesOut, UpstreamNotReached, ReceiveStatus,
                  UpstreamFails, Restart, vars
    <2>2. QED
      BY <1>2, <2>1
  <1>10. QED
    BY <1>2, <1>4, <1>5, <1>6, <1>7, <1>8, <1>9 DEF Next, End, Proceed, PowerFails

\* On a machine that keeps its power, an attempt runs only with its intent in
\* the log, runs once, and is never both turned down and run: through failed
\* and torn writes, crashes and restarts.
THEOREM PipelineKeepsPromise ==
    ASSUME PowerCanFail = FALSE
    PROVE  Spec => PromiseKept
  <1>1. Init => Promise!Init
    <2> SUFFICES ASSUME Init PROVE Promise!Init
      OBVIOUS
    <2>1. Len(log) = 0
      BY DEF Init
    <2>2. QED
      BY <2>1 DEF Init, Promise!Init, Logged
  <1>2. IInv /\ [Next]_vars => [Promise!Next]_(Promise!vars)
    BY StepPromise
  <1>3. QED
    BY <1>1, <1>2, Invariance, PTL DEF Spec, PromiseKept, Promise!Spec
-----------------------------------------------------------------------------
(***************************************************************************)
(* What was answered is in the log, as long as the machine keeps its power.*)
(***************************************************************************)

Answered(b) ==
    pc[b] = "done" =>
        \/ Logged(b, "Final") \/ Logged(b, "Outcome")
        \/ b \in unlogged
        \/ entry[b] = NoEntry

\* Nothing but a loss of power takes a record out of the log.
LEMMA LoggedStays ==
    ASSUME IInv, [Next]_vars, PowerCanFail = FALSE,
           NEW b \in Attempt, NEW phase, Logged(b, phase)
    PROVE  Logged(b, phase)'
  <1>1. CASE UNCHANGED log
    BY <1>1 DEF Logged
  <1>2. ASSUME NEW a \in Attempt, NEW w \in BOOLEAN,
               pc[a] = "writing", AppendEntry(a, w)
        PROVE  Logged(b, phase)'
    BY <1>2, RunningEntry, LoggedAfter DEF IInv
  <1>3. \/ UNCHANGED log
        \/ \E a \in Attempt, w \in BOOLEAN :
              pc[a] = "writing" /\ AppendEntry(a, w)
    BY DEF Next, End, Proceed, vars, Call, CallRejected, CallUnlisted,
           CallUnconfirmable, CallAsks, CallUnasked, HumanAnswers,
           ReceiveAnswer, PromptTimesOut, Recorded, RecordFails,
           UpstreamNotReached, SendRequest, ApiHandles, ReceiveStatus,
           UpstreamFails, Crash, PowerFails, Restart
  <1>4. QED
    BY <1>1, <1>2, <1>3

\* A call that was answered keeps its last record.
LEMMA AnsweredStays ==
    ASSUME IInv, [Next]_vars, NEW b \in Attempt, pc[b] = "done"
    PROVE  entry'[b] = entry[b] /\ (b \in unlogged => b \in unlogged')
  <1> DEFINE Stays == entry'[b] = entry[b] /\ (b \in unlogged => b \in unlogged')
  <1>1. TypeOK
    BY DEF IInv
  <1>2. ASSUME NEW a \in Attempt, NEW e, pc[a] # "done", Write(a, e)
        PROVE  Stays
    BY <1>1, <1>2 DEF Write, TypeOK
  <1>3. CASE UNCHANGED <<entry, unlogged>>
    BY <1>3
  <1>4. ASSUME NEW a \in Attempt, NEW r \in Request,
               \/ CallRejected(a, r) \/ CallUnlisted(a, r)
               \/ CallUnconfirmable(a, r) \/ CallAsks(a, r)
               \/ CallUnasked(a, r)
        PROVE  Stays
    BY <1>2, <1>3, <1>4 DEF CallRejected, CallUnlisted, CallUnconfirmable,
                            CallAsks, CallUnasked, Call
  <1>5. ASSUME NEW a \in Attempt,
               \/ ReceiveAnswer(a) \/ PromptTimesOut(a)
               \/ UpstreamNotReached(a) \/ ReceiveStatus(a)
               \/ UpstreamFails(a)
        PROVE  Stays
    BY <1>2, <1>5 DEF ReceiveAnswer, PromptTimesOut, UpstreamNotReached,
                      ReceiveStatus, UpstreamFails, WriteOutcome
  <1>6. ASSUME NEW a \in Attempt, Recorded(a) PROVE Stays
    BY <1>6 DEF Recorded
  <1>7. ASSUME NEW a \in Attempt, RecordFails(a) PROVE Stays
    BY <1>2, <1>7 DEF RecordFails
  <1>8. ASSUME NEW a \in Attempt,
               HumanAnswers(a) \/ ApiHandles(a) \/ SendRequest(a)
        PROVE  Stays
    BY <1>8 DEF HumanAnswers, ApiHandles, SendRequest
  <1>9. CASE Crash \/ PowerFails \/ Restart \/ UNCHANGED vars
    BY <1>9 DEF Crash, PowerFails, ProcessEnds, Restart, vars
  <1>10. QED
    BY <1>4, <1>5, <1>6, <1>7, <1>8, <1>9 DEF Next, End, Proceed

\* A record that cannot be put in the log is remembered as such.
LEMMA WriteAnswers ==
    ASSUME TypeOK, NEW a \in Attempt, NEW e, Write(a, e), pc'[a] = "done"
    PROVE  a \in unlogged'
  BY DEF Write, TypeOK

\* A call is answered with its closing record in the log, or without one.
LEMMA AnswerRecorded ==
    ASSUME IInv, [Next]_vars, NEW b \in Attempt, pc[b] # "done",
           pc'[b] = "done"
    PROVE  Answered(b)'
  <1>1. TypeOK /\ AttemptInv(b)
    BY DEF IInv
  <1>2. CASE \E r \in Request : CallUnlisted(b, r)
    <2>1. entry[b] = NoEntry
      BY <1>1, <1>2 DEF CallUnlisted, Call, AttemptInv
    <2>2. QED
      BY <1>2, <2>1 DEF CallUnlisted, Answered
  <1>3. CASE \E e : Write(b, e)
    BY <1>1, <1>3, WriteAnswers DEF Answered
  <1>4. CASE Recorded(b)
    <2>1. entry[b] \in Entry /\ AppendEntry(b, TRUE)
      BY <1>4, RunningEntry DEF Recorded
    <2>2. entry[b].phase \in {"Final", "Outcome"}
      BY <1>1, <1>4, <2>1 DEF Recorded, TypeOK, Entry
    <2>3. Logged(b, "Final")' \/ Logged(b, "Outcome")'
      BY <1>1, <2>1, <2>2, LoggedAfter
    <2>4. QED
      BY <2>3 DEF Answered
  <1>5. CASE RecordFails(b)
    BY <1>3, <1>5 DEF RecordFails, Answered
  <1>6. \/ \E r \in Request : CallUnlisted(b, r)
        \/ \E e : Write(b, e)
        \/ Recorded(b) \/ RecordFails(b)
    <2>1. ASSUME NEW a \in Attempt, NEW r \in Request,
                 \/ CallRejected(a, r) \/ CallUnconfirmable(a, r)
                 \/ CallUnasked(a, r)
          PROVE  \E e : Write(b, e)
      BY <1>1, <2>1 DEF CallRejected, CallUnconfirmable, CallUnasked, Write,
                        TypeOK
    <2>2. ASSUME NEW a \in Attempt, NEW r \in Request,
                 CallUnlisted(a, r)
          PROVE  CallUnlisted(b, r)
      BY <1>1, <2>2 DEF CallUnlisted, TypeOK
    <2>3. ASSUME NEW a \in Attempt, NEW r \in Request, CallAsks(a, r)
          PROVE  FALSE
      BY <1>1, <2>3 DEF CallAsks, TypeOK
    <2>4. ASSUME NEW a \in Attempt, HumanAnswers(a) \/ ApiHandles(a)
          PROVE  FALSE
      BY <2>4 DEF HumanAnswers, ApiHandles
    <2>5. ASSUME NEW a \in Attempt,
                 \/ ReceiveAnswer(a) \/ PromptTimesOut(a)
                 \/ UpstreamNotReached(a) \/ ReceiveStatus(a)
                 \/ UpstreamFails(a)
          PROVE  \E e : Write(b, e)
      BY <1>1, <2>5 DEF ReceiveAnswer, PromptTimesOut, UpstreamNotReached,
                        ReceiveStatus, UpstreamFails, WriteOutcome, Write,
                        TypeOK
    <2>6. ASSUME NEW a \in Attempt, Recorded(a) \/ RecordFails(a)
          PROVE  Recorded(b) \/ RecordFails(b)
      BY <1>1, <2>6 DEF Recorded, RecordFails, Write, TypeOK
    <2>7. ASSUME NEW a \in Attempt, SendRequest(a) PROVE FALSE
      BY <1>1, <2>7 DEF SendRequest, TypeOK
    <2>8. ASSUME Crash \/ PowerFails \/ Restart \/ UNCHANGED vars PROVE FALSE
      BY <1>1, <2>8 DEF Crash, PowerFails, ProcessEnds, Restart, vars, TypeOK,
                        Running
    <2>9. QED
      BY <2>1, <2>2, <2>3, <2>4, <2>5, <2>6, <2>7, <2>8 DEF Next, End, Proceed
  <1>7. QED
    BY <1>2, <1>3, <1>4, <1>5, <1>6

\* On a machine that keeps its power, an attempt that was answered has its
\* closing record in the log, unless writing it failed or its action was
\* unknown to the dispatcher.
THEOREM AnswersLogged ==
    ASSUME PowerCanFail = FALSE
    PROVE  Spec => []AnsweredIsLogged
  <1>1. Init => AnsweredIsLogged
    BY DEF Init, AnsweredIsLogged
  <1>2. IInv /\ AnsweredIsLogged /\ [Next]_vars => AnsweredIsLogged'
    <2> SUFFICES ASSUME IInv, AnsweredIsLogged, [Next]_vars,
                        NEW b \in Attempt
                 PROVE  Answered(b)'
      BY DEF AnsweredIsLogged, Answered
    <2>1. CASE pc[b] = "done"
      <3>1. Answered(b)
        BY DEF AnsweredIsLogged, Answered
      <3>2. entry'[b] = entry[b] /\ (b \in unlogged => b \in unlogged')
        BY <2>1, AnsweredStays
      <3>3. \A phase : Logged(b, phase) => Logged(b, phase)'
        BY LoggedStays
      <3>4. QED
        BY <2>1, <3>1, <3>2, <3>3 DEF Answered
    <2>2. CASE pc[b] # "done" /\ pc'[b] = "done"
      BY <2>2, AnswerRecorded
    <2>3. CASE pc'[b] # "done"
      BY <2>3 DEF Answered
    <2>4. QED
      BY <2>1, <2>2, <2>3
  <1>3. QED
    BY <1>1, <1>2, Invariance, PTL DEF Spec
====
