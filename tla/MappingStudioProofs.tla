-------------------------- MODULE MappingStudioProofs --------------------------
(***************************************************************************)
(* What proposals and the assistant page guarantee for any number of       *)
(* requests, iterations, attempts and turns.  The write transaction of a   *)
(* refinement inserts its message first, and (proposal, turn_index) is     *)
(* unique: until it ends, nobody else lengthens that conversation.  What   *)
(* the model is told of a mapping is read after the proposal, so that it   *)
(* holds at least what led to it, and is cut to the latest turns.          *)
(***************************************************************************)
EXTENDS MappingStudio, FiniteSetTheorems, FunctionTheorems, SequenceTheorems, TLAPS

\* The steps of each kind of request
StepFitsKind(r) ==
    /\ step[r] = "none" <=> kind[r] = "none"
    /\ step[r] = "save" => kind[r] = "propose"
    /\ step[r] \in Analysing => kind[r] \in {"propose", "refine"}
    /\ step[r] \in {"read", "update"} => kind[r] \in {"refine", "patch"}
    /\ step[r] \in {"list", "addUser", "insertUser", "addAssistant"} => kind[r] = "refine"

HoldsRow(r) == step[r] = "addAssistant" \/ (step[r] = "commit" /\ kind[r] # "propose")

\* How many messages the open transaction of a request has inserted
InsertedBy(r) ==
    IF kind[r] # "refine" THEN 0
    ELSE IF step[r] \in {"update", "addAssistant"} THEN 1
    ELSE IF step[r] = "commit" THEN 2
    ELSE 0

\* Where a request is, and what its transaction has written
RequestOK(r) ==
    /\ StepFitsKind(r)
    /\ kind[r] \in {"none", "propose"} => target[r] = r
    /\ reply[r] = "none" <=> step[r] # "done"
    /\ inserted[r] = InsertedBy(r)
    /\ inserted[r] > 0 => turn[r] = Len(transcript[Of(r)])
    /\ HoldsRow(r) => lock[Of(r)] = r
    /\ step[r] = "read" => stored[Of(r)] # None
    /\ kind[r] = "patch" /\ (step[r] \in {"update", "commit"} \/ reply[r] = "ok") => base[r] # None

\* A locked row is locked by a transaction that is open on it
LocksOK == \A p \in Requests : lock[p] # None => HoldsRow(lock[p]) /\ Of(lock[p]) = p

\* One open transaction at most has messages in a conversation
OneWriter ==
    \A q, r \in Requests : inserted[q] > 0 /\ inserted[r] > 0 /\ Of(q) = Of(r) => q = r

\* Only requests that are over have written
LogOK(p) == \A i \in DOMAIN log[p] : step[log[p][i]] = "done" /\ Of(log[p][i]) = p

ServerInv ==
    /\ ServerTypeOK
    /\ \A r \in Requests : RequestOK(r)
    /\ LocksOK
    /\ OneWriter
    /\ \A p \in Requests : LogOK(p)
    /\ TranscriptFollowsTheMapping
    /\ RepliesAreTrue

LEMMA InitServer == ServerInit => ServerInv
<1> SUFFICES ASSUME ServerInit PROVE ServerInv
  OBVIOUS
<1> USE DEF ServerInit
<1>1. ServerTypeOK
  BY BoundsAssumption DEF ServerTypeOK, Step, Proposal, Message
<1>2. ASSUME NEW r \in Requests PROVE RequestOK(r)
  BY DEF RequestOK, StepFitsKind, InsertedBy, HoldsRow, Analysing
<1>3. LocksOK /\ OneWriter
  BY DEF LocksOK, OneWriter
<1>4. \A p \in Requests : LogOK(p)
  BY DEF LogOK
<1>5. TranscriptFollowsTheMapping
  <2>1. \A p \in Requests : Refinements(p) = {}
    BY DEF Refinements
  <2> QED BY <2>1, FS_EmptySet DEF TranscriptFollowsTheMapping, Tells, Rank
<1>6. RepliesAreTrue
  <2>1. \A r \in Requests : log[Of(r)] = <<>> /\ reply[r] = "none"
    BY DEF Of
  <2> QED BY <2>1 DEF RepliesAreTrue
<1> QED BY <1>1, <1>2, <1>3, <1>4, <1>5, <1>6 DEF ServerInv

--------------------------------------------------------------------------------
(* What a step of one request leaves alone *)

\* The step is of r: nothing of another request changes
OnlyOf(r) ==
    \A q \in Requests \ {r} :
        /\ kind'[q] = kind[q] /\ target'[q] = target[q] /\ step'[q] = step[q]
        /\ base'[q] = base[q] /\ turn'[q] = turn[q] /\ inserted'[q] = inserted[q]
        /\ reply'[q] = reply[q]

\* Nothing is committed
NothingCommitted == UNCHANGED <<stored, transcript, log>>

LEMMA ReleasedTypes ==
    ASSUME ServerTypeOK, NEW r \in Requests
    PROVE  Released(r) \in [Requests -> Requests \cup {None}]
BY DEF Released, ServerTypeOK

\* What a commit writes
LEMMA CommitTypes ==
    ASSUME ServerInv, NEW r \in Requests, step[r] = "commit"
    PROVE  /\ Written(r) \in Proposal /\ Written(r).mapping = r
           /\ kind[r] = "refine" =>
                 MessagesOf(r) = <<[by |-> r, role |-> "user", turn_index |-> turn[r]],
                                   [by |-> r, role |-> "assistant", turn_index |-> turn[r] + 1]>>
           /\ kind[r] # "refine" => MessagesOf(r) = <<>>
           /\ MessagesOf(r) \in Seq(Message)
<1>1. ServerTypeOK /\ RequestOK(r) /\ BoundsAssumption
  BY BoundsAssumption DEF ServerInv
<1>2. Written(r) \in Proposal /\ Written(r).mapping = r
  BY <1>1 DEF Written, Proposal, RequestOK, ServerTypeOK
<1> DEFINE user == [by |-> r, role |-> "user", turn_index |-> turn[r]]
           assistant == [by |-> r, role |-> "assistant", turn_index |-> turn[r] + 1]
<1>3. user \in Message /\ assistant \in Message
  BY <1>1 DEF Message, ServerTypeOK
<1>4. inserted[r] = IF kind[r] = "refine" THEN 2 ELSE 0
  BY <1>1 DEF RequestOK, InsertedBy
<1>5. MessagesOf(r) = SubSeq(<<user, assistant>>, 1, inserted[r])
  BY DEF MessagesOf
<1> HIDE DEF user, assistant
<1>6. SubSeq(<<user, assistant>>, 1, 2) = <<user, assistant>> /\ SubSeq(<<user, assistant>>, 1, 0) = <<>>
  <2>1. <<user, assistant>> \in Seq({user, assistant}) /\ Len(<<user, assistant>>) = 2
    OBVIOUS
  <2>2. SubSeq(<<user, assistant>>, 1, 2) = <<user, assistant>>
    BY <2>1, SubSeqFull
  <2>3. SubSeq(<<user, assistant>>, 1, 0) = <<>>
    BY <2>1, SubSeqEmpty
  <2> QED BY <2>2, <2>3
<1>7. <<user, assistant>> \in Seq(Message) /\ <<>> \in Seq(Message)
  BY <1>3
<1> QED BY <1>2, <1>4, <1>5, <1>6, <1>7 DEF user, assistant

LEMMA StepTypes ==
    /\ \A there \in {"none", "read", "list", "done", "posting", "tools", "addUser", "insertUser",
                     "update", "addAssistant", "save", "commit"} : there \in Step
    /\ 0 \in 0..MaxIterations /\ 1 \in 1..MAX_ATTEMPTS
    /\ \A n \in 0..MaxIterations : n + 1 < MaxIterations => n + 1 \in 0..MaxIterations
    /\ \A n \in 1..MAX_ATTEMPTS : n < MAX_ATTEMPTS => n + 1 \in 1..MAX_ATTEMPTS
BY BoundsAssumption DEF Step, Analysing, Writing

LEMMA ServerTypes ==
    ASSUME ServerInv, NEW r \in Requests,
           BeginPropose(r) \/ (\E p \in Requests, what \in {"refine", "patch"} : BeginOn(r, what, p))
             \/ ServerStep(r)
    PROVE  ServerTypeOK'
<1>1. ServerTypeOK /\ RequestOK(r)
  BY DEF ServerInv
<1>2. ASSUME UNCHANGED proposals PROVE UNCHANGED <<stored, lock, transcript, log>>
  BY <1>2 DEF proposals
<1>3. ASSUME UNCHANGED conversation PROVE UNCHANGED <<history, iteration, attempt>>
  BY <1>3 DEF conversation
<1>4. ASSUME UNCHANGED transaction PROVE UNCHANGED <<turn, inserted>>
  BY <1>4 DEF transaction
<1>5. CASE BeginPropose(r)
  BY <1>1, <1>2, <1>3, <1>4, <1>5, StepTypes DEF BeginPropose, ServerTypeOK, GoTo
<1>6. ASSUME NEW p \in Requests, NEW what \in {"refine", "patch"}, BeginOn(r, what, p) PROVE ServerTypeOK'
  BY <1>1, <1>2, <1>3, <1>4, <1>6, StepTypes DEF BeginOn, ServerTypeOK, GoTo
<1>7. CASE ReadProposal(r)
  BY <1>1, <1>2, <1>3, <1>4, <1>7, StepTypes DEF ReadProposal, ServerTypeOK, GoTo, Of
<1>8. CASE Save(r)
  BY <1>1, <1>2, <1>3, <1>4, <1>8, StepTypes DEF Save, ServerTypeOK, GoTo
<1>9. CASE RunTools(r)
  BY <1>1, <1>2, <1>4, <1>9, StepTypes DEF RunTools, ServerTypeOK, GoTo
<1>10. CASE ListMessages(r)
  <2>1. RecentMessages(transcript[Of(r)]) \in Seq(Message)
    <3>1. transcript[Of(r)] \in Seq(Message)
      BY <1>1 DEF ServerTypeOK, Of
    <3>2. \A m \in Seq(Message) : RecentMessages(m) \in Seq(Message)
      BY SubSeqProperties, BoundsAssumption DEF RecentMessages
    <3> QED BY <3>1, <3>2
  <2> QED BY <1>1, <1>2, <1>4, <1>10, <2>1, StepTypes DEF ListMessages, ServerTypeOK, GoTo
<1>11. CASE RetryPost(r)
  BY <1>1, <1>2, <1>4, <1>11, StepTypes DEF RetryPost, ServerTypeOK
<1>12. CASE AskTools(r)
  BY <1>1, <1>2, <1>4, <1>12, StepTypes DEF AskTools, ServerTypeOK, GoTo
<1>13. CASE ModelAnswers(r)
  <2>1. /\ history' \in [Requests -> Seq(Message)] /\ iteration' \in [Requests -> 0..MaxIterations]
        /\ attempt' \in [Requests -> 1..MAX_ATTEMPTS]
    BY SMTT(30), <1>1, <1>13, StepTypes DEF ModelAnswers, Forgotten, ServerTypeOK
  <2> QED BY <1>1, <1>2, <1>4, <1>13, <2>1, StepTypes DEF ModelAnswers, ServerTypeOK, GoTo
<1>14. ASSUME Fails(r)
       PROVE  /\ step' \in [Requests -> Step] /\ reply' \in [Requests -> {"none", "ok", "error"}]
              /\ turn' \in [Requests -> Nat] /\ history' \in [Requests -> Seq(Message)]
              /\ iteration' \in [Requests -> 0..MaxIterations] /\ attempt' \in [Requests -> 1..MAX_ATTEMPTS]
  BY SMTT(30), <1>1, <1>14, StepTypes DEF Fails, Forgotten, GoTo, ServerTypeOK
<1>15. CASE AnalysisFails(r) \/ OutOfIterations(r) \/ Deadline(r) \/ TurnIsTaken(r)
  <2>1. Fails(r) /\ UNCHANGED <<kind, target, base, inserted, proposals>>
    BY <1>15 DEF AnalysisFails, OutOfIterations, Deadline, TurnIsTaken
  <2> QED BY <1>1, <1>2, <1>14, <2>1 DEF ServerTypeOK
<1>16. CASE AddUser(r)
  <2>1. Len(transcript[Of(r)]) \in Nat
    BY <1>1, LenProperties DEF ServerTypeOK, Of
  <2> QED BY <1>1, <1>2, <1>3, <1>16, <2>1, StepTypes DEF AddUser, ServerTypeOK, GoTo
<1>17. CASE InsertUser(r)
  BY SMTT(30), <1>1, <1>2, <1>3, <1>17, StepTypes DEF InsertUser, ServerTypeOK, GoTo
<1>18. CASE Update(r)
  <2>1. lock' \in [Requests -> Requests \cup {None}]
    BY <1>1, <1>18 DEF Update, ServerTypeOK, Of
  <2> QED BY <1>1, <1>3, <1>4, <1>18, <2>1, StepTypes DEF Update, ServerTypeOK, GoTo
<1>19. CASE AddAssistant(r)
  BY SMTT(30), <1>1, <1>2, <1>3, <1>19, StepTypes DEF AddAssistant, ServerTypeOK, GoTo
<1>20. ASSUME step[r] = "commit", Committed(r)
       PROVE  /\ stored' \in [Requests -> Proposal \cup {None}] /\ lock' \in [Requests -> Requests \cup {None}]
              /\ transcript' \in [Requests -> Seq(Message)] /\ log' \in [Requests -> Seq(Requests)]
              /\ inserted' \in [Requests -> 0..2]
  <2>1. Written(r) \in Proposal /\ MessagesOf(r) \in Seq(Message)
    BY <1>20, CommitTypes
  <2>2. stored' \in [Requests -> Proposal \cup {None}]
    BY <1>1, <1>20, <2>1 DEF Committed, ServerTypeOK, Of
  <2>3. transcript' \in [Requests -> Seq(Message)]
    <3>1. transcript[Of(r)] \o MessagesOf(r) \in Seq(Message)
      BY <1>1, <2>1, ConcatProperties DEF ServerTypeOK, Of
    <3> QED BY <1>1, <1>20, <3>1 DEF Committed, ServerTypeOK
  <2>4. log' \in [Requests -> Seq(Requests)]
    <3>1. Append(log[Of(r)], r) \in Seq(Requests)
      BY <1>1, AppendProperties DEF ServerTypeOK, Of
    <3> QED BY <1>1, <1>20, <3>1 DEF Committed, ServerTypeOK
  <2>5. lock' \in [Requests -> Requests \cup {None}]
    BY <1>1, <1>20, ReleasedTypes DEF Committed
  <2>6. inserted' \in [Requests -> 0..2]
    BY <1>1, <1>20 DEF Committed, ServerTypeOK
  <2> QED BY <2>2, <2>3, <2>4, <2>5, <2>6
<1>21. CASE Commit(r)
  <2>1. /\ step' \in [Requests -> Step] /\ reply' \in [Requests -> {"none", "ok", "error"}]
        /\ turn' \in [Requests -> Nat]
    BY <1>1, <1>21, StepTypes DEF Commit, GoTo, ServerTypeOK
  <2>2. UNCHANGED <<kind, target, base, history, iteration, attempt>>
    BY <1>3, <1>21 DEF Commit
  <2>3. step[r] = "commit" /\ Committed(r)
    BY <1>21 DEF Commit
  <2> QED BY <1>1, <1>20, <2>1, <2>2, <2>3 DEF ServerTypeOK
<1>22. CASE ConnectionLost(r)
  <2>1. Fails(r) /\ UNCHANGED <<kind, target, base>>
    BY <1>22 DEF ConnectionLost
  <2>2. CASE step[r] = "commit" /\ Committed(r)
    BY <1>1, <1>14, <1>20, <2>1, <2>2 DEF ServerTypeOK
  <2>3. CASE NothingCommitted /\ lock' = Released(r) /\ inserted' = [inserted EXCEPT ![r] = 0]
    <3>1. /\ lock' \in [Requests -> Requests \cup {None}] /\ inserted' \in [Requests -> 0..2]
          /\ UNCHANGED <<stored, transcript, log>>
      BY SMTT(30), <1>1, <2>3, ReleasedTypes DEF ServerTypeOK, NothingCommitted
    <3> QED BY <1>1, <1>14, <2>1, <3>1 DEF ServerTypeOK
  <2> QED BY <1>22, <2>2, <2>3 DEF ConnectionLost, NothingCommitted
<1> QED BY <1>5, <1>6, <1>7, <1>8, <1>9, <1>10, <1>11, <1>12, <1>13, <1>15, <1>16, <1>17, <1>18, <1>19,
           <1>21, <1>22
        DEF ServerStep, OwnStep, ProviderStep

--------------------------------------------------------------------------------
(* What one step of a request keeps *)

\* Another request is where it was, and its transaction has what it had
LEMMA OthersStayOK ==
    ASSUME ServerInv, NEW r \in Requests, OnlyOf(r), NEW q \in Requests \ {r},
           stored[Of(q)] # None => stored'[Of(q)] # None,
           lock[Of(q)] = q => lock'[Of(q)] = q,
           inserted[q] > 0 => Len(transcript'[Of(q)]) = Len(transcript[Of(q)])
    PROVE  RequestOK(q)'
<1>1. RequestOK(q)
  BY DEF ServerInv
<1> QED BY <1>1 DEF OnlyOf, RequestOK, StepFitsKind, InsertedBy, HoldsRow, Of

\* A step that commits nothing is of a request that has written nothing
LEMMA HistoryStays ==
    ASSUME ServerInv, NEW r \in Requests, OnlyOf(r), step[r] # "done", NothingCommitted,
           reply'[r] # "ok", ServerTypeOK'
    PROVE  (\A p \in Requests : LogOK(p)') /\ TranscriptFollowsTheMapping' /\ RepliesAreTrue'
<1>1. ASSUME NEW p \in Requests, NEW i \in DOMAIN log[p]
      PROVE  log[p][i] \in Requests \ {r} /\ step[log[p][i]] = "done" /\ Of(log[p][i]) = p
  <2>1. log[p] \in Seq(Requests) /\ LogOK(p)
    BY DEF ServerInv, ServerTypeOK
  <2>2. log[p][i] \in Requests
    BY <1>1, <2>1
  <2> QED BY <1>1, <2>1, <2>2 DEF LogOK
<1>2. \A p \in Requests : LogOK(p)'
  BY <1>1 DEF OnlyOf, NothingCommitted, LogOK, Of
<1>3. TranscriptFollowsTheMapping'
  <2>1. \A p \in Requests : Refinements(p)' = Refinements(p)
    BY <1>1 DEF OnlyOf, NothingCommitted, Refinements
  <2>2. TranscriptFollowsTheMapping
    BY DEF ServerInv
  <2> QED BY <2>1, <2>2 DEF TranscriptFollowsTheMapping, Tells, Rank, NothingCommitted
<1>4. RepliesAreTrue'
  <2>1. ASSUME NEW q \in Requests, q # r
        PROVE  Of(q)' = Of(q) /\ reply'[q] = reply[q] /\ step'[q] = step[q] /\ log' = log
    BY <2>1 DEF OnlyOf, NothingCommitted, Of
  <2>2. \A p \in Requests : DOMAIN log[p] = 1..Len(log[p])
    BY DEF ServerInv, ServerTypeOK
  <2>3. ~ \E n \in 1..Len(log'[Of(r)']) : log'[Of(r)'][n] = r
    <3>1. Of(r)' \in Requests /\ log' = log
      BY DEF ServerTypeOK, Of, NothingCommitted
    <3> QED BY <1>1, <2>2, <3>1
  <2>4. RepliesAreTrue
    BY DEF ServerInv
  <2> QED BY <2>1, <2>3, <2>4 DEF RepliesAreTrue
<1> QED BY <1>2, <1>3, <1>4

\* A step of a request that holds no row and has no message in an open transaction
LEMMA QuietStep ==
    ASSUME ServerInv, ServerTypeOK', NEW r \in Requests, OnlyOf(r), NothingCommitted,
           UNCHANGED <<lock, inserted>>,
           step[r] # "done", ~HoldsRow(r), inserted[r] = 0, reply'[r] # "ok", RequestOK(r)'
    PROVE  ServerInv'
<1>1. (\A p \in Requests : LogOK(p)') /\ TranscriptFollowsTheMapping' /\ RepliesAreTrue'
  BY HistoryStays
<1>2. ASSUME NEW q \in Requests PROVE RequestOK(q)'
  BY OthersStayOK DEF NothingCommitted
<1>3. LocksOK'
  <2>1. ASSUME NEW p \in Requests, lock[p] # None
        PROVE  lock[p] \in Requests \ {r} /\ HoldsRow(lock[p]) /\ Of(lock[p]) = p
    BY <2>1 DEF ServerInv, ServerTypeOK, LocksOK
  <2> QED BY <2>1 DEF LocksOK, OnlyOf, HoldsRow, Of
<1>4. OneWriter'
  BY DEF ServerInv, OneWriter, OnlyOf, Of
<1> QED BY <1>1, <1>2, <1>3, <1>4 DEF ServerInv

\* The steps before the write transaction, and those of it that write nothing
LEMMA QuietSteps ==
    ASSUME ServerInv, NEW r \in Requests,
           \/ BeginPropose(r) \/ \E p \in Requests, what \in {"refine", "patch"} : BeginOn(r, what, p)
           \/ ProviderStep(r) \/ ReadProposal(r) \/ ListMessages(r) \/ RunTools(r) \/ Deadline(r)
           \/ AddUser(r) \/ TurnIsTaken(r) \/ Save(r)
    PROVE  ServerInv'
<1>1. ServerTypeOK /\ ServerTypeOK' /\ RequestOK(r)
  BY ServerTypes DEF ServerInv, ServerStep, OwnStep
<1>2. ASSUME UNCHANGED proposals PROVE UNCHANGED <<lock, stored, transcript, log>> /\ NothingCommitted
  BY <1>2 DEF proposals, NothingCommitted
<1>3. ASSUME UNCHANGED transaction PROVE UNCHANGED <<turn, inserted>>
  BY <1>3 DEF transaction
<1>4. CASE BeginPropose(r)
  <2>1. OnlyOf(r)
    BY <1>1, <1>3, <1>4 DEF BeginPropose, OnlyOf, ServerTypeOK, GoTo
  <2>2. /\ step[r] = "none" /\ kind'[r] = "propose" /\ target'[r] = target[r] /\ step'[r] = "posting"
        /\ UNCHANGED <<inserted, lock>> /\ NothingCommitted /\ reply'[r] = reply[r]
    BY <1>1, <1>2, <1>3, <1>4 DEF BeginPropose, ServerTypeOK, GoTo
  <2>3. kind[r] = "none" /\ inserted[r] = 0 /\ reply[r] = "none" /\ ~HoldsRow(r)
    BY <1>1, <2>2 DEF RequestOK, ServerTypeOK, StepFitsKind, InsertedBy, HoldsRow
  <2>4. RequestOK(r)'
    BY <1>1, <2>2, <2>3 DEF RequestOK, StepFitsKind, InsertedBy, HoldsRow
  <2> QED BY <1>1, <2>1, <2>2, <2>3, <2>4, QuietStep
<1>5. ASSUME NEW p \in Requests, NEW what \in {"refine", "patch"}, BeginOn(r, what, p) PROVE ServerInv'
  <2>1. OnlyOf(r)
    BY <1>1, <1>3, <1>5 DEF BeginOn, OnlyOf, ServerTypeOK, GoTo
  <2>2. /\ step[r] = "none" /\ kind'[r] = what /\ target'[r] = p /\ step'[r] = "read" /\ stored[p] # None
        /\ UNCHANGED <<inserted, lock, stored>> /\ NothingCommitted /\ reply'[r] = reply[r]
    BY <1>1, <1>2, <1>3, <1>5 DEF BeginOn, ServerTypeOK, GoTo
  <2>3. kind[r] = "none" /\ inserted[r] = 0 /\ reply[r] = "none" /\ ~HoldsRow(r)
    BY <1>1, <2>2 DEF RequestOK, StepFitsKind, InsertedBy, HoldsRow
  <2>4. RequestOK(r)'
    BY <1>1, <2>2, <2>3 DEF RequestOK, StepFitsKind, InsertedBy, HoldsRow, Of, Analysing
  <2> QED BY <1>1, <2>1, <2>2, <2>3, <2>4, QuietStep
<1>6. ASSUME NEW there \in Step, GoTo(r, there), step[r] \in Step \ {"none", "done", "update", "addAssistant", "commit"},
             UNCHANGED <<kind, target, transaction, reply, proposals>>, \A q \in Requests \ {r} : base'[q] = base[q],
             there # "done", there # "none",
             there = "save" => kind[r] = "propose",
             there \in Analysing => kind[r] \in {"propose", "refine"},
             there \in {"read", "update"} => kind[r] = "patch",
             there \in {"list", "addUser", "insertUser"} => kind[r] = "refine",
             there = "addAssistant" => FALSE, there = "commit" => kind[r] = "propose",
             there = "read" => FALSE,
             kind[r] = "patch" /\ there = "update" => base'[r] # None
      PROVE  ServerInv'
  <2>1. OnlyOf(r)
    BY <1>1, <1>3, <1>6 DEF OnlyOf, ServerTypeOK, GoTo
  <2>2. /\ step'[r] = there /\ kind'[r] = kind[r] /\ target'[r] = target[r] /\ reply'[r] = reply[r]
        /\ UNCHANGED <<inserted, turn, lock, stored>> /\ NothingCommitted
    BY <1>1, <1>2, <1>3, <1>6 DEF ServerTypeOK, GoTo
  <2>3. kind[r] # "none" /\ inserted[r] = 0 /\ reply[r] = "none" /\ ~HoldsRow(r)
    BY <1>1, <1>6 DEF RequestOK, StepFitsKind, InsertedBy, HoldsRow
  <2>4. StepFitsKind(r)' /\ ~HoldsRow(r)' /\ InsertedBy(r)' = 0
    BY <1>6, <2>2, <2>3 DEF StepFitsKind, InsertedBy, HoldsRow
  <2>5. RequestOK(r)'
    BY <1>1, <1>6, <2>2, <2>3, <2>4 DEF RequestOK, Of
  <2> QED BY <1>1, <1>6, <2>1, <2>2, <2>3, <2>5, QuietStep
<1>7. CASE ReadProposal(r)
  <2> DEFINE there == IF kind[r] = "refine" THEN "list" ELSE "update"
  <2>1. step[r] = "read" /\ kind[r] \in {"refine", "patch"} /\ stored[Of(r)] # None /\ Of(r) \in Requests
    BY <1>1, <1>7 DEF ReadProposal, RequestOK, StepFitsKind, ServerTypeOK, Of
  <2>2. base'[r] # None /\ \A q \in Requests \ {r} : base'[q] = base[q]
    BY <1>1, <1>7, <2>1 DEF ReadProposal, ServerTypeOK
  <2> QED BY <1>6, <1>7, <2>1, <2>2, StepTypes DEF ReadProposal, Analysing
<1>8. CASE ListMessages(r)
  <2>1. step[r] = "list" /\ kind[r] = "refine" /\ UNCHANGED base
    BY <1>1, <1>8 DEF ListMessages, RequestOK, StepFitsKind
  <2> QED BY <1>6, <1>8, <2>1, StepTypes DEF ListMessages, Analysing
<1>9. CASE AskTools(r) \/ RunTools(r)
  <2>1. step[r] \in Analysing /\ kind[r] \in {"propose", "refine"} /\ UNCHANGED base
    BY <1>1, <1>9 DEF AskTools, RunTools, RequestOK, StepFitsKind, Analysing
  <2> QED BY <1>6, <1>9, <2>1, StepTypes DEF AskTools, RunTools, Analysing
<1>10. CASE ModelAnswers(r)
  <2>1. step[r] = "posting" /\ kind[r] \in {"propose", "refine"} /\ UNCHANGED base
    BY <1>1, <1>10 DEF ModelAnswers, RequestOK, StepFitsKind, Analysing
  <2> QED BY <1>6, <1>10, <2>1, StepTypes DEF ModelAnswers, Analysing
<1>11. CASE Save(r)
  <2>1. step[r] = "save" /\ kind[r] = "propose" /\ UNCHANGED base
    BY <1>1, <1>11 DEF Save, RequestOK, StepFitsKind
  <2> QED BY <1>6, <1>11, <2>1, StepTypes DEF Save, Analysing
<1>12. CASE RetryPost(r)
  <2>1. UNCHANGED <<kind, target, step, base, turn, inserted, reply, lock, stored, transcript, log>>
    BY <1>2, <1>3, <1>12 DEF RetryPost, NothingCommitted
  <2>2. step[r] = "posting" /\ inserted[r] = 0 /\ reply[r] = "none" /\ ~HoldsRow(r)
    BY <1>1, <1>12 DEF RetryPost, RequestOK, InsertedBy, HoldsRow
  <2>3. OnlyOf(r) /\ NothingCommitted
    BY <2>1 DEF OnlyOf, NothingCommitted
  <2>4. RequestOK(r)'
    BY <1>1, <2>1 DEF RequestOK, StepFitsKind, InsertedBy, HoldsRow, Of
  <2> QED BY <1>1, <2>1, <2>2, <2>3, <2>4, QuietStep
<1>13. CASE AddUser(r)
  <2>1. OnlyOf(r) /\ NothingCommitted
    BY <1>1, <1>2, <1>13 DEF AddUser, OnlyOf, ServerTypeOK, GoTo
  <2>2. /\ step[r] = "addUser" /\ step'[r] = "insertUser"
        /\ UNCHANGED <<kind, target, base, inserted, reply, lock, stored, transcript>>
    BY <1>1, <1>2, <1>13 DEF AddUser, GoTo, ServerTypeOK, NothingCommitted
  <2>3. inserted[r] = 0 /\ reply[r] = "none" /\ kind[r] = "refine"
    BY <1>1, <2>2 DEF RequestOK, StepFitsKind, InsertedBy
  <2>4. RequestOK(r)'
    BY <1>1, <2>2, <2>3 DEF RequestOK, StepFitsKind, InsertedBy, HoldsRow, Of, Analysing
  <2>5. ~HoldsRow(r)
    BY <2>2 DEF HoldsRow
  <2> QED BY <1>1, <2>1, <2>2, <2>3, <2>4, <2>5, QuietStep
<1>14. CASE AnalysisFails(r) \/ OutOfIterations(r) \/ Deadline(r) \/ TurnIsTaken(r)
  <2>1. /\ Fails(r) /\ UNCHANGED <<kind, target, base, inserted, proposals>>
        /\ step[r] \in {"posting", "tools", "insertUser"}
    BY <1>14 DEF AnalysisFails, OutOfIterations, Deadline, TurnIsTaken, Analysing
  <2>2. OnlyOf(r) /\ NothingCommitted /\ UNCHANGED <<lock, stored, transcript>>
    BY <1>1, <1>2, <2>1 DEF OnlyOf, ServerTypeOK, Fails, GoTo
  <2>3. step'[r] = "done" /\ reply'[r] = "error"
    BY <1>1, <2>1 DEF Fails, GoTo, ServerTypeOK
  <2>4. inserted[r] = 0 /\ kind[r] \in {"propose", "refine"} /\ ~HoldsRow(r)
    BY <1>1, <2>1 DEF RequestOK, StepFitsKind, InsertedBy, HoldsRow, Analysing
  <2>5. RequestOK(r)'
    BY <1>1, <2>1, <2>2, <2>3, <2>4 DEF RequestOK, StepFitsKind, InsertedBy, HoldsRow, Of, Analysing
  <2> QED BY <1>1, <2>1, <2>2, <2>3, <2>4, <2>5, QuietStep
<1> QED BY <1>4, <1>5, <1>7, <1>8, <1>9, <1>10, <1>11, <1>12, <1>13, <1>14 DEF ProviderStep

\* The steps of the write transaction before it commits
LEMMA WriteSteps ==
    ASSUME ServerInv, NEW r \in Requests, InsertUser(r) \/ Update(r) \/ AddAssistant(r)
    PROVE  ServerInv'
<1>1. ServerTypeOK /\ ServerTypeOK' /\ RequestOK(r) /\ LocksOK /\ OneWriter
  BY ServerTypes DEF ServerInv, ServerStep, OwnStep
<1>2. /\ OnlyOf(r) /\ NothingCommitted
      /\ UNCHANGED <<kind, target, base, turn, reply, stored, transcript, log>>
      /\ step[r] \in {"insertUser", "update", "addAssistant"}
  <2>1. CASE InsertUser(r)
    BY <1>1, <2>1 DEF InsertUser, OnlyOf, NothingCommitted, proposals, ServerTypeOK, GoTo
  <2>2. CASE Update(r)
    BY <1>1, <2>2 DEF Update, OnlyOf, NothingCommitted, transaction, ServerTypeOK, GoTo
  <2>3. CASE AddAssistant(r)
    BY <1>1, <2>3 DEF AddAssistant, OnlyOf, NothingCommitted, proposals, ServerTypeOK, GoTo
  <2> QED BY <2>1, <2>2, <2>3
<1>3. reply[r] = "none" /\ Of(r) \in Requests /\ None \notin Requests
  BY <1>1, <1>2, BoundsAssumption DEF RequestOK, ServerTypeOK, Of
<1>4. (\A p \in Requests : LogOK(p)') /\ TranscriptFollowsTheMapping' /\ RepliesAreTrue'
  BY <1>1, <1>2, <1>3, HistoryStays
<1>5. ASSUME NEW p \in Requests, lock[p] = r PROVE HoldsRow(r)
  BY <1>1, <1>3, <1>5 DEF LocksOK
<1>6. CASE InsertUser(r)
  <2>1. /\ step[r] = "insertUser" /\ step'[r] = "update" /\ inserted'[r] = 1 /\ UNCHANGED lock /\ TurnIsFree(r)
        /\ kind[r] = "refine" /\ ~HoldsRow(r)
    BY <1>1, <1>6 DEF InsertUser, proposals, GoTo, ServerTypeOK, RequestOK, StepFitsKind, HoldsRow
  <2>2. RequestOK(r)'
    BY <1>1, <1>2, <1>3, <2>1
       DEF RequestOK, StepFitsKind, InsertedBy, HoldsRow, Of, TurnIsFree, Analysing
  <2>3. \A q \in Requests \ {r} : RequestOK(q)'
    BY <1>2, <2>1, OthersStayOK
  <2>4. LocksOK'
    <3>1. ASSUME NEW p \in Requests, lock[p] # None
          PROVE  lock[p] \in Requests \ {r} /\ HoldsRow(lock[p]) /\ Of(lock[p]) = p
      BY <1>1, <1>5, <2>1, <3>1 DEF ServerTypeOK, LocksOK
    <3> QED BY <1>2, <2>1, <3>1 DEF LocksOK, OnlyOf, HoldsRow, Of
  <2>5. OneWriter'
    BY <1>1, <1>2, <2>1 DEF OneWriter, OnlyOf, TurnIsFree, Of
  <2> QED BY <1>1, <1>4, <2>2, <2>3, <2>4, <2>5 DEF ServerInv
<1>7. CASE Update(r)
  <2>1. /\ step[r] = "update" /\ step'[r] = (IF kind[r] = "refine" THEN "addAssistant" ELSE "commit")
        /\ UNCHANGED inserted /\ lock[Of(r)] = None /\ lock' = [lock EXCEPT ![Of(r)] = r]
        /\ kind[r] \in {"refine", "patch"} /\ ~HoldsRow(r)
    BY <1>1, <1>7 DEF Update, transaction, GoTo, ServerTypeOK, RequestOK, StepFitsKind, HoldsRow
  <2>2. lock'[Of(r)] = r /\ \A p \in Requests \ {Of(r)} : lock'[p] = lock[p]
    BY <1>1, <1>3, <2>1 DEF ServerTypeOK
  <2>3. RequestOK(r)'
    BY <1>1, <1>2, <1>3, <2>1, <2>2 DEF RequestOK, StepFitsKind, InsertedBy, HoldsRow, Of, Analysing
  <2>4. \A q \in Requests \ {r} : RequestOK(q)'
    <3>1. ASSUME NEW q \in Requests \ {r}, lock[Of(q)] = q PROVE lock'[Of(q)] = q
      <4>1. Of(q) \in Requests
        BY <1>1 DEF ServerTypeOK, Of
      <4> QED BY <1>3, <2>1, <2>2, <3>1, <4>1
    <3> QED BY <1>2, <3>1, OthersStayOK
  <2>5. LocksOK'
    <3>1. HoldsRow(r)' /\ Of(r)' = Of(r)
      BY <1>2, <2>1 DEF HoldsRow, Of
    <3>2. ASSUME NEW p \in Requests \ {Of(r)}, lock[p] # None
          PROVE  lock[p] \in Requests \ {r} /\ HoldsRow(lock[p]) /\ Of(lock[p]) = p
      BY <1>1, <1>5, <2>1, <3>2 DEF ServerTypeOK, LocksOK
    <3>3. ASSUME NEW q \in Requests \ {r} PROVE HoldsRow(q)' = HoldsRow(q) /\ Of(q)' = Of(q)
      BY <1>2 DEF OnlyOf, HoldsRow, Of
    <3>4. ASSUME NEW p \in Requests, NEW q \in Requests, lock'[p] = q PROVE HoldsRow(q)' /\ Of(q)' = p
      <4>1. CASE p = Of(r)
        BY <2>2, <3>1, <3>4, <4>1
      <4>2. CASE p # Of(r)
        BY <1>3, <2>2, <3>2, <3>3, <3>4, <4>2
      <4> QED BY <4>1, <4>2
    <3>5. \A p \in Requests : lock'[p] # None => lock'[p] \in Requests
      BY <1>1 DEF ServerTypeOK
    <3> QED BY <3>4, <3>5 DEF LocksOK, HoldsRow, Of
  <2>6. OneWriter'
    BY <1>1, <1>2, <2>1 DEF OneWriter, Of
  <2> QED BY <1>1, <1>4, <2>3, <2>4, <2>5, <2>6 DEF ServerInv
<1>8. CASE AddAssistant(r)
  <2>1. /\ step[r] = "addAssistant" /\ step'[r] = "commit" /\ inserted'[r] = 2 /\ UNCHANGED lock
        /\ kind[r] = "refine" /\ HoldsRow(r) /\ inserted[r] = 1
    BY <1>1, <1>8 DEF AddAssistant, proposals, GoTo, ServerTypeOK, RequestOK, StepFitsKind, HoldsRow, InsertedBy
  <2>2. RequestOK(r)'
    BY <1>1, <1>2, <1>3, <2>1 DEF RequestOK, StepFitsKind, InsertedBy, HoldsRow, Of, Analysing
  <2>3. \A q \in Requests \ {r} : RequestOK(q)'
    BY <1>2, <2>1, OthersStayOK
  <2>4. LocksOK'
    <3>1. ASSUME NEW q \in Requests, HoldsRow(q) PROVE HoldsRow(q)' /\ Of(q)' = Of(q)
      BY <1>2, <2>1, <3>1 DEF OnlyOf, HoldsRow, Of
    <3>2. \A p \in Requests : lock[p] # None => lock[p] \in Requests
      BY <1>1 DEF ServerTypeOK
    <3> QED BY <1>1, <2>1, <3>1, <3>2 DEF LocksOK
  <2>5. OneWriter'
    BY <1>1, <1>2, <2>1 DEF OneWriter, OnlyOf, Of
  <2> QED BY <1>1, <1>4, <2>2, <2>3, <2>4, <2>5 DEF ServerInv
<1> QED BY <1>6, <1>7, <1>8

\* What is left of the transaction of a request that ends it
Ended(r) ==
    /\ step'[r] = "done" /\ reply'[r] # "none"
    /\ lock' = Released(r) /\ inserted' = [inserted EXCEPT ![r] = 0]
    /\ UNCHANGED <<kind, target, base>>

LEMMA EndedTransaction ==
    ASSUME ServerInv, ServerTypeOK', NEW r \in Requests, OnlyOf(r), Ended(r),
           step[r] # "none" /\ step[r] # "done",
           \A p \in Requests : stored[p] # None => stored'[p] # None,
           \A p \in Requests : p # Of(r) => transcript'[p] = transcript[p],
           inserted[r] = 0 => UNCHANGED transcript,
           reply'[r] = "ok" /\ kind[r] = "patch" => base[r] # None
    PROVE  (\A q \in Requests : RequestOK(q)') /\ LocksOK' /\ OneWriter'
<1>1. ServerTypeOK /\ RequestOK(r) /\ LocksOK /\ OneWriter
  BY DEF ServerInv
<1>2. inserted'[r] = 0 /\ \A q \in Requests \ {r} : inserted'[q] = inserted[q]
  BY <1>1 DEF Ended, ServerTypeOK
<1>3. RequestOK(r)'
  BY <1>1, <1>2 DEF RequestOK, StepFitsKind, InsertedBy, HoldsRow, Of, Ended, Analysing
<1>4. ASSUME NEW q \in Requests \ {r} PROVE RequestOK(q)'
  <2>1. Of(q) \in Requests /\ q \in Requests
    BY <1>1 DEF ServerTypeOK, Of
  <2>2. lock[Of(q)] = q => lock'[Of(q)] = q
    BY <2>1 DEF Ended, Released
  <2>3. inserted[q] > 0 => transcript'[Of(q)] = transcript[Of(q)]
    <3>1. inserted[r] \in 0..2
      BY <1>1 DEF ServerTypeOK
    <3>2. inserted[q] > 0 /\ inserted[r] > 0 => Of(q) # Of(r)
      BY <1>1, <1>4 DEF OneWriter
    <3> QED BY <2>1, <3>1, <3>2
  <2> QED BY <2>1, <2>2, <2>3, OthersStayOK
<1>5. LocksOK'
  <2>1. ASSUME NEW p \in Requests, NEW q \in Requests, lock'[p] = q PROVE HoldsRow(q)' /\ Of(q)' = p
    <3>1. lock[p] = q /\ q # r
      BY <2>1, BoundsAssumption DEF Ended, Released
    <3> QED BY <1>1, <3>1, BoundsAssumption DEF LocksOK, OnlyOf, HoldsRow, Of
  <2>2. \A p \in Requests : lock'[p] # None => lock'[p] \in Requests
    BY DEF ServerTypeOK
  <2> QED BY <2>1, <2>2 DEF LocksOK, HoldsRow, Of
<1>6. OneWriter'
  BY <1>1, <1>2 DEF OneWriter, OnlyOf, Of, Ended
<1> QED BY <1>3, <1>4, <1>5, <1>6

\* The transaction is rolled back: the connection was lost before it committed
LEMMA RolledBack ==
    ASSUME ServerInv, NEW r \in Requests, ConnectionLost(r), NothingCommitted,
           lock' = Released(r), inserted' = [inserted EXCEPT ![r] = 0]
    PROVE  ServerInv'
<1>1. ServerTypeOK /\ ServerTypeOK'
  BY ServerTypes DEF ServerInv, ServerStep
<1>2. Fails(r) /\ UNCHANGED <<kind, target, base>> /\ step[r] \in Writing \cup {"read", "list"}
  BY DEF ConnectionLost
<1>3. OnlyOf(r) /\ step'[r] = "done" /\ reply'[r] = "error"
  BY <1>1, <1>2 DEF OnlyOf, Fails, GoTo, ServerTypeOK
<1>4. step[r] # "none" /\ step[r] # "done"
  BY <1>2 DEF Writing
<1>5. Ended(r)
  BY <1>2, <1>3 DEF Ended
<1>6. (\A q \in Requests : RequestOK(q)') /\ LocksOK' /\ OneWriter'
  BY <1>1, <1>3, <1>4, <1>5, EndedTransaction DEF NothingCommitted
<1>7. (\A p \in Requests : LogOK(p)') /\ TranscriptFollowsTheMapping' /\ RepliesAreTrue'
  BY <1>1, <1>3, <1>4, HistoryStays
<1> QED BY <1>1, <1>6, <1>7 DEF ServerInv

\* The transaction commits, and its answer is sent or lost
LEMMA CommitStep ==
    ASSUME ServerInv, ServerTypeOK', NEW r \in Requests, step[r] = "commit", Committed(r), OnlyOf(r), Ended(r)
    PROVE  ServerInv'
<1> DEFINE p0 == Of(r)
           old == Refinements(p0)
           last == Len(log[p0]) + 1
<1>1. ServerTypeOK /\ RequestOK(r) /\ TranscriptFollowsTheMapping /\ RepliesAreTrue /\ p0 \in Requests
      /\ \A p \in Requests : LogOK(p)
  BY DEF ServerInv, ServerTypeOK, Of
<1>2. /\ stored'[p0] = Written(r) /\ transcript'[p0] = transcript[p0] \o MessagesOf(r)
      /\ log'[p0] = Append(log[p0], r)
      /\ \A p \in Requests \ {p0} :
            stored'[p] = stored[p] /\ transcript'[p] = transcript[p] /\ log'[p] = log[p]
  <2> HIDE DEF old, last
  <2>1. /\ stored \in [Requests -> Proposal \cup {None}]
        /\ transcript \in [Requests -> Seq(Message)] /\ log \in [Requests -> Seq(Requests)]
    BY <1>1 DEF ServerTypeOK
  <2>2. /\ stored' = [stored EXCEPT ![p0] = Written(r)]
        /\ transcript' = [transcript EXCEPT ![p0] = @ \o MessagesOf(r)]
        /\ log' = [log EXCEPT ![p0] = Append(@, r)]
    BY DEF Committed
  <2> HIDE DEF p0
  <2> QED BY <1>1, <2>1, <2>2
<1>3. /\ Written(r) # None /\ Written(r).mapping = r
      /\ kind[r] = "refine" =>
            MessagesOf(r) = <<[by |-> r, role |-> "user", turn_index |-> turn[r]],
                              [by |-> r, role |-> "assistant", turn_index |-> turn[r] + 1]>>
      /\ kind[r] # "refine" => transcript'[p0] = transcript[p0]
  <2>1. transcript[p0] \in Seq(Message)
    BY <1>1 DEF ServerTypeOK
  <2>2. Written(r) # None
    BY CommitTypes, NoneAssumption
  <2>3. kind[r] # "refine" => MessagesOf(r) = <<>>
    BY CommitTypes
  <2>4. kind[r] # "refine" => transcript'[p0] = transcript[p0]
    <3> HIDE DEF p0
    <3> QED BY <1>2, <2>1, <2>3, ConcatEmptySeq
  <2>5. /\ Written(r).mapping = r
        /\ kind[r] = "refine" =>
              MessagesOf(r) = <<[by |-> r, role |-> "user", turn_index |-> turn[r]],
                                [by |-> r, role |-> "assistant", turn_index |-> turn[r] + 1]>>
    BY CommitTypes
  <2> QED BY <2>2, <2>4, <2>5
<1>4. step[r] # "done" /\ step'[r] = "done" /\ \A p \in Requests : \A i \in DOMAIN log[p] : log[p][i] # r
  BY <1>1 DEF LogOK, Ended
<1>5. ASSUME NEW p \in Requests
      PROVE  /\ log[p] \in Seq(Requests) /\ Len(log[p]) \in Nat /\ DOMAIN log[p] = 1..Len(log[p])
             /\ \A i \in DOMAIN log[p] : log[p][i] \in Requests \ {r}
  <2>1. log[p] \in Seq(Requests)
    BY <1>1 DEF ServerTypeOK
  <2>2. \A i \in DOMAIN log[p] : log[p][i] \in Requests
    BY <2>1
  <2> QED BY <1>4, <2>1, <2>2
<1>6. /\ DOMAIN log'[p0] = 1..last /\ Len(log'[p0]) = last /\ last \in Nat \ {0} /\ log'[p0][last] = r
      /\ DOMAIN log[p0] = 1..(last - 1)
      /\ \A i \in 1..(last - 1) : log'[p0][i] = log[p0][i]
  BY <1>1, <1>2, <1>5, AppendProperties
<1>7. (\A q \in Requests : RequestOK(q)') /\ LocksOK' /\ OneWriter'
  <2>1. \A p \in Requests : stored[p] # None => stored'[p] # None
    BY <1>2, <1>3
  <2>2. inserted[r] = 0 => UNCHANGED transcript
    <3>1. kind[r] # "refine" => \A p \in Requests : transcript'[p] = transcript[p]
      BY <1>2, <1>3
    <3>2. inserted[r] = 0 => kind[r] # "refine"
      BY <1>1 DEF RequestOK, InsertedBy
    <3>3. ServerTypeOK /\ ServerTypeOK'
      BY <1>1
    <3> QED BY <3>1, <3>2, <3>3 DEF ServerTypeOK
  <2>3. kind[r] = "patch" => base[r] # None
    BY <1>1 DEF RequestOK
  <2> QED BY <1>2, <1>4, <2>1, <2>2, <2>3, EndedTransaction
<1>8. ASSUME NEW p \in Requests PROVE LogOK(p)'
  <2>1. ASSUME NEW i \in DOMAIN log[p] PROVE step'[log[p][i]] = "done" /\ target'[log[p][i]] = p
    BY <1>1, <1>5, <2>1 DEF LogOK, OnlyOf, Of
  <2>2. CASE p # p0
    BY <1>2, <2>1, <2>2 DEF LogOK, Of
  <2>3. CASE p = p0
    <3>1. ASSUME NEW i \in 1..last PROVE step'[log'[p0][i]] = "done" /\ target'[log'[p0][i]] = p0
      <4>1. CASE i = last
        BY <1>4, <1>6, <4>1 DEF Ended, Of
      <4>2. CASE i # last
        <5>1. i \in 1..(last - 1)
          BY <1>6, <4>2
        <5> QED BY <1>6, <2>1, <2>3, <5>1
      <4> QED BY <4>1, <4>2
    <3> QED BY <1>6, <2>3, <3>1 DEF LogOK, Of
  <2> QED BY <2>2, <2>3
<1>9. RepliesAreTrue'
  <2>1. ASSUME NEW q \in Requests \ {r}
        PROVE  (\E i \in 1..Len(log'[Of(q)]) : log'[Of(q)][i] = q) <=> (\E i \in 1..Len(log[Of(q)]) : log[Of(q)][i] = q)
    <3>1. Of(q) \in Requests
      BY <1>1 DEF ServerTypeOK, Of
    <3>2. CASE Of(q) # p0
      BY <1>2, <3>1, <3>2
    <3>3. CASE Of(q) = p0
      <4>1. \A i \in 1..last : log'[p0][i] = q => i \in 1..(last - 1)
        BY <1>6
      <4>2. Len(log[p0]) = last - 1 /\ \A i \in 1..(last - 1) : i \in 1..last
        BY <1>5, <1>6
      <4> HIDE DEF last, p0
      <4> QED BY <1>6, <3>3, <4>1, <4>2
    <3> QED BY <3>2, <3>3
  <2>2. \A q \in Requests \ {r} : Of(q)' = Of(q) /\ reply'[q] = reply[q] /\ step'[q] = step[q]
    BY DEF OnlyOf, Of
  <2>3. \E i \in 1..Len(log'[p0]) : log'[p0][i] = r
    BY <1>6
  <2>4. Of(r)' = p0
    BY DEF Ended, Of
  <2> HIDE DEF p0
  <2> QED BY <1>1, <1>4, <2>1, <2>2, <2>3, <2>4 DEF RepliesAreTrue
<1>10. IsFiniteSet(old) /\ Cardinality(old) \in Nat
       /\ \A i \in old : LET before == {j \in old : j < i}
                         IN  Cardinality(before) \in Nat /\ Cardinality(before) < Cardinality(old)
  <2>1. old \in SUBSET (1..Len(log[p0])) /\ Len(log[p0]) \in Int /\ 1 \in Int
    BY <1>1, <1>5 DEF Refinements
  <2>2. IsFiniteSet(1..Len(log[p0]))
    BY <2>1, FS_Interval
  <2>3. IsFiniteSet(old) /\ Cardinality(old) \in Nat
    BY <2>1, <2>2, FS_Subset, FS_CardinalityType
  <2>4. ASSUME NEW i \in old
        PROVE  LET before == {j \in old : j < i}
               IN  Cardinality(before) \in Nat /\ Cardinality(before) < Cardinality(old)
    <3> DEFINE before == {j \in old : j < i}
    <3>1. before \in SUBSET old /\ i \notin before
      BY <2>1
    <3>2. before # old
      BY <3>1
    <3> HIDE DEF before, old
    <3>3. IsFiniteSet(before) /\ Cardinality(before) <= Cardinality(old) /\ Cardinality(before) # Cardinality(old)
      BY <2>3, <3>1, <3>2, FS_Subset
    <3>4. Cardinality(before) \in Nat
      BY <3>3, FS_CardinalityType
    <3>5. Cardinality(before) < Cardinality(old)
      BY <2>3, <3>3, <3>4
    <3> QED BY <3>4, <3>5 DEF before
  <2> QED BY <2>3, <2>4
<1>11. Refinements(p0)' = IF kind[r] = "refine" THEN old \cup {last} ELSE old
  <2>1. ASSUME NEW i \in 1..(last - 1) PROVE kind'[log'[p0][i]] = kind[log[p0][i]]
    BY <1>1, <1>5, <1>6 DEF OnlyOf
  <2>2. kind'[log'[p0][last]] = kind[r]
    BY <1>6 DEF Ended
  <2>3. old = {i \in 1..(last - 1) : kind[log[p0][i]] = "refine"}
    BY <1>6 DEF Refinements
  <2>4. Refinements(p0)' = {i \in 1..last : kind'[log'[p0][i]] = "refine"}
    BY <1>6 DEF Refinements, Ended, Of
  <2>5. 1..last = (1..(last - 1)) \cup {last}
    BY <1>6
  <2> HIDE DEF old, last
  <2> QED BY <2>1, <2>2, <2>3, <2>4, <2>5
<1>12. ASSUME NEW p \in Requests \ {p0} PROVE Refinements(p)' = Refinements(p)
  <2>1. \A i \in DOMAIN log[p] : kind'[log[p][i]] = kind[log[p][i]]
    BY <1>5 DEF OnlyOf
  <2> QED BY <1>2, <2>1 DEF Refinements
<1>13. transcript[p0] \in Seq(Message) /\ Len(transcript[p0]) = 2 * Cardinality(old)
       /\ Len(transcript[p0]) \in Nat
  BY <1>1, LenProperties DEF TranscriptFollowsTheMapping, Tells, Rank, ServerTypeOK
<1>14. ASSUME kind[r] = "refine"
       PROVE  /\ Len(transcript'[p0]) = 2 * Cardinality(old \cup {last})
              /\ \A i \in old \cup {last} :
                    LET n == 2 * Cardinality({j \in old \cup {last} : j < i}) IN
                    /\ transcript'[p0][n + 1] = [by |-> log'[p0][i], role |-> "user", turn_index |-> n]
                    /\ transcript'[p0][n + 2] =
                          [by |-> log'[p0][i], role |-> "assistant", turn_index |-> n + 1]
  <2> DEFINE size == Len(transcript[p0])
             new == transcript'[p0]
             told(i) == 2 * Cardinality({j \in old : j < i})
             user(i, by, messages) == messages[i + 1] = [by |-> by, role |-> "user", turn_index |-> i]
             assistant(i, by, messages) ==
               messages[i + 2] = [by |-> by, role |-> "assistant", turn_index |-> i + 1]
  <2>1. turn[r] = size /\ last \notin old
    BY <1>1, <1>6, <1>14 DEF RequestOK, InsertedBy, Refinements
  <2>2. /\ Len(new) = size + 2 /\ \A k \in 1..size : new[k] = transcript[p0][k]
        /\ user(size, r, new) /\ assistant(size, r, new)
    <3> DEFINE a == [by |-> r, role |-> "user", turn_index |-> turn[r]]
               b == [by |-> r, role |-> "assistant", turn_index |-> turn[r] + 1]
    <3>1. new = transcript[p0] \o <<a, b>>
      BY <1>2, <1>3, <1>14
    <3> HIDE DEF a, b
    <3>2. /\ Len(new) = size + 2 /\ \A k \in 1..size : new[k] = transcript[p0][k]
          /\ new[size + 1] = a /\ new[size + 2] = b
      BY SMTT(30), <1>13, <3>1
    <3> QED BY <2>1, <3>2 DEF a, b
  <2>3. ASSUME NEW i \in old
        PROVE  /\ user(told(i), log[p0][i], new) /\ assistant(told(i), log[p0][i], new)
               /\ {j \in old \cup {last} : j < i} = {j \in old : j < i}
    <3>1. user(told(i), log[p0][i], transcript[p0]) /\ assistant(told(i), log[p0][i], transcript[p0])
      BY <1>1, <2>3 DEF TranscriptFollowsTheMapping, Tells, Rank
    <3>2. told(i) + 1 \in 1..size /\ told(i) + 2 \in 1..size
      BY <1>10, <1>13, <2>3
    <3>3. {j \in old \cup {last} : j < i} = {j \in old : j < i}
      BY <1>6, <2>3 DEF Refinements
    <3> HIDE DEF told, new, size
    <3> QED BY <2>2, <3>1, <3>2, <3>3
  <2>4. {j \in old \cup {last} : j < last} = old
    BY <1>6, <2>1 DEF Refinements
  <2>5. Cardinality(old \cup {last}) = Cardinality(old) + 1
    <3> HIDE DEF old, last
    <3> QED BY <1>10, <2>1, FS_AddElement
  <2>6. Len(new) = 2 * Cardinality(old \cup {last})
    BY <1>10, <1>13, <2>2, <2>5
  <2>7. ASSUME NEW i \in old \cup {last}
        PROVE  LET n == 2 * Cardinality({j \in old \cup {last} : j < i})
               IN  user(n, log'[p0][i], new) /\ assistant(n, log'[p0][i], new)
    <3>1. CASE i = last
      BY <1>6, <1>13, <2>2, <2>4, <3>1
    <3>2. CASE i # last
      <4>1. i \in old /\ log'[p0][i] = log[p0][i]
        BY <1>6, <2>7, <3>2 DEF Refinements
      <4> HIDE DEF user, assistant, new, old, last
      <4> QED BY <2>3, <4>1
    <3> QED BY <3>1, <3>2
  <2> QED BY <2>6, <2>7
<1>15. ASSUME kind[r] # "refine"
       PROVE  /\ Len(transcript'[p0]) = 2 * Cardinality(old)
              /\ \A i \in old :
                    LET n == 2 * Cardinality({j \in old : j < i}) IN
                    /\ transcript'[p0][n + 1] = [by |-> log'[p0][i], role |-> "user", turn_index |-> n]
                    /\ transcript'[p0][n + 2] =
                          [by |-> log'[p0][i], role |-> "assistant", turn_index |-> n + 1]
  <2>1. \A i \in old : log'[p0][i] = log[p0][i]
    BY <1>6 DEF Refinements
  <2>2. Tells(transcript[p0], p0) /\ transcript'[p0] = transcript[p0]
    BY <1>1, <1>3, <1>15 DEF TranscriptFollowsTheMapping
  <2> HIDE DEF p0
  <2> QED BY <2>1, <2>2 DEF Tells, Rank
<1>16. ASSUME NEW p \in Requests
       PROVE  Tells(transcript[p], p)' /\ (stored'[p] = None) = (log'[p] = <<>>)
              /\ (log'[p] # <<>> => stored'[p].mapping = log'[p][Len(log'[p])])
  <2>1. CASE p = p0
    <3>1. stored'[p] # None /\ log'[p] # <<>> /\ stored'[p].mapping = log'[p][Len(log'[p])]
      BY <1>2, <1>3, <1>5, <1>6, <2>1
    <3>2. Refinements(p)' = IF kind[r] = "refine" THEN old \cup {last} ELSE old
      BY <1>11, <2>1 DEF Ended, Of
    <3>3. CASE kind[r] = "refine"
      <4> HIDE DEF old, last, p0
      <4> QED BY ZenonT(40), <1>14, <2>1, <3>1, <3>2, <3>3 DEF Tells, Rank
    <3>4. CASE kind[r] # "refine"
      <4> HIDE DEF old, last, p0
      <4> QED BY <1>15, <2>1, <3>1, <3>2, <3>4 DEF Tells, Rank
    <3> QED BY <3>3, <3>4
  <2>2. CASE p # p0
    <3>1. /\ Refinements(p)' = Refinements(p) /\ transcript'[p] = transcript[p] /\ log'[p] = log[p]
          /\ stored'[p] = stored[p]
      BY <1>2, <1>12, <2>2
    <3>2. /\ Tells(transcript[p], p) /\ (stored[p] = None) = (log[p] = <<>>)
          /\ log[p] # <<>> => stored[p].mapping = log[p][Len(log[p])]
      BY <1>1 DEF TranscriptFollowsTheMapping
    <3> QED BY <3>1, <3>2 DEF Tells, Rank
  <2> QED BY <2>1, <2>2
<1>17. TranscriptFollowsTheMapping'
  BY <1>16 DEF TranscriptFollowsTheMapping
<1> QED BY <1>1, <1>7, <1>8, <1>9, <1>17 DEF ServerInv

LEMMA ServerStepInv == ASSUME ServerInv, NEW r \in Requests, ServerStep(r) PROVE ServerInv'
<1>1. ServerTypeOK /\ ServerTypeOK'
  BY ServerTypes DEF ServerInv
<1>2. CASE Commit(r)
  <2>1. /\ step[r] = "commit" /\ Committed(r) /\ UNCHANGED <<kind, target, base>>
        /\ step' = [step EXCEPT ![r] = "done"] /\ reply' = [reply EXCEPT ![r] = "ok"]
        /\ turn' = [turn EXCEPT ![r] = 0]
    BY <1>2 DEF Commit, GoTo
  <2>2. OnlyOf(r) /\ Ended(r)
    BY <1>1, <2>1 DEF OnlyOf, Ended, Committed, ServerTypeOK
  <2> QED BY <1>1, <2>1, <2>2, CommitStep
<1>3. CASE ConnectionLost(r)
  <2>1. Fails(r) /\ UNCHANGED <<kind, target, base>>
    BY <1>3 DEF ConnectionLost
  <2>2. CASE step[r] = "commit" /\ Committed(r)
    <3>1. OnlyOf(r) /\ Ended(r)
      BY <1>1, <2>1, <2>2 DEF OnlyOf, Ended, Committed, Fails, GoTo, ServerTypeOK
    <3> QED BY <1>1, <2>2, <3>1, CommitStep
  <2>3. CASE NothingCommitted /\ lock' = Released(r) /\ inserted' = [inserted EXCEPT ![r] = 0]
    BY <1>3, <2>3, RolledBack
  <2> QED BY <1>3, <2>2, <2>3 DEF ConnectionLost, NothingCommitted
<1> QED BY <1>2, <1>3, QuietSteps, WriteSteps DEF ServerStep, OwnStep

LEMMA ServerStands == ServerInv /\ UNCHANGED server => ServerInv'
<1> SUFFICES ASSUME ServerInv, UNCHANGED server PROVE ServerInv'
  OBVIOUS
<1>1. /\ UNCHANGED <<kind, target, step, base, history, iteration, attempt, turn, inserted, reply>>
      /\ UNCHANGED <<stored, lock, transcript, log>>
  BY DEF server, conversation, transaction, proposals
<1>2. ServerTypeOK'
  BY <1>1 DEF ServerInv, ServerTypeOK
<1>3. (\A r \in Requests : RequestOK(r)') /\ (\A p \in Requests : LogOK(p)')
  BY <1>1 DEF ServerInv, RequestOK, StepFitsKind, InsertedBy, HoldsRow, Of, LogOK
<1>4. LocksOK' /\ OneWriter'
  BY <1>1 DEF ServerInv, LocksOK, OneWriter, HoldsRow, Of
<1>5. TranscriptFollowsTheMapping'
  BY SMTT(30), <1>1 DEF ServerInv, TranscriptFollowsTheMapping, Tells, Rank, Refinements
<1>6. RepliesAreTrue'
  BY <1>1 DEF ServerInv, RepliesAreTrue, Of
<1> QED BY <1>2, <1>3, <1>4, <1>5, <1>6 DEF ServerInv

--------------------------------------------------------------------------------
(* The page *)

\* What is in flight is for the file of the URL, as long as the user waits
PatientInv ==
    patient =>
        /\ proposalId # None => fileOf[proposalId] = file
        /\ mappingId # None => fileOf[mappingId] = file
        /\ pending["propose"] # None => fileOf[pending["propose"]] = file
        /\ pending["accept"] # None => fileOf[pending["accept"]] = file

PageTypes ==
    /\ file \in 1..MaxFiles
    /\ proposalId \in Requests \cup {None}
    /\ mappingId \in Requests \cup {None}
    /\ draft \in 0..MaxEdits
    /\ draftProposalId \in Requests \cup {None}
    /\ accepted \in Requests \cup {None}
    /\ data \in [Requests -> Proposal \cup {None}]
    /\ pending \in [Mutations -> Requests \cup {None}]
    /\ edits \in 0..MaxEdits
    /\ fileOf \in [Requests -> 0..MaxFiles]
    /\ patient \in BOOLEAN

\* What an answered write wrote is a proposal
AnswersTyped == \A r \in Requests : reply[r] = "ok" => Written(r) \in Proposal

Inv == ServerInv /\ PageTypes /\ PatientInv

LEMMA AnswersAreTyped == ServerInv => AnswersTyped
<1> SUFFICES ASSUME ServerInv, NEW r \in Requests, reply[r] = "ok" PROVE Written(r) \in Proposal
  BY DEF AnswersTyped
<1>1. RequestOK(r) /\ ServerTypeOK
  BY DEF ServerInv
<1> QED BY <1>1 DEF Written, Proposal, RequestOK, ServerTypeOK

LEMMA PageStep ==
    ASSUME Inv, PageNext \/ (\E r, p \in Requests : OtherRefines(r, p) \/ OtherPatches(r, p))
    PROVE  Inv'
<1> DEFINE mutations == {"propose", "patch", "refine", "accept"}
<1>1. ServerTypeOK /\ ServerInv /\ PageTypes /\ PatientInv /\ AnswersTyped /\ mutations = Mutations
  BY AnswersAreTyped DEF Inv, ServerInv, Mutations
<1>0. (Acts => patient' \in BOOLEAN) /\ file \in 0..MaxFiles
  <2>1. Acts => patient' \in BOOLEAN
    BY DEF Acts, Idle
  <2>2. file \in 0..MaxFiles
    BY <1>1, StudioAssumption DEF PageTypes
  <2> QED BY <2>1, <2>2
<1>2. CASE SelectFile
  <2>1. PageTypes'
    BY <1>1, <1>2, StudioAssumption DEF SelectFile, Synced, Acts, Idle, PageTypes
  <2>2. patient' => \A m \in Mutations : pending'[m] = None
    BY <1>2 DEF SelectFile, Acts, Idle
  <2>3. PatientInv'
    BY <1>1, <1>2, <2>2 DEF SelectFile, Synced, PatientInv
  <2> QED BY <1>1, <1>2, <2>1, <2>3, ServerStands DEF SelectFile, Inv
<1>3. ASSUME NEW r \in Requests, AskAssistant(r) PROVE Inv'
  <2>1. ServerInv'
    BY <1>1, <1>3, QuietSteps DEF AskAssistant
  <2>2. PageTypes'
    BY <1>1, <1>3 DEF AskAssistant, Sends, Acts, Idle, PageTypes, url, store
  <2>3. PatientInv'
    BY <1>1, <1>3 DEF AskAssistant, Sends, Acts, Idle, PageTypes, url, store, PatientInv
  <2> QED BY <2>1, <2>2, <2>3 DEF Inv
<1>4. ASSUME NEW r \in Requests, SaveEdits(r) \/ SendMessage(r) PROVE Inv'
  <2>1. /\ UNCHANGED <<file, proposalId, mappingId, draft, draftProposalId, accepted, data, edits, fileOf>>
        /\ Acts /\ (Sends("patch", r) \/ Sends("refine", r))
    BY <1>4 DEF SaveEdits, SendMessage, url, store
  <2>2. ServerInv'
    <3>1. proposalId \in Requests
      BY <1>1, <1>4 DEF SaveEdits, SendMessage, CanRefine, Shown, PageTypes
    <3> QED BY <1>1, <1>4, <3>1, QuietSteps DEF SaveEdits, SendMessage
  <2>3. PageTypes'
    BY <1>1, <2>1 DEF Sends, Acts, Idle, PageTypes
  <2>4. PatientInv'
    BY <1>1, <2>1 DEF Sends, Acts, Idle, PageTypes, PatientInv
  <2> QED BY <2>2, <2>3, <2>4 DEF Inv
<1>5. CASE EditField
  <2>1. PageTypes'
    <3>1. patient' \in BOOLEAN /\ edits + 1 \in 0..MaxEdits
      BY <1>0, <1>1, <1>5, StudioAssumption DEF EditField, PageTypes
    <3> QED BY <1>1, <1>5, <3>1 DEF EditField, PageTypes, url
  <2>2. PatientInv'
    BY <1>1, <1>5 DEF EditField, Acts, Idle, PageTypes, PatientInv, url
  <2>3. UNCHANGED server
    BY <1>5 DEF EditField
  <2> QED BY <1>1, <2>1, <2>2, <2>3, ServerStands DEF Inv
<1>6. CASE AcceptMapping
  <2>1. Shown.mapping \in Requests
    BY <1>1, <1>6 DEF AcceptMapping, CanAccept, Shown, PageTypes, Proposal
  <2> HIDE DEF mutations
  <2>2. PageTypes'
    <3>1. UNCHANGED <<file, proposalId, mappingId, draft, draftProposalId, accepted, data, edits>>
      BY <1>6 DEF AcceptMapping, url, store
    <3>2. patient' \in BOOLEAN
      BY <1>0, <1>6 DEF AcceptMapping
    <3>3. fileOf' \in [Requests -> 0..MaxFiles]
      BY <1>0, <1>1, <1>6 DEF AcceptMapping, PageTypes
    <3>4. pending' \in [Mutations -> Requests \cup {None}]
      BY <1>1, <1>6, <2>1 DEF AcceptMapping, Sends, PageTypes
    <3> QED BY <1>1, <3>1, <3>2, <3>3, <3>4 DEF PageTypes
  <2>3. PatientInv'
    BY <1>1, <1>6, <2>1 DEF AcceptMapping, Sends, Acts, Idle, PageTypes, PatientInv, url, store
  <2> QED BY <1>1, <1>6, <2>2, <2>3, ServerStands DEF AcceptMapping, Inv
<1>7. ASSUME NEW m \in Mutations, MutationFails(m) PROVE Inv'
  <2>1. PageTypes'
    BY <1>1, <1>7 DEF MutationFails, Settled, PageTypes, url, store
  <2>2. PatientInv'
    BY <1>1, <1>7 DEF MutationFails, Settled, PageTypes, PatientInv, url, store
  <2> QED BY <1>1, <1>7, <2>1, <2>2, ServerStands DEF MutationFails, Inv
<1>8. ASSUME NEW r \in Requests, reply[r] = "ok", Answered(r)
      PROVE  data' \in [Requests -> Proposal \cup {None}]
  BY <1>1, <1>8 DEF Answered, AnswersTyped, PageTypes
<1>9. CASE ProposeArrives
  <2> DEFINE r == pending["propose"]
  <2>1. r \in Requests /\ reply[r] = "ok" /\ Answered(r) /\ UNCHANGED server
    BY <1>1, <1>9 DEF ProposeArrives, PageTypes
  <2>2. PageTypes'
    BY <1>1, <1>8, <1>9, <2>1, StudioAssumption DEF ProposeArrives, Settled, Synced, PageTypes
  <2>3. PatientInv'
    BY <1>1, <1>9, <2>1 DEF ProposeArrives, Settled, Synced, PageTypes, PatientInv
  <2> QED BY <1>1, <2>1, <2>2, <2>3, ServerStands DEF Inv
<1>10. CASE PatchArrives \/ RefineArrives
  <2>1. PICK m \in {"patch", "refine"} :
           /\ pending[m] # None /\ reply[pending[m]] = "ok" /\ Answered(pending[m]) /\ Settled(m)
           /\ UNCHANGED <<file, proposalId, mappingId, draftProposalId, accepted, edits, fileOf, patient>>
           /\ draft' \in {draft, 0} /\ UNCHANGED server
    BY <1>10 DEF PatchArrives, RefineArrives, url, store
  <2>2. pending[m] \in Requests
    BY <1>1, <2>1 DEF PageTypes
  <2>3. PageTypes'
    BY <1>1, <1>8, <2>1, <2>2, StudioAssumption DEF Settled, PageTypes
  <2>4. PatientInv'
    BY <1>1, <2>1 DEF Settled, PageTypes, PatientInv
  <2> QED BY <1>1, <2>1, <2>3, <2>4, ServerStands DEF Inv
<1>11. CASE AcceptArrives
  <2>1. PageTypes'
    BY <1>1, <1>11 DEF AcceptArrives, Settled, PageTypes
  <2>2. PatientInv'
    BY <1>1, <1>11 DEF AcceptArrives, Settled, PageTypes, PatientInv
  <2> QED BY <1>1, <1>11, <2>1, <2>2, ServerStands DEF AcceptArrives, Inv
<1>12. ASSUME NEW r \in Requests, NEW p \in Requests, OtherRefines(r, p) \/ OtherPatches(r, p) PROVE Inv'
  <2>1. ServerInv'
    BY <1>1, <1>12, QuietSteps DEF OtherRefines, OtherPatches
  <2>2. UNCHANGED <<file, proposalId, mappingId, draft, draftProposalId, accepted, data, pending, edits, fileOf, patient>>
    BY <1>12 DEF OtherRefines, OtherPatches, page, url, store
  <2> QED BY <1>1, <2>1, <2>2 DEF Inv, PageTypes, PatientInv
<1> QED BY <1>2, <1>3, <1>4, <1>5, <1>6, <1>7, <1>9, <1>10, <1>11, <1>12 DEF PageNext

LEMMA InitInv == Init => Inv
<1> SUFFICES ASSUME Init PROVE Inv
  OBVIOUS
<1>1. ServerInv
  BY InitServer DEF Init
<1>2. 1 \in 1..MaxFiles /\ 0 \in 0..MaxFiles /\ 0 \in 0..MaxEdits
  BY StudioAssumption
<1>3. PageTypes
  BY <1>2 DEF Init, PageTypes
<1>4. PatientInv
  BY DEF Init, PatientInv, Mutations
<1> QED BY <1>1, <1>3, <1>4 DEF Inv

LEMMA NextInv == Inv /\ [Next]_vars => Inv'
<1> SUFFICES ASSUME Inv, [Next]_vars PROVE Inv'
  OBVIOUS
<1>1. ASSUME UNCHANGED page PROVE PageTypes' /\ PatientInv'
  BY <1>1 DEF page, url, store, Inv, PageTypes, PatientInv
<1>2. ASSUME NEW r \in Requests, ServerStep(r), UNCHANGED page PROVE Inv'
  BY <1>1, <1>2, ServerStepInv DEF Inv
<1>3. CASE UNCHANGED vars
  BY <1>1, <1>3, ServerStands DEF Inv, vars
<1> QED BY <1>2, <1>3, PageStep DEF Next

--------------------------------------------------------------------------------
(* The theorems *)

\* Program counters, replies, row locks, turns and committed writes fit together.
THEOREM StudioInvariant == Spec => []Inv
BY InitInv, NextInv, PTL DEF Spec

\* Every variable of the server and of the page keeps its type.
THEOREM TypeCorrect == Spec => []TypeOK
<1>1. Inv => TypeOK
  BY DEF Inv, ServerInv, PageTypes, TypeOK
<1> QED BY <1>1, StudioInvariant, PTL

\* The stored mapping is that of the last committed write, and the conversation is that of
\* the refinements among these writes, whichever cross each other (sql.py:710).
THEOREM ConversationsFollow == Spec => []TranscriptFollowsTheMapping
<1>1. Inv => TranscriptFollowsTheMapping
  BY DEF Inv, ServerInv
<1> QED BY <1>1, StudioInvariant, PTL

\* An answered request was committed, and one that is under way has left nothing.
THEOREM RepliesAreKept == Spec => []RepliesAreTrue
<1>1. Inv => RepliesAreTrue
  BY DEF Inv, ServerInv
<1> QED BY <1>1, StudioInvariant, PTL

\* For a user who waits, the proposal on display and the accepted mapping are of the file
\* of the URL (ImportAssistantPage.tsx).
THEOREM PagesStayWithTheirFile == Spec => []PatientStaysWithTheFile
<1>1. Inv => PatientStaysWithTheFile
  BY DEF Inv, PatientInv, PatientStaysWithTheFile
<1> QED BY <1>1, StudioInvariant, PTL

--------------------------------------------------------------------------------
(* The refinements of a conversation, counted *)

\* Ranks number a finite set of positions, in their order and without a gap
LEMMA Ranks ==
    ASSUME NEW R, NEW len \in Nat, R \subseteq 1..len
    PROVE  /\ IsFiniteSet(R) /\ Cardinality(R) \in Nat
           /\ \A i \in R : Rank(R, i) \in 0..(Cardinality(R) - 1)
           /\ \A i, j \in R : i < j => Rank(R, i) < Rank(R, j)
           /\ \A k \in 0..(Cardinality(R) - 1) : \E i \in R : Rank(R, i) = k
<1> DEFINE before(i) == {j \in R : j < i}
           N == Cardinality(R)
<1>1. IsFiniteSet(R) /\ N \in Nat
  <2>1. IsFiniteSet(1..len)
    <3>1. 1 \in Int /\ len \in Int
      OBVIOUS
    <3> QED BY <3>1, FS_Interval
  <2> QED BY <2>1, FS_Subset, FS_CardinalityType
<1>2. \A i \in R : IsFiniteSet(before(i)) /\ Cardinality(before(i)) \in Nat
  <2>1. ASSUME NEW i \in R PROVE IsFiniteSet(before(i)) /\ Cardinality(before(i)) \in Nat
    <3>1. before(i) \in SUBSET R
      OBVIOUS
    <3> HIDE DEF before
    <3> QED BY <1>1, <3>1, FS_Subset, FS_CardinalityType
  <2> QED BY <2>1
<1>3. ASSUME NEW S, NEW T, IsFiniteSet(T), S \subseteq T, S # T
      PROVE  Cardinality(S) < Cardinality(T)
  <2>1. IsFiniteSet(S) /\ Cardinality(S) <= Cardinality(T) /\ Cardinality(S) # Cardinality(T)
    BY <1>3, FS_Subset
  <2>2. Cardinality(S) \in Nat /\ Cardinality(T) \in Nat
    BY <1>3, <2>1, FS_CardinalityType
  <2> QED BY <2>1, <2>2
<1>4. ASSUME NEW i \in R PROVE Rank(R, i) \in 0..(N - 1)
  <2>1. before(i) \subseteq R /\ i \notin before(i)
    OBVIOUS
  <2>2. before(i) # R
    BY <1>4, <2>1
  <2>3. Cardinality(before(i)) < N
    <3> HIDE DEF before
    <3> QED BY <1>1, <1>3, <2>1, <2>2
  <2> QED BY <1>1, <1>2, <2>3 DEF Rank
<1>5. ASSUME NEW i \in R, NEW j \in R, i < j PROVE Rank(R, i) < Rank(R, j)
  <2>1. before(i) \subseteq before(j)
    <3>1. \A k \in R : k \in Int
      OBVIOUS
    <3>2. \A k \in R : k < i => k < j
      BY <1>5, <3>1
    <3> QED BY <3>2
  <2>2. i \in before(j) /\ i \notin before(i)
    BY <1>5
  <2>3. before(i) # before(j)
    <3> HIDE DEF before
    <3> QED BY <2>2
  <2>4. Cardinality(before(i)) < Cardinality(before(j))
    <3> HIDE DEF before
    <3> QED BY <1>2, <1>3, <2>1, <2>3
  <2> QED BY <2>4 DEF Rank
<1>6. ASSUME NEW k \in 0..(N - 1) PROVE \E i \in R : Rank(R, i) = k
  <2> DEFINE ranks == {Rank(R, i) : i \in R}
             f == [i \in R |-> Rank(R, i)]
  <2>1. f \in Surjection(R, ranks)
    BY DEF Surjection
  <2>2. \A i, j \in R : f[i] = f[j] => i = j
    <3>1. \A i, j \in R : i # j => Rank(R, i) # Rank(R, j)
      <4>1. ASSUME NEW i \in R, NEW j \in R, i # j PROVE Rank(R, i) # Rank(R, j)
        <5>1. i < j \/ j < i
          BY <4>1
        <5>2. Rank(R, i) \in Nat /\ Rank(R, j) \in Nat
          BY <1>1, <1>4
        <5> QED BY <1>5, <5>1, <5>2
      <4> QED BY <4>1
    <3> QED BY <3>1
  <2>3. f \in Injection(R, ranks)
    <3> HIDE DEF f
    <3> QED BY <2>1, <2>2, Fun_IsInj, Fun_SurjectionProperties
  <2>4. Cardinality(ranks) = N
    <3> HIDE DEF f, ranks
    <3> QED BY <1>1, <2>1, <2>3, FS_Surjection
  <2>5. ranks \subseteq 0..(N - 1)
    BY <1>4
  <2>6. IsFiniteSet(0..(N - 1)) /\ Cardinality(0..(N - 1)) = N
    <3>1. 0 \in Int /\ N - 1 \in Int
      BY <1>1
    <3>2. IsFiniteSet(0..(N - 1)) /\ Cardinality(0..(N - 1)) = IF 0 > N - 1 THEN 0 ELSE N - 1 - 0 + 1
      <4> HIDE DEF N
      <4> QED BY <3>1, FS_Interval
    <3> QED BY <1>1, <3>2
  <2>7. ranks = 0..(N - 1)
    <3> HIDE DEF ranks, N
    <3> QED BY <2>4, <2>5, <2>6, FS_Subset
  <2> QED BY <1>6, <2>7
<1> QED BY <1>1, <1>4, <1>5, <1>6


--------------------------------------------------------------------------------
(* What list_messages returns *)

\* A refinement that wrote a proposal is listed, or the list is full of later ones
Covers(listed, p, by) ==
    /\ \A q \in listed : \E j \in DOMAIN log[p] : log[p][j] = q
    /\ kind[by] = "refine" =>
          \/ by \in listed
          \/ /\ Cardinality(listed) = MaxTurns
             /\ \A q \in listed : \A i, j \in DOMAIN log[p] : log[p][i] = by /\ log[p][j] = q => j > i

\* Nobody writes twice
NoRepeat(p) == \A i, j \in DOMAIN log[p] : log[p][i] = log[p][j] => i = j

\* list_messages covers every mapping that was written before it reads
LEMMA RecentCovers ==
    ASSUME NEW p \in Requests, log[p] \in Seq(Requests), transcript[p] \in Seq(Message), NoRepeat(p),
           Tells(transcript[p], p), NEW by \in Requests, \E i \in DOMAIN log[p] : log[p][i] = by
    PROVE  Covers(Listed(RecentMessages(transcript[p])), p, by)
<1> DEFINE R == Refinements(p)
           N == Cardinality(R)
           recent == RecentMessages(transcript[p])
           listed == {recent[i].by : i \in 1..Len(recent)}
           skipped == IF N > MaxTurns THEN N - MaxTurns ELSE 0
           at(k) == transcript[p][k]
<1>1. /\ DOMAIN log[p] = 1..Len(log[p]) /\ Len(log[p]) \in Nat /\ R \subseteq 1..Len(log[p])
      /\ \A i \in DOMAIN log[p] : log[p][i] \in Requests
  <2>1. DOMAIN log[p] = 1..Len(log[p]) /\ Len(log[p]) \in Nat /\ \A i \in DOMAIN log[p] : log[p][i] \in Requests
    BY LenProperties, ElementOfSeq
  <2> QED BY <2>1 DEF Refinements
<1>2. /\ IsFiniteSet(R) /\ N \in Nat
      /\ \A i \in R : Rank(R, i) \in 0..(N - 1)
      /\ \A i, j \in R : i < j => Rank(R, i) < Rank(R, j)
      /\ \A k \in 0..(N - 1) : \E i \in R : Rank(R, i) = k
  BY <1>1, Ranks
<1>3. /\ Len(transcript[p]) = 2 * N
      /\ \A i \in R : at(2 * Rank(R, i) + 1).by = log[p][i] /\ at(2 * Rank(R, i) + 2).by = log[p][i]
  <2>1. Len(transcript[p]) = 2 * N
    BY DEF Tells
  <2>2. ASSUME NEW i \in R
        PROVE  at(2 * Rank(R, i) + 1).by = log[p][i] /\ at(2 * Rank(R, i) + 2).by = log[p][i]
    <3> DEFINE n == 2 * Rank(R, i)
    <3>1. /\ at(n + 1) = [by |-> log[p][i], role |-> "user", turn_index |-> n]
          /\ at(n + 2) = [by |-> log[p][i], role |-> "assistant", turn_index |-> n + 1]
      BY DEF Tells
    <3> HIDE DEF n
    <3>2. at(n + 1).by = log[p][i] /\ at(n + 2).by = log[p][i]
      BY <3>1
    <3> QED BY <3>2 DEF n
  <2> QED BY <2>1, <2>2
<1>4. skipped \in 0..N /\ (skipped = 0 \/ (N > MaxTurns /\ N - skipped = MaxTurns)) /\ MaxTurns \in Nat \ {0}
  BY <1>2, BoundsAssumption
<1>5. Len(recent) = 2 * (N - skipped) /\ \A k \in 1..(2 * (N - skipped)) : recent[k] = at(2 * skipped + k)
  <2> DEFINE from == 2 * skipped + 1
  <2>1. recent = SubSeq(transcript[p], from, 2 * N)
    <3> HIDE DEF N, R
    <3> QED BY <1>2, <1>3, <1>4 DEF RecentMessages
  <2>2. transcript[p] \in Seq(Message)
    OBVIOUS
  <2> HIDE DEF R, recent, skipped, N
  <2>3. from \in Nat \ {0} /\ 2 * N \in Nat
    BY <1>2, <1>4
  <2> QED BY <1>2, <1>3, <1>4, <2>1, <2>2, <2>3, SubSeqProperties
<1> HIDE DEF recent, R, N, skipped
<1>6. ASSUME NEW i \in R, Rank(R, i) >= skipped PROVE log[p][i] \in listed
  <2> DEFINE k == 2 * (Rank(R, i) - skipped) + 1
  <2>1. k \in 1..(2 * (N - skipped)) /\ 2 * skipped + k = 2 * Rank(R, i) + 1
    BY SMTT(30), <1>2, <1>4, <1>6
  <2>2. recent[k].by = log[p][i] /\ k \in 1..Len(recent)
    BY <1>3, <1>5, <2>1
  <2> HIDE DEF k
  <2> QED BY <2>2
<1>7. ASSUME NEW q \in listed PROVE \E i \in R : log[p][i] = q /\ Rank(R, i) >= skipped
  <2>1. PICK k \in 1..(2 * (N - skipped)) : q = at(2 * skipped + k).by
    BY <1>5
  <2> DEFINE turns == IF k % 2 = 1 THEN (k - 1) \div 2 ELSE (k - 2) \div 2
  <2>2. turns \in 0..(N - skipped - 1) /\ (k = 2 * turns + 1 \/ k = 2 * turns + 2)
    BY SMTT(30), <1>2, <1>4
  <2>3. skipped + turns \in 0..(N - 1)
    BY <1>2, <1>4, <2>2
  <2>4. PICK i \in R : Rank(R, i) = skipped + turns
    BY <1>2, <2>3
  <2>5. 2 * skipped + k = 2 * Rank(R, i) + 1 \/ 2 * skipped + k = 2 * Rank(R, i) + 2
    <3>1. skipped \in Int /\ turns \in Int /\ Rank(R, i) = skipped + turns
      BY <1>4, <2>2, <2>4
    <3> HIDE DEF turns
    <3> QED BY SMTT(30), <2>2, <3>1
  <2>6. q = log[p][i]
    BY <1>3, <2>1, <2>5
  <2> QED BY <1>4, <2>2, <2>4, <2>6
<1>8. \A q \in listed : \E j \in DOMAIN log[p] : log[p][j] = q
  BY <1>1, <1>7
<1>9. ASSUME kind[by] = "refine", by \notin listed
      PROVE  /\ Cardinality(listed) = MaxTurns
             /\ \A q \in listed : \A i, j \in DOMAIN log[p] : log[p][i] = by /\ log[p][j] = q => j > i
  <2>1. PICK i \in R : log[p][i] = by
    <3>1. PICK i \in DOMAIN log[p] : log[p][i] = by
      OBVIOUS
    <3> QED BY <1>9, <3>1 DEF R, Refinements
  <2>2. Rank(R, i) < skipped /\ Rank(R, i) \in 0..(N - 1)
    BY SMTT(30), <1>2, <1>4, <1>6, <1>9, <2>1
  <2>3. N - skipped = MaxTurns
    BY <1>4, <2>2
  <2>4. Cardinality(listed) = MaxTurns
    <3> DEFINE late == skipped..(N - 1)
               f == [k \in late |-> log[p][CHOOSE j \in R : Rank(R, j) = k]]
    <3>1. \A k \in late : (CHOOSE j \in R : Rank(R, j) = k) \in R
                          /\ Rank(R, CHOOSE j \in R : Rank(R, j) = k) = k
      BY <1>2, <1>4
    <3>2. ASSUME NEW k \in late PROVE f[k] \in listed /\ \A i0 \in R : log[p][i0] = f[k] => Rank(R, i0) = k
      <4>1. PICK j \in R : f[k] = log[p][j] /\ Rank(R, j) = k
        BY <3>1
      <4>2. k >= skipped
        BY <1>2, <1>4
      <4> QED BY <1>1, <1>6, <4>1, <4>2 DEF NoRepeat
    <3>3. \A k, m \in late : f[k] = f[m] => k = m
      <4>1. \A k \in late : \E j \in R : f[k] = log[p][j]
        BY <3>1
      <4> HIDE DEF f, late
      <4> QED BY <3>2, <4>1
    <3>4. \A q \in listed : \E k \in late : f[k] = q
      <4>1. ASSUME NEW q \in listed PROVE \E k \in late : f[k] = q
        <5>1. PICK j \in R : log[p][j] = q /\ Rank(R, j) >= skipped
          BY <1>7
        <5>2. Rank(R, j) \in late
          BY <1>2, <1>4, <5>1
        <5>3. f[Rank(R, j)] = q
          <6>1. PICK m \in R : f[Rank(R, j)] = log[p][m] /\ Rank(R, m) = Rank(R, j)
            BY <3>1, <5>2
          <6>2. ~(m < j) /\ ~(j < m)
            BY <1>2, <6>1
          <6> QED BY <1>1, <5>1, <6>1, <6>2
        <5> QED BY <5>2, <5>3
      <4> QED BY <4>1
    <3>5. f \in Surjection(late, listed) /\ f \in Injection(late, listed)
      <4>1. f \in [late -> listed]
        BY <3>2
      <4> HIDE DEF f, late, listed
      <4> QED BY <3>3, <3>4, <4>1, Fun_IsInj, Fun_IsSurj
    <3>6. IsFiniteSet(late) /\ Cardinality(late) = MaxTurns
      <4>1. skipped \in Int /\ N - 1 \in Int
        BY <1>2, <1>4
      <4>2. IsFiniteSet(late) /\ Cardinality(late) = IF skipped > N - 1 THEN 0 ELSE N - 1 - skipped + 1
        BY <4>1, FS_Interval
      <4> QED BY <1>2, <1>4, <2>3, <4>2
    <3> HIDE DEF f, late, listed
    <3> QED BY <3>5, <3>6, FS_Surjection
  <2>5. ASSUME NEW q \in listed, NEW a \in DOMAIN log[p], NEW b \in DOMAIN log[p], log[p][a] = by, log[p][b] = q
        PROVE  b > a
    <3>1. PICK j \in R : log[p][j] = q /\ Rank(R, j) >= skipped
      BY <1>7
    <3>2. a = i /\ b = j
      BY <1>1, <2>1, <2>5, <3>1 DEF NoRepeat
    <3>3. ~(j < i) /\ j # i
      BY SMTT(30), <1>2, <1>4, <2>2, <3>1
    <3> QED BY <1>1, <3>2, <3>3
  <2> QED BY <2>4, <2>5
<1>10. listed = Listed(RecentMessages(transcript[p]))
  BY DEF Listed, recent
<1> HIDE DEF listed
<1>11. Covers(listed, p, by)
  BY <1>8, <1>9 DEF Covers
<1> QED BY <1>10, <1>11

--------------------------------------------------------------------------------
(* What a refinement has read stays covered *)

\* A refinement has read a mapping that was written, and is told of it
Told(r) ==
    kind[r] = "refine" /\ step[r] \in {"list"} \cup Analysing =>
        /\ \E i \in DOMAIN log[Of(r)] : log[Of(r)][i] = base[r].mapping
        /\ step[r] \in Analysing => Covers(Listed(history[r]), Of(r), base[r].mapping)

PromptInv == (\A r \in Requests : Told(r)) /\ (\A p \in Requests : NoRepeat(p))

\* A step of r leaves alone what the others have read, and appends r at most to a log
MovesOnly(r) ==
    /\ step[r] # "done"
    /\ \A q \in Requests \ {r} :
          /\ kind'[q] = kind[q] /\ target'[q] = target[q] /\ step'[q] = step[q]
          /\ base'[q] = base[q] /\ history'[q] = history[q]
    /\ \A p \in Requests : log'[p] = log[p] \/ log'[p] = Append(log[p], r)

LEMMA StepMoves ==
    ASSUME ServerInv, NEW r \in Requests,
           BeginPropose(r) \/ (\E p \in Requests, what \in {"refine", "patch"} : BeginOn(r, what, p))
             \/ ServerStep(r)
    PROVE  MovesOnly(r)
<1>1. ServerTypeOK
  BY DEF ServerInv
<1>2. ASSUME UNCHANGED proposals PROVE UNCHANGED log
  BY <1>2 DEF proposals
<1>3. ASSUME UNCHANGED conversation PROVE UNCHANGED history
  BY <1>3 DEF conversation
<1>4. ASSUME Forgotten(r) PROVE \A q \in Requests \ {r} : history'[q] = history[q]
  BY <1>1, <1>4 DEF Forgotten, ServerTypeOK
<1>5. ASSUME Committed(r) PROVE \A p \in Requests : log'[p] = log[p] \/ log'[p] = Append(log[p], r)
  BY <1>1, <1>5 DEF Committed, ServerTypeOK
<1>6. CASE BeginPropose(r) \/ \E p \in Requests, what \in {"refine", "patch"} : BeginOn(r, what, p)
  BY SMTT(30), <1>1, <1>2, <1>3, <1>6 DEF BeginPropose, BeginOn, GoTo, MovesOnly, ServerTypeOK
<1>7. CASE ReadProposal(r) \/ AddUser(r) \/ InsertUser(r) \/ AddAssistant(r) \/ Save(r)
  BY <1>1, <1>2, <1>3, <1>7
     DEF ReadProposal, AddUser, InsertUser, AddAssistant, Save, GoTo, MovesOnly, ServerTypeOK
<1>8. CASE ListMessages(r) \/ RetryPost(r) \/ AskTools(r) \/ RunTools(r)
  BY <1>1, <1>2, <1>8 DEF ListMessages, RetryPost, AskTools, RunTools, GoTo, MovesOnly, ServerTypeOK
<1>9. CASE ModelAnswers(r)
  BY <1>1, <1>2, <1>4, <1>9 DEF ModelAnswers, GoTo, MovesOnly, ServerTypeOK
<1>10. CASE AnalysisFails(r) \/ OutOfIterations(r) \/ Deadline(r) \/ TurnIsTaken(r)
  BY <1>1, <1>2, <1>4, <1>10
     DEF AnalysisFails, OutOfIterations, Deadline, TurnIsTaken, Fails, GoTo, MovesOnly, ServerTypeOK, Analysing
<1>11. CASE Update(r)
  BY <1>1, <1>3, <1>11 DEF Update, GoTo, MovesOnly, ServerTypeOK
<1>12. CASE Commit(r)
  BY <1>1, <1>3, <1>5, <1>12 DEF Commit, GoTo, MovesOnly, ServerTypeOK
<1>13. CASE ConnectionLost(r)
  <2>1. Fails(r) /\ UNCHANGED <<kind, target, base>> /\ step[r] # "done"
        /\ (Committed(r) \/ UNCHANGED log)
    BY <1>13 DEF ConnectionLost, Writing
  <2> QED BY <1>1, <1>4, <1>5, <2>1 DEF Fails, GoTo, MovesOnly, ServerTypeOK
<1> QED BY <1>6, <1>7, <1>8, <1>9, <1>10, <1>11, <1>12, <1>13 DEF ServerStep, OwnStep, ProviderStep

\* What was written keeps its place and its kind, and r comes last
LEMMA LogsGrow ==
    ASSUME ServerInv, NEW r \in Requests, MovesOnly(r), NEW p \in Requests
    PROVE  /\ DOMAIN log[p] \subseteq DOMAIN log'[p]
           /\ \A i \in DOMAIN log[p] :
                 log'[p][i] = log[p][i] /\ log[p][i] \in Requests \ {r} /\ kind'[log[p][i]] = kind[log[p][i]]
           /\ \A i \in DOMAIN log'[p] \ DOMAIN log[p] : log'[p][i] = r
           /\ \A i, j \in DOMAIN log'[p] \ DOMAIN log[p] : i = j
<1>1. log[p] \in Seq(Requests) /\ LogOK(p)
  BY DEF ServerInv, ServerTypeOK
<1>2. ASSUME NEW i \in DOMAIN log[p]
      PROVE  log[p][i] \in Requests \ {r} /\ kind'[log[p][i]] = kind[log[p][i]]
  <2>1. log[p][i] \in Requests /\ step[log[p][i]] = "done"
    BY <1>1, ElementOfSeq, LenProperties DEF LogOK
  <2> QED BY <2>1 DEF MovesOnly
<1>3. CASE log'[p] = log[p]
  BY <1>2, <1>3
<1>4. CASE log'[p] = Append(log[p], r)
  <2>1. /\ Len(log[p]) \in Nat /\ DOMAIN log[p] = 1..Len(log[p]) /\ DOMAIN log'[p] = 1..(Len(log[p]) + 1)
        /\ log'[p][Len(log[p]) + 1] = r /\ \A i \in 1..Len(log[p]) : log'[p][i] = log[p][i]
    BY <1>1, <1>4, AppendProperties, LenProperties
  <2> QED BY <1>2, <2>1
<1> QED BY <1>3, <1>4 DEF MovesOnly

\* What covers a mapping goes on covering it
LEMMA StillCovers ==
    ASSUME ServerInv, NEW r \in Requests, MovesOnly(r), NEW p \in Requests, NEW listed, NEW by,
           \E i \in DOMAIN log[p] : log[p][i] = by, Covers(listed, p, by)
    PROVE  Covers(listed, p, by)'
<1>1. /\ DOMAIN log[p] \subseteq DOMAIN log'[p]
      /\ \A i \in DOMAIN log[p] :
            log'[p][i] = log[p][i] /\ log[p][i] \in Requests \ {r} /\ kind'[log[p][i]] = kind[log[p][i]]
      /\ \A i \in DOMAIN log'[p] \ DOMAIN log[p] : log'[p][i] = r
  BY LogsGrow
<1>2. kind'[by] = kind[by] /\ by # r /\ r \notin listed
  BY <1>1 DEF Covers
<1>3. \A i \in DOMAIN log'[p] : log'[p][i] # r => i \in DOMAIN log[p] /\ log[p][i] = log'[p][i]
  BY <1>1
<1>4. \A q \in listed : \E j \in DOMAIN log'[p] : log'[p][j] = q
  BY <1>1 DEF Covers
<1>5. ASSUME kind'[by] = "refine", by \notin listed
      PROVE  /\ Cardinality(listed) = MaxTurns
             /\ \A q \in listed : \A i, j \in DOMAIN log'[p] : log'[p][i] = by /\ log'[p][j] = q => j > i
  BY <1>2, <1>3, <1>5 DEF Covers
<1> QED BY <1>4, <1>5 DEF Covers

\* The refinement of another request is told what it was told
LEMMA OthersAreTold ==
    ASSUME ServerInv, NEW r \in Requests, MovesOnly(r), NEW q \in Requests \ {r}, Told(q)
    PROVE  Told(q)'
<1>1. /\ kind'[q] = kind[q] /\ target'[q] = target[q] /\ step'[q] = step[q] /\ base'[q] = base[q]
      /\ history'[q] = history[q] /\ target[q] \in Requests
  BY DEF MovesOnly, ServerInv, ServerTypeOK
<1> SUFFICES ASSUME kind[q] = "refine", step[q] \in {"list"} \cup Analysing PROVE Told(q)'
  BY <1>1 DEF Told, Analysing
<1> SUFFICES ASSUME NEW p \in Requests, p = target[q], NEW by, by = base[q].mapping,
                    NEW listed, listed = Listed(history[q])
             PROVE  Told(q)'
  BY <1>1
<1>2. (\E i \in DOMAIN log[p] : log[p][i] = by) /\ (step[q] \in Analysing => Covers(listed, p, by))
  BY DEF Told, Of
<1>3. \E i \in DOMAIN log'[p] : log'[p][i] = by
  BY <1>2, LogsGrow
<1>4. step[q] \in Analysing => Covers(listed, p, by)'
  BY <1>2, StillCovers
<1>5. Listed(history'[q]) = listed /\ base'[q].mapping = by /\ target'[q] = p
  BY <1>1
<1>6. \E i \in DOMAIN log'[target'[q]] : log'[target'[q]][i] = base'[q].mapping
  BY <1>3, <1>5
<1>7. step'[q] \in Analysing => Covers(Listed(history[q]), target[q], base[q].mapping)'
  BY <1>1, <1>4, <1>5 DEF Covers
<1> QED BY <1>6, <1>7 DEF Told, Of, Analysing

\* A refinement is told of the mapping it has read
LEMMA ReaderIsTold ==
    ASSUME ServerInv, ServerInv', PromptInv, NEW r \in Requests, MovesOnly(r),
           BeginPropose(r) \/ (\E p \in Requests, what \in {"refine", "patch"} : BeginOn(r, what, p))
             \/ ServerStep(r)
    PROVE  Told(r)'
<1>1. /\ ServerTypeOK /\ ServerTypeOK' /\ RequestOK(r) /\ TranscriptFollowsTheMapping
      /\ Told(r) /\ NoRepeat(Of(r)) /\ Of(r) \in Requests
  BY DEF ServerInv, PromptInv, ServerTypeOK, Of
<1>2. ASSUME UNCHANGED proposals PROVE UNCHANGED <<stored, lock, transcript, log>>
  BY <1>2 DEF proposals
<1>3. ASSUME UNCHANGED conversation PROVE UNCHANGED history
  BY <1>3 DEF conversation
<1>4. CASE kind'[r] = "refine" /\ step'[r] \in {"list"} \cup Analysing
  <2>1. CASE ReadProposal(r)
    <3>1. /\ kind[r] = "refine" /\ step[r] = "read" /\ step'[r] = "list" /\ base'[r] = stored[Of(r)]
          /\ UNCHANGED <<target, log>>
      BY <1>1, <1>2, <1>4, <2>1 DEF ReadProposal, GoTo, ServerTypeOK
    <3>2. stored[Of(r)] # None /\ log[Of(r)] # <<>> /\ stored[Of(r)].mapping = log[Of(r)][Len(log[Of(r)])]
      BY <1>1, <3>1 DEF RequestOK, TranscriptFollowsTheMapping
    <3>3. Len(log[Of(r)]) \in DOMAIN log[Of(r)]
      <4>1. log[Of(r)] \in Seq(Requests)
        BY <1>1 DEF ServerTypeOK
      <4>2. Len(log[Of(r)]) \in Nat \ {0} /\ DOMAIN log[Of(r)] = 1..Len(log[Of(r)])
        BY <3>2, <4>1, EmptySeq, LenProperties
      <4> QED BY <4>2
    <3> QED BY <3>1, <3>2, <3>3 DEF Told, Of, Analysing
  <2>2. CASE ListMessages(r)
    <3>1. /\ kind[r] = "refine" /\ step[r] = "list" /\ UNCHANGED <<kind, target, base, log>>
          /\ history'[r] = RecentMessages(transcript[Of(r)])
      BY <1>1, <1>2, <2>2 DEF ListMessages, RequestOK, StepFitsKind, ServerTypeOK
    <3> SUFFICES ASSUME NEW p \in Requests, p = Of(r), NEW by, by = base[r].mapping PROVE Told(r)'
      BY <1>1
    <3>2. \E i \in DOMAIN log[p] : log[p][i] = by
      BY <1>1, <3>1 DEF Told
    <3>3. log[p] \in Seq(Requests) /\ transcript[p] \in Seq(Message) /\ Tells(transcript[p], p) /\ NoRepeat(p)
      BY <1>1 DEF ServerTypeOK, TranscriptFollowsTheMapping
    <3>4. by \in Requests
      BY <3>2, <3>3, ElementOfSeq, LenProperties
    <3>5. Covers(Listed(RecentMessages(transcript[p])), p, by)
      BY <3>2, <3>3, <3>4, RecentCovers
    <3>6. Covers(Listed(history'[r]), p, by) /\ target'[r] = p /\ base'[r].mapping = by
      BY <3>1, <3>5 DEF Of
    <3>7. Covers(Listed(history[r]), target[r], base[r].mapping)'
      BY <3>1, <3>6 DEF Covers
    <3> QED BY <3>1, <3>2, <3>6, <3>7 DEF Told, Of
  <2>3. CASE RetryPost(r) \/ AskTools(r) \/ RunTools(r)
    <3>1. step[r] \in Analysing /\ UNCHANGED <<kind, target, base, history, log>>
      BY <1>2, <2>3 DEF RetryPost, AskTools, RunTools, Analysing
    <3>2. kind[r] = "refine"
      BY <1>4, <3>1
    <3> QED BY <1>1, <3>1, <3>2 DEF Told, Covers, Of
  <2>4. ~BeginPropose(r) /\ (\A p \in Requests, what \in {"refine", "patch"} : ~BeginOn(r, what, p))
    BY ZenonT(40), <1>1, <1>4 DEF BeginPropose, BeginOn, GoTo, ServerTypeOK, Analysing
  <2>5. ~Fails(r)
    BY ZenonT(40), <1>1, <1>4 DEF Fails, GoTo, ServerTypeOK, Analysing
  <2>6. ~ModelAnswers(r) /\ ~AddUser(r) /\ ~InsertUser(r) /\ ~Update(r) /\ ~AddAssistant(r) /\ ~Save(r) /\ ~Commit(r)
    BY ZenonT(40), <1>1, <1>4
       DEF ModelAnswers, AddUser, InsertUser, Update, AddAssistant, Save, Commit, GoTo, ServerTypeOK, Analysing
  <2> QED BY <2>1, <2>2, <2>3, <2>4, <2>5, <2>6
          DEF ServerStep, OwnStep, ProviderStep, AnalysisFails, OutOfIterations, Deadline, TurnIsTaken, ConnectionLost
<1> QED BY <1>4 DEF Told

LEMMA StepIsTold ==
    ASSUME ServerInv, ServerInv', PromptInv, NEW r \in Requests,
           BeginPropose(r) \/ (\E p \in Requests, what \in {"refine", "patch"} : BeginOn(r, what, p))
             \/ ServerStep(r)
    PROVE  PromptInv'
<1>1. MovesOnly(r)
  BY StepMoves
<1>2. ASSUME NEW q \in Requests PROVE Told(q)'
  BY <1>1, OthersAreTold, ReaderIsTold DEF PromptInv
<1>3. ASSUME NEW p \in Requests PROVE NoRepeat(p)'
  <2>1. NoRepeat(p)
    BY DEF PromptInv
  <2>2. ASSUME NEW i \in DOMAIN log'[p], NEW j \in DOMAIN log'[p], log'[p][i] = log'[p][j] PROVE i = j
    <3>1. CASE i \in DOMAIN log[p] /\ j \in DOMAIN log[p]
      BY <1>1, <2>1, <2>2, <3>1, LogsGrow DEF NoRepeat
    <3>2. CASE ~(i \in DOMAIN log[p] /\ j \in DOMAIN log[p])
      BY <1>1, <2>2, <3>2, LogsGrow
    <3> QED BY <3>1, <3>2
  <2> QED BY <2>2 DEF NoRepeat
<1> QED BY <1>2, <1>3 DEF PromptInv

--------------------------------------------------------------------------------
(* The theorem *)

LEMMA InitPrompt == Init => PromptInv
<1> SUFFICES ASSUME Init PROVE PromptInv
  OBVIOUS
<1>1. \A r \in Requests : kind[r] = "none" /\ log[r] = <<>>
  BY DEF Init, ServerInit
<1> QED BY <1>1 DEF PromptInv, Told, NoRepeat

\* A step of the system is one of a request on the server, or leaves the server alone
LEMMA NextOnServer ==
    ASSUME Inv, [Next]_vars
    PROVE  \/ UNCHANGED server
           \/ \E r \in Requests :
                 \/ BeginPropose(r)
                 \/ \E p \in Requests, what \in {"refine", "patch"} : BeginOn(r, what, p)
                 \/ ServerStep(r)
<1> DEFINE OnServer ==
      \/ UNCHANGED server
      \/ \E r \in Requests :
            \/ BeginPropose(r)
            \/ \E p \in Requests, what \in {"refine", "patch"} : BeginOn(r, what, p)
            \/ ServerStep(r)
<1>1. ASSUME NEW r \in Requests, AskAssistant(r) \/ SaveEdits(r) \/ SendMessage(r) PROVE OnServer
  <2>1. proposalId \in Requests \cup {None} /\ data \in [Requests -> Proposal \cup {None}]
    BY DEF Inv, PageTypes
  <2>2. CASE AskAssistant(r)
    BY <2>2 DEF AskAssistant
  <2>3. CASE SaveEdits(r) \/ SendMessage(r)
    <3>1. proposalId \in Requests
      BY <2>1, <2>3 DEF SaveEdits, SendMessage, CanRefine, Shown
    <3> QED BY <2>3, <3>1 DEF SaveEdits, SendMessage
  <2> QED BY <1>1, <2>2, <2>3
<1>2. ASSUME NEW r \in Requests, NEW p \in Requests, OtherRefines(r, p) \/ OtherPatches(r, p) PROVE OnServer
  BY <1>2 DEF OtherRefines, OtherPatches
<1>3. CASE SelectFile \/ EditField \/ AcceptMapping \/ (\E m \in Mutations : MutationFails(m))
           \/ ProposeArrives \/ PatchArrives \/ RefineArrives \/ AcceptArrives
  BY <1>3
     DEF SelectFile, EditField, AcceptMapping, MutationFails, ProposeArrives, PatchArrives, RefineArrives,
         AcceptArrives
<1>4. CASE UNCHANGED vars
  BY <1>4 DEF vars
<1> QED BY <1>1, <1>2, <1>3, <1>4 DEF Next, PageNext

LEMMA NextPrompt == Inv /\ Inv' /\ PromptInv /\ [Next]_vars => PromptInv'
<1> SUFFICES ASSUME Inv, Inv', PromptInv, [Next]_vars PROVE PromptInv'
  OBVIOUS
<1>1. ServerInv /\ ServerInv'
  BY DEF Inv
<1>2. CASE UNCHANGED server
  <2>1. UNCHANGED <<kind, target, step, base, history, log>>
    BY <1>2 DEF server, conversation, proposals
  <2> QED BY <2>1 DEF PromptInv, Told, NoRepeat, Covers, Of
<1> QED BY <1>1, <1>2, NextOnServer, StepIsTold

\* The messages of the refinement that wrote the mapping under refinement are listed,
\* unless max_conversation_turns later ones are (refine_mapping.py, sql.py).
THEOREM PromptsCoverTheMapping == Spec => []PromptCoversTheMapping
<1>1. Inv /\ PromptInv => PromptCoversTheMapping
  <2> SUFFICES ASSUME Inv, PromptInv, NEW r \in Requests, kind[r] = "refine", step[r] = "posting",
                      kind[base[r].mapping] = "refine", base[r].mapping \notin Listed(history[r])
               PROVE  /\ Cardinality(Listed(history[r])) = MaxTurns
                      /\ \A q \in Listed(history[r]) : Place(Of(r), q) > Place(Of(r), base[r].mapping)
    BY DEF PromptCoversTheMapping
  <2> SUFFICES ASSUME NEW p \in Requests, p = Of(r), NEW by, by = base[r].mapping,
                      NEW listed, listed = Listed(history[r])
               PROVE  Cardinality(listed) = MaxTurns /\ \A q \in listed : Place(p, q) > Place(p, by)
    <3>1. Of(r) \in Requests
      BY DEF Inv, ServerInv, ServerTypeOK, Of
    <3> QED BY <3>1
  <2>1. /\ \E i \in DOMAIN log[p] : log[p][i] = by
        /\ \A q \in listed : \E j \in DOMAIN log[p] : log[p][j] = q
        /\ Cardinality(listed) = MaxTurns
        /\ \A q \in listed : \A i, j \in DOMAIN log[p] : log[p][i] = by /\ log[p][j] = q => j > i
    BY DEF PromptInv, Told, Covers, Analysing
  <2> QED BY <2>1 DEF Place
<1>2. Spec => []PromptInv
  BY InitPrompt, NextPrompt, StudioInvariant, PTL DEF Spec
<1> QED BY <1>1, <1>2, StudioInvariant, PTL

--------------------------------------------------------------------------------
(* Who waits for whom *)

\* q has inserted into the conversation that r inserts into, or has updated the row
\* that r updates
Holds(q, r) ==
    /\ q # r /\ Of(q) = Of(r)
    /\ \/ step[r] = "insertUser" /\ inserted[q] > 0
       \/ step[r] = "update" /\ lock[Of(r)] = q

\* No statement of the write transaction of r can be executed
Waits(r) ==
    \/ step[r] = "insertUser" /\ ~TurnIsFree(r) /\ ~(Len(transcript[Of(r)]) > turn[r])
    \/ step[r] = "update" /\ lock[Of(r)] # None

GoesOn(q) == step[q] \in Writing /\ ~Waits(q)

\* A turn that was computed is the next one, or was taken
TurnIsNotAhead(r) == step[r] = "insertUser" => turn[r] <= Len(transcript[Of(r)])

TurnsInv == \A r \in Requests : TurnIsNotAhead(r)

\* A step of r leaves the turns of the others alone and makes no conversation shorter
LengthensOnly(r) ==
    /\ \A q \in Requests \ {r} :
          step'[q] = step[q] /\ target'[q] = target[q] /\ turn'[q] = turn[q]
    /\ \A p \in Requests : Len(transcript'[p]) >= Len(transcript[p])
    /\ step'[r] = "insertUser" => AddUser(r)

LEMMA StepLengthens ==
    ASSUME ServerInv, NEW r \in Requests,
           BeginPropose(r) \/ (\E p \in Requests, what \in {"refine", "patch"} : BeginOn(r, what, p))
             \/ ServerStep(r)
    PROVE  LengthensOnly(r)
<1>1. ServerTypeOK /\ \A p \in Requests : transcript[p] \in Seq(Message) /\ Len(transcript[p]) \in Nat
  BY LenProperties DEF ServerInv, ServerTypeOK
<1>2. ASSUME transcript' = transcript PROVE \A p \in Requests : Len(transcript'[p]) >= Len(transcript[p])
  BY <1>1, <1>2
<1>3. ASSUME UNCHANGED proposals PROVE UNCHANGED transcript
  BY <1>3 DEF proposals
<1>4. ASSUME UNCHANGED transaction PROVE UNCHANGED turn
  BY <1>4 DEF transaction
<1>5. ASSUME Committed(r), step[r] = "commit"
      PROVE  \A p \in Requests : Len(transcript'[p]) >= Len(transcript[p])
  <2>1. MessagesOf(r) \in Seq(Message)
    BY <1>5, CommitTypes
  <2>2. \A p \in Requests : transcript'[p] = transcript[p] \/ transcript'[p] = transcript[p] \o MessagesOf(r)
    BY <1>1, <1>5 DEF Committed, ServerTypeOK
  <2>3. ASSUME NEW p \in Requests
        PROVE  Len(transcript[p] \o MessagesOf(r)) = Len(transcript[p]) + Len(MessagesOf(r))
               /\ Len(MessagesOf(r)) \in Nat
    BY <1>1, <2>1, ConcatProperties, LenProperties
  <2> QED BY <1>1, <2>2, <2>3
<1>6. ASSUME NEW there, there # "insertUser", GoTo(r, there)
      PROVE  step'[r] # "insertUser" /\ \A q \in Requests \ {r} : step'[q] = step[q]
  BY <1>1, <1>6 DEF GoTo, ServerTypeOK
<1>7. ASSUME Fails(r)
      PROVE  /\ step'[r] # "insertUser"
             /\ \A q \in Requests \ {r} : step'[q] = step[q] /\ turn'[q] = turn[q]
  BY <1>1, <1>6, <1>7 DEF Fails, ServerTypeOK
<1>8. CASE BeginPropose(r)
  BY <1>2, <1>3, <1>4, <1>6, <1>8 DEF BeginPropose, LengthensOnly
<1>9. ASSUME NEW p \in Requests, NEW what \in {"refine", "patch"}, BeginOn(r, what, p) PROVE LengthensOnly(r)
  BY <1>1, <1>2, <1>3, <1>4, <1>6, <1>9 DEF BeginOn, LengthensOnly, ServerTypeOK
<1>10. CASE ReadProposal(r) \/ ListMessages(r) \/ Save(r) \/ RunTools(r) \/ AskTools(r) \/ ModelAnswers(r)
  <2>1. UNCHANGED <<target, turn, transcript>>
    BY <1>3, <1>4, <1>10 DEF ReadProposal, ListMessages, Save, RunTools, AskTools, ModelAnswers
  <2>2. \E there : there # "insertUser" /\ GoTo(r, there)
    BY <1>10 DEF ReadProposal, ListMessages, Save, RunTools, AskTools, ModelAnswers
  <2> QED BY <1>2, <1>6, <2>1, <2>2 DEF LengthensOnly
<1>11. CASE RetryPost(r)
  BY <1>2, <1>3, <1>4, <1>11 DEF RetryPost, LengthensOnly
<1>12. CASE AnalysisFails(r) \/ OutOfIterations(r) \/ Deadline(r) \/ TurnIsTaken(r)
  <2>1. Fails(r) /\ UNCHANGED <<target, transcript>>
    BY <1>3, <1>12 DEF AnalysisFails, OutOfIterations, Deadline, TurnIsTaken
  <2> QED BY <1>2, <1>7, <2>1 DEF LengthensOnly
<1>13. CASE AddUser(r)
  BY <1>1, <1>2, <1>3, <1>13 DEF AddUser, GoTo, LengthensOnly, ServerTypeOK
<1>14. CASE InsertUser(r) \/ AddAssistant(r)
  <2>1. UNCHANGED <<target, turn, transcript>>
    BY <1>3, <1>14 DEF InsertUser, AddAssistant
  <2>2. GoTo(r, "update") \/ GoTo(r, "commit")
    BY <1>14 DEF InsertUser, AddAssistant
  <2> QED BY <1>2, <1>6, <2>1, <2>2 DEF LengthensOnly
<1>15. CASE Update(r)
  <2>1. UNCHANGED <<target, turn, transcript>>
    BY <1>4, <1>15 DEF Update
  <2>2. GoTo(r, "addAssistant") \/ GoTo(r, "commit")
    BY <1>15 DEF Update
  <2> QED BY <1>2, <1>6, <2>1, <2>2 DEF LengthensOnly
<1>16. CASE Commit(r)
  <2>1. step[r] = "commit" /\ Committed(r) /\ GoTo(r, "done") /\ UNCHANGED target
        /\ turn' = [turn EXCEPT ![r] = 0]
    BY <1>16 DEF Commit
  <2> QED BY <1>1, <1>5, <1>6, <2>1 DEF LengthensOnly, ServerTypeOK
<1>17. CASE ConnectionLost(r)
  <2>1. Fails(r) /\ UNCHANGED target
        /\ ((step[r] = "commit" /\ Committed(r)) \/ UNCHANGED transcript)
    BY <1>17 DEF ConnectionLost
  <2> QED BY <1>2, <1>5, <1>7, <2>1 DEF LengthensOnly
<1> QED BY <1>8, <1>9, <1>10, <1>11, <1>12, <1>13, <1>14, <1>15, <1>16, <1>17
        DEF ServerStep, OwnStep, ProviderStep

LEMMA StepKeepsTurns ==
    ASSUME ServerInv, ServerTypeOK', TurnsInv, NEW r \in Requests, LengthensOnly(r)
    PROVE  TurnsInv'
<1>1. ServerTypeOK
  BY DEF ServerInv
<1>2. \A p \in Requests : Len(transcript[p]) \in Nat /\ Len(transcript'[p]) \in Nat
  BY <1>1, LenProperties DEF ServerTypeOK
<1>3. ASSUME NEW q \in Requests, q # r PROVE TurnIsNotAhead(q)'
  <2>1. step'[q] = step[q] /\ Of(q)' = Of(q) /\ turn'[q] = turn[q] /\ TurnIsNotAhead(q)
    BY <1>3 DEF LengthensOnly, TurnsInv, Of
  <2>2. Of(q) \in Requests /\ turn[q] \in Nat
    BY <1>1 DEF ServerTypeOK, Of
  <2>3. Len(transcript'[Of(q)]) >= Len(transcript[Of(q)])
    BY <2>2 DEF LengthensOnly
  <2> QED BY <1>2, <2>1, <2>2, <2>3 DEF TurnIsNotAhead
<1>4. ASSUME step'[r] = "insertUser" PROVE TurnIsNotAhead(r)'
  <2>1. AddUser(r)
    BY <1>4 DEF LengthensOnly
  <2>2. turn'[r] = Len(transcript[Of(r)]) /\ transcript' = transcript /\ Of(r)' = Of(r)
    BY <1>1, <2>1 DEF AddUser, proposals, Of, ServerTypeOK
  <2>3. Of(r) \in Requests
    BY <1>1 DEF ServerTypeOK, Of
  <2> QED BY <1>2, <2>2, <2>3 DEF TurnIsNotAhead
<1> QED BY <1>3, <1>4 DEF TurnsInv, TurnIsNotAhead

LEMMA InitTurns == Init => TurnsInv
<1> SUFFICES ASSUME Init PROVE TurnsInv
  OBVIOUS
<1>1. \A r \in Requests : step[r] = "none"
  BY DEF Init, ServerInit
<1> QED BY <1>1 DEF TurnsInv, TurnIsNotAhead

LEMMA NextTurns == Inv /\ Inv' /\ TurnsInv /\ [Next]_vars => TurnsInv'
<1> SUFFICES ASSUME Inv, Inv', TurnsInv, [Next]_vars PROVE TurnsInv'
  OBVIOUS
<1>1. ServerInv /\ ServerTypeOK'
  BY DEF Inv, ServerInv
<1>2. ASSUME NEW r \in Requests,
             BeginPropose(r) \/ (\E p \in Requests, what \in {"refine", "patch"} : BeginOn(r, what, p))
               \/ ServerStep(r)
      PROVE  TurnsInv'
  BY <1>1, <1>2, StepLengthens, StepKeepsTurns
<1>3. ASSUME UNCHANGED server PROVE TurnsInv'
  <2>1. UNCHANGED <<target, step, turn, transcript>>
    BY <1>3 DEF server, transaction, proposals
  <2> QED BY <2>1 DEF TurnsInv, TurnIsNotAhead, Of
<1> QED BY <1>2, <1>3, NextOnServer

\* Who has updated the row waits for nothing
LEMMA RowHoldersGoOn ==
    ASSUME ServerInv, NEW q \in Requests, HoldsRow(q)
    PROVE  GoesOn(q)
BY DEF HoldsRow, GoesOn, Waits, Writing

\* Who waits for a row is waiting for one who goes on
LEMMA RowsAreGivenBack ==
    ASSUME ServerInv, NEW r \in Requests, step[r] = "update", Waits(r)
    PROVE  \E q \in Requests : Holds(q, r) /\ GoesOn(q)
<1> DEFINE q == lock[Of(r)]
<1>1. q # None /\ Of(r) \in Requests
  BY DEF Waits, ServerInv, ServerTypeOK, Of
<1>2. q \in Requests /\ HoldsRow(q) /\ Of(q) = Of(r)
  BY <1>1 DEF ServerInv, ServerTypeOK, LocksOK
<1>3. q # r
  BY <1>2 DEF HoldsRow
<1>4. Holds(q, r)
  BY <1>2, <1>3 DEF Holds
<1> QED BY <1>2, <1>4, RowHoldersGoOn

\* Who waits for a turn is waiting for the one refinement that has inserted into the
\* conversation
LEMMA TurnsAreHeld ==
    ASSUME ServerInv, TurnsInv, NEW r \in Requests, step[r] = "insertUser", Waits(r)
    PROVE  \E q \in Requests : /\ Holds(q, r)
                               /\ step[q] = "update" \/ HoldsRow(q)
<1>1. Len(transcript[Of(r)]) \in Nat /\ turn[r] \in Nat
  BY LenProperties DEF ServerInv, ServerTypeOK, Of
<1>2. turn[r] = Len(transcript[Of(r)])
  BY <1>1 DEF TurnsInv, TurnIsNotAhead, Waits
<1>3. PICK q \in Requests \ {r} : inserted[q] > 0 /\ Of(q) = Of(r)
  BY <1>2 DEF Waits, TurnIsFree
<1>4. step[q] = "update" \/ HoldsRow(q)
  <2>1. inserted[q] = InsertedBy(q)
    BY DEF ServerInv, RequestOK
  <2> QED BY <1>3, <2>1 DEF InsertedBy, HoldsRow
<1> QED BY <1>3, <1>4 DEF Holds

\* What EveryRequestIsAnswered rests on, for any number of requests: no write transaction
\* is stuck.  One that waits for a turn or a row waits for one that goes on, or for a
\* refinement that waits itself for one that goes on: there is no circle, and no turn
\* that nobody will ever free (sql.py:710).
THEOREM WaitsEnd ==
    Spec => [](\A r \in Requests : Waits(r) =>
                  \E q \in Requests :
                      /\ Holds(q, r)
                      /\ GoesOn(q) \/ \E p \in Requests : Holds(p, q) /\ GoesOn(p))
<1>1. Inv /\ TurnsInv => \A r \in Requests : Waits(r) =>
          \E q \in Requests : /\ Holds(q, r)
                              /\ GoesOn(q) \/ \E p \in Requests : Holds(p, q) /\ GoesOn(p)
  <2> SUFFICES ASSUME ServerInv, TurnsInv, NEW r \in Requests, Waits(r)
               PROVE  \E q \in Requests : /\ Holds(q, r)
                                          /\ GoesOn(q) \/ \E p \in Requests : Holds(p, q) /\ GoesOn(p)
    BY DEF Inv
  <2>1. CASE step[r] = "update"
    BY <2>1, RowsAreGivenBack
  <2>2. CASE step[r] = "insertUser"
    <3>1. PICK q \in Requests : Holds(q, r) /\ (step[q] = "update" \/ HoldsRow(q))
      BY <2>2, TurnsAreHeld
    <3>2. CASE HoldsRow(q)
      BY <3>1, <3>2, RowHoldersGoOn
    <3>3. CASE step[q] = "update"
      <4>1. CASE Waits(q)
        BY <3>1, <3>3, <4>1, RowsAreGivenBack
      <4>2. CASE ~Waits(q)
        BY <3>1, <3>3, <4>2 DEF GoesOn, Writing
      <4> QED BY <4>1, <4>2
    <3> QED BY <3>1, <3>2, <3>3
  <2> QED BY <2>1, <2>2 DEF Waits
<1> QED BY <1>1, InitTurns, NextTurns, StudioInvariant, PTL DEF Spec
================================================================================
