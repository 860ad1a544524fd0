------------------------------- MODULE Proposals -------------------------------
(***************************************************************************)
(* The mapping proposals on the server.  A request to propose or to refine *)
(* reads, talks to the model provider outside any transaction, and writes  *)
(* in one READ COMMITTED transaction of several statements; a PATCH reads  *)
(* and writes back in two.  A proposal is named by the request that        *)
(* created it, a document and an explanation by the request they are of.   *)
(***************************************************************************)
EXTENDS Naturals, Sequences, FiniteSets

CONSTANTS
    Requests,
    None,
    MaxIterations,  \* AISettings.max_iterations, max_refinement_iterations
    MAX_ATTEMPTS,   \* posts of one turn
    MaxTurns        \* max_conversation_turns

ASSUME BoundsAssumption ==
    /\ MaxIterations \in Nat \ {0} /\ MAX_ATTEMPTS \in Nat \ {0} /\ MaxTurns \in Nat \ {0}
    /\ None \notin Requests

VARIABLES
    kind, target,  \* what a request asks, and of which proposal
    step,          \* the statement or call it is at
    base,          \* the proposal it read
    history,       \* the messages list_messages returned
    iteration, attempt,
    turn,          \* the turn_index it computed
    inserted,      \* the messages it inserted in its transaction
    reply,
    stored,        \* mapping_proposal, committed
    lock,          \* the transaction that has updated the row of a proposal
    transcript,    \* mapping_proposal_message in turn order, committed
    log            \* history: the committed writes of each proposal in order

conversation == <<history, iteration, attempt>>
transaction  == <<turn, inserted>>
proposals    == <<stored, lock, transcript, log>>
server == <<kind, target, step, base, conversation, transaction, reply, proposals>>

Proposal == [mapping : Requests, notes : Requests]

ASSUME NoneAssumption == None \notin Proposal

Message == [by : Requests, role : {"user", "assistant"}, turn_index : Nat]

Analysing == {"posting", "tools"}

Writing == {"addUser", "insertUser", "update", "addAssistant", "save", "commit"}

Step == {"none", "read", "list", "done"} \cup Analysing \cup Writing

ServerTypeOK ==
    /\ kind \in [Requests -> {"none", "propose", "refine", "patch"}]
    /\ target \in [Requests -> Requests]
    /\ step \in [Requests -> Step]
    /\ base \in [Requests -> Proposal \cup {None}]
    /\ history \in [Requests -> Seq(Message)]
    /\ iteration \in [Requests -> 0..MaxIterations]
    /\ attempt \in [Requests -> 1..MAX_ATTEMPTS]
    /\ turn \in [Requests -> Nat]
    /\ inserted \in [Requests -> 0..2]
    /\ reply \in [Requests -> {"none", "ok", "error"}]
    /\ stored \in [Requests -> Proposal \cup {None}]
    /\ lock \in [Requests -> Requests \cup {None}]
    /\ transcript \in [Requests -> Seq(Message)]
    /\ log \in [Requests -> Seq(Requests)]

ServerInit ==
    /\ kind = [r \in Requests |-> "none"]
    /\ target = [r \in Requests |-> r]
    /\ step = [r \in Requests |-> "none"]
    /\ base = [r \in Requests |-> None]
    /\ history = [r \in Requests |-> <<>>]
    /\ iteration = [r \in Requests |-> 0]
    /\ attempt = [r \in Requests |-> 1]
    /\ turn = [r \in Requests |-> 0]
    /\ inserted = [r \in Requests |-> 0]
    /\ reply = [r \in Requests |-> "none"]
    /\ stored = [r \in Requests |-> None]
    /\ lock = [r \in Requests |-> None]
    /\ transcript = [r \in Requests |-> <<>>]
    /\ log = [r \in Requests |-> <<>>]

GoTo(r, there) == step' = [step EXCEPT ![r] = there]

Of(r) == target[r]

--------------------------------------------------------------------------------
(* What a request reads before the analysis *)

\* POST /mappings/proposals: the file is there, it is profiled and sanitized
BeginPropose(r) ==
    /\ step[r] = "none"
    /\ kind' = [kind EXCEPT ![r] = "propose"]
    /\ GoTo(r, "posting")
    /\ UNCHANGED <<target, base, conversation, transaction, reply, proposals>>

\* POST .../messages and PATCH, on a proposal the caller knows
BeginOn(r, what, p) ==
    /\ step[r] = "none"
    /\ stored[p] # None
    /\ kind' = [kind EXCEPT ![r] = what]
    /\ target' = [target EXCEPT ![r] = p]
    /\ GoTo(r, "read")
    /\ UNCHANGED <<base, conversation, transaction, reply, proposals>>

\* GetMappingProposal.execute, in a transaction of its own
ReadProposal(r) ==
    /\ step[r] = "read"
    /\ base' = [base EXCEPT ![r] = stored[Of(r)]]
    /\ GoTo(r, IF kind[r] = "refine" THEN "list" ELSE "update")
    /\ UNCHANGED <<kind, target, conversation, transaction, reply, proposals>>

\* Mutant: the last turn is taken for the one that is being asked.
MessagesBeforeTheLast(messages) ==
    SubSeq(messages,
           IF Len(messages) > 2 * MaxTurns THEN Len(messages) - 2 * MaxTurns + 1 ELSE 1,
           Len(messages) - 2)

\* ORDER BY turn_index DESC LIMIT 2 * max_turns, put back in order
RecentMessages(messages) ==
    SubSeq(messages,
           IF Len(messages) > 2 * MaxTurns THEN Len(messages) - 2 * MaxTurns + 1 ELSE 1,
           Len(messages))

\* list_messages, in the next transaction
ListMessages(r) ==
    /\ step[r] = "list"
    /\ history' = [history EXCEPT ![r] = RecentMessages(transcript[Of(r)])]
    /\ GoTo(r, "posting")
    /\ UNCHANGED <<kind, target, base, iteration, attempt, transaction, reply, proposals>>

--------------------------------------------------------------------------------
(* DeadlineBoundAnalyzer around BaseAnalyzerAdapter: _post, run_agent_loop and *)
(* refine.  The tools validate and never write.                                *)

\* The local variables of a call that returns or raises
Forgotten(r) ==
    /\ history' = [history EXCEPT ![r] = <<>>]
    /\ iteration' = [iteration EXCEPT ![r] = 0]
    /\ attempt' = [attempt EXCEPT ![r] = 1]

Fails(r) ==
    /\ GoTo(r, "done")
    /\ reply' = [reply EXCEPT ![r] = "error"]
    /\ turn' = [turn EXCEPT ![r] = 0]
    /\ Forgotten(r)

\* A lost request, a time-out or a retryable status, with attempts left
RetryPost(r) ==
    /\ step[r] = "posting"
    /\ attempt[r] < MAX_ATTEMPTS
    /\ attempt' = [attempt EXCEPT ![r] = @ + 1]
    /\ UNCHANGED <<kind, target, step, base, history, iteration, transaction, reply, proposals>>

\* The last attempt failed, or an answer that no attempt can repair: a refusal,
\* no JSON, a document that is not a proposal
AnalysisFails(r) ==
    /\ step[r] = "posting"
    /\ Fails(r)
    /\ UNCHANGED <<kind, target, base, inserted, proposals>>

\* stop_reason "tool_use", with iterations left after this one
AskTools(r) ==
    /\ step[r] = "posting"
    /\ iteration[r] + 1 < MaxIterations
    /\ iteration' = [iteration EXCEPT ![r] = @ + 1]
    /\ GoTo(r, "tools")
    /\ UNCHANGED <<kind, target, base, history, attempt, transaction, reply, proposals>>

\* The results go back in the next post, which has all its attempts
RunTools(r) ==
    /\ step[r] = "tools"
    /\ attempt' = [attempt EXCEPT ![r] = 1]
    /\ GoTo(r, "posting")
    /\ UNCHANGED <<kind, target, base, history, iteration, transaction, reply, proposals>>

\* AgentMaxIterationsError
OutOfIterations(r) ==
    /\ step[r] = "posting"
    /\ iteration[r] + 1 = MaxIterations
    /\ Fails(r)
    /\ UNCHANGED <<kind, target, base, inserted, proposals>>

\* "end_turn" with a proposal
ModelAnswers(r) ==
    /\ step[r] = "posting"
    /\ GoTo(r, IF kind[r] = "propose" THEN "save" ELSE "addUser")
    /\ Forgotten(r)
    /\ UNCHANGED <<kind, target, base, transaction, reply, proposals>>

\* Mutant: the deadline bounds the tools only, not a provider that is silent.
DeadlineOfTools(r) ==
    /\ step[r] = "tools"
    /\ Fails(r)
    /\ UNCHANGED <<kind, target, base, inserted, proposals>>

\* asyncio.timeout cancels the call, in a post, a backoff or a tool: 504
Deadline(r) ==
    /\ step[r] \in Analysing
    /\ Fails(r)
    /\ UNCHANGED <<kind, target, base, inserted, proposals>>

--------------------------------------------------------------------------------
(* The write transaction *)

\* INSERT ... turn_index = coalesce(max, -1) + 1: the sub-select sees what is
\* committed when the statement begins
AddUser(r) ==
    /\ step[r] = "addUser"
    /\ turn' = [turn EXCEPT ![r] = Len(transcript[Of(r)])]
    /\ GoTo(r, "insertUser")
    /\ UNCHANGED <<kind, target, base, conversation, inserted, reply, proposals>>

\* Mutant: (mapping_proposal_id, turn_index) is not unique.
TurnIsFreeAlways(r) == TRUE

\* uq_proposal_message_proposal_turn: a row of an open transaction is waited for
TurnIsFree(r) ==
    /\ Len(transcript[Of(r)]) = turn[r]
    /\ \A q \in Requests \ {r} : inserted[q] > 0 => Of(q) # Of(r)

InsertUser(r) ==
    /\ step[r] = "insertUser"
    /\ TurnIsFree(r)
    /\ inserted' = [inserted EXCEPT ![r] = 1]
    /\ GoTo(r, "update")
    /\ UNCHANGED <<kind, target, base, conversation, turn, reply, proposals>>

\* Mutant: the conflict is swallowed and the refinement answered.
TurnIsTakenAnswered(r) ==
    /\ step[r] = "insertUser"
    /\ Len(transcript[Of(r)]) > turn[r]
    /\ GoTo(r, "done")
    /\ reply' = [reply EXCEPT ![r] = "ok"]
    /\ UNCHANGED <<kind, target, base, conversation, transaction, proposals>>

\* Another refinement took the turn: IntegrityError, 500
TurnIsTaken(r) ==
    /\ step[r] = "insertUser"
    /\ Len(transcript[Of(r)]) > turn[r]
    /\ Fails(r)
    /\ UNCHANGED <<kind, target, base, inserted, proposals>>

\* UPDATE mapping_proposal: waits for the transaction that has the row
Update(r) ==
    /\ step[r] = "update"
    /\ lock[Of(r)] = None
    /\ GoTo(r, IF kind[r] = "refine" THEN "addAssistant" ELSE "commit")
    /\ lock' = [lock EXCEPT ![Of(r)] = r]
    /\ UNCHANGED <<kind, target, base, conversation, transaction, reply, stored, transcript, log>>

\* The summary, at the turn after its own message
AddAssistant(r) ==
    /\ step[r] = "addAssistant"
    /\ inserted' = [inserted EXCEPT ![r] = 2]
    /\ GoTo(r, "commit")
    /\ UNCHANGED <<kind, target, base, conversation, turn, reply, proposals>>

\* INSERT mapping_proposal RETURNING id
Save(r) ==
    /\ step[r] = "save"
    /\ GoTo(r, "commit")
    /\ UNCHANGED <<kind, target, base, conversation, transaction, reply, proposals>>

\* PATCH writes back the explanation it has read
Written(r) ==
    IF kind[r] = "patch" THEN [mapping |-> r, notes |-> base[r].notes]
                         ELSE [mapping |-> r, notes |-> r]

MessagesOf(r) ==
    SubSeq(<<[by |-> r, role |-> "user", turn_index |-> turn[r]],
             [by |-> r, role |-> "assistant", turn_index |-> turn[r] + 1]>>, 1, inserted[r])

Released(r) == [p \in Requests |-> IF lock[p] = r THEN None ELSE lock[p]]

Committed(r) ==
    /\ stored' = [stored EXCEPT ![Of(r)] = Written(r)]
    /\ transcript' = [transcript EXCEPT ![Of(r)] = @ \o MessagesOf(r)]
    /\ log' = [log EXCEPT ![Of(r)] = Append(@, r)]
    /\ lock' = Released(r)
    /\ inserted' = [inserted EXCEPT ![r] = 0]

Commit(r) ==
    /\ step[r] = "commit"
    /\ Committed(r)
    /\ GoTo(r, "done")
    /\ reply' = [reply EXCEPT ![r] = "ok"]
    /\ turn' = [turn EXCEPT ![r] = 0]
    /\ UNCHANGED <<kind, target, base, conversation>>

\* The connection is lost, before or after the commit was applied: 500
ConnectionLost(r) ==
    /\ step[r] \in Writing \cup {"read", "list"}
    /\ \/ step[r] = "commit" /\ Committed(r)
       \/ /\ lock' = Released(r)
          /\ inserted' = [inserted EXCEPT ![r] = 0]
          /\ UNCHANGED <<stored, transcript, log>>
    /\ Fails(r)
    /\ UNCHANGED <<kind, target, base>>

ProviderStep(r) ==
    RetryPost(r) \/ AnalysisFails(r) \/ AskTools(r) \/ OutOfIterations(r) \/ ModelAnswers(r)

OwnStep(r) ==
    \/ ReadProposal(r) \/ ListMessages(r) \/ RunTools(r) \/ Deadline(r)
    \/ AddUser(r) \/ InsertUser(r) \/ TurnIsTaken(r) \/ Update(r) \/ AddAssistant(r)
    \/ Save(r) \/ Commit(r)

ServerStep(r) == OwnStep(r) \/ ProviderStep(r) \/ ConnectionLost(r)

--------------------------------------------------------------------------------
(* Properties of the server *)

\* Where the refinements are among the committed writes of a proposal
Refinements(p) == {i \in DOMAIN log[p] : kind[log[p][i]] = "refine"}

\* How many of them come before one
Rank(positions, i) == Cardinality({j \in positions : j < i})

\* The messages are those of the refinements, side by side, at turns without a gap
Tells(messages, p) ==
    /\ Len(messages) = 2 * Cardinality(Refinements(p))
    /\ \A i \in Refinements(p) :
          LET n == 2 * Rank(Refinements(p), i) IN
          /\ messages[n + 1] = [by |-> log[p][i], role |-> "user", turn_index |-> n]
          /\ messages[n + 2] = [by |-> log[p][i], role |-> "assistant", turn_index |-> n + 1]

\* The stored mapping is the one of the last committed write, and the
\* conversation is the sequence of the refinements among these writes, each
\* with its message and its summary side by side, at turns without a gap.
TranscriptFollowsTheMapping ==
    \A p \in Requests :
        /\ (stored[p] = None) = (log[p] = <<>>)
        /\ log[p] # <<>> => stored[p].mapping = log[p][Len(log[p])]
        /\ Tells(transcript[p], p)

\* Who wrote the messages
Listed(messages) == {messages[i].by : i \in 1..Len(messages)}

\* Where a request is among the committed writes of a proposal
Place(p, q) == CHOOSE i \in DOMAIN log[p] : log[p][i] = q

\* The model is never asked to refine a mapping whose own conversation it is not
\* told: the messages of the refinement that wrote the mapping are listed, unless
\* later ones fill the list.
PromptCoversTheMapping ==
    \A r \in Requests : kind[r] = "refine" /\ step[r] = "posting" =>
        LET by == base[r].mapping
            listed == Listed(history[r]) IN
        kind[by] = "refine" =>
            \/ by \in listed
            \/ /\ Cardinality(listed) = MaxTurns
               /\ \A q \in listed : Place(Of(r), q) > Place(Of(r), by)

\* What was answered was stored, and what was refused left nothing, unless the
\* connection was lost on the answer of the commit.
RepliesAreTrue ==
    \A r \in Requests :
        LET written == \E i \in 1..Len(log[Of(r)]) : log[Of(r)][i] = r IN
        /\ reply[r] = "ok" => written
        /\ step[r] # "done" => ~written

\* Every request is answered, whether or not the provider ever is.
EveryRequestIsAnswered == \A r \in Requests : step[r] # "none" ~> reply[r] # "none"
================================================================================
