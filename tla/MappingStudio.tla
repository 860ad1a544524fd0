----------------------------- MODULE MappingStudio -----------------------------
(***************************************************************************)
(* The page /import-assistant in front of Proposals: one browser tab whose *)
(* requests are answered later, beside another client of the same API.     *)
(* The URL holds the file, the proposal and the accepted mapping; a store  *)
(* holds the draft of the user's edits, numbered as they are typed; the    *)
(* query cache holds the proposals as they were last answered.             *)
(***************************************************************************)
EXTENDS Proposals

CONSTANTS
    Others,      \* the requests the other client makes
    MaxFiles,    \* bound: files selected one after the other
    MaxEdits     \* bound: edits typed

ASSUME StudioAssumption ==
    Others \subseteq Requests /\ MaxFiles \in Nat \ {0} /\ MaxEdits \in Nat

VARIABLES
    file, proposalId, mappingId,        \* the URL
    draft, draftProposalId, accepted,   \* the store
    data,      \* the query cache: the proposal last answered for each id
    pending,   \* the request of each mutation that is in flight
    edits,     \* the number of edits typed
    fileOf,    \* history: the file of each proposal and accepted mapping
    patient    \* history: the user has always waited for the answers

url    == <<file, proposalId, mappingId>>
store  == <<draft, draftProposalId, accepted>>
page   == <<url, store, data, pending, edits, fileOf, patient>>
vars   == <<server, page>>

Mutations == {"propose", "patch", "refine", "accept"}

TypeOK ==
    /\ ServerTypeOK
    /\ file \in 1..MaxFiles
    /\ proposalId \in Requests \cup {None}
    /\ mappingId \in Requests \cup {None}
    /\ draft \in 0..MaxEdits            \* 0: no draft
    /\ draftProposalId \in Requests \cup {None}
    /\ accepted \in Requests \cup {None}
    /\ data \in [Requests -> Proposal \cup {None}]
    /\ pending \in [Mutations -> Requests \cup {None}]
    /\ edits \in 0..MaxEdits
    /\ fileOf \in [Requests -> 0..MaxFiles]
    /\ patient \in BOOLEAN

Init ==
    /\ ServerInit
    /\ file = 1
    /\ proposalId = None
    /\ mappingId = None
    /\ draft = 0
    /\ draftProposalId = None
    /\ accepted = None
    /\ data = [r \in Requests |-> None]
    /\ pending = [m \in Mutations |-> None]
    /\ edits = 0
    /\ fileOf = [r \in Requests |-> 0]
    /\ patient = TRUE

Idle == \A m \in Mutations : pending[m] = None

\* The user acts, whether or not something is in flight
Acts == patient' = (patient /\ Idle)

Own(r) == r \notin Others

Shown == IF proposalId = None THEN None ELSE data[proposalId]

\* syncProposal runs as an effect once the URL has changed
Synced(p, m) ==
    /\ proposalId' = p
    /\ mappingId' = m
    /\ accepted' = m
    /\ draftProposalId' = p
    /\ draft' = IF p = draftProposalId THEN draft ELSE 0

\* Mutant: the ids of the earlier file stay in the URL.
SelectFileKeepingIds ==
    /\ file < MaxFiles
    /\ file' = file + 1
    /\ Acts
    /\ UNCHANGED <<proposalId, mappingId, store, server, data, pending, edits, fileOf>>

\* setFileId: withFileId drops the proposal and the mapping
SelectFile ==
    /\ file < MaxFiles
    /\ file' = file + 1
    /\ Synced(None, None)
    /\ Acts
    /\ UNCHANGED <<server, data, pending, edits, fileOf>>

--------------------------------------------------------------------------------
(* The mutations, sent *)

Sends(m, r) == pending' = [pending EXCEPT ![m] = r]

\* askAssistant: canPropose
AskAssistant(r) ==
    /\ Own(r)
    /\ proposalId = None
    /\ pending["propose"] = None
    /\ BeginPropose(r)
    /\ Sends("propose", r)
    /\ fileOf' = [fileOf EXCEPT ![r] = file]
    /\ Acts
    /\ UNCHANGED <<url, store, data, edits>>

\* onSourceChange: not once accepted, nor while a refinement is in flight
EditField ==
    /\ Shown # None
    /\ accepted = None
    /\ pending["refine"] = None
    /\ edits < MaxEdits
    /\ edits' = edits + 1
    /\ draft' = edits + 1
    /\ draftProposalId' = proposalId
    /\ Acts
    /\ UNCHANGED <<server, url, accepted, data, pending, fileOf>>

\* saveEdits: the button is disabled while it loads
SaveEdits(r) ==
    /\ Own(r)
    /\ Shown # None
    /\ draft # 0
    /\ accepted = None /\ pending["refine"] = None
    /\ pending["patch"] = None
    /\ BeginOn(r, "patch", proposalId)
    /\ Sends("patch", r)
    /\ Acts
    /\ UNCHANGED <<url, store, data, edits, fileOf>>

CanRefine == Shown # None /\ draft = 0 /\ accepted = None

SendMessage(r) ==
    /\ Own(r)
    /\ CanRefine
    /\ pending["refine"] = None
    /\ BeginOn(r, "refine", proposalId)
    /\ Sends("refine", r)
    /\ Acts
    /\ UNCHANGED <<url, store, data, edits, fileOf>>

CanAccept == Shown # None /\ draft = 0 /\ accepted = None /\ pending["accept"] = None

\* acceptMapping: POST /mappings with the document on display (MappingVersions)
AcceptMapping ==
    /\ CanAccept
    /\ Sends("accept", Shown.mapping)
    /\ fileOf' = [fileOf EXCEPT ![Shown.mapping] = file]
    /\ Acts
    /\ UNCHANGED <<server, url, store, data, edits>>

--------------------------------------------------------------------------------
(* The answers *)

Settled(m) == pending' = [pending EXCEPT ![m] = None]

Answered(r) == data' = [data EXCEPT ![Of(r)] = Written(r)]

MutationFails(m) ==
    /\ pending[m] # None
    /\ m # "accept" => reply[pending[m]] = "error"
    /\ Settled(m)
    /\ UNCHANGED <<server, url, store, data, edits, fileOf, patient>>

\* setProposalId(data.proposal_id)
ProposeArrives ==
    LET r == pending["propose"] IN
    /\ r # None
    /\ reply[r] = "ok"
    /\ Answered(r)
    /\ Settled("propose")
    /\ Synced(r, mappingId)
    /\ UNCHANGED <<server, file, edits, fileOf, patient>>

\* clearMappingDraft, whatever was typed since
PatchArrives ==
    LET r == pending["patch"] IN
    /\ r # None
    /\ reply[r] = "ok"
    /\ Answered(r)
    /\ Settled("patch")
    /\ draft' = 0
    /\ UNCHANGED <<server, url, draftProposalId, accepted, edits, fileOf, patient>>

RefineArrives ==
    LET r == pending["refine"] IN
    /\ r # None
    /\ reply[r] = "ok"
    /\ Answered(r)
    /\ Settled("refine")
    /\ UNCHANGED <<server, url, store, edits, fileOf, patient>>

\* setAcceptedMappingId and setMappingId
AcceptArrives ==
    /\ pending["accept"] # None
    /\ mappingId' = pending["accept"]
    /\ accepted' = pending["accept"]
    /\ Settled("accept")
    /\ UNCHANGED <<server, file, proposalId, draft, draftProposalId, data, edits,
                   fileOf, patient>>

\* Another tab or another person works on the same proposal
OtherRefines(r, p) == ~Own(r) /\ BeginOn(r, "refine", p) /\ UNCHANGED page

OtherPatches(r, p) == ~Own(r) /\ BeginOn(r, "patch", p) /\ UNCHANGED page

PageNext ==
    \/ SelectFile \/ EditField \/ AcceptMapping
    \/ \E r \in Requests : AskAssistant(r) \/ SaveEdits(r) \/ SendMessage(r)
    \/ \E m \in Mutations : MutationFails(m)
    \/ ProposeArrives \/ PatchArrives \/ RefineArrives \/ AcceptArrives

Next ==
    \/ PageNext
    \/ \E r \in Requests, p \in Requests : OtherRefines(r, p) \/ OtherPatches(r, p)
    \/ \E r \in Requests : ServerStep(r) /\ UNCHANGED page

Spec == Init /\ [][Next]_vars

\* The server runs its own steps and the deadline fires; the provider and the
\* user owe nothing.
FairSpec == Spec /\ \A r \in Requests : WF_vars(OwnStep(r) /\ UNCHANGED page)

--------------------------------------------------------------------------------
(* Properties of the page *)

\* The proposal on display and the accepted mapping were made for the file of
\* the URL, for a user who waits.
PatientStaysWithTheFile ==
    patient =>
        /\ proposalId # None => fileOf[proposalId] = file
        /\ mappingId # None => fileOf[mappingId] = file
================================================================================
