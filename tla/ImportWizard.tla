------------------------------ MODULE ImportWizard ------------------------------
(***************************************************************************)
(* The page /imports/new: useImportWizard drives upload, mapping, preview  *)
(* and launch.  The user's clicks interleave with the answers of the API;  *)
(* resetting a mutation forgets its result but does not cancel the        *)
(* request, and the code awaiting it still runs.  The profile, the data    *)
(* source and the sample size are absent: they reset nothing.  The data of *)
(* the file in the URL counts as loaded.                                   *)
(***************************************************************************)
EXTENDS Naturals, FiniteSets

CONSTANTS
    FileIds, MappingIds,
    None,
    Imported,      \* the files that have been imported before
    MaxRequests    \* bound: previews and launches sent

ASSUME WizardAssumption ==
    /\ None \notin FileIds \cup MappingIds
    /\ Imported \subseteq FileIds
    /\ MaxRequests \in Nat

VARIABLES
    patient,                \* the habit of the user: waiting for every answer, or not
    fileId, mappingId,      \* in the URL
    preview,                \* what the displayed preview was made of
    importRunId,            \* the displayed run, by what it imports
    duplicateAcknowledged,  \* None, or the file the user acknowledged (history)
    uploading,              \* the file on its way, or None
    previewing, creating,   \* requests in flight
    previewMutation, createMutation,  \* the request the page still observes
    sent,                   \* requests sent
    launched                \* history: what was launched, and the preview then

vars == <<patient, fileId, mappingId, preview, importRunId, duplicateAcknowledged, uploading,
          previewing, creating, previewMutation, createMutation, sent, launched>>

Selection == [file |-> fileId, mapping |-> mappingId]

Selections == [file : FileIds, mapping : MappingIds]

Request == [file : FileIds, mapping : MappingIds, number : 1..MaxRequests]

What(q) == [file |-> q.file, mapping |-> q.mapping]

TypeOK ==
    /\ patient \in BOOLEAN
    /\ fileId \in FileIds \cup {None} /\ mappingId \in MappingIds \cup {None}
    /\ preview \in Selections \cup {None} /\ importRunId \in Selections \cup {None}
    /\ duplicateAcknowledged \in FileIds \cup {None} /\ uploading \in FileIds \cup {None}
    /\ previewing \subseteq Request /\ creating \subseteq Request
    /\ previewMutation \in previewing \cup {None} /\ createMutation \in creating \cup {None}
    /\ sent \in 0..MaxRequests
    /\ launched \subseteq [what : Selections, seen : Selections]

\* The mapping studio leads back here with the selection in the URL
Init ==
    /\ patient \in BOOLEAN
    /\ fileId \in FileIds \cup {None} /\ mappingId \in MappingIds \cup {None}
    /\ preview = None /\ importRunId = None
    /\ duplicateAcknowledged = None /\ uploading = None
    /\ previewing = {} /\ creating = {}
    /\ previewMutation = None /\ createMutation = None
    /\ sent = 0 /\ launched = {}

--------------------------------------------------------------------------------
(* What the effects and the handlers clear *)

Waiting == patient /\ (previewing # {} \/ creating # {})

\* Mutant: a change of file keeps the displayed run.
ForgetFileButRun ==
    /\ preview' = None /\ duplicateAcknowledged' = None
    /\ previewMutation' = None /\ createMutation' = None
    /\ UNCHANGED importRunId

ForgetFile ==
    /\ preview' = None
    /\ importRunId' = None
    /\ duplicateAcknowledged' = None
    /\ previewMutation' = None
    /\ createMutation' = None

Requests == <<previewing, creating, sent, launched>>

\* The dropzone is shown while there is no file
StartUpload(f) ==
    /\ fileId = None /\ uploading = None
    /\ uploading' = f
    /\ ForgetFile
    /\ UNCHANGED <<patient, fileId, mappingId, Requests>>

UploadArrives ==
    /\ uploading # None
    /\ fileId' = uploading
    /\ uploading' = None
    /\ ForgetFile
    /\ UNCHANGED <<patient, mappingId, Requests>>

UploadFails ==
    /\ uploading # None
    /\ uploading' = None
    /\ UNCHANGED <<patient, fileId, mappingId, preview, importRunId,
                   duplicateAcknowledged, previewMutation, createMutation, Requests>>

\* reset: Replace, or Import another file
Reset ==
    /\ fileId # None /\ ~Waiting
    /\ fileId' = None
    /\ ForgetFile
    /\ UNCHANGED <<patient, mappingId, uploading, Requests>>

\* Mutant: a change of mapping keeps the preview.
SelectMappingKeepsPreview(m) ==
    /\ m # mappingId /\ fileId # None /\ ~Waiting
    /\ mappingId' = m
    /\ UNCHANGED <<patient, fileId, uploading, preview, previewMutation, importRunId,
                   duplicateAcknowledged, createMutation, Requests>>

\* selectMapping, and the effect on mappingId
SelectMapping(m) ==
    /\ m # mappingId /\ fileId # None /\ ~Waiting
    /\ mappingId' = m
    /\ preview' = None
    /\ previewMutation' = None
    /\ UNCHANGED <<patient, fileId, uploading, importRunId, duplicateAcknowledged,
                   createMutation, Requests>>

AcknowledgeDuplicate ==
    /\ fileId \in Imported
    /\ duplicateAcknowledged' = fileId
    /\ UNCHANGED <<patient, fileId, mappingId, uploading, preview, importRunId,
                   previewMutation, createMutation, Requests>>

--------------------------------------------------------------------------------
(* Preview and launch *)

NewRequest == [file |-> fileId, mapping |-> mappingId, number |-> sent + 1]

\* The button is loading while the mutation it observes is pending
RunPreview ==
    /\ Selection \in Selections
    /\ previewMutation = None /\ ~Waiting
    /\ sent < MaxRequests
    /\ sent' = sent + 1
    /\ previewing' = previewing \cup {NewRequest}
    /\ previewMutation' = NewRequest
    /\ UNCHANGED <<patient, fileId, mappingId, uploading, preview, importRunId,
                   duplicateAcknowledged, creating, createMutation, launched>>

\* The await in runPreview returns, or throws: setPreview does not look at
\* the selection of that moment
PreviewArrives(q) ==
    /\ q \in previewing
    /\ previewing' = previewing \ {q}
    /\ previewMutation' = IF previewMutation = q THEN None ELSE previewMutation
    /\ preview' \in {What(q), preview}
    /\ UNCHANGED <<patient, fileId, mappingId, uploading, importRunId,
                   duplicateAcknowledged, creating, createMutation, sent, launched>>

DuplicateBlocked == fileId \in Imported /\ duplicateAcknowledged = None

CanLaunch == Selection \in Selections /\ preview # None /\ ~DuplicateBlocked

LaunchImport ==
    /\ CanLaunch
    /\ importRunId = None /\ createMutation = None /\ ~Waiting
    /\ sent < MaxRequests
    /\ sent' = sent + 1
    /\ creating' = creating \cup {NewRequest}
    /\ createMutation' = NewRequest
    /\ launched' = launched \cup {[what |-> Selection, seen |-> preview]}
    /\ UNCHANGED <<patient, fileId, mappingId, uploading, preview, importRunId,
                   duplicateAcknowledged, previewing, previewMutation>>

\* 202 shows the run; an error leaves the page as it is
LaunchArrives(q) ==
    /\ q \in creating
    /\ creating' = creating \ {q}
    /\ createMutation' = IF createMutation = q THEN None ELSE createMutation
    /\ importRunId' \in {What(q), importRunId}
    /\ UNCHANGED <<patient, fileId, mappingId, uploading, preview,
                   duplicateAcknowledged, previewing, previewMutation, sent, launched>>

Next ==
    \/ \E f \in FileIds : StartUpload(f)
    \/ UploadArrives \/ UploadFails \/ Reset
    \/ \E m \in MappingIds \cup {None} : SelectMapping(m)
    \/ AcknowledgeDuplicate
    \/ RunPreview \/ LaunchImport
    \/ \E q \in previewing : PreviewArrives(q)
    \/ \E q \in creating : LaunchArrives(q)

Spec == Init /\ [][Next]_vars

--------------------------------------------------------------------------------
(* Properties *)

\* What the user validated is what gets imported: the preview displayed at a
\* launch was made of the launched file with the launched mapping.
LaunchedAsPreviewed == \A l \in launched : l.seen = l.what

\* The same for a user who waits for every answer before changing anything:
\* uploads, resets and changes of mapping in any order never leave a preview
\* behind.
PatientLaunchedAsPreviewed == patient => LaunchedAsPreviewed

\* The acknowledgement of one file never lets another one through, whatever
\* is in flight.
AckIsForThisFile == duplicateAcknowledged \in {None, fileId}

\* The run displayed under a file imports that file, for a user who waits.
PatientRunIsForThisFile ==
    patient /\ importRunId # None => importRunId.file = fileId
================================================================================
