------------------------------- MODULE ExamPage -------------------------------
(***************************************************************************)
(* The exam page (CandidateExamWorkspace.tsx) and what the server keeps    *)
(* for it: the editor, its debounced draft saves, the query repeated every *)
(* five seconds, and the lock.                                             *)
(*                                                                         *)
(* A document is a question and a language.  Texts are numbered as they    *)
(* are typed, 0 is the starter code.  Effects run in the order of their    *)
(* declaration after each render; selecting a document renders twice.      *)
(* That the server checks before it writes is in ExamSession; here a save  *)
(* is admitted and written at once.                                        *)
(***************************************************************************)
EXTENDS Naturals, Sequences, Absence

CONSTANTS
    Documents, FirstDocument,
    DraftSaves,          \* save requests
    MaxEvents            \* bound on texts typed, proctor actions and the end of time together

ASSUME PageAssumption ==
    FirstDocument \in Documents /\ MaxEvents \in Nat

\* What an armed timer and a request under way hold.
ArmedSaves == [doc : Documents, text : Nat, fromData : BOOLEAN]
SentSaves  == [doc : Documents, text : Nat, fromData : BOOLEAN, overlaps : BOOLEAN]

ASSUME NoneIsNoSave == None \notin ArmedSaves /\ None \notin SentSaves

VARIABLES
    drafts,              \* the server's draft of each document, 0 for none
    latest, blocking,    \* newest proctor action; newest one that opens or bars
    over,                \* the exam session's time is up
    actionCount,
    typedIn,             \* typedIn[n]: the document text n was typed in
    selected, text,      \* what the editor shows
    fromData,            \* the text was not typed: starter code or the query's data
    rendering,           \* between the two renders of a selection
    timer,               \* the debounced save that is armed, or None
    out,                 \* out[s]: save request s, or None
    poll,                \* answer of the query under way, or None
    data,                \* the query's data, or None
    pageLocked,          \* examLocked
    trouble              \* a save failed or overtook another since the last was armed

serverVars == <<drafts, latest, blocking, over, actionCount>>
editorVars == <<typedIn, selected, text, fromData, rendering, timer, data, pageLocked>>
examPageVars == <<serverVars, editorVars, out, poll, trouble>>

\* PAUSE_EXAM and TERMINATE_EXAM, RESUME_EXAM, MEMO and WARNING_MESSAGE.
ActionKinds == {"bars", "opens", "remarks"}

PageInit ==
    /\ drafts = [d \in Documents |-> 0]
    /\ latest = None /\ blocking = None /\ over = FALSE /\ actionCount = 0
    /\ typedIn = <<>> /\ selected = FirstDocument /\ text = 0 /\ fromData = TRUE
    /\ rendering = FALSE /\ timer = None /\ out = [s \in DraftSaves |-> None]
    /\ poll = None /\ data = None /\ pageLocked = FALSE /\ trouble = FALSE

Ready == data # None /\ ~rendering

Arm == /\ timer' = IF pageLocked' THEN None
                   ELSE [doc |-> selected', text |-> text', fromData |-> fromData']
       /\ trouble' = FALSE

Refuses == blocking = "bars" \/ over

-----------------------------------------------------------------------------
(* The editor. *)

\* Wrong: the timer that runs is kept.
TypeOnRunningTimer ==
    /\ Ready /\ ~pageLocked /\ Len(typedIn) + actionCount < MaxEvents
    /\ typedIn' = Append(typedIn, selected)
    /\ text' = Len(typedIn) + 1 /\ fromData' = FALSE
    /\ UNCHANGED <<serverVars, selected, rendering, data, pageLocked, out, poll>>
    /\ IF timer = None THEN Arm ELSE UNCHANGED <<timer, trouble>>

Type ==
    /\ Ready /\ ~pageLocked /\ Len(typedIn) + actionCount < MaxEvents
    /\ typedIn' = Append(typedIn, selected)
    /\ text' = Len(typedIn) + 1 /\ fromData' = FALSE
    /\ UNCHANGED <<serverVars, selected, rendering, data, pageLocked, out, poll>>
    /\ Arm

\* The first render has the new document and the old text, and arms the timer
\* with them.
Select(d) ==
    /\ Ready /\ d # selected
    /\ selected' = d /\ rendering' = TRUE
    /\ UNCHANGED <<serverVars, typedIn, text, fromData, data, pageLocked, out, poll>>
    /\ Arm

\* setCode(serverDraft?.code ?? starterCode): nothing is rendered, and the timer
\* not armed again, if the text is the same.
Show(n) ==
    IF n = text THEN UNCHANGED <<text, fromData>> ELSE text' = n /\ fromData' = TRUE

\* Wrong: a document without a draft keeps the text that is there.
ShowDraftIfAny ==
    /\ rendering /\ rendering' = FALSE
    /\ Show(IF data.drafts[selected] = 0 THEN text ELSE data.drafts[selected])
    /\ UNCHANGED <<serverVars, typedIn, selected, data, pageLocked, out, poll>>
    /\ IF text' # text THEN Arm ELSE UNCHANGED <<timer, trouble>>

ShowDraft ==
    /\ rendering /\ rendering' = FALSE
    /\ Show(data.drafts[selected])
    /\ UNCHANGED <<serverVars, typedIn, selected, data, pageLocked, out, poll>>
    /\ IF text' # text THEN Arm ELSE UNCHANGED <<timer, trouble>>

-----------------------------------------------------------------------------
(* The query. *)

\* Repeated and invalidated: a later answer replaces the one under way.
PollRead ==
    /\ poll' = [drafts |-> drafts, latest |-> latest, blocking |-> blocking, over |-> over]
    /\ UNCHANGED <<serverVars, editorVars, out, trouble>>

\* Wrong: only the countdown unlocks, and it has stopped.
LockedForGood(answer) == pageLocked \/ answer.latest = "bars" \/ answer.over

\* The newest action of any type, then the countdown.
LockedBy(answer) == answer.latest = "bars" \/ answer.over

PollArrives ==
    /\ poll # None /\ ~rendering
    /\ data' = poll /\ poll' = None
    /\ pageLocked' = LockedBy(poll)
    /\ Show(poll.drafts[selected])
    /\ UNCHANGED <<serverVars, typedIn, selected, rendering, out>>
    /\ IF text' # text \/ pageLocked' # pageLocked \/ data = None
       THEN Arm ELSE UNCHANGED <<timer, trouble>>

\* The interval of the countdown does not run under a locking action.
CountdownEnds ==
    /\ Ready /\ over /\ data.latest # "bars" /\ ~pageLocked
    /\ pageLocked' = TRUE /\ timer' = None
    /\ UNCHANGED <<serverVars, typedIn, selected, text, fromData, rendering, data, out,
                   poll, trouble>>

\* Requests already sent go on.
ReloadPage ==
    /\ selected' = FirstDocument /\ text' = 0 /\ fromData' = TRUE /\ rendering' = FALSE
    /\ timer' = None /\ poll' = None /\ data' = None /\ pageLocked' = FALSE /\ trouble' = FALSE
    /\ UNCHANGED <<serverVars, typedIn, out>>

-----------------------------------------------------------------------------
(* The saves. *)

Under(d) == {s \in DraftSaves : out[s] # None /\ out[s].doc = d}

TimerFires(s) ==
    /\ timer # None /\ ~rendering /\ out[s] = None
    /\ LET rivals == {o \in DraftSaves : out[o] # None /\ out[o].doc = timer.doc} IN
       out' = [o \in DraftSaves |->
           IF o = s THEN [doc |-> timer.doc, text |-> timer.text, fromData |-> timer.fromData,
                          overlaps |-> rivals # {}]
           ELSE IF o \in rivals THEN [out[o] EXCEPT !.overlaps = TRUE] ELSE out[o]]
    /\ timer' = None
    /\ UNCHANGED <<serverVars, typedIn, selected, text, fromData, rendering, data, pageLocked,
                   poll, trouble>>

SaveDraft(s) ==
    /\ out[s] # None /\ ~Refuses
    /\ drafts' = [drafts EXCEPT ![out[s].doc] = out[s].text]
    /\ trouble' = (trouble \/ out[s].overlaps)
    /\ out' = [out EXCEPT ![s] = None]
    /\ UNCHANGED <<latest, blocking, over, actionCount, editorVars, poll>>

\* Wrong: what was not saved is tried again.
RetrySave(s) ==
    /\ out[s] # None
    /\ out' = [out EXCEPT ![s] = None]
    /\ trouble' = TRUE
    /\ timer' = IF timer # None \/ pageLocked THEN timer
                ELSE [doc |-> out[s].doc, text |-> out[s].text, fromData |-> out[s].fromData]
    /\ UNCHANGED <<serverVars, typedIn, selected, text, fromData, rendering, data, pageLocked,
                   poll>>

\* Refused or failed: the page says so, and nothing else.
SaveIsLost(s) ==
    /\ out[s] # None
    /\ out' = [out EXCEPT ![s] = None]
    /\ trouble' = TRUE
    /\ UNCHANGED <<serverVars, editorVars, poll>>

-----------------------------------------------------------------------------
(* The server's side. *)

ProctorActs(kind) ==
    /\ Len(typedIn) + actionCount < MaxEvents
    /\ actionCount' = actionCount + 1
    /\ latest' = kind
    /\ blocking' = IF kind = "remarks" THEN blocking ELSE kind
    /\ UNCHANGED <<drafts, over, editorVars, out, poll, trouble>>

TimeEnds ==
    /\ ~over /\ Len(typedIn) + actionCount < MaxEvents
    /\ over' = TRUE /\ actionCount' = actionCount + 1
    /\ UNCHANGED <<drafts, latest, blocking, editorVars, out, poll, trouble>>

PageNext ==
    \/ Type \/ ShowDraft \/ PollRead \/ PollArrives \/ CountdownEnds \/ ReloadPage
    \/ \E d \in Documents : Select(d)
    \/ \E s \in DraftSaves : TimerFires(s) \/ SaveDraft(s) \/ SaveIsLost(s)
    \/ \E kind \in ActionKinds : ProctorActs(kind)
    \/ TimeEnds

PageSpec == PageInit /\ [][PageNext]_examPageVars

-----------------------------------------------------------------------------
(* Selecting a document arms a save of the old text under the new document, and
   only the second render disarms it (the effects on data, language and
   selectedQuestionId and on code): no draft ever holds a text that was typed
   for another question or language, however selections, polls and saves mix. *)
DraftsBelongToTheirDocument ==
    \A d \in Documents : drafts[d] # 0 => typedIn[drafts[d]] = d

(* The debounce is restarted and cleared from six places.  In an open editor a
   text the server does not have is about to be saved, unless a save failed,
   which is not repeated, or two were under way at once. *)
UnsavedIsPending ==
    Ready /\ ~pageLocked /\ text # drafts[selected] =>
        timer # None \/ Under(selected) # {} \/ trouble

(* Every answer of the query sets the editor to the draft it carries, and what
   the editor is set to is saved in turn; an answer may be older than the last
   save.  These are the ways a draft goes back to an older text: the text was
   set from such data, or two saves of the document were under way at once. *)
DraftsGoBackOnlyFromOldData ==
    [][\A d \in Documents : drafts'[d] < drafts[d] =>
          \E s \in DraftSaves : /\ out[s] # None /\ out'[s] = None
                                /\ out[s].fromData \/ out[s].overlaps]_examPageVars

(* The page locks on the newest action of any type, the server refuses by the
   newest one that bars or opens: once the page has seen the server's actions,
   it is locked exactly if a save would be refused, unless the newest action is
   a memo or a warning. *)
LockAgreesWithServer ==
    Ready /\ data.latest = latest /\ data.blocking = blocking /\ data.over = over =>
        (pageLocked <=> Refuses) \/ latest = "remarks"
===============================================================================
