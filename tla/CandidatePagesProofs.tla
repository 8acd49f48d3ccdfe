------------------------- MODULE CandidatePagesProofs -------------------------
(***************************************************************************)
(* The pages of a candidate.  First ExamPage, for every set of documents   *)
(* and of requests: PageInv says what the editor, the timer, the requests  *)
(* and the answers hold; NewerInv, PendingInv and LockInv rest on it, each *)
(* for one of the properties.  Then the pages before the exam, for every   *)
(* number of open pages, requests, releases and every lifetime of a token: *)
(* EnvironmentCheck with CheckInv, what the requests under way carry, and  *)
(* IdentityVerification with IdentityInv, which says that a request keeps  *)
(* a consent on record from one call to the next.                          *)
(***************************************************************************)
EXTENDS ExamPage, IdentityVerification, EnvironmentCheck, TLAPS

Answers == [drafts : [Documents -> Nat], latest : ActionKinds \cup {None},
            blocking : ActionKinds \cup {None}, over : BOOLEAN]

Types ==
    /\ drafts \in [Documents -> Nat]
    /\ latest \in ActionKinds \cup {None} /\ blocking \in ActionKinds \cup {None}
    /\ over \in BOOLEAN
    /\ typedIn \in Seq(Documents)
    /\ selected \in Documents /\ text \in Nat /\ fromData \in BOOLEAN
    /\ rendering \in BOOLEAN /\ pageLocked \in BOOLEAN /\ trouble \in BOOLEAN
    /\ timer \in ArmedSaves \cup {None}
    /\ out \in [DraftSaves -> SentSaves \cup {None}]
    /\ poll \in Answers \cup {None} /\ data \in Answers \cup {None}

\* The armed save is of what is shown.
TimerIsOfEditor ==
    timer # None => timer = [doc |-> selected, text |-> text, fromData |-> fromData]

\* n is the starter code or was typed in d.
Fits(typed, d, n) == n # 0 => n \in 1..Len(typed) /\ typed[n] = d

AllFit(typed, ds) == \A d \in Documents : Fits(typed, d, ds[d])

\* Between the renders of a selection, and only then, the text may be of
\* another document.
TextsFit ==
    /\ AllFit(typedIn, drafts)
    /\ ~rendering => Fits(typedIn, selected, text)
    /\ rendering => data # None
    /\ \A s \in DraftSaves : out[s] # None => Fits(typedIn, out[s].doc, out[s].text)
    /\ poll # None => AllFit(typedIn, poll.drafts)
    /\ data # None => AllFit(typedIn, data.drafts)

PageInv == Types /\ TimerIsOfEditor /\ TextsFit

-----------------------------------------------------------------------------
LEMMA PageStarts == PageInit => PageInv
<1> SUFFICES ASSUME PageInit PROVE PageInv
  OBVIOUS
<1>1. Types
  <2>1. typedIn \in Seq(Documents)
    BY DEF PageInit
  <2>2. drafts \in [Documents -> Nat] /\ out \in [DraftSaves -> SentSaves \cup {None}]
    BY DEF PageInit
  <2>3. selected \in Documents /\ text \in Nat
    BY PageAssumption DEF PageInit
  <2>4. /\ over \in BOOLEAN /\ fromData \in BOOLEAN /\ rendering \in BOOLEAN
        /\ pageLocked \in BOOLEAN /\ trouble \in BOOLEAN
    BY Zenon DEF PageInit
  <2>5. /\ latest = None /\ blocking = None /\ timer = None /\ poll = None /\ data = None
    BY Zenon DEF PageInit
  <2> QED BY <2>1, <2>2, <2>3, <2>4, <2>5, Zenon DEF Types
<1>2. TimerIsOfEditor
  BY DEF PageInit, TimerIsOfEditor
<1>3. TextsFit
  BY DEF PageInit, TextsFit, AllFit, Fits
<1> QED BY <1>1, <1>2, <1>3 DEF PageInv

(* What was typed stays typed. *)
LEMMA FitsIsKept ==
    ASSUME typedIn \in Seq(Documents), typedIn' \in Seq(Documents),
           typedIn' = typedIn \/ typedIn' = Append(typedIn, selected),
           selected \in Documents
    PROVE  \A d : \A n : Fits(typedIn, d, n) => Fits(typedIn', d, n)
<1> SUFFICES ASSUME NEW d, NEW n, Fits(typedIn, d, n), n # 0
             PROVE  n \in 1..Len(typedIn') /\ typedIn'[n] = d
  BY DEF Fits
<1>1. n \in 1..Len(typedIn) /\ typedIn[n] = d
  BY DEF Fits
<1>2. CASE typedIn' = typedIn
  BY <1>1, <1>2
<1>3. CASE typedIn' = Append(typedIn, selected)
  BY <1>1, <1>3
<1> QED BY <1>2, <1>3

(* Arming mirrors the editor, in a locked page it clears. *)
LEMMA ArmMirrors ==
    ASSUME Arm, selected' \in Documents, text' \in Nat, fromData' \in BOOLEAN,
           pageLocked' \in BOOLEAN
    PROVE  /\ timer' \in ArmedSaves \cup {None} /\ TimerIsOfEditor' /\ trouble' = FALSE
           /\ timer' = None <=> pageLocked'
<1> DEFINE armed == [doc |-> selected', text |-> text', fromData |-> fromData']
<1>1. armed \in ArmedSaves /\ armed # None
  BY NoneIsNoSave DEF ArmedSaves
<1>2. CASE pageLocked'
  BY <1>2 DEF Arm, TimerIsOfEditor
<1>3. CASE ~pageLocked'
  BY <1>1, <1>3 DEF Arm, TimerIsOfEditor
<1> QED BY <1>2, <1>3 DEF Arm

(* Whatever was there, the editor has the text it is given; that it was typed
   is only forgotten if it is another. *)
LEMMA ShowSets ==
    ASSUME NEW n \in Nat, text \in Nat, fromData \in BOOLEAN, Show(n)
    PROVE  /\ text' = n /\ text' \in Nat /\ fromData' \in BOOLEAN
           /\ text' = text => fromData' = fromData
           /\ text' # text => fromData' = TRUE
BY DEF Show

(* The server, the requests and the answers under way change, the editor does not. *)
LEMMA EditorUnchanged ==
    ASSUME PageInv, UNCHANGED editorVars
    PROVE  /\ selected' \in Documents /\ text' \in Nat /\ fromData' \in BOOLEAN
           /\ rendering' \in BOOLEAN /\ pageLocked' \in BOOLEAN
           /\ typedIn' \in Seq(Documents) /\ timer' \in ArmedSaves \cup {None}
           /\ data' \in Answers \cup {None} /\ TimerIsOfEditor'
           /\ \A d : \A n : Fits(typedIn, d, n) => Fits(typedIn', d, n)
<1>1. UNCHANGED <<typedIn, selected, text, fromData, rendering, timer, data, pageLocked>>
  BY DEF editorVars
<1>2. TimerIsOfEditor'
  BY <1>1 DEF PageInv, TimerIsOfEditor
<1>3. \A d : \A n : Fits(typedIn, d, n) => Fits(typedIn', d, n)
  BY <1>1 DEF Fits
<1> QED BY <1>1, <1>2, <1>3, Zenon DEF PageInv, Types

LEMMA TypeKeepsPage == PageInv /\ Type => PageInv'
<1> SUFFICES ASSUME PageInv, Type PROVE PageInv'
  OBVIOUS
<1>1. /\ typedIn' = Append(typedIn, selected) /\ text' = Len(typedIn) + 1
      /\ fromData' = FALSE /\ Arm /\ ~rendering
      /\ UNCHANGED <<serverVars, selected, rendering, data, pageLocked, out, poll>>
  BY DEF Type, Ready
<1>2. /\ typedIn \in Seq(Documents) /\ typedIn' \in Seq(Documents)
      /\ text' \in Nat /\ Len(typedIn') = Len(typedIn) + 1
      /\ typedIn'[Len(typedIn) + 1] = selected
  BY <1>1 DEF PageInv, Types
<1>3. selected' \in Documents /\ fromData' \in BOOLEAN /\ pageLocked' \in BOOLEAN
  BY <1>1, Zenon DEF PageInv, Types
<1>4. timer' \in ArmedSaves \cup {None} /\ TimerIsOfEditor' /\ trouble' = FALSE
  BY <1>1, <1>2, <1>3, ArmMirrors, Zenon
<1>5. Types'
  BY <1>1, <1>2, <1>3, <1>4, Zenon DEF PageInv, Types, serverVars
<1>6. \A d : \A n : Fits(typedIn, d, n) => Fits(typedIn', d, n)
  BY <1>1, <1>2, FitsIsKept, Zenon DEF PageInv, Types
<1>7. Fits(typedIn', selected', text')
  BY <1>1, <1>2 DEF Fits
<1>8. TextsFit'
  BY <1>1, <1>6, <1>7, Zenon DEF PageInv, TextsFit, AllFit, serverVars
<1> QED BY <1>4, <1>5, <1>8 DEF PageInv

LEMMA SelectKeepsPage ==
    ASSUME NEW d \in Documents, PageInv, Select(d)
    PROVE  PageInv'
<1>1. /\ selected' = d /\ rendering' = TRUE /\ Arm /\ data # None
      /\ UNCHANGED <<serverVars, typedIn, text, fromData, data, pageLocked, out, poll>>
  BY DEF Select, Ready
<1>2. /\ selected' \in Documents /\ text' \in Nat /\ fromData' \in BOOLEAN
      /\ pageLocked' \in BOOLEAN
  BY <1>1, Zenon DEF PageInv, Types
<1>3. timer' \in ArmedSaves \cup {None} /\ TimerIsOfEditor' /\ trouble' = FALSE
  BY <1>1, <1>2, ArmMirrors, Zenon
<1>4. Types'
  BY <1>1, <1>2, <1>3, Zenon DEF PageInv, Types, serverVars
<1>5. \A c : \A n : Fits(typedIn, c, n) => Fits(typedIn', c, n)
  BY <1>1, Zenon DEF Fits
<1>6. TextsFit'
  BY <1>1, <1>5, Zenon DEF PageInv, TextsFit, AllFit, serverVars
<1> QED BY <1>3, <1>4, <1>6 DEF PageInv

LEMMA ShowDraftKeepsPage == PageInv /\ ShowDraft => PageInv'
<1> SUFFICES ASSUME PageInv, ShowDraft PROVE PageInv'
  OBVIOUS
<1>1. /\ rendering /\ rendering' = FALSE /\ Show(data.drafts[selected])
      /\ UNCHANGED <<serverVars, typedIn, selected, data, pageLocked, out, poll>>
      /\ IF text' # text THEN Arm ELSE UNCHANGED <<timer, trouble>>
  BY DEF ShowDraft
<1>2. data \in Answers /\ AllFit(typedIn, data.drafts)
  BY <1>1 DEF PageInv, Types, TextsFit
<1>3. data.drafts[selected] \in Nat
  BY <1>2 DEF PageInv, Types, Answers
<1>4. /\ text' = data.drafts[selected] /\ text' \in Nat /\ fromData' \in BOOLEAN
      /\ text' = text => fromData' = fromData
  BY <1>1, <1>3, ShowSets DEF PageInv, Types
<1>5. selected' \in Documents /\ pageLocked' \in BOOLEAN
  BY <1>1, Zenon DEF PageInv, Types
<1>6. timer' \in ArmedSaves \cup {None} /\ TimerIsOfEditor' /\ trouble' \in BOOLEAN
  <2>1. CASE text' # text
    BY <1>1, <1>4, <1>5, <2>1, ArmMirrors, Zenon
  <2>2. CASE text' = text
    BY <1>1, <1>4, <2>2 DEF PageInv, Types, TimerIsOfEditor
  <2> QED BY <2>1, <2>2
<1>7. Types'
  BY <1>1, <1>4, <1>5, <1>6, Zenon DEF PageInv, Types, serverVars
<1>8. \A d : \A n : Fits(typedIn, d, n) => Fits(typedIn', d, n)
  BY <1>1, Zenon DEF Fits
<1>9. Fits(typedIn', selected', text')
  BY <1>1, <1>2, <1>4, Zenon DEF PageInv, Types, Fits, AllFit
<1>10. TextsFit'
  BY <1>1, <1>8, <1>9, Zenon DEF PageInv, TextsFit, AllFit, serverVars
<1> QED BY <1>6, <1>7, <1>10 DEF PageInv

LEMMA PollReadKeepsPage == PageInv /\ PollRead => PageInv'
<1> SUFFICES ASSUME PageInv, PollRead PROVE PageInv'
  OBVIOUS
<1>1. /\ poll' = [drafts |-> drafts, latest |-> latest, blocking |-> blocking, over |-> over]
      /\ UNCHANGED editorVars /\ UNCHANGED <<serverVars, out, trouble>>
  BY DEF PollRead
<1>2. poll' \in Answers /\ poll'.drafts = drafts
  BY <1>1 DEF PageInv, Types, Answers
<1>3. Types'
  BY <1>1, <1>2, EditorUnchanged, Zenon DEF PageInv, Types, serverVars
<1>4. TimerIsOfEditor' /\ \A c : \A n : Fits(typedIn, c, n) => Fits(typedIn', c, n)
  BY <1>1, EditorUnchanged, Zenon
<1>5. TextsFit'
  BY <1>1, <1>2, <1>4, Zenon DEF PageInv, TextsFit, AllFit, serverVars, editorVars
<1> QED BY <1>3, <1>4, <1>5 DEF PageInv

LEMMA PollArrivesKeepsPage == PageInv /\ PollArrives => PageInv'
<1> SUFFICES ASSUME PageInv, PollArrives PROVE PageInv'
  OBVIOUS
<1>1. /\ poll # None /\ ~rendering /\ data' = poll /\ poll' = None
      /\ pageLocked' = LockedBy(poll) /\ Show(poll.drafts[selected])
      /\ UNCHANGED <<serverVars, typedIn, selected, rendering, out>>
  BY DEF PollArrives
<1>2. poll \in Answers /\ AllFit(typedIn, poll.drafts)
  BY <1>1 DEF PageInv, Types, TextsFit
<1>3. poll.drafts[selected] \in Nat
  BY <1>2 DEF PageInv, Types, Answers
<1>4. /\ text' = poll.drafts[selected] /\ text' \in Nat /\ fromData' \in BOOLEAN
      /\ text' = text => fromData' = fromData
  BY <1>1, <1>3, ShowSets DEF PageInv, Types
<1>5. selected' \in Documents /\ pageLocked' \in BOOLEAN
  BY <1>1, Zenon DEF PageInv, Types, LockedBy
<1>6. timer' \in ArmedSaves \cup {None} /\ TimerIsOfEditor' /\ trouble' \in BOOLEAN
  <2>1. CASE Arm
    BY <1>1, <1>4, <1>5, <2>1, ArmMirrors, Zenon
  <2>2. CASE text' = text /\ UNCHANGED <<timer, trouble>>
    BY <1>1, <1>4, <2>2 DEF PageInv, Types, TimerIsOfEditor
  <2> QED BY <2>1, <2>2 DEF PollArrives
<1>7. Types'
  BY <1>1, <1>2, <1>4, <1>5, <1>6, Zenon DEF PageInv, Types, serverVars
<1>8. \A d : \A n : Fits(typedIn, d, n) => Fits(typedIn', d, n)
  BY <1>1, Zenon DEF Fits
<1>9. Fits(typedIn', selected', text')
  BY <1>1, <1>2, <1>4, Zenon DEF PageInv, Types, Fits, AllFit
<1>10. TextsFit'
  BY <1>1, <1>2, <1>8, <1>9, Zenon DEF PageInv, TextsFit, AllFit, serverVars
<1> QED BY <1>6, <1>7, <1>10 DEF PageInv

LEMMA CountdownKeepsPage == PageInv /\ CountdownEnds => PageInv'
<1> SUFFICES ASSUME PageInv, CountdownEnds PROVE PageInv'
  OBVIOUS
<1>1. /\ pageLocked' = TRUE /\ timer' = None
      /\ UNCHANGED <<serverVars, typedIn, selected, text, fromData, rendering, data, out,
                     poll, trouble>>
  BY DEF CountdownEnds
<1>2. Types'
  BY <1>1, Zenon DEF PageInv, Types, serverVars
<1>3. TimerIsOfEditor'
  BY <1>1 DEF TimerIsOfEditor
<1>4. \A d : \A n : Fits(typedIn, d, n) => Fits(typedIn', d, n)
  BY <1>1, Zenon DEF Fits
<1>5. TextsFit'
  BY <1>1, <1>4, Zenon DEF PageInv, TextsFit, AllFit, serverVars
<1> QED BY <1>2, <1>3, <1>5 DEF PageInv

LEMMA ReloadKeepsPage == PageInv /\ ReloadPage => PageInv'
<1> SUFFICES ASSUME PageInv, ReloadPage PROVE PageInv'
  OBVIOUS
<1>1. /\ selected' = FirstDocument /\ text' = 0 /\ fromData' = TRUE /\ rendering' = FALSE
      /\ timer' = None /\ poll' = None /\ data' = None /\ pageLocked' = FALSE
      /\ trouble' = FALSE /\ UNCHANGED <<serverVars, typedIn, out>>
  BY DEF ReloadPage
<1>2. text' \in Nat
  BY <1>1
<1>3. Types'
  BY <1>1, <1>2, PageAssumption, Zenon DEF PageInv, Types, serverVars
<1>4. TimerIsOfEditor'
  BY <1>1 DEF TimerIsOfEditor
<1>5. \A d : \A n : Fits(typedIn, d, n) => Fits(typedIn', d, n)
  BY <1>1, Zenon DEF Fits
<1>6. TextsFit'
  BY <1>1, <1>5, Zenon DEF PageInv, TextsFit, AllFit, Fits, serverVars
<1> QED BY <1>3, <1>4, <1>6 DEF PageInv

LEMMA SentIsSome ==
    ASSUME NEW d \in Documents, NEW n \in Nat, NEW f \in BOOLEAN, NEW o \in BOOLEAN
    PROVE  LET sent == [doc |-> d, text |-> n, fromData |-> f, overlaps |-> o] IN
           sent \in SentSaves /\ sent # None
BY NoneIsNoSave DEF SentSaves

(* What a timer sends is what it held. *)
LEMMA TimerSends ==
    ASSUME NEW s \in DraftSaves, PageInv, TimerFires(s)
    PROVE  /\ timer \in ArmedSaves /\ timer' = None /\ ~rendering /\ out[s] = None
           /\ out' \in [DraftSaves -> SentSaves \cup {None}]
           /\ out'[s] # None /\ out'[s].doc = timer.doc /\ out'[s].text = timer.text
           /\ out'[s].fromData = timer.fromData
           /\ \A o \in DraftSaves \ {s} :
                 /\ out[o] = None <=> out'[o] = None
                 /\ out[o] # None =>
                       /\ out'[o].doc = out[o].doc /\ out'[o].text = out[o].text
                       /\ out'[o].fromData = out[o].fromData
                       /\ out[o].overlaps => out'[o].overlaps
                       /\ out[o].doc = timer.doc => out'[o].overlaps /\ out'[s].overlaps
<1> DEFINE rivals == {o \in DraftSaves : out[o] # None /\ out[o].doc = timer.doc}
           sent == [doc |-> timer.doc, text |-> timer.text, fromData |-> timer.fromData,
                    overlaps |-> rivals # {}]
<1>1. /\ timer \in ArmedSaves /\ timer' = None /\ ~rendering /\ out[s] = None
      /\ out \in [DraftSaves -> SentSaves \cup {None}]
  BY DEF TimerFires, PageInv, Types
<1>2. sent \in SentSaves /\ sent # None
  <2>1. (rivals # {}) \in BOOLEAN
    OBVIOUS
  <2>2. /\ timer.doc \in Documents /\ timer.text \in Nat /\ timer.fromData \in BOOLEAN
    BY <1>1 DEF ArmedSaves
  <2> HIDE DEF rivals
  <2> QED BY <2>1, <2>2, SentIsSome, Zenon
<1>3. out' = [o \in DraftSaves |->
                 IF o = s THEN sent
                 ELSE IF o \in rivals THEN [out[o] EXCEPT !.overlaps = TRUE] ELSE out[o]]
  BY DEF TimerFires
<1>4. /\ out'[s] = sent /\ sent.doc = timer.doc /\ sent.text = timer.text
      /\ sent.fromData = timer.fromData
  BY <1>3
<1>5. \A o \in DraftSaves \ {s} :
         /\ out'[o] \in SentSaves \cup {None} /\ (out[o] = None <=> out'[o] = None)
         /\ out[o] # None =>
               /\ out'[o].doc = out[o].doc /\ out'[o].text = out[o].text
               /\ out'[o].fromData = out[o].fromData
               /\ out[o].overlaps => out'[o].overlaps
               /\ out[o].doc = timer.doc => out'[o].overlaps /\ sent.overlaps
  <2> SUFFICES ASSUME NEW o \in DraftSaves \ {s}
               PROVE
         /\ out'[o] \in SentSaves \cup {None} /\ (out[o] = None <=> out'[o] = None)
         /\ out[o] # None =>
               /\ out'[o].doc = out[o].doc /\ out'[o].text = out[o].text
               /\ out'[o].fromData = out[o].fromData
               /\ out[o].overlaps => out'[o].overlaps
               /\ out[o].doc = timer.doc => out'[o].overlaps /\ sent.overlaps
    OBVIOUS
  <2>1. CASE o \notin rivals
    <3>1. out'[o] = out[o] /\ (out[o] # None => out[o].doc # timer.doc)
      BY <1>3, <2>1
    <3> QED BY <1>1, <3>1
  <2>2. CASE o \in rivals
    <3>1. out'[o] = [out[o] EXCEPT !.overlaps = TRUE] /\ sent.overlaps /\ out[o] # None
      BY <1>3, <2>2
    <3>2. out[o] \in SentSaves
      BY <1>1, <3>1
    <3>3. /\ out'[o] \in SentSaves /\ out'[o].doc = out[o].doc /\ out'[o].text = out[o].text
          /\ out'[o].fromData = out[o].fromData /\ out'[o].overlaps
      BY <3>1, <3>2 DEF SentSaves
    <3>4. out'[o] # None
      BY <3>3, NoneIsNoSave
    <3> QED BY <3>1, <3>3, <3>4
  <2> QED BY <2>1, <2>2
<1>6. out' \in [DraftSaves -> SentSaves \cup {None}]
  <2>1. \A o \in DraftSaves : out'[o] \in SentSaves \cup {None}
    BY <1>2, <1>4, <1>5
  <2> HIDE DEF rivals, sent
  <2> QED BY <1>3, <2>1
<1> QED BY <1>1, <1>2, <1>4, <1>5, <1>6

LEMMA TimerKeepsPage ==
    ASSUME NEW s \in DraftSaves, PageInv, TimerFires(s)
    PROVE  PageInv'
<1>1. UNCHANGED <<serverVars, typedIn, selected, text, fromData, rendering, data, pageLocked,
                  poll, trouble>>
  BY DEF TimerFires
<1>2. timer' = None /\ out' \in [DraftSaves -> SentSaves \cup {None}]
  BY TimerSends
<1>3. Types'
  BY <1>1, <1>2, Zenon DEF PageInv, Types, serverVars
<1>4. TimerIsOfEditor'
  BY <1>2 DEF TimerIsOfEditor
<1>5. \A d : \A n : Fits(typedIn, d, n) => Fits(typedIn', d, n)
  BY <1>1, Zenon DEF Fits
<1>6. \A o \in DraftSaves : out'[o] # None => Fits(typedIn', out'[o].doc, out'[o].text)
  <2> SUFFICES ASSUME NEW o \in DraftSaves, out'[o] # None
               PROVE  Fits(typedIn', out'[o].doc, out'[o].text)
    OBVIOUS
  <2>1. CASE o = s
    <3>1. timer # None /\ ~rendering
      BY DEF TimerFires
    <3>2. timer.doc = selected /\ timer.text = text
      BY <3>1 DEF PageInv, TimerIsOfEditor
    <3>3. out'[o].doc = selected /\ out'[o].text = text
      BY <2>1, <3>2, TimerSends
    <3> QED BY <1>5, <3>1, <3>3 DEF PageInv, TextsFit
  <2>2. CASE o # s
    <3>1. out[o] # None /\ out'[o].doc = out[o].doc /\ out'[o].text = out[o].text
      BY <2>2, TimerSends
    <3> QED BY <1>5, <3>1 DEF PageInv, TextsFit
  <2> QED BY <2>1, <2>2
<1>7. TextsFit'
  BY <1>1, <1>5, <1>6, Zenon DEF PageInv, TextsFit, AllFit, serverVars
<1> QED BY <1>3, <1>4, <1>7 DEF PageInv

LEMMA SaveKeepsPage ==
    ASSUME NEW s \in DraftSaves, PageInv, SaveDraft(s)
    PROVE  PageInv'
<1>1. /\ out[s] # None /\ drafts' = [drafts EXCEPT ![out[s].doc] = out[s].text]
      /\ trouble' = (trouble \/ out[s].overlaps) /\ out' = [out EXCEPT ![s] = None]
      /\ UNCHANGED editorVars /\ UNCHANGED <<latest, blocking, over, poll>>
  BY DEF SaveDraft
<1>2. out \in [DraftSaves -> SentSaves \cup {None}] /\ out[s] \in SentSaves
  BY <1>1 DEF PageInv, Types
<1>3. drafts' \in [Documents -> Nat] /\ out[s].overlaps \in BOOLEAN
  BY <1>1, <1>2 DEF PageInv, Types, SentSaves
<1>4. out' \in [DraftSaves -> SentSaves \cup {None}]
  BY <1>1, <1>2
<1>5. trouble' \in BOOLEAN
  BY <1>1, Zenon
<1>6. Types'
  BY <1>1, <1>3, <1>4, <1>5, EditorUnchanged, Zenon DEF PageInv, Types
<1>7. TimerIsOfEditor' /\ \A c : \A n : Fits(typedIn, c, n) => Fits(typedIn', c, n)
  BY <1>1, EditorUnchanged, Zenon
<1>8. AllFit(typedIn', drafts')
  <2> SUFFICES ASSUME NEW d \in Documents PROVE Fits(typedIn', d, drafts'[d])
    BY DEF AllFit
  <2>1. CASE d = out[s].doc
    <3>1. drafts'[d] = out[s].text
      BY <1>1, <2>1 DEF PageInv, Types
    <3> QED BY <1>1, <1>7, <2>1, <3>1 DEF PageInv, TextsFit
  <2>2. CASE d # out[s].doc
    <3>1. drafts'[d] = drafts[d]
      BY <1>1, <2>2 DEF PageInv, Types
    <3> QED BY <1>7, <3>1 DEF PageInv, TextsFit, AllFit
  <2> QED BY <2>1, <2>2
<1>9. \A o \in DraftSaves : out'[o] # None => Fits(typedIn', out'[o].doc, out'[o].text)
  <2>1. \A o \in DraftSaves : out'[o] # None => out'[o] = out[o]
    BY <1>1, <1>2
  <2> QED BY <1>7, <2>1 DEF PageInv, TextsFit
<1>10. TextsFit'
  BY <1>1, <1>7, <1>8, <1>9, Zenon DEF PageInv, TextsFit, AllFit, editorVars
<1> QED BY <1>6, <1>7, <1>10 DEF PageInv

LEMMA LossKeepsPage ==
    ASSUME NEW s \in DraftSaves, PageInv, SaveIsLost(s)
    PROVE  PageInv'
<1>1. /\ trouble' = TRUE /\ out' = [out EXCEPT ![s] = None]
      /\ UNCHANGED editorVars /\ UNCHANGED <<serverVars, poll>>
  BY DEF SaveIsLost
<1>2. /\ out' \in [DraftSaves -> SentSaves \cup {None}]
      /\ \A o \in DraftSaves : out'[o] # None => out'[o] = out[o]
  BY <1>1 DEF PageInv, Types
<1>3. Types'
  BY <1>1, <1>2, EditorUnchanged, Zenon DEF PageInv, Types, serverVars
<1>4. TimerIsOfEditor' /\ \A c : \A n : Fits(typedIn, c, n) => Fits(typedIn', c, n)
  BY <1>1, EditorUnchanged, Zenon
<1>5. TextsFit'
  BY <1>1, <1>2, <1>4, Zenon DEF PageInv, TextsFit, AllFit, serverVars, editorVars
<1> QED BY <1>3, <1>4, <1>5 DEF PageInv

\* A proctor action, the end of time, or nothing.
ServerSide ==
    /\ latest' \in ActionKinds \cup {None} /\ blocking' \in ActionKinds \cup {None}
    /\ over' \in BOOLEAN
    /\ UNCHANGED <<drafts, out, poll, trouble>> /\ UNCHANGED editorVars

LEMMA ServerSideKeepsPage == PageInv /\ ServerSide => PageInv'
<1> SUFFICES ASSUME PageInv, ServerSide PROVE PageInv'
  OBVIOUS
<1>1. Types'
  BY EditorUnchanged, Zenon DEF PageInv, Types, ServerSide
<1>2. TimerIsOfEditor' /\ \A c : \A n : Fits(typedIn, c, n) => Fits(typedIn', c, n)
  BY EditorUnchanged, Zenon DEF ServerSide
<1>3. TextsFit'
  BY <1>2, Zenon DEF PageInv, TextsFit, AllFit, ServerSide, editorVars
<1> QED BY <1>1, <1>2, <1>3 DEF PageInv

LEMMA ServerSteps ==
    ASSUME PageInv,
           \/ \E kind \in ActionKinds : ProctorActs(kind)
           \/ TimeEnds \/ UNCHANGED examPageVars
    PROVE  ServerSide
<1>1. ASSUME NEW kind \in ActionKinds, ProctorActs(kind) PROVE ServerSide
  BY <1>1, Zenon DEF ProctorActs, ServerSide, PageInv, Types
<1>2. CASE TimeEnds
  BY <1>2, Zenon DEF TimeEnds, ServerSide, PageInv, Types
<1>3. CASE UNCHANGED examPageVars
  BY <1>3, Zenon DEF examPageVars, serverVars, ServerSide, PageInv, Types
<1> QED BY <1>1, <1>2, <1>3

LEMMA PageStep == PageInv /\ [PageNext]_examPageVars => PageInv'
<1> SUFFICES ASSUME PageInv, [PageNext]_examPageVars PROVE PageInv'
  OBVIOUS
<1>1. CASE Type \/ ShowDraft \/ PollRead \/ PollArrives \/ CountdownEnds \/ ReloadPage
  BY <1>1, TypeKeepsPage, ShowDraftKeepsPage, PollReadKeepsPage, PollArrivesKeepsPage,
     CountdownKeepsPage, ReloadKeepsPage, Zenon
<1>2. CASE \E d \in Documents : Select(d)
  BY <1>2, SelectKeepsPage, Zenon
<1>3. CASE \E s \in DraftSaves : TimerFires(s) \/ SaveDraft(s) \/ SaveIsLost(s)
  BY <1>3, TimerKeepsPage, SaveKeepsPage, LossKeepsPage, Zenon
<1>4. CASE \/ \E kind \in ActionKinds : ProctorActs(kind)
           \/ TimeEnds \/ UNCHANGED examPageVars
  BY <1>4, ServerSteps, ServerSideKeepsPage, Zenon
<1> QED BY <1>1, <1>2, <1>3, <1>4, Zenon DEF PageNext

LEMMA PageInvariance == PageSpec => []PageInv
<1> QED BY PageStarts, PageStep, PTL DEF PageSpec

(* No draft ever holds a text that was typed for another question or language:
   the save that the first render of a selection arms, of the old text under
   the new document, cannot fire before the second. *)
THEOREM DraftsAreOfTheirDocument == PageSpec => []DraftsBelongToTheirDocument
<1>1. PageInv => DraftsBelongToTheirDocument
  BY DEF PageInv, TextsFit, AllFit, Fits, DraftsBelongToTheirDocument
<1> QED BY <1>1, PageInvariance, PTL

-----------------------------------------------------------------------------
(* What was typed is newer than any draft, until it is sent beside another
   save of the same document. *)

\* What only the server and the requests hold.
Stored(ds, os) ==
    /\ \A s \in DraftSaves : os[s] # None =>
          os[s].fromData \/ os[s].overlaps \/ ds[os[s].doc] <= os[s].text
    /\ \A r, s \in DraftSaves :
          /\ r # s /\ os[r] # None /\ os[s] # None /\ os[r].doc = os[s].doc
          => os[r].overlaps /\ os[s].overlaps

NewerInv ==
    /\ ~fromData => text = Len(typedIn)
    /\ Stored(drafts, out)

(* The editor's part of it. *)
LEMMA TypedIsNewest ==
    ASSUME PageInv, NewerInv, [PageNext]_examPageVars
    PROVE  ~fromData' => text' = Len(typedIn')
<1> DEFINE Same == UNCHANGED <<typedIn, text, fromData>>
<1>1. CASE Type
  BY <1>1 DEF Type, PageInv, Types
<1>2. CASE ShowDraft
  <2>1. data.drafts[selected] \in Nat
    BY <1>2 DEF ShowDraft, PageInv, Types, TextsFit, Answers
  <2>2. (text' = text => fromData' = fromData) /\ (text' # text => fromData' = TRUE)
    BY <1>2, <2>1, ShowSets DEF ShowDraft, PageInv, Types
  <2> QED BY <1>2, <2>2 DEF ShowDraft, NewerInv
<1>3. CASE PollArrives
  <2>1. poll.drafts[selected] \in Nat
    BY <1>3 DEF PollArrives, PageInv, Types, Answers
  <2>2. (text' = text => fromData' = fromData) /\ (text' # text => fromData' = TRUE)
    BY <1>3, <2>1, ShowSets DEF PollArrives, PageInv, Types
  <2> QED BY <1>3, <2>2 DEF PollArrives, NewerInv
<1>4. CASE ReloadPage
  BY <1>4 DEF ReloadPage
<1>5. CASE Same
  BY <1>5 DEF NewerInv, Stored
<1>6. ASSUME \/ PollRead \/ CountdownEnds \/ \E d \in Documents : Select(d)
             \/ \E s \in DraftSaves : TimerFires(s) \/ SaveDraft(s) \/ SaveIsLost(s)
             \/ \E kind \in ActionKinds : ProctorActs(kind)
             \/ TimeEnds \/ UNCHANGED examPageVars
      PROVE  Same
  BY <1>6, Zenon DEF PollRead, CountdownEnds, Select, TimerFires, SaveDraft, SaveIsLost,
     ProctorActs, TimeEnds, examPageVars, editorVars
<1> HIDE DEF Same
<1> QED BY <1>1, <1>2, <1>3, <1>4, <1>5, <1>6, Zenon DEF PageNext

LEMMA SentIsNewer ==
    ASSUME NEW s \in DraftSaves, PageInv, NewerInv, TimerFires(s)
    PROVE  Stored(drafts', out')
<1>1. drafts' = drafts /\ timer # None
  BY DEF TimerFires, serverVars
<1>2. /\ timer.doc = selected /\ timer.text = text /\ timer.fromData = fromData
  BY <1>1 DEF PageInv, TimerIsOfEditor
<1>3. ASSUME NEW o \in DraftSaves, out'[o] # None
      PROVE  out'[o].fromData \/ out'[o].overlaps \/ drafts'[out'[o].doc] <= out'[o].text
  <2>1. CASE o = s
    <3>1. /\ out'[o].doc = selected /\ out'[o].text = text /\ out'[o].fromData = fromData
      BY <1>2, <2>1, TimerSends
    <3>2. drafts[selected] \in Nat /\ drafts[selected] <= Len(typedIn)
      BY DEF PageInv, Types, TextsFit, AllFit, Fits
    <3> QED BY <1>1, <3>1, <3>2 DEF NewerInv, Stored
  <2>2. CASE o # s
    <3>1. /\ out[o] # None /\ out'[o].doc = out[o].doc /\ out'[o].text = out[o].text
          /\ out'[o].fromData = out[o].fromData /\ (out[o].overlaps => out'[o].overlaps)
      BY <1>3, <2>2, TimerSends
    <3> QED BY <1>1, <3>1 DEF NewerInv, Stored
  <2> QED BY <2>1, <2>2
<1>4. ASSUME NEW q \in DraftSaves, NEW r \in DraftSaves, q # r, out'[q] # None,
             out'[r] # None, out'[q].doc = out'[r].doc
      PROVE  out'[q].overlaps /\ out'[r].overlaps
  <2>1. CASE q = s
    BY <1>4, <2>1, TimerSends
  <2>2. CASE r = s
    BY <1>4, <2>2, TimerSends
  <2>3. CASE q # s /\ r # s
    <3>1. /\ out[q] # None /\ out[r] # None /\ out[q].doc = out[r].doc
          /\ out[q].overlaps => out'[q].overlaps
          /\ out[r].overlaps => out'[r].overlaps
      BY <1>4, <2>3, TimerSends
    <3> QED BY <1>4, <3>1 DEF NewerInv, Stored
  <2> QED BY <2>1, <2>2, <2>3
<1> QED BY <1>3, <1>4 DEF Stored

LEMMA SavedIsNewer ==
    ASSUME NEW s \in DraftSaves, PageInv, NewerInv, SaveDraft(s)
    PROVE  Stored(drafts', out')
<1>1. /\ out[s] # None /\ drafts' = [drafts EXCEPT ![out[s].doc] = out[s].text]
      /\ out' = [out EXCEPT ![s] = None]
  BY DEF SaveDraft
<1>2. \A o \in DraftSaves : out'[o] # None => out'[o] = out[o] /\ o # s
  BY <1>1 DEF PageInv, Types
<1>3. ASSUME NEW o \in DraftSaves, out'[o] # None
      PROVE  out'[o].fromData \/ out'[o].overlaps \/ drafts'[out'[o].doc] <= out'[o].text
  <2>1. CASE out[o].doc = out[s].doc
    BY <1>1, <1>2, <1>3, <2>1 DEF NewerInv, Stored
  <2>2. CASE out[o].doc # out[s].doc
    <3>1. drafts'[out[o].doc] = drafts[out[o].doc]
      <4>1. out[o].doc \in Documents
        BY <1>2, <1>3 DEF PageInv, Types, SentSaves
      <4> QED BY <1>1, <2>2, <4>1 DEF PageInv, Types
    <3> QED BY <1>2, <1>3, <3>1 DEF NewerInv, Stored
  <2> QED BY <2>1, <2>2
<1>4. ASSUME NEW q \in DraftSaves, NEW r \in DraftSaves, q # r, out'[q] # None,
             out'[r] # None, out'[q].doc = out'[r].doc
      PROVE  out'[q].overlaps /\ out'[r].overlaps
  BY <1>2, <1>4 DEF NewerInv, Stored
<1> QED BY <1>3, <1>4 DEF Stored

LEMMA NewerStep ==
    ASSUME PageInv, NewerInv, [PageNext]_examPageVars
    PROVE  NewerInv'
<1>1. ASSUME Stored(drafts', out') PROVE NewerInv'
  BY <1>1, TypedIsNewest DEF NewerInv
<1>2. ASSUME NEW s \in DraftSaves, SaveIsLost(s) PROVE Stored(drafts', out')
  <2>1. \A o \in DraftSaves : out'[o] # None => out'[o] = out[o]
    BY <1>2 DEF SaveIsLost, PageInv, Types
  <2>2. drafts' = drafts
    BY <1>2, Zenon DEF SaveIsLost, serverVars
  <2> QED BY <2>1, <2>2 DEF NewerInv, Stored
<1>3. CASE UNCHANGED <<drafts, out>>
  BY <1>1, <1>3, Zenon DEF NewerInv, Stored
<1>4. ASSUME \/ Type \/ ShowDraft \/ PollRead \/ PollArrives \/ CountdownEnds \/ ReloadPage
             \/ \E d \in Documents : Select(d)
             \/ \E kind \in ActionKinds : ProctorActs(kind)
             \/ TimeEnds \/ UNCHANGED examPageVars
      PROVE  UNCHANGED <<drafts, out>>
  BY <1>4, Zenon DEF Type, ShowDraft, PollRead, PollArrives, CountdownEnds, ReloadPage,
     Select, ProctorActs, TimeEnds, examPageVars, serverVars
<1> QED BY <1>1, <1>2, <1>3, <1>4, SentIsNewer, SavedIsNewer, Zenon DEF PageNext

LEMMA NewerInvariance == PageSpec => []NewerInv
<1>1. PageInit => NewerInv
  BY DEF PageInit, NewerInv, Stored
<1> QED BY <1>1, NewerStep, PageInvariance, PTL DEF PageSpec

(* A draft goes back to an older text only by a save whose text the editor had
   from the query's data, or one of two under way at once: the six places that
   clear or restart the debounce leave no third way. *)
THEOREM DraftsGoBackOnlyThen == PageSpec => DraftsGoBackOnlyFromOldData
<1> DEFINE Back(d) == \E s \in DraftSaves : /\ out[s] # None /\ out'[s] = None
                                            /\ out[s].fromData \/ out[s].overlaps
<1>1. ASSUME PageInv, NewerInv, [PageNext]_examPageVars,
             NEW d \in Documents, drafts'[d] < drafts[d]
      PROVE  Back(d)
  <2>1. ASSUME NEW s \in DraftSaves, SaveDraft(s) PROVE Back(d)
    <3>1. /\ out[s] # None /\ drafts' = [drafts EXCEPT ![out[s].doc] = out[s].text]
          /\ out' = [out EXCEPT ![s] = None]
      BY <2>1 DEF SaveDraft
    <3>2. out'[s] = None
      BY <1>1, <3>1 DEF PageInv, Types
    <3>3. drafts[d] \in Nat /\ drafts \in [Documents -> Nat]
      BY <1>1 DEF PageInv, Types
    <3>4. CASE d = out[s].doc
      <4>1. drafts'[d] = out[s].text
        BY <3>1, <3>3, <3>4
      <4>2. out[s].text \in Nat
        BY <1>1, <3>1 DEF PageInv, Types, SentSaves
      <4>3. ~(drafts[d] <= out[s].text)
        BY <1>1, <3>3, <4>1, <4>2
      <4> QED BY <1>1, <3>1, <3>2, <3>4, <4>3, Zenon DEF NewerInv, Stored
    <3>5. CASE d # out[s].doc
      BY <1>1, <3>1, <3>3, <3>5
    <3> QED BY <3>4, <3>5
  <2>2. ASSUME UNCHANGED drafts PROVE FALSE
    BY <1>1, <2>2 DEF PageInv, Types
  <2>3. ASSUME \/ Type \/ ShowDraft \/ PollRead \/ PollArrives \/ CountdownEnds \/ ReloadPage
               \/ \E c \in Documents : Select(c)
               \/ \E s \in DraftSaves : TimerFires(s) \/ SaveIsLost(s)
               \/ \E kind \in ActionKinds : ProctorActs(kind)
               \/ TimeEnds \/ UNCHANGED examPageVars
        PROVE  UNCHANGED drafts
    BY <2>3, Zenon DEF Type, ShowDraft, PollRead, PollArrives, CountdownEnds, ReloadPage,
       Select, TimerFires, SaveIsLost, ProctorActs, TimeEnds, examPageVars, serverVars
  <2> HIDE DEF Back
  <2> QED BY <1>1, <2>1, <2>2, <2>3, Zenon DEF PageNext
<1>2. PageInv /\ NewerInv /\ [PageNext]_examPageVars =>
        [\A d \in Documents : drafts'[d] < drafts[d] =>
            \E s \in DraftSaves : /\ out[s] # None /\ out'[s] = None
                                  /\ out[s].fromData \/ out[s].overlaps]_examPageVars
  BY <1>1
<1> QED BY <1>2, PageInvariance, NewerInvariance, PTL DEF PageSpec, DraftsGoBackOnlyFromOldData

-----------------------------------------------------------------------------
(* The lock. *)

LockInv ==
    /\ latest # "remarks" => latest = blocking
    /\ pageLocked => data # None /\ (LockedBy(data) \/ over)
    /\ data # None /\ LockedBy(data) => pageLocked

LEMMA LockStep ==
    ASSUME LockInv, [PageNext]_examPageVars
    PROVE  LockInv'
<1>1. CASE PollArrives
  <2>1. data' = poll /\ poll # None /\ pageLocked' = LockedBy(poll) /\ UNCHANGED serverVars
    BY <1>1 DEF PollArrives
  <2>2. pageLocked' = LockedBy(data')
    BY <2>1, Zenon DEF LockedBy
  <2> QED BY <2>1, <2>2, Zenon DEF LockInv, serverVars
<1>2. CASE CountdownEnds
  BY <1>2, Zenon DEF CountdownEnds, Ready, LockInv, LockedBy, serverVars
<1>3. CASE ReloadPage
  BY <1>3, Zenon DEF ReloadPage, LockInv, serverVars
<1>4. ASSUME NEW kind \in ActionKinds, ProctorActs(kind) PROVE LockInv'
  BY <1>4, Zenon DEF ProctorActs, LockInv, LockedBy, editorVars
<1>5. CASE TimeEnds
  BY <1>5, Zenon DEF TimeEnds, LockInv, LockedBy, editorVars
<1>6. CASE UNCHANGED <<latest, blocking, over, data, pageLocked>>
  BY <1>6, Zenon DEF LockInv, LockedBy
<1>7. ASSUME \/ Type \/ ShowDraft \/ PollRead \/ \E d \in Documents : Select(d)
             \/ \E s \in DraftSaves : TimerFires(s) \/ SaveDraft(s) \/ SaveIsLost(s)
             \/ UNCHANGED examPageVars
      PROVE  UNCHANGED <<latest, blocking, over, data, pageLocked>>
  BY <1>7, Zenon DEF Type, ShowDraft, PollRead, Select, TimerFires, SaveDraft, SaveIsLost,
     examPageVars, serverVars, editorVars
<1> QED BY <1>1, <1>2, <1>3, <1>4, <1>5, <1>6, <1>7, Zenon DEF PageNext

(* Once the page has seen the newest actions it is locked exactly if a save
   would be refused, or the newest is a memo or a warning: the page decides by
   the newest action of any type, the server by the newest that decides. *)
THEOREM LockAgrees == PageSpec => []LockAgreesWithServer
<1>1. PageInit => LockInv
  BY DEF PageInit, LockInv
<1>2. LockInv => LockAgreesWithServer
  <2> SUFFICES ASSUME LockInv, data # None, data.latest = latest,
                      data.blocking = blocking, data.over = over, latest # "remarks"
               PROVE  pageLocked <=> Refuses
    BY Zenon DEF LockAgreesWithServer, Ready
  <2>1. LockedBy(data) <=> blocking = "bars" \/ over
    BY Zenon DEF LockInv, LockedBy
  <2> QED BY <2>1, Zenon DEF LockInv, Refuses
<1> QED BY <1>1, <1>2, LockStep, PTL DEF PageSpec

-----------------------------------------------------------------------------
(* What is on its way to the server. *)

PendingInv ==
    /\ UnsavedIsPending
    /\ rendering /\ ~pageLocked => timer # None
    /\ Ready /\ ~pageLocked /\ ~trouble /\ timer = None =>
          \A s \in DraftSaves : out[s] # None /\ out[s].doc = selected =>
              out[s].text = text \/ out[s].overlaps

(* In an open page an armed timer is enough. *)
LEMMA ArmedIsPending ==
    ASSUME timer' # None \/ pageLocked' \/ data' = None,
           ~rendering' \/ timer' # None \/ pageLocked'
    PROVE  PendingInv'
BY Zenon DEF PendingInv, UnsavedIsPending, Ready

LEMMA PendingAfterRender ==
    ASSUME PageInv, PendingInv,
           Type \/ ShowDraft \/ PollArrives \/ \E d \in Documents : Select(d)
    PROVE  PendingInv'
<1>0. pageLocked \in BOOLEAN /\ text \in Nat /\ selected \in Documents
  BY Zenon DEF PageInv, Types
<1>1. ASSUME Arm, text' \in Nat, fromData' \in BOOLEAN, selected' \in Documents,
             pageLocked' \in BOOLEAN
      PROVE  PendingInv'
  <2>1. timer' # None \/ pageLocked'
    BY <1>1, ArmMirrors, Zenon
  <2> QED BY <2>1, ArmedIsPending, Zenon
<1>2. CASE Type
  <2>1. /\ Arm /\ text' = Len(typedIn) + 1 /\ fromData' = FALSE
        /\ UNCHANGED <<selected, pageLocked>>
    BY <1>2, Zenon DEF Type
  <2>2. text' \in Nat
    BY <2>1 DEF PageInv, Types
  <2> QED BY <1>0, <1>1, <2>1, <2>2, Zenon
<1>3. ASSUME NEW d \in Documents, Select(d) PROVE PendingInv'
  <2>1. Arm /\ selected' = d /\ UNCHANGED <<text, fromData, pageLocked>>
    BY <1>3, Zenon DEF Select
  <2>2. fromData \in BOOLEAN
    BY Zenon DEF PageInv, Types
  <2> QED BY <1>0, <1>1, <2>1, <2>2, Zenon
<1>4. CASE ShowDraft
  <2>1. /\ rendering /\ rendering' = FALSE /\ Show(data.drafts[selected])
        /\ UNCHANGED <<selected, pageLocked>>
        /\ IF text' # text THEN Arm ELSE UNCHANGED <<timer, trouble>>
    BY <1>4 DEF ShowDraft
  <2>2. data.drafts[selected] \in Nat
    BY <2>1 DEF PageInv, Types, TextsFit, Answers
  <2>3. text' \in Nat /\ fromData' \in BOOLEAN
    BY <2>1, <2>2, ShowSets DEF PageInv, Types
  <2>4. CASE Arm
    BY <1>0, <1>1, <2>1, <2>3, <2>4, Zenon
  <2>5. CASE UNCHANGED timer
    BY <2>1, <2>5, ArmedIsPending, Zenon DEF PendingInv
  <2> QED BY <2>1, <2>4, <2>5, Zenon
<1>5. CASE PollArrives
  <2>1. /\ poll # None /\ ~rendering /\ data' = poll /\ Show(poll.drafts[selected])
        /\ pageLocked' = LockedBy(poll)
        /\ UNCHANGED <<drafts, selected, rendering, out>>
        /\ IF text' # text \/ pageLocked' # pageLocked \/ data = None
           THEN Arm ELSE UNCHANGED <<timer, trouble>>
    BY <1>5, Zenon DEF PollArrives, serverVars
  <2>2. poll.drafts[selected] \in Nat
    BY <2>1 DEF PageInv, Types, Answers
  <2>3. text' \in Nat /\ fromData' \in BOOLEAN
    BY <2>1, <2>2, ShowSets DEF PageInv, Types
  <2>4. CASE Arm
    BY <1>0, <1>1, <2>1, <2>3, <2>4, Zenon DEF LockedBy
  <2>5. CASE data # None /\ UNCHANGED <<text, pageLocked, timer, trouble>>
    <3>1. UNCHANGED <<drafts, selected, rendering, out, text, pageLocked, timer, trouble>>
          /\ Ready
      BY <2>1, <2>5, Zenon DEF Ready
    <3> QED BY <3>1, Zenon DEF PendingInv, UnsavedIsPending, Under, Ready
  <2> QED BY <2>1, <2>4, <2>5, Zenon
<1> QED BY <1>2, <1>3, <1>4, <1>5

LEMMA PendingAfterSent ==
    ASSUME NEW s \in DraftSaves, PageInv, TimerFires(s)
    PROVE  PendingInv'
<1>1. /\ timer # None /\ ~rendering /\ timer' = None
      /\ UNCHANGED <<drafts, selected, text, rendering, data, pageLocked, trouble>>
  BY Zenon DEF TimerFires, serverVars
<1>2. timer.doc = selected /\ timer.text = text
  BY <1>1 DEF PageInv, TimerIsOfEditor
<1>3. out'[s] # None /\ out'[s].doc = selected' /\ out'[s].text = text'
  BY <1>1, <1>2, TimerSends
<1>4. ASSUME NEW o \in DraftSaves, out'[o] # None, out'[o].doc = selected'
      PROVE  out'[o].text = text' \/ out'[o].overlaps
  <2>1. CASE o = s
    BY <1>3, <2>1
  <2>2. CASE o # s
    <3>1. out[o] # None /\ out[o].doc = timer.doc
      BY <1>1, <1>2, <1>4, <2>2, TimerSends
    <3> QED BY <2>2, <3>1, TimerSends
  <2> QED BY <2>1, <2>2
<1>5. UnsavedIsPending'
  <2>1. s \in {o \in DraftSaves : out'[o] # None /\ out'[o].doc = selected'}
    BY <1>3
  <2> QED BY <2>1 DEF UnsavedIsPending, Under
<1> QED BY <1>1, <1>4, <1>5, Zenon DEF PendingInv

LEMMA PendingAfterSave ==
    ASSUME NEW s \in DraftSaves, PageInv, PendingInv, SaveDraft(s)
    PROVE  PendingInv'
<1>1. /\ out[s] # None /\ drafts' = [drafts EXCEPT ![out[s].doc] = out[s].text]
      /\ trouble' = (trouble \/ out[s].overlaps) /\ out' = [out EXCEPT ![s] = None]
      /\ UNCHANGED <<selected, text, rendering, timer, data, pageLocked>>
  BY DEF SaveDraft, editorVars
<1>2. \A o \in DraftSaves : (o # s => out'[o] = out[o]) /\ (o = s => out'[o] = None)
  BY <1>1 DEF PageInv, Types
<1>3. Ready' <=> Ready
  BY <1>1, Zenon DEF Ready
<1>4. UnsavedIsPending'
  <2> SUFFICES ASSUME Ready, ~pageLocked, text # drafts'[selected], timer = None, ~trouble,
                      ~out[s].overlaps
               PROVE  Under(selected)' # {}
    BY <1>1, <1>3, Zenon DEF UnsavedIsPending, Under
  <2>1. out[s].doc # selected
    <3> SUFFICES ASSUME out[s].doc = selected PROVE FALSE
      OBVIOUS
    <3>1. out[s].text = text
      BY <1>1, Zenon DEF PendingInv
    <3>2. drafts'[selected] = out[s].text
      BY <1>1 DEF PageInv, Types
    <3> QED BY <3>1, <3>2
  <2>2. drafts'[selected] = drafts[selected]
    BY <1>1, <2>1 DEF PageInv, Types
  <2>3. PICK o \in DraftSaves : out[o] # None /\ out[o].doc = selected
    BY <2>2, Zenon DEF PendingInv, UnsavedIsPending, Under
  <2>4. o # s /\ out'[o] = out[o]
    BY <1>2, <2>1, <2>3
  <2> QED BY <1>1, <2>3, <2>4 DEF Under
<1>5. /\ rendering' /\ ~pageLocked' => timer' # None
      /\ Ready' /\ ~pageLocked' /\ ~trouble' /\ timer' = None =>
            \A o \in DraftSaves : out'[o] # None /\ out'[o].doc = selected' =>
                out'[o].text = text' \/ out'[o].overlaps
  BY <1>1, <1>2, <1>3, Zenon DEF PendingInv
<1> QED BY <1>4, <1>5, Zenon DEF PendingInv

LEMMA PendingStep ==
    ASSUME PageInv, PendingInv, [PageNext]_examPageVars
    PROVE  PendingInv'
<1>1. ASSUME NEW s \in DraftSaves, SaveIsLost(s) PROVE PendingInv'
  <2>1. trouble' = TRUE /\ UNCHANGED <<rendering, timer, pageLocked>>
    BY <1>1, Zenon DEF SaveIsLost, editorVars
  <2> QED BY <2>1, Zenon DEF PendingInv, UnsavedIsPending
<1>2. CASE CountdownEnds \/ ReloadPage
  <2>1. (pageLocked' \/ data' = None) /\ (pageLocked' \/ ~rendering')
    BY <1>2, Zenon DEF CountdownEnds, ReloadPage
  <2> QED BY <2>1, ArmedIsPending, Zenon
<1>3. CASE UNCHANGED <<drafts, selected, text, rendering, timer, data, pageLocked, out,
                       trouble>>
  BY <1>3, Zenon DEF PendingInv, UnsavedIsPending, Under, Ready
<1>4. ASSUME \/ PollRead \/ \E kind \in ActionKinds : ProctorActs(kind)
             \/ TimeEnds \/ UNCHANGED examPageVars
      PROVE  UNCHANGED <<drafts, selected, text, rendering, timer, data, pageLocked, out,
                         trouble>>
  BY <1>4, Zenon DEF PollRead, ProctorActs, TimeEnds, examPageVars, serverVars, editorVars
<1> QED BY <1>1, <1>2, <1>3, <1>4, PendingAfterRender, PendingAfterSent, PendingAfterSave,
           Zenon DEF PageNext

(* In an open page a text the server does not have is armed, under way, or
   lost to a save that failed or overtook another: no selection, poll, lock or
   reload drops a save without arming the next. *)
THEOREM UnsavedStaysPending == PageSpec => []UnsavedIsPending
<1>1. PageInit => PendingInv
  BY DEF PageInit, PendingInv, UnsavedIsPending, Ready
<1>2. PendingInv => UnsavedIsPending
  BY DEF PendingInv
<1> QED BY <1>1, <1>2, PendingStep, PageInvariance, PTL DEF PageSpec

-----------------------------------------------------------------------------
(* The environment check. *)

CheckTyped ==
    /\ checkClock \in Nat
    /\ evidence \in Nat \cup {None}
    /\ saving \in [Saves -> Save \cup {None}]
    /\ check \in CheckRow \cup {None}

\* Results travel only when all of them passed, and are written before the
\* token that let them in is older than it lives and one write takes.
SavesArePassed ==
    \A s \in Saves : saving[s] # None =>
        /\ saving[s].passed
        /\ saving[s].asserted # None =>
              /\ saving[s].asserted < saving[s].issued + EvidenceTTL
              /\ checkClock <= saving[s].asserted + SaveTime

CheckInv == CheckTyped /\ SavesArePassed /\ ChecksAreFresh

LEMMA CheckStarts == CheckInit => CheckInv
  BY DEF CheckInit, CheckInv, CheckTyped, SavesArePassed, ChecksAreFresh

LEMMA CheckGoesOn == CheckInv /\ [CheckNext]_checkVars => CheckInv'
<1> SUFFICES ASSUME CheckInv, [CheckNext]_checkVars PROVE CheckInv'
  OBVIOUS
<1> USE DEF CheckInv, CheckTyped, SavesArePassed, ChecksAreFresh
<1>1. CASE Reload
  BY <1>1 DEF Reload, FreshPage
<1>2. CASE FetchEvidence
  BY <1>2 DEF FetchEvidence
<1>3. CASE CheckTick
  <2>1. \A s \in Saves : saving[s] # None /\ saving[s].asserted # None =>
           checkClock + 1 <= saving[s].asserted + SaveTime
    BY <1>3, CheckAssumption DEF CheckTick, Writing, Save
  <2> QED BY <1>3, <2>1 DEF CheckTick
<1>4. ASSUME NEW i \in CheckItems, RunCheck(i) \/ CheckEnds(i) PROVE CheckInv'
  BY <1>4 DEF RunCheck, CheckEnds
<1>5. ASSUME NEW s \in Saves, Submit(s) PROVE CheckInv'
  <2> DEFINE passed == DidPassRequiredEnvironmentChecks([i \in CheckItems |-> Sent(item[i])])
  <2>1. passed = TRUE
    BY <1>5 DEF Submit, ReadyToSubmit, Sent, DidPassRequiredEnvironmentChecks
  <2> DEFINE r == [issued |-> evidence, asserted |-> None, passed |-> passed]
  <2>2. r \in Save /\ r.passed /\ r.asserted = None
    BY <1>5, <2>1 DEF Submit, Save
  <2>3. saving' = [saving EXCEPT ![s] = r]
    BY <1>5 DEF Submit
  <2> HIDE DEF r
  <2> QED BY <1>5, <2>2, <2>3 DEF Submit
<1>6. ASSUME NEW s \in Saves, AssertEnvironmentCheckSession(s) PROVE CheckInv'
  <2>1. CASE Expired(saving[s].issued)
    BY <1>6, <2>1 DEF AssertEnvironmentCheckSession, Ends
  <2>2. CASE ~Expired(saving[s].issued)
    <3>1. /\ saving[s] \in Save
          /\ saving' = [saving EXCEPT ![s] = [saving[s] EXCEPT !.asserted = checkClock]]
          /\ UNCHANGED <<checkClock, evidence, movedOn, check>>
      BY <1>6, <2>2 DEF AssertEnvironmentCheckSession
    <3>2. checkClock < saving[s].issued + EvidenceTTL /\ checkClock <= checkClock + SaveTime
      BY <2>2, <3>1, CheckAssumption DEF Expired, Save
    <3>3. [saving[s] EXCEPT !.asserted = checkClock] \in Save
      BY <3>1 DEF Save
    <3> QED BY <1>6, <3>1, <3>2, <3>3 DEF AssertEnvironmentCheckSession, Save
  <2> QED BY <2>1, <2>2
<1>7. ASSUME NEW s \in Saves, SaveEnvironmentCheck(s) PROVE CheckInv'
  <2> DEFINE r == [issued |-> saving[s].issued, passed |-> saving[s].passed,
                   saved |-> checkClock]
  <2>1. /\ saving[s] \in Save /\ saving[s].asserted \in Nat /\ saving[s].passed
        /\ saving[s].asserted < saving[s].issued + EvidenceTTL
        /\ checkClock <= saving[s].asserted + SaveTime
    BY <1>7 DEF SaveEnvironmentCheck, Writing, Save
  <2>2. r \in CheckRow /\ r.passed /\ r.saved < r.issued + EvidenceTTL + SaveTime
    BY <2>1, CheckAssumption DEF Save, CheckRow
  <2>3. check' = r
    BY <1>7 DEF SaveEnvironmentCheck
  <2>4. r # None
    BY <2>2, CheckAssumption
  <2> HIDE DEF r
  <2> QED BY <1>7, <2>2, <2>3, <2>4 DEF SaveEnvironmentCheck, Ends
<1>8. ASSUME NEW s \in Saves, SaveFails(s) PROVE CheckInv'
  BY <1>8 DEF SaveFails, Ends
<1>9. CASE UNCHANGED checkVars
  BY <1>9 DEF checkVars
<1> QED BY <1>1, <1>2, <1>3, <1>4, <1>5, <1>6, <1>7, <1>8, <1>9 DEF CheckNext

(* The newest row of the environment check says passed and rests on fresh       *)
(* evidence, for any lifetime of the token, any delay of the write and any      *)
(* number of overlapping requests (saveCandidateEnvironmentCheckInStore).       *)
THEOREM ChecksStayFresh == CheckSpec => []ChecksAreFresh
<1>1. CheckInv => ChecksAreFresh
  BY DEF CheckInv
<1> QED BY <1>1, CheckStarts, CheckGoesOn, PTL DEF CheckSpec

-----------------------------------------------------------------------------
(* Identity verification. *)

IdentityTyped ==
    /\ moment \in 0..MaxMoment /\ policyVersion \in 1..MaxVersions
    /\ identityEnabled \in BOOLEAN
    /\ consent \in Consents \cup {None}
    /\ recorded \in SUBSET Consents
    /\ verifications \in Seq([status : {"VERIFIED", "FAILED"}, basis : Nat, consent : Consents])
    /\ form \in [Pages -> Form \cup {None}]

\* What a request carries was recorded, and is of the release that serves it.
RequestsConsented(f) ==
    /\ f.step = "consenting" => f.consent \in Consents /\ f.consent.version = policyVersion
    /\ f.step = "opening" => \E c \in recorded : c.version = policyVersion
    /\ f.step \in {"asking", "saving"} =>
          f.consent \in recorded /\ f.consent.version = policyVersion

\* What a page shows are rows, and the button was pressed over none that passed.
ShowsRows(f) ==
    /\ f.data <= Len(verifications) /\ f.own <= Len(verifications)
    /\ f.basis <= Len(verifications)
    /\ f.basis # 0 => verifications[f.basis].status # "VERIFIED"

FormsHold == \A p \in Pages : form[p] # None => RequestsConsented(form[p]) /\ ShowsRows(form[p])

IdentityInv ==
    /\ IdentityTyped /\ FormsHold /\ ConsentIsOnRecord
    /\ consent # None => consent \in recorded

LEMMA IdentityStarts == IdentityInit => IdentityInv
<1> SUFFICES ASSUME IdentityInit PROVE IdentityInv
  OBVIOUS
<1> USE DEF IdentityInit
<1>1. IdentityTyped
  BY IdentityAssumption DEF IdentityTyped
<1>2. ConsentIsOnRecord
  BY DEF ConsentIsOnRecord
<1> QED BY <1>1, <1>2 DEF IdentityInv, FormsHold

(* Going back to the form keeps what the page shows. *)
LEMMA IdleHolds ==
    ASSUME NEW f \in Form, IdentityTyped
    PROVE  /\ Idle(f) \in Form /\ RequestsConsented(Idle(f))
           /\ ShowsRows(f) => ShowsRows(Idle(f))
<1>1. Idle(f) \in Form
  BY DEF Idle, Form, FormSteps
<1>2. /\ Idle(f).step = "form" /\ Idle(f).basis = 0
      /\ Idle(f).data = f.data /\ Idle(f).own = f.own
  BY DEF Idle, Form
<1>3. RequestsConsented(Idle(f))
  BY <1>2 DEF RequestsConsented
<1>4. ShowsRows(f) => ShowsRows(Idle(f))
  BY <1>2 DEF ShowsRows, IdentityTyped
<1> QED BY <1>1, <1>3, <1>4

(* A step of page p that leaves the rows alone and keeps the consents. *)
LEMMA PageSteps ==
    ASSUME IdentityInv, NEW p \in Pages,
           UNCHANGED <<moment, policyVersion, identityEnabled, verifications>>,
           consent' \in Consents \cup {None}, consent' # None => consent' \in recorded',
           recorded \subseteq recorded', recorded' \subseteq Consents,
           \A v \in opened' : \E c \in recorded' : c.version = v,
           form' = [form EXCEPT ![p] = form'[p]],
           form'[p] \in Form, RequestsConsented(form[p])', ShowsRows(form[p])'
    PROVE  IdentityInv'
<1> USE DEF IdentityInv
<1>1. IdentityTyped'
  BY DEF IdentityTyped
<1>2. ASSUME NEW q \in Pages, form'[q] # None
      PROVE  RequestsConsented(form[q])' /\ ShowsRows(form[q])'
  <2>1. CASE q = p
    BY <2>1 DEF RequestsConsented, ShowsRows
  <2>2. CASE q # p
    <3>1. form'[q] = form[q] /\ form[q] # None
      BY <1>2, <2>2 DEF IdentityTyped
    <3> QED BY <3>1 DEF FormsHold, RequestsConsented, ShowsRows
  <2> QED BY <2>1, <2>2
<1>3. ConsentIsOnRecord'
  BY DEF ConsentIsOnRecord
<1> QED BY <1>1, <1>2, <1>3 DEF FormsHold

LEMMA BecomesIs ==
    ASSUME IdentityTyped, NEW p \in Pages, NEW STATE g, Becomes(p, g)
    PROVE  form'[p] = g /\ form' = [form EXCEPT ![p] = form'[p]]
  BY DEF Becomes, IdentityTyped

LEMMA WaitingHolds ==
    ASSUME IdentityInv, NEW p \in Pages, form[p] # None
    PROVE  form[p] \in Form /\ RequestsConsented(form[p]) /\ ShowsRows(form[p])
  BY DEF IdentityInv, IdentityTyped, FormsHold

LEMMA PageStepsHold ==
    ASSUME IdentityInv, NEW p \in Pages,
           \/ Load(p) \/ Refetch(p) \/ Mutate(p) \/ WriteConsent(p) \/ OpenSession(p)
           \/ Verify(p) \/ EngineAnswers(p) \/ RequestFails(p)
    PROVE  IdentityInv'
<1> DEFINE Rest == /\ UNCHANGED <<moment, policyVersion, identityEnabled, consent, recorded,
                                 opened, verifications>>
<1>0. /\ IdentityTyped /\ Len(verifications) \in Nat
      /\ consent # None => consent \in recorded
      /\ \A v \in opened : \E c \in recorded : c.version = v
  BY DEF IdentityInv, IdentityTyped, ConsentIsOnRecord
<1>1. ASSUME Rest, form' = [form EXCEPT ![p] = form'[p]],
             form'[p] \in Form, RequestsConsented(form[p])', ShowsRows(form[p])'
      PROVE  IdentityInv'
  BY <1>0, <1>1, PageSteps DEF IdentityTyped
<1>2. CASE Load(p)
  <2> DEFINE g == [step |-> "form", version |-> policyVersion, session |-> FALSE,
                   data |-> Len(verifications), own |-> 0, basis |-> 0,
                   consent |-> None, enabled |-> FALSE, status |-> "FAILED"]
  <2>1. g \in Form
    BY <1>0 DEF Form, FormSteps, IdentityTyped
  <2>2. g.step = "form" /\ g.basis = 0 /\ g.data = Len(verifications) /\ g.own = 0
    OBVIOUS
  <2>3. Becomes(p, g) /\ Rest
    BY <1>2 DEF Load
  <2> HIDE DEF g
  <2>4. form'[p] = g /\ form' = [form EXCEPT ![p] = form'[p]]
    BY <1>0, <2>3, BecomesIs
  <2> QED BY <1>0, <1>1, <2>1, <2>2, <2>3, <2>4 DEF RequestsConsented, ShowsRows
<1>3. CASE Refetch(p)
  <2> DEFINE g == [form[p] EXCEPT !.data = Len(verifications)]
  <2>1. form[p] \in Form /\ RequestsConsented(form[p]) /\ ShowsRows(form[p])
    BY <1>3, WaitingHolds DEF Refetch
  <2>2. /\ g \in Form
        /\ g.step = form[p].step /\ g.basis = form[p].basis /\ g.data = Len(verifications)
        /\ g.own = form[p].own /\ g.consent = form[p].consent
    BY <1>0, <2>1 DEF Form
  <2>3. Becomes(p, g) /\ Rest
    BY <1>3 DEF Refetch
  <2> HIDE DEF g
  <2>4. form'[p] = g /\ form' = [form EXCEPT ![p] = form'[p]]
    BY <1>0, <2>3, BecomesIs
  <2> QED BY <1>0, <1>1, <2>1, <2>2, <2>3, <2>4 DEF RequestsConsented, ShowsRows
<1>4. CASE Mutate(p)
  <2>1. /\ form[p] \in Form /\ ShowsRows(form[p])
        /\ ButtonEnabled(p)
    BY <1>4, WaitingHolds DEF Mutate, Doing
  <2>2. /\ Shown(p) \in Nat /\ Shown(p) <= Len(verifications)
        /\ Shown(p) # 0 => verifications[Shown(p)].status # "VERIFIED"
    BY <2>1 DEF Shown, ButtonEnabled, ShowsRows, Form
  <2> DEFINE next == [form[p] EXCEPT !.own = 0, !.basis = Shown(p)]
             held == [next EXCEPT !.step = "holding"]
             wish == [version |-> policyVersion, at |-> moment]
             sent == [next EXCEPT !.step = "consenting", !.enabled = identityEnabled,
                                  !.consent = wish]
  <2>3. wish \in Consents /\ wish.version = policyVersion
    BY <1>0 DEF Consents, IdentityTyped
  <2>4. /\ held \in Form /\ held.step = "holding" /\ held.own = 0 /\ held.basis = Shown(p)
        /\ held.data = form[p].data
    BY <2>1, <2>2 DEF Form, FormSteps
  <2> HIDE DEF wish
  <2>5. /\ sent \in Form /\ sent.step = "consenting" /\ sent.own = 0 /\ sent.basis = Shown(p)
        /\ sent.data = form[p].data /\ sent.consent = wish
    BY <1>0, <2>1, <2>2, <2>3 DEF Form, FormSteps, IdentityTyped
  <2>6. Rest /\ (Becomes(p, held) \/ Becomes(p, sent))
    BY <1>4 DEF Mutate, wish
  <2> HIDE DEF held, sent
  <2>7. form'[p] \in {held, sent} /\ form' = [form EXCEPT ![p] = form'[p]]
    BY <1>0, <2>6, BecomesIs
  <2>8. RequestsConsented(form[p])'
    BY <2>3, <2>4, <2>5, <2>6, <2>7 DEF RequestsConsented
  <2>9. ShowsRows(form[p])'
    BY <1>0, <2>1, <2>2, <2>4, <2>5, <2>6, <2>7 DEF ShowsRows
  <2> QED BY <1>1, <2>4, <2>5, <2>6, <2>7, <2>8, <2>9
<1>5. CASE WriteConsent(p)
  <2> DEFINE g == [form[p] EXCEPT !.step = "opening", !.consent = None, !.enabled = FALSE]
  <2>1. /\ form[p] \in Form /\ ShowsRows(form[p])
        /\ form[p].consent \in Consents /\ form[p].consent.version = policyVersion
    BY <1>5, WaitingHolds DEF WriteConsent, Doing, RequestsConsented
  <2>2. /\ g \in Form /\ g.step = "opening" /\ g.basis = form[p].basis
        /\ g.data = form[p].data /\ g.own = form[p].own
    BY <2>1 DEF Form, FormSteps
  <2>3. /\ Becomes(p, g) \/ Becomes(p, Idle(form[p]))
        /\ consent' = form[p].consent /\ recorded' = recorded \cup {form[p].consent}
        /\ UNCHANGED <<moment, policyVersion, identityEnabled, opened, verifications>>
    BY <1>5 DEF WriteConsent, BackToForm
  <2> HIDE DEF g
  <2>4. form'[p] \in {g, Idle(form[p])} /\ form' = [form EXCEPT ![p] = form'[p]]
    BY <1>0, <2>3, BecomesIs
  <2>5. /\ Idle(form[p]) \in Form /\ ShowsRows(Idle(form[p]))
        /\ Idle(form[p]).step = "form"
    BY <1>0, <2>1, IdleHolds DEF Idle, Form
  <2>6. RequestsConsented(form[p])'
    BY <2>1, <2>2, <2>3, <2>4, <2>5 DEF RequestsConsented
  <2>7. ShowsRows(form[p])'
    BY <2>1, <2>2, <2>3, <2>4, <2>5 DEF ShowsRows
  <2> QED BY <1>0, <2>1, <2>2, <2>3, <2>4, <2>5, <2>6, <2>7, PageSteps DEF IdentityTyped
<1>6. CASE OpenSession(p)
  <2> DEFINE g == [form[p] EXCEPT !.step = "holding", !.session = TRUE]
  <2>1. /\ form[p] \in Form /\ ShowsRows(form[p])
        /\ \E c \in recorded : c.version = policyVersion
    BY <1>6, WaitingHolds DEF OpenSession, Doing, RequestsConsented
  <2>2. /\ g \in Form /\ g.step = "holding" /\ g.basis = form[p].basis
        /\ g.data = form[p].data /\ g.own = form[p].own
    BY <2>1 DEF Form, FormSteps
  <2>3. /\ Becomes(p, g) /\ opened' = opened \cup {policyVersion}
        /\ UNCHANGED <<moment, policyVersion, identityEnabled, consent, recorded,
                       verifications>>
    BY <1>6 DEF OpenSession
  <2> HIDE DEF g
  <2>4. form'[p] = g /\ form' = [form EXCEPT ![p] = form'[p]]
    BY <1>0, <2>3, BecomesIs
  <2>5. RequestsConsented(form[p])' /\ ShowsRows(form[p])'
    BY <2>1, <2>2, <2>3, <2>4 DEF RequestsConsented, ShowsRows
  <2>6. \A v \in opened' : \E c \in recorded' : c.version = v
    BY <1>0, <2>1, <2>3
  <2> QED BY <1>0, <2>2, <2>3, <2>4, <2>5, <2>6, PageSteps DEF IdentityTyped
<1>7. CASE Verify(p)
  <2> DEFINE g == [form[p] EXCEPT !.step = "asking", !.consent = consent]
  <2>1. form[p] \in Form /\ ShowsRows(form[p])
    BY <1>7, WaitingHolds DEF Verify, Doing
  <2>2. /\ Rest
        /\ \/ Becomes(p, g) /\ consent \in recorded /\ consent.version = policyVersion
           \/ Becomes(p, Idle(form[p]))
    BY <1>0, <1>7 DEF Verify, BackToForm, ConsentInForce
  <2>3. /\ g \in Form /\ g.step = "asking" /\ g.basis = form[p].basis
        /\ g.data = form[p].data /\ g.own = form[p].own /\ g.consent = consent
    BY <1>0, <2>1 DEF Form, FormSteps, IdentityTyped
  <2> HIDE DEF g
  <2>4. /\ \/ form'[p] = g /\ consent \in recorded /\ consent.version = policyVersion
           \/ form'[p] = Idle(form[p])
        /\ form' = [form EXCEPT ![p] = form'[p]]
    BY <1>0, <2>2, BecomesIs
  <2>5. /\ Idle(form[p]) \in Form /\ ShowsRows(Idle(form[p]))
        /\ Idle(form[p]).step = "form"
    BY <1>0, <2>1, IdleHolds DEF Idle, Form
  <2>6. RequestsConsented(form[p])'
    BY <2>2, <2>3, <2>4, <2>5 DEF RequestsConsented
  <2>7. ShowsRows(form[p])'
    BY <2>1, <2>2, <2>3, <2>4, <2>5 DEF ShowsRows
  <2> QED BY <1>1, <2>2, <2>3, <2>4, <2>5, <2>6, <2>7
<1>8. CASE EngineAnswers(p)
  <2>1. /\ form[p] \in Form /\ ShowsRows(form[p]) /\ RequestsConsented(form[p])
        /\ form[p].step = "asking"
    BY <1>8, WaitingHolds DEF EngineAnswers, Doing
  <2>2. PICK verdict \in Verdicts :
           Becomes(p, [form[p] EXCEPT !.step = "saving", !.status = verdict])
    BY <1>8 DEF EngineAnswers
  <2>3. verdict \in {"VERIFIED", "FAILED"}
    BY DEF Verdicts
  <2> DEFINE g == [form[p] EXCEPT !.step = "saving", !.status = verdict]
  <2>4. /\ g \in Form /\ g.step = "saving" /\ g.basis = form[p].basis
        /\ g.data = form[p].data /\ g.own = form[p].own /\ g.consent = form[p].consent
    BY <2>1, <2>3 DEF Form, FormSteps
  <2>5. Becomes(p, g) /\ Rest
    BY <1>8, <2>2 DEF EngineAnswers
  <2> HIDE DEF g
  <2>6. form'[p] = g /\ form' = [form EXCEPT ![p] = form'[p]]
    BY <1>0, <2>5, BecomesIs
  <2> QED BY <1>1, <2>1, <2>4, <2>5, <2>6 DEF RequestsConsented, ShowsRows
<1>9. CASE RequestFails(p)
  <2>1. form[p] \in Form /\ ShowsRows(form[p])
    BY <1>9, WaitingHolds DEF RequestFails
  <2>2. Becomes(p, Idle(form[p])) /\ Rest
    BY <1>9 DEF RequestFails, BackToForm
  <2>3. form'[p] = Idle(form[p]) /\ form' = [form EXCEPT ![p] = form'[p]]
    BY <1>0, <2>2, BecomesIs
  <2>4. /\ Idle(form[p]) \in Form /\ ShowsRows(Idle(form[p]))
        /\ Idle(form[p]).step = "form"
    BY <1>0, <2>1, IdleHolds DEF Idle, Form
  <2> QED BY <1>1, <2>2, <2>3, <2>4 DEF RequestsConsented, ShowsRows
<1> QED BY <1>2, <1>3, <1>4, <1>5, <1>6, <1>7, <1>8, <1>9

(* The row that is written carries a consent on record, and the page is told. *)
LEMMA SaveHolds ==
    ASSUME IdentityInv, NEW p \in Pages, SaveVerification(p)
    PROVE  IdentityInv'
<1> DEFINE c == [version |-> policyVersion, at |-> form[p].consent.at]
           row == [status |-> form[p].status, basis |-> form[p].basis, consent |-> c]
           g == [Idle(form[p]) EXCEPT !.own = Len(verifications) + 1]
<1>1. /\ form[p] \in Form /\ ShowsRows(form[p])
      /\ form[p].consent \in recorded /\ form[p].consent.version = policyVersion
  BY WaitingHolds DEF SaveVerification, Doing, RequestsConsented
<1>2. /\ IdentityTyped /\ Len(verifications) \in Nat
      /\ recorded \subseteq Consents
  BY DEF IdentityInv, IdentityTyped
<1>3. c = form[p].consent
  BY <1>1, <1>2 DEF Consents
<1> HIDE DEF c
<1>4. row \in [status : {"VERIFIED", "FAILED"}, basis : Nat, consent : Consents]
      /\ row.consent \in recorded
  BY <1>1, <1>2, <1>3 DEF Form
<1>5. /\ g \in Form /\ g.step = "form" /\ g.basis = 0
      /\ g.data = form[p].data /\ g.own = Len(verifications) + 1
  <2>1. Idle(form[p]) \in Form /\ Idle(form[p]).step = "form" /\ Idle(form[p]).basis = 0
        /\ Idle(form[p]).data = form[p].data
    BY <1>1, <1>2, IdleHolds DEF Idle, Form
  <2> QED BY <1>2, <2>1 DEF Form
<1>6. /\ verifications' = Append(verifications, row) /\ Becomes(p, g)
      /\ UNCHANGED <<moment, policyVersion, identityEnabled, consent, recorded, opened>>
  BY DEF SaveVerification, c
<1> HIDE DEF row, g
<1>7. form'[p] = g /\ form' = [form EXCEPT ![p] = form'[p]]
  BY <1>2, <1>6, BecomesIs
<1>8. /\ Len(verifications') = Len(verifications) + 1
      /\ \A i \in 1..Len(verifications) : verifications'[i] = verifications[i]
      /\ verifications'[Len(verifications) + 1] = row
  BY <1>2, <1>4, <1>6 DEF IdentityTyped
<1>9. IdentityTyped'
  BY <1>2, <1>4, <1>5, <1>6, <1>7 DEF IdentityTyped
<1>10. ASSUME NEW q \in Pages, form'[q] # None
       PROVE  RequestsConsented(form[q])' /\ ShowsRows(form[q])'
  <2>1. CASE q = p
    BY <1>1, <1>2, <1>5, <1>6, <1>7, <1>8, <2>1 DEF RequestsConsented, ShowsRows, Form
  <2>2. CASE q # p
    <3>1. form'[q] = form[q] /\ form[q] # None
      BY <1>2, <1>7, <1>10, <2>2 DEF IdentityTyped
    <3>2. form[q] \in Form /\ RequestsConsented(form[q]) /\ ShowsRows(form[q])
      BY <3>1, WaitingHolds
    <3>3. RequestsConsented(form[q])'
      BY <1>6, <3>1, <3>2 DEF RequestsConsented
    <3>4. ShowsRows(form[q])'
      BY <1>2, <1>8, <3>1, <3>2 DEF ShowsRows, Form
    <3> QED BY <3>3, <3>4
  <2> QED BY <2>1, <2>2
<1>11. ConsentIsOnRecord'
  <2>1. ASSUME NEW i \in DOMAIN verifications' PROVE verifications'[i].consent \in recorded'
    <3>1. i \in 1..(Len(verifications) + 1)
      BY <1>8, <1>9 DEF IdentityTyped
    <3>2. CASE i = Len(verifications) + 1
      BY <1>4, <1>6, <1>8, <3>2
    <3>3. CASE i # Len(verifications) + 1
      <4>1. i \in 1..Len(verifications) /\ i \in DOMAIN verifications
        BY <1>2, <3>1, <3>3 DEF IdentityTyped
      <4> QED BY <1>6, <1>8, <4>1 DEF IdentityInv, ConsentIsOnRecord
    <3> QED BY <3>2, <3>3
  <2> QED BY <1>6, <2>1 DEF IdentityInv, ConsentIsOnRecord
<1> QED BY <1>6, <1>9, <1>10, <1>11 DEF IdentityInv, FormsHold

(* A release drops the requests that carry a consent of the version before. *)
LEMMA ReleaseHolds ==
    ASSUME IdentityInv, Release
    PROVE  IdentityInv'
<1>1. /\ IdentityTyped
      /\ UNCHANGED <<moment, identityEnabled, consent, recorded, opened, verifications>>
      /\ policyVersion' \in 1..MaxVersions
  BY IdentityAssumption DEF IdentityInv, IdentityTyped, Release
<1>2. ASSUME NEW p \in Pages, form[p] # None
      PROVE  /\ form'[p] \in Form
             /\ RequestsConsented(form[p])' /\ ShowsRows(form[p])'
  <2>1. form[p] \in Form /\ ShowsRows(form[p])
    BY <1>2, WaitingHolds
  <2>2. CASE Doing(p, "holding")
    BY <1>1, <1>2, <2>1, <2>2 DEF Release, Doing, RequestsConsented, ShowsRows
  <2>3. CASE ~Doing(p, "holding")
    <3>1. form'[p] = Idle(form[p])
      BY <1>2, <2>3 DEF Release
    <3>2. /\ Idle(form[p]) \in Form /\ ShowsRows(Idle(form[p]))
          /\ Idle(form[p]).step = "form"
      BY <1>1, <2>1, IdleHolds DEF Idle, Form
    <3> QED BY <1>1, <3>1, <3>2 DEF RequestsConsented, ShowsRows
  <2> QED BY <2>2, <2>3
<1>3. \A p \in Pages : form[p] = None => form'[p] = None
  BY DEF Release
<1>4. form' \in [Pages -> Form \cup {None}]
  BY <1>1, <1>2, <1>3 DEF Release, IdentityTyped
<1>5. IdentityTyped'
  BY <1>1, <1>4 DEF IdentityTyped
<1>6. ConsentIsOnRecord'
  BY <1>1 DEF IdentityInv, ConsentIsOnRecord
<1>7. FormsHold'
  BY <1>2, <1>3 DEF FormsHold
<1> QED BY <1>1, <1>5, <1>6, <1>7 DEF IdentityInv

LEMMA IdentityGoesOn == IdentityInv /\ [IdentityNext]_identityVars => IdentityInv'
<1> SUFFICES ASSUME IdentityInv, [IdentityNext]_identityVars PROVE IdentityInv'
  OBVIOUS
<1>1. CASE UNCHANGED <<policyVersion, consent, recorded, opened, verifications, form>>
           /\ moment' \in 0..MaxMoment /\ identityEnabled' \in BOOLEAN
  BY <1>1 DEF IdentityInv, IdentityTyped, FormsHold, RequestsConsented, ShowsRows,
     ConsentIsOnRecord
<1>2. SwitchIdentity \/ IdentityTick \/ UNCHANGED identityVars =>
         /\ UNCHANGED <<policyVersion, consent, recorded, opened, verifications, form>>
         /\ moment' \in 0..MaxMoment /\ identityEnabled' \in BOOLEAN
  <2>1. moment \in 0..MaxMoment /\ identityEnabled \in BOOLEAN
    BY DEF IdentityInv, IdentityTyped
  <2>2. SwitchIdentity => identityEnabled' \in BOOLEAN
    BY Zenon DEF SwitchIdentity
  <2>3. CASE SwitchIdentity
    BY <2>1, <2>2, <2>3 DEF SwitchIdentity
  <2>4. CASE IdentityTick
    BY <2>1, <2>4, IdentityAssumption DEF IdentityTick
  <2>5. CASE UNCHANGED identityVars
    BY <2>1, <2>5 DEF identityVars
  <2> QED BY <2>3, <2>4, <2>5
<1>3. CASE Release
  BY <1>3, ReleaseHolds
<1>4. ASSUME NEW p \in Pages, SaveVerification(p) PROVE IdentityInv'
  BY <1>4, SaveHolds
<1> QED BY <1>1, <1>2, <1>3, <1>4, PageStepsHold DEF IdentityNext

(* Every verification row names a consent that the candidate gave, of that      *)
(* version at that time, and every provider session was opened under a version  *)
(* consented to, whatever releases come between the calls                       *)
(* (verifyCandidateIdentityInStore, assertIdentityPrivacyConsent).              *)
THEOREM ConsentStaysOnRecord == IdentitySpec => []ConsentIsOnRecord
<1>1. IdentityInv => ConsentIsOnRecord
  BY DEF IdentityInv
<1> QED BY <1>1, IdentityStarts, IdentityGoesOn, PTL DEF IdentitySpec

(* Only a page that had not been told of it takes a verification away: the      *)
(* button over a row that passed is disabled (CandidateFlow.tsx), so the rows   *)
(* that follow one were asked for over an older one.                            *)
THEOREM VerifiedStands == IdentitySpec => VerifiedUntilContradicted
<1>1. ASSUME IdentityInv, [IdentityNext]_identityVars,
             NEW i \in DOMAIN verifications, i = Len(verifications),
             verifications[i].status = "VERIFIED", verifications' # verifications
      PROVE  verifications'[i + 1].basis < i
  <2>1. PICK p \in Pages : SaveVerification(p)
    BY <1>1, Zenon DEF IdentityNext, identityVars, Load, Refetch, Mutate, WriteConsent,
       OpenSession, Verify, EngineAnswers, RequestFails, SwitchIdentity, Release, IdentityTick
  <2>2. form[p] \in Form /\ ShowsRows(form[p])
    BY <1>1, <2>1, WaitingHolds DEF SaveVerification, Doing
  <2>3. verifications'[i + 1].basis = form[p].basis
    BY <1>1, <2>1 DEF SaveVerification, IdentityInv, IdentityTyped
  <2>4. i \in Nat /\ i # 0
    BY <1>1 DEF IdentityInv, IdentityTyped
  <2> QED BY <1>1, <2>2, <2>3, <2>4 DEF ShowsRows, Form
<1>2. IdentityInv /\ [IdentityNext]_identityVars =>
         [\A i \in DOMAIN verifications :
             /\ i = Len(verifications) /\ verifications[i].status = "VERIFIED"
             /\ verifications' # verifications
             /\ verifications'[i + 1].status = "FAILED"
             => verifications'[i + 1].basis < i]_identityVars
  BY <1>1
<1> QED BY <1>2, IdentityStarts, IdentityGoesOn, PTL
        DEF IdentitySpec, VerifiedUntilContradicted
===============================================================================
