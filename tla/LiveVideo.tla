------------------------------- MODULE LiveVideo -------------------------------
(***************************************************************************)
(* The live picture of one camera: the candidate's page                    *)
(* (CandidateProctorStream.ts), the relay of the gateway                   *)
(* (proctor.gateway.ts), and the proctors' dashboards                      *)
(* (LiveProctorDashboard.tsx).  All dashboards share the one connection of *)
(* the camera.  Offers are numbered as the camera creates them; an answer  *)
(* names the offer it answers, which the page does not look at.            *)
(*                                                                         *)
(* Left out: ICE candidates, which follow the same rooms.  The relay asks  *)
(* for a proctor's session before it forwards, so requests and answers     *)
(* arrive in any order; offers and device events keep theirs.              *)
(***************************************************************************)
EXTENDS Naturals, Sequences, Absence

CONSTANTS
    Dashboards,          \* live dashboards on the camera's exam
    MaxOffers,           \* bound on offers
    MaxBreaks            \* bound on connections lost by the camera's page

ASSUME LiveVideoAssumption == MaxOffers \in Nat /\ MaxBreaks \in Nat

VARIABLES
    offered,             \* offers created
    drafting,            \* offers whose createOffer is awaited
    connection,          \* peerRef: the offer of the camera's connection, 0 for none
    remote,              \* its remote description: [offer, by], or None
    socketUp, breaks,
    starts,              \* starts under way, one for every connect
    joining,             \* join-candidates that the gateway has not finished
    joined,              \* the socket is in the candidate's room
    leaving,             \* disconnects the gateway still handles
    room,                \* dashboards in the admins' room
    inbox,               \* inbox[d]: what the gateway sent to d, in order
    offerRequested,      \* somebody's request-offer is under way
    answers,             \* answers under way
    peer,                \* peer[d]: the offer of d's connection, or 0
    answered,            \* answered[d]: d has answered it and shows its track
    undisturbed          \* the last offer was begun when nothing was under way

pageVars      == <<offered, drafting, connection, remote>>
socketVars    == <<socketUp, breaks, starts, joining, joined, leaving>>
dashboardVars == <<room, peer, answered>>
relayVars     == <<inbox, offerRequested, answers>>
videoVars     == <<pageVars, socketVars, dashboardVars, relayVars, undisturbed>>

VideoAnswer == [offer : Nat, by : Dashboards]

ASSUME NoneIsNoAnswer == None \notin VideoAnswer

VideoInit ==
    /\ offered = 0 /\ drafting = {} /\ connection = 0 /\ remote = None
    /\ socketUp = FALSE /\ breaks = 0 /\ starts = 0
    /\ joining = 0 /\ joined = FALSE /\ leaving = 0
    /\ room = {} /\ inbox = [d \in Dashboards |-> <<>>]
    /\ offerRequested = FALSE /\ answers = {}
    /\ peer = [d \in Dashboards |-> 0] /\ answered = [d \in Dashboards |-> FALSE]
    /\ undisturbed = FALSE

Tell(message) ==
    inbox' = [d \in Dashboards |-> IF d \in room THEN Append(inbox[d], message) ELSE inbox[d]]

\* The connection of d has an offer and is about to answer it.
Answering(d) == peer[d] # 0 /\ ~answered[d]

\* Nothing is under way, but for requests.
Quiet ==
    /\ drafting = {} /\ answers = {} /\ starts = 0 /\ joining = 0 /\ leaving = 0
    /\ \A d \in Dashboards : inbox[d] = <<>> /\ ~Answering(d)

-----------------------------------------------------------------------------
(* The camera's page. *)

\* createOffer up to its await: the old connection is closed.
CreateOffer ==
    /\ offered < MaxOffers
    /\ offered' = offered + 1 /\ drafting' = drafting \cup {offered + 1}
    /\ connection' = offered + 1 /\ remote' = None
    /\ undisturbed' = (Quiet /\ joined)

\* A connection closed meanwhile fails its offer.  The gateway relays for a
\* socket that has joined only.
SendOffer(n) ==
    /\ n \in drafting
    /\ drafting' = drafting \ {n}
    /\ IF n = connection /\ joined THEN Tell([type |-> "offer", offer |-> n])
                                   ELSE UNCHANGED inbox
    /\ UNCHANGED <<offered, connection, remote, socketVars, dashboardVars, offerRequested, answers,
                   undisturbed>>

\* socket.on("connect"), at first and after every break.
Connect ==
    /\ ~socketUp /\ socketUp' = TRUE /\ starts' = starts + 1
    /\ UNCHANGED <<pageVars, breaks, joining, joined, leaving, dashboardVars, relayVars,
                   undisturbed>>

\* The end of start: join-candidate is emitted and not waited for.
EmitJoin ==
    /\ starts > 0 /\ starts' = starts - 1 /\ joining' = joining + 1
    /\ CreateOffer
    /\ UNCHANGED <<socketUp, breaks, joined, leaving, dashboardVars, relayVars>>

\* handleJoinCandidate after the invite was read.
JoinCandidate ==
    /\ socketUp /\ joining > 0 /\ joining' = joining - 1 /\ joined' = TRUE
    /\ Tell([type |-> "joined", offer |-> 0])
    /\ UNCHANGED <<pageVars, socketUp, breaks, starts, leaving, dashboardVars, offerRequested, answers,
                   undisturbed>>

\* The socket breaks; the page keeps its connection.
Break ==
    /\ socketUp /\ breaks < MaxBreaks
    /\ breaks' = breaks + 1 /\ socketUp' = FALSE /\ joining' = 0 /\ joined' = FALSE
    /\ leaving' = IF joined THEN leaving + 1 ELSE leaving
    /\ undisturbed' = FALSE
    /\ UNCHANGED <<pageVars, starts, dashboardVars, relayVars>>

\* handleDisconnect after its two writes.
DeviceLeft ==
    /\ leaving > 0 /\ leaving' = leaving - 1
    /\ Tell([type |-> "left", offer |-> 0])
    /\ UNCHANGED <<pageVars, socketUp, breaks, starts, joining, joined, dashboardVars,
                   offerRequested, answers, undisturbed>>

\* A socket in the candidate's room has a stream.
RequestArrives ==
    /\ offerRequested /\ offerRequested' = FALSE
    /\ IF joined THEN CreateOffer ELSE UNCHANGED <<pageVars, undisturbed>>
    /\ UNCHANGED <<socketVars, dashboardVars, inbox, answers>>

\* setRemoteDescription fails unless the connection has an offer of its own and
\* no answer yet; whose offer was answered is not asked.
AnswerArrives(answer) ==
    /\ answer \in answers /\ answers' = answers \ {answer}
    /\ remote' = IF joined /\ connection \notin drafting \cup {0} /\ remote = None
                 THEN answer ELSE remote
    /\ UNCHANGED <<offered, drafting, connection, socketVars, dashboardVars, inbox, offerRequested,
                   undisturbed>>

-----------------------------------------------------------------------------
(* The dashboards. *)

\* handleJoinAdmin is done, at first or after a break of the dashboard's socket.
JoinRoom(d) ==
    /\ d \notin room /\ room' = room \cup {d} /\ undisturbed' = FALSE
    /\ UNCHANGED <<pageVars, socketVars, peer, answered, relayVars>>

\* The dashboard's socket breaks, or its page is closed with its connections.
LeaveRoom(d, closed) ==
    /\ d \in room /\ room' = room \ {d} /\ undisturbed' = FALSE
    /\ inbox' = [inbox EXCEPT ![d] = <<>>]
    /\ peer' = [peer EXCEPT ![d] = IF closed THEN 0 ELSE @]
    /\ answered' = [answered EXCEPT ![d] = @ /\ ~closed]
    /\ UNCHANGED <<pageVars, socketVars, offerRequested, answers>>

\* Every new data of the query repeated every five seconds.
RequestOffer(d) ==
    /\ d \in room /\ offerRequested' = TRUE
    /\ UNCHANGED <<pageVars, socketVars, dashboardVars, inbox, answers, undisturbed>>

Receive(d, type) ==
    /\ inbox[d] # <<>> /\ Head(inbox[d]).type = type
    /\ inbox' = [inbox EXCEPT ![d] = Tail(@)]

\* Wrong: a dashboard that has a connection keeps it.
TakeFirstOffer(d) ==
    /\ Receive(d, "offer")
    /\ peer' = [peer EXCEPT ![d] = IF @ = 0 THEN Head(inbox[d]).offer ELSE @]
    /\ UNCHANGED <<pageVars, socketVars, room, answered, offerRequested, answers, undisturbed>>

\* The old connection is closed, and its answer given up.
TakeOffer(d) ==
    /\ Receive(d, "offer")
    /\ peer' = [peer EXCEPT ![d] = Head(inbox[d]).offer]
    /\ answered' = [answered EXCEPT ![d] = FALSE]
    /\ UNCHANGED <<pageVars, socketVars, room, offerRequested, answers, undisturbed>>

\* Out of the room, the gateway refuses the answer.
Answer(d) ==
    /\ Answering(d)
    /\ answered' = [answered EXCEPT ![d] = TRUE]
    /\ answers' = IF d \in room THEN answers \cup {[offer |-> peer[d], by |-> d]} ELSE answers
    /\ UNCHANGED <<pageVars, socketVars, room, peer, inbox, offerRequested, undisturbed>>

TakeJoined(d) ==
    /\ Receive(d, "joined")
    /\ offerRequested' = TRUE
    /\ UNCHANGED <<pageVars, socketVars, dashboardVars, answers, undisturbed>>

\* The connection is closed whichever socket of the camera it belongs to.
TakeLeft(d) ==
    /\ Receive(d, "left")
    /\ peer' = [peer EXCEPT ![d] = 0] /\ answered' = [answered EXCEPT ![d] = FALSE]
    /\ UNCHANGED <<pageVars, socketVars, room, offerRequested, answers, undisturbed>>

VideoNext ==
    \/ Connect \/ EmitJoin \/ JoinCandidate \/ Break \/ DeviceLeft \/ RequestArrives
    \/ \E n \in drafting : SendOffer(n)
    \/ \E answer \in answers : AnswerArrives(answer)
    \/ \E d \in Dashboards :
           \/ JoinRoom(d) \/ RequestOffer(d) \/ TakeOffer(d) \/ Answer(d)
           \/ TakeJoined(d) \/ TakeLeft(d)
           \/ \E closed \in BOOLEAN : LeaveRoom(d, closed)

VideoSpec == VideoInit /\ [][VideoNext]_videoVars

-----------------------------------------------------------------------------
\* Both ends have each other's description of the same connection.
Connected(d) ==
    /\ d \in room /\ answered[d] /\ remote # None /\ remote.by = d
    /\ connection # 0 /\ remote.offer = connection /\ peer[d] = connection

(* Every offer replaces the camera's only connection and goes to every
   dashboard; the first answer is taken, whichever offer it belongs to, and an
   old socket's device-left closes the new picture.  When an exchange that began
   undisturbed is over, exactly one of the dashboards sees the camera: never
   none, and never two. *)
OneDashboardSees ==
    Quiet /\ undisturbed /\ room # {} =>
        \E d \in room : \A o \in Dashboards : Connected(o) <=> o = d
===============================================================================
