------------------------------- MODULE Cat4OmClient -------------------------------
(***************************************************************************)
(* The client with a server that numbers its updates and may leave some    *)
(* out, restarts as another instance, gives the mastership to others, and  *)
(* refuses requests; connections that fail at any moment; and an operator. *)
(***************************************************************************)
EXTENDS FiniteSets, RadioControlOps

(* Cat4OmClient, the client of a CAT4OM group's control channel, as        *)
(* functions from a client to a client.  A message of the server is        *)
(* ordered with the others of its connection; closing a socket emits       *)
(* disconnected, whose slot runs inside close().  sent holds the requests  *)
(* written to the socket.  The number of a request stands for its text and *)
(* is only compared with those that are waiting for an answer.             *)
CONSTANTS RadioIds,     \* what the group calls its radios
          CatRadios,    \* what it may report of one
          MaxRequests,  \* bound on the requests without an answer
          MaxAttempts   \* the reconnections after which the delay stays
ASSUME Cat4OmAssumption ==
  /\ RadioIds \subseteq Nat \ {0} /\ MaxRequests \in Nat \ {0} /\ MaxAttempts \in Nat

AnyRadio == 0
NoSequence == -1
NoRadios == [id \in {} |-> NoCat4OmRadio]
NoActions == [n \in {} |-> "getAllState"]

NewCat4Om ==
  [user |-> TRUE, observer |-> FALSE, configured |-> AnyRadio, socket |-> "closed",
   welcomed |-> FALSE, role |-> "Unknown", instance |-> 0, sequence |-> NoSequence,
   radios |-> NoRadios, selected |-> NoCat4OmRadio, pending |-> NoActions, sent |-> <<>>,
   handshake |-> FALSE, inactivity |-> FALSE, reconnect |-> FALSE, attempt |-> 0]

(* 500 ms, doubled with every attempt up to the sixth.                     *)
ScheduleCat4OmReconnect(c) == [c EXCEPT !.attempt = IF @ < MaxAttempts THEN @ + 1 ELSE @, !.reconnect = TRUE]

(* Defect: the role of the connection that was lost is kept.               *)
Cat4OmEndsKeepingRole(c) ==
  LET d == [c EXCEPT !.socket = "closed", !.pending = NoActions, !.sent = <<>>,
                     !.handshake = FALSE, !.inactivity = FALSE]
  IN  IF c.user THEN d ELSE ScheduleCat4OmReconnect(d)

Cat4OmEnds(c) ==
  LET d == [c EXCEPT !.socket = "closed", !.welcomed = FALSE, !.role = "Unknown",
                     !.pending = NoActions, !.sent = <<>>, !.handshake = FALSE, !.inactivity = FALSE]
  IN  IF c.user THEN d ELSE ScheduleCat4OmReconnect(d)

CloseCat4Om(c) == IF c.socket = "closed" THEN c ELSE Cat4OmEnds(c)
FailCat4Om(c) == CloseCat4Om(c)

DisconnectCat4Om(c) ==
  CloseCat4Om([c EXCEPT !.user = TRUE, !.reconnect = FALSE, !.handshake = FALSE, !.inactivity = FALSE])

ConnectCat4Om(c, valid, configured, observer) ==
  LET d == DisconnectCat4Om(c)
  IN  IF ~valid THEN d
      ELSE [d EXCEPT !.configured = configured, !.observer = observer, !.user = FALSE,
                     !.attempt = 0, !.socket = "opening"]

SendHello(c) == [c EXCEPT !.socket = "open", !.handshake = TRUE]
ReconnectCat4Om(c) == [c EXCEPT !.reconnect = FALSE, !.socket = IF c.user THEN @ ELSE "opening"]

-----------------------------------------------------------------------------
(* The radio that was configured, or else the one the hash has first: the  *)
(* numbers of the radios stand for their order in it, whatever that is.    *)
SelectRadio(c) ==
  LET id == IF c.configured = AnyRadio /\ DOMAIN c.radios # {} THEN Min(DOMAIN c.radios) ELSE c.configured
  IN  [c EXCEPT !.selected = IF id \in DOMAIN c.radios THEN c.radios[id] ELSE NoCat4OmRadio]

Merged(radios, reported) ==
  [id \in DOMAIN radios \cup DOMAIN reported |->
     IF id \in DOMAIN reported THEN reported[id] ELSE radios[id]]
ReplaceOrMerge(c, reported, full) ==
  SelectRadio([c EXCEPT !.radios = Merged(IF full THEN NoRadios ELSE @, reported)])

FreshId(c) == Min(1..(MaxRequests + 1) \ DOMAIN c.pending)
MaySend(c, scoped) == c.welcomed /\ ~c.observer /\ (scoped => c.selected.id # "")
SendRequest(c, action, scoped) ==
  IF ~MaySend(c, scoped) THEN c
  ELSE LET id == FreshId(c)
       IN  [c EXCEPT !.pending = [n \in DOMAIN @ \cup {id} |-> IF n = id THEN action ELSE @[n]],
                     !.sent = Append(@, [id |-> id, action |-> action])]

UpdateRole(c, mine) ==
  [c EXCEPT !.role = IF c.observer THEN "Observer" ELSE IF mine THEN "Master" ELSE "Slave"]

-----------------------------------------------------------------------------
(***************************************************************************)
(* mine: the server names this client as the master.  good: a welcome of a *)
(* control channel whose version is compatible, or a response that says    *)
(* success.                                                                *)
(***************************************************************************)
HandleWelcome(c, m) ==
  IF ~m.good THEN FailCat4Om(c)
  ELSE LET d == [c EXCEPT !.instance = m.instance,
                          !.role = IF c.observer THEN "Observer" ELSE IF m.mine THEN "Master" ELSE "Slave",
                          !.sequence = m.seq]
           e == ReplaceOrMerge(d, m.radios, TRUE)
       IN  [e EXCEPT !.inactivity = TRUE, !.handshake = FALSE, !.welcomed = TRUE, !.attempt = 0]

AsksForAll(c, m) ==
  IF c.sequence >= 0 /\ m.seq > c.sequence + 1 THEN SendRequest(c, "getAllState", FALSE) ELSE c

HandleStateUpdate(c, m) ==
  LET d == AsksForAll(c, m)
      e == [d EXCEPT !.radios = IF m.seq >= 0 /\ m.seq < c.sequence THEN NoRadios ELSE @,
                     !.sequence = m.seq]
  IN  ReplaceOrMerge(UpdateRole(e, m.mine), m.radios, m.full)

HandleResponse(c, m) ==
  LET action == IF m.id \in DOMAIN c.pending THEN c.pending[m.id] ELSE "none"
      d == [c EXCEPT !.pending = Restrict(@, DOMAIN @ \ {m.id})]
  IN  IF ~m.good THEN d
      ELSE IF action = "getOwnership" THEN [d EXCEPT !.role = "Master"]
      ELSE IF action = "getAllState" THEN ReplaceOrMerge(d, m.radios, TRUE) ELSE d

(* The only event that the client knows is that the mastership changed.    *)
HandleEvent(c, m) == UpdateRole(c, m.mine)

HandleTextMessage(c, m) ==
  IF m.type = "malformed" THEN c
  ELSE IF ~c.welcomed
    THEN IF m.type = "welcome" THEN HandleWelcome(c, m) ELSE FailCat4Om(c)
    ELSE LET d == [c EXCEPT !.inactivity = TRUE]
         IN  CASE m.type = "stateUpdate" -> HandleStateUpdate(d, m)
               [] m.type = "ownershipChanged" -> HandleEvent(d, m)
               [] m.type = "response" -> HandleResponse(d, m)
               [] OTHER -> d

-----------------------------------------------------------------------------
CanWriteCat4Om(c) == c.welcomed /\ ~c.observer /\ c.role = "Master"
Cat4OmState(c) == Cat4OmRadioState(c.selected, CanWriteCat4Om(c))

RequestOwnership(c) == SendRequest(c, "getOwnership", FALSE)
SetFrequencyAccepted(c, hz) ==
  /\ CanWriteCat4Om(c) /\ hz # NoHz
  /\ c.selected.connected /\ "SetFrequency" \in c.selected.commands
SetRxAccepted(c, hz) ==
  /\ SetFrequencyAccepted(c, hz) /\ c.selected.active # NoVfo /\ Cat4OmPlanIsKnown(c.selected)
SetTxAccepted(c, hz) ==
  SetFrequencyAccepted(c, hz) /\ CommandIsValid(Cat4OmState(c), Command("SetTxFrequency", hz))
SetModeAccepted(c, mode, tx) ==
  CommandIsValid(Cat4OmState(c), Command(IF tx THEN "SetTxMode" ELSE "SetRxMode", mode))
SetSplitAccepted(c) == CanWriteCat4Om(c) /\ c.selected.connected /\ "SetSplit" \in c.selected.commands

SetCat4Om(c, action, accepted) == IF accepted THEN SendRequest(c, action, TRUE) ELSE c

-----------------------------------------------------------------------------
CONSTANTS MaxUpdates,   \* bound on the updates an instance numbers
          MaxMessages   \* bound on the messages on their way to the client
ASSUME GroupAssumption == MaxUpdates \in Nat /\ MaxMessages \in Nat

VARIABLES
  cat,      \* the client
  catIn,    \* the messages on their way to it
  group,    \* the server: its instance, the number of its last update, its
            \* radios, and whether this client is its master
  catLost   \* the radios that changed in an update that was left out, with
            \* no numbered message sent since
catVars == <<cat, catIn, group, catLost>>

Reported == [RadioIds -> CatRadios]
GroupMessage(type, good, seq, radios, full, id) ==
  [type |-> type, good |-> good, instance |-> group.instance, seq |-> seq, mine |-> group.mine,
   radios |-> radios, full |-> full, id |-> id]
PlainMessage(type, good, id) == GroupMessage(type, good, group.seq, NoRadios, FALSE, id)

Cat4OmInit ==
  /\ cat = NewCat4Om /\ catIn = <<>> /\ catLost = FALSE
  /\ \E radios \in Reported : group = [instance |-> 1, seq |-> 0, radios |-> radios, mine |-> FALSE]

-----------------------------------------------------------------------------
(* A connection that ends takes its messages and the mastership with it.   *)
Cat4OmBecomes(d, messages) ==
  /\ cat' = d
  /\ catIn' = IF d.socket = "open" THEN messages ELSE <<>>
  /\ group' = IF d.socket = "open" THEN group ELSE [group EXCEPT !.mine = FALSE]
  /\ UNCHANGED catLost

DoConnectCat4Om ==
  \E valid, observer \in BOOLEAN, id \in RadioIds \cup {AnyRadio} :
    Cat4OmBecomes(ConnectCat4Om(cat, valid, id, observer), <<>>)
DoDisconnectCat4Om == Cat4OmBecomes(DisconnectCat4Om(cat), <<>>)

Cat4OmOpens == cat.socket = "opening" /\ Cat4OmBecomes(SendHello(cat), <<>>)
Cat4OmDrops == cat.socket # "closed" /\ Cat4OmBecomes(Cat4OmEnds(cat), <<>>)
Cat4OmHandshakeTimeout == cat.handshake /\ Cat4OmBecomes(FailCat4Om([cat EXCEPT !.handshake = FALSE]), <<>>)
Cat4OmInactivityTimeout == cat.inactivity /\ Cat4OmBecomes(FailCat4Om([cat EXCEPT !.inactivity = FALSE]), <<>>)
Cat4OmReconnectTimeout == cat.reconnect /\ Cat4OmBecomes(ReconnectCat4Om(cat), <<>>)

MayAsk == Cardinality(DOMAIN cat.pending) < MaxRequests
Cat4OmHandles ==
  /\ catIn # <<>> /\ MayAsk
  /\ Cat4OmBecomes(HandleTextMessage(cat, Head(catIn)), Tail(catIn))

DoRequestOwnership == MayAsk /\ MaySend(cat, FALSE) /\ Cat4OmBecomes(RequestOwnership(cat), catIn)
DoSet ==
  /\ MayAsk
  /\ \E hz \in {NoHz, 1} :
       \/ Cat4OmBecomes(SetCat4Om(cat, "setFrequency", SetRxAccepted(cat, hz)), catIn)
       \/ Cat4OmBecomes(SetCat4Om(cat, "setFrequency", SetTxAccepted(cat, hz)), catIn)
       \/ Cat4OmBecomes(SetCat4Om(cat, "setMode", SetModeAccepted(cat, "CW", TRUE)), catIn)
       \/ Cat4OmBecomes(SetCat4Om(cat, "setSplit", SetSplitAccepted(cat)), catIn)
  /\ cat' # cat

-----------------------------------------------------------------------------
Sends(m) == catIn' = Append(catIn, m)
Room == cat.socket = "open" /\ Len(catIn) < MaxMessages
Greeted == cat.welcomed \/ \E i \in 1..Len(catIn) : catIn[i].type = "welcome"

Welcomes ==
  /\ Room /\ ~Greeted
  /\ \E good \in BOOLEAN : Sends(GroupMessage("welcome", good, group.seq, group.radios, TRUE, 0))
  /\ catLost' = FALSE
  /\ UNCHANGED <<cat, group>>

(* Something else answers the hello.                                       *)
Impostor == Room /\ ~Greeted /\ Sends(PlainMessage("error", TRUE, 0)) /\ UNCHANGED <<cat, group, catLost>>

(* A radio changes, and the update says which, or says everything.         *)
RadioChanges ==
  /\ Room /\ Greeted /\ group.seq < MaxUpdates
  /\ \E id \in RadioIds, radio \in CatRadios, full \in BOOLEAN, kept \in BOOLEAN :
       LET now == [group EXCEPT !.seq = @ + 1, !.radios[id] = radio]
       IN  /\ group' = now
           /\ IF kept
                THEN Sends([GroupMessage("stateUpdate", TRUE, now.seq,
                              IF full THEN now.radios ELSE [i \in {id} |-> radio], full, 0)
                            EXCEPT !.mine = now.mine])
                ELSE UNCHANGED catIn
           /\ catLost' = ~kept
  /\ UNCHANGED cat

OwnershipChanges ==
  /\ Room /\ Greeted
  /\ group' = [group EXCEPT !.mine = FALSE]
  /\ catIn' = Append(catIn, [PlainMessage("ownershipChanged", TRUE, 0) EXCEPT !.mine = FALSE])
  /\ UNCHANGED <<cat, catLost>>

(* The mastership is given only on request; a snapshot is never refused.   *)
Answers ==
  /\ cat.sent # <<>> /\ Room
  /\ LET request == Head(cat.sent)
     IN  \E good \in IF request.action = "getAllState" THEN {TRUE} ELSE BOOLEAN :
           /\ group' = [group EXCEPT !.mine = @ \/ (good /\ request.action = "getOwnership" /\ ~cat.observer)]
           /\ Sends(GroupMessage("response", good, group.seq, group.radios, TRUE, request.id))
  /\ cat' = [cat EXCEPT !.sent = Tail(@)]
  /\ UNCHANGED catLost

(* A server that starts again numbers from the beginning.                  *)
GroupRestarts ==
  /\ group.instance = 1 /\ cat.socket # "opening"
  /\ group' = [group EXCEPT !.instance = 2, !.seq = 0, !.mine = FALSE]
  /\ cat' = IF cat.socket = "open" THEN Cat4OmEnds(cat) ELSE cat
  /\ catIn' = <<>>
  /\ UNCHANGED catLost

Cat4OmNext ==
  \/ DoConnectCat4Om \/ DoDisconnectCat4Om \/ Cat4OmOpens \/ Cat4OmDrops
  \/ Cat4OmHandshakeTimeout \/ Cat4OmInactivityTimeout \/ Cat4OmReconnectTimeout \/ Cat4OmHandles
  \/ DoRequestOwnership \/ DoSet
  \/ Welcomes \/ Impostor \/ RadioChanges \/ OwnershipChanges \/ Answers
  \/ GroupRestarts

Cat4OmSpec == Cat4OmInit /\ [][Cat4OmNext]_catVars

-----------------------------------------------------------------------------
Asked(action) == \E n \in DOMAIN cat.pending : cat.pending[n] = action

(* handleStateUpdate: once everything the server sent was read and it owes *)
(* no snapshot, a control client's radios are the server's, whatever was   *)
(* left out in between; and it believes itself master exactly when the     *)
(* server does.  An observer cannot ask, and is excepted.                  *)
CaughtUp ==
  cat.welcomed /\ ~cat.observer /\ catIn = <<>> =>
    /\ ~catLost /\ ~Asked("getAllState") => cat.radios = group.radios
    /\ ~Asked("getOwnership") => (cat.role = "Master" <=> group.mine)

(* cat4om_client.cpp: the client is never left mute.  It is closed by the  *)
(* operator, or on its way to a server, or waiting for the next attempt,   *)
(* or open with a timer that will end the silence; it keeps a role, or a   *)
(* request, only of the connection it has; and it catches up.              *)
Cat4OmInv ==
  /\ CaughtUp
  /\ ~cat.user => (cat.socket = "closed" <=> cat.reconnect)
  /\ cat.user => cat.socket = "closed" /\ ~cat.reconnect
  /\ cat.socket = "open" => IF cat.welcomed THEN cat.inactivity ELSE cat.handshake
  /\ ~cat.welcomed => cat.role = "Unknown" /\ cat.pending = NoActions
  /\ cat.socket # "open" => ~cat.welcomed /\ ~cat.handshake /\ ~cat.inactivity
  /\ cat.observer => cat.role \notin {"Master", "Slave"} /\ cat.pending = NoActions
=============================================================================
