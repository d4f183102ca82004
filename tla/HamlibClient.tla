------------------------------- MODULE HamlibClient -------------------------------
(***************************************************************************)
(* The client with a daemon and the radio behind it.  The daemon answers   *)
(* the request on the wire, at any time, rightly, with an error, with      *)
(* nonsense or not at all; it may send a result nobody asked for, refuse a *)
(* connection or hang up; the operator turns the radio's own knobs.        *)
(***************************************************************************)
EXTENDS RadioControlOps, FiniteSets

(* HamlibRigctldClient, the client of one rigctld daemon, as functions     *)
(* from a client to a client.  One request is on the wire at a time; five  *)
(* reads make a poll, whose result is published as a whole.  A line of the *)
(* daemon is a result code or a line of a payload, and a payload carries   *)
(* what the radio was like when the daemon answered.  The socket's         *)
(* disconnected signal is emitted by abort() only on a socket that had     *)
(* been connected, and its slot runs inside abort().  wire: the commands      *)
(* written that the daemon has not read yet.  session and on are           *)
(* history: which of two connections in turn is open, and on which a       *)
(* request was accepted.                                                   *)
CONSTANTS Panels,     \* what the radio's front panel can be set to
          HamlibQueue \* the requests beyond which no more are queued
ASSUME PanelAssumption ==
  /\ Panels \subseteq [rx : Hertz, tx : Hertz, mode : Modes, split : BOOLEAN] /\ Panels # {}
  /\ HamlibQueue \in Nat

PollFields == <<"rx", "tx", "rxMode", "txMode", "split">>
PollLength == Len(PollFields)
PayloadLines(field) ==
  CASE field \in {"vfoMode", "rx", "tx"} -> 1
    [] field \in {"rxMode", "txMode", "split"} -> 2
    [] field = "write" -> 0

NoCommand == Command("SelectRxVfo", NoVfo)
Sessions == {0, 1}
Reading(field, session) == [field |-> field, command |-> NoCommand, on |-> session]
Writing(command, session) == [field |-> "write", command |-> command, on |-> session]
Idle == Reading("none", 0)

(* A line holds a result code or, when it has none, one line of a payload. *)
PayloadLine(valid, panel) == [result |-> "none", valid |-> valid, panel |-> panel]
ResultLine(result, panel) == [result |-> result, valid |-> TRUE, panel |-> panel]

NoObservation == [Blank(Unknown) EXCEPT !.avail = Unavailable]
NewHamlib ==
  [operator |-> TRUE, writable |-> FALSE, socket |-> "unconnected", queue |-> <<>>,
   active |-> Idle, payload |-> <<>>, poll |-> FALSE, request |-> FALSE, reconnect |-> FALSE,
   pending |-> NoObservation, remaining |-> 0, state |-> NoObservation,
   wire |-> <<>>, session |-> 0]

Cleared(c) ==
  [c EXCEPT !.poll = FALSE, !.request = FALSE, !.queue = <<>>, !.active = Idle, !.payload = <<>>,
            !.state = NoObservation]

(* Defect: what waits to be sent survives the connection.                  *)
HandleDisconnectedKeepingQueue(c) ==
  [c EXCEPT !.poll = FALSE, !.request = FALSE, !.active = Idle, !.payload = <<>>,
            !.state = NoObservation, !.reconnect = @ \/ ~c.operator]

HandleDisconnected(c) ==
  LET d == Cleared(c) IN [d EXCEPT !.reconnect = @ \/ ~c.operator]

Abort(c) ==
  LET d == [c EXCEPT !.socket = "unconnected", !.wire = <<>>]
  IN  IF c.socket = "connected" THEN HandleDisconnected(d) ELSE d

(* Defect: the conversation goes on over the same connection.              *)
FailProtocolStaying(c) == [Cleared(c) EXCEPT !.poll = TRUE]
FailProtocol(c) == Abort(Cleared(c))

BeginConnection(c) ==
  IF c.operator \/ c.socket # "unconnected" THEN c
  ELSE [c EXCEPT !.socket = "connecting", !.request = TRUE]

DisconnectHamlib(c) ==
  LET d == Abort([Cleared(c) EXCEPT !.operator = TRUE, !.reconnect = FALSE])
  IN  [d EXCEPT !.state = NoObservation]

ConnectHamlib(c, valid, writable) ==
  LET d == DisconnectHamlib(c)
  IN  IF valid THEN BeginConnection([d EXCEPT !.writable = writable, !.operator = FALSE]) ELSE d

SendNext(c) ==
  IF c.active # Idle \/ c.queue = <<>> \/ c.socket # "connected" THEN c
  ELSE [c EXCEPT !.active = Head(c.queue), !.payload = <<>>, !.queue = Tail(c.queue),
                 !.request = TRUE, !.wire = Append(@, Head(c.queue))]

Queue(c, request) == SendNext([c EXCEPT !.queue = Append(@, request)])

Connected(c) ==
  Queue([c EXCEPT !.socket = "connected", !.request = FALSE, !.session = 1 - @],
        Reading("vfoMode", 1 - c.session))

(* The five reads are queued one after the other; the first goes out.      *)
BeginPoll(c) ==
  IF c.socket # "connected" \/ c.active # Idle \/ c.queue # <<>> THEN c
  ELSE SendNext([c EXCEPT
         !.pending = [Blank(Unknown) EXCEPT
           !.avail = Known, !.rxVfo = Read("A"), !.txVfo = Read("B"),
           !.caps = Read(IF c.writable THEN Capabilities \ {"SelectRxVfo", "SelectTxVfo"} ELSE {})],
         !.remaining = PollLength,
         !.queue = [i \in 1..PollLength |-> Reading(PollFields[i], c.session)]])

PublishPoll(c) ==
  IF RadioStateIsValid(c.pending) THEN [c EXCEPT !.state = c.pending, !.poll = TRUE] ELSE FailProtocol(c)

(* What a read learned, for the field it was about.                        *)
Observed(pending, field, panel) ==
  CASE field = "rx" -> [pending EXCEPT !.rx = Read(panel.rx)]
    [] field = "tx" -> [pending EXCEPT !.tx = Read(panel.tx)]
    [] field \in {"rxMode", "txMode"} ->
         [pending EXCEPT ![field] =
            IF panel.mode = NoMode THEN Unread(Unavailable, NoMode) ELSE Read(panel.mode)]
    [] field = "split" ->
         [pending EXCEPT !.split = Read(IF panel.split THEN "Enabled" ELSE "Disabled"),
                         !.txVfo = Read("B")]
    [] OTHER -> pending

PayloadIsValid(field, payload) ==
  CASE field = "write" -> TRUE
    [] field \in {"rxMode", "txMode"} -> payload # <<>> /\ payload[1].valid
    [] OTHER -> Len(payload) = PayloadLines(field) /\ \A i \in 1..Len(payload) : payload[i].valid

(* A write that leaves nothing to send puts the poll timer back.           *)
AfterWrite(c) ==
  IF c.active = Idle /\ c.queue = <<>> THEN [c EXCEPT !.poll = TRUE] ELSE c

CompleteRead(c, field, payload) ==
  LET read == [c EXCEPT !.pending = Observed(@, field, payload[1].panel), !.remaining = @ - 1]
  IN  SendNext(IF read.remaining = 0 THEN PublishPoll(read) ELSE read)

CompleteRequest(c, result) ==
  LET field == c.active.field
      d == [c EXCEPT !.request = FALSE, !.active = Idle, !.payload = <<>>]
  IN  IF result # "ok" \/ ~PayloadIsValid(field, c.payload) THEN FailProtocol(d)
      ELSE IF field = "vfoMode" THEN SendNext(BeginPoll(d))
      ELSE IF field = "write" THEN AfterWrite(SendNext(d))
      ELSE CompleteRead(d, field, c.payload)

ConsumeLine(c, line) ==
  IF c.active = Idle THEN FailProtocol(c)
  ELSE IF line.result # "none" THEN CompleteRequest(c, line.result)
  ELSE IF c.active.field = "write" THEN FailProtocol(c)
  ELSE LET d == [c EXCEPT !.payload = Append(@, line)]
       IN  IF Len(d.payload) = PayloadLines(c.active.field) THEN CompleteRequest(d, "ok") ELSE d

CanWrite(c) == c.socket = "connected" /\ c.state.avail = Known /\ c.writable

WriteAccepted(c, command) == CanWrite(c) /\ CommandIsValid(c.state, command)
QueueWrite(c, command) ==
  IF WriteAccepted(c, command) THEN Queue([c EXCEPT !.poll = FALSE], Writing(command, c.session)) ELSE c

PollTimeout(c) == BeginPoll([c EXCEPT !.poll = FALSE])
RequestTimeout(c) == FailProtocol([c EXCEPT !.request = FALSE])
HamlibReconnectTimeout(c) == BeginConnection([c EXCEPT !.reconnect = FALSE])

-----------------------------------------------------------------------------
CONSTANTS HamlibLines,    \* bound on the lines on their way to the client
          HamlibCommands  \* what the operator asks of the radio
ASSUME HamlibAssumption == HamlibLines \in Nat

VARIABLES
  hl,         \* the client
  hlStream,   \* the lines the daemon has sent and the client has not read
  panel,      \* the radio
  hlSeen      \* history: what the radio has shown since the poll began
hlVars == <<hl, hlStream, panel, hlSeen>>

Shows(p) == [rx |-> {p.rx}, split |-> {p.split}]

HamlibInit ==
  /\ hl = NewHamlib /\ hlStream = <<>>
  /\ panel \in Panels /\ hlSeen = Shows(panel)

-----------------------------------------------------------------------------
(* The client becomes d: the lines of a connection that is gone are lost,  *)
(* and a poll that begins forgets what was shown before it.                *)
Begins(d) == d.active.field = "rx" /\ hl.active.field # "rx"
HamlibBecomes(d, lines) ==
  /\ hl' = d
  /\ hlStream' = IF d.socket = "connected" /\ hl.socket = "connected" THEN lines ELSE <<>>
  /\ hlSeen' = IF Begins(d) THEN Shows(panel) ELSE hlSeen
  /\ UNCHANGED panel

DoConnectHamlib ==
  \E valid, writable \in BOOLEAN : HamlibBecomes(ConnectHamlib(hl, valid, writable), hlStream)
DoDisconnectHamlib == HamlibBecomes(DisconnectHamlib(hl), hlStream)

DoQueueWrite ==
  /\ Len(hl.queue) < HamlibQueue
  /\ \E command \in HamlibCommands :
       WriteAccepted(hl, command) /\ HamlibBecomes(QueueWrite(hl, command), hlStream)

HamlibConnects == hl.socket = "connecting" /\ HamlibBecomes(Connected(hl), <<>>)
(* errorOccurred only changes the status text.                             *)
HamlibRefused == hl.socket = "connecting" /\ HamlibBecomes([hl EXCEPT !.socket = "unconnected"], <<>>)
HamlibHangsUp ==
  /\ hl.socket = "connected"
  /\ HamlibBecomes(HandleDisconnected([hl EXCEPT !.socket = "unconnected", !.wire = <<>>]), <<>>)

HamlibReads == hlStream # <<>> /\ HamlibBecomes(ConsumeLine(hl, Head(hlStream)), Tail(hlStream))

HamlibPolls == hl.poll /\ HamlibBecomes(PollTimeout(hl), hlStream)
HamlibTimesOut == hl.request /\ HamlibBecomes(RequestTimeout(hl), hlStream)
HamlibRetries == hl.reconnect /\ HamlibBecomes(HamlibReconnectTimeout(hl), hlStream)

-----------------------------------------------------------------------------
(* What the daemon does with the command it reads.                         *)
Applied(command) ==
  CASE command.needs = "SetRxFrequency" -> [panel EXCEPT !.rx = command.val]
    [] command.needs = "SetSplit" -> [panel EXCEPT !.split = command.val = "Enabled"]
    [] OTHER -> panel

Shown(p) == [rx |-> hlSeen.rx \cup {p.rx}, split |-> hlSeen.split \cup {p.split}]
Reply(lines) == hlStream' = hlStream \o lines

DaemonAnswers ==
  /\ hl.wire # <<>> /\ hl' = [hl EXCEPT !.wire = Tail(@)]
  /\ IF Head(hl.wire).field = "write"
       THEN /\ panel' = Applied(Head(hl.wire).command)
            /\ Reply(<<ResultLine("ok", panel')>>)
       ELSE /\ UNCHANGED panel
            /\ \E valid \in BOOLEAN :
                 Reply([i \in 1..PayloadLines(Head(hl.wire).field) |-> PayloadLine(valid, panel)])
  /\ hlSeen' = Shown(panel')

DaemonRefuses ==
  /\ hl.wire # <<>> /\ hl' = [hl EXCEPT !.wire = Tail(@)]
  /\ Reply(<<ResultLine("error", panel)>>)
  /\ UNCHANGED <<panel, hlSeen>>

(* The command is lost in the daemon, and the client waits in vain.        *)
DaemonIsSilent ==
  /\ hl.wire # <<>> /\ hl' = [hl EXCEPT !.wire = Tail(@)]
  /\ UNCHANGED <<hlStream, panel, hlSeen>>

(* A result nobody asked for, between two answers but not within one.      *)
DaemonBabbles ==
  /\ hl.socket = "connected" /\ Len(hlStream) < HamlibLines /\ Len(hl.wire) <= HamlibLines
  /\ Reply(<<ResultLine("ok", panel)>>)
  /\ UNCHANGED <<hl, panel, hlSeen>>

OperatorTurnsKnob ==
  /\ panel' \in Panels /\ hlSeen' = Shown(panel')
  /\ UNCHANGED <<hl, hlStream>>

HamlibNext ==
  \/ DoConnectHamlib \/ DoDisconnectHamlib \/ DoQueueWrite
  \/ HamlibConnects \/ HamlibRefused \/ HamlibHangsUp \/ HamlibReads
  \/ HamlibPolls \/ HamlibTimesOut \/ HamlibRetries
  \/ DaemonAnswers \/ DaemonRefuses \/ DaemonIsSilent \/ DaemonBabbles
  \/ OperatorTurnsKnob

HamlibSpec == HamlibInit /\ [][HamlibNext]_hlVars

-----------------------------------------------------------------------------
(* hamlib_rigctld_client.cpp: whatever the daemon does, an open connection *)
(* always has a timer that will end the silence; a request on the wire has *)
(* its own; and what waits to be sent was accepted on this connection, so  *)
(* no write reaches a radio that the operator did not have in front of him *)
(* when he made it.                                                        *)
HamlibInv ==
  /\ hl.socket = "connected" => hl.request \/ hl.poll
  /\ hl.active # Idle => hl.socket = "connected" /\ hl.request /\ hl.active.on = hl.session
  /\ hl.active = Idle => hl.queue = <<>>
  /\ \A i \in 1..Len(hl.queue) : hl.queue[i].on = hl.session
  /\ hl.state.avail = Known => hl.socket = "connected" /\ RadioStateIsValid(hl.state)
  /\ hl.reconnect => ~hl.operator
  /\ hl.socket = "connecting" => hl.request

(* publishPoll: every frequency and split state that is published is one   *)
(* the radio had after the poll began; an answer of an earlier request, or *)
(* of an earlier poll, is never taken for it, not even when the daemon     *)
(* sends results nobody asked for.                                         *)
PublishesWhatWasSeen ==
  [][hl'.state # hl.state /\ hl'.state.avail = Known =>
       /\ hl'.state.rx.val \in hlSeen.rx
       /\ \E split \in hlSeen.split : hl'.state.split = Read(IF split THEN "Enabled" ELSE "Disabled")
    ]_hlVars
=============================================================================
