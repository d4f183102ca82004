------------------------------- MODULE DxCluster -------------------------------
(***************************************************************************)
(* The client, the settings that configure it, and the far end: a server   *)
(* may accept or refuse, send any line at any time, prompt twice, hang up  *)
(* or fall silent, and the three timers race with all of it.               *)
(***************************************************************************)
EXTENDS Sequences, Integers

(* DxClusterClient, the telnet client of one DX cluster node, and the slot *)
(* of ReplayController that configures it, as functions from a client to a *)
(* client.  The client and its socket live on the main thread, where a     *)
(* slot runs to its end.  The text of the lines is left out: a line is a   *)
(* login prompt, a spot, or anything else.                                 *)
CONSTANTS
  Servers,     \* the valid server descriptions
  SourceOf,    \* what kind of evidence each server supplies
  Filtered,    \* those with a setup command that names the band
  Logins,      \* the callsigns that may be sent to a cluster
  BadLogin,    \* one that may not
  Bands,       \* the amateur bands
  NoBand,      \* the receive frequency is unknown
  MinimumReconnect, MaximumReconnect,   \* seconds
  MaxFailures, \* the failures beyond which the delay does not grow
  MaxPending   \* kMaximumPendingSpots

Sources == {"ReverseBeacon", "Cluster"}

Shorter(a, b) == IF a < b THEN a ELSE b
(* The delay doubles with each failure in a row after the first. *)
Delay[failures \in 0..MaxFailures] ==
  IF failures <= 1 THEN Shorter(MinimumReconnect, MaximumReconnect)
                   ELSE Shorter(2 * Delay[failures - 1], MaximumReconnect)
Delays == {Delay[failures] : failures \in 0..MaxFailures}
Stopped == 0

(* The failure counter saturates: from MaxFailures on nothing tells its    *)
(* values apart.                                                           *)
NoServer == "no server"
ASSUME ClusterAssumption ==
  /\ NoServer \notin Servers
  /\ SourceOf \in [Servers -> Sources]
  /\ Filtered \subseteq Servers
  /\ BadLogin \notin Logins
  /\ NoBand \notin Bands
  /\ MinimumReconnect \in Nat \ {0}
  /\ MaximumReconnect \in Nat \ {0}
  /\ MaxFailures \in Nat \ {0}
  /\ MaxPending \in Nat

(***************************************************************************)
(* reconnect is the delay that reconnect_timer_ was started with; idle and *)
(* batch say whether the other two timers run.  attached: the socket's     *)
(* signals are connected to the client's slots.  An open socket carries    *)
(* what has been written to it: the callsigns and the last band filter.    *)
(***************************************************************************)
Nothing == [to |-> NoServer, up |-> FALSE, logins |-> <<>>, filter |-> NoBand]
Sockets ==
  [to : Servers \cup {NoServer}, up : BOOLEAN, logins : Seq(Logins), filter : Bands \cup {NoBand}]
Spots == [source : Sources, from : Servers]
Clients ==
  [enabled : BOOLEAN, server : Servers \cup {NoServer}, login : Logins \cup {BadLogin},
   band : Bands \cup {NoBand}, socket : Sockets, attached : BOOLEAN,
   loggedIn : BOOLEAN, failures : 0..MaxFailures, pending : Seq(Spots),
   reconnect : Delays \cup {Stopped}, idle : BOOLEAN, batch : BOOLEAN]

NewClient ==
  [enabled |-> FALSE, server |-> NoServer, login |-> BadLogin, band |-> NoBand,
   socket |-> Nothing, attached |-> FALSE, loggedIn |-> FALSE, failures |-> 0,
   pending |-> <<>>, reconnect |-> Stopped, idle |-> FALSE, batch |-> FALSE]

HasSocket(c) == c.socket.to # NoServer
Joinable(c) == c.server # NoServer /\ c.login \in Logins

-----------------------------------------------------------------------------
(* Defect: the socket is dropped with its signals connected. *)
CloseConnectionAttached(c) ==
  [c EXCEPT !.idle = FALSE, !.loggedIn = FALSE, !.socket = Nothing]

CloseConnection(c) ==
  [c EXCEPT !.idle = FALSE, !.loggedIn = FALSE, !.socket = Nothing, !.attached = FALSE]

(* One socket at a time, and none without a server and a callsign. *)
OpenConnection(c) ==
  IF c.enabled /\ ~HasSocket(c) /\ Joinable(c)
    THEN [c EXCEPT !.loggedIn = FALSE, !.attached = TRUE, !.idle = TRUE, !.batch = TRUE,
                   !.socket = [Nothing EXCEPT !.to = c.server]]
    ELSE c

ScheduleReconnect(c) ==
  IF c.enabled THEN [c EXCEPT !.reconnect = Delay[c.failures]] ELSE c

(* The connection is over, and not by the client's own act. *)
Ended(c) ==
  LET closed == CloseConnection(c)
  IN IF c.enabled
       THEN ScheduleReconnect(
              [closed EXCEPT !.failures = Shorter(@ + 1, MaxFailures)])
       ELSE closed

ErrorOccurred(c) == IF HasSocket(c) THEN Ended(c) ELSE c
Disconnected(c) == Ended(c)
(* A remote close is signalled as an error and then as a disconnection. *)
RemoteClosed(c) ==
  LET told == ErrorOccurred(c) IN IF told.attached THEN Disconnected(told) ELSE told

IdleTimeout(c) == IF c.enabled THEN Ended([c EXCEPT !.idle = FALSE]) ELSE c
(* Defect: after the longest delay nothing is tried any more. *)
ReconnectTimeoutGivingUp(c) ==
  LET due == [c EXCEPT !.reconnect = Stopped]
  IN IF c.failures < MaxFailures THEN OpenConnection(due) ELSE due

ReconnectTimeout(c) ==
  LET due == [c EXCEPT !.reconnect = Stopped]
  IN IF c.enabled THEN OpenConnection(due) ELSE due
FlushBatch(c) == [c EXCEPT !.pending = <<>>]

-----------------------------------------------------------------------------
(* The setters.                                                            *)

SetEnabled(c, enabled) ==
  CASE c.enabled = enabled -> c
    [] c.enabled # enabled /\ enabled ->
         OpenConnection([c EXCEPT !.enabled = TRUE, !.failures = 0])
    [] c.enabled # enabled /\ ~enabled ->
         [FlushBatch(CloseConnection([c EXCEPT !.enabled = FALSE, !.reconnect = Stopped]))
            EXCEPT !.batch = FALSE, !.failures = 0]

(* A changed server or callsign drops a live connection and makes another. *)
Reopened(c) == OpenConnection(CloseConnection([c EXCEPT !.reconnect = Stopped]))
Changed(c) == IF c.enabled THEN Reopened([c EXCEPT !.failures = 0])
                           ELSE [c EXCEPT !.failures = 0]
SetServer(c, server) ==
  IF c.server = server THEN c ELSE Changed([c EXCEPT !.server = server])

(* Defect: a live session keeps the callsign it logged in with. *)
SetLoginCallsignLater(c, login) == [c EXCEPT !.login = login, !.failures = 0]

SetLoginCallsign(c, login) ==
  IF c.login = login THEN c ELSE Changed([c EXCEPT !.login = login])

(* What a command that names the band leaves the server filtering on: such *)
(* a command is not sent at all while the band is unknown.                 *)
SentFilter(c) ==
  IF c.server \in Filtered /\ c.band # NoBand THEN c.band ELSE c.socket.filter

(* Only a session that has logged in is told, and with the band-dependent  *)
(* commands alone.                                                         *)
SetBandFilter(c, band) ==
  LET known == [c EXCEPT !.band = band]
  IN IF c.band # band /\ c.loggedIn
       THEN [known EXCEPT !.socket.filter = SentFilter(known)] ELSE known

(* ReplayController::configureDxCluster(): the client is told the server,  *)
(* the callsign and the band before it is enabled.                         *)
ConfigureDxCluster(c, enabled, server, login, band) ==
  IF enabled /\ login \in Logins
    THEN SetEnabled(
           SetBandFilter(SetLoginCallsign(SetServer(c, server), login), band), TRUE)
    ELSE SetEnabled(c, FALSE)

-----------------------------------------------------------------------------
(* What arrives: any byte restarts the idle timer.                         *)

AnswerPrompt(c) ==
  IF c.loggedIn \/ c.login \notin Logins
    THEN c
    ELSE [c EXCEPT !.loggedIn = TRUE, !.failures = 0,
                   !.socket.logins = Append(@, c.login), !.socket.filter = SentFilter(c)]

(* A spot's source is taken from the server that is configured, not from   *)
(* the line.  from is history: the server that sent it.                    *)
StoreSpot(c) ==
  IF Len(c.pending) >= MaxPending
    THEN c
    ELSE [c EXCEPT !.pending =
            Append(@, [source |-> SourceOf[c.server], from |-> c.socket.to])]

HandleLine(c, line) ==
  CASE line = "prompt" -> AnswerPrompt(c)
    [] line = "spot" -> StoreSpot(c)
    [] OTHER -> c
Received(c, line) == HandleLine([c EXCEPT !.idle = TRUE], line)

-----------------------------------------------------------------------------
CONSTANT MaxInFlight   \* bound on the lines on their way to the client
ASSUME NetworkAssumption == MaxInFlight \in Nat

ServerLines == {"prompt", "spot", "text"}

VARIABLES
  c,        \* the client
  stream,   \* the lines the server has sent and the client has not read
  ends      \* history: connections ended in a row since the counter was
            \* rightly put back
clusterVars == <<c, stream, ends>>

ClusterInit == c = NewClient /\ stream = <<>> /\ ends = 0

-----------------------------------------------------------------------------
DoConfigureDxCluster ==
  \E enabled \in BOOLEAN, server \in Servers, login \in Logins \cup {BadLogin} :
    /\ c' = ConfigureDxCluster(c, enabled, server, login, c.band)
    /\ IF c' = c
         THEN UNCHANGED <<stream, ends>>
         ELSE stream' = <<>> /\ ends' = 0

DoSetBandFilter ==
  /\ \E band \in Bands \cup {NoBand} : c' = SetBandFilter(c, band)
  /\ UNCHANGED <<stream, ends>>

Connects ==
  /\ HasSocket(c) /\ ~c.socket.up
  /\ c' = [c EXCEPT !.socket.up = TRUE]
  /\ UNCHANGED <<stream, ends>>

ServerSends ==
  /\ c.socket.up /\ Len(stream) < MaxInFlight
  /\ \E line \in ServerLines : stream' = Append(stream, line)
  /\ UNCHANGED <<c, ends>>

HandleReadyRead ==
  /\ stream # <<>>
  /\ c' = Received(c, Head(stream))
  /\ stream' = Tail(stream)
  /\ ends' = IF ~c.loggedIn /\ c'.loggedIn THEN 0 ELSE ends

EndsWith(d) ==
  /\ c' = d
  /\ stream' = <<>>
  /\ ends' = Shorter(ends + 1, MaxFailures)

ConnectionRefused == HasSocket(c) /\ ~c.socket.up /\ EndsWith(ErrorOccurred(c))
ServerHangsUp == c.socket.up /\ EndsWith(RemoteClosed(c))
IdleTimerFires == c.idle /\ EndsWith(IdleTimeout(c))
ReconnectTimerFires ==
  /\ c.reconnect # Stopped
  /\ c' = ReconnectTimeout(c)
  /\ UNCHANGED <<stream, ends>>
BatchTimerFires ==
  c.batch /\ c' = FlushBatch(c) /\ UNCHANGED <<stream, ends>>

ClusterNext ==
  \/ DoConfigureDxCluster
  \/ DoSetBandFilter
  \/ Connects
  \/ ServerSends
  \/ HandleReadyRead
  \/ ConnectionRefused
  \/ ServerHangsUp
  \/ IdleTimerFires
  \/ ReconnectTimerFires
  \/ BatchTimerFires

(* The event loop gets to an expired reconnect timer. *)
ClusterSpec == ClusterInit /\ [][ClusterNext]_clusterVars /\ WF_clusterVars(ReconnectTimerFires)

-----------------------------------------------------------------------------
ClusterTypeOK ==
  /\ c \in Clients
  /\ stream \in Seq(ServerLines)
  /\ ends \in 0..MaxFailures

(* A session never outlives the settings it was made with: the far end is  *)
(* the configured server, it has been told the configured callsign and no  *)
(* other, once, and its filter follows the receiver whatever the order of  *)
(* band changes, prompts and reconnections.  A spot that waits for its     *)
(* batch is evidence of the kind of the server that sent it.               *)
SessionIsCurrent ==
  /\ HasSocket(c) => c.socket.to = c.server
  /\ HasSocket(c) => c.socket.logins = (IF c.loggedIn THEN <<c.login>> ELSE <<>>)
  /\ c.loggedIn /\ c.band # NoBand /\ c.server \in Filtered => c.socket.filter = c.band
  /\ \A i \in 1..Len(c.pending) : c.pending[i].source = SourceOf[c.pending[i].from]

(* Every ended connection is counted once, though its socket signals twice *)
(* or a timer ends it, so that each attempt in a row waits as long as the  *)
(* number of the failures before it asks.                                  *)
BacksOff ==
  /\ c.failures = ends
  /\ c.reconnect # Stopped => c.reconnect = Delay[ends]

(* An enabled client is never left with nothing to wake it: it has a       *)
(* connection watched by the idle timer, or the reconnect timer runs, and  *)
(* never both.  A client that is off holds no connection, timer or spot.   *)
ClusterInv ==
  /\ ClusterTypeOK /\ BacksOff
  /\ HasSocket(c) = c.attached
  /\ c.enabled => IF HasSocket(c) THEN c.idle /\ c.batch /\ c.reconnect = Stopped
                                  ELSE ~c.idle /\ c.reconnect # Stopped
  /\ ~c.enabled => /\ ~HasSocket(c)
                   /\ ~c.idle /\ ~c.batch /\ c.reconnect = Stopped
                   /\ c.pending = <<>>

(* Whatever the server and the network do, an enabled client tries again.  *)
KeepsTrying == c.enabled ~> HasSocket(c) \/ ~c.enabled
=============================================================================
