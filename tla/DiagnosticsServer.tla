---------------------------- MODULE DiagnosticsServer ----------------------------
(***************************************************************************)
(* DiagnosticsServer: the observers that are connected to this station, and *)
(* the audio that some of them have asked for.  Sockets, requests and the   *)
(* operator's calls are served by one thread; each action is a handler.     *)
(* Receiving takes one line after another, each a step here.                *)
(***************************************************************************)
EXTENDS AudioStreamServer

CONSTANTS
  Loopback,         \* those Endpoints that only this computer reaches
  Peers, LocalPeers,\* the addresses that connect, and those of this computer
  PeerRules,        \* allowed_peers_: sets of peers; none stands for the local ones
  MostClients,      \* kMaximumClients
  MostRequests,     \* kMaximumRequestsPerClient
  MostIds,          \* bound on the connections that are accepted
  MostSettings      \* bound on the operator's calls
ASSUME DiagnosticsAssumption ==
  /\ Loopback \subseteq Endpoints /\ LocalPeers \subseteq Peers
  /\ PeerRules \subseteq SUBSET Peers /\ MostClients \in Nat \ {0} /\ MostRequests \in Nat

VARIABLES
  service,           \* [enabled, requested, token, allowed, listening, nextId]
  clients,          \* clients_: [id, peer, via, authenticated, deadline, requests]
  settings          \* the operator's calls so far
observerVars == <<service, clients, settings, audioVars>>

Permits(rule, peer) == IF rule = {} THEN peer \in LocalPeers ELSE peer \in rule
AudioKept == UNCHANGED <<producer, datagrams, posted>>

DiagnosticsInit ==
  /\ service = [enabled |-> FALSE, requested |-> {}, token |-> FALSE, allowed |-> {},
               listening |-> {}, nextId |-> 1]
  /\ clients = {} /\ settings = 0 /\ AudioInit

(* Defect: an observer that leaves keeps its subscription. *)
DropKeepingAudio(gone) == clients' = clients \ gone /\ UNCHANGED audio
(* dropClient() *)
Drop(gone) == clients' = clients \ gone /\ audio' = Without(audio, {c.id : c \in gone})

-----------------------------------------------------------------------------
OperatorCalls == settings < MostSettings /\ settings' = settings + 1

(* restart(): every observer is dropped; an address other than loopback is  *)
(* bound only if there is an acceptable token; and the audio goes by what   *)
(* came up.  Any address may fail to be bound, for either.                  *)
Restart(s) ==
  \E up \in SUBSET {e \in s.requested : s.enabled /\ (e \in Loopback \/ s.token)} :
    /\ service' = [s EXCEPT !.listening = up]
    /\ clients' = {}
    /\ \E bound \in SUBSET up : ConfigureAudio(up, bound)
SetStreamEnabled ==
  /\ OperatorCalls /\ Restart([service EXCEPT !.enabled = ~@]) /\ Remembers /\ AudioKept
Configure ==
  /\ OperatorCalls
  /\ \E requested \in SUBSET Endpoints, token \in BOOLEAN :
       LET s == [service EXCEPT !.requested = requested, !.token = token]
       IN IF s.enabled THEN Restart(s) ELSE service' = s /\ UNCHANGED <<clients, audio>>
  /\ Remembers /\ AudioKept
SetAllowedPeers ==
  /\ OperatorCalls
  /\ \E rule \in PeerRules :
       /\ service' = [service EXCEPT !.allowed = rule]
       /\ Drop({c \in clients : ~Permits(rule, c.peer)})
  /\ Remembers /\ AudioKept
SetAudioStreamingEnabled ==
  /\ OperatorCalls
  /\ \E enabled \in BOOLEAN, bound \in SUBSET audio.requested : EnableAudio(enabled, bound)
  /\ Remembers /\ AudioKept /\ UNCHANGED <<service, clients>>

-----------------------------------------------------------------------------
(* acceptPending(): who may not connect is refused before it takes a place. *)
AcceptPending ==
  /\ service.nextId <= MostIds
  /\ \E peer \in Peers, via \in service.listening :
       /\ Permits(service.allowed, peer) /\ Cardinality(clients) < MostClients
       /\ via \in Loopback => peer \in LocalPeers
       /\ clients' = clients \cup {[id |-> service.nextId, peer |-> peer, via |-> via,
                                    authenticated |-> ~service.token, deadline |-> service.token,
                                    requests |-> 0]}
  /\ service' = [service EXCEPT !.nextId = @ + 1]
  /\ UNCHANGED <<settings, audioVars>>

(* The first line is the token: the right one, a wrong one, or too much of  *)
(* anything, before it or after it.                                         *)
PresentToken ==
  /\ \E c \in clients, accepted \in BOOLEAN :
       /\ ~c.authenticated
       /\ IF accepted
          THEN /\ clients' = (clients \ {c}) \cup {[c EXCEPT !.authenticated = TRUE, !.deadline = FALSE]}
               /\ UNCHANGED audio
          ELSE Drop({c})
  /\ Remembers /\ AudioKept /\ UNCHANGED <<service, settings>>
HandshakeTimeout ==
  /\ \E c \in clients : c.deadline /\ Drop({c})
  /\ Remembers /\ AudioKept /\ UNCHANGED <<service, settings>>

(* handleRequestLine(); anything else, too long a line, and one request too *)
(* many, end the connection.                                                *)
HandleRequestLine ==
  /\ \E c \in clients, line \in {"start", "stop", "other"} :
       LET asked == [c EXCEPT !.requests = @ + 1]
       IN /\ c.authenticated
          /\ IF line = "other" \/ c.requests = MostRequests THEN Drop({c})
             ELSE /\ clients' = (clients \ {c}) \cup {asked}
                  /\ IF line = "start" THEN Subscribe(c.id, c.via)
                     ELSE audio' = Without(audio, {c.id})
  /\ Remembers /\ AudioKept /\ UNCHANGED <<service, settings>>

(* Any observer may leave; publish() drops those whose backlog is full.     *)
ClientDisconnects ==
  /\ \E c \in clients : Drop({c})
  /\ Remembers /\ AudioKept /\ UNCHANGED <<service, settings>>
Publish ==
  /\ \E slow \in SUBSET {c \in clients : c.authenticated} : Drop(slow)
  /\ Remembers /\ AudioKept /\ UNCHANGED <<service, settings>>

DiagnosticsNext ==
  \/ SetStreamEnabled \/ Configure \/ SetAllowedPeers \/ SetAudioStreamingEnabled
  \/ AcceptPending \/ PresentToken \/ HandshakeTimeout \/ HandleRequestLine
  \/ ClientDisconnects \/ Publish
  \/ AudioFlows /\ UNCHANGED <<service, clients, settings>>
DiagnosticsSpec == DiagnosticsInit /\ [][DiagnosticsNext]_observerVars

-----------------------------------------------------------------------------
(* Audio leaves the station only for observers that are connected, have     *)
(* been let in and are still allowed, from where they connected, and only   *)
(* while the operator permits it; nobody outlives a restart or a narrowed   *)
(* rule; and an observer that says nothing is always on a deadline.         *)
ObserversInv ==
  /\ AudioInv
  /\ \A s \in audio.subscribers : \E c \in clients : c.id = s.id /\ c.via = s.via /\ c.authenticated
  /\ \A c \in clients :
       /\ Permits(service.allowed, c.peer) /\ c.via \in service.listening
       /\ c.deadline <=> ~c.authenticated
       /\ c.authenticated /\ ~service.token => c.via \in Loopback
       /\ c.requests <= MostRequests
  /\ Cardinality(clients) <= MostClients /\ Cardinality(audio.subscribers) <= MostSubscribers
  /\ audio.bound \subseteq service.listening /\ (service.listening # {} => service.enabled)
=============================================================================
