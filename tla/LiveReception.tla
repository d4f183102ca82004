------------------------------ MODULE LiveReception ------------------------------
(***************************************************************************)
(* Who is receiving, and does everyone know it: ReplayController on the    *)
(* main thread, the two capture workers that share one thread, and the DSP *)
(* worker on its own.  They agree by queued signals alone, one queue from  *)
(* each thread to another, while the operator switches sources, settings   *)
(* change, a radio moves the dial and devices take their time to open or   *)
(* fail at any moment.                                                     *)
(***************************************************************************)
EXTENDS Integers, Sequences

CONSTANTS
  Inputs,      \* the audio inputs
  Receivers,   \* the SDR settings that cannot change without a restart
  None,        \* no input, no receiver
  Centers,     \* the frequencies the operator tunes to and listens on
  Half,        \* half of the SDR sample rate
  DecoderHalf, \* half of the decoder window's width
  Margin,      \* what the controller keeps a window away from the edge
  HeldMargin,  \* what the settings keep it away
  MaxSessions, \* bound on the starts, stops and switches
  MaxWaiting   \* bound on the commands that wait when the operator acts

WindowReach == Half - DecoderHalf - Margin        \* sdrDecoderWindowReachHz()
HeldReach == Half - DecoderHalf - HeldMargin

ASSUME ReceptionAssumption ==
  /\ None \notin Inputs /\ None \notin Receivers
  /\ Inputs # {} /\ Receivers # {}
  /\ Centers \subseteq Nat \ {0} /\ Centers # {}
  /\ Half \in Nat /\ DecoderHalf \in Nat /\ DecoderHalf < Half
  /\ Margin \in Nat \ {0} /\ HeldMargin \in 1..Margin /\ HeldReach >= 0
  /\ MaxSessions \in Nat /\ MaxWaiting \in Nat

VARIABLES
  ui,         \* the controller
  permission, \* what the system says of the microphone
  asked,      \* a permission request is open
  capture,    \* the two capture workers
  hearing,        \* the DSP worker
  toCapture, toDsp, toUi,   \* the signals on their way
  session,    \* history: numbers the starts, stops and switches
  crossed,    \* history: a report of an earlier session was handled in this one
  missed      \* history: this session was not given the settings as they are
receptionVars == <<ui, permission, asked, capture, hearing, toCapture, toDsp, toUi, session, crossed, missed>>

Modes == {"audio", "file", "sdr"}
Frequencies == Nat
NoRetune == 0
Sessions == 0..MaxSessions

ReceptionInit ==
  /\ ui = [mode |-> "audio", live |-> FALSE, error |-> FALSE,
           input |-> CHOOSE input \in Inputs : TRUE, receiver |-> None,
           center |-> CHOOSE center \in Centers : TRUE,
           window |-> CHOOSE center \in Centers : TRUE]
  /\ permission \in {"undetermined", "granted"}
  /\ asked = FALSE
  /\ capture = [audio |-> None, broken |-> FALSE, sdr |-> None,
                center |-> ui.center, retune |-> NoRetune, of |-> 0]
  /\ hearing = [running |-> FALSE, window |-> ui.window]
  /\ toCapture = <<>> /\ toDsp = <<>> /\ toUi = <<>>
  /\ session = 0 /\ crossed = FALSE /\ missed = FALSE

-----------------------------------------------------------------------------
(* The controller: each function adds to an effect, which is the state it  *)
(* leaves and the signals it emits.                                        *)

Distance(a, b) == IF a < b THEN b - a ELSE a - b

Within(center, reach, window) ==
  CASE window < center - reach -> center - reach
    [] window > center + reach -> center + reach
    [] OTHER -> window

(* publishSdrDecoderWindow(): a window that hangs over the edge is pulled  *)
(* inside, one that is not in the passband at all falls back to its center. *)
WindowFor(center, window) ==
  IF WindowReach <= 0 \/ Distance(window, center) > Half
    THEN center
    ELSE Within(center, WindowReach, window)

Now == [u |-> ui, c |-> <<>>, d |-> <<>>]

PublishSdrDecoderWindow(e) ==
  LET window == WindowFor(e.u.center, e.u.window)
  IN [e EXCEPT !.u.window = window,
               !.d = Append(@, [op |-> "window", window |-> window])]

SetSourceMode(e, mode) ==
  IF e.u.mode = mode
    THEN e
    ELSE [u |-> [e.u EXCEPT !.mode = mode, !.live = FALSE],
          c |-> e.c \o <<[op |-> "audioStop"], [op |-> "sdrStop"]>>,
          d |-> Append(e.d, [op |-> "stop"])]

BeginLiveAudioCapture(e) ==
  [u |-> [e.u EXCEPT !.error = FALSE],
   c |-> e.c \o <<[op |-> "sdrStop"],
                  [op |-> "audioStart", input |-> e.u.input, of |-> session + 1]>>,
   d |-> Append(e.d, [op |-> "start"])]

BeginLiveSdrCapture(e) ==
  IF e.u.receiver = None
    THEN [e EXCEPT !.u.error = TRUE]
    ELSE PublishSdrDecoderWindow(
           [u |-> [e.u EXCEPT !.error = FALSE, !.live = FALSE],
            c |-> e.c \o <<[op |-> "audioStop"],
                           [op |-> "sdrStart", receiver |-> e.u.receiver,
                            center |-> e.u.center, of |-> session + 1]>>,
            d |-> Append(e.d, [op |-> "start"])])

Perform(e) ==
  /\ ui' = e.u
  /\ toCapture' = toCapture \o e.c
  /\ toDsp' = toDsp \o e.d

(* A start, a stop or a switch begins a session. *)
Anew(e) ==
  /\ Perform(e)
  /\ IF e.c = <<>>
       THEN UNCHANGED <<session, crossed, missed>>
       ELSE session' = session + 1 /\ crossed' = FALSE /\ missed' = FALSE

(* Bounds.  Nothing but the settled state depends on how far the DSP       *)
(* worker has got, so the operator waits for it.  In the end the operator  *)
(* is content, and everything may come to rest.                            *)
MayAct == session < MaxSessions /\ Len(toCapture) <= MaxWaiting /\ toDsp = <<>>

(* What startLiveAudio() does once it knows what the system allows. *)
StartIfPermitted(allowed) ==
  LET switched == SetSourceMode(Now, "audio")
  IN Anew(CASE allowed = "granted" -> BeginLiveAudioCapture(switched)
            [] allowed = "denied" -> [switched EXCEPT !.u.error = TRUE]
            [] OTHER -> switched)

(* The start buttons are offered in their own mode, while nothing is live. *)
StartLiveAudio ==
  /\ MayAct /\ ui.mode = "audio" /\ ~ui.live
  /\ StartIfPermitted(permission)
  /\ asked' = (asked \/ permission = "undetermined")
  /\ UNCHANGED <<permission, capture, hearing, toUi>>

PermissionAnswered ==
  /\ asked /\ session < MaxSessions
  /\ permission' \in {"granted", "denied"}
  /\ asked' = FALSE
  /\ StartIfPermitted(permission')
  /\ UNCHANGED <<capture, hearing, toUi>>

StartLiveSdr ==
  /\ MayAct /\ ui.mode = "sdr" /\ ~ui.live
  /\ Anew(BeginLiveSdrCapture(SetSourceMode(Now, "sdr")))
  /\ UNCHANGED <<permission, asked, capture, hearing, toUi>>

StopLive ==
  /\ MayAct /\ ui.live
  /\ Anew([u |-> [ui EXCEPT !.live = FALSE],
           c |-> <<[op |-> "audioStop"], [op |-> "sdrStop"]>>,
           d |-> <<[op |-> "stop"]>>])
  /\ UNCHANGED <<permission, asked, capture, hearing, toUi>>

SwitchSource ==
  /\ MayAct
  /\ \E mode \in Modes \ {ui.mode} : Anew(SetSourceMode(Now, mode))
  /\ UNCHANGED <<permission, asked, capture, hearing, toUi>>

(* Something is running or may yet be. *)
Underway ==
  capture.audio # None \/ capture.sdr # None \/ toCapture # <<>> \/ toUi # <<>>

(* What the session in progress is not told of. *)
Unsaid(e, mode) ==
  /\ Perform(e)
  /\ missed' = (missed \/ (Underway /\ ui.mode = mode))
  /\ UNCHANGED <<session, crossed>>

SetAudioInputSelection ==
  /\ MayAct
  /\ \E input \in Inputs \ {ui.input} :
       LET chosen == [Now EXCEPT !.u.input = input]
       IN IF ui.live /\ ui.mode = "audio"
            THEN Anew(BeginLiveAudioCapture(chosen))
            ELSE Unsaid(chosen, "audio")
  /\ UNCHANGED <<permission, asked, capture, hearing, toUi>>

(* The settings hold the window they hand over inside the passband, by     *)
(* their own margin; the controller puts it through its own.               *)
ApplySdrInput ==
  /\ MayAct
  /\ \E receiver \in Receivers \cup {None}, center \in Centers, wanted \in Centers :
       LET window == Within(center, HeldReach, wanted)
           chosen == [Now EXCEPT !.u.receiver = receiver, !.u.center = center,
                                 !.u.window = window]
           moved == center # ui.center
           told == IF moved \/ window # ui.window \/ ~ui.live
                     THEN PublishSdrDecoderWindow(chosen) ELSE chosen
       IN CASE ui.live /\ ui.mode = "sdr" /\ receiver # ui.receiver /\ receiver # None ->
                 Anew(BeginLiveSdrCapture(told))
            [] ui.live /\ ui.mode = "sdr" /\ receiver # ui.receiver /\ receiver = None ->
                 Unsaid(BeginLiveSdrCapture(told), "sdr")
            [] ui.live /\ ui.mode = "sdr" /\ receiver = ui.receiver /\ moved ->
                 /\ Perform([told EXCEPT !.c = <<[op |-> "retune", center |-> center]>>])
                 /\ UNCHANGED <<session, crossed, missed>>
            [] ~(ui.live /\ ui.mode = "sdr") /\ (receiver # ui.receiver \/ moved) ->
                 Unsaid(told, "sdr")
            [] OTHER -> Perform(told) /\ UNCHANGED <<session, crossed, missed>>
  /\ UNCHANGED <<permission, asked, capture, hearing, toUi>>

-----------------------------------------------------------------------------
(* The capture thread takes one command at a time; a start stops what its  *)
(* own worker had running.                                                 *)

Say(event) == [event |-> event, of |-> capture.of]

AudioOff == [capture EXCEPT !.audio = None, !.broken = FALSE]
AudioGone == IF capture.audio = None THEN <<>> ELSE <<Say("audioStopped")>>
SdrOff == [capture EXCEPT !.sdr = None, !.retune = NoRetune]
SdrGone == IF capture.sdr = None THEN <<>> ELSE <<Say("sdrStopped")>>

Captured(after, events) ==
  /\ capture' = after
  /\ toUi' = toUi \o events
  /\ toCapture' = Tail(toCapture)
  /\ UNCHANGED <<ui, permission, asked, hearing, toDsp, session, crossed>>

Command(op) == toCapture # <<>> /\ Head(toCapture).op = op

AudioStop == Command("audioStop") /\ Captured(AudioOff, AudioGone) /\ UNCHANGED missed
SdrStop == Command("sdrStop") /\ Captured(SdrOff, SdrGone) /\ UNCHANGED missed

(* The input asked for, one found under its name, or none that opens. *)
AudioStart ==
  /\ Command("audioStart")
  /\ LET asks == Head(toCapture)
         started == [event |-> "started", of |-> asks.of]
     IN \/ Captured([AudioOff EXCEPT !.audio = asks.input, !.of = asks.of],
                    Append(AudioGone, started))
        \/ \E found \in Inputs \ {asks.input} :
             Captured([AudioOff EXCEPT !.audio = found, !.of = asks.of],
                      AudioGone \o <<[event |-> "recovered", input |-> found], started>>)
        \/ Captured([AudioOff EXCEPT !.of = asks.of],
                    Append(AudioGone, [event |-> "failed", of |-> asks.of]))
  /\ UNCHANGED missed

(* Defect: a receiver that does not open is not reported. *)
SdrStartSilently ==
  /\ Command("sdrStart")
  /\ LET asks == Head(toCapture)
         started == [event |-> "started", of |-> asks.of]
     IN \/ Captured([SdrOff EXCEPT !.sdr = asks.receiver, !.center = asks.center,
                                   !.of = asks.of],
                    Append(SdrGone, started))
        \/ Captured([SdrOff EXCEPT !.of = asks.of], SdrGone)
  /\ UNCHANGED missed

SdrStart ==
  /\ Command("sdrStart")
  /\ LET asks == Head(toCapture)
         started == [event |-> "started", of |-> asks.of]
     IN \/ Captured([SdrOff EXCEPT !.sdr = asks.receiver, !.center = asks.center,
                                   !.of = asks.of],
                    Append(SdrGone, started))
        \/ Captured([SdrOff EXCEPT !.of = asks.of],
                    Append(SdrGone, [event |-> "failed", of |-> asks.of]))
  /\ UNCHANGED missed

(* Defect: a request that finds another waiting is dropped. *)
AskForRetuneOnce ==
  /\ Command("retune")
  /\ Captured(IF capture.sdr = None \/ capture.retune # NoRetune THEN capture
                 ELSE [capture EXCEPT !.retune = Head(toCapture).center], <<>>)
  /\ UNCHANGED missed

(* Requests that follow each other closely become one. *)
AskForRetune ==
  /\ Command("retune")
  /\ Captured(IF capture.sdr = None THEN capture
                 ELSE [capture EXCEPT !.retune = Head(toCapture).center], <<>>)
  /\ UNCHANGED missed

OnItsOwn(after) ==
  /\ capture' = after
  /\ UNCHANGED <<ui, permission, asked, hearing, toCapture, toDsp, session, crossed>>

ApplyPendingRetune ==
  /\ capture.sdr # None /\ capture.retune # NoRetune
  /\ UNCHANGED toUi
  /\ \/ /\ OnItsOwn([capture EXCEPT !.center = capture.retune, !.retune = NoRetune])
        /\ UNCHANGED missed
     \/ /\ OnItsOwn([capture EXCEPT !.retune = NoRetune])
        /\ missed' = TRUE

(* A device that fails while it runs.  The audio source is kept until it   *)
(* is stopped; the receiver is closed at once.                             *)
AudioBreaks ==
  /\ capture.audio # None /\ ~capture.broken
  /\ OnItsOwn([capture EXCEPT !.broken = TRUE])
  /\ toUi' = Append(toUi, Say("failed"))
  /\ UNCHANGED missed

SdrBreaks ==
  /\ capture.sdr # None
  /\ OnItsOwn([capture EXCEPT !.sdr = None])
  /\ toUi' = Append(toUi, Say("failed"))
  /\ UNCHANGED missed

-----------------------------------------------------------------------------
(* The DSP thread. *)

DspTakes ==
  /\ toDsp # <<>>
  /\ LET asks == Head(toDsp)
     IN hearing' = CASE asks.op = "start" -> [hearing EXCEPT !.running = TRUE]
                 [] asks.op = "stop" -> [hearing EXCEPT !.running = FALSE]
                 [] asks.op = "window" -> [hearing EXCEPT !.window = asks.window]
  /\ toDsp' = Tail(toDsp)
  /\ UNCHANGED <<ui, permission, asked, capture, toCapture, toUi, session, crossed, missed>>

-----------------------------------------------------------------------------
(* The controller hears of it. *)

Report(event) == toUi # <<>> /\ Head(toUi).event = event
Heard(after, signals) ==
  /\ ui' = after
  /\ toDsp' = toDsp \o signals
  /\ toUi' = Tail(toUi)
  /\ UNCHANGED <<permission, asked, capture, hearing, toCapture, session, missed>>

Crosses == crossed' = (crossed \/ Head(toUi).of # session)

Started ==
  /\ Report("started")
  /\ Heard([ui EXCEPT !.live = TRUE, !.error = FALSE], <<>>)
  /\ Crosses

StoppedIn(mode) ==
  /\ Heard(IF ui.mode = mode THEN [ui EXCEPT !.live = FALSE] ELSE ui, <<>>)
  /\ UNCHANGED crossed

AudioStopped == Report("audioStopped") /\ StoppedIn("audio")
SdrStopped == Report("sdrStopped") /\ StoppedIn("sdr")

Failed ==
  /\ Report("failed")
  /\ Heard([ui EXCEPT !.live = FALSE, !.error = TRUE], <<[op |-> "stop"]>>)
  /\ Crosses

InputRecovered ==
  /\ Report("recovered")
  /\ Heard([ui EXCEPT !.input = Head(toUi).input], <<>>)
  /\ UNCHANGED crossed

-----------------------------------------------------------------------------
Operator ==
  \/ StartLiveAudio
  \/ PermissionAnswered
  \/ StartLiveSdr
  \/ StopLive
  \/ SwitchSource
  \/ SetAudioInputSelection
  \/ ApplySdrInput
Capturing ==
  \/ AudioStop
  \/ SdrStop
  \/ AudioStart
  \/ SdrStart
  \/ AskForRetune
  \/ ApplyPendingRetune
Hearing ==
  \/ Started
  \/ AudioStopped
  \/ SdrStopped
  \/ Failed
  \/ InputRecovered
Devices == AudioBreaks \/ SdrBreaks

ReceptionNext == Operator \/ Capturing \/ Devices \/ DspTakes \/ Hearing

(* Every thread gets to what its queue holds. *)
ReceptionSpec ==
  /\ ReceptionInit /\ [][ReceptionNext]_receptionVars
  /\ WF_receptionVars(Capturing) /\ WF_receptionVars(DspTakes) /\ WF_receptionVars(Hearing)

-----------------------------------------------------------------------------
ReceptionTypeOK ==
  /\ ui \in [mode : Modes, live : BOOLEAN, error : BOOLEAN, input : Inputs,
             receiver : Receivers \cup {None}, center : Centers, window : Frequencies]
  /\ permission \in {"undetermined", "granted", "denied"}
  /\ asked \in BOOLEAN
  /\ capture \in [audio : Inputs \cup {None}, broken : BOOLEAN, sdr : Receivers \cup {None},
                  center : Centers, retune : Centers \cup {NoRetune}, of : Sessions]
  /\ hearing \in [running : BOOLEAN, window : Frequencies]
  /\ session \in Sessions
  /\ crossed \in BOOLEAN /\ missed \in BOOLEAN

Receiving == capture.sdr # None \/ (capture.audio # None /\ ~capture.broken)
Settled ==
  /\ toCapture = <<>> /\ toDsp = <<>> /\ toUi = <<>>
  /\ capture.sdr # None => capture.retune = NoRetune

(* When all is said, the controller shows reception just when a device     *)
(* delivers, the DSP worker runs with it, and what is received is what is  *)
(* selected, unless a report of an earlier session was taken for this one. *)
Agreed ==
  Settled /\ ~crossed =>
    /\ ui.live = Receiving
    /\ Receiving = hearing.running
    /\ capture.audio # None /\ ~missed => capture.audio = ui.input
    /\ capture.sdr # None /\ ~missed => capture.sdr = ui.receiver

(* When all is said, the DSP worker's window is one its decimator accepts  *)
(* at the frequency the receiver is tuned to.                              *)
Audible == Distance(hearing.window, capture.center) + DecoderHalf < Half
WindowFollows == Settled /\ capture.sdr # None /\ ~missed => Audible

(* The ring has one producer, and only of the source that is selected once *)
(* its commands are carried out, whatever was switched, answered late or   *)
(* restarted by a setting in between.                                      *)
ReceptionInv ==
  /\ ReceptionTypeOK /\ Agreed
  /\ capture.audio = None \/ capture.sdr = None
  /\ toCapture = <<>> /\ capture.audio # None => ui.mode = "audio"
  /\ toCapture = <<>> /\ capture.sdr # None => ui.mode = "sdr"
  /\ WindowFollows

(* Every start is answered: there is reception, or an error to read, or    *)
(* the operator has moved on and everything is off.                        *)
Opening ==
  \E i \in 1..Len(toCapture) : toCapture[i].op \in {"audioStart", "sdrStart"}
AllOff == Settled /\ ~Receiving /\ ~hearing.running
StartAnswered == Opening ~> ui.live \/ ui.error \/ AllOff
=============================================================================
