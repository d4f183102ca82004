------------------------------- MODULE RadioProofs -------------------------------
(***************************************************************************)
(* What radio control keeps, for every value of its constants: the         *)
(* frequency plan, the client of a rigctld daemon, the client of a CAT4OM  *)
(* group and the settings of the radio.                                    *)
(***************************************************************************)
EXTENDS HamlibClient, Cat4OmClient, RadioSettings, InductionTheorems, SequenceTheorems

-----------------------------------------------------------------------------
(***************************************************************************)
(* The arithmetic between dials and the air, for every width of the        *)
(* integers: what is given is never a frequency that does not fit, and     *)
(* going there and back ends where it began.                               *)
(***************************************************************************)

(* frequency_plan.cpp, add_signed_offset(): the sum, or nothing.           *)
LEMMA OffsetFits ==
  ASSUME NEW frequency \in Int, NEW offset \in Int
  PROVE  /\ AddSignedOffset(frequency, offset) \in Hertz \cup {NoHz}
         /\ AddSignedOffset(frequency, offset) \in Hertz
              => AddSignedOffset(frequency, offset) = frequency + offset
  <1>1. MaxHz \in Nat
    BY WidthAssumption
  <1>2. CASE frequency + offset \in Hertz
    BY <1>2 DEF AddSignedOffset
  <1>3. CASE frequency + offset \notin Hertz
    BY <1>1, <1>3 DEF AddSignedOffset, NoHz, Hertz
  <1> QED
    BY <1>2, <1>3

(* resolve_dial_frequency() is exactly the inverse of the offset that      *)
(* resolve_frequencies() adds: the dial it gives for a frequency puts the  *)
(* radio on that frequency, and it gives none only when no dial would.     *)
THEOREM DialReachesTheAir ==
  ASSUME NEW rf \in Hertz, NEW offset \in Int
  PROVE  /\ ResolveDialFrequency(rf, offset) \in Hertz
              => AddSignedOffset(ResolveDialFrequency(rf, offset), offset) = rf
         /\ ResolveDialFrequency(rf, offset) \notin Hertz
              => \A dial \in Hertz : AddSignedOffset(dial, offset) # rf
  <1>0. MaxHz \in Nat /\ rf \in Int /\ 1 <= rf /\ rf <= MaxHz
    BY WidthAssumption DEF Hertz
  <1>1. CASE (offset >= 0 /\ rf <= offset) \/ (offset < 0 /\ rf > MaxHz + offset)
    <2>1. ResolveDialFrequency(rf, offset) = 0 /\ 0 \notin Hertz
      BY <1>0, <1>1 DEF ResolveDialFrequency, NoHz, Hertz
    <2>2. rf - offset \notin Hertz
      BY <1>0, <1>1 DEF Hertz
    <2>3. ASSUME NEW dial \in Hertz PROVE AddSignedOffset(dial, offset) # rf
      <3>1. dial \in Int /\ (dial + offset = rf => dial = rf - offset)
        BY <1>0 DEF Hertz
      <3>2. dial + offset # rf /\ rf # NoHz
        BY <1>0, <2>2, <3>1 DEF NoHz
      <3> QED
        BY <3>2 DEF AddSignedOffset
    <2> QED
      BY <2>1, <2>3
  <1>2. CASE ~((offset >= 0 /\ rf <= offset) \/ (offset < 0 /\ rf > MaxHz + offset))
    <2>1. ResolveDialFrequency(rf, offset) = rf - offset
      BY <1>0, <1>2 DEF ResolveDialFrequency, NoHz
    <2>2. rf - offset \in Hertz /\ (rf - offset) + offset = rf
      BY <1>0, <1>2 DEF Hertz
    <2> QED
      BY <2>1, <2>2 DEF AddSignedOffset
  <1> QED
    BY <1>1, <1>2

(* resolve_frequencies(): both frequencies on the air, or neither.         *)
THEOREM PlanIsWhole ==
  ASSUME NEW plan, plan.rx \in Hertz \cup {NoHz}, plan.tx \in Hertz \cup {NoHz},
         NEW rxOffset \in Int, NEW txOffset \in Int
  PROVE  LET rf == ResolveFrequencies(plan, rxOffset, txOffset)
         IN  /\ rf.rx \in Hertz <=> rf.tx \in Hertz
             /\ rf.rx \in Hertz => rf.rx = plan.rx + rxOffset /\ rf.tx = TxDial(plan) + txOffset
             /\ rf.rx \in Hertz \cup {NoHz} /\ rf.tx \in Hertz \cup {NoHz}
  <1>0. MaxHz \in Nat /\ NoHz \notin Hertz /\ plan.rx \in Int /\ TxDial(plan) \in Int
    BY WidthAssumption DEF Hertz, NoHz, TxDial
  <1> DEFINE rx == AddSignedOffset(plan.rx, rxOffset)
             tx == AddSignedOffset(TxDial(plan), txOffset)
  <1>1. /\ rx \in Hertz \cup {NoHz} /\ (rx \in Hertz => rx = plan.rx + rxOffset)
        /\ tx \in Hertz \cup {NoHz} /\ (tx \in Hertz => tx = TxDial(plan) + txOffset)
    BY <1>0, OffsetFits
  <1>2. ResolveFrequencies(plan, rxOffset, txOffset)
          = IF plan.rx = NoHz \/ TxDial(plan) = NoHz \/ rx = NoHz \/ tx = NoHz
              THEN [rx |-> NoHz, tx |-> NoHz] ELSE [rx |-> rx, tx |-> tx]
    BY DEF ResolveFrequencies
  <1> HIDE DEF rx, tx
  <1>3. CASE plan.rx = NoHz \/ TxDial(plan) = NoHz \/ rx = NoHz \/ tx = NoHz
    <2>1. ResolveFrequencies(plan, rxOffset, txOffset) = [rx |-> NoHz, tx |-> NoHz]
      BY <1>2, <1>3
    <2> QED
      BY <1>0, <2>1
  <1>4. CASE ~(plan.rx = NoHz \/ TxDial(plan) = NoHz \/ rx = NoHz \/ tx = NoHz)
    <2>1. ResolveFrequencies(plan, rxOffset, txOffset) = [rx |-> rx, tx |-> tx]
      BY <1>2, <1>4
    <2>2. rx \in Hertz /\ tx \in Hertz
      BY <1>1, <1>4
    <2> QED
      BY <1>1, <2>1, <2>2
  <1> QED
    BY <1>3, <1>4

(* step_rx_frequency(): a step is one step from the last request, or from  *)
(* the report when none is pending, and is refused where it would not fit; *)
(* a step up and one down return to where they began.                      *)
THEOREM StepsReturn ==
  ASSUME NEW reported \in Hertz, NEW pending \in Hertz \cup {NoHz}, NEW step \in Nat
  PROVE  LET up == StepRxFrequency(reported, pending, step, 1)
             base == IF pending = NoHz THEN reported ELSE pending
         IN  /\ up \in Hertz \cup {NoHz}
             /\ up \in Hertz => /\ up = base + step /\ step > 0
                                /\ StepRxFrequency(reported, up, step, -1) = base
             /\ up = NoHz /\ step > 0 => base + step > MaxHz
  <1>0. MaxHz \in Nat /\ NoHz \notin Hertz /\ reported \in Int /\ reported # NoHz
    BY WidthAssumption DEF Hertz, NoHz
  <1> DEFINE base == IF pending = NoHz THEN reported ELSE pending
             up == StepRxFrequency(reported, pending, step, 1)
  <1>1. base \in Hertz /\ base \in Int /\ 1 <= base /\ base <= MaxHz
    BY <1>0 DEF Hertz
  <1>2. up = IF step = 0 THEN NoHz ELSE IF base <= MaxHz - step THEN base + step ELSE NoHz
    BY <1>0 DEF StepRxFrequency
  <1>3. \A at \in Hertz : StepRxFrequency(reported, at, step, -1)
                            = IF step = 0 THEN NoHz ELSE IF at > step THEN at - step ELSE NoHz
    BY <1>0 DEF StepRxFrequency
  <1> HIDE DEF base, up
  <1>4. up \in Hertz \cup {NoHz}
    BY <1>0, <1>1, <1>2 DEF Hertz
  <1>5. up \in Hertz => up = base + step /\ step > 0
    BY <1>0, <1>1, <1>2
  <1>6. up \in Hertz => StepRxFrequency(reported, up, step, -1) = base
    BY <1>0, <1>1, <1>3, <1>5
  <1>7. up = NoHz /\ step > 0 => base + step > MaxHz
    BY <1>0, <1>1, <1>2 DEF NoHz
  <1> QED
    BY <1>4, <1>5, <1>6, <1>7 DEF base, up

-----------------------------------------------------------------------------
(***************************************************************************)
(* The client of a rigctld daemon, whatever the daemon sends.              *)
(***************************************************************************)
PolledFields == {"rx", "tx", "rxMode", "txMode", "split"}
Requests ==
  [field : PolledFields \cup {"vfoMode", "write"}, command : HamlibCommands \cup {NoCommand}, on : Sessions]

(* The shape of a client; what a radio may have answered is not looked at. *)
HamlibFormed(d) ==
  d \in [operator : BOOLEAN, writable : BOOLEAN, socket : {"unconnected", "connecting", "connected"},
         queue : Seq(Requests), active : Requests \cup {Idle}, payload : {d.payload},
         poll : BOOLEAN, request : BOOLEAN, reconnect : BOOLEAN, pending : {d.pending},
         remaining : Int, state : {d.state}, wire : {d.wire}, session : Sessions]

(* The first n requests that wait are the reads of a poll, no other is.    *)
ReadsWait(queue, n) ==
  /\ n \in 0..Len(queue)
  /\ \A i \in 1..Len(queue) : queue[i].field \in PolledFields <=> i <= n
QueuedOn(queue, session) == \A i \in 1..Len(queue) : queue[i].on = session

(* HamlibInv of a client d, and the reads of a poll that are still to come *)
(* counted: without the count nothing says that a poll that is not         *)
(* complete has another request to send.                                   *)
Talking(d) ==
  /\ d.socket = "connected" => d.request \/ d.poll
  /\ d.active # Idle => d.socket = "connected" /\ d.request /\ d.active.on = d.session
  /\ d.active = Idle => d.queue = <<>>
  /\ QueuedOn(d.queue, d.session)
  /\ d.state.avail = Known => d.socket = "connected" /\ RadioStateIsValid(d.state)
  /\ d.reconnect => ~d.operator
  /\ d.socket = "connecting" => d.request
Polling(d) ==
  IF d.active.field \in PolledFields
    THEN d.remaining >= 1 /\ ReadsWait(d.queue, d.remaining - 1)
    ELSE ReadsWait(d.queue, 0)
Steady(d) == HamlibFormed(d) /\ Talking(d) /\ Polling(d)

(* A client without a connection, and one about to send what waits.        *)
HungUp(d) ==
  /\ HamlibFormed(d) /\ d.socket = "unconnected" /\ d.active = Idle /\ d.queue = <<>>
  /\ d.state = NoObservation /\ d.payload = <<>> /\ d.wire = <<>> /\ (d.reconnect => ~d.operator)
Ready(d, n) ==
  /\ HamlibFormed(d) /\ d.socket = "connected" /\ d.active = Idle
  /\ QueuedOn(d.queue, d.session) /\ ReadsWait(d.queue, n) /\ (n > 0 => d.remaining = n)
  /\ d.queue = <<>> => d.poll
  /\ d.state.avail = Known => RadioStateIsValid(d.state)
  /\ d.reconnect => ~d.operator

LEMMA RequestKinds ==
  /\ Idle.field = "none" /\ Idle \notin Requests
  /\ NoObservation.avail # Known
  /\ \A session \in Sessions : \A field \in PolledFields \cup {"vfoMode"} :
       /\ Reading(field, session) \in Requests
       /\ Reading(field, session).field = field /\ Reading(field, session).on = session
  /\ \A session \in Sessions : \A command \in HamlibCommands :
       /\ Writing(command, session) \in Requests
       /\ Writing(command, session).field = "write" /\ Writing(command, session).on = session
  <1>1. Idle.field = "none" /\ Idle \notin Requests
    BY DEF Idle, Reading, Requests, PolledFields
  <1>2. NoObservation.avail # Known
    BY DEF NoObservation, Blank, Known, Unavailable
  <1>3. \A session \in Sessions : \A field \in PolledFields \cup {"vfoMode"} :
          /\ Reading(field, session) \in Requests
          /\ Reading(field, session).field = field /\ Reading(field, session).on = session
    BY DEF Reading, Requests
  <1>4. \A session \in Sessions : \A command \in HamlibCommands :
          /\ Writing(command, session) \in Requests
          /\ Writing(command, session).field = "write" /\ Writing(command, session).on = session
    BY DEF Writing, Requests
  <1>5. QED BY <1>1, <1>2, <1>3, <1>4

LEMMA HungUpIsSteady ==
  ASSUME NEW d, HungUp(d)
  PROVE  Steady(d)
  <1>1. d.active.field \notin PolledFields /\ d.state.avail # Known
    BY RequestKinds DEF HungUp, PolledFields
  <1>2. Len(d.queue) = 0
    BY DEF HungUp
  <1>3. Polling(d) /\ QueuedOn(d.queue, d.session)
    BY <1>1, <1>2 DEF Polling, ReadsWait, QueuedOn
  <1>4. QED BY <1>1, <1>3 DEF HungUp, Steady, Talking

LEMMA ClearedHamlib ==
  ASSUME NEW d, HamlibFormed(d), NEW e, e = Cleared(d)
  PROVE  /\ HamlibFormed(e) /\ e.active = Idle /\ e.queue = <<>> /\ e.state = NoObservation
         /\ e.operator = d.operator /\ e.reconnect = d.reconnect /\ e.socket = d.socket
         /\ e.payload = <<>> /\ e.wire = d.wire /\ e.pending = d.pending
  <1>1. e = [d EXCEPT !.poll = FALSE, !.request = FALSE, !.queue = <<>>, !.active = Idle,
                      !.payload = <<>>, !.state = NoObservation]
    BY DEF Cleared
  <1>2. <<>> \in Seq(Requests)
    OBVIOUS
  <1>3. HamlibFormed(e)
    BY <1>1, <1>2 DEF HamlibFormed
  <1>4. QED BY <1>1, <1>3 DEF HamlibFormed

LEMMA DisconnectedHangsUp ==
  ASSUME NEW d, HamlibFormed(d), d.socket = "unconnected", d.wire = <<>>,
         d.reconnect => ~d.operator, NEW e, e = HandleDisconnected(d)
  PROVE  HungUp(e) /\ e.operator = d.operator /\ e.pending = d.pending
  <1>1. PICK f : f = Cleared(d)
    OBVIOUS
  <1>2. /\ HamlibFormed(f) /\ f.active = Idle /\ f.queue = <<>> /\ f.state = NoObservation
        /\ f.operator = d.operator /\ f.reconnect = d.reconnect /\ f.socket = d.socket
        /\ f.payload = <<>> /\ f.wire = <<>> /\ f.pending = d.pending
    BY <1>1, ClearedHamlib
  <1>3. e = [f EXCEPT !.reconnect = @ \/ ~d.operator]
    BY <1>1 DEF HandleDisconnected
  <1>4. (f.reconnect \/ ~d.operator) \in BOOLEAN
    OBVIOUS
  <1>5. HamlibFormed(e)
    BY <1>2, <1>3, <1>4 DEF HamlibFormed
  <1>6. /\ e.active = Idle /\ e.queue = <<>> /\ e.state = NoObservation /\ e.operator = d.operator
        /\ e.reconnect = (f.reconnect \/ ~d.operator) /\ e.socket = d.socket
        /\ e.payload = <<>> /\ e.wire = <<>> /\ e.pending = d.pending
    BY <1>2, <1>3 DEF HamlibFormed
  <1>7. QED BY <1>2, <1>5, <1>6 DEF HungUp

(* Whether or not abort() runs the slot, the client has let go.            *)
LEMMA AbortHangsUp ==
  ASSUME NEW d, HamlibFormed(d), d.active = Idle, d.queue = <<>>, d.state = NoObservation,
         d.payload = <<>>, d.reconnect => ~d.operator, NEW e, e = Abort(d)
  PROVE  HungUp(e) /\ e.operator = d.operator /\ e.pending = d.pending
  <1>1. PICK f : f = [d EXCEPT !.socket = "unconnected", !.wire = <<>>]
    OBVIOUS
  <1>2. HamlibFormed(f)
    BY <1>1 DEF HamlibFormed
  <1>3. /\ f.active = Idle /\ f.queue = <<>> /\ f.state = NoObservation /\ f.operator = d.operator
        /\ f.reconnect = d.reconnect /\ f.socket = "unconnected"
        /\ f.payload = <<>> /\ f.wire = <<>> /\ f.pending = d.pending
    BY <1>1 DEF HamlibFormed
  <1>4. e = (IF d.socket = "connected" THEN HandleDisconnected(f) ELSE f)
    BY <1>1 DEF Abort
  <1>5. CASE d.socket = "connected"
    BY <1>2, <1>3, <1>4, <1>5, DisconnectedHangsUp
  <1>6. CASE d.socket # "connected"
    BY <1>2, <1>3, <1>4, <1>6 DEF HungUp
  <1>7. QED BY <1>5, <1>6

LEMMA FailureHangsUp ==
  ASSUME NEW d, HamlibFormed(d), d.reconnect => ~d.operator, NEW e, e = FailProtocol(d)
  PROVE  HungUp(e) /\ e.pending = d.pending
  <1>1. PICK f : f = Cleared(d)
    OBVIOUS
  <1>2. /\ HamlibFormed(f) /\ f.active = Idle /\ f.queue = <<>> /\ f.state = NoObservation
        /\ f.operator = d.operator /\ f.reconnect = d.reconnect
        /\ f.payload = <<>> /\ f.pending = d.pending
    BY <1>1, ClearedHamlib
  <1>3. e = Abort(f)
    BY <1>1 DEF FailProtocol
  <1>4. QED BY <1>2, <1>3, AbortHangsUp

LEMMA DisconnectHangsUp ==
  ASSUME NEW d, HamlibFormed(d), NEW e, e = DisconnectHamlib(d)
  PROVE  HungUp(e) /\ e.pending = d.pending
  <1>1. PICK f : f = Cleared(d)
    OBVIOUS
  <1>2. /\ HamlibFormed(f) /\ f.active = Idle /\ f.queue = <<>> /\ f.state = NoObservation
        /\ f.payload = <<>> /\ f.pending = d.pending
    BY <1>1, ClearedHamlib
  <1>3. PICK g : g = [f EXCEPT !.operator = TRUE, !.reconnect = FALSE]
    OBVIOUS
  <1>4. /\ HamlibFormed(g) /\ g.active = Idle /\ g.queue = <<>> /\ g.state = NoObservation
        /\ ~g.reconnect /\ g.payload = <<>> /\ g.pending = d.pending
    BY <1>2, <1>3 DEF HamlibFormed
  <1>5. PICK h : h = Abort(g)
    OBVIOUS
  <1>6. HungUp(h) /\ h.pending = d.pending
    BY <1>4, <1>5, AbortHangsUp
  <1>7. e = [h EXCEPT !.state = NoObservation]
    BY <1>1, <1>3, <1>5 DEF DisconnectHamlib
  <1>8. HamlibFormed(e)
    BY <1>6, <1>7 DEF HungUp, HamlibFormed
  <1>9. /\ e.socket = h.socket /\ e.active = h.active /\ e.queue = h.queue
        /\ e.state = NoObservation /\ e.reconnect = h.reconnect /\ e.operator = h.operator
        /\ e.payload = h.payload /\ e.wire = h.wire /\ e.pending = h.pending
    BY <1>6, <1>7 DEF HungUp, HamlibFormed
  <1>10. QED BY <1>6, <1>8, <1>9 DEF HungUp

LEMMA BeginConnectionIsSteady ==
  ASSUME NEW d, Steady(d), NEW e, e = BeginConnection(d)
  PROVE  Steady(e)
  <1>1. CASE d.operator \/ d.socket # "unconnected"
    BY <1>1 DEF BeginConnection
  <1>2. CASE ~(d.operator \/ d.socket # "unconnected")
    <2>1. e = [d EXCEPT !.socket = "connecting", !.request = TRUE]
      BY <1>2 DEF BeginConnection
    <2>2. HamlibFormed(e)
      BY <2>1 DEF Steady, HamlibFormed
    <2>3. /\ e.socket = "connecting" /\ e.request /\ e.active = d.active /\ e.queue = d.queue
          /\ e.state = d.state /\ e.reconnect = d.reconnect /\ e.operator = d.operator
          /\ e.session = d.session /\ e.remaining = d.remaining
      BY <2>1 DEF Steady, HamlibFormed
    <2>4. Talking(e)
      BY <1>2, <2>3 DEF Steady, Talking
    <2>5. Polling(e)
      BY <2>3 DEF Steady, Polling
    <2>6. QED BY <2>2, <2>4, <2>5 DEF Steady
  <1>3. QED BY <1>1, <1>2

(* sendNext: what goes out is the first of what waits, and the rest waits  *)
(* behind it as it did.                                                    *)
LEMMA SendNextIsSteady ==
  ASSUME NEW d, NEW n, Ready(d, n), NEW e, e = SendNext(d)
  PROVE  Steady(e)
  <1>1. HamlibFormed(d) /\ d.queue \in Seq(Requests) /\ n \in Nat
    BY DEF Ready, HamlibFormed, ReadsWait
  <1>2. CASE d.queue = <<>>
    <2>1. e = d /\ Len(d.queue) = 0
      BY <1>2 DEF SendNext, Ready
    <2>2. d.active.field \notin PolledFields
      BY RequestKinds DEF Ready, PolledFields
    <2>3. Polling(d)
      BY <2>1, <2>2 DEF Polling, ReadsWait
    <2>4. Talking(d)
      BY <1>2 DEF Ready, Talking
    <2>5. QED BY <1>1, <2>1, <2>3, <2>4 DEF Steady
  <1>3. CASE d.queue # <<>>
    <2>1. e = [d EXCEPT !.active = Head(d.queue), !.payload = <<>>, !.queue = Tail(d.queue),
                        !.request = TRUE, !.wire = Append(@, Head(d.queue))]
      BY <1>3 DEF SendNext, Ready
    <2>2. /\ Head(d.queue) \in Requests /\ Tail(d.queue) \in Seq(Requests)
          /\ Head(d.queue) = d.queue[1] /\ Len(d.queue) \in Nat /\ Len(d.queue) >= 1
          /\ Len(Tail(d.queue)) = Len(d.queue) - 1
          /\ \A i \in 1..Len(d.queue) - 1 : Tail(d.queue)[i] = d.queue[i + 1]
      BY <1>1, <1>3, HeadTailProperties
    <2>3. HamlibFormed(e)
      BY <1>1, <2>1, <2>2 DEF HamlibFormed
    <2>4. /\ e.socket = d.socket /\ e.request /\ e.active = d.queue[1] /\ e.queue = Tail(d.queue)
          /\ e.state = d.state /\ e.reconnect = d.reconnect /\ e.operator = d.operator
          /\ e.session = d.session /\ e.remaining = d.remaining
      BY <1>1, <2>1, <2>2 DEF HamlibFormed
    <2>5. e.active # Idle
      BY <2>2, <2>4, RequestKinds
    <2>6. QueuedOn(e.queue, e.session) /\ e.active.on = e.session
      <3>1. \A i \in 1..Len(d.queue) : d.queue[i].on = d.session
        BY DEF Ready, QueuedOn
      <3>2. QED BY <2>2, <2>4, <3>1 DEF QueuedOn
    <2>7. Talking(e)
      BY <2>4, <2>5, <2>6 DEF Ready, Talking
    <2>8. Polling(e)
      <3>1. \A i \in 1..Len(d.queue) : d.queue[i].field \in PolledFields <=> i <= n
        BY DEF Ready, ReadsWait
      <3>2. n <= Len(d.queue) /\ (n > 0 => d.remaining = n)
        BY DEF Ready, ReadsWait
      <3>3. e.active.field \in PolledFields <=> n >= 1
        BY <1>1, <2>2, <2>4, <3>1
      <3>4. \A i \in 1..Len(e.queue) : e.queue[i].field \in PolledFields <=> i <= n - 1
        BY <1>1, <2>2, <2>4, <3>1
      <3>5. CASE n >= 1
        BY <1>1, <2>2, <2>4, <3>2, <3>3, <3>4, <3>5 DEF Polling, ReadsWait
      <3>6. CASE n = 0
        BY <1>1, <2>2, <2>4, <3>2, <3>3, <3>4, <3>6 DEF Polling, ReadsWait
      <3>7. QED BY <1>1, <3>5, <3>6
    <2>9. QED BY <2>3, <2>7, <2>8 DEF Steady
  <1>4. QED BY <1>2, <1>3

(* A request that is no read of a poll goes behind what waits.             *)
LEMMA QueueIsSteady ==
  ASSUME NEW d, HamlibFormed(d), d.socket = "connected", NEW request \in Requests,
         request.field \notin PolledFields, request.on = d.session,
         QueuedOn(d.queue, d.session), d.active = Idle => d.queue = <<>>,
         d.active # Idle => d.request /\ d.active.on = d.session,
         Polling(d), d.state.avail = Known => RadioStateIsValid(d.state),
         d.reconnect => ~d.operator, NEW e, e = Queue(d, request)
  PROVE  Steady(e)
  <1>1. PICK f : f = [d EXCEPT !.queue = Append(@, request)]
    OBVIOUS
  <1>2. d.queue \in Seq(Requests)
    BY DEF HamlibFormed
  <1>3. /\ Append(d.queue, request) \in Seq(Requests)
        /\ Len(Append(d.queue, request)) = Len(d.queue) + 1 /\ Len(d.queue) \in Nat
        /\ Append(d.queue, request)[Len(d.queue) + 1] = request
        /\ \A i \in 1..Len(d.queue) : Append(d.queue, request)[i] = d.queue[i]
    BY <1>2
  <1>4. HamlibFormed(f)
    BY <1>1, <1>3 DEF HamlibFormed
  <1>5. /\ f.socket = "connected" /\ f.request = d.request /\ f.active = d.active
        /\ f.queue = Append(d.queue, request)
        /\ f.state = d.state /\ f.reconnect = d.reconnect /\ f.operator = d.operator
        /\ f.session = d.session /\ f.remaining = d.remaining
    BY <1>1 DEF HamlibFormed
  <1>6. QueuedOn(f.queue, f.session)
    BY <1>3, <1>5 DEF QueuedOn
  <1>7. e = SendNext(f) /\ f.queue # <<>>
    BY <1>1, <1>3, <1>5 DEF Queue
  <1>8. \A n \in Nat : ReadsWait(d.queue, n) => ReadsWait(f.queue, n)
    BY <1>3, <1>5 DEF ReadsWait
  <1>9. CASE d.active = Idle
    <2>1. d.active.field \notin PolledFields
      BY <1>9, RequestKinds DEF PolledFields
    <2>2. ReadsWait(f.queue, 0)
      BY <1>8, <2>1 DEF Polling
    <2>3. Ready(f, 0)
      BY <1>4, <1>5, <1>6, <1>7, <1>9, <2>2 DEF Ready
    <2>4. QED BY <1>7, <2>3, SendNextIsSteady
  <1>10. CASE d.active # Idle
    <2>1. e = f
      BY <1>5, <1>7, <1>10 DEF SendNext
    <2>2. d.remaining \in Int
      BY DEF HamlibFormed
    <2>3. Polling(f)
      BY <1>5, <1>8, <2>2 DEF Polling
    <2>4. Talking(f)
      BY <1>5, <1>6, <1>10 DEF Talking
    <2>5. QED BY <1>4, <2>1, <2>3, <2>4 DEF Steady
  <1>11. QED BY <1>9, <1>10

LEMMA ConnectedIsSteady ==
  ASSUME NEW d, Steady(d), d.socket = "connecting", NEW e, e = Connected(d)
  PROVE  Steady(e)
  <1>1. HamlibFormed(d) /\ d.active = Idle /\ d.queue = <<>> /\ d.state.avail # Known /\ d.session \in Sessions
    BY DEF Steady, Talking, HamlibFormed
  <1>2. PICK f : f = [d EXCEPT !.socket = "connected", !.request = FALSE, !.session = 1 - @]
    OBVIOUS
  <1>3. 1 - d.session \in Sessions
    BY <1>1 DEF Sessions
  <1>4. HamlibFormed(f)
    BY <1>1, <1>2, <1>3 DEF HamlibFormed
  <1>5. /\ f.socket = "connected" /\ f.active = Idle /\ f.queue = <<>> /\ f.state = d.state
        /\ f.reconnect = d.reconnect /\ f.operator = d.operator /\ f.session = 1 - d.session
    BY <1>1, <1>2 DEF HamlibFormed
  <1>6. f.active.field \notin PolledFields
    BY <1>5, RequestKinds DEF PolledFields
  <1>7. Polling(f) /\ QueuedOn(f.queue, f.session)
    BY <1>5, <1>6 DEF Polling, ReadsWait, QueuedOn
  <1>8. e = Queue(f, Reading("vfoMode", 1 - d.session))
    BY <1>2 DEF Connected
  <1>9. /\ Reading("vfoMode", 1 - d.session) \in Requests
        /\ Reading("vfoMode", 1 - d.session).on = f.session
        /\ Reading("vfoMode", 1 - d.session).field = "vfoMode"
    BY <1>3, <1>5, RequestKinds
  <1>10. "vfoMode" \notin PolledFields
    BY DEF PolledFields
  <1>11. d.reconnect => ~d.operator
    BY DEF Steady, Talking
  <1>12. QED BY <1>1, <1>4, <1>5, <1>7, <1>8, <1>9, <1>10, <1>11, QueueIsSteady

(* The five reads of a poll, made one after the other.                     *)
LEMMA PollIsReads ==
  ASSUME NEW session \in Sessions, NEW queue, queue = [i \in 1..PollLength |-> Reading(PollFields[i], session)]
  PROVE  /\ queue \in Seq(Requests) /\ Len(queue) = 5 /\ PollLength = 5
         /\ QueuedOn(queue, session) /\ ReadsWait(queue, 5)
  <1>1. PollLength = 5
    BY DEF PollLength, PollFields
  <1>2. \A i \in 1..5 : PollFields[i] \in PolledFields
    BY DEF PollFields, PolledFields
  <1>3. \A i \in 1..5 : /\ queue[i] \in Requests /\ queue[i].field \in PolledFields
                        /\ queue[i].on = session
    BY <1>1, <1>2, RequestKinds
  <1>4. queue \in [1..5 -> Requests]
    BY <1>1, <1>3
  <1>5. queue \in Seq(Requests) /\ Len(queue) = 5
    <2>1. \A n \in Nat : \A q \in [1..n -> Requests] : q \in Seq(Requests) /\ Len(q) = n
      OBVIOUS
    <2>2. 5 \in Nat
      OBVIOUS
    <2>3. QED BY <1>4, <2>1, <2>2
  <1>6. QED BY <1>1, <1>3, <1>5 DEF QueuedOn, ReadsWait

(* beginPoll, on a connection that has nothing else to do.                 *)
LEMMA BeginPollIsSteady ==
  ASSUME NEW d, HamlibFormed(d), d.socket = "connected", d.active = Idle, d.queue = <<>>,
         d.state.avail = Known => RadioStateIsValid(d.state), d.reconnect => ~d.operator,
         NEW e, e = BeginPoll(d)
  PROVE  Steady(e) /\ e.active # Idle
  <1>1. PICK pending : pending = [Blank(Unknown) EXCEPT
             !.avail = Known, !.rxVfo = Read("A"), !.txVfo = Read("B"),
             !.caps = Read(IF d.writable THEN Capabilities \ {"SelectRxVfo", "SelectTxVfo"} ELSE {})]
    OBVIOUS
  <1>2. PICK queue : queue = [i \in 1..PollLength |-> Reading(PollFields[i], d.session)]
    OBVIOUS
  <1>3. PICK f : f = [d EXCEPT !.pending = pending, !.remaining = PollLength, !.queue = queue]
    OBVIOUS
  <1>4. e = SendNext(f)
    BY <1>1, <1>2, <1>3 DEF BeginPoll
  <1>5. d.session \in Sessions
    BY DEF HamlibFormed
  <1>6. /\ queue \in Seq(Requests) /\ Len(queue) = 5 /\ PollLength = 5
        /\ QueuedOn(queue, d.session) /\ ReadsWait(queue, 5)
    BY <1>2, <1>5, PollIsReads
  <1>7. HamlibFormed(f)
    <2>1. queue \in Seq(Requests) /\ PollLength \in Int
      BY <1>6
    <2>2. QED BY <1>3, <2>1 DEF HamlibFormed
  <1>8. /\ f.socket = "connected" /\ f.active = Idle /\ f.queue = queue /\ f.remaining = 5
        /\ f.state = d.state /\ f.reconnect = d.reconnect /\ f.operator = d.operator
        /\ f.session = d.session
    BY <1>3, <1>6 DEF HamlibFormed
  <1>9. queue # <<>>
    <2>1. Len(queue) = 5
      BY <1>6
    <2>2. QED BY <2>1
  <1>10. Ready(f, 5)
    BY <1>6, <1>7, <1>8, <1>9 DEF Ready
  <1>11. Steady(e)
    BY <1>4, <1>10, SendNextIsSteady
  <1>12. e = [f EXCEPT !.active = Head(f.queue), !.payload = <<>>, !.queue = Tail(f.queue),
                       !.request = TRUE, !.wire = Append(@, Head(f.queue))]
    BY <1>4, <1>8, <1>9 DEF SendNext
  <1>13. e.active = Head(queue)
    BY <1>7, <1>8, <1>12 DEF HamlibFormed
  <1>14. Head(queue) \in Requests
    BY <1>6, <1>9, HeadTailProperties
  <1>15. QED BY <1>11, <1>13, <1>14, RequestKinds

(* sendNext finds nothing to do while a request is out.                    *)
LEMMA SendNextWaits ==
  ASSUME NEW d, d.active # Idle \/ d.queue = <<>> \/ d.socket # "connected"
  PROVE  SendNext(d) = d
  BY DEF SendNext

LEMMA AfterWriteIsSteady ==
  ASSUME NEW d, Ready([d EXCEPT !.poll = TRUE], 0), HamlibFormed(d), d.request = FALSE,
         NEW e, e = AfterWrite(SendNext(d))
  PROVE  Steady(e)
  <1>1. PICK f : f = [d EXCEPT !.poll = TRUE]
    OBVIOUS
  <1>2. /\ f.active = d.active /\ f.queue = d.queue /\ f.socket = d.socket /\ f.poll
    BY <1>1 DEF HamlibFormed
  <1>3. Ready(f, 0) /\ d.active = Idle /\ d.socket = "connected"
    BY <1>1, <1>2 DEF Ready
  <1>4. CASE d.queue = <<>>
    <2>1. SendNext(d) = d /\ SendNext(f) = f
      BY <1>2, <1>4, SendNextWaits
    <2>2. e = f
      BY <1>1, <1>3, <1>4, <2>1 DEF AfterWrite
    <2>3. QED BY <1>3, <2>1, <2>2, SendNextIsSteady
  <1>5. CASE d.queue # <<>>
    <2>1. PICK g : g = SendNext(d)
      OBVIOUS
    <2>2. g = [d EXCEPT !.active = Head(d.queue), !.payload = <<>>, !.queue = Tail(d.queue),
                        !.request = TRUE, !.wire = Append(@, Head(d.queue))]
      BY <1>3, <1>5, <2>1 DEF SendNext
    <2>3. g.active = Head(d.queue) /\ Head(d.queue) \in Requests
      BY <1>5, <2>2, HeadTailProperties DEF HamlibFormed
    <2>4. e = g
      BY <2>1, <2>3, RequestKinds DEF AfterWrite
    <2>5. Ready(d, 0)
      BY <1>1, <1>3, <1>5 DEF Ready, HamlibFormed
    <2>6. QED BY <2>1, <2>4, <2>5, SendNextIsSteady
  <1>6. QED BY <1>4, <1>5

(* A read is taken; the next of the poll goes out, or the poll is          *)
(* published, or the state it made is not one and the connection is closed. *)
LEMMA CompleteReadIsSteady ==
  ASSUME NEW d, HamlibFormed(d), d.socket = "connected", d.active = Idle,
         QueuedOn(d.queue, d.session), d.remaining >= 1, ReadsWait(d.queue, d.remaining - 1),
         d.state.avail = Known => RadioStateIsValid(d.state), d.reconnect => ~d.operator,
         NEW field, NEW payload, NEW e, e = CompleteRead(d, field, payload)
  PROVE  Steady(e)
  <1>1. PICK pending : pending = Observed(d.pending, field, payload[1].panel)
    OBVIOUS
  <1>2. PICK f : f = [d EXCEPT !.pending = pending, !.remaining = @ - 1]
    OBVIOUS
  <1>3. d.remaining \in Int
    BY DEF HamlibFormed
  <1>4. HamlibFormed(f)
    <2>1. d.remaining - 1 \in Int
      BY <1>3
    <2>2. QED BY <1>2, <2>1 DEF HamlibFormed
  <1>5. /\ f.socket = "connected" /\ f.active = Idle /\ f.queue = d.queue
        /\ f.remaining = d.remaining - 1 /\ f.pending = pending
        /\ f.state = d.state /\ f.reconnect = d.reconnect /\ f.operator = d.operator
        /\ f.session = d.session
    BY <1>2 DEF HamlibFormed
  <1>6. e = SendNext(IF f.remaining = 0 THEN PublishPoll(f) ELSE f)
    BY <1>1, <1>2 DEF CompleteRead
  <1>7. CASE f.remaining # 0
    <2>1. ReadsWait(f.queue, f.remaining) /\ f.remaining > 0
      BY <1>3, <1>5, <1>7
    <2>2. f.queue # <<>>
      BY <1>3, <1>5, <2>1 DEF ReadsWait
    <2>3. Ready(f, f.remaining)
      BY <1>4, <1>5, <2>1, <2>2 DEF Ready
    <2>4. QED BY <1>6, <1>7, <2>3, SendNextIsSteady
  <1>8. CASE f.remaining = 0 /\ RadioStateIsValid(f.pending)
    <2>1. PICK g : g = [f EXCEPT !.state = f.pending, !.poll = TRUE]
      OBVIOUS
    <2>2. e = SendNext(g)
      BY <1>6, <1>8, <2>1 DEF PublishPoll
    <2>3. HamlibFormed(g)
      BY <1>4, <2>1 DEF HamlibFormed
    <2>4. /\ g.socket = "connected" /\ g.active = Idle /\ g.queue = f.queue /\ g.poll
          /\ g.state = f.pending /\ g.reconnect = f.reconnect /\ g.operator = f.operator
          /\ g.session = f.session
      BY <1>4, <1>5, <2>1 DEF HamlibFormed
    <2>5. ReadsWait(g.queue, 0)
      BY <1>3, <1>5, <1>8, <2>4
    <2>6. Ready(g, 0)
      BY <1>5, <1>8, <2>3, <2>4, <2>5 DEF Ready
    <2>7. QED BY <2>2, <2>6, SendNextIsSteady
  <1>9. CASE f.remaining = 0 /\ ~RadioStateIsValid(f.pending)
    <2>1. PICK g : g = FailProtocol(f)
      OBVIOUS
    <2>2. HungUp(g)
      BY <1>4, <1>5, <2>1, FailureHangsUp
    <2>3. e = g
      BY <1>6, <1>9, <2>1, <2>2, SendNextWaits DEF PublishPoll, HungUp
    <2>4. QED BY <2>2, <2>3, HungUpIsSteady
  <1>10. QED BY <1>7, <1>8, <1>9

LEMMA CompleteRequestIsSteady ==
  ASSUME NEW d, Steady(d), d.active # Idle, NEW result, NEW e, e = CompleteRequest(d, result)
  PROVE  Steady(e)
  <1>1. PICK f : f = [d EXCEPT !.request = FALSE, !.active = Idle, !.payload = <<>>]
    OBVIOUS
  <1>2. HamlibFormed(d) /\ d.active \in Requests
    BY DEF Steady, HamlibFormed
  <1>3. HamlibFormed(f)
    BY <1>1, <1>2 DEF HamlibFormed
  <1>4. /\ f.socket = d.socket /\ f.active = Idle /\ f.queue = d.queue /\ f.request = FALSE
        /\ f.remaining = d.remaining /\ f.poll = d.poll
        /\ f.state = d.state /\ f.reconnect = d.reconnect /\ f.operator = d.operator
        /\ f.session = d.session
    BY <1>1, <1>2 DEF HamlibFormed
  <1>5. /\ f.socket = "connected" /\ QueuedOn(f.queue, f.session)
        /\ (f.state.avail = Known => RadioStateIsValid(f.state)) /\ (f.reconnect => ~f.operator)
    BY <1>4 DEF Steady, Talking
  <1>6. CASE result # "ok" \/ ~PayloadIsValid(d.active.field, d.payload)
    <2>1. e = FailProtocol(f)
      BY <1>1, <1>6 DEF CompleteRequest
    <2>2. QED BY <1>3, <1>5, <2>1, FailureHangsUp, HungUpIsSteady
  <1>7. CASE ~(result # "ok" \/ ~PayloadIsValid(d.active.field, d.payload))
    <2>1. e = (IF d.active.field = "vfoMode" THEN SendNext(BeginPoll(f))
               ELSE IF d.active.field = "write" THEN AfterWrite(SendNext(f))
               ELSE CompleteRead(f, d.active.field, d.payload))
      BY <1>1, <1>7 DEF CompleteRequest
    <2>2. d.active.field \in PolledFields \cup {"vfoMode", "write"}
      BY <1>2 DEF Requests
    <2>3. CASE d.active.field = "vfoMode"
      <3>1. CASE f.queue = <<>>
        <4>1. PICK g : g = BeginPoll(f)
          OBVIOUS
        <4>2. Steady(g) /\ g.active # Idle
          BY <1>3, <1>4, <1>5, <3>1, <4>1, BeginPollIsSteady
        <4>3. QED BY <2>1, <2>3, <4>1, <4>2, SendNextWaits
      <3>2. CASE f.queue # <<>>
        <4>1. BeginPoll(f) = f
          BY <3>2 DEF BeginPoll
        <4>2. d.active.field \notin PolledFields
          BY <2>3 DEF PolledFields
        <4>3. ReadsWait(f.queue, 0)
          BY <1>4, <4>2 DEF Steady, Polling
        <4>4. Ready(f, 0)
          BY <1>3, <1>4, <1>5, <3>2, <4>3 DEF Ready
        <4>5. QED BY <2>1, <2>3, <4>1, <4>4, SendNextIsSteady
      <3>3. QED BY <3>1, <3>2
    <2>4. CASE d.active.field = "write"
      <3>1. d.active.field \notin PolledFields
        BY <2>4 DEF PolledFields
      <3>2. ReadsWait(f.queue, 0)
        BY <1>4, <3>1 DEF Steady, Polling
      <3>3. PICK g : g = [f EXCEPT !.poll = TRUE]
        OBVIOUS
      <3>4. HamlibFormed(g)
        BY <1>3, <3>3 DEF HamlibFormed
      <3>5. /\ g.socket = f.socket /\ g.active = Idle /\ g.queue = f.queue /\ g.poll
            /\ g.state = f.state /\ g.reconnect = f.reconnect /\ g.operator = f.operator
            /\ g.session = f.session
        BY <1>3, <1>4, <3>3 DEF HamlibFormed
      <3>6. Ready(g, 0)
        BY <1>5, <3>2, <3>4, <3>5 DEF Ready
      <3>7. e = AfterWrite(SendNext(f))
        BY <2>1, <2>4
      <3>8. QED BY <1>3, <1>4, <3>3, <3>6, <3>7, AfterWriteIsSteady
    <2>5. CASE d.active.field \in PolledFields
      <3>1. d.active.field # "vfoMode" /\ d.active.field # "write"
        BY <2>5 DEF PolledFields
      <3>2. f.remaining >= 1 /\ ReadsWait(f.queue, f.remaining - 1)
        BY <1>4, <2>5 DEF Steady, Polling
      <3>3. e = CompleteRead(f, d.active.field, d.payload)
        BY <2>1, <3>1
      <3>4. QED BY <1>3, <1>4, <1>5, <3>2, <3>3, CompleteReadIsSteady
    <2>6. QED BY <2>2, <2>3, <2>4, <2>5
  <1>8. QED BY <1>6, <1>7

LEMMA ConsumeLineIsSteady ==
  ASSUME NEW d, Steady(d), NEW line, NEW e, e = ConsumeLine(d, line)
  PROVE  Steady(e)
  <1>1. HamlibFormed(d) /\ (d.reconnect => ~d.operator)
    BY DEF Steady, Talking
  <1>2. CASE e = FailProtocol(d)
    BY <1>1, <1>2, FailureHangsUp, HungUpIsSteady
  <1>3. CASE d.active # Idle /\ e = CompleteRequest(d, line.result)
    BY <1>3, CompleteRequestIsSteady
  <1>4. CASE d.active # Idle /\ line.result = "none" /\ d.active.field # "write"
    <2>1. PICK f : f = [d EXCEPT !.payload = Append(@, line)]
      OBVIOUS
    <2>2. HamlibFormed(f)
      BY <1>1, <2>1 DEF HamlibFormed
    <2>3. /\ f.socket = d.socket /\ f.active = d.active /\ f.queue = d.queue /\ f.request = d.request
          /\ f.remaining = d.remaining /\ f.poll = d.poll
          /\ f.state = d.state /\ f.reconnect = d.reconnect /\ f.operator = d.operator
          /\ f.session = d.session
      BY <1>1, <2>1 DEF HamlibFormed
    <2>4. Talking(f) /\ Polling(f)
      BY <2>3 DEF Steady, Talking, Polling
    <2>5. Steady(f)
      BY <2>2, <2>4 DEF Steady
    <2>6. e = f \/ e = CompleteRequest(f, "ok")
      BY <1>4, <2>1 DEF ConsumeLine
    <2>7. QED BY <1>4, <2>3, <2>5, <2>6, CompleteRequestIsSteady
  <1>5. QED BY <1>2, <1>3, <1>4 DEF ConsumeLine

LEMMA QueueWriteIsSteady ==
  ASSUME NEW d, Steady(d), NEW command \in HamlibCommands, NEW e, e = QueueWrite(d, command)
  PROVE  Steady(e)
  <1>1. CASE ~WriteAccepted(d, command)
    BY <1>1 DEF QueueWrite
  <1>2. CASE WriteAccepted(d, command)
    <2>1. PICK f : f = [d EXCEPT !.poll = FALSE]
      OBVIOUS
    <2>2. HamlibFormed(d) /\ d.session \in Sessions
      BY DEF Steady, HamlibFormed
    <2>3. HamlibFormed(f)
      BY <2>1, <2>2 DEF HamlibFormed
    <2>4. /\ f.socket = d.socket /\ f.active = d.active /\ f.queue = d.queue /\ f.request = d.request
          /\ f.remaining = d.remaining
          /\ f.state = d.state /\ f.reconnect = d.reconnect /\ f.operator = d.operator
          /\ f.session = d.session
      BY <2>1, <2>2 DEF HamlibFormed
    <2>5. e = Queue(f, Writing(command, d.session))
      BY <1>2, <2>1 DEF QueueWrite
    <2>6. d.socket = "connected"
      BY <1>2 DEF WriteAccepted, CanWrite
    <2>7. /\ QueuedOn(f.queue, f.session) /\ (f.active = Idle => f.queue = <<>>)
          /\ (f.active # Idle => f.request /\ f.active.on = f.session)
          /\ (f.state.avail = Known => RadioStateIsValid(f.state)) /\ (f.reconnect => ~f.operator)
      BY <2>4 DEF Steady, Talking
    <2>8. Polling(f)
      BY <2>4 DEF Steady, Polling
    <2>9. /\ Writing(command, d.session) \in Requests
          /\ Writing(command, d.session).field = "write" /\ Writing(command, d.session).on = f.session
      BY <2>2, <2>4, RequestKinds
    <2>10. "write" \notin PolledFields
      BY DEF PolledFields
    <2>11. QED BY <2>3, <2>4, <2>5, <2>6, <2>7, <2>8, <2>9, <2>10, QueueIsSteady
  <1>3. QED BY <1>1, <1>2

LEMMA PollTimeoutIsSteady ==
  ASSUME NEW d, Steady(d), NEW e, e = PollTimeout(d)
  PROVE  Steady(e)
  <1>1. PICK f : f = [d EXCEPT !.poll = FALSE]
    OBVIOUS
  <1>2. HamlibFormed(d)
    BY DEF Steady
  <1>3. HamlibFormed(f)
    BY <1>1, <1>2 DEF HamlibFormed
  <1>4. /\ f.socket = d.socket /\ f.active = d.active /\ f.queue = d.queue /\ f.request = d.request
        /\ f.remaining = d.remaining
        /\ f.state = d.state /\ f.reconnect = d.reconnect /\ f.operator = d.operator
        /\ f.session = d.session
    BY <1>1, <1>2 DEF HamlibFormed
  <1>5. e = BeginPoll(f)
    BY <1>1 DEF PollTimeout
  <1>6. /\ f.active = Idle => f.queue = <<>>
        /\ f.state.avail = Known => RadioStateIsValid(f.state)
        /\ f.reconnect => ~f.operator
    BY <1>4 DEF Steady, Talking
  <1>7. CASE f.socket = "connected" /\ f.active = Idle
    BY <1>3, <1>5, <1>6, <1>7, BeginPollIsSteady
  <1>8. CASE ~(f.socket = "connected" /\ f.active = Idle)
    <2>1. e = f
      BY <1>5, <1>8 DEF BeginPoll
    <2>2. Talking(f) /\ Polling(f)
      BY <1>4, <1>8 DEF Steady, Talking, Polling
    <2>3. QED BY <1>3, <2>1, <2>2 DEF Steady
  <1>9. QED BY <1>7, <1>8

(* A slot that only clears a flag of its own timer before it goes on.      *)
LEMMA TimersAreSteady ==
  ASSUME NEW d, Steady(d)
  PROVE  Steady(RequestTimeout(d)) /\ Steady(HamlibReconnectTimeout(d))
  <1>1. HamlibFormed(d) /\ (d.reconnect => ~d.operator)
    BY DEF Steady, Talking
  <1>2. Steady(RequestTimeout(d))
    <2>1. PICK f : f = [d EXCEPT !.request = FALSE]
      OBVIOUS
    <2>2. HamlibFormed(f) /\ (f.reconnect => ~f.operator)
      BY <1>1, <2>1 DEF HamlibFormed
    <2>3. QED BY <2>1, <2>2, FailureHangsUp, HungUpIsSteady DEF RequestTimeout
  <1>3. Steady(HamlibReconnectTimeout(d))
    <2>1. PICK f : f = [d EXCEPT !.reconnect = FALSE]
      OBVIOUS
    <2>2. HamlibFormed(f)
      BY <1>1, <2>1 DEF HamlibFormed
    <2>3. /\ f.socket = d.socket /\ f.active = d.active /\ f.queue = d.queue /\ f.request = d.request
          /\ f.remaining = d.remaining /\ f.poll = d.poll
          /\ f.state = d.state /\ ~f.reconnect /\ f.operator = d.operator
          /\ f.session = d.session
      BY <1>1, <2>1 DEF HamlibFormed
    <2>4. Talking(f) /\ Polling(f)
      BY <2>3 DEF Steady, Talking, Polling
    <2>5. Steady(f)
      BY <2>2, <2>4 DEF Steady
    <2>6. QED BY <2>1, <2>5, BeginConnectionIsSteady DEF HamlibReconnectTimeout
  <1>4. QED BY <1>2, <1>3

LEMMA ConnectHamlibIsSteady ==
  ASSUME NEW d, Steady(d), NEW valid \in BOOLEAN, NEW writable \in BOOLEAN
  PROVE  Steady(DisconnectHamlib(d)) /\ Steady(ConnectHamlib(d, valid, writable))
  <1>1. PICK f : f = DisconnectHamlib(d)
    OBVIOUS
  <1>2. HungUp(f)
    BY <1>1, DisconnectHangsUp DEF Steady
  <1>3. PICK g : g = [f EXCEPT !.writable = writable, !.operator = FALSE]
    OBVIOUS
  <1>4. HamlibFormed(g)
    BY <1>2, <1>3 DEF HungUp, HamlibFormed
  <1>5. /\ g.socket = f.socket /\ g.active = f.active /\ g.queue = f.queue /\ g.state = f.state
        /\ g.payload = f.payload /\ g.wire = f.wire /\ ~g.operator
    BY <1>2, <1>3 DEF HungUp, HamlibFormed
  <1>6. HungUp(g)
    BY <1>2, <1>4, <1>5 DEF HungUp
  <1>7. Steady(f) /\ Steady(g)
    BY <1>2, <1>6, HungUpIsSteady
  <1>8. Steady(BeginConnection(g))
    BY <1>7, BeginConnectionIsSteady
  <1>9. ConnectHamlib(d, valid, writable) = (IF valid THEN BeginConnection(g) ELSE f)
    BY <1>1, <1>3 DEF ConnectHamlib
  <1>10. QED BY <1>1, <1>7, <1>8, <1>9

LEMMA SocketClosesSteadily ==
  ASSUME NEW d, Steady(d)
  PROVE  /\ d.socket = "connecting" => Steady([d EXCEPT !.socket = "unconnected"])
         /\ Steady(HandleDisconnected([d EXCEPT !.socket = "unconnected", !.wire = <<>>]))
  <1>1. HamlibFormed(d) /\ (d.reconnect => ~d.operator)
    BY DEF Steady, Talking
  <1>2. ASSUME d.socket = "connecting"
        PROVE  Steady([d EXCEPT !.socket = "unconnected"])
    <2>1. PICK f : f = [d EXCEPT !.socket = "unconnected"]
      OBVIOUS
    <2>2. HamlibFormed(f)
      BY <1>1, <2>1 DEF HamlibFormed
    <2>3. /\ f.socket = "unconnected" /\ f.active = d.active /\ f.queue = d.queue
          /\ f.remaining = d.remaining /\ f.state = d.state /\ f.reconnect = d.reconnect
          /\ f.operator = d.operator /\ f.session = d.session
      BY <1>1, <2>1 DEF HamlibFormed
    <2>4. Talking(f) /\ Polling(f)
      BY <1>2, <2>3 DEF Steady, Talking, Polling
    <2>5. QED BY <2>1, <2>2, <2>4 DEF Steady
  <1>3. Steady(HandleDisconnected([d EXCEPT !.socket = "unconnected", !.wire = <<>>]))
    <2>1. PICK f : f = [d EXCEPT !.socket = "unconnected", !.wire = <<>>]
      OBVIOUS
    <2>2. HamlibFormed(f)
      BY <1>1, <2>1 DEF HamlibFormed
    <2>3. f.socket = "unconnected" /\ f.wire = <<>> /\ (f.reconnect => ~f.operator)
      BY <1>1, <2>1 DEF HamlibFormed
    <2>4. QED BY <2>1, <2>2, <2>3, DisconnectedHangsUp, HungUpIsSteady
  <1>4. QED BY <1>2, <1>3

(* The daemon takes a command off the wire, and nothing else of the client. *)
LEMMA WireIsSteady ==
  ASSUME NEW d, Steady(d), NEW wire
  PROVE  Steady([d EXCEPT !.wire = wire])
  <1>1. PICK f : f = [d EXCEPT !.wire = wire]
    OBVIOUS
  <1>2. HamlibFormed(d)
    BY DEF Steady
  <1>3. HamlibFormed(f)
    BY <1>1, <1>2 DEF HamlibFormed
  <1>4. /\ f.socket = d.socket /\ f.active = d.active /\ f.queue = d.queue /\ f.request = d.request
        /\ f.remaining = d.remaining /\ f.poll = d.poll
        /\ f.state = d.state /\ f.reconnect = d.reconnect /\ f.operator = d.operator
        /\ f.session = d.session
    BY <1>1, <1>2 DEF HamlibFormed
  <1>5. Talking(f) /\ Polling(f)
    BY <1>4 DEF Steady, Talking, Polling
  <1>6. QED BY <1>1, <1>3, <1>5 DEF Steady

HamlibIInv == Steady(hl)

LEMMA InitHamlib == HamlibInit => HamlibIInv
  <1>1. SUFFICES ASSUME HamlibInit PROVE Steady(hl)
    BY DEF HamlibIInv
  <1>2. hl = NewHamlib
    BY <1>1 DEF HamlibInit
  <1>3. HamlibFormed(hl)
    BY <1>2 DEF NewHamlib, HamlibFormed, Sessions
  <1>4. /\ hl.socket = "unconnected" /\ hl.active = Idle /\ hl.queue = <<>>
        /\ hl.payload = <<>> /\ hl.wire = <<>> /\ hl.state = NoObservation /\ ~hl.reconnect
    BY <1>2 DEF NewHamlib
  <1>5. QED BY <1>3, <1>4, HungUpIsSteady DEF HungUp

LEMMA StepHamlib == HamlibIInv /\ [HamlibNext]_hlVars => HamlibIInv'
  <1>1. SUFFICES ASSUME Steady(hl), [HamlibNext]_hlVars PROVE Steady(hl')
    BY DEF HamlibIInv
  <1>2. ASSUME NEW d, NEW lines, HamlibBecomes(d, lines)
        PROVE  hl' = d
    BY <1>2 DEF HamlibBecomes
  <1>3. CASE DoConnectHamlib \/ DoDisconnectHamlib
    <2>1. CASE DoConnectHamlib
      BY <1>1, <1>2, <2>1, ConnectHamlibIsSteady DEF DoConnectHamlib
    <2>2. CASE DoDisconnectHamlib
      BY <1>1, <1>2, <2>2, ConnectHamlibIsSteady DEF DoDisconnectHamlib
    <2>3. QED BY <1>3, <2>1, <2>2
  <1>4. CASE DoQueueWrite
    BY <1>1, <1>2, <1>4, QueueWriteIsSteady DEF DoQueueWrite
  <1>5. CASE HamlibConnects \/ HamlibRefused \/ HamlibHangsUp
    <2>1. CASE HamlibConnects
      BY <1>1, <1>2, <2>1, ConnectedIsSteady DEF HamlibConnects
    <2>2. CASE HamlibRefused
      <3>1. hl.socket = "connecting" /\ hl' = [hl EXCEPT !.socket = "unconnected"]
        BY <2>2 DEF HamlibRefused, HamlibBecomes
      <3>2. QED BY <1>1, <3>1, SocketClosesSteadily
    <2>3. CASE HamlibHangsUp
      <3>1. hl' = HandleDisconnected([hl EXCEPT !.socket = "unconnected", !.wire = <<>>])
        BY <2>3 DEF HamlibHangsUp, HamlibBecomes
      <3>2. QED BY <1>1, <3>1, SocketClosesSteadily
    <2>4. QED BY <1>5, <2>1, <2>2, <2>3
  <1>6. CASE HamlibReads
    BY <1>1, <1>2, <1>6, ConsumeLineIsSteady DEF HamlibReads
  <1>7. CASE HamlibPolls
    BY <1>1, <1>2, <1>7, PollTimeoutIsSteady DEF HamlibPolls
  <1>8. CASE HamlibTimesOut
    BY <1>1, <1>2, <1>8, TimersAreSteady DEF HamlibTimesOut
  <1>9. CASE HamlibRetries
    BY <1>1, <1>2, <1>9, TimersAreSteady DEF HamlibRetries
  <1>10. CASE DaemonAnswers \/ DaemonRefuses \/ DaemonIsSilent
    <2>1. hl' = [hl EXCEPT !.wire = Tail(hl.wire)]
      BY <1>10 DEF DaemonAnswers, DaemonRefuses, DaemonIsSilent
    <2>2. QED BY <1>1, <2>1, WireIsSteady
  <1>11. CASE DaemonBabbles \/ OperatorTurnsKnob \/ UNCHANGED hlVars
    <2>1. hl' = hl
      BY <1>11 DEF DaemonBabbles, OperatorTurnsKnob, hlVars
    <2>2. QED BY <1>1, <2>1
  <1>12. QED
    BY <1>1, <1>3, <1>4, <1>5, <1>6, <1>7, <1>8, <1>9, <1>10, <1>11 DEF HamlibNext

(* HamlibInv holds of every behaviour: an open connection is never silent  *)
(* without a timer, a request out has its own, and nothing waits that was  *)
(* not accepted on the connection that is open.                            *)
THEOREM ConversationIsBounded == HamlibSpec => []HamlibInv
  <1>1. HamlibIInv => HamlibInv
    BY DEF HamlibIInv, Steady, Talking, QueuedOn, HamlibInv
  <1>2. QED BY <1>1, InitHamlib, StepHamlib, PTL DEF HamlibSpec

-----------------------------------------------------------------------------
(***************************************************************************)
(* What a poll publishes was seen on the radio after the poll began.       *)
(***************************************************************************)
Radios ==
  [rx : Hertz \cup {command.val : command \in HamlibCommands}, tx : Hertz, mode : Modes, split : BOOLEAN]
Lines == [result : {"none", "ok", "error"}, valid : BOOLEAN, panel : Radios]

(* The lines of a payload among those on their way: n, behind the first.   *)
Carries(lines, first, n) ==
  \A i \in 1..Len(lines) : lines[i].result = "none" <=> i \in first + 1..first + n
Quiet(lines) == Carries(lines, 0, 0)
(* What is left of the answer to the request that is out: nothing, or all  *)
(* that the client has not read; and then no other read is on the wire.    *)
Answering(d, lines, first, n) ==
  /\ Carries(lines, first, n)
  /\ n = 0 => d.payload = <<>>
  /\ n > 0 => /\ d.active.field \notin {"write", "none"}
              /\ n + Len(d.payload) = PayloadLines(d.active.field)
              /\ d.payload # <<>> => first = 0
              /\ \A i \in 1..Len(d.wire) : d.wire[i].field = "write"

(* The read on the wire, if there is one, is the last and the request out. *)
LastIsRead(d) ==
  \A i \in 1..Len(d.wire) : d.wire[i].field # "write" => i = Len(d.wire) /\ d.wire[i] = d.active
Noted(pending) == {"rx", "split"} \subseteq DOMAIN pending
Conveyed(d, lines) ==
  /\ d.wire \in Seq(Requests) /\ d.payload \in Seq(Lines) /\ lines \in Seq(Lines)
  /\ Noted(d.pending)
  /\ d.socket # "connected" => d.wire = <<>> /\ lines = <<>>
  /\ LastIsRead(d)
  /\ \E first, n \in 0..Len(lines) : first + n <= Len(lines) /\ Answering(d, lines, first, n)

(* The reads of a poll that wait are the last n of the five, in order.     *)
Sorted(queue, n) == \A i \in 1..n : queue[i].field = PollFields[5 - n + i]
PollInOrder(d) ==
  d.active.field \in PolledFields =>
    /\ d.remaining \in 1..5 /\ d.active.field = PollFields[6 - d.remaining]
    /\ Sorted(d.queue, d.remaining - 1)

Relayed(line, seen) == line.panel.rx \in seen.rx /\ line.panel.split \in seen.split
Witnessed(d, lines, seen) ==
  d.active.field \in PolledFields =>
    /\ \A i \in 1..Len(lines) : lines[i].result = "none" => Relayed(lines[i], seen)
    /\ \A i \in 1..Len(d.payload) : Relayed(d.payload[i], seen)
    /\ d.active.field # "rx" => d.pending.rx.val \in seen.rx
Truthful(d, lines, seen) == Conveyed(d, lines) /\ PollInOrder(d) /\ Witnessed(d, lines, seen)

(* A client that has no request out, of which nothing can be on its way.   *)
Rested(d, lines) ==
  /\ d.active = Idle /\ d.payload = <<>> /\ lines \in Seq(Lines) /\ Quiet(lines)
  /\ d.wire \in Seq(Requests) /\ \A i \in 1..Len(d.wire) : d.wire[i].field = "write"
  /\ Noted(d.pending)
Closed(d) ==
  /\ d.socket # "connected" /\ d.active = Idle /\ d.payload = <<>> /\ d.wire = <<>>
  /\ Noted(d.pending)

(* What a slot may make of a client: it is closed, or goes on, and then    *)
(* with a request that is new only if no answer is on its way; and a state *)
(* that it publishes was seen.                                             *)
Published(state, seen) ==
  /\ state.rx.val \in seen.rx
  /\ \E split \in seen.split : state.split = Read(IF split THEN "Enabled" ELSE "Disabled")
GoesOn(d, e, lines, seen) ==
  /\ \/ Closed(e)
     \/ /\ Truthful(e, lines, seen) /\ e.socket = "connected"
        /\ d.socket = "connected" \/ lines = <<>>
        /\ e.active = d.active \/ (e.payload = <<>> /\ Quiet(lines))
  /\ e.state = d.state \/ e.state.avail # Known \/ Published(e.state, seen)

LEMMA QuietIsAnswered ==
  ASSUME NEW d, NEW lines, lines \in Seq(Lines), Quiet(lines), d.payload = <<>>
  PROVE  \E first, n \in 0..Len(lines) : first + n <= Len(lines) /\ Answering(d, lines, first, n)
  <1>1. Answering(d, lines, 0, 0)
    BY DEF Answering, Quiet
  <1>2. 0 \in 0..Len(lines) /\ 0 + 0 <= Len(lines)
    BY LenProperties
  <1>3. QED BY <1>1, <1>2

LEMMA RestedIsTruthful ==
  ASSUME NEW d, NEW lines, Rested(d, lines), d.socket = "connected" \/ (d.wire = <<>> /\ lines = <<>>),
         NEW seen
  PROVE  Truthful(d, lines, seen)
  <1>1. d.active.field = "none" /\ "none" \notin PolledFields
    BY RequestKinds DEF Rested, PolledFields
  <1>2. PollInOrder(d) /\ Witnessed(d, lines, seen)
    BY <1>1 DEF PollInOrder, Witnessed
  <1>3. <<>> \in Seq(Lines) /\ LastIsRead(d)
    BY DEF Rested, LastIsRead
  <1>4. Conveyed(d, lines)
    BY <1>3, QuietIsAnswered DEF Rested, Conveyed
  <1>5. QED BY <1>2, <1>4 DEF Truthful

LEMMA ClosedIsTruthful ==
  ASSUME NEW d, Closed(d), NEW seen
  PROVE  Truthful(d, <<>>, seen)
  <1>1. <<>> \in Seq(Lines) /\ Quiet(<<>>) /\ <<>> \in Seq(Requests) /\ Len(<<>>) = 0
    BY DEF Quiet, Carries
  <1>2. Rested(d, <<>>)
    BY <1>1 DEF Closed, Rested
  <1>3. QED BY <1>2, RestedIsTruthful DEF Closed

LEMMA HungUpIsClosed ==
  ASSUME NEW e, HungUp(e), Noted(e.pending)
  PROVE  Closed(e) /\ e.state.avail # Known
  BY RequestKinds DEF HungUp, Closed

LEMMA IdleIsRested ==
  ASSUME NEW d, NEW lines, NEW seen, Truthful(d, lines, seen), d.active = Idle
  PROVE  Rested(d, lines)
  <1>1. PICK first, n \in 0..Len(lines) : first + n <= Len(lines) /\ Answering(d, lines, first, n)
    BY DEF Truthful, Conveyed
  <1>2. n = 0
    BY <1>1, RequestKinds DEF Answering
  <1>3. lines \in Seq(Lines) /\ d.wire \in Seq(Requests) /\ Noted(d.pending) /\ LastIsRead(d)
    BY DEF Truthful, Conveyed
  <1>4. Quiet(lines) /\ d.payload = <<>>
    BY <1>1, <1>2 DEF Answering, Quiet, Carries
  <1>5. \A i \in 1..Len(d.wire) : d.wire[i] \in Requests
    BY <1>3
  <1>6. \A i \in 1..Len(d.wire) : d.wire[i].field = "write"
    BY <1>3, <1>5, RequestKinds DEF LastIsRead
  <1>7. QED BY <1>3, <1>4, <1>6 DEF Rested

(* A field of the client that no answer touches.                           *)
LEMMA SameTruth ==
  ASSUME NEW d, NEW e, NEW lines, NEW seen, Truthful(d, lines, seen),
         e.socket = d.socket, e.wire = d.wire, e.active = d.active, e.queue = d.queue,
         e.payload = d.payload, e.pending = d.pending, e.remaining = d.remaining
  PROVE  Truthful(e, lines, seen)
  <1>1. PollInOrder(e) /\ Witnessed(e, lines, seen) /\ LastIsRead(e)
    BY DEF Truthful, Conveyed, PollInOrder, Witnessed, LastIsRead
  <1>2. \A first, n : Answering(d, lines, first, n) <=> Answering(e, lines, first, n)
    BY DEF Answering
  <1>3. Conveyed(e, lines)
    BY <1>1, <1>2 DEF Truthful, Conveyed
  <1>4. QED BY <1>1, <1>3 DEF Truthful

(* A request that is new is not answered yet, so what was seen before it   *)
(* may be forgotten, and more may always be seen.                          *)
LEMMA ForgetsWhatWasSeen ==
  ASSUME NEW d, NEW lines, NEW seen, NEW other, Truthful(d, lines, seen),
         \/ d.active.field = "rx" /\ d.payload = <<>> /\ Quiet(lines)
         \/ seen.rx \subseteq other.rx /\ seen.split \subseteq other.split
  PROVE  Truthful(d, lines, other)
  <1>1. CASE d.active.field = "rx" /\ d.payload = <<>> /\ Quiet(lines)
    <2>1. \A i \in 1..Len(lines) : lines[i].result # "none"
      BY <1>1 DEF Quiet, Carries
    <2>2. \A i \in 1..Len(d.payload) : FALSE
      BY <1>1
    <2>3. Witnessed(d, lines, other)
      BY <1>1, <2>1, <2>2 DEF Witnessed
    <2>4. QED BY <2>3 DEF Truthful
  <1>2. CASE seen.rx \subseteq other.rx /\ seen.split \subseteq other.split
    <2>1. \A line : Relayed(line, seen) => Relayed(line, other)
      BY <1>2 DEF Relayed
    <2>2. Witnessed(d, lines, other)
      BY <1>2, <2>1 DEF Truthful, Witnessed
    <2>3. QED BY <2>2 DEF Truthful
  <1>3. QED BY <1>1, <1>2

(* What goes out is the next read of the poll, in the order of the five.   *)
LEMMA SendNextIsTruthful ==
  ASSUME NEW d, HamlibFormed(d), d.socket = "connected", NEW lines, Rested(d, lines),
         NEW n \in 0..5, ReadsWait(d.queue, n), Sorted(d.queue, n), n > 0 => d.remaining = n,
         NEW seen, n \in 1..4 => d.pending.rx.val \in seen.rx,
         NEW e, e = SendNext(d)
  PROVE  /\ Truthful(e, lines, seen) /\ e.socket = "connected" /\ e.payload = <<>> /\ Quiet(lines)
         /\ e.state = d.state
  <1>1. CASE d.queue = <<>>
    <2>1. e = d
      BY <1>1, SendNextWaits
    <2>2. QED BY <2>1, RestedIsTruthful DEF Rested
  <1>2. CASE d.queue # <<>>
    <2>1. d.queue \in Seq(Requests) /\ d.active = Idle
      BY DEF HamlibFormed, Rested
    <2>2. e = [d EXCEPT !.active = Head(d.queue), !.payload = <<>>, !.queue = Tail(d.queue),
                        !.request = TRUE, !.wire = Append(@, Head(d.queue))]
      BY <1>2, <2>1 DEF SendNext
    <2>3. /\ Head(d.queue) \in Requests /\ Head(d.queue) = d.queue[1]
          /\ Len(d.queue) \in Nat /\ Len(d.queue) >= 1 /\ Len(Tail(d.queue)) = Len(d.queue) - 1
          /\ \A i \in 1..Len(d.queue) - 1 : Tail(d.queue)[i] = d.queue[i + 1]
      BY <1>2, <2>1, HeadTailProperties
    <2>4. /\ e.socket = "connected" /\ e.active = d.queue[1] /\ e.queue = Tail(d.queue)
          /\ e.state = d.state /\ e.payload = <<>> /\ e.remaining = d.remaining
          /\ e.pending = d.pending /\ e.wire = Append(d.wire, d.queue[1])
      BY <2>2, <2>3 DEF HamlibFormed
    <2>5. /\ d.wire \in Seq(Requests) /\ \A i \in 1..Len(d.wire) : d.wire[i].field = "write"
          /\ lines \in Seq(Lines) /\ Quiet(lines) /\ Noted(d.pending)
      BY DEF Rested
    <2>6. /\ Append(d.wire, d.queue[1]) \in Seq(Requests)
          /\ Len(Append(d.wire, d.queue[1])) = Len(d.wire) + 1 /\ Len(d.wire) \in Nat
          /\ \A i \in 1..Len(d.wire) : Append(d.wire, d.queue[1])[i] = d.wire[i]
          /\ Append(d.wire, d.queue[1])[Len(d.wire) + 1] = d.queue[1]
      BY <2>3, <2>5, AppendProperties
    <2>7. LastIsRead(e)
      BY <2>4, <2>5, <2>6 DEF LastIsRead
    <2>8. <<>> \in Seq(Lines)
      OBVIOUS
    <2>9. Conveyed(e, lines)
      BY <2>4, <2>5, <2>6, <2>7, <2>8, QuietIsAnswered DEF Conveyed
    <2>10. /\ \A i \in 1..Len(d.queue) : d.queue[i].field \in PolledFields <=> i <= n
           /\ n <= Len(d.queue)
      BY DEF ReadsWait
    <2>11. e.active.field \in PolledFields <=> n >= 1
      BY <2>3, <2>4, <2>10
    <2>12. PollInOrder(e)
      <3>1. SUFFICES ASSUME n >= 1 PROVE PollInOrder(e)
        BY <2>11 DEF PollInOrder
      <3>2. d.remaining = n /\ n \in 1..5
        BY <3>1
      <3>3. e.active.field = PollFields[6 - n]
        BY <2>4, <3>2 DEF Sorted
      <3>4. ASSUME NEW i \in 1..n - 1
            PROVE  Tail(d.queue)[i].field = PollFields[5 - (n - 1) + i]
        <4>1. i \in 1..Len(d.queue) - 1 /\ i + 1 \in 1..n /\ 5 - n + (i + 1) = 5 - (n - 1) + i
          BY <2>3, <2>10, <3>2
        <4>2. d.queue[i + 1].field = PollFields[5 - n + (i + 1)]
          BY <4>1 DEF Sorted
        <4>3. QED BY <2>3, <4>1, <4>2
      <3>5. QED BY <2>4, <3>2, <3>3, <3>4 DEF PollInOrder, Sorted
    <2>13. Witnessed(e, lines, seen)
      <3>1. SUFFICES ASSUME e.active.field \in PolledFields PROVE Witnessed(e, lines, seen)
        BY DEF Witnessed
      <3>2. \A i \in 1..Len(lines) : lines[i].result # "none"
        BY <2>5 DEF Quiet, Carries
      <3>3. n = 5 => e.active.field = "rx"
        BY <2>4 DEF Sorted, PollFields
      <3>4. e.active.field # "rx" => e.pending.rx.val \in seen.rx
        BY <2>4, <2>11, <3>1, <3>3
      <3>5. \A i \in 1..Len(e.payload) : FALSE
        BY <2>4
      <3>6. QED BY <3>2, <3>4, <3>5 DEF Witnessed
    <2>14. QED BY <2>4, <2>5, <2>9, <2>12, <2>13 DEF Truthful
  <1>3. QED BY <1>1, <1>2

(* A poll begins with nothing known of the radio, and its reads in order.  *)
LEMMA BeginPollIsTruthful ==
  ASSUME NEW d, HamlibFormed(d), d.socket = "connected", NEW lines, Rested(d, lines),
         d.queue = <<>>, NEW seen, NEW e, e = BeginPoll(d)
  PROVE  /\ Truthful(e, lines, seen) /\ e.socket = "connected" /\ e.payload = <<>> /\ Quiet(lines)
         /\ e.state = d.state
  <1>1. PICK pending : pending = [Blank(Unknown) EXCEPT
             !.avail = Known, !.rxVfo = Read("A"), !.txVfo = Read("B"),
             !.caps = Read(IF d.writable THEN Capabilities \ {"SelectRxVfo", "SelectTxVfo"} ELSE {})]
    OBVIOUS
  <1>2. PICK queue : queue = [i \in 1..PollLength |-> Reading(PollFields[i], d.session)]
    OBVIOUS
  <1>3. PICK f : f = [d EXCEPT !.pending = pending, !.remaining = PollLength, !.queue = queue]
    OBVIOUS
  <1>4. e = SendNext(f)
    BY <1>1, <1>2, <1>3 DEF BeginPoll, Rested
  <1>5. d.session \in Sessions
    BY DEF HamlibFormed
  <1>6. queue \in Seq(Requests) /\ PollLength = 5 /\ ReadsWait(queue, 5)
    BY <1>2, <1>5, PollIsReads
  <1>7. Sorted(queue, 5)
    <2>1. \A i \in 1..5 : queue[i] = Reading(PollFields[i], d.session)
      BY <1>2, <1>6
    <2>2. \A i \in 1..5 : 5 - 5 + i = i
      OBVIOUS
    <2>3. QED BY <2>1, <2>2 DEF Sorted, Reading
  <1>8. HamlibFormed(f)
    <2>1. queue \in Seq(Requests) /\ PollLength \in Int
      BY <1>6
    <2>2. QED BY <1>3, <2>1 DEF HamlibFormed
  <1>9. /\ f.socket = "connected" /\ f.active = d.active /\ f.queue = queue /\ f.remaining = 5
        /\ f.state = d.state /\ f.payload = d.payload /\ f.wire = d.wire /\ f.pending = pending
    BY <1>3, <1>6 DEF HamlibFormed
  <1>10. Noted(pending)
    BY <1>1 DEF Blank, Noted
  <1>11. Rested(f, lines)
    BY <1>9, <1>10 DEF Rested
  <1>12. 5 \in 0..5 /\ 5 \notin 1..4
    OBVIOUS
  <1>13. ReadsWait(f.queue, 5) /\ Sorted(f.queue, 5) /\ f.remaining = 5 /\ f.socket = "connected"
    BY <1>6, <1>7, <1>9
  <1>14. /\ Truthful(e, lines, seen) /\ e.socket = "connected" /\ e.payload = <<>> /\ Quiet(lines)
         /\ e.state = f.state
    BY <1>4, <1>8, <1>11, <1>12, <1>13, SendNextIsTruthful
  <1>15. QED BY <1>9, <1>14

(* What an answer changes of what is known, and what it leaves.            *)
LEMMA ReadIsNoted ==
  ASSUME NEW p, Noted(p), NEW field \in PolledFields, NEW radio, NEW q, q = Observed(p, field, radio)
  PROVE  /\ Noted(q)
         /\ field = "rx" => q.rx = Read(radio.rx)
         /\ field # "rx" => q.rx = p.rx
         /\ field = "split" => q.split = Read(IF radio.split THEN "Enabled" ELSE "Disabled")
  <1>1. CASE field = "rx"
    BY <1>1 DEF Observed, Noted
  <1>2. CASE field = "tx"
    BY <1>2 DEF Observed, Noted
  <1>3. CASE field \in {"rxMode", "txMode"}
    BY <1>3 DEF Observed, Noted
  <1>4. CASE field = "split"
    BY <1>4 DEF Observed, Noted
  <1>5. QED BY <1>1, <1>2, <1>3, <1>4 DEF PolledFields

(* The fifth read is the one of the split state, and what is published     *)
(* with it was read by the four before it.                                 *)
LEMMA CompleteReadIsTruthful ==
  ASSUME NEW d, HamlibFormed(d), d.socket = "connected", d.reconnect => ~d.operator,
         NEW lines, Rested(d, lines),
         d.remaining \in 1..5, ReadsWait(d.queue, d.remaining - 1), Sorted(d.queue, d.remaining - 1),
         NEW field \in PolledFields, field = PollFields[6 - d.remaining],
         NEW payload, NEW seen, Relayed(payload[1], seen), field # "rx" => d.pending.rx.val \in seen.rx,
         NEW e, e = CompleteRead(d, field, payload)
  PROVE  /\ \/ Closed(e)
            \/ Truthful(e, lines, seen) /\ e.socket = "connected" /\ e.payload = <<>> /\ Quiet(lines)
         /\ e.state = d.state \/ e.state.avail # Known \/ Published(e.state, seen)
  <1>1. PICK pending : pending = Observed(d.pending, field, payload[1].panel)
    OBVIOUS
  <1>2. PICK f : f = [d EXCEPT !.pending = pending, !.remaining = @ - 1]
    OBVIOUS
  <1>3. PICK n \in 0..4 : n = d.remaining - 1
    OBVIOUS
  <1>4. HamlibFormed(f)
    <2>1. d.remaining - 1 \in Int
      BY <1>3
    <2>2. QED BY <1>2, <2>1 DEF HamlibFormed
  <1>5. /\ f.socket = "connected" /\ f.active = d.active /\ f.queue = d.queue
        /\ f.remaining = n /\ f.pending = pending /\ f.wire = d.wire /\ f.payload = d.payload
        /\ f.state = d.state /\ f.reconnect = d.reconnect /\ f.operator = d.operator
    BY <1>2, <1>3 DEF HamlibFormed
  <1>6. e = SendNext(IF f.remaining = 0 THEN PublishPoll(f) ELSE f)
    BY <1>1, <1>2 DEF CompleteRead
  <1>7. /\ Noted(pending)
        /\ field = "rx" => pending.rx = Read(payload[1].panel.rx)
        /\ field # "rx" => pending.rx = d.pending.rx
        /\ field = "split" =>
             pending.split = Read(IF payload[1].panel.split THEN "Enabled" ELSE "Disabled")
    BY <1>1, ReadIsNoted DEF Rested
  <1>8. pending.rx.val \in seen.rx
    BY <1>7 DEF Relayed, Read
  <1>9. Rested(f, lines)
    BY <1>5, <1>7 DEF Rested
  <1>10. ReadsWait(f.queue, n) /\ Sorted(f.queue, n) /\ n \in 0..5
    BY <1>3, <1>5
  <1>11. CASE n # 0
    BY <1>4, <1>5, <1>6, <1>8, <1>9, <1>10, <1>11, SendNextIsTruthful
  <1>12. CASE n = 0 /\ RadioStateIsValid(f.pending)
    <2>1. PICK g : g = [f EXCEPT !.state = f.pending, !.poll = TRUE]
      OBVIOUS
    <2>2. e = SendNext(g)
      BY <1>5, <1>6, <1>12, <2>1 DEF PublishPoll
    <2>3. HamlibFormed(g)
      BY <1>4, <2>1 DEF HamlibFormed
    <2>4. /\ g.socket = "connected" /\ g.active = f.active /\ g.queue = f.queue
          /\ g.state = pending /\ g.pending = pending /\ g.wire = f.wire /\ g.payload = f.payload
      BY <1>4, <1>5, <2>1 DEF HamlibFormed
    <2>5. Rested(g, lines)
      BY <1>5, <1>9, <2>4 DEF Rested
    <2>6. field = "split"
      BY <1>3, <1>12 DEF PollFields
    <2>7. Published(pending, seen)
      BY <1>7, <1>8, <2>6 DEF Published, Relayed
    <2>8. 0 \in 0..5 /\ 0 \notin 1..4 /\ ~(0 > 0)
      OBVIOUS
    <2>9. ReadsWait(g.queue, 0) /\ Sorted(g.queue, 0)
      BY <1>10, <1>12, <2>4
    <2>10. /\ Truthful(e, lines, seen) /\ e.socket = "connected" /\ e.payload = <<>> /\ Quiet(lines)
           /\ e.state = g.state
      BY <2>2, <2>3, <2>4, <2>5, <2>8, <2>9, SendNextIsTruthful
    <2>11. QED BY <2>4, <2>7, <2>10
  <1>13. CASE n = 0 /\ ~RadioStateIsValid(f.pending)
    <2>1. PICK g : g = FailProtocol(f)
      OBVIOUS
    <2>2. HungUp(g) /\ g.pending = pending
      BY <1>4, <1>5, <2>1, FailureHangsUp
    <2>3. e = g
      BY <1>5, <1>6, <1>13, <2>1, <2>2, SendNextWaits DEF PublishPoll, HungUp
    <2>4. QED BY <1>7, <2>2, <2>3, HungUpIsClosed
  <1>14. QED BY <1>11, <1>12, <1>13

(* An answer that is wrong ends the connection, whatever it was to.        *)
LEMMA WrongAnswerCloses ==
  ASSUME NEW d, HamlibFormed(d), d.reconnect => ~d.operator, Noted(d.pending),
         NEW result, result # "ok" \/ ~PayloadIsValid(d.active.field, d.payload),
         NEW e, e = CompleteRequest(d, result)
  PROVE  Closed(e) /\ e.state.avail # Known
  <1>1. PICK f : f = [d EXCEPT !.request = FALSE, !.active = Idle, !.payload = <<>>]
    OBVIOUS
  <1>2. HamlibFormed(f)
    BY <1>1 DEF HamlibFormed
  <1>3. f.pending = d.pending /\ f.reconnect = d.reconnect /\ f.operator = d.operator
    BY <1>1 DEF HamlibFormed
  <1>4. e = FailProtocol(f)
    BY <1>1 DEF CompleteRequest
  <1>5. QED BY <1>2, <1>3, <1>4, FailureHangsUp, HungUpIsClosed

(* A request is answered when nothing more of its answer is on its way.    *)
LEMMA CompleteRequestIsTruthful ==
  ASSUME NEW d, Steady(d), d.active # Idle, PollInOrder(d), Noted(d.pending),
         NEW lines, lines \in Seq(Lines), Quiet(lines),
         d.wire \in Seq(Requests), \A i \in 1..Len(d.wire) : d.wire[i].field = "write",
         d.payload \in Seq(Lines), NEW seen, Witnessed(d, lines, seen),
         NEW result, NEW e, e = CompleteRequest(d, result)
  PROVE  GoesOn(d, e, lines, seen)
  <1>1. PICK f : f = [d EXCEPT !.request = FALSE, !.active = Idle, !.payload = <<>>]
    OBVIOUS
  <1>2. /\ HamlibFormed(d) /\ d.active \in Requests /\ d.socket = "connected"
        /\ (d.reconnect => ~d.operator)
    BY DEF Steady, Talking, HamlibFormed
  <1>3. HamlibFormed(f)
    BY <1>1, <1>2 DEF HamlibFormed
  <1>4. /\ f.socket = "connected" /\ f.active = Idle /\ f.queue = d.queue /\ f.payload = <<>>
        /\ f.wire = d.wire /\ f.pending = d.pending /\ f.remaining = d.remaining
        /\ f.state = d.state /\ f.reconnect = d.reconnect /\ f.operator = d.operator
    BY <1>1, <1>2 DEF HamlibFormed
  <1>5. Rested(f, lines)
    BY <1>4 DEF Rested
  <1>6. SUFFICES ASSUME ~(result # "ok" \/ ~PayloadIsValid(d.active.field, d.payload))
                 PROVE  GoesOn(d, e, lines, seen)
    BY <1>2, WrongAnswerCloses DEF GoesOn
  <1>7. e = (IF d.active.field = "vfoMode" THEN SendNext(BeginPoll(f))
             ELSE IF d.active.field = "write" THEN AfterWrite(SendNext(f))
             ELSE CompleteRead(f, d.active.field, d.payload))
    BY <1>1, <1>6 DEF CompleteRequest
  <1>8. d.active.field \in PolledFields \cup {"vfoMode", "write"}
    BY <1>2 DEF Requests
  <1>9. /\ 0 \in 0..5 /\ 0 \notin 1..4 /\ ~(0 > 0)
        /\ Sorted(f.queue, 0)
    BY DEF Sorted
  <1>10. CASE d.active.field = "vfoMode"
    <2>1. CASE f.queue = <<>>
      <3>1. PICK g : g = BeginPoll(f)
        OBVIOUS
      <3>2. Steady(g) /\ g.active # Idle
        BY <1>2, <1>3, <1>4, <2>1, <3>1, BeginPollIsSteady DEF Steady, Talking
      <3>3. e = g
        BY <1>7, <1>10, <3>1, <3>2, SendNextWaits
      <3>4. /\ Truthful(e, lines, seen) /\ e.socket = "connected" /\ e.payload = <<>>
            /\ e.state = f.state
        BY <1>3, <1>4, <1>5, <2>1, <3>1, <3>3, BeginPollIsTruthful
      <3>5. QED BY <1>2, <1>4, <3>4 DEF GoesOn
    <2>2. CASE f.queue # <<>>
      <3>1. e = SendNext(f)
        BY <1>7, <1>10, <2>2 DEF BeginPoll
      <3>2. ReadsWait(f.queue, 0)
        BY <1>4, <1>10 DEF Steady, Polling, PolledFields
      <3>3. /\ Truthful(e, lines, seen) /\ e.socket = "connected" /\ e.payload = <<>>
            /\ e.state = f.state
        BY <1>3, <1>4, <1>5, <1>9, <3>1, <3>2, SendNextIsTruthful
      <3>4. QED BY <1>2, <1>4, <3>3 DEF GoesOn
    <2>3. QED BY <2>1, <2>2
  <1>11. CASE d.active.field = "write"
    <2>1. e = AfterWrite(SendNext(f))
      BY <1>7, <1>11
    <2>2. ReadsWait(f.queue, 0)
      BY <1>4, <1>11 DEF Steady, Polling, PolledFields
    <2>3. PICK g : g = SendNext(f)
      OBVIOUS
    <2>4. /\ Truthful(g, lines, seen) /\ g.socket = "connected" /\ g.payload = <<>> /\ g.state = f.state
      BY <1>3, <1>4, <1>5, <1>9, <2>2, <2>3, SendNextIsTruthful
    <2>5. CASE g.active = Idle /\ g.queue = <<>>
      <3>1. g = f
        <4>1. CASE f.queue = <<>>
          BY <2>3, <4>1, SendNextWaits
        <4>2. CASE f.queue # <<>>
          <5>1. g.active = Head(f.queue) /\ Head(f.queue) \in Requests
            BY <1>3, <1>4, <2>3, <4>2, HeadTailProperties DEF SendNext, HamlibFormed
          <5>2. QED BY <2>5, <5>1, RequestKinds
        <4>3. QED BY <4>1, <4>2
      <3>2. e = [f EXCEPT !.poll = TRUE]
        BY <2>1, <2>3, <2>5, <3>1 DEF AfterWrite
      <3>3. /\ e.socket = f.socket /\ e.wire = f.wire /\ e.active = f.active /\ e.queue = f.queue
            /\ e.payload = f.payload /\ e.pending = f.pending /\ e.remaining = f.remaining
            /\ e.state = f.state
        BY <1>3, <3>2 DEF HamlibFormed
      <3>4. Truthful(e, lines, seen)
        BY <2>4, <3>1, <3>3, SameTruth
      <3>5. QED BY <1>2, <1>4, <3>3, <3>4 DEF GoesOn
    <2>6. CASE ~(g.active = Idle /\ g.queue = <<>>)
      <3>1. e = g
        BY <2>1, <2>3, <2>6 DEF AfterWrite
      <3>2. QED BY <1>2, <1>4, <2>4, <3>1 DEF GoesOn
    <2>7. QED BY <2>5, <2>6
  <1>12. CASE d.active.field \in PolledFields
    <2>1. e = CompleteRead(f, d.active.field, d.payload)
      BY <1>7, <1>12 DEF PolledFields
    <2>2. /\ f.remaining \in 1..5 /\ d.active.field = PollFields[6 - f.remaining]
          /\ Sorted(f.queue, f.remaining - 1) /\ ReadsWait(f.queue, f.remaining - 1)
      BY <1>4, <1>12 DEF PollInOrder, Steady, Polling
    <2>3. Len(d.payload) >= 1
      <3>1. Len(d.payload) \in Nat /\ (d.payload # <<>> => Len(d.payload) >= 1)
        BY EmptySeq
      <3>2. CASE d.active.field \in {"rxMode", "txMode"}
        BY <1>6, <3>1, <3>2 DEF PayloadIsValid
      <3>3. CASE d.active.field \notin {"rxMode", "txMode"}
        BY <1>6, <1>12, <3>3 DEF PayloadIsValid, PayloadLines, PolledFields
      <3>4. QED BY <3>2, <3>3
    <2>4. 1 \in 1..Len(d.payload)
      BY <2>3
    <2>5. Relayed(d.payload[1], seen) /\ (d.active.field # "rx" => f.pending.rx.val \in seen.rx)
      BY <1>4, <1>12, <2>4 DEF Witnessed
    <2>6. /\ \/ Closed(e)
             \/ Truthful(e, lines, seen) /\ e.socket = "connected" /\ e.payload = <<>> /\ Quiet(lines)
          /\ e.state = f.state \/ e.state.avail # Known \/ Published(e.state, seen)
      BY <1>2, <1>3, <1>4, <1>5, <1>12, <2>1, <2>2, <2>5, CompleteReadIsTruthful
    <2>7. QED BY <1>2, <1>4, <2>6 DEF GoesOn
  <1>13. QED BY <1>8, <1>10, <1>11, <1>12

(* A line that is read: of the answer, which then lacks one line fewer, or *)
(* a result; and a result that comes for a read ends the connection.       *)
LEMMA ConsumeLineIsTruthful ==
  ASSUME NEW d, Steady(d), NEW lines, NEW seen, Truthful(d, lines, seen), lines # <<>>,
         NEW e, e = ConsumeLine(d, Head(lines))
  PROVE  GoesOn(d, e, Tail(lines), seen)
  <1>1. PICK line : line = Head(lines)
    OBVIOUS
  <1>2. /\ HamlibFormed(d) /\ (d.reconnect => ~d.operator) /\ Noted(d.pending)
        /\ d.payload \in Seq(Lines) /\ d.wire \in Seq(Requests) /\ lines \in Seq(Lines)
        /\ LastIsRead(d) /\ PollInOrder(d) /\ Witnessed(d, lines, seen)
    BY DEF Steady, Talking, Truthful, Conveyed
  <1>3. /\ line \in Lines /\ line = lines[1] /\ Tail(lines) \in Seq(Lines)
        /\ Len(lines) \in Nat /\ Len(lines) >= 1 /\ Len(Tail(lines)) = Len(lines) - 1
        /\ \A i \in 1..Len(lines) - 1 : Tail(lines)[i] = lines[i + 1]
    BY <1>1, <1>2, HeadTailProperties
  <1>4. PICK first, n \in 0..Len(lines) : first + n <= Len(lines) /\ Answering(d, lines, first, n)
    BY DEF Truthful, Conveyed
  <1>5. \A i \in 1..Len(lines) : lines[i].result = "none" <=> i \in first + 1..first + n
    BY <1>4 DEF Answering, Carries
  <1>6. line.result = "none" <=> 1 \in first + 1..first + n
    BY <1>3, <1>5
  <1>7. \A i \in 1..Len(Tail(lines)) :
          Tail(lines)[i].result = "none" <=> i + 1 \in first + 1..first + n
    BY <1>3, <1>5
  <1>8. d.socket = "connected" \/ d.active = Idle
    BY DEF Steady, Talking
  <1>9. CASE d.active = Idle \/ (line.result = "none" /\ d.active.field = "write")
    <2>1. e = FailProtocol(d)
      BY <1>1, <1>9 DEF ConsumeLine
    <2>2. QED BY <1>2, <2>1, FailureHangsUp, HungUpIsClosed DEF GoesOn
  <1>10. CASE d.active # Idle /\ line.result # "none"
    <2>1. e = CompleteRequest(d, line.result)
      BY <1>1, <1>10 DEF ConsumeLine
    <2>2. d.active.field \in PolledFields \cup {"vfoMode", "write"}
      BY <1>2, <1>10 DEF HamlibFormed, Requests
    <2>3. d.payload = <<>>
      <3>1. CASE n = 0
        BY <1>4, <3>1 DEF Answering
      <3>2. CASE n > 0 /\ d.payload # <<>>
        <4>1. first = 0
          BY <1>4, <3>2 DEF Answering
        <4>2. QED BY <1>6, <1>10, <3>2, <4>1
      <3>3. QED BY <3>1, <3>2
    <2>4. CASE d.active.field = "write"
      <3>1. n = 0
        BY <1>4, <2>4 DEF Answering
      <3>2. Quiet(Tail(lines))
        <4>1. \A i \in 1..Len(Tail(lines)) : i + 1 \notin first + 1..first + n
          BY <1>4, <3>1
        <4>2. QED BY <1>7, <4>1 DEF Quiet, Carries
      <3>3. \A i \in 1..Len(d.wire) : d.wire[i].field = "write"
        BY <1>2, <2>4 DEF LastIsRead
      <3>4. d.active.field \notin PolledFields
        BY <2>4 DEF PolledFields
      <3>5. Witnessed(d, Tail(lines), seen)
        BY <3>4 DEF Witnessed
      <3>6. QED BY <1>2, <1>3, <1>10, <2>1, <3>2, <3>3, <3>5, CompleteRequestIsTruthful
    <2>5. CASE d.active.field # "write"
      <3>1. PayloadLines(d.active.field) # 0
        BY <2>2, <2>5 DEF PayloadLines, PolledFields
      <3>2. ~PayloadIsValid(d.active.field, d.payload)
        BY <2>2, <2>3, <2>5, <3>1 DEF PayloadIsValid
      <3>3. QED BY <1>2, <2>1, <3>2, WrongAnswerCloses DEF GoesOn
    <2>6. QED BY <2>4, <2>5
  <1>11. CASE d.active # Idle /\ line.result = "none" /\ d.active.field # "write"
    <2>1. PICK f : f = [d EXCEPT !.payload = Append(@, line)]
      OBVIOUS
    <2>2. HamlibFormed(f)
      BY <1>2, <2>1 DEF HamlibFormed
    <2>3. /\ f.socket = d.socket /\ f.active = d.active /\ f.queue = d.queue /\ f.request = d.request
          /\ f.remaining = d.remaining /\ f.poll = d.poll /\ f.wire = d.wire /\ f.pending = d.pending
          /\ f.state = d.state /\ f.reconnect = d.reconnect /\ f.operator = d.operator
          /\ f.session = d.session /\ f.payload = Append(d.payload, line)
      BY <1>2, <2>1 DEF HamlibFormed
    <2>4. /\ f.payload \in Seq(Lines) /\ Len(f.payload) = Len(d.payload) + 1 /\ Len(d.payload) \in Nat
          /\ \A i \in 1..Len(d.payload) : f.payload[i] = d.payload[i]
          /\ f.payload[Len(d.payload) + 1] = line
      BY <1>2, <1>3, <2>3, AppendProperties
    <2>5. Steady(f)
      <3>1. Talking(f) /\ Polling(f)
        BY <2>3 DEF Steady, Talking, Polling
      <3>2. QED BY <2>2, <3>1 DEF Steady
    <2>6. PollInOrder(f) /\ LastIsRead(f)
      BY <1>2, <2>3 DEF PollInOrder, LastIsRead
    <2>7. first = 0 /\ n > 0
      BY <1>4, <1>6, <1>11
    <2>8. /\ n + Len(d.payload) = PayloadLines(d.active.field) /\ d.active.field \notin {"write", "none"}
          /\ \A i \in 1..Len(d.wire) : d.wire[i].field = "write"
      BY <1>4, <2>7 DEF Answering
    <2>9. Witnessed(f, Tail(lines), seen)
      <3>1. SUFFICES ASSUME d.active.field \in PolledFields PROVE Witnessed(f, Tail(lines), seen)
        BY <2>3 DEF Witnessed
      <3>2. /\ \A i \in 1..Len(lines) : lines[i].result = "none" => Relayed(lines[i], seen)
            /\ \A i \in 1..Len(d.payload) : Relayed(d.payload[i], seen)
            /\ d.active.field # "rx" => d.pending.rx.val \in seen.rx
        BY <1>2, <3>1 DEF Witnessed
      <3>3. Relayed(line, seen)
        BY <1>3, <1>11, <3>2
      <3>4. \A i \in 1..Len(f.payload) : Relayed(f.payload[i], seen)
        BY <2>4, <3>2, <3>3
      <3>5. \A i \in 1..Len(Tail(lines)) : Tail(lines)[i].result = "none" => Relayed(Tail(lines)[i], seen)
        BY <1>3, <3>2
      <3>6. QED BY <2>3, <3>2, <3>4, <3>5 DEF Witnessed
    <2>10. e = (IF Len(f.payload) = PayloadLines(d.active.field) THEN CompleteRequest(f, "ok") ELSE f)
      BY <1>1, <1>11, <2>1 DEF ConsumeLine
    <2>11. CASE n = 1
      <3>1. e = CompleteRequest(f, "ok")
        BY <2>4, <2>8, <2>10, <2>11
      <3>2. Quiet(Tail(lines))
        <4>1. \A i \in 1..Len(Tail(lines)) : i + 1 \notin first + 1..first + n
          BY <2>7, <2>11
        <4>2. QED BY <1>7, <4>1 DEF Quiet, Carries
      <3>3. GoesOn(f, e, Tail(lines), seen)
        BY <1>2, <1>3, <1>11, <2>3, <2>4, <2>5, <2>6, <2>8, <2>9, <3>1, <3>2, CompleteRequestIsTruthful
      <3>4. QED BY <2>3, <3>3 DEF GoesOn
    <2>12. CASE n # 1
      <3>1. e = f
        BY <2>4, <2>7, <2>8, <2>10, <2>12
      <3>2. /\ n - 1 \in 0..Len(Tail(lines)) /\ n - 1 > 0 /\ 0 \in 0..Len(Tail(lines))
            /\ 0 + (n - 1) <= Len(Tail(lines))
        BY <1>3, <1>4, <2>7, <2>12
      <3>3. Carries(Tail(lines), 0, n - 1)
        <4>1. \A i \in 1..Len(Tail(lines)) : i + 1 \in first + 1..first + n <=> i \in 0 + 1..0 + (n - 1)
          BY <1>3, <1>4, <2>7
        <4>2. QED BY <1>7, <4>1 DEF Carries
      <3>4. Answering(f, Tail(lines), 0, n - 1)
        BY <2>3, <2>4, <2>8, <3>2, <3>3 DEF Answering
      <3>5. Conveyed(f, Tail(lines))
        BY <1>2, <1>3, <1>8, <1>11, <2>3, <2>4, <2>6, <3>2, <3>4 DEF Conveyed
      <3>6. Truthful(f, Tail(lines), seen)
        BY <2>6, <2>9, <3>5 DEF Truthful
      <3>7. QED BY <1>8, <1>11, <2>3, <3>1, <3>6 DEF GoesOn
    <2>13. QED BY <2>11, <2>12
  <1>12. QED BY <1>9, <1>10, <1>11

(* A request that is no read of a poll goes behind what waits.             *)
LEMMA QueueIsTruthful ==
  ASSUME NEW d, HamlibFormed(d), d.socket = "connected", Polling(d), d.active = Idle => d.queue = <<>>,
         NEW lines, NEW seen, Truthful(d, lines, seen),
         NEW request \in Requests, request.field \notin PolledFields,
         NEW e, e = Queue(d, request)
  PROVE  GoesOn(d, e, lines, seen) /\ e.state = d.state
  <1>1. PICK f : f = [d EXCEPT !.queue = Append(@, request)]
    OBVIOUS
  <1>2. d.queue \in Seq(Requests)
    BY DEF HamlibFormed
  <1>3. /\ Append(d.queue, request) \in Seq(Requests)
        /\ Len(Append(d.queue, request)) = Len(d.queue) + 1 /\ Len(d.queue) \in Nat
        /\ Append(d.queue, request)[Len(d.queue) + 1] = request
        /\ \A i \in 1..Len(d.queue) : Append(d.queue, request)[i] = d.queue[i]
    BY <1>2, AppendProperties
  <1>4. HamlibFormed(f)
    BY <1>1, <1>3 DEF HamlibFormed
  <1>5. /\ f.socket = "connected" /\ f.active = d.active /\ f.queue = Append(d.queue, request)
        /\ f.state = d.state /\ f.payload = d.payload /\ f.wire = d.wire /\ f.pending = d.pending
        /\ f.remaining = d.remaining
    BY <1>1 DEF HamlibFormed
  <1>6. e = SendNext(f)
    BY <1>1 DEF Queue
  <1>7. CASE d.active = Idle
    <2>1. Rested(f, lines)
      BY <1>5, <1>7, IdleIsRested DEF Rested
    <2>2. d.active.field \notin PolledFields
      BY <1>7, RequestKinds DEF PolledFields
    <2>3. ReadsWait(f.queue, 0) /\ Sorted(f.queue, 0)
      BY <1>3, <1>5, <2>2 DEF Polling, ReadsWait, Sorted
    <2>4. 0 \in 0..5 /\ 0 \notin 1..4 /\ ~(0 > 0)
      OBVIOUS
    <2>5. /\ Truthful(e, lines, seen) /\ e.socket = "connected" /\ e.payload = <<>> /\ Quiet(lines)
          /\ e.state = f.state
      BY <1>4, <1>5, <1>6, <2>1, <2>3, <2>4, SendNextIsTruthful
    <2>6. QED BY <1>5, <2>5 DEF GoesOn
  <1>8. CASE d.active # Idle
    <2>1. e = f
      BY <1>5, <1>6, <1>8, SendNextWaits
    <2>2. PollInOrder(f)
      <3>1. SUFFICES ASSUME d.active.field \in PolledFields PROVE PollInOrder(f)
        BY <1>5 DEF PollInOrder
      <3>2. /\ d.remaining \in 1..5 /\ d.active.field = PollFields[6 - d.remaining]
            /\ Sorted(d.queue, d.remaining - 1)
        BY <3>1 DEF Truthful, PollInOrder
      <3>3. d.remaining - 1 <= Len(d.queue)
        BY <3>1 DEF Polling, ReadsWait
      <3>4. \A i \in 1..d.remaining - 1 : f.queue[i] = d.queue[i]
        BY <1>3, <1>5, <3>2, <3>3
      <3>5. Sorted(f.queue, d.remaining - 1)
        BY <3>2, <3>4 DEF Sorted
      <3>6. QED BY <1>5, <3>2, <3>5 DEF PollInOrder
    <2>3. Witnessed(f, lines, seen) /\ LastIsRead(f)
      BY <1>5 DEF Truthful, Conveyed, Witnessed, LastIsRead
    <2>4. \A first, n : Answering(d, lines, first, n) <=> Answering(f, lines, first, n)
      BY <1>5 DEF Answering
    <2>5. Conveyed(f, lines)
      BY <1>5, <2>3, <2>4 DEF Truthful, Conveyed
    <2>6. QED BY <1>5, <2>1, <2>2, <2>3, <2>5 DEF Truthful, GoesOn
  <1>9. QED BY <1>7, <1>8

(* A client that a slot leaves as it was, but for its timers.              *)
LEMMA LeftAlone ==
  ASSUME NEW d, Steady(d), NEW lines, NEW seen, Truthful(d, lines, seen),
         NEW e, e.socket = d.socket, e.wire = d.wire, e.active = d.active, e.queue = d.queue,
         e.payload = d.payload, e.pending = d.pending, e.remaining = d.remaining, e.state = d.state
  PROVE  GoesOn(d, e, lines, seen)
  <1>1. Truthful(e, lines, seen)
    BY SameTruth
  <1>2. CASE d.socket = "connected"
    BY <1>1, <1>2 DEF GoesOn
  <1>3. CASE d.socket # "connected"
    <2>1. d.active = Idle
      BY <1>3 DEF Steady, Talking
    <2>2. Rested(d, lines) /\ d.wire = <<>>
      BY <1>3, <2>1, IdleIsRested DEF Truthful, Conveyed
    <2>3. Closed(e)
      BY <1>3, <2>2 DEF Rested, Closed
    <2>4. QED BY <2>3 DEF GoesOn
  <1>4. QED BY <1>2, <1>3

LEMMA QueueWriteIsTruthful ==
  ASSUME NEW d, Steady(d), NEW lines, NEW seen, Truthful(d, lines, seen),
         NEW command \in HamlibCommands, NEW e, e = QueueWrite(d, command)
  PROVE  GoesOn(d, e, lines, seen)
  <1>1. CASE ~WriteAccepted(d, command)
    BY <1>1, LeftAlone DEF QueueWrite
  <1>2. CASE WriteAccepted(d, command)
    <2>1. PICK f : f = [d EXCEPT !.poll = FALSE]
      OBVIOUS
    <2>2. HamlibFormed(d) /\ d.session \in Sessions
      BY DEF Steady, HamlibFormed
    <2>3. HamlibFormed(f)
      BY <2>1, <2>2 DEF HamlibFormed
    <2>4. /\ f.socket = d.socket /\ f.active = d.active /\ f.queue = d.queue /\ f.wire = d.wire
          /\ f.payload = d.payload /\ f.pending = d.pending /\ f.remaining = d.remaining
          /\ f.state = d.state
      BY <2>1, <2>2 DEF HamlibFormed
    <2>5. e = Queue(f, Writing(command, d.session))
      BY <1>2, <2>1 DEF QueueWrite
    <2>6. d.socket = "connected"
      BY <1>2 DEF WriteAccepted, CanWrite
    <2>7. Polling(f) /\ (f.active = Idle => f.queue = <<>>)
      BY <2>4 DEF Steady, Talking, Polling
    <2>8. Truthful(f, lines, seen)
      BY <2>4, SameTruth
    <2>9. /\ Writing(command, d.session) \in Requests
          /\ Writing(command, d.session).field \notin PolledFields
      BY <2>2, RequestKinds DEF PolledFields
    <2>10. GoesOn(f, e, lines, seen)
      BY <2>3, <2>4, <2>5, <2>6, <2>7, <2>8, <2>9, QueueIsTruthful
    <2>11. QED BY <2>4, <2>10 DEF GoesOn
  <1>3. QED BY <1>1, <1>2

LEMMA ConnectedIsTruthful ==
  ASSUME NEW d, Steady(d), d.socket = "connecting", NEW lines, NEW seen, Truthful(d, lines, seen),
         NEW e, e = Connected(d)
  PROVE  GoesOn(d, e, <<>>, seen)
  <1>1. HamlibFormed(d) /\ d.active = Idle /\ d.queue = <<>> /\ d.session \in Sessions
    BY DEF Steady, Talking, HamlibFormed
  <1>2. PICK f : f = [d EXCEPT !.socket = "connected", !.request = FALSE, !.session = 1 - @]
    OBVIOUS
  <1>3. 1 - d.session \in Sessions
    BY <1>1 DEF Sessions
  <1>4. HamlibFormed(f)
    BY <1>1, <1>2, <1>3 DEF HamlibFormed
  <1>5. /\ f.socket = "connected" /\ f.active = Idle /\ f.queue = <<>> /\ f.state = d.state
        /\ f.payload = d.payload /\ f.wire = d.wire /\ f.pending = d.pending
    BY <1>1, <1>2 DEF HamlibFormed
  <1>6. e = Queue(f, Reading("vfoMode", 1 - d.session))
    BY <1>2 DEF Connected
  <1>7. Rested(d, lines) /\ lines = <<>>
    BY <1>1, IdleIsRested DEF Truthful, Conveyed
  <1>8. Rested(f, <<>>)
    BY <1>1, <1>5, <1>7 DEF Rested
  <1>9. Truthful(f, <<>>, seen)
    BY <1>5, <1>8, RestedIsTruthful
  <1>10. "none" \notin PolledFields /\ "vfoMode" \notin PolledFields /\ Len(<<>>) = 0
    BY DEF PolledFields
  <1>11. Polling(f)
    BY <1>5, <1>10, RequestKinds DEF Polling, ReadsWait
  <1>12. /\ Reading("vfoMode", 1 - d.session) \in Requests
         /\ Reading("vfoMode", 1 - d.session).field = "vfoMode"
    BY <1>3, RequestKinds
  <1>13. GoesOn(f, e, <<>>, seen) /\ e.state = f.state
    BY <1>4, <1>5, <1>6, <1>9, <1>10, <1>11, <1>12, QueueIsTruthful
  <1>14. QED BY <1>1, <1>5, <1>13 DEF GoesOn

LEMMA PollTimeoutIsTruthful ==
  ASSUME NEW d, Steady(d), NEW lines, NEW seen, Truthful(d, lines, seen), NEW e, e = PollTimeout(d)
  PROVE  GoesOn(d, e, lines, seen)
  <1>1. PICK f : f = [d EXCEPT !.poll = FALSE]
    OBVIOUS
  <1>2. HamlibFormed(d)
    BY DEF Steady
  <1>3. HamlibFormed(f)
    BY <1>1, <1>2 DEF HamlibFormed
  <1>4. /\ f.socket = d.socket /\ f.active = d.active /\ f.queue = d.queue /\ f.wire = d.wire
        /\ f.payload = d.payload /\ f.pending = d.pending /\ f.remaining = d.remaining
        /\ f.state = d.state
    BY <1>1, <1>2 DEF HamlibFormed
  <1>5. e = BeginPoll(f)
    BY <1>1 DEF PollTimeout
  <1>6. CASE f.socket # "connected" \/ f.active # Idle \/ f.queue # <<>>
    <2>1. e = f
      BY <1>5, <1>6 DEF BeginPoll
    <2>2. QED BY <1>4, <2>1, LeftAlone
  <1>7. CASE f.socket = "connected" /\ f.active = Idle /\ f.queue = <<>>
    <2>1. Rested(f, lines)
      BY <1>4, <1>7, IdleIsRested DEF Rested
    <2>2. /\ Truthful(e, lines, seen) /\ e.socket = "connected" /\ e.payload = <<>> /\ Quiet(lines)
          /\ e.state = f.state
      BY <1>3, <1>5, <1>7, <2>1, BeginPollIsTruthful
    <2>3. QED BY <1>4, <1>7, <2>2 DEF GoesOn
  <1>8. QED BY <1>6, <1>7

LEMMA BeginConnectionIsTruthful ==
  ASSUME NEW d, Steady(d), NEW lines, NEW seen, Truthful(d, lines, seen), NEW e, e = BeginConnection(d)
  PROVE  GoesOn(d, e, lines, seen)
  <1>1. CASE d.operator \/ d.socket # "unconnected"
    BY <1>1, LeftAlone DEF BeginConnection
  <1>2. CASE ~(d.operator \/ d.socket # "unconnected")
    <2>1. e = [d EXCEPT !.socket = "connecting", !.request = TRUE]
      BY <1>2 DEF BeginConnection
    <2>2. HamlibFormed(d) /\ d.active = Idle
      BY <1>2 DEF Steady, Talking
    <2>3. /\ e.socket = "connecting" /\ e.active = d.active /\ e.wire = d.wire
          /\ e.payload = d.payload /\ e.pending = d.pending /\ e.state = d.state
      BY <2>1, <2>2 DEF HamlibFormed
    <2>4. Rested(d, lines) /\ d.wire = <<>>
      BY <1>2, <2>2, IdleIsRested DEF Truthful, Conveyed
    <2>5. Closed(e)
      BY <2>3, <2>4 DEF Rested, Closed
    <2>6. QED BY <2>3, <2>5 DEF GoesOn
  <1>3. QED BY <1>1, <1>2

LEMMA TimersAreTruthful ==
  ASSUME NEW d, Steady(d), NEW lines, NEW seen, Truthful(d, lines, seen)
  PROVE  /\ GoesOn(d, RequestTimeout(d), lines, seen)
         /\ GoesOn(d, HamlibReconnectTimeout(d), lines, seen)
  <1>1. HamlibFormed(d) /\ (d.reconnect => ~d.operator) /\ Noted(d.pending)
    BY DEF Steady, Talking, Truthful, Conveyed
  <1>2. GoesOn(d, RequestTimeout(d), lines, seen)
    <2>1. PICK f : f = [d EXCEPT !.request = FALSE]
      OBVIOUS
    <2>2. HamlibFormed(f) /\ (f.reconnect => ~f.operator) /\ f.pending = d.pending
      BY <1>1, <2>1 DEF HamlibFormed
    <2>3. PICK e : e = FailProtocol(f)
      OBVIOUS
    <2>4. Closed(e) /\ e.state.avail # Known
      BY <1>1, <2>2, <2>3, FailureHangsUp, HungUpIsClosed
    <2>5. RequestTimeout(d) = e
      BY <2>1, <2>3 DEF RequestTimeout
    <2>6. QED BY <2>4, <2>5 DEF GoesOn
  <1>3. GoesOn(d, HamlibReconnectTimeout(d), lines, seen)
    <2>1. PICK f : f = [d EXCEPT !.reconnect = FALSE]
      OBVIOUS
    <2>2. HamlibFormed(f)
      BY <1>1, <2>1 DEF HamlibFormed
    <2>3. /\ f.socket = d.socket /\ f.active = d.active /\ f.queue = d.queue /\ f.request = d.request
          /\ f.remaining = d.remaining /\ f.poll = d.poll /\ f.wire = d.wire
          /\ f.payload = d.payload /\ f.pending = d.pending
          /\ f.state = d.state /\ ~f.reconnect /\ f.operator = d.operator
          /\ f.session = d.session
      BY <1>1, <2>1 DEF HamlibFormed
    <2>4. Talking(f) /\ Polling(f)
      BY <2>3 DEF Steady, Talking, Polling
    <2>5. Steady(f)
      BY <2>2, <2>4 DEF Steady
    <2>6. Truthful(f, lines, seen)
      BY <2>3, SameTruth
    <2>7. PICK e : e = BeginConnection(f)
      OBVIOUS
    <2>8. GoesOn(f, e, lines, seen)
      BY <2>5, <2>6, <2>7, BeginConnectionIsTruthful
    <2>9. HamlibReconnectTimeout(d) = e
      BY <2>1, <2>7 DEF HamlibReconnectTimeout
    <2>10. QED BY <2>3, <2>8, <2>9 DEF GoesOn
  <1>4. QED BY <1>2, <1>3

LEMMA ConnectHamlibIsTruthful ==
  ASSUME NEW d, Steady(d), Noted(d.pending), NEW valid \in BOOLEAN, NEW writable \in BOOLEAN,
         NEW lines, NEW seen
  PROVE  /\ GoesOn(d, DisconnectHamlib(d), lines, seen)
         /\ GoesOn(d, ConnectHamlib(d, valid, writable), lines, seen)
  <1>1. PICK f : f = DisconnectHamlib(d)
    OBVIOUS
  <1>2. HungUp(f) /\ f.pending = d.pending
    BY <1>1, DisconnectHangsUp DEF Steady
  <1>3. Closed(f) /\ f.state.avail # Known /\ f.socket = "unconnected"
    BY <1>2, HungUpIsClosed DEF HungUp
  <1>4. PICK g : g = [f EXCEPT !.writable = writable, !.operator = FALSE]
    OBVIOUS
  <1>5. /\ g.socket = f.socket /\ g.active = f.active /\ g.wire = f.wire /\ g.payload = f.payload
        /\ g.pending = f.pending /\ g.state = f.state /\ ~g.operator /\ HamlibFormed(g)
    BY <1>2, <1>4 DEF HungUp, HamlibFormed
  <1>6. PICK h : h = BeginConnection(g)
    OBVIOUS
  <1>7. h = [g EXCEPT !.socket = "connecting", !.request = TRUE]
    BY <1>3, <1>5, <1>6 DEF BeginConnection
  <1>8. /\ h.socket = "connecting" /\ h.active = g.active /\ h.wire = g.wire /\ h.payload = g.payload
        /\ h.pending = g.pending /\ h.state = g.state
    BY <1>5, <1>7 DEF HamlibFormed
  <1>9. Closed(h) /\ h.state.avail # Known
    BY <1>3, <1>5, <1>8 DEF Closed
  <1>10. ConnectHamlib(d, valid, writable) = (IF valid THEN h ELSE f)
    BY <1>1, <1>4, <1>6 DEF ConnectHamlib
  <1>11. GoesOn(d, f, lines, seen) /\ GoesOn(d, h, lines, seen)
    BY <1>3, <1>9 DEF GoesOn
  <1>12. QED BY <1>1, <1>10, <1>11

LEMMA SocketClosesTruthfully ==
  ASSUME NEW d, Steady(d), NEW lines, NEW seen, Truthful(d, lines, seen)
  PROVE  /\ d.socket = "connecting" => GoesOn(d, [d EXCEPT !.socket = "unconnected"], <<>>, seen)
         /\ GoesOn(d, HandleDisconnected([d EXCEPT !.socket = "unconnected", !.wire = <<>>]), <<>>, seen)
  <1>1. HamlibFormed(d) /\ (d.reconnect => ~d.operator) /\ Noted(d.pending)
    BY DEF Steady, Talking, Truthful, Conveyed
  <1>2. ASSUME d.socket = "connecting"
        PROVE  GoesOn(d, [d EXCEPT !.socket = "unconnected"], <<>>, seen)
    <2>1. PICK f : f = [d EXCEPT !.socket = "unconnected"]
      OBVIOUS
    <2>2. /\ f.socket = "unconnected" /\ f.active = d.active /\ f.wire = d.wire
          /\ f.payload = d.payload /\ f.pending = d.pending /\ f.state = d.state
      BY <1>1, <2>1 DEF HamlibFormed
    <2>3. d.active = Idle
      BY <1>2 DEF Steady, Talking
    <2>4. Rested(d, lines) /\ d.wire = <<>>
      BY <1>2, <2>3, IdleIsRested DEF Truthful, Conveyed
    <2>5. Closed(f)
      BY <2>2, <2>4 DEF Rested, Closed
    <2>6. GoesOn(d, f, <<>>, seen)
      BY <2>2, <2>5 DEF GoesOn
    <2>7. QED BY <2>1, <2>6
  <1>3. GoesOn(d, HandleDisconnected([d EXCEPT !.socket = "unconnected", !.wire = <<>>]), <<>>, seen)
    <2>1. PICK f : f = [d EXCEPT !.socket = "unconnected", !.wire = <<>>]
      OBVIOUS
    <2>2. HamlibFormed(f)
      BY <1>1, <2>1 DEF HamlibFormed
    <2>3. /\ f.socket = "unconnected" /\ f.wire = <<>> /\ (f.reconnect => ~f.operator)
          /\ f.pending = d.pending
      BY <1>1, <2>1 DEF HamlibFormed
    <2>4. PICK e : e = HandleDisconnected(f)
      OBVIOUS
    <2>5. Closed(e) /\ e.state.avail # Known
      BY <1>1, <2>2, <2>3, <2>4, DisconnectedHangsUp, HungUpIsClosed
    <2>6. GoesOn(d, e, <<>>, seen)
      BY <2>5 DEF GoesOn
    <2>7. QED BY <2>1, <2>4, <2>6
  <1>4. QED BY <1>2, <1>3

(* The lines that a slot leaves, and what was seen since the poll began.   *)
LEMMA SlotIsTruthful ==
  ASSUME NEW d, NEW e, NEW lines, NEW seen, GoesOn(d, e, lines, seen),
         NEW other, other = seen \/ (e.active.field = "rx" /\ d.active.field # "rx"),
         NEW left, left = IF e.socket = "connected" /\ d.socket = "connected" THEN lines ELSE <<>>
  PROVE  Truthful(e, left, other)
  <1>1. CASE Closed(e)
    BY <1>1, ClosedIsTruthful DEF Closed
  <1>2. CASE /\ Truthful(e, lines, seen) /\ e.socket = "connected"
             /\ d.socket = "connected" \/ lines = <<>>
             /\ e.active = d.active \/ (e.payload = <<>> /\ Quiet(lines))
    <2>1. left = lines
      BY <1>2
    <2>2. QED BY <1>2, <2>1, ForgetsWhatWasSeen
  <1>3. QED BY <1>1, <1>2 DEF GoesOn

(* The daemon takes a command off the wire.                                *)
Taken(d) == [d EXCEPT !.wire = Tail(@)]
LEMMA WireIsTruthful ==
  ASSUME NEW d, HamlibFormed(d), NEW lines, NEW seen, Truthful(d, lines, seen), d.wire # <<>>,
         NEW e, e = Taken(d)
  PROVE  /\ Truthful(e, lines, seen) /\ e.state = d.state /\ e.socket = "connected"
         /\ e.active = d.active /\ e.payload = d.payload /\ e.wire = Tail(d.wire)
  <1>1. /\ d.wire \in Seq(Requests) /\ LastIsRead(d)
        /\ (d.socket # "connected" => d.wire = <<>>)
    BY DEF Truthful, Conveyed
  <1>2. /\ Tail(d.wire) \in Seq(Requests) /\ Len(d.wire) \in Nat /\ Len(d.wire) >= 1
        /\ Len(Tail(d.wire)) = Len(d.wire) - 1
        /\ \A i \in 1..Len(d.wire) - 1 : Tail(d.wire)[i] = d.wire[i + 1]
    BY <1>1, HeadTailProperties
  <1>3. /\ e.socket = d.socket /\ e.active = d.active /\ e.queue = d.queue /\ e.state = d.state
        /\ e.payload = d.payload /\ e.pending = d.pending /\ e.remaining = d.remaining
        /\ e.wire = Tail(d.wire)
    BY DEF HamlibFormed, Taken
  <1>4. PollInOrder(e) /\ Witnessed(e, lines, seen)
    BY <1>3 DEF Truthful, PollInOrder, Witnessed
  <1>5. \A i \in 1..Len(e.wire) : i + 1 \in 1..Len(d.wire) /\ e.wire[i] = d.wire[i + 1]
    BY <1>2, <1>3
  <1>6. LastIsRead(e)
    BY <1>1, <1>2, <1>3, <1>5 DEF LastIsRead
  <1>7. ASSUME NEW first, NEW n, Answering(d, lines, first, n)
        PROVE  Answering(e, lines, first, n)
    BY <1>3, <1>5, <1>7 DEF Answering
  <1>8. Conveyed(e, lines)
    BY <1>1, <1>2, <1>3, <1>6, <1>7 DEF Truthful, Conveyed
  <1>9. QED BY <1>1, <1>3, <1>4, <1>8 DEF Truthful

(* A result comes behind what is on its way.                               *)
LEMMA ResultIsTruthful ==
  ASSUME NEW d, NEW lines, NEW seen, Truthful(d, lines, seen), d.socket = "connected",
         NEW line \in Lines, line.result # "none", NEW more, more = lines \o <<line>>
  PROVE  Truthful(d, more, seen)
  <1>1. lines \in Seq(Lines)
    BY DEF Truthful, Conveyed
  <1>2. /\ more \in Seq(Lines) /\ Len(more) = Len(lines) + 1 /\ Len(lines) \in Nat
        /\ \A i \in 1..Len(lines) : more[i] = lines[i]
        /\ more[Len(lines) + 1] = line
    BY <1>1, ConcatProperties
  <1>3. PICK first, n \in 0..Len(lines) : first + n <= Len(lines) /\ Answering(d, lines, first, n)
    BY DEF Truthful, Conveyed
  <1>4. Carries(more, first, n)
    <2>1. \A i \in 1..Len(lines) : lines[i].result = "none" <=> i \in first + 1..first + n
      BY <1>3 DEF Answering, Carries
    <2>2. Len(lines) + 1 \notin first + 1..first + n
      BY <1>2, <1>3
    <2>3. QED BY <1>2, <2>1, <2>2 DEF Carries
  <1>5. Answering(d, more, first, n)
    BY <1>3, <1>4 DEF Answering
  <1>6. first \in 0..Len(more) /\ n \in 0..Len(more) /\ first + n <= Len(more)
    BY <1>2, <1>3
  <1>7. Conveyed(d, more)
    BY <1>2, <1>5, <1>6 DEF Truthful, Conveyed
  <1>8. Witnessed(d, more, seen)
    BY <1>2 DEF Truthful, Witnessed
  <1>9. QED BY <1>7, <1>8 DEF Truthful

(* The lines of an answer, all alike.                                      *)
Answer(m, line) == [i \in 1..m |-> line]
LEMMA AnswerIs ==
  ASSUME NEW m \in {1, 2}, NEW line \in Lines
  PROVE  /\ Answer(m, line) \in Seq(Lines) /\ Len(Answer(m, line)) = m
         /\ \A i \in 1..m : Answer(m, line)[i] = line
  <1> PICK answer : answer = Answer(m, line)
    OBVIOUS
  <1>1. answer \in [1..m -> Lines] /\ m \in Nat /\ \A i \in 1..m : answer[i] = line
    BY DEF Answer
  <1>2. \A n \in Nat : \A q \in [1..n -> Lines] : q \in Seq(Lines) /\ Len(q) = n
    OBVIOUS
  <1>3. QED BY <1>1, <1>2

(* The answer to a read comes; d has the read on the wire, e no longer.    *)
LEMMA AnswerIsTruthful ==
  ASSUME NEW d, NEW e, NEW lines, NEW seen, Truthful(d, lines, seen), Truthful(e, lines, seen),
         d.wire # <<>>, Head(d.wire).field # "write", e.socket = "connected",
         e.active = d.active, e.payload = d.payload, e.wire = Tail(d.wire),
         NEW radio, radio.rx \in seen.rx, radio.split \in seen.split,
         NEW m \in {1, 2}, m = PayloadLines(Head(d.wire).field),
         NEW answer \in Seq(Lines), Len(answer) = m,
         \A i \in 1..m : answer[i].result = "none" /\ answer[i].panel = radio,
         NEW more, more = lines \o answer
  PROVE  Truthful(e, more, seen)
  <1>1. /\ d.wire \in Seq(Requests) /\ lines \in Seq(Lines) /\ LastIsRead(d)
    BY DEF Truthful, Conveyed
  <1>2. /\ Head(d.wire) = d.wire[1] /\ Head(d.wire) \in Requests
        /\ Len(d.wire) \in Nat /\ Len(d.wire) >= 1 /\ Len(Tail(d.wire)) = Len(d.wire) - 1
    BY <1>1, HeadTailProperties
  <1>3. Len(d.wire) = 1 /\ Head(d.wire) = d.active
    <2>1. 1 \in 1..Len(d.wire) /\ d.wire[1].field # "write"
      BY <1>2
    <2>2. QED BY <1>1, <1>2, <2>1 DEF LastIsRead
  <1>4. Len(e.wire) = 0
    BY <1>2, <1>3
  <1>6. PICK first, n \in 0..Len(lines) : first + n <= Len(lines) /\ Answering(d, lines, first, n)
    BY DEF Truthful, Conveyed
  <1>7. n = 0
    <2>1. SUFFICES ASSUME n > 0 PROVE FALSE
      BY <1>6
    <2>2. \A i \in 1..Len(d.wire) : d.wire[i].field = "write"
      BY <1>6, <2>1 DEF Answering
    <2>3. QED BY <1>2, <2>2
  <1>8. d.payload = <<>> /\ \A i \in 1..Len(lines) : lines[i].result # "none"
    BY <1>6, <1>7 DEF Answering, Carries
  <1>9. /\ more \in Seq(Lines) /\ Len(more) = Len(lines) + m /\ Len(lines) \in Nat
        /\ \A i \in 1..Len(more) :
             more[i] = IF i <= Len(lines) THEN lines[i] ELSE answer[i - Len(lines)]
    BY <1>1, ConcatProperties, LenProperties
  <1>10. /\ \A i \in 1..Len(lines) : more[i] = lines[i]
         /\ \A i \in Len(lines) + 1..Len(lines) + m :
              more[i].result = "none" /\ more[i].panel = radio
    <2>1. \A i \in Len(lines) + 1..Len(lines) + m : i - Len(lines) \in 1..m /\ ~(i <= Len(lines))
      BY <1>9
    <2>2. \A i \in 1..Len(lines) : i \in 1..Len(more) /\ i <= Len(lines)
      BY <1>9
    <2>3. \A i \in Len(lines) + 1..Len(lines) + m : i \in 1..Len(more)
      BY <1>9
    <2>4. QED BY <1>9, <2>1, <2>2, <2>3
  <1>11. \A i \in 1..Len(more) : i \in 1..Len(lines) \/ i \in Len(lines) + 1..Len(lines) + m
    BY <1>9
  <1>12. \A i \in 1..Len(lines) : i \notin Len(lines) + 1..Len(lines) + m
    BY <1>9
  <1>13. Carries(more, Len(lines), m)
    BY <1>8, <1>10, <1>11, <1>12 DEF Carries
  <1>14. m + Len(e.payload) = PayloadLines(e.active.field) /\ e.active.field \notin {"write", "none"}
    <2>1. Len(e.payload) = 0
      BY <1>8
    <2>2. QED BY <1>2, <1>3, <2>1 DEF Requests, PolledFields
  <1>15. Answering(e, more, Len(lines), m)
    BY <1>4, <1>8, <1>13, <1>14 DEF Answering
  <1>16. Len(lines) \in 0..Len(more) /\ m \in 0..Len(more) /\ Len(lines) + m <= Len(more)
    BY <1>9
  <1>17. Conveyed(e, more)
    BY <1>9, <1>15, <1>16 DEF Truthful, Conveyed
  <1>18. Witnessed(e, more, seen)
    <2>1. \A i \in Len(lines) + 1..Len(lines) + m : Relayed(more[i], seen)
      BY <1>10 DEF Relayed
    <2>2. \A i \in 1..Len(more) : more[i].result = "none" => Relayed(more[i], seen)
      BY <1>8, <1>10, <1>11, <2>1
    <2>3. QED BY <2>2 DEF Truthful, Witnessed
  <1>19. QED BY <1>17, <1>18 DEF Truthful

(* What a write of the operator does to the radio.                         *)
LEMMA AppliedIsRadio ==
  ASSUME panel \in Radios, NEW command \in HamlibCommands \cup {NoCommand}
  PROVE  Applied(command) \in Radios
  <1>1. NoCommand.needs # "SetRxFrequency"
    BY DEF NoCommand, Command
  <1>2. QED BY <1>1 DEF Applied, Radios

(* The last conjuncts: what the radio is like has been seen.               *)
HamlibSeenInv ==
  /\ Steady(hl) /\ Truthful(hl, hlStream, hlSeen)
  /\ panel \in Radios /\ panel.rx \in hlSeen.rx /\ panel.split \in hlSeen.split

LEMMA InitSeen == HamlibInit => HamlibSeenInv
  <1>1. SUFFICES ASSUME HamlibInit PROVE HamlibSeenInv
    OBVIOUS
  <1>2. Steady(hl)
    BY <1>1, InitHamlib DEF HamlibIInv
  <1>3. /\ hl.socket = "unconnected" /\ hl.active = Idle /\ hl.payload = <<>> /\ hl.wire = <<>>
        /\ hl.pending = NoObservation /\ hlStream = <<>>
    BY <1>1 DEF HamlibInit, NewHamlib
  <1>4. Noted(hl.pending)
    BY <1>3 DEF NoObservation, Blank, Noted
  <1>5. Truthful(hl, hlStream, hlSeen)
    BY <1>3, <1>4, ClosedIsTruthful DEF Closed
  <1>6. panel \in Radios /\ panel.rx \in hlSeen.rx /\ panel.split \in hlSeen.split
    BY <1>1, PanelAssumption DEF HamlibInit, Shows, Radios
  <1>7. QED BY <1>2, <1>5, <1>6 DEF HamlibSeenInv

(* A step that turns the radio, or shows it, only adds to what was seen.   *)
LEMMA MoreIsSeen ==
  ASSUME hlSeen' = Shown(panel')
  PROVE  /\ hlSeen.rx \subseteq hlSeen'.rx /\ hlSeen.split \subseteq hlSeen'.split
         /\ panel'.rx \in hlSeen'.rx /\ panel'.split \in hlSeen'.split
  BY DEF Shown

PublishStep == hl'.state # hl.state /\ hl'.state.avail = Known => Published(hl'.state, hlSeen)

(* A slot of the client.                                                   *)
LEMMA SlotStep ==
  ASSUME HamlibSeenInv, HamlibNext, NEW d, NEW lines, HamlibBecomes(d, lines),
         GoesOn(hl, d, lines, hlSeen)
  PROVE  HamlibSeenInv' /\ PublishStep
  <1>1. /\ hl' = d /\ panel' = panel
        /\ hlStream' = IF d.socket = "connected" /\ hl.socket = "connected" THEN lines ELSE <<>>
        /\ hlSeen' = IF Begins(d) THEN Shows(panel) ELSE hlSeen
    BY DEF HamlibBecomes
  <1>2. Steady(hl')
    BY StepHamlib DEF HamlibIInv, HamlibSeenInv
  <1>3. hlSeen' = hlSeen \/ (d.active.field = "rx" /\ hl.active.field # "rx")
    BY <1>1 DEF Begins
  <1>4. Truthful(hl', hlStream', hlSeen')
    BY <1>1, <1>3, SlotIsTruthful
  <1>5. panel' \in Radios /\ panel'.rx \in hlSeen'.rx /\ panel'.split \in hlSeen'.split
    BY <1>1 DEF HamlibSeenInv, Shows
  <1>6. PublishStep
    BY <1>1 DEF PublishStep, GoesOn
  <1>7. QED BY <1>2, <1>4, <1>5, <1>6 DEF HamlibSeenInv

LEMMA StepSeen == HamlibSeenInv /\ [HamlibNext]_hlVars => HamlibSeenInv' /\ PublishStep
  <1>1. SUFFICES ASSUME HamlibSeenInv, [HamlibNext]_hlVars PROVE HamlibSeenInv' /\ PublishStep
    OBVIOUS
  <1>2. Steady(hl) /\ Truthful(hl, hlStream, hlSeen) /\ HamlibFormed(hl) /\ Noted(hl.pending)
    BY <1>1 DEF HamlibSeenInv, Steady, Truthful, Conveyed
  <1>3. panel \in Radios /\ panel.rx \in hlSeen.rx /\ panel.split \in hlSeen.split
    BY <1>1 DEF HamlibSeenInv
  <1>4. Steady(hl')
    BY <1>1, StepHamlib DEF HamlibIInv, HamlibSeenInv
  <1>5. CASE UNCHANGED hlVars
    BY <1>1, <1>5 DEF hlVars, HamlibSeenInv, PublishStep
  <1>6. CASE DoConnectHamlib
    <2>1. PICK valid, writable \in BOOLEAN : HamlibBecomes(ConnectHamlib(hl, valid, writable), hlStream)
      BY <1>6 DEF DoConnectHamlib
    <2>2. GoesOn(hl, ConnectHamlib(hl, valid, writable), hlStream, hlSeen)
      BY <1>2, ConnectHamlibIsTruthful
    <2>3. QED BY <1>1, <1>6, <2>1, <2>2, SlotStep DEF HamlibNext
  <1>7. CASE DoDisconnectHamlib
    <2>1. GoesOn(hl, DisconnectHamlib(hl), hlStream, hlSeen)
      BY <1>2, ConnectHamlibIsTruthful
    <2>2. QED BY <1>1, <1>7, <2>1, SlotStep DEF HamlibNext, DoDisconnectHamlib
  <1>8. CASE DoQueueWrite
    <2>1. PICK command \in HamlibCommands : HamlibBecomes(QueueWrite(hl, command), hlStream)
      BY <1>8 DEF DoQueueWrite
    <2>2. GoesOn(hl, QueueWrite(hl, command), hlStream, hlSeen)
      BY <1>2, QueueWriteIsTruthful
    <2>3. QED BY <1>1, <1>8, <2>1, <2>2, SlotStep DEF HamlibNext
  <1>9. CASE HamlibConnects
    <2>1. hl.socket = "connecting" /\ HamlibBecomes(Connected(hl), <<>>)
      BY <1>9 DEF HamlibConnects
    <2>2. GoesOn(hl, Connected(hl), <<>>, hlSeen)
      BY <1>2, <2>1, ConnectedIsTruthful
    <2>3. QED BY <1>1, <1>9, <2>1, <2>2, SlotStep DEF HamlibNext
  <1>10. CASE HamlibRefused
    <2>1. hl.socket = "connecting" /\ HamlibBecomes([hl EXCEPT !.socket = "unconnected"], <<>>)
      BY <1>10 DEF HamlibRefused
    <2>2. GoesOn(hl, [hl EXCEPT !.socket = "unconnected"], <<>>, hlSeen)
      BY <1>2, <2>1, SocketClosesTruthfully
    <2>3. QED BY <1>1, <1>10, <2>1, <2>2, SlotStep DEF HamlibNext
  <1>11. CASE HamlibHangsUp
    <2>1. HamlibBecomes(HandleDisconnected([hl EXCEPT !.socket = "unconnected", !.wire = <<>>]), <<>>)
      BY <1>11 DEF HamlibHangsUp
    <2>2. GoesOn(hl, HandleDisconnected([hl EXCEPT !.socket = "unconnected", !.wire = <<>>]),
                  <<>>, hlSeen)
      BY <1>2, SocketClosesTruthfully
    <2>3. QED BY <1>1, <1>11, <2>1, <2>2, SlotStep DEF HamlibNext
  <1>12. CASE HamlibReads
    <2>1. hlStream # <<>> /\ HamlibBecomes(ConsumeLine(hl, Head(hlStream)), Tail(hlStream))
      BY <1>12 DEF HamlibReads
    <2>2. GoesOn(hl, ConsumeLine(hl, Head(hlStream)), Tail(hlStream), hlSeen)
      BY <1>2, <2>1, ConsumeLineIsTruthful
    <2>3. QED BY <1>1, <1>12, <2>1, <2>2, SlotStep DEF HamlibNext
  <1>13. CASE HamlibPolls
    <2>1. GoesOn(hl, PollTimeout(hl), hlStream, hlSeen)
      BY <1>2, PollTimeoutIsTruthful
    <2>2. QED BY <1>1, <1>13, <2>1, SlotStep DEF HamlibNext, HamlibPolls
  <1>14. CASE HamlibTimesOut
    <2>1. GoesOn(hl, RequestTimeout(hl), hlStream, hlSeen)
      BY <1>2, TimersAreTruthful
    <2>2. QED BY <1>1, <1>14, <2>1, SlotStep DEF HamlibNext, HamlibTimesOut
  <1>15. CASE HamlibRetries
    <2>1. GoesOn(hl, HamlibReconnectTimeout(hl), hlStream, hlSeen)
      BY <1>2, TimersAreTruthful
    <2>2. QED BY <1>1, <1>15, <2>1, SlotStep DEF HamlibNext, HamlibRetries
  <1>16. CASE DaemonAnswers
    <2>1. hl.wire # <<>> /\ hl' = Taken(hl) /\ hlSeen' = Shown(panel')
      BY <1>16 DEF DaemonAnswers, Taken
    <2>2. /\ hl.socket = "connected" /\ hl.wire \in Seq(Requests)
      BY <1>2, <2>1 DEF Truthful, Conveyed
    <2>3. Head(hl.wire) \in Requests
      BY <2>1, <2>2, HeadTailProperties
    <2>4. PICK e : e = Taken(hl)
      OBVIOUS
    <2>5. /\ Truthful(e, hlStream, hlSeen) /\ e.state = hl.state /\ e.socket = "connected"
          /\ e.active = hl.active /\ e.payload = hl.payload /\ e.wire = Tail(hl.wire)
      BY <1>2, <2>1, <2>4, WireIsTruthful
    <2>6. CASE Head(hl.wire).field = "write"
      <3>1. panel' = Applied(Head(hl.wire).command) /\ hlStream' = hlStream \o <<ResultLine("ok", panel')>>
        BY <1>16, <2>6 DEF DaemonAnswers, Reply
      <3>2. panel' \in Radios
        BY <1>3, <2>3, <3>1, AppliedIsRadio DEF Requests
      <3>3. ResultLine("ok", panel') \in Lines /\ ResultLine("ok", panel').result # "none"
        BY <3>2 DEF ResultLine, Lines
      <3>4. Truthful(e, hlStream', hlSeen)
        BY <2>2, <2>5, <3>1, <3>3, ResultIsTruthful
      <3>5. Truthful(e, hlStream', hlSeen')
        BY <2>1, <3>4, MoreIsSeen, ForgetsWhatWasSeen
      <3>6. QED BY <1>4, <2>1, <2>4, <2>5, <3>2, <3>5, MoreIsSeen DEF HamlibSeenInv, PublishStep
    <2>7. CASE Head(hl.wire).field # "write"
      <3>1. PICK valid \in BOOLEAN :
              hlStream' = hlStream \o
                            [i \in 1..PayloadLines(Head(hl.wire).field) |-> PayloadLine(valid, panel)]
        BY <1>16, <2>7 DEF DaemonAnswers, Reply
      <3>2. panel' = panel
        BY <1>16, <2>7 DEF DaemonAnswers
      <3>3. PICK m \in {1, 2} : m = PayloadLines(Head(hl.wire).field)
        <4>1. Head(hl.wire).field \in PolledFields \cup {"vfoMode"}
          BY <2>3, <2>7 DEF Requests
        <4>2. QED BY <4>1 DEF PayloadLines, PolledFields
      <3>4. PICK line : line = PayloadLine(valid, panel)
        OBVIOUS
      <3>5. line \in Lines /\ line.result = "none" /\ line.panel = panel
        <4>1. valid \in BOOLEAN
          BY <3>1
        <4>2. QED BY <1>3, <3>4, <4>1 DEF PayloadLine, Lines
      <3>6. PICK answer : answer = Answer(m, line)
        OBVIOUS
      <3>7. /\ answer \in Seq(Lines) /\ Len(answer) = m
            /\ \A i \in 1..m : answer[i].result = "none" /\ answer[i].panel = panel
        <4>1. m \in {1, 2} /\ line \in Lines
          BY <3>3, <3>5
        <4>2. /\ Answer(m, line) \in Seq(Lines) /\ Len(Answer(m, line)) = m
              /\ \A i \in 1..m : Answer(m, line)[i] = line
          BY <4>1, AnswerIs
        <4>3. QED BY <3>5, <3>6, <4>2
      <3>8. hlStream' = hlStream \o answer
        BY <3>1, <3>3, <3>4, <3>6 DEF Answer
      <3>9. Truthful(e, hlStream', hlSeen)
        BY <1>2, <1>3, <2>1, <2>5, <2>7, <3>3, <3>7, <3>8, AnswerIsTruthful
      <3>10. Truthful(e, hlStream', hlSeen')
        BY <2>1, <3>9, MoreIsSeen, ForgetsWhatWasSeen
      <3>11. QED BY <1>3, <1>4, <2>1, <2>4, <2>5, <3>2, <3>10, MoreIsSeen DEF HamlibSeenInv, PublishStep
    <2>8. QED BY <2>6, <2>7
  <1>17. CASE DaemonRefuses \/ DaemonIsSilent
    <2>1. hl.wire # <<>> /\ hl' = Taken(hl) /\ hlSeen' = hlSeen /\ panel' = panel
      BY <1>17 DEF DaemonRefuses, DaemonIsSilent, Taken
    <2>2. hl.socket = "connected"
      BY <1>2, <2>1 DEF Truthful, Conveyed
    <2>3. PICK e : e = Taken(hl)
      OBVIOUS
    <2>4. Truthful(e, hlStream, hlSeen) /\ e.state = hl.state /\ e.socket = "connected"
      BY <1>2, <2>1, <2>3, WireIsTruthful
    <2>5. ResultLine("error", panel) \in Lines /\ ResultLine("error", panel).result # "none"
      BY <1>3 DEF ResultLine, Lines
    <2>6. hlStream' = hlStream \/ hlStream' = hlStream \o <<ResultLine("error", panel)>>
      BY <1>17 DEF DaemonRefuses, DaemonIsSilent, Reply
    <2>7. Truthful(e, hlStream', hlSeen)
      BY <2>2, <2>4, <2>5, <2>6, ResultIsTruthful
    <2>8. QED BY <1>3, <1>4, <2>1, <2>3, <2>4, <2>7 DEF HamlibSeenInv, PublishStep
  <1>18. CASE DaemonBabbles
    <2>1. /\ hl.socket = "connected" /\ hl' = hl /\ hlSeen' = hlSeen /\ panel' = panel
          /\ hlStream' = hlStream \o <<ResultLine("ok", panel)>>
      BY <1>18 DEF DaemonBabbles, Reply
    <2>2. ResultLine("ok", panel) \in Lines /\ ResultLine("ok", panel).result # "none"
      BY <1>3 DEF ResultLine, Lines
    <2>3. Truthful(hl, hlStream', hlSeen)
      BY <1>2, <2>1, <2>2, ResultIsTruthful
    <2>4. QED BY <1>2, <1>3, <2>1, <2>3 DEF HamlibSeenInv, PublishStep
  <1>19. CASE OperatorTurnsKnob
    <2>1. panel' \in Panels /\ hlSeen' = Shown(panel') /\ hl' = hl /\ hlStream' = hlStream
      BY <1>19 DEF OperatorTurnsKnob
    <2>2. panel' \in Radios
      BY <2>1, PanelAssumption DEF Radios
    <2>3. Truthful(hl, hlStream, hlSeen')
      BY <1>2, <2>1, MoreIsSeen, ForgetsWhatWasSeen
    <2>4. QED BY <1>2, <2>1, <2>2, <2>3, MoreIsSeen DEF HamlibSeenInv, PublishStep
  <1>20. QED
    BY <1>1, <1>5, <1>6, <1>7, <1>8, <1>9, <1>10, <1>11, <1>12, <1>13, <1>14, <1>15, <1>16, <1>17,
       <1>18, <1>19 DEF HamlibNext

(* publishPoll, for every behaviour: a state that is published holds a     *)
(* frequency and a split state that the radio had after its poll began.    *)
(* The invariant says which lines on their way are the answer to which     *)
(* request, and that what is pending was seen.                             *)
THEOREM PollTellsWhatWasSeen == HamlibSpec => PublishesWhatWasSeen
  <1>1. PublishStep => [hl'.state # hl.state /\ hl'.state.avail = Known =>
           /\ hl'.state.rx.val \in hlSeen.rx
           /\ \E split \in hlSeen.split :
                hl'.state.split = Read(IF split THEN "Enabled" ELSE "Disabled")]_hlVars
    BY DEF PublishStep, Published
  <1>2. QED BY <1>1, InitSeen, StepSeen, PTL DEF HamlibSpec, PublishesWhatWasSeen

-----------------------------------------------------------------------------
(***************************************************************************)
(* The client of a CAT4OM group catches up, whatever the group leaves out. *)
(***************************************************************************)
CatActions == {"getAllState", "getOwnership", "setFrequency", "setMode", "setSplit"}
CatRequests == [id : Nat, action : CatActions]
CatMessages ==
  [type : {"error", "welcome", "stateUpdate", "ownershipChanged", "response"}, good : BOOLEAN,
   instance : {1, 2}, seq : Nat, mine : BOOLEAN, radios : UNION {[S -> CatRadios] : S \in SUBSET RadioIds},
   full : BOOLEAN, id : Nat]
GroupType == group \in [instance : {1, 2}, seq : Nat, radios : Reported, mine : BOOLEAN]

(* The shape of a client; what it holds of the group is not looked at.     *)
CatFormed(d) ==
  d \in [user : BOOLEAN, observer : BOOLEAN, configured : {d.configured},
         socket : {"closed", "opening", "open"}, welcomed : BOOLEAN,
         role : {"Unknown", "Observer", "Master", "Slave"}, instance : {d.instance},
         sequence : {d.sequence}, radios : {d.radios}, selected : {d.selected},
         pending : {d.pending}, sent : {d.sent}, handshake : BOOLEAN, inactivity : BOOLEAN,
         reconnect : BOOLEAN, attempt : {d.attempt}]

(* What Cat4OmInv says of the client alone, and that it forgets with the   *)
(* connection what it had sent.                                            *)
Alive(d) ==
  /\ ~d.user => (d.socket = "closed" <=> d.reconnect)
  /\ d.user => d.socket = "closed" /\ ~d.reconnect
  /\ d.socket = "open" => IF d.welcomed THEN d.inactivity ELSE d.handshake
  /\ ~d.welcomed => d.role = "Unknown" /\ d.pending = NoActions /\ d.sent = <<>>
  /\ d.socket # "open" => ~d.welcomed /\ ~d.handshake /\ ~d.inactivity
  /\ d.observer => d.role \notin {"Master", "Slave"} /\ d.pending = NoActions

(* A word of w is what a message says, alone in a set, or no word at all.  *)
(* The last of the n that says something says now, and if none does it is  *)
(* what is held already.                                                   *)
Tells(n, w, held, now) ==
  /\ (\A i \in 1..n : w[i] = {}) => held = now
  /\ \A i \in 1..n : w[i] # {} /\ (\A j \in i + 1..n : w[j] = {}) => w[i] = {now}

(* What a message says of the mastership and of a radio, to a client that  *)
(* waits for the answers p.                                                *)
MasterOrSlave(mine) == IF mine THEN "Master" ELSE "Slave"
RoleWord(p, m) ==
  IF m.type \in {"stateUpdate", "ownershipChanged"} THEN {MasterOrSlave(m.mine)}
  ELSE IF m.type = "response" /\ m.good /\ p[m.id] = "getOwnership" THEN {"Master"} ELSE {}
RadioWord(p, m, id) ==
  IF m.type = "stateUpdate" THEN {m.radios[i] : i \in {id} \cap DOMAIN m.radios}
  ELSE IF m.type = "response" /\ m.good /\ p[m.id] = "getAllState" THEN {m.radios[id]} ELSE {}
RoleWords(p, q) == [i \in 1..Len(q) |-> RoleWord(p, q[i])]
RadioWords(p, q, id) == [i \in 1..Len(q) |-> RadioWord(p, q[i], id)]

Updates(q) == {i \in 1..Len(q) : q[i].type = "stateUpdate"}
Responses(q) == {i \in 1..Len(q) : q[i].type = "response"}

(* The numbers go up; the last was sent unless it was left out; and none   *)
(* is missing from what the client will read when it has read them all.    *)
InOrder(number, q, g) ==
  /\ number \in 0..g.seq
  /\ \A i \in Updates(q) : number < q[i].seq /\ q[i].seq <= g.seq
  /\ \A i, j \in Updates(q) : i < j => q[i].seq < q[j].seq
Latest(number, q, g) == number = g.seq \/ \E i \in Updates(q) : q[i].seq = g.seq
Complete(number, q, g) == \A n \in number + 1..g.seq : \E i \in Updates(q) : q[i].seq = n

(* A request is waited for until its one answer is read.                   *)
Answerable(p, sent, q) ==
  /\ IsFiniteSet(DOMAIN p) /\ sent \in Seq(CatRequests)
  /\ \A k \in 1..Len(sent) : sent[k].id \in DOMAIN p /\ p[sent[k].id] = sent[k].action
  /\ \A k, l \in 1..Len(sent) : k # l => sent[k].id # sent[l].id
  /\ \A i \in Responses(q) : q[i].id \in DOMAIN p
  /\ \A i, j \in Responses(q) : i # j => q[i].id # q[j].id
  /\ \A i \in Responses(q), k \in 1..Len(sent) : q[i].id # sent[k].id
Owes(sent) == \E k \in 1..Len(sent) : sent[k].action = "getAllState"

(* A welcomed client d with the messages q before it.                      *)
WellSent(q) ==
  /\ q \in Seq(CatMessages)
  /\ \A i \in 1..Len(q) :
       /\ q[i].type \in {"stateUpdate", "ownershipChanged", "response"}
       /\ (q[i].type = "stateUpdate" /\ q[i].full) \/ q[i].type = "response" => q[i].radios \in Reported
Tracks(d, q, g, lost) ==
  /\ WellSent(q) /\ d.radios \in Reported
  /\ InOrder(d.sequence, q, g)
  /\ ~lost => Latest(d.sequence, q, g)
  /\ Answerable(d.pending, d.sent, q)
  /\ ~d.observer =>
       /\ Tells(Len(q), RoleWords(d.pending, q), d.role, MasterOrSlave(g.mine))
       /\ Complete(d.sequence, q, g) /\ ~Owes(d.sent) =>
            \A id \in RadioIds : Tells(Len(q), RadioWords(d.pending, q, id), d.radios[id], g.radios[id])

(* A welcome that is about to be read makes a client that tracks the group. *)
CatIInv ==
  /\ CatFormed(cat) /\ Alive(cat) /\ GroupType /\ catIn \in Seq(CatMessages) /\ catLost \in BOOLEAN
  /\ cat.socket # "open" => catIn = <<>>
  /\ cat.welcomed => Tracks(cat, catIn, group, catLost)
  /\ ~cat.welcomed /\ catIn # <<>> /\ catIn[1].type = "welcome" =>
       /\ catIn[1].radios \in Reported
       /\ catIn[1].good => Tracks(HandleWelcome(cat, catIn[1]), Tail(catIn), group, catLost)

(* The first of the words is taken for what is held.                       *)
LEMMA TellsNext ==
  ASSUME NEW n \in Nat, NEW w, NEW v, \A i \in 1..n : v[i] = w[i + 1],
         NEW held, NEW now, Tells(n + 1, w, held, now),
         NEW taken, (w[1] = {} /\ taken = held) \/ w[1] = {taken}
  PROVE  Tells(n, v, taken, now)
  <1>1. ASSUME \A i \in 1..n : v[i] = {}
        PROVE  taken = now
    <2>1. \A i \in 2..n + 1 : i - 1 \in 1..n /\ w[i] = v[i - 1]
      OBVIOUS
    <2>2. \A i \in 2..n + 1 : w[i] = {}
      BY <1>1, <2>1
    <2>3. CASE w[1] = {} /\ taken = held
      <3>1. \A i \in 1..n + 1 : w[i] = {}
        BY <2>2, <2>3
      <3>2. QED BY <2>3, <3>1 DEF Tells
    <2>4. CASE w[1] = {taken}
      <3>1. 1 \in 1..n + 1 /\ w[1] # {} /\ \A j \in 1 + 1..n + 1 : w[j] = {}
        BY <2>2, <2>4
      <3>2. w[1] = {now}
        BY <3>1 DEF Tells
      <3>3. QED BY <2>4, <3>2
    <2>5. QED BY <2>3, <2>4
  <1>2. ASSUME NEW i \in 1..n, v[i] # {}, \A j \in i + 1..n : v[j] = {}
        PROVE  v[i] = {now}
    <2>1. i + 1 \in 1..n + 1 /\ w[i + 1] # {}
      BY <1>2
    <2>2. \A j \in (i + 1) + 1..n + 1 : j - 1 \in i + 1..n /\ j - 1 \in 1..n /\ (j - 1) + 1 = j
      OBVIOUS
    <2>3. \A j \in (i + 1) + 1..n + 1 : w[j] = {}
      BY <1>2, <2>2
    <2>4. w[i + 1] = {now}
      BY <2>1, <2>3 DEF Tells
    <2>5. QED BY <2>4
  <1>3. QED BY <1>1, <1>2 DEF Tells

(* What is said last is what is told, whatever came before.                *)
LEMMA TellsLast ==
  ASSUME NEW n \in Nat, NEW w, NEW held, NEW now, w[n + 1] = {now}
  PROVE  Tells(n + 1, w, held, now)
  <1>1. n + 1 \in 1..n + 1 /\ w[n + 1] # {}
    OBVIOUS
  <1>2. ASSUME NEW i \in 1..n + 1, w[i] # {}, \A j \in i + 1..n + 1 : w[j] = {}
        PROVE  w[i] = {now}
    <2>1. ~(i < n + 1)
      BY <1>1, <1>2
    <2>2. QED BY <2>1
  <1>3. QED BY <1>1, <1>2 DEF Tells

(* A message that says nothing changes nothing.                            *)
LEMMA TellsAgain ==
  ASSUME NEW n \in Nat, NEW w, NEW v, \A i \in 1..n : v[i] = w[i], v[n + 1] = {},
         NEW held, NEW now, Tells(n, w, held, now)
  PROVE  Tells(n + 1, v, held, now)
  <1>1. ASSUME \A i \in 1..n + 1 : v[i] = {}
        PROVE  held = now
    <2>1. \A i \in 1..n : w[i] = {}
      BY <1>1
    <2>2. QED BY <2>1 DEF Tells
  <1>2. ASSUME NEW i \in 1..n + 1, v[i] # {}, \A j \in i + 1..n + 1 : v[j] = {}
        PROVE  v[i] = {now}
    <2>1. i \in 1..n /\ w[i] # {}
      BY <1>2
    <2>2. \A j \in i + 1..n : w[j] = {}
      BY <1>2
    <2>3. w[i] = {now}
      BY <2>1, <2>2 DEF Tells
    <2>4. QED BY <2>1, <2>3
  <1>3. QED BY <1>1, <1>2 DEF Tells

LEMMA SameWords ==
  ASSUME NEW n \in Nat, NEW w, NEW v, \A i \in 1..n : v[i] = w[i],
         NEW held, NEW now, Tells(n, w, held, now)
  PROVE  Tells(n, v, held, now)
  <1>1. \A i \in 1..n : \A j \in i + 1..n : j \in 1..n
    OBVIOUS
  <1>2. QED BY <1>1 DEF Tells

(* The words of the messages, one by one.                                  *)
LEMMA WordsOf ==
  ASSUME NEW p, NEW q, NEW i \in 1..Len(q)
  PROVE  /\ RoleWords(p, q)[i] = RoleWord(p, q[i])
         /\ \A id : RadioWords(p, q, id)[i] = RadioWord(p, q[i], id)
  BY DEF RoleWords, RadioWords

LEMMA AppendedMessage ==
  ASSUME NEW q \in Seq(CatMessages), NEW m \in CatMessages, NEW s, s = Append(q, m)
  PROVE  /\ s \in Seq(CatMessages) /\ Len(q) \in Nat /\ Len(s) = Len(q) + 1
         /\ \A i \in 1..Len(q) : s[i] = q[i] /\ q[i] \in CatMessages
         /\ s[Len(q) + 1] = m
  OBVIOUS

(* s says what q says, and m after it.                                     *)
SaysMore(p, s, q, m) ==
  /\ \A i \in 1..Len(q) : RoleWords(p, s)[i] = RoleWords(p, q)[i]
  /\ RoleWords(p, s)[Len(q) + 1] = RoleWord(p, m)
  /\ \A id : \A i \in 1..Len(q) : RadioWords(p, s, id)[i] = RadioWords(p, q, id)[i]
  /\ \A id : RadioWords(p, s, id)[Len(q) + 1] = RadioWord(p, m, id)

LEMMA WordsOfAppend ==
  ASSUME NEW q \in Seq(CatMessages), NEW m \in CatMessages, NEW p, NEW s, s = Append(q, m)
  PROVE  SaysMore(p, s, q, m)
  <1>1. /\ Len(q) \in Nat /\ Len(s) = Len(q) + 1
        /\ \A i \in 1..Len(q) : s[i] = q[i]
        /\ s[Len(q) + 1] = m
    BY AppendedMessage
  <1>2. \A i \in 1..Len(q) : i \in 1..Len(s)
    BY <1>1
  <1>3. Len(q) + 1 \in 1..Len(s)
    BY <1>1
  <1>4. ASSUME NEW i \in 1..Len(q)
        PROVE  /\ RoleWords(p, s)[i] = RoleWords(p, q)[i]
               /\ \A id : RadioWords(p, s, id)[i] = RadioWords(p, q, id)[i]
    BY <1>1, <1>2 DEF RoleWords, RadioWords
  <1>5. RoleWords(p, s)[Len(q) + 1] = RoleWord(p, m)
    BY <1>1, <1>3 DEF RoleWords
  <1>6. ASSUME NEW id
        PROVE  RadioWords(p, s, id)[Len(q) + 1] = RadioWord(p, m, id)
    BY <1>1, <1>3 DEF RadioWords
  <1>7. QED BY <1>4, <1>5, <1>6 DEF SaysMore

(* s is q without its first message.                                       *)
Follows(s, q) ==
  /\ s \in Seq(CatMessages) /\ Len(s) \in Nat /\ Len(q) = Len(s) + 1
  /\ q[1] \in CatMessages
  /\ \A i \in 1..Len(s) : s[i] = q[i + 1] /\ i + 1 \in 1..Len(q)
SaysTheRest(p, s, q) ==
  /\ \A i \in 1..Len(s) : RoleWords(p, s)[i] = RoleWords(p, q)[i + 1]
  /\ \A id : \A i \in 1..Len(s) : RadioWords(p, s, id)[i] = RadioWords(p, q, id)[i + 1]

LEMMA WordsOfTail ==
  ASSUME NEW q \in Seq(CatMessages), q # <<>>, NEW p, NEW s, s = Tail(q)
  PROVE  Follows(s, q) /\ SaysTheRest(p, s, q)
  <1>1. /\ s \in Seq(CatMessages) /\ Len(s) \in Nat /\ Len(q) = Len(s) + 1
        /\ q[1] \in CatMessages
        /\ \A i \in 1..Len(s) : s[i] = q[i + 1]
    BY HeadTailProperties
  <1>2. \A i \in 1..Len(s) : i + 1 \in 1..Len(q)
    BY <1>1
  <1>3. ASSUME NEW i \in 1..Len(s)
        PROVE  /\ RoleWords(p, s)[i] = RoleWords(p, q)[i + 1]
               /\ \A id : RadioWords(p, s, id)[i] = RadioWords(p, q, id)[i + 1]
    BY <1>1, <1>2 DEF RoleWords, RadioWords
  <1>4. QED BY <1>1, <1>2, <1>3 DEF Follows, SaysTheRest

(* A message more of the group, that is not a response.                    *)
LEMMA WellSentMore ==
  ASSUME NEW q, WellSent(q), NEW m \in CatMessages,
         m.type \in {"stateUpdate", "ownershipChanged", "response"},
         (m.type = "stateUpdate" /\ m.full) \/ m.type = "response" => m.radios \in Reported,
         NEW s, s = Append(q, m)
  PROVE  WellSent(s)
  <1>1. q \in Seq(CatMessages)
    BY DEF WellSent
  <1>2. /\ s \in Seq(CatMessages) /\ Len(q) \in Nat /\ Len(s) = Len(q) + 1
        /\ \A i \in 1..Len(q) : s[i] = q[i]
        /\ s[Len(q) + 1] = m
    BY <1>1, AppendedMessage
  <1>3. \A i \in 1..Len(s) : i \in 1..Len(q) \/ i = Len(q) + 1
    BY <1>2
  <1>4. QED BY <1>2, <1>3 DEF WellSent

LEMMA AnswerableMore ==
  ASSUME NEW p, NEW sent, NEW q \in Seq(CatMessages), Answerable(p, sent, q),
         NEW m \in CatMessages, m.type # "response", NEW s, s = Append(q, m)
  PROVE  Answerable(p, sent, s)
  <1>1. /\ Len(q) \in Nat /\ Len(s) = Len(q) + 1
        /\ \A i \in 1..Len(q) : s[i] = q[i]
        /\ s[Len(q) + 1] = m
    BY AppendedMessage
  <1>2. \A i \in 1..Len(s) : i \in 1..Len(q) \/ i = Len(q) + 1
    BY <1>1
  <1>3. \A i \in Responses(s) : i \in Responses(q) /\ s[i] = q[i]
    BY <1>1, <1>2 DEF Responses
  <1>4. /\ \A i \in Responses(s) : s[i].id \in DOMAIN p
        /\ \A i, j \in Responses(s) : i # j => s[i].id # s[j].id
        /\ \A i \in Responses(s), k \in 1..Len(sent) : s[i].id # sent[k].id
    <2>1. /\ \A i \in Responses(q) : q[i].id \in DOMAIN p
          /\ \A i, j \in Responses(q) : i # j => q[i].id # q[j].id
          /\ \A i \in Responses(q), k \in 1..Len(sent) : q[i].id # sent[k].id
      BY DEF Answerable
    <2>2. \A i \in Responses(s) : s[i].id \in DOMAIN p
      BY <1>3, <2>1
    <2>3. ASSUME NEW i \in Responses(s), NEW j \in Responses(s), i # j
          PROVE  s[i].id # s[j].id
      BY <1>3, <2>1, <2>3
    <2>4. ASSUME NEW i \in Responses(s), NEW k \in 1..Len(sent)
          PROVE  s[i].id # sent[k].id
      BY <1>3, <2>1
    <2>5. QED BY <2>2, <2>3, <2>4
  <1>5. QED BY <1>4 DEF Answerable

UpdatesAndOne(s, q, m) ==
  /\ \A i \in Updates(q) : i \in Updates(s) /\ s[i] = q[i] /\ i \in 1..Len(q)
  /\ \A i \in Updates(s) : (i \in Updates(q) /\ s[i] = q[i]) \/ (i = Len(q) + 1 /\ s[i] = m)
  /\ m.type = "stateUpdate" => Len(q) + 1 \in Updates(s)
  /\ m.type # "stateUpdate" => \A i \in Updates(s) : i \in Updates(q) /\ s[i] = q[i]

LEMMA UpdateNumbers ==
  ASSUME NEW q \in Seq(CatMessages)
  PROVE  \A i \in Updates(q) : q[i].seq \in Nat /\ q[i] \in CatMessages /\ i \in 1..Len(q)
  <1>1. \A i \in Updates(q) : q[i] \in CatMessages /\ i \in 1..Len(q)
    BY DEF Updates
  <1>2. \A m \in CatMessages : m.seq \in Nat
    BY DEF CatMessages
  <1>3. QED BY <1>1, <1>2

LEMMA UpdatesMore ==
  ASSUME NEW q \in Seq(CatMessages), NEW m \in CatMessages, NEW s, s = Append(q, m)
  PROVE  UpdatesAndOne(s, q, m)
  <1>1. /\ Len(q) \in Nat /\ Len(s) = Len(q) + 1
        /\ \A i \in 1..Len(q) : s[i] = q[i]
        /\ s[Len(q) + 1] = m
    BY AppendedMessage
  <1>2. \A i \in 1..Len(s) : i \in 1..Len(q) \/ i = Len(q) + 1
    BY <1>1
  <1>3. \A i \in 1..Len(q) : i \in 1..Len(s)
    BY <1>1
  <1>4. Len(q) + 1 \in 1..Len(s)
    BY <1>1
  <1>5. QED BY <1>1, <1>2, <1>3, <1>4 DEF Updates, UpdatesAndOne

(* What is no update leaves the numbers as they are.                       *)
LEMMA NumbersStay ==
  ASSUME NEW q \in Seq(CatMessages), NEW m \in CatMessages, m.type # "stateUpdate",
         NEW s, s = Append(q, m), NEW number, NEW g, NEW h, h.seq = g.seq
  PROVE  /\ InOrder(number, q, g) => InOrder(number, s, h)
         /\ Latest(number, q, g) => Latest(number, s, h)
         /\ Complete(number, s, h) => Complete(number, q, g)
  <1>1. /\ \A i \in Updates(q) : i \in Updates(s) /\ s[i] = q[i]
        /\ \A i \in Updates(s) : i \in Updates(q) /\ s[i] = q[i]
    <2>1. UpdatesAndOne(s, q, m)
      BY UpdatesMore
    <2>2. QED BY <2>1 DEF UpdatesAndOne
  <1>2. InOrder(number, q, g) => InOrder(number, s, h)
    BY <1>1 DEF InOrder
  <1>3. Latest(number, q, g) => Latest(number, s, h)
    BY <1>1 DEF Latest
  <1>4. Complete(number, s, h) => Complete(number, q, g)
    <2>1. SUFFICES ASSUME Complete(number, s, h), NEW n \in number + 1..g.seq
                   PROVE  \E i \in Updates(q) : q[i].seq = n
      BY DEF Complete
    <2>2. PICK i \in Updates(s) : s[i].seq = n
      BY <2>1 DEF Complete
    <2>3. i \in Updates(q) /\ q[i].seq = n
      BY <1>1, <2>2
    <2>4. QED BY <2>3
  <1>5. QED BY <1>2, <1>3, <1>4

Groups == [instance : {1, 2}, seq : Nat, radios : Reported, mine : BOOLEAN]

(* A radio changes and the update that says so is sent.                    *)
LEMMA UpdateIsTracked ==
  ASSUME NEW d, NEW q, NEW lost, NEW g \in Groups, Tracks(d, q, g, lost),
         NEW h \in Groups, h.seq = g.seq + 1, h.mine = g.mine,
         NEW m \in CatMessages, m.type = "stateUpdate", m.seq = h.seq, m.mine = h.mine,
         m.full => m.radios \in Reported,
         \A i \in DOMAIN m.radios : m.radios[i] = h.radios[i],
         \A i \in RadioIds \ DOMAIN m.radios : h.radios[i] = g.radios[i],
         NEW s, s = Append(q, m)
  PROVE  Tracks(d, s, h, FALSE)
  <1>1. q \in Seq(CatMessages) /\ WellSent(q)
    BY DEF Tracks, WellSent
  <1>2. WellSent(s) /\ Len(q) \in Nat /\ Len(s) = Len(q) + 1
    <2>1. WellSent(s)
      BY <1>1, WellSentMore
    <2>2. QED BY <1>1, <2>1, AppendedMessage
  <1>3. /\ \A i \in Updates(q) : i \in Updates(s) /\ s[i] = q[i] /\ i \in 1..Len(q)
        /\ \A i \in Updates(s) : (i \in Updates(q) /\ s[i] = q[i]) \/ (i = Len(q) + 1 /\ s[i] = m)
        /\ Len(q) + 1 \in Updates(s)
    <2>1. UpdatesAndOne(s, q, m)
      BY <1>1, UpdatesMore
    <2>2. QED BY <2>1 DEF UpdatesAndOne
  <1>4. s[Len(q) + 1] = m
    BY <1>1, AppendedMessage
  <1>5. g.seq \in Nat /\ h.seq \in Nat /\ m.seq = g.seq + 1
    BY DEF Groups
  <1>6. /\ d.sequence \in 0..g.seq
        /\ \A i \in Updates(q) : d.sequence < q[i].seq /\ q[i].seq <= g.seq
        /\ \A i, j \in Updates(q) : i < j => q[i].seq < q[j].seq
    BY DEF Tracks, InOrder
  <1>7. \A i \in Updates(q) : q[i].seq \in Nat
    BY <1>1, UpdateNumbers
  <1>8. InOrder(d.sequence, s, h)
    <2>1. d.sequence \in 0..h.seq
      BY <1>5, <1>6
    <2>2. ASSUME NEW i \in Updates(s)
          PROVE  d.sequence < s[i].seq /\ s[i].seq <= h.seq
      BY <1>3, <1>5, <1>6, <1>7
    <2>3. ASSUME NEW i \in Updates(s), NEW j \in Updates(s), i < j
          PROVE  s[i].seq < s[j].seq
      <3>1. i \in Updates(q) /\ s[i] = q[i]
        <4>1. i \in Int /\ j \in Int /\ j <= Len(q) + 1
          BY <1>2 DEF Updates
        <4>2. i # Len(q) + 1
          BY <1>2, <2>3, <4>1
        <4>3. QED BY <1>3, <4>2
      <3>2. CASE j \in Updates(q) /\ s[j] = q[j]
        BY <1>6, <2>3, <3>1, <3>2
      <3>3. CASE s[j] = m
        BY <1>5, <1>6, <1>7, <3>1, <3>3
      <3>4. QED BY <1>3, <3>2, <3>3
    <2>4. QED BY <2>1, <2>2, <2>3 DEF InOrder
  <1>9. Latest(d.sequence, s, h)
    BY <1>3, <1>4 DEF Latest
  <1>10. Answerable(d.pending, d.sent, s)
    <2>1. Answerable(d.pending, d.sent, q)
      BY DEF Tracks
    <2>2. m.type # "response"
      OBVIOUS
    <2>3. QED BY <1>1, <2>1, <2>2, AnswerableMore
  <1>11. ASSUME ~d.observer
         PROVE  Tells(Len(s), RoleWords(d.pending, s), d.role, MasterOrSlave(h.mine))
    <2>1. RoleWords(d.pending, s)[Len(q) + 1] = RoleWord(d.pending, m)
      <3>1. SaysMore(d.pending, s, q, m)
        BY <1>1, WordsOfAppend
      <3>2. QED BY <3>1 DEF SaysMore
    <2>2. RoleWord(d.pending, m) = {MasterOrSlave(h.mine)}
      BY DEF RoleWord
    <2>3. RoleWords(d.pending, s)[Len(q) + 1] = {MasterOrSlave(h.mine)} /\ Len(q) \in Nat
      BY <1>2, <2>1, <2>2
    <2>4. Tells(Len(q) + 1, RoleWords(d.pending, s), d.role, MasterOrSlave(h.mine))
      BY <2>3, TellsLast
    <2>5. QED BY <1>2, <2>4
  <1>12. ASSUME ~d.observer, Complete(d.sequence, s, h), ~Owes(d.sent), NEW id \in RadioIds
         PROVE  Tells(Len(s), RadioWords(d.pending, s, id), d.radios[id], h.radios[id])
    <2>1. Complete(d.sequence, q, g)
      <3>1. SUFFICES ASSUME NEW n \in d.sequence + 1..g.seq
                     PROVE  \E i \in Updates(q) : q[i].seq = n
        BY DEF Complete
      <3>2. n \in d.sequence + 1..h.seq /\ n # m.seq
        BY <1>5, <1>6
      <3>3. PICK i \in Updates(s) : s[i].seq = n
        BY <1>12, <3>2 DEF Complete
      <3>4. s[i] # m
        BY <3>2, <3>3
      <3>5. QED BY <1>3, <3>3, <3>4
    <2>2. Tells(Len(q), RadioWords(d.pending, q, id), d.radios[id], g.radios[id])
      BY <1>12, <2>1 DEF Tracks
    <2>3. /\ \A i \in 1..Len(q) : RadioWords(d.pending, s, id)[i] = RadioWords(d.pending, q, id)[i]
          /\ RadioWords(d.pending, s, id)[Len(q) + 1] = RadioWord(d.pending, m, id)
      <3>1. SaysMore(d.pending, s, q, m)
        BY <1>1, WordsOfAppend
      <3>2. QED BY <3>1 DEF SaysMore
    <2>4. RadioWord(d.pending, m, id) = {m.radios[i] : i \in {id} \cap DOMAIN m.radios}
      BY DEF RadioWord
    <2>5. CASE id \in DOMAIN m.radios
      <3>1. RadioWord(d.pending, m, id) = {h.radios[id]}
        BY <2>4, <2>5
      <3>2. QED BY <1>2, <2>3, <3>1, TellsLast
    <2>6. CASE id \notin DOMAIN m.radios
      <3>1. RadioWord(d.pending, m, id) = {} /\ h.radios[id] = g.radios[id]
        BY <2>4, <2>6
      <3>2. QED BY <1>2, <2>2, <2>3, <3>1, TellsAgain
    <2>7. QED BY <2>5, <2>6
  <1>13. QED BY <1>2, <1>8, <1>9, <1>10, <1>11, <1>12 DEF Tracks

(* An update that is left out is missed until another number is sent.      *)
LEMMA LossIsTracked ==
  ASSUME NEW d, NEW q, NEW lost, NEW g \in Groups, Tracks(d, q, g, lost),
         NEW h \in Groups, h.seq = g.seq + 1, h.mine = g.mine
  PROVE  Tracks(d, q, h, TRUE)
  <1>1. g.seq \in Nat /\ h.seq \in Nat
    BY DEF Groups
  <1>2. /\ d.sequence \in 0..g.seq
        /\ \A i \in Updates(q) : d.sequence < q[i].seq /\ q[i].seq <= g.seq
        /\ \A i, j \in Updates(q) : i < j => q[i].seq < q[j].seq
    BY DEF Tracks, InOrder
  <1>3. \A i \in Updates(q) : q[i].seq \in Nat
    <2>1. q \in Seq(CatMessages)
      BY DEF Tracks, WellSent
    <2>2. QED BY <2>1, UpdateNumbers
  <1>4. InOrder(d.sequence, q, h)
    <2>1. d.sequence \in 0..h.seq
      BY <1>1, <1>2
    <2>2. \A i \in Updates(q) : q[i].seq <= h.seq
      BY <1>1, <1>2, <1>3
    <2>3. QED BY <1>2, <2>1, <2>2 DEF InOrder
  <1>5. ~Complete(d.sequence, q, h)
    <2>1. h.seq \in d.sequence + 1..h.seq
      BY <1>1, <1>2
    <2>2. \A i \in Updates(q) : q[i].seq # h.seq
      BY <1>1, <1>2, <1>3
    <2>3. QED BY <2>1, <2>2 DEF Complete
  <1>6. QED BY <1>4, <1>5 DEF Tracks

LEMMA OwnershipIsTracked ==
  ASSUME NEW d, NEW q, NEW lost, NEW g \in Groups, Tracks(d, q, g, lost),
         NEW h \in Groups, h.seq = g.seq, h.radios = g.radios,
         NEW m \in CatMessages, m.type = "ownershipChanged", m.mine = h.mine,
         NEW s, s = Append(q, m)
  PROVE  Tracks(d, s, h, lost)
  <1>1. q \in Seq(CatMessages) /\ WellSent(q)
    BY DEF Tracks, WellSent
  <1>2. WellSent(s) /\ Len(q) \in Nat /\ Len(s) = Len(q) + 1
    <2>1. WellSent(s)
      BY <1>1, WellSentMore
    <2>2. QED BY <1>1, <2>1, AppendedMessage
  <1>3. /\ InOrder(d.sequence, s, h) /\ (~lost => Latest(d.sequence, s, h))
        /\ Complete(d.sequence, s, h) => Complete(d.sequence, q, g)
    <2>1. m.type # "stateUpdate"
      OBVIOUS
    <2>2. QED BY <1>1, <2>1, NumbersStay DEF Tracks
  <1>4. Answerable(d.pending, d.sent, s)
    <2>1. Answerable(d.pending, d.sent, q)
      BY DEF Tracks
    <2>2. m.type # "response"
      OBVIOUS
    <2>3. QED BY <1>1, <2>1, <2>2, AnswerableMore
  <1>5. ASSUME ~d.observer
        PROVE  Tells(Len(s), RoleWords(d.pending, s), d.role, MasterOrSlave(h.mine))
    <2>1. RoleWords(d.pending, s)[Len(q) + 1] = RoleWord(d.pending, m)
      <3>1. SaysMore(d.pending, s, q, m)
        BY <1>1, WordsOfAppend
      <3>2. QED BY <3>1 DEF SaysMore
    <2>2. RoleWord(d.pending, m) = {MasterOrSlave(h.mine)}
      BY DEF RoleWord
    <2>3. RoleWords(d.pending, s)[Len(q) + 1] = {MasterOrSlave(h.mine)} /\ Len(q) \in Nat
      BY <1>2, <2>1, <2>2
    <2>4. Tells(Len(q) + 1, RoleWords(d.pending, s), d.role, MasterOrSlave(h.mine))
      BY <2>3, TellsLast
    <2>5. QED BY <1>2, <2>4
  <1>6. ASSUME ~d.observer, Complete(d.sequence, s, h), ~Owes(d.sent), NEW id \in RadioIds
        PROVE  Tells(Len(s), RadioWords(d.pending, s, id), d.radios[id], h.radios[id])
    <2>1. Tells(Len(q), RadioWords(d.pending, q, id), d.radios[id], g.radios[id])
      BY <1>3, <1>6 DEF Tracks
    <2>2. /\ \A i \in 1..Len(q) : RadioWords(d.pending, s, id)[i] = RadioWords(d.pending, q, id)[i]
          /\ RadioWords(d.pending, s, id)[Len(q) + 1] = RadioWord(d.pending, m, id)
      <3>1. SaysMore(d.pending, s, q, m)
        BY <1>1, WordsOfAppend
      <3>2. QED BY <3>1 DEF SaysMore
    <2>3. RadioWord(d.pending, m, id) = {}
      BY DEF RadioWord
    <2>4. QED BY <1>2, <2>1, <2>2, <2>3, TellsAgain
  <1>7. QED BY <1>2, <1>3, <1>4, <1>5, <1>6 DEF Tracks

(* The server answers the first request; a request that is refused still   *)
(* has its answer, and a snapshot tells of every radio.                    *)
LEMMA AnswerIsTracked ==
  ASSUME NEW d, NEW q, NEW lost, NEW g \in Groups, Tracks(d, q, g, lost), d.sent # <<>>,
         NEW request, request = d.sent[1],
         NEW m \in CatMessages, m.type = "response", m.id = request.id,
         m.radios = g.radios, request.action = "getAllState" => m.good,
         NEW h \in Groups, h.seq = g.seq, h.radios = g.radios,
         h.mine = (g.mine \/ (m.good /\ request.action = "getOwnership" /\ ~d.observer)),
         NEW s, s = Append(q, m), NEW e, e.sent = Tail(d.sent), e.pending = d.pending,
         e.radios = d.radios, e.sequence = d.sequence, e.role = d.role, e.observer = d.observer
  PROVE  Tracks(e, s, h, lost)
  <1>1. q \in Seq(CatMessages) /\ WellSent(q)
    BY DEF Tracks, WellSent
  <1>2. WellSent(s) /\ Len(q) \in Nat /\ Len(s) = Len(q) + 1
    <2>1. m.radios \in Reported
      BY DEF Groups
    <2>2. WellSent(s)
      BY <1>1, <2>1, WellSentMore
    <2>3. QED BY <1>1, <2>2, AppendedMessage
  <1>3. /\ InOrder(e.sequence, s, h) /\ (~lost => Latest(e.sequence, s, h))
        /\ Complete(e.sequence, s, h) => Complete(d.sequence, q, g)
    <2>1. m.type # "stateUpdate"
      OBVIOUS
    <2>2. QED BY <1>1, <2>1, NumbersStay DEF Tracks
  <1>4. /\ IsFiniteSet(DOMAIN d.pending) /\ d.sent \in Seq(CatRequests)
        /\ \A k \in 1..Len(d.sent) : d.sent[k].id \in DOMAIN d.pending /\ d.pending[d.sent[k].id] = d.sent[k].action
        /\ \A k, l \in 1..Len(d.sent) : k # l => d.sent[k].id # d.sent[l].id
        /\ \A i \in Responses(q) : q[i].id \in DOMAIN d.pending
        /\ \A i, j \in Responses(q) : i # j => q[i].id # q[j].id
        /\ \A i \in Responses(q), k \in 1..Len(d.sent) : q[i].id # d.sent[k].id
    BY DEF Tracks, Answerable
  <1>5. /\ e.sent \in Seq(CatRequests) /\ Len(e.sent) \in Nat /\ Len(d.sent) = Len(e.sent) + 1
        /\ \A k \in 1..Len(e.sent) : e.sent[k] = d.sent[k + 1]
    BY <1>4, HeadTailProperties
  <1>6. /\ 1 \in 1..Len(d.sent)
        /\ \A k \in 1..Len(e.sent) : k + 1 \in 1..Len(d.sent) /\ k + 1 # 1
    BY <1>5
  <1>7. m.id \in DOMAIN d.pending /\ d.pending[m.id] = request.action
    BY <1>4, <1>6
  <1>8. \A i \in Responses(s) : (i \in Responses(q) /\ s[i] = q[i] /\ i \in 1..Len(q)) \/ (i = Len(q) + 1 /\ s[i] = m)
    <2>1. /\ \A i \in 1..Len(q) : s[i] = q[i]
          /\ s[Len(q) + 1] = m
      BY <1>1, AppendedMessage
    <2>2. \A i \in 1..Len(s) : i \in 1..Len(q) \/ i = Len(q) + 1
      BY <1>2
    <2>3. QED BY <2>1, <2>2 DEF Responses
  <1>9. Answerable(e.pending, e.sent, s)
    <2>1. ASSUME NEW k \in 1..Len(e.sent)
          PROVE  /\ e.sent[k].id \in DOMAIN d.pending /\ d.pending[e.sent[k].id] = e.sent[k].action
                 /\ e.sent[k].id # m.id
      BY <1>4, <1>5, <1>6
    <2>2. ASSUME NEW k \in 1..Len(e.sent), NEW l \in 1..Len(e.sent), k # l
          PROVE  e.sent[k].id # e.sent[l].id
      <3>1. k + 1 \in 1..Len(d.sent) /\ l + 1 \in 1..Len(d.sent) /\ k + 1 # l + 1
        BY <1>6, <2>2
      <3>2. d.sent[k + 1].id # d.sent[l + 1].id
        BY <1>4, <3>1
      <3>3. QED BY <1>5, <3>2
    <2>3. ASSUME NEW i \in Responses(s)
          PROVE  s[i].id \in DOMAIN d.pending
      BY <1>4, <1>7, <1>8
    <2>4. ASSUME NEW i \in Responses(s), NEW j \in Responses(s), i # j
          PROVE  s[i].id # s[j].id
      <3>1. \A k \in Responses(q) : q[k].id # m.id
        BY <1>4, <1>6
      <3>2. CASE s[i] = m
        BY <1>8, <2>4, <3>1, <3>2
      <3>3. CASE s[j] = m
        BY <1>8, <2>4, <3>1, <3>3
      <3>4. CASE s[i] # m /\ s[j] # m
        BY <1>4, <1>8, <2>4, <3>4
      <3>5. QED BY <3>2, <3>3, <3>4
    <2>5. ASSUME NEW i \in Responses(s), NEW k \in 1..Len(e.sent)
          PROVE  s[i].id # e.sent[k].id
      <3>1. CASE s[i] = m
        BY <2>1, <3>1
      <3>2. CASE s[i] # m
        BY <1>4, <1>5, <1>6, <1>8, <3>2
      <3>3. QED BY <3>1, <3>2
    <2>6. Answerable(d.pending, e.sent, s)
      BY <1>4, <1>5, <2>1, <2>2, <2>3, <2>4, <2>5 DEF Answerable
    <2>7. QED BY <2>6
  <1>10. ASSUME ~d.observer
         PROVE  Tells(Len(s), RoleWords(e.pending, s), e.role, MasterOrSlave(h.mine))
    <2>1. Tells(Len(q), RoleWords(d.pending, q), d.role, MasterOrSlave(g.mine))
      BY <1>10 DEF Tracks
    <2>2. /\ \A i \in 1..Len(q) : RoleWords(d.pending, s)[i] = RoleWords(d.pending, q)[i]
          /\ RoleWords(d.pending, s)[Len(q) + 1] = RoleWord(d.pending, m)
      <3>1. SaysMore(d.pending, s, q, m)
        BY <1>1, WordsOfAppend
      <3>2. QED BY <3>1 DEF SaysMore
    <2>3. CASE m.good /\ request.action = "getOwnership"
      <3>1. RoleWord(d.pending, m) = {MasterOrSlave(h.mine)}
        BY <1>7, <1>10, <2>3 DEF RoleWord, MasterOrSlave
      <3>2. QED BY <1>2, <2>2, <3>1, TellsLast
    <2>4. CASE ~(m.good /\ request.action = "getOwnership")
      <3>1. RoleWord(d.pending, m) = {} /\ MasterOrSlave(h.mine) = MasterOrSlave(g.mine)
        BY <1>7, <2>4 DEF RoleWord, MasterOrSlave
      <3> DEFINE n == Len(q)
                 w == RoleWords(d.pending, q)
                 v == RoleWords(d.pending, s)
                 now == MasterOrSlave(g.mine)
      <3>2. /\ n \in Nat /\ (\A i \in 1..n : v[i] = w[i]) /\ v[n + 1] = {}
            /\ Tells(n, w, d.role, now)
        BY <1>2, <2>1, <2>2, <3>1
      <3> HIDE DEF n, w, v, now
      <3>3. Tells(n + 1, v, d.role, now)
        BY <3>2, TellsAgain
      <3>4. QED BY <1>2, <3>1, <3>3 DEF n, w, v, now
    <2>5. QED BY <2>3, <2>4
  <1>11. ASSUME ~d.observer, Complete(e.sequence, s, h), ~Owes(e.sent), NEW id \in RadioIds
         PROVE  Tells(Len(s), RadioWords(e.pending, s, id), e.radios[id], h.radios[id])
    <2>1. /\ \A i \in 1..Len(q) : RadioWords(d.pending, s, id)[i] = RadioWords(d.pending, q, id)[i]
          /\ RadioWords(d.pending, s, id)[Len(q) + 1] = RadioWord(d.pending, m, id)
      <3>1. SaysMore(d.pending, s, q, m)
        BY <1>1, WordsOfAppend
      <3>2. QED BY <3>1 DEF SaysMore
    <2>2. CASE request.action = "getAllState"
      <3>1. RadioWord(d.pending, m, id) = {h.radios[id]}
        BY <1>7, <2>2 DEF RadioWord
      <3>2. QED BY <1>2, <2>1, <3>1, TellsLast
    <2>3. CASE request.action # "getAllState"
      <3>1. RadioWord(d.pending, m, id) = {}
        BY <1>7, <2>3 DEF RadioWord
      <3>2. ~Owes(d.sent)
        <4>1. \A k \in 1..Len(d.sent) : k = 1 \/ (k - 1 \in 1..Len(e.sent) /\ d.sent[k] = e.sent[k - 1])
          BY <1>5
        <4>2. QED BY <1>11, <2>3, <4>1 DEF Owes
      <3>3. Tells(Len(q), RadioWords(d.pending, q, id), d.radios[id], g.radios[id])
        BY <1>3, <1>11, <3>2 DEF Tracks
      <3>4. Tells(Len(q) + 1, RadioWords(d.pending, s, id), d.radios[id], g.radios[id])
        <4> DEFINE n == Len(q)
                   w == RadioWords(d.pending, q, id)
                   v == RadioWords(d.pending, s, id)
                   held == d.radios[id]
                   now == g.radios[id]
        <4>1. /\ n \in Nat /\ (\A i \in 1..n : v[i] = w[i]) /\ v[n + 1] = {}
              /\ Tells(n, w, held, now)
          BY <1>2, <2>1, <3>1, <3>3
        <4> HIDE DEF n, w, v, held, now
        <4>2. Tells(n + 1, v, held, now)
          BY <4>1, TellsAgain
        <4>3. QED BY <4>2 DEF n, w, v, held, now
      <3>5. QED BY <1>2, <3>4
    <2>4. QED BY <2>2, <2>3
  <1>12. QED BY <1>2, <1>3, <1>9, <1>10, <1>11 DEF Tracks

-----------------------------------------------------------------------------
(* What the client does with a message, and what it asks for.              *)
FreeToAsk(d) == Cardinality(DOMAIN d.pending) < MaxRequests

(* There is a number left for a request when there may be another one.     *)
LEMMA FreshIdIsFree ==
  ASSUME NEW d, IsFiniteSet(DOMAIN d.pending), FreeToAsk(d)
  PROVE  FreshId(d) \in Nat \ DOMAIN d.pending
  <1> DEFINE All == 1..MaxRequests + 1
             Free == All \ DOMAIN d.pending
  <1>1. MaxRequests \in Nat
    BY Cat4OmAssumption
  <1>2. IsFiniteSet(All) /\ Cardinality(All) = MaxRequests + 1
    BY <1>1, FS_Interval
  <1>3. Free # {}
    <2>1. SUFFICES ASSUME Free = {} PROVE FALSE
      OBVIOUS
    <2>2. All \in SUBSET DOMAIN d.pending
      BY <2>1
    <2> HIDE DEF All
    <2>3. Cardinality(All) <= Cardinality(DOMAIN d.pending)
      BY <2>2, FS_Subset
    <2>4. Cardinality(DOMAIN d.pending) \in Nat
      BY FS_CardinalityType
    <2>5. QED BY <1>1, <1>2, <2>3, <2>4 DEF FreeToAsk
  <1>4. Free \in SUBSET Nat
    BY <1>1
  <1>5. FreshId(d) = Min(Free)
    BY DEF FreshId
  <1> HIDE DEF Free
  <1>6. \E n \in Free : \A k \in Free : n <= k
    BY <1>3, <1>4, SmallestOf
  <1>7. Min(Free) \in Free
    BY <1>6 DEF Min
  <1>8. QED BY <1>4, <1>5, <1>7 DEF Free

(* Answers that are waited for as before say the same.                     *)
SaysTheSame(p, r, q) ==
  \A i \in 1..Len(q) : /\ RoleWords(r, q)[i] = RoleWords(p, q)[i]
                       /\ \A id : RadioWords(r, q, id)[i] = RadioWords(p, q, id)[i]

LEMMA SameAnswers ==
  ASSUME NEW p, NEW r, NEW q,
         \A i \in Responses(q) : r[q[i].id] = p[q[i].id]
  PROVE  SaysTheSame(p, r, q)
  <1>1. SUFFICES ASSUME NEW i \in 1..Len(q)
                 PROVE  /\ RoleWords(r, q)[i] = RoleWords(p, q)[i]
                        /\ \A id : RadioWords(r, q, id)[i] = RadioWords(p, q, id)[i]
    BY DEF SaysTheSame
  <1>2. q[i].type = "response" => r[q[i].id] = p[q[i].id]
    BY DEF Responses
  <1>3. RoleWord(r, q[i]) = RoleWord(p, q[i])
    BY <1>2 DEF RoleWord
  <1>4. ASSUME NEW id
        PROVE  RadioWord(r, q[i], id) = RadioWord(p, q[i], id)
    BY <1>2 DEF RadioWord
  <1>5. QED BY <1>3, <1>4 DEF RoleWords, RadioWords

LEMMA ToldAlike ==
  ASSUME NEW p, NEW r, NEW q, Len(q) \in Nat, SaysTheSame(p, r, q), NEW held, NEW now
  PROVE  /\ Tells(Len(q), RoleWords(p, q), held, now) => Tells(Len(q), RoleWords(r, q), held, now)
         /\ \A id : Tells(Len(q), RadioWords(p, q, id), held, now)
                      => Tells(Len(q), RadioWords(r, q, id), held, now)
  <1>1. \A i \in 1..Len(q) : RoleWords(r, q)[i] = RoleWords(p, q)[i]
    BY DEF SaysTheSame
  <1>2. ASSUME NEW id
        PROVE  \A i \in 1..Len(q) : RadioWords(r, q, id)[i] = RadioWords(p, q, id)[i]
    BY DEF SaysTheSame
  <1>3. Tells(Len(q), RoleWords(p, q), held, now) => Tells(Len(q), RoleWords(r, q), held, now)
    BY <1>1, SameWords
  <1>4. ASSUME NEW id, Tells(Len(q), RadioWords(p, q, id), held, now)
        PROVE  Tells(Len(q), RadioWords(r, q, id), held, now)
    BY <1>2, <1>4, SameWords
  <1>5. QED BY <1>3, <1>4

(* What the steps that ask and read leave of a session.                    *)
SameSession(e, d) ==
  /\ e.user = d.user /\ e.observer = d.observer /\ e.socket = d.socket /\ e.welcomed = d.welcomed
  /\ e.handshake = d.handshake /\ e.inactivity = d.inactivity /\ e.reconnect = d.reconnect

LEMMA AskingIsTracked ==
  ASSUME NEW d, CatFormed(d), d.welcomed, FreeToAsk(d), NEW q, NEW g, NEW lost, Tracks(d, q, g, lost),
         NEW action \in CatActions, NEW scoped \in BOOLEAN, NEW e, e = SendRequest(d, action, scoped)
  PROVE  /\ CatFormed(e) /\ SameSession(e, d) /\ Tracks(e, q, g, lost)
         /\ e.role = d.role /\ e.radios = d.radios /\ e.sequence = d.sequence
         /\ d.observer => e = d
         /\ ~d.observer /\ ~scoped /\ action = "getAllState" => Owes(e.sent)
  <1>1. CASE ~MaySend(d, scoped)
    <2>1. e = d
      BY <1>1 DEF SendRequest
    <2>2. ~(~d.observer /\ ~scoped)
      BY <1>1 DEF MaySend
    <2>3. QED BY <2>1, <2>2 DEF SameSession
  <1>2. CASE MaySend(d, scoped)
    <2>1. PICK id : id = FreshId(d)
      OBVIOUS
    <2>2. /\ IsFiniteSet(DOMAIN d.pending) /\ d.sent \in Seq(CatRequests)
          /\ \A k \in 1..Len(d.sent) : d.sent[k].id \in DOMAIN d.pending /\ d.pending[d.sent[k].id] = d.sent[k].action
          /\ \A k, l \in 1..Len(d.sent) : k # l => d.sent[k].id # d.sent[l].id
          /\ \A i \in Responses(q) : q[i].id \in DOMAIN d.pending
          /\ \A i, j \in Responses(q) : i # j => q[i].id # q[j].id
          /\ \A i \in Responses(q), k \in 1..Len(d.sent) : q[i].id # d.sent[k].id
      BY DEF Tracks, Answerable
    <2>3. id \in Nat \ DOMAIN d.pending
      BY <2>1, <2>2, FreshIdIsFree
    <2>4. PICK p : p = [n \in DOMAIN d.pending \cup {id} |-> IF n = id THEN action ELSE d.pending[n]]
      OBVIOUS
    <2>5. PICK request : request = [id |-> id, action |-> action]
      OBVIOUS
    <2>6. e = [d EXCEPT !.pending = p, !.sent = Append(d.sent, request)]
      BY <1>2, <2>1, <2>4, <2>5 DEF SendRequest
    <2>7. CatFormed(e)
      BY <2>6 DEF CatFormed
    <2>8. /\ SameSession(e, d) /\ e.role = d.role /\ e.radios = d.radios /\ e.sequence = d.sequence
          /\ e.pending = p /\ e.sent = Append(d.sent, request)
      BY <2>6 DEF CatFormed, SameSession
    <2>9. request \in CatRequests /\ request.id = id /\ request.action = action
      BY <2>3, <2>5 DEF CatRequests
    <2>10. /\ Append(d.sent, request) \in Seq(CatRequests) /\ Len(d.sent) \in Nat
           /\ Len(Append(d.sent, request)) = Len(d.sent) + 1
           /\ \A k \in 1..Len(d.sent) : Append(d.sent, request)[k] = d.sent[k]
           /\ Append(d.sent, request)[Len(d.sent) + 1] = request
      BY <2>2, <2>9
    <2>11. PICK sent : sent = Append(d.sent, request)
      OBVIOUS
    <2>12. /\ sent \in Seq(CatRequests) /\ Len(d.sent) \in Nat /\ Len(sent) = Len(d.sent) + 1
           /\ \A k \in 1..Len(d.sent) : sent[k] = d.sent[k]
           /\ sent[Len(d.sent) + 1] = request
      BY <2>10, <2>11
    <2>13. /\ DOMAIN p = DOMAIN d.pending \cup {id} /\ p[id] = action
           /\ \A n \in DOMAIN d.pending : p[n] = d.pending[n]
      BY <2>3, <2>4
    <2>14. \A k \in 1..Len(sent) :
             (k \in 1..Len(d.sent) /\ sent[k] = d.sent[k]) \/ (k = Len(d.sent) + 1 /\ sent[k] = request)
      BY <2>12
    <2>15. Answerable(p, sent, q)
      <3>1. IsFiniteSet(DOMAIN p)
        BY <2>2, <2>13, FS_AddElement
      <3>2. ASSUME NEW k \in 1..Len(sent)
            PROVE  sent[k].id \in DOMAIN p /\ p[sent[k].id] = sent[k].action
        BY <2>2, <2>9, <2>13, <2>14
      <3>3. ASSUME NEW k \in 1..Len(sent), NEW l \in 1..Len(sent), k # l
            PROVE  sent[k].id # sent[l].id
        BY <2>2, <2>3, <2>9, <2>14, <3>3
      <3>4. \A i \in Responses(q) : q[i].id \in DOMAIN p
        BY <2>2, <2>13
      <3>5. ASSUME NEW i \in Responses(q), NEW k \in 1..Len(sent)
            PROVE  q[i].id # sent[k].id
        BY <2>2, <2>3, <2>9, <2>14
      <3>6. QED BY <2>2, <2>12, <3>1, <3>2, <3>3, <3>4, <3>5 DEF Answerable
    <2>16. SaysTheSame(d.pending, p, q)
      <3>1. \A i \in Responses(q) : p[q[i].id] = d.pending[q[i].id]
        BY <2>2, <2>13
      <3>2. QED BY <3>1, SameAnswers
    <2>17. Len(q) \in Nat
      BY DEF Tracks, WellSent
    <2>18. action = "getAllState" => Owes(sent)
      BY <2>9, <2>12 DEF Owes
    <2>19. ~Owes(sent) => ~Owes(d.sent)
      <3>1. \A k \in 1..Len(d.sent) : k \in 1..Len(sent)
        BY <2>12
      <3>2. QED BY <2>12, <3>1 DEF Owes
    <2>20. ASSUME ~d.observer
           PROVE  Tells(Len(q), RoleWords(p, q), d.role, MasterOrSlave(g.mine))
      <3>1. Tells(Len(q), RoleWords(d.pending, q), d.role, MasterOrSlave(g.mine))
        BY <2>20 DEF Tracks
      <3>2. QED BY <2>16, <2>17, <3>1, ToldAlike
    <2>21. ASSUME ~d.observer, Complete(d.sequence, q, g), ~Owes(sent), NEW n \in RadioIds
           PROVE  Tells(Len(q), RadioWords(p, q, n), d.radios[n], g.radios[n])
      <3>1. Tells(Len(q), RadioWords(d.pending, q, n), d.radios[n], g.radios[n])
        BY <2>19, <2>21 DEF Tracks
      <3>2. QED BY <2>16, <2>17, <3>1, ToldAlike
    <2>22. WellSent(q) /\ d.radios \in Reported /\ InOrder(d.sequence, q, g) /\ (~lost => Latest(d.sequence, q, g))
      BY DEF Tracks
    <2>23. Tracks(e, q, g, lost)
      BY <2>8, <2>11, <2>15, <2>20, <2>21, <2>22 DEF Tracks, SameSession
    <2>24. ~d.observer
      BY <1>2 DEF MaySend
    <2>25. QED BY <2>7, <2>8, <2>11, <2>18, <2>23, <2>24
  <1>3. QED BY <1>1, <1>2

(* A message is read: the client e holds what it said.                     *)
LEMMA ReadingIsTracked ==
  ASSUME NEW d, NEW q, NEW g \in Groups, NEW lost, Tracks(d, q, g, lost), q # <<>>,
         NEW m, m = q[1], NEW s, s = Tail(q), NEW e, e.sent = d.sent, e.observer = d.observer,
         e.radios \in Reported,
         e.sequence = (IF m.type = "stateUpdate" THEN m.seq ELSE d.sequence),
         e.pending = (IF m.type = "response" THEN Restrict(d.pending, DOMAIN d.pending \ {m.id}) ELSE d.pending),
         ~d.observer /\ m.type = "stateUpdate" /\ m.seq > d.sequence + 1 => Owes(d.sent),
         ~d.observer =>
           /\ RoleWord(d.pending, m) = {e.role} \/ (RoleWord(d.pending, m) = {} /\ e.role = d.role)
           /\ \A id \in RadioIds :
                \/ RadioWord(d.pending, m, id) = {e.radios[id]}
                \/ RadioWord(d.pending, m, id) = {} /\ e.radios[id] = d.radios[id]
  PROVE  Tracks(e, s, g, lost)
  <1>1. q \in Seq(CatMessages) /\ WellSent(q)
    BY DEF Tracks, WellSent
  <1>2. /\ s \in Seq(CatMessages) /\ Len(s) \in Nat /\ Len(q) = Len(s) + 1
        /\ q[1] \in CatMessages
        /\ \A i \in 1..Len(s) : s[i] = q[i + 1] /\ i + 1 \in 1..Len(q)
        /\ SaysTheRest(d.pending, s, q)
    <2>1. Follows(s, q) /\ SaysTheRest(d.pending, s, q)
      BY <1>1, WordsOfTail
    <2>2. QED BY <2>1 DEF Follows
  <1>3. WellSent(s)
    <2>1. \A i \in 1..Len(q) :
            /\ q[i].type \in {"stateUpdate", "ownershipChanged", "response"}
            /\ (q[i].type = "stateUpdate" /\ q[i].full) \/ q[i].type = "response" => q[i].radios \in Reported
      BY <1>1 DEF WellSent
    <2>2. QED BY <1>2, <2>1 DEF WellSent
  <1>4. /\ 1 \in 1..Len(q) /\ \A i \in 1..Len(q) : i = 1 \/ (i - 1 \in 1..Len(s) /\ s[i - 1] = q[i])
        /\ \A i \in 1..Len(s) : i + 1 # 1
    BY <1>2
  <1>5. /\ \A i \in Updates(s) : i + 1 \in Updates(q) /\ s[i] = q[i + 1] /\ i \in 1..Len(s)
        /\ \A i \in Updates(q) : i = 1 \/ (i - 1 \in Updates(s) /\ s[i - 1] = q[i])
        /\ m.type = "stateUpdate" => 1 \in Updates(q)
    BY <1>2, <1>4 DEF Updates
  <1>6. /\ d.sequence \in 0..g.seq
        /\ \A i \in Updates(q) : d.sequence < q[i].seq /\ q[i].seq <= g.seq
        /\ \A i, j \in Updates(q) : i < j => q[i].seq < q[j].seq
    BY DEF Tracks, InOrder
  <1>7. (\A i \in Updates(q) : q[i].seq \in Nat /\ i \in 1..Len(q)) /\ g.seq \in Nat
    BY <1>1, UpdateNumbers DEF Groups
  <1>8. \A i \in Updates(s) : i + 1 > 1
    <2>1. \A i \in 1..Len(s) : i + 1 > 1
      OBVIOUS
    <2>2. QED BY <1>5, <2>1
  <1>9. InOrder(e.sequence, s, g)
    <2>1. ASSUME NEW i \in Updates(s), NEW j \in Updates(s), i < j
          PROVE  s[i].seq < s[j].seq
      <3>1. i + 1 < j + 1 /\ i + 1 \in Updates(q) /\ j + 1 \in Updates(q)
        BY <1>5, <2>1
      <3>2. q[i + 1].seq < q[j + 1].seq
        BY <1>6, <3>1
      <3>3. QED BY <1>5, <3>2
    <2>2. CASE m.type = "stateUpdate"
      <3>1. e.sequence = q[1].seq /\ 1 \in Updates(q)
        BY <1>5, <2>2
      <3>2. e.sequence \in 0..g.seq
        BY <1>6, <1>7, <3>1
      <3>3. ASSUME NEW i \in Updates(s)
            PROVE  e.sequence < s[i].seq /\ s[i].seq <= g.seq
        BY <1>5, <1>6, <1>8, <3>1
      <3>4. QED BY <2>1, <3>2, <3>3 DEF InOrder
    <2>3. CASE m.type # "stateUpdate"
      <3>1. e.sequence = d.sequence
        BY <2>3
      <3>2. ASSUME NEW i \in Updates(s)
            PROVE  e.sequence < s[i].seq /\ s[i].seq <= g.seq
        BY <1>5, <1>6, <3>1
      <3>3. QED BY <1>6, <2>1, <3>1, <3>2 DEF InOrder
    <2>4. QED BY <2>2, <2>3
  <1>10. ~lost => Latest(e.sequence, s, g)
    <2>1. SUFFICES ASSUME ~lost PROVE Latest(e.sequence, s, g)
      OBVIOUS
    <2>2. CASE d.sequence = g.seq
      <3>1. m.type # "stateUpdate"
        <4>1. \A i \in Updates(q) : FALSE
          BY <1>6, <1>7, <2>2
        <4>2. QED BY <1>5, <4>1
      <3>2. QED BY <2>2, <3>1 DEF Latest
    <2>3. CASE d.sequence # g.seq
      <3>1. PICK i \in Updates(q) : q[i].seq = g.seq
        BY <2>1, <2>3 DEF Tracks, Latest
      <3>2. CASE i = 1
        <4>1. m.type = "stateUpdate"
          BY <3>1, <3>2 DEF Updates
        <4>2. QED BY <3>1, <3>2, <4>1 DEF Latest
      <3>3. CASE i # 1
        BY <1>5, <3>1, <3>3 DEF Latest
      <3>4. QED BY <3>2, <3>3
    <2>4. QED BY <2>2, <2>3
  <1>11. /\ IsFiniteSet(DOMAIN d.pending) /\ d.sent \in Seq(CatRequests)
         /\ \A k \in 1..Len(d.sent) : d.sent[k].id \in DOMAIN d.pending /\ d.pending[d.sent[k].id] = d.sent[k].action
         /\ \A k, l \in 1..Len(d.sent) : k # l => d.sent[k].id # d.sent[l].id
         /\ \A i \in Responses(q) : q[i].id \in DOMAIN d.pending
         /\ \A i, j \in Responses(q) : i # j => q[i].id # q[j].id
         /\ \A i \in Responses(q), k \in 1..Len(d.sent) : q[i].id # d.sent[k].id
    BY DEF Tracks, Answerable
  <1>12. /\ \A i \in Responses(s) : i + 1 \in Responses(q) /\ s[i] = q[i + 1] /\ i \in 1..Len(s)
         /\ m.type = "response" => 1 \in Responses(q)
    BY <1>2, <1>4 DEF Responses
    (* What is waited for after the answer that was read was waited for before. *)
  <1>13. PICK p : p = e.pending
    OBVIOUS
  <1>14. /\ IsFiniteSet(DOMAIN p)
         /\ \A n \in DOMAIN d.pending : (m.type = "response" => n # m.id) => n \in DOMAIN p /\ p[n] = d.pending[n]
    <2>1. CASE m.type # "response"
      BY <1>11, <1>13, <2>1
    <2>2. CASE m.type = "response"
      <3>1. p = [n \in DOMAIN d.pending \ {m.id} |-> d.pending[n]]
        BY <1>13, <2>2 DEF Restrict
      <3>2. IsFiniteSet(DOMAIN d.pending \ {m.id})
        BY <1>11, FS_RemoveElement
      <3>3. DOMAIN p = DOMAIN d.pending \ {m.id}
        BY <3>1
      <3>4. \A n \in DOMAIN d.pending : n # m.id => n \in DOMAIN p /\ p[n] = d.pending[n]
        BY <3>1
      <3>5. QED BY <2>2, <3>2, <3>3, <3>4
    <2>3. QED BY <2>1, <2>2
  <1>15. \A i \in Responses(s) :
           /\ m.type = "response" => s[i].id # m.id
           /\ s[i].id \in DOMAIN d.pending
    <2>1. ASSUME NEW i \in Responses(s)
          PROVE  s[i].id \in DOMAIN d.pending
      BY <1>11, <1>12
    <2>2. ASSUME NEW i \in Responses(s), m.type = "response"
          PROVE  s[i].id # m.id
      <3>1. i + 1 # 1 /\ i + 1 \in Responses(q) /\ 1 \in Responses(q)
        BY <1>4, <1>12, <2>2
      <3>2. q[i + 1].id # q[1].id
        BY <1>11, <3>1
      <3>3. QED BY <1>12, <3>2
    <2>3. QED BY <2>1, <2>2
  <1>16. Answerable(p, d.sent, s)
    <2>1. ASSUME NEW k \in 1..Len(d.sent)
          PROVE  d.sent[k].id \in DOMAIN p /\ p[d.sent[k].id] = d.sent[k].action
      <3>1. m.type = "response" => m.id # d.sent[k].id
        BY <1>11, <1>12
      <3>2. QED BY <1>11, <1>14, <3>1
    <2>2. \A i \in Responses(s) : s[i].id \in DOMAIN p
      BY <1>14, <1>15
    <2>3. ASSUME NEW i \in Responses(s), NEW j \in Responses(s), i # j
          PROVE  s[i].id # s[j].id
      <3>1. i + 1 # j + 1 /\ i + 1 \in Responses(q) /\ j + 1 \in Responses(q)
        <4>1. i \in Int /\ j \in Int
          BY <1>12
        <4>2. i + 1 # j + 1
          BY <2>3, <4>1
        <4>3. QED BY <1>12, <4>2
      <3>2. q[i + 1].id # q[j + 1].id
        BY <1>11, <3>1
      <3>3. QED BY <1>12, <3>2
    <2>4. ASSUME NEW i \in Responses(s), NEW k \in 1..Len(d.sent)
          PROVE  s[i].id # d.sent[k].id
      <3>1. i + 1 \in Responses(q) /\ s[i] = q[i + 1]
        BY <1>12
      <3>2. q[i + 1].id # d.sent[k].id
        BY <1>11, <3>1
      <3>3. QED BY <3>1, <3>2
    <2>5. QED BY <1>11, <1>14, <2>1, <2>2, <2>3, <2>4 DEF Answerable
  <1>17. SaysTheSame(d.pending, p, s)
    <2>1. \A i \in Responses(s) : p[s[i].id] = d.pending[s[i].id]
      BY <1>14, <1>15
    <2>2. QED BY <2>1, SameAnswers
  <1>18. ASSUME ~d.observer
         PROVE  Tells(Len(s), RoleWords(p, s), e.role, MasterOrSlave(g.mine))
    <2>1. Tells(Len(s) + 1, RoleWords(d.pending, q), d.role, MasterOrSlave(g.mine))
      BY <1>2, <1>18 DEF Tracks
    <2>2. RoleWords(d.pending, q)[1] = RoleWord(d.pending, m)
      BY <1>4 DEF RoleWords
    <2>3. (RoleWords(d.pending, q)[1] = {} /\ e.role = d.role) \/ RoleWords(d.pending, q)[1] = {e.role}
      BY <1>18, <2>2
    <2>4. Tells(Len(s), RoleWords(d.pending, s), e.role, MasterOrSlave(g.mine))
      <3>1. \A i \in 1..Len(s) : RoleWords(d.pending, s)[i] = RoleWords(d.pending, q)[i + 1]
        BY <1>2 DEF SaysTheRest
      <3>2. QED BY <1>2, <2>1, <2>3, <3>1, TellsNext
    <2>5. QED BY <1>2, <1>17, <2>4, ToldAlike
  <1>19. ASSUME ~d.observer, Complete(e.sequence, s, g), ~Owes(d.sent)
         PROVE  Complete(d.sequence, q, g)
    <2>1. \A i \in Updates(s) : i + 1 \in Updates(q) /\ q[i + 1].seq = s[i].seq
      BY <1>5
    <2>2. CASE m.type # "stateUpdate"
      <3>1. SUFFICES ASSUME NEW n \in d.sequence + 1..g.seq
                     PROVE  \E i \in Updates(q) : q[i].seq = n
        BY DEF Complete
      <3>2. n \in e.sequence + 1..g.seq
        BY <2>2
      <3>3. PICK i \in Updates(s) : s[i].seq = n
        BY <1>19, <3>2 DEF Complete
      <3>4. QED BY <2>1, <3>3
    <2>3. CASE m.type = "stateUpdate"
      <3>1. m.seq <= d.sequence + 1 /\ e.sequence = m.seq /\ 1 \in Updates(q) /\ m.seq \in Nat
        BY <1>5, <1>6, <1>7, <1>19, <2>3
      <3>2. SUFFICES ASSUME NEW n \in d.sequence + 1..g.seq
                     PROVE  \E i \in Updates(q) : q[i].seq = n
        BY DEF Complete
      <3>3. n = m.seq \/ n \in m.seq + 1..g.seq
        BY <1>6, <1>7, <3>1
      <3>4. CASE n = m.seq
        BY <3>1, <3>4
      <3>5. CASE n \in m.seq + 1..g.seq
        <4>1. n \in e.sequence + 1..g.seq
          BY <3>1, <3>5
        <4>2. PICK i \in Updates(s) : s[i].seq = n
          BY <1>19, <4>1 DEF Complete
        <4>3. QED BY <2>1, <4>2
      <3>6. QED BY <3>3, <3>4, <3>5
    <2>4. QED BY <2>2, <2>3
  <1>20. ASSUME ~d.observer, Complete(e.sequence, s, g), ~Owes(d.sent), NEW id \in RadioIds
         PROVE  Tells(Len(s), RadioWords(p, s, id), e.radios[id], g.radios[id])
    <2>1. Tells(Len(s) + 1, RadioWords(d.pending, q, id), d.radios[id], g.radios[id])
      BY <1>2, <1>19, <1>20 DEF Tracks
    <2>2. RadioWords(d.pending, q, id)[1] = RadioWord(d.pending, m, id)
      BY <1>4 DEF RadioWords
    <2>3. \/ RadioWords(d.pending, q, id)[1] = {} /\ e.radios[id] = d.radios[id]
          \/ RadioWords(d.pending, q, id)[1] = {e.radios[id]}
      BY <1>20, <2>2
    <2>4. Tells(Len(s), RadioWords(d.pending, s, id), e.radios[id], g.radios[id])
      <3>1. \A i \in 1..Len(s) : RadioWords(d.pending, s, id)[i] = RadioWords(d.pending, q, id)[i + 1]
        BY <1>2 DEF SaysTheRest
      <3>2. QED BY <1>2, <2>1, <2>3, <3>1, TellsNext
    <2>5. QED BY <1>2, <1>17, <2>4, ToldAlike
  <1>21. QED BY <1>3, <1>9, <1>10, <1>13, <1>16, <1>18, <1>20 DEF Tracks

(* What a client that read a message makes of it.                          *)
Reads(d, e, m) ==
  /\ e.sent = d.sent /\ e.observer = d.observer /\ e.radios \in Reported
  /\ e.sequence = (IF m.type = "stateUpdate" THEN m.seq ELSE d.sequence)
  /\ e.pending = (IF m.type = "response" THEN Restrict(d.pending, DOMAIN d.pending \ {m.id}) ELSE d.pending)
  /\ ~d.observer /\ m.type = "stateUpdate" /\ m.seq > d.sequence + 1 => Owes(d.sent)
  /\ ~d.observer =>
       /\ RoleWord(d.pending, m) = {e.role} \/ (RoleWord(d.pending, m) = {} /\ e.role = d.role)
       /\ \A id \in RadioIds :
            \/ RadioWord(d.pending, m, id) = {e.radios[id]}
            \/ RadioWord(d.pending, m, id) = {} /\ e.radios[id] = d.radios[id]

LEMMA ReadIsTracked ==
  ASSUME NEW d, NEW q, NEW g \in Groups, NEW lost, Tracks(d, q, g, lost), q # <<>>,
         NEW e, Reads(d, e, q[1])
  PROVE  Tracks(e, Tail(q), g, lost)
  <1>1. PICK m, s : m = q[1] /\ s = Tail(q)
    OBVIOUS
  <1>2. Reads(d, e, m)
    BY <1>1
  <1>3. Tracks(e, s, g, lost)
    BY <1>1, <1>2, ReadingIsTracked DEF Reads
  <1>4. QED BY <1>1, <1>3

-----------------------------------------------------------------------------
(* The radios that are held, and the one of them that is shown.            *)
PartOfRadios == UNION {[S -> CatRadios] : S \in SUBSET RadioIds}

LEMMA MergedRadios ==
  ASSUME NEW radios, NEW reported \in PartOfRadios,
         radios \in Reported \/ (reported \in Reported /\ radios = NoRadios),
         NEW merged, merged = Merged(radios, reported)
  PROVE  /\ merged \in Reported
         /\ \A id \in RadioIds : merged[id] = (IF id \in DOMAIN reported THEN reported[id] ELSE radios[id])
  <1>1. PICK S \in SUBSET RadioIds : reported \in [S -> CatRadios]
    BY DEF PartOfRadios
  <1>2. DOMAIN reported = S /\ \A id \in S : reported[id] \in CatRadios
    BY <1>1
  <1>3. DOMAIN radios \cup DOMAIN reported = RadioIds
    <2>1. CASE radios \in Reported
      BY <1>2, <2>1 DEF Reported
    <2>2. CASE reported \in Reported /\ radios = NoRadios
      <3>1. DOMAIN reported = RadioIds /\ DOMAIN radios = {}
        BY <2>2 DEF Reported, NoRadios
      <3>2. QED BY <3>1
    <2>3. QED BY <2>1, <2>2
  <1>4. ASSUME NEW id \in RadioIds, id \notin DOMAIN reported
        PROVE  radios[id] \in CatRadios
    BY <1>4 DEF Reported
  <1>5. merged = [id \in RadioIds |-> IF id \in DOMAIN reported THEN reported[id] ELSE radios[id]]
    BY <1>3 DEF Merged
  <1>6. \A id \in RadioIds : (IF id \in DOMAIN reported THEN reported[id] ELSE radios[id]) \in CatRadios
    BY <1>2, <1>4
  <1>7. QED BY <1>5, <1>6 DEF Reported

LEMMA RadiosAreShown ==
  ASSUME NEW d, CatFormed(d), NEW reported, NEW full \in BOOLEAN, NEW e, e = ReplaceOrMerge(d, reported, full)
  PROVE  /\ CatFormed(e) /\ SameSession(e, d)
         /\ e.radios = Merged(IF full THEN NoRadios ELSE d.radios, reported)
         /\ e.role = d.role /\ e.sequence = d.sequence /\ e.pending = d.pending /\ e.sent = d.sent
  <1>1. PICK radios : radios = Merged(IF full THEN NoRadios ELSE d.radios, reported)
    OBVIOUS
  <1>2. PICK c : c = [d EXCEPT !.radios = radios]
    OBVIOUS
  <1>3. /\ CatFormed(c) /\ SameSession(c, d) /\ c.radios = radios
        /\ c.role = d.role /\ c.sequence = d.sequence /\ c.pending = d.pending /\ c.sent = d.sent
    BY <1>2 DEF CatFormed, SameSession
  <1>4. e = SelectRadio(c)
    BY <1>1, <1>2 DEF ReplaceOrMerge
  <1>5. \E selected : e = [c EXCEPT !.selected = selected]
    BY <1>4 DEF SelectRadio
  <1>6. PICK selected : e = [c EXCEPT !.selected = selected]
    BY <1>5
  <1>7. /\ CatFormed(e) /\ SameSession(e, c) /\ e.radios = c.radios
        /\ e.role = c.role /\ e.sequence = c.sequence /\ e.pending = c.pending /\ e.sent = c.sent
    BY <1>3, <1>6 DEF CatFormed, SameSession
  <1>8. QED BY <1>1, <1>3, <1>7 DEF SameSession

(* An observer never asks, and so is never answered.                       *)
LEMMA SessionGoesOn ==
  ASSUME NEW d, Alive(d), d.welcomed, NEW e, SameSession(e, d),
         d.observer => e.role \notin {"Master", "Slave"} /\ e.pending = NoActions
  PROVE  Alive(e)
  BY DEF Alive, SameSession

LEMMA ObserversAreNotAnswered ==
  ASSUME NEW d, Alive(d), d.observer, NEW q, q # <<>>, NEW g, NEW lost, Tracks(d, q, g, lost)
  PROVE  q[1].type # "response"
  <1>1. q \in Seq(CatMessages) /\ Answerable(d.pending, d.sent, q)
    BY DEF Tracks, WellSent
  <1>2. 1 \in 1..Len(q)
    BY <1>1
  <1>3. d.pending = NoActions
    BY DEF Alive
  <1>4. DOMAIN d.pending = {}
    BY <1>3 DEF NoActions
  <1>5. QED BY <1>1, <1>2, <1>4 DEF Answerable, Responses

LEMMA FirstMessage ==
  ASSUME NEW d, NEW q, q # <<>>, NEW g \in Groups, NEW lost, Tracks(d, q, g, lost), NEW m, m = q[1]
  PROVE  /\ m \in CatMessages /\ m.seq \in Nat /\ m.mine \in BOOLEAN /\ m.full \in BOOLEAN /\ m.good \in BOOLEAN
         /\ m.radios \in PartOfRadios
         /\ m.type \in {"stateUpdate", "ownershipChanged", "response"}
         /\ (m.type = "stateUpdate" /\ m.full) \/ m.type = "response" => m.radios \in Reported
         /\ m.type = "stateUpdate" => d.sequence < m.seq
         /\ m.type = "response" => m.id \in DOMAIN d.pending
         /\ d.sequence \in Nat /\ d.radios \in Reported
  <1>1. q \in Seq(CatMessages) /\ WellSent(q) /\ d.radios \in Reported
    BY DEF Tracks, WellSent
  <1>2. 1 \in 1..Len(q)
    BY <1>1
  <1>3. m \in CatMessages
    BY <1>1, <1>2
  <1>4. /\ m.seq \in Nat /\ m.mine \in BOOLEAN /\ m.full \in BOOLEAN /\ m.good \in BOOLEAN
        /\ m.radios \in PartOfRadios
    BY <1>3 DEF CatMessages, PartOfRadios
  <1>5. /\ m.type \in {"stateUpdate", "ownershipChanged", "response"}
        /\ (m.type = "stateUpdate" /\ m.full) \/ m.type = "response" => m.radios \in Reported
    BY <1>1, <1>2 DEF WellSent
  <1>6. (m.type = "stateUpdate" => d.sequence < m.seq) /\ d.sequence \in 0..g.seq
    BY <1>2 DEF Tracks, InOrder, Updates
  <1>7. m.type = "response" => m.id \in DOMAIN d.pending
    BY <1>2 DEF Tracks, Answerable, Responses
  <1>8. QED BY <1>1, <1>3, <1>4, <1>5, <1>6, <1>7 DEF Groups

(* handleStateUpdate: a gap is asked for before the update is taken.       *)
LEMMA UpdateIsRead ==
  ASSUME NEW d, CatFormed(d), Alive(d), d.welcomed, FreeToAsk(d), NEW q, q # <<>>,
         NEW g \in Groups, NEW lost, Tracks(d, q, g, lost),
         NEW m, m = q[1], m.type = "stateUpdate", NEW e, e = HandleStateUpdate(d, m)
  PROVE  CatFormed(e) /\ SameSession(e, d) /\ Alive(e) /\ Tracks(e, Tail(q), g, lost)
  <1>1. /\ m \in CatMessages /\ m.seq \in Nat /\ m.mine \in BOOLEAN /\ m.full \in BOOLEAN
        /\ m.radios \in PartOfRadios /\ (m.full => m.radios \in Reported)
        /\ d.sequence < m.seq /\ d.sequence \in Nat /\ d.radios \in Reported
    BY FirstMessage
  <1>2. PICK c : c = AsksForAll(d, m)
    OBVIOUS
  <1>3. /\ CatFormed(c) /\ SameSession(c, d) /\ Tracks(c, q, g, lost)
        /\ c.role = d.role /\ c.radios = d.radios /\ c.sequence = d.sequence
        /\ d.observer => c = d
        /\ ~d.observer /\ m.seq > d.sequence + 1 => Owes(c.sent)
    <2>1. CASE m.seq > d.sequence + 1
      <3>1. d.sequence >= 0
        BY <1>1
      <3>2. PICK scoped \in BOOLEAN, action \in CatActions : ~scoped /\ action = "getAllState"
        BY DEF CatActions
      <3>3. c = SendRequest(d, action, scoped)
        BY <1>2, <2>1, <3>1, <3>2 DEF AsksForAll, SendRequest, MaySend
      <3>4. /\ CatFormed(c) /\ SameSession(c, d) /\ Tracks(c, q, g, lost)
            /\ c.role = d.role /\ c.radios = d.radios /\ c.sequence = d.sequence
            /\ d.observer => c = d
            /\ ~d.observer /\ ~scoped /\ action = "getAllState" => Owes(c.sent)
        BY <3>3, AskingIsTracked
      <3>5. QED BY <3>2, <3>4
    <2>2. CASE ~(m.seq > d.sequence + 1)
      <3>1. c = d
        BY <1>2, <2>2 DEF AsksForAll
      <3>2. QED BY <2>2, <3>1 DEF SameSession
    <2>3. QED BY <2>1, <2>2
  <1>4. PICK role : role = (IF c.observer THEN "Observer" ELSE IF m.mine THEN "Master" ELSE "Slave")
    OBVIOUS
  <1>5. PICK b : b = [c EXCEPT !.sequence = m.seq, !.role = role]
    OBVIOUS
  <1>6. /\ CatFormed(b) /\ SameSession(b, c) /\ b.radios = c.radios /\ b.role = role
        /\ b.sequence = m.seq /\ b.pending = c.pending /\ b.sent = c.sent
    <2>1. role \in {"Observer", "Master", "Slave"}
      BY <1>4
    <2>2. QED BY <1>3, <1>5, <2>1 DEF CatFormed, SameSession
  <1>7. e = ReplaceOrMerge(b, m.radios, m.full)
    <2>1. PICK a : a = [c EXCEPT !.radios = IF m.seq >= 0 /\ m.seq < d.sequence THEN NoRadios ELSE @, !.sequence = m.seq]
      OBVIOUS
    <2>2. e = ReplaceOrMerge(UpdateRole(a, m.mine), m.radios, m.full)
      BY <1>2, <2>1 DEF HandleStateUpdate
    <2>3. ~(m.seq < d.sequence)
      BY <1>1
    <2>4. a = [c EXCEPT !.radios = c.radios, !.sequence = m.seq]
      BY <2>1, <2>3
    <2>5. [c EXCEPT !.radios = c.radios] = c
      BY <1>3 DEF CatFormed
    <2>6. a = [c EXCEPT !.sequence = m.seq]
      BY <2>4, <2>5
    <2>7. a.observer = c.observer
      BY <1>3, <2>6 DEF CatFormed
    <2>8. UpdateRole(a, m.mine) = b
      BY <1>4, <1>5, <2>6, <2>7 DEF UpdateRole
    <2>9. QED BY <2>2, <2>8
  <1>8. /\ CatFormed(e) /\ SameSession(e, b)
        /\ e.radios = Merged(IF m.full THEN NoRadios ELSE b.radios, m.radios)
        /\ e.role = b.role /\ e.sequence = b.sequence /\ e.pending = b.pending /\ e.sent = b.sent
    BY <1>1, <1>6, <1>7, RadiosAreShown
  <1>9. /\ e.radios \in Reported
        /\ \A id \in RadioIds : e.radios[id] = (IF id \in DOMAIN m.radios THEN m.radios[id] ELSE d.radios[id])
    <2>1. CASE m.full
      <3> e.radios = Merged(NoRadios, m.radios)
        BY <1>8, <2>1
      <3>1. /\ e.radios \in Reported
            /\ \A id \in RadioIds : e.radios[id] = (IF id \in DOMAIN m.radios THEN m.radios[id] ELSE NoRadios[id])
        BY <1>1, <2>1, MergedRadios
      <3>2. DOMAIN m.radios = RadioIds
        BY <1>1, <2>1 DEF Reported
      <3>3. QED BY <3>1, <3>2
    <2>2. CASE ~m.full
      <3>1. e.radios = Merged(d.radios, m.radios)
        BY <1>3, <1>6, <1>8, <2>2
      <3>2. QED BY <1>1, <3>1, MergedRadios
    <2>3. QED BY <2>1, <2>2
  <1>10. SameSession(e, d) /\ e.observer = c.observer /\ c.observer = d.observer
    BY <1>3, <1>6, <1>8 DEF SameSession
  <1>11. Tracks(e, Tail(q), g, lost)
    <2>1. RoleWord(c.pending, m) = {e.role} \/ c.observer
      BY <1>4, <1>6, <1>8 DEF RoleWord, MasterOrSlave
    <2>2. \A id \in RadioIds :
            \/ RadioWord(c.pending, m, id) = {e.radios[id]}
            \/ RadioWord(c.pending, m, id) = {} /\ e.radios[id] = c.radios[id]
      <3>1. SUFFICES ASSUME NEW id \in RadioIds
                     PROVE  \/ RadioWord(c.pending, m, id) = {e.radios[id]}
                            \/ RadioWord(c.pending, m, id) = {} /\ e.radios[id] = c.radios[id]
        OBVIOUS
      <3>2. RadioWord(c.pending, m, id) = {m.radios[i] : i \in {id} \cap DOMAIN m.radios}
        BY DEF RadioWord
      <3>3. CASE id \in DOMAIN m.radios
        <4>1. RadioWord(c.pending, m, id) = {m.radios[id]}
          BY <3>2, <3>3
        <4>2. QED BY <1>9, <3>3, <4>1
      <3>4. CASE id \notin DOMAIN m.radios
        <4>1. RadioWord(c.pending, m, id) = {}
          BY <3>2, <3>4
        <4>2. QED BY <1>3, <1>9, <3>4, <4>1
      <3>5. QED BY <3>3, <3>4
    <2>3. /\ e.sequence = (IF m.type = "stateUpdate" THEN m.seq ELSE c.sequence)
          /\ e.pending = (IF m.type = "response" THEN Restrict(c.pending, DOMAIN c.pending \ {m.id}) ELSE c.pending)
          /\ e.sent = c.sent
      BY <1>6, <1>8
    <2>4. ~c.observer /\ m.type = "stateUpdate" /\ m.seq > c.sequence + 1 => Owes(c.sent)
      BY <1>3, <1>10
    <2>5. ~c.observer =>
            /\ RoleWord(c.pending, m) = {e.role} \/ (RoleWord(c.pending, m) = {} /\ e.role = c.role)
            /\ \A id \in RadioIds :
                 \/ RadioWord(c.pending, m, id) = {e.radios[id]}
                 \/ RadioWord(c.pending, m, id) = {} /\ e.radios[id] = c.radios[id]
      BY <2>1, <2>2
    <2>6. Tracks(c, q, g, lost) /\ e.radios \in Reported /\ e.observer = c.observer
      BY <1>3, <1>9, <1>10
    <2>7. Reads(c, e, m)
      BY <2>3, <2>4, <2>5, <2>6 DEF Reads
    <2>8. QED BY <2>6, <2>7, ReadIsTracked
  <1>12. d.observer => e.role \notin {"Master", "Slave"} /\ e.pending = NoActions
    BY <1>3, <1>4, <1>6, <1>8 DEF Alive
  <1>13. Alive(e)
    BY <1>10, <1>12, SessionGoesOn
  <1>14. QED BY <1>8, <1>10, <1>11, <1>13

(* handleEvent: the mastership was given or taken.                         *)
LEMMA OwnershipIsRead ==
  ASSUME NEW d, CatFormed(d), Alive(d), d.welcomed, NEW q, q # <<>>,
         NEW g \in Groups, NEW lost, Tracks(d, q, g, lost),
         NEW m, m = q[1], m.type = "ownershipChanged", NEW e, e = HandleEvent(d, m)
  PROVE  CatFormed(e) /\ SameSession(e, d) /\ Alive(e) /\ Tracks(e, Tail(q), g, lost)
  <1>1. PICK role : role = (IF d.observer THEN "Observer" ELSE IF m.mine THEN "Master" ELSE "Slave")
    OBVIOUS
  <1>2. e = [d EXCEPT !.role = role]
    BY <1>1 DEF HandleEvent, UpdateRole
  <1>3. role \in {"Observer", "Master", "Slave"}
    BY <1>1
  <1>4. /\ CatFormed(e) /\ SameSession(e, d) /\ e.radios = d.radios /\ e.role = role
        /\ e.sequence = d.sequence /\ e.pending = d.pending /\ e.sent = d.sent
    BY <1>2, <1>3 DEF CatFormed, SameSession
  <1>5. d.observer => e.role \notin {"Master", "Slave"} /\ e.pending = NoActions
    BY <1>1, <1>4 DEF Alive
  <1>6. e.observer = d.observer
    BY <1>4 DEF SameSession
  <1>7. Tracks(e, Tail(q), g, lost)
    <2>1. e.radios \in Reported
      BY <1>4 DEF Tracks
    <2>2. RoleWord(d.pending, m) = {e.role} \/ d.observer
      BY <1>1, <1>4 DEF RoleWord, MasterOrSlave
    <2>3. \A id \in RadioIds : RadioWord(d.pending, m, id) = {} /\ e.radios[id] = d.radios[id]
      BY <1>4 DEF RadioWord
    <2>4. Reads(d, e, m)
      BY <1>4, <1>6, <2>1, <2>2, <2>3 DEF Reads
    <2>5. QED BY <2>4, ReadIsTracked
  <1>8. QED BY <1>4, <1>5, <1>7, SessionGoesOn

(* handleResponse: what was granted is taken, and a snapshot is the state. *)
LEMMA ResponseIsRead ==
  ASSUME NEW d, CatFormed(d), Alive(d), d.welcomed, NEW q, q # <<>>,
         NEW g \in Groups, NEW lost, Tracks(d, q, g, lost),
         NEW m, m = q[1], m.type = "response", NEW e, e = HandleResponse(d, m)
  PROVE  CatFormed(e) /\ SameSession(e, d) /\ Alive(e) /\ Tracks(e, Tail(q), g, lost)
  <1>1. ~d.observer
    BY ObserversAreNotAnswered
  <1>2. /\ m.good \in BOOLEAN /\ m.radios \in Reported /\ m.radios \in PartOfRadios /\ d.radios \in Reported
        /\ m.id \in DOMAIN d.pending
    BY FirstMessage
  <1>3. PICK p : p = Restrict(d.pending, DOMAIN d.pending \ {m.id})
    OBVIOUS
  <1>4. PICK c : c = [d EXCEPT !.pending = p]
    OBVIOUS
  <1>5. /\ CatFormed(c) /\ SameSession(c, d) /\ c.radios = d.radios /\ c.role = d.role
        /\ c.sequence = d.sequence /\ c.pending = p /\ c.sent = d.sent
    BY <1>4 DEF CatFormed, SameSession
  <1>6. PICK action : action = d.pending[m.id]
    OBVIOUS
  <1>7. e = IF ~m.good THEN c
            ELSE IF action = "getOwnership" THEN [c EXCEPT !.role = "Master"]
            ELSE IF action = "getAllState" THEN ReplaceOrMerge(c, m.radios, TRUE) ELSE c
    BY <1>2, <1>3, <1>4, <1>6 DEF HandleResponse
  <1>8. /\ RoleWord(d.pending, m) = IF m.good /\ action = "getOwnership" THEN {"Master"} ELSE {}
        /\ \A id : RadioWord(d.pending, m, id) = IF m.good /\ action = "getAllState" THEN {m.radios[id]} ELSE {}
    BY <1>6 DEF RoleWord, RadioWord
  <1>9. /\ CatFormed(e) /\ SameSession(e, c) /\ e.radios \in Reported
        /\ e.sequence = c.sequence /\ e.pending = c.pending /\ e.sent = c.sent
        /\ e.role = (IF m.good /\ action = "getOwnership" THEN "Master" ELSE c.role)
        /\ \A id \in RadioIds :
             e.radios[id] = (IF m.good /\ action = "getAllState" THEN m.radios[id] ELSE c.radios[id])
    <2>1. CASE m.good /\ action = "getOwnership"
      <3>1. e = [c EXCEPT !.role = "Master"]
        BY <1>7, <2>1
      <3>2. /\ CatFormed(e) /\ SameSession(e, c) /\ e.radios = c.radios
            /\ e.sequence = c.sequence /\ e.pending = c.pending /\ e.sent = c.sent /\ e.role = "Master"
        BY <1>5, <3>1 DEF CatFormed, SameSession
      <3>3. QED BY <1>2, <1>5, <2>1, <3>2
    <2>2. CASE m.good /\ action = "getAllState"
      <3>1. e = ReplaceOrMerge(c, m.radios, TRUE)
        BY <1>7, <2>2
      <3>2. /\ CatFormed(e) /\ SameSession(e, c) /\ e.radios = Merged(NoRadios, m.radios)
            /\ e.role = c.role /\ e.sequence = c.sequence /\ e.pending = c.pending /\ e.sent = c.sent
        <4>1. PICK full \in BOOLEAN : full
          OBVIOUS
        <4>2. e = ReplaceOrMerge(c, m.radios, full)
          BY <3>1, <4>1 DEF ReplaceOrMerge
        <4>3. /\ CatFormed(e) /\ SameSession(e, c) /\ e.radios = Merged(IF full THEN NoRadios ELSE c.radios, m.radios)
              /\ e.role = c.role /\ e.sequence = c.sequence /\ e.pending = c.pending /\ e.sent = c.sent
          BY <1>5, <4>2, RadiosAreShown
        <4>4. QED BY <4>1, <4>3
      <3>3. /\ e.radios \in Reported
            /\ \A id \in RadioIds : e.radios[id] = (IF id \in DOMAIN m.radios THEN m.radios[id] ELSE NoRadios[id])
        BY <1>2, <3>2, MergedRadios
      <3>4. DOMAIN m.radios = RadioIds
        BY <1>2 DEF Reported
      <3>5. QED BY <2>2, <3>2, <3>3, <3>4
    <2>3. CASE ~(m.good /\ action \in {"getOwnership", "getAllState"})
      <3>1. e = c
        BY <1>7, <2>3
      <3>2. QED BY <1>2, <1>5, <2>3, <3>1 DEF SameSession
    <2>4. QED BY <2>1, <2>2, <2>3
  <1>10. SameSession(e, d) /\ e.observer = d.observer
    BY <1>5, <1>9 DEF SameSession
  <1>11. Tracks(e, Tail(q), g, lost)
    <2>1. RoleWord(d.pending, m) = {e.role} \/ (RoleWord(d.pending, m) = {} /\ e.role = d.role)
      BY <1>5, <1>8, <1>9
    <2>2. \A id \in RadioIds :
            \/ RadioWord(d.pending, m, id) = {e.radios[id]}
            \/ RadioWord(d.pending, m, id) = {} /\ e.radios[id] = d.radios[id]
      BY <1>5, <1>8, <1>9
    <2>3. /\ e.sequence = d.sequence /\ e.sent = d.sent
          /\ e.pending = Restrict(d.pending, DOMAIN d.pending \ {m.id})
      BY <1>3, <1>5, <1>9
    <2>4. /\ e.sequence = (IF m.type = "stateUpdate" THEN m.seq ELSE d.sequence)
          /\ e.pending = (IF m.type = "response" THEN Restrict(d.pending, DOMAIN d.pending \ {m.id}) ELSE d.pending)
      BY <2>3
    <2>5. ~d.observer /\ m.type = "stateUpdate" /\ m.seq > d.sequence + 1 => Owes(d.sent)
      OBVIOUS
    <2>6. Reads(d, e, m)
      BY <1>9, <1>10, <2>1, <2>2, <2>3, <2>4, <2>5 DEF Reads
    <2>7. QED BY <2>6, ReadIsTracked
  <1>12. QED BY <1>1, <1>9, <1>10, <1>11, SessionGoesOn

-----------------------------------------------------------------------------
(* The connection: whatever ends it or starts it leaves the client awake,  *)
(* with nothing of what it knew of the group.                              *)
LEMMA EndingIsClean ==
  ASSUME NEW c, CatFormed(c), c.user => ~c.reconnect, NEW d, d = Cat4OmEnds(c)
  PROVE  CatFormed(d) /\ Alive(d) /\ d.user = c.user /\ d.socket = "closed"
  <1>1. PICK b : b = [c EXCEPT !.socket = "closed", !.welcomed = FALSE, !.role = "Unknown",
                               !.pending = NoActions, !.sent = <<>>, !.handshake = FALSE, !.inactivity = FALSE]
    OBVIOUS
  <1>2. /\ CatFormed(b) /\ b.user = c.user /\ b.observer = c.observer /\ b.socket = "closed" /\ ~b.welcomed
        /\ b.role = "Unknown" /\ b.pending = NoActions /\ b.sent = <<>> /\ ~b.handshake /\ ~b.inactivity
        /\ b.reconnect = c.reconnect
    BY <1>1 DEF CatFormed
  <1>3. CASE c.user
    <2>1. d = b
      BY <1>1, <1>3 DEF Cat4OmEnds
    <2>2. QED BY <1>2, <1>3, <2>1 DEF Alive
  <1>4. CASE ~c.user
    <2>1. PICK attempt : d = [b EXCEPT !.attempt = attempt, !.reconnect = TRUE]
      BY <1>1, <1>4 DEF Cat4OmEnds, ScheduleCat4OmReconnect
    <2>2. /\ CatFormed(d) /\ d.user = b.user /\ d.socket = b.socket /\ d.welcomed = b.welcomed
          /\ d.role = b.role /\ d.pending = b.pending /\ d.sent = b.sent /\ d.reconnect
          /\ d.handshake = b.handshake /\ d.inactivity = b.inactivity
      BY <1>2, <2>1 DEF CatFormed
    <2>3. QED BY <1>2, <1>4, <2>2 DEF Alive
  <1>5. c.user \in BOOLEAN
    BY DEF CatFormed
  <1>6. QED BY <1>3, <1>4, <1>5

LEMMA DisconnectingIsClean ==
  ASSUME NEW c, CatFormed(c), Alive(c), NEW d, d = DisconnectCat4Om(c)
  PROVE  CatFormed(d) /\ Alive(d) /\ d.user /\ d.socket = "closed"
  <1>1. PICK b : b = [c EXCEPT !.user = TRUE, !.reconnect = FALSE, !.handshake = FALSE, !.inactivity = FALSE]
    OBVIOUS
  <1>2. /\ CatFormed(b) /\ b.user /\ ~b.reconnect /\ ~b.handshake /\ ~b.inactivity
        /\ b.socket = c.socket /\ b.welcomed = c.welcomed /\ b.role = c.role /\ b.pending = c.pending
        /\ b.sent = c.sent
    BY <1>1 DEF CatFormed
  <1>3. d = CloseCat4Om(b)
    BY <1>1 DEF DisconnectCat4Om
  <1>4. CASE c.socket = "closed"
    <2>1. d = b
      BY <1>2, <1>3, <1>4 DEF CloseCat4Om
    <2>2. QED BY <1>2, <1>4, <2>1 DEF Alive
  <1>5. CASE c.socket # "closed"
    <2>1. d = Cat4OmEnds(b)
      BY <1>2, <1>3, <1>5 DEF CloseCat4Om
    <2>2. QED BY <1>2, <2>1, EndingIsClean
  <1>6. QED BY <1>4, <1>5

LEMMA ConnectingIsClean ==
  ASSUME NEW c, CatFormed(c), Alive(c), NEW valid \in BOOLEAN, NEW configured, NEW observer \in BOOLEAN,
         NEW d, d = ConnectCat4Om(c, valid, configured, observer)
  PROVE  CatFormed(d) /\ Alive(d) /\ d.socket # "open"
  <1>1. PICK b : b = DisconnectCat4Om(c)
    OBVIOUS
  <1>2. CatFormed(b) /\ Alive(b) /\ b.user /\ b.socket = "closed"
    BY <1>1, DisconnectingIsClean
  <1>3. CASE ~valid
    BY <1>1, <1>2, <1>3 DEF ConnectCat4Om
  <1>4. CASE valid
    <2>1. d = [b EXCEPT !.configured = configured, !.observer = observer, !.user = FALSE,
                        !.attempt = 0, !.socket = "opening"]
      BY <1>1, <1>4 DEF ConnectCat4Om
    <2>2. /\ CatFormed(d) /\ ~d.user /\ d.socket = "opening" /\ d.welcomed = b.welcomed /\ d.role = b.role
          /\ d.pending = b.pending /\ d.sent = b.sent /\ d.handshake = b.handshake
          /\ d.inactivity = b.inactivity /\ d.reconnect = b.reconnect
      <3>1. CatFormed(b)
        BY <1>2
      <3>2. QED BY <2>1, <3>1 DEF CatFormed
    <2>3. QED BY <1>2, <2>2 DEF Alive
  <1>5. QED BY <1>3, <1>4

(* A timer that has fired, and the failure that it stands for.             *)
LEMMA FailingIsClean ==
  ASSUME NEW c, CatFormed(c), Alive(c), c.socket = "open",
         NEW b, b \in {c, [c EXCEPT !.handshake = FALSE], [c EXCEPT !.inactivity = FALSE]},
         NEW d, d = FailCat4Om(b)
  PROVE  CatFormed(d) /\ Alive(d) /\ d.socket = "closed"
  <1>1. CatFormed(b) /\ b.socket = "open" /\ b.user = c.user
    BY ZenonT(60) DEF CatFormed
  <1>2. d = Cat4OmEnds(b)
    BY <1>1 DEF FailCat4Om, CloseCat4Om
  <1>3. ~c.user
    BY DEF Alive
  <1>4. QED BY <1>1, <1>2, <1>3, EndingIsClean

(* A welcome gives the client everything that the group said.              *)
LEMMA WelcomeIsTaken ==
  ASSUME NEW c, CatFormed(c), Alive(c), c.socket = "open", ~c.welcomed,
         NEW m, m.good, m.mine \in BOOLEAN, NEW d, d = HandleWelcome(c, m)
  PROVE  /\ CatFormed(d) /\ Alive(d) /\ d.welcomed /\ d.socket = "open" /\ d.observer = c.observer
         /\ d.radios = Merged(NoRadios, m.radios) /\ d.sequence = m.seq
         /\ d.pending = NoActions /\ d.sent = <<>>
         /\ d.role = (IF c.observer THEN "Observer" ELSE MasterOrSlave(m.mine))
  <1>1. PICK role : role = (IF c.observer THEN "Observer" ELSE MasterOrSlave(m.mine))
    OBVIOUS
  <1>2. role \in {"Observer", "Master", "Slave"} /\ (c.observer => role = "Observer")
    BY <1>1 DEF MasterOrSlave
  <1>3. PICK a : a = [c EXCEPT !.instance = m.instance, !.role = role, !.sequence = m.seq]
    OBVIOUS
  <1>4. /\ CatFormed(a) /\ SameSession(a, c) /\ a.role = role /\ a.sequence = m.seq
        /\ a.pending = c.pending /\ a.sent = c.sent
    BY <1>2, <1>3 DEF CatFormed, SameSession
  <1>5. PICK full \in BOOLEAN : full
    OBVIOUS
  <1>6. PICK b : b = ReplaceOrMerge(a, m.radios, full)
    OBVIOUS
  <1>7. /\ CatFormed(b) /\ SameSession(b, a) /\ b.radios = Merged(IF full THEN NoRadios ELSE a.radios, m.radios)
        /\ b.role = a.role /\ b.sequence = a.sequence /\ b.pending = a.pending /\ b.sent = a.sent
    BY <1>4, <1>6, RadiosAreShown
  <1>8. d = [b EXCEPT !.inactivity = TRUE, !.handshake = FALSE, !.welcomed = TRUE, !.attempt = 0]
    BY <1>1, <1>3, <1>5, <1>6 DEF HandleWelcome, MasterOrSlave, ReplaceOrMerge
  <1>9. /\ CatFormed(d) /\ d.inactivity /\ ~d.handshake /\ d.welcomed
        /\ d.user = b.user /\ d.observer = b.observer /\ d.socket = b.socket /\ d.reconnect = b.reconnect
        /\ d.radios = b.radios /\ d.role = b.role /\ d.sequence = b.sequence
        /\ d.pending = b.pending /\ d.sent = b.sent
    BY ZenonT(60), <1>7, <1>8 DEF CatFormed
  <1>10. c.pending = NoActions /\ c.sent = <<>> /\ ~c.user /\ ~c.reconnect
    BY DEF Alive
  <1>11. d.observer = c.observer /\ d.user = c.user /\ d.socket = "open" /\ d.reconnect = c.reconnect
    BY <1>4, <1>7, <1>9 DEF SameSession
  <1>12. d.role = role /\ d.pending = NoActions /\ d.sent = <<>>
    BY <1>4, <1>7, <1>9, <1>10
  <1>13. Alive(d)
    BY <1>2, <1>9, <1>10, <1>11, <1>12 DEF Alive
  <1>14. QED BY <1>1, <1>4, <1>5, <1>7, <1>9, <1>11, <1>12, <1>13

LEMMA WelcomeIsTracked ==
  ASSUME NEW c, CatFormed(c), Alive(c), c.socket = "open", ~c.welcomed, NEW g \in Groups,
         NEW m, m.good, m.mine = g.mine, m.seq = g.seq, m.radios = g.radios
  PROVE  Tracks(HandleWelcome(c, m), <<>>, g, FALSE)
  <1>1. g.mine \in BOOLEAN /\ g.seq \in Nat /\ g.radios \in Reported
    BY DEF Groups
  <1>2. PICK d : d = HandleWelcome(c, m)
    OBVIOUS
  <1>3. /\ d.observer = c.observer /\ d.radios = Merged(NoRadios, m.radios) /\ d.sequence = m.seq
        /\ d.pending = NoActions /\ d.sent = <<>>
        /\ d.role = (IF c.observer THEN "Observer" ELSE MasterOrSlave(m.mine))
    BY <1>1, <1>2, WelcomeIsTaken
  <1>4. d.radios \in Reported /\ \A id \in RadioIds : d.radios[id] = g.radios[id]
    <2>1. g.radios \in PartOfRadios /\ DOMAIN g.radios = RadioIds
      BY <1>1 DEF PartOfRadios, Reported
    <2>2. /\ d.radios \in Reported
          /\ \A id \in RadioIds : d.radios[id] = (IF id \in DOMAIN g.radios THEN g.radios[id] ELSE NoRadios[id])
      BY <1>1, <1>3, <2>1, MergedRadios
    <2>3. QED BY <2>1, <2>2
  <1>5. PICK q : q = <<>>
    OBVIOUS
  <1>6. q \in Seq(CatMessages) /\ q \in Seq(CatRequests) /\ Len(q) = 0 /\ 1..Len(q) = {}
    BY <1>5
  <1>7. Updates(q) = {} /\ Responses(q) = {}
    BY <1>6 DEF Updates, Responses
  <1>8. WellSent(q)
    BY <1>6 DEF WellSent
  <1>9. InOrder(d.sequence, q, g) /\ Latest(d.sequence, q, g)
    BY <1>1, <1>3, <1>7 DEF InOrder, Latest
  <1>10. Answerable(d.pending, d.sent, q)
    <2>1. DOMAIN d.pending = {}
      BY <1>3 DEF NoActions
    <2>2. d.sent = q
      BY <1>3, <1>5
    <2>3. IsFiniteSet(DOMAIN d.pending)
      BY <2>1, FS_EmptySet
    <2>4. QED BY <1>6, <1>7, <2>2, <2>3 DEF Answerable
  <1>11. \A w, now : Tells(0, w, now, now)
    BY DEF Tells
  <1>12. ~d.observer => d.role = MasterOrSlave(g.mine)
    BY <1>3
  <1>13. Tracks(d, q, g, FALSE)
    BY <1>4, <1>6, <1>8, <1>9, <1>10, <1>11, <1>12 DEF Tracks
  <1>14. QED BY <1>2, <1>5, <1>13

-----------------------------------------------------------------------------
(* The steps of the client.                                                *)
LEMMA ConnectionSteps ==
  ASSUME CatIInv, NEW d, CatFormed(d), Alive(d), ~d.welcomed, Cat4OmBecomes(d, <<>>)
  PROVE  CatIInv'
  <1>1. cat' = d /\ catIn' = <<>> /\ catLost' = catLost
    BY DEF Cat4OmBecomes
  <1>2. GroupType'
    <2>1. group' = group \/ group' = [group EXCEPT !.mine = FALSE]
      BY DEF Cat4OmBecomes
    <2>2. GroupType
      BY DEF CatIInv
    <2>3. QED BY <2>1, <2>2 DEF GroupType
  <1>3. catIn' \in Seq(CatMessages) /\ catLost' \in BOOLEAN
    BY <1>1 DEF CatIInv
  <1>4. CatFormed(cat') /\ Alive(cat') /\ ~cat'.welcomed
    BY <1>1
  <1>5. QED BY <1>1, <1>2, <1>3, <1>4 DEF CatIInv

(* A session that goes on, with what was not read yet before it.           *)
LEMMA SessionSteps ==
  ASSUME CatIInv, NEW d, CatFormed(d), Alive(d), d.welcomed, NEW q, Cat4OmBecomes(d, q),
         Tracks(d, q, group, catLost)
  PROVE  CatIInv'
  <1>1. d.socket = "open"
    BY DEF Alive, CatFormed
  <1>2. cat' = d /\ catIn' = q /\ group' = group /\ catLost' = catLost
    BY <1>1 DEF Cat4OmBecomes
  <1>3. CatFormed(cat') /\ Alive(cat') /\ cat'.welcomed /\ cat'.socket = "open" /\ Tracks(cat', catIn', group', catLost')
    BY <1>1, <1>2
  <1>4. catIn' \in Seq(CatMessages)
    BY <1>2 DEF Tracks, WellSent
  <1>5. GroupType' /\ catLost' \in BOOLEAN
    BY <1>2 DEF CatIInv, GroupType
  <1>6. QED BY <1>3, <1>4, <1>5 DEF CatIInv

LEMMA OperatorSteps ==
  ASSUME CatIInv, DoConnectCat4Om \/ DoDisconnectCat4Om \/ Cat4OmOpens \/ Cat4OmDrops
                  \/ Cat4OmHandshakeTimeout \/ Cat4OmInactivityTimeout \/ Cat4OmReconnectTimeout
  PROVE  CatIInv'
  <1>1. CatFormed(cat) /\ Alive(cat)
    BY DEF CatIInv
  <1>2. CASE DoConnectCat4Om
    <2>1. PICK valid \in BOOLEAN, observer \in BOOLEAN, id \in RadioIds \cup {AnyRadio} :
            Cat4OmBecomes(ConnectCat4Om(cat, valid, id, observer), <<>>)
      BY <1>2 DEF DoConnectCat4Om
    <2>2. PICK d : d = ConnectCat4Om(cat, valid, id, observer)
      OBVIOUS
    <2>3. CatFormed(d) /\ Alive(d) /\ d.socket # "open"
      BY <1>1, <2>2, ConnectingIsClean
    <2>4. ~d.welcomed
      BY <2>3 DEF Alive
    <2>5. QED BY <2>1, <2>2, <2>3, <2>4, ConnectionSteps
  <1>3. CASE DoDisconnectCat4Om
    <2>1. PICK d : d = DisconnectCat4Om(cat)
      OBVIOUS
    <2>2. CatFormed(d) /\ Alive(d) /\ d.socket = "closed"
      BY <1>1, <2>1, DisconnectingIsClean
    <2>3. ~d.welcomed
      BY <2>2 DEF Alive
    <2>4. QED BY <1>3, <2>1, <2>2, <2>3, ConnectionSteps DEF DoDisconnectCat4Om
  <1>4. CASE Cat4OmOpens
    <2>1. PICK d : d = SendHello(cat)
      OBVIOUS
    <2>2. d = [cat EXCEPT !.socket = "open", !.handshake = TRUE]
      BY <2>1 DEF SendHello
    <2>3. /\ CatFormed(d) /\ d.socket = "open" /\ d.handshake /\ d.user = cat.user /\ d.observer = cat.observer
          /\ d.welcomed = cat.welcomed /\ d.role = cat.role /\ d.pending = cat.pending /\ d.sent = cat.sent
          /\ d.reconnect = cat.reconnect
      BY <1>1, <2>2 DEF CatFormed
    <2>4. cat.socket = "opening"
      BY <1>4 DEF Cat4OmOpens
    <2>5. Alive(d) /\ ~d.welcomed
      BY <1>1, <2>3, <2>4 DEF Alive
    <2>6. QED BY <1>4, <2>1, <2>3, <2>5, ConnectionSteps DEF Cat4OmOpens
  <1>5. CASE Cat4OmDrops
    <2>1. PICK d : d = Cat4OmEnds(cat)
      OBVIOUS
    <2>2. cat.user => ~cat.reconnect
      BY <1>1 DEF Alive
    <2>3. CatFormed(d) /\ Alive(d) /\ d.socket = "closed"
      BY <1>1, <2>1, <2>2, EndingIsClean
    <2>4. ~d.welcomed
      BY <2>3 DEF Alive
    <2>5. QED BY <1>5, <2>1, <2>3, <2>4, ConnectionSteps DEF Cat4OmDrops
  <1>6. CASE Cat4OmHandshakeTimeout
    <2>1. PICK b : b = [cat EXCEPT !.handshake = FALSE]
      OBVIOUS
    <2>2. PICK d : d = FailCat4Om(b)
      OBVIOUS
    <2>3. cat.handshake /\ Cat4OmBecomes(d, <<>>)
      BY <1>6, <2>1, <2>2 DEF Cat4OmHandshakeTimeout
    <2>4. cat.socket = "open"
      BY <1>1, <2>3 DEF Alive
    <2>5. CatFormed(d) /\ Alive(d) /\ d.socket = "closed"
      BY <1>1, <2>1, <2>2, <2>4, FailingIsClean
    <2>6. ~d.welcomed
      BY <2>5 DEF Alive
    <2>7. QED BY <2>3, <2>5, <2>6, ConnectionSteps
  <1>7. CASE Cat4OmInactivityTimeout
    <2>1. PICK b : b = [cat EXCEPT !.inactivity = FALSE]
      OBVIOUS
    <2>2. PICK d : d = FailCat4Om(b)
      OBVIOUS
    <2>3. cat.inactivity /\ Cat4OmBecomes(d, <<>>)
      BY <1>7, <2>1, <2>2 DEF Cat4OmInactivityTimeout
    <2>4. cat.socket = "open"
      BY <1>1, <2>3 DEF Alive
    <2>5. CatFormed(d) /\ Alive(d) /\ d.socket = "closed"
      BY <1>1, <2>1, <2>2, <2>4, FailingIsClean
    <2>6. ~d.welcomed
      BY <2>5 DEF Alive
    <2>7. QED BY <2>3, <2>5, <2>6, ConnectionSteps
  <1>8. CASE Cat4OmReconnectTimeout
    <2>1. PICK d : d = ReconnectCat4Om(cat)
      OBVIOUS
    <2>2. cat.reconnect /\ ~cat.user /\ cat.socket = "closed" /\ Cat4OmBecomes(d, <<>>)
      BY <1>1, <1>8, <2>1 DEF Cat4OmReconnectTimeout, Alive
    <2>3. d = [cat EXCEPT !.reconnect = FALSE, !.socket = "opening"]
      BY <2>1, <2>2 DEF ReconnectCat4Om
    <2>4. /\ CatFormed(d) /\ d.socket = "opening" /\ ~d.reconnect /\ d.user = cat.user /\ d.observer = cat.observer
          /\ d.welcomed = cat.welcomed /\ d.role = cat.role /\ d.pending = cat.pending /\ d.sent = cat.sent
          /\ d.handshake = cat.handshake /\ d.inactivity = cat.inactivity
      BY <1>1, <2>3 DEF CatFormed
    <2>5. Alive(d) /\ ~d.welcomed
      BY <1>1, <2>2, <2>4 DEF Alive
    <2>6. QED BY <2>2, <2>4, <2>5, ConnectionSteps
  <1>9. QED BY <1>2, <1>3, <1>4, <1>5, <1>6, <1>7, <1>8

LEMMA RequestSteps ==
  ASSUME CatIInv, DoRequestOwnership \/ DoSet
  PROVE  CatIInv'
  <1>1. CatFormed(cat) /\ Alive(cat) /\ (cat.welcomed => Tracks(cat, catIn, group, catLost))
    BY DEF CatIInv
  <1>2. /\ FreeToAsk(cat)
        /\ \E action \in CatActions, scoped \in BOOLEAN :
             MaySend(cat, scoped) /\ Cat4OmBecomes(SendRequest(cat, action, scoped), catIn)
    <2>1. CASE DoRequestOwnership
      <3>1. PICK action \in CatActions, scoped \in BOOLEAN : action = "getOwnership" /\ scoped = FALSE
        BY DEF CatActions
      <3>2. MaySend(cat, scoped) /\ Cat4OmBecomes(SendRequest(cat, action, scoped), catIn)
        BY <2>1, <3>1 DEF DoRequestOwnership, RequestOwnership
      <3>3. QED BY <2>1, <3>2 DEF DoRequestOwnership, MayAsk, FreeToAsk
    <2>2. CASE DoSet
      <3>1. PICK action \in CatActions :
              \E accepted : Cat4OmBecomes(SetCat4Om(cat, action, accepted), catIn)
        <4>1. "setFrequency" \in CatActions /\ "setMode" \in CatActions /\ "setSplit" \in CatActions
          BY DEF CatActions
        <4>2. QED BY <2>2, <4>1 DEF DoSet
      <3>2. PICK accepted : Cat4OmBecomes(SetCat4Om(cat, action, accepted), catIn)
        BY <3>1
      <3>3. PICK scoped \in BOOLEAN : scoped = TRUE
        OBVIOUS
      <3>4. cat' # cat /\ cat' = SetCat4Om(cat, action, accepted)
        BY <2>2, <3>2 DEF DoSet, Cat4OmBecomes
      <3>5. SetCat4Om(cat, action, accepted) = SendRequest(cat, action, scoped)
        BY <3>3, <3>4 DEF SetCat4Om
      <3>6. MaySend(cat, scoped)
        BY <3>4, <3>5 DEF SendRequest
      <3>7. QED BY <2>2, <3>2, <3>5, <3>6 DEF DoSet, MayAsk, FreeToAsk
    <2>3. QED BY <2>1, <2>2
  <1>3. PICK action \in CatActions, scoped \in BOOLEAN :
          MaySend(cat, scoped) /\ Cat4OmBecomes(SendRequest(cat, action, scoped), catIn)
    BY <1>2
  <1>4. cat.welcomed /\ ~cat.observer
    BY <1>3 DEF MaySend
  <1>5. PICK d : d = SendRequest(cat, action, scoped)
    OBVIOUS
  <1>6. CatFormed(d) /\ SameSession(d, cat) /\ Tracks(d, catIn, group, catLost)
    BY <1>1, <1>2, <1>4, <1>5, AskingIsTracked
  <1>7. Alive(d) /\ d.welcomed
    BY <1>1, <1>4, <1>6, SessionGoesOn DEF SameSession
  <1>8. QED BY <1>3, <1>5, <1>6, <1>7, SessionSteps

LEMMA ReadingSteps ==
  ASSUME CatIInv, Cat4OmHandles
  PROVE  CatIInv'
  <1>1. /\ CatFormed(cat) /\ Alive(cat) /\ GroupType /\ catIn \in Seq(CatMessages) /\ catIn # <<>>
        /\ cat.welcomed => Tracks(cat, catIn, group, catLost)
        /\ cat.socket = "open" /\ FreeToAsk(cat)
    BY DEF CatIInv, Cat4OmHandles, MayAsk, FreeToAsk
  <1>2. PICK m : m = catIn[1]
    OBVIOUS
  <1>3. m \in CatMessages /\ m = Head(catIn)
    BY <1>1, <1>2
  <1>4. PICK e : e = HandleTextMessage(cat, m)
    OBVIOUS
  <1>5. Cat4OmBecomes(e, Tail(catIn))
    BY <1>3, <1>4 DEF Cat4OmHandles
  <1>6. m.type # "malformed" /\ m.good \in BOOLEAN /\ m.mine \in BOOLEAN
    BY <1>3 DEF CatMessages
  <1>7. group \in Groups
    BY <1>1 DEF GroupType, Groups
  <1>8. CASE cat.welcomed
    <2>1. PICK d : d = [cat EXCEPT !.inactivity = TRUE]
      OBVIOUS
    <2>2. d = cat
      <3>1. cat.inactivity /\ cat.inactivity \in BOOLEAN
        BY <1>1, <1>8 DEF Alive, CatFormed
      <3>2. QED BY <1>1, <2>1, <3>1 DEF CatFormed
    <2>3. m.type \in {"stateUpdate", "ownershipChanged", "response"}
      BY <1>1, <1>2, <1>7, <1>8, FirstMessage
    <2>4. CatFormed(e) /\ SameSession(e, cat) /\ Alive(e) /\ Tracks(e, Tail(catIn), group, catLost)
      <3>1. CASE m.type = "stateUpdate"
        <4>1. e = HandleStateUpdate(cat, m)
          BY <1>4, <1>8, <2>1, <2>2, <3>1 DEF HandleTextMessage
        <4>2. QED BY <1>1, <1>2, <1>7, <1>8, <3>1, <4>1, UpdateIsRead
      <3>2. CASE m.type = "ownershipChanged"
        <4>1. e = HandleEvent(cat, m)
          BY <1>4, <1>8, <2>1, <2>2, <3>2 DEF HandleTextMessage
        <4>2. QED BY <1>1, <1>2, <1>7, <1>8, <3>2, <4>1, OwnershipIsRead
      <3>3. CASE m.type = "response"
        <4>1. e = HandleResponse(cat, m)
          BY <1>4, <1>8, <2>1, <2>2, <3>3 DEF HandleTextMessage
        <4>2. QED BY <1>1, <1>2, <1>7, <1>8, <3>3, <4>1, ResponseIsRead
      <3>4. QED BY <2>3, <3>1, <3>2, <3>3
    <2>5. e.welcomed
      BY <1>8, <2>4 DEF SameSession
    <2>6. QED BY <1>5, <2>4, <2>5, SessionSteps
  <1>9. CASE ~cat.welcomed /\ m.type = "welcome" /\ m.good
    <2>1. e = HandleWelcome(cat, m)
      BY <1>4, <1>9 DEF HandleTextMessage
    <2>2. Tracks(e, Tail(catIn), group, catLost)
      BY <1>1, <1>2, <1>9, <2>1 DEF CatIInv
    <2>3. CatFormed(e) /\ Alive(e) /\ e.welcomed
      BY <1>1, <1>6, <1>9, <2>1, WelcomeIsTaken
    <2>4. QED BY <1>5, <2>2, <2>3, SessionSteps
  <1>10. CASE ~cat.welcomed /\ ~(m.type = "welcome" /\ m.good)
    <2>1. e = FailCat4Om(cat)
      BY <1>4, <1>6, <1>10 DEF HandleTextMessage, HandleWelcome
    <2>2. CatFormed(e) /\ Alive(e) /\ e.socket = "closed"
      BY <1>1, <2>1, FailingIsClean
    <2>3. ~e.welcomed
      BY <2>2 DEF Alive
    <2>4. Cat4OmBecomes(e, <<>>)
      BY <1>5, <2>2 DEF Cat4OmBecomes
    <2>5. QED BY <2>2, <2>3, <2>4, ConnectionSteps
  <1>11. QED BY <1>8, <1>9, <1>10

-----------------------------------------------------------------------------
(* The steps of the group.  What is sent follows what is on its way,       *)
(* before a client that is welcomed or that will be.                       *)
FollowsOn(m, g, lost) ==
  \A d, q : Tracks(d, q, group, catLost) => Tracks(d, Append(q, m), g, lost)

LEMMA SendingSteps ==
  ASSUME CatIInv, NEW m \in CatMessages, cat.socket = "open", catIn' = Append(catIn, m), cat' = cat,
         GroupType', catLost' \in BOOLEAN, cat.welcomed \/ catIn # <<>>, FollowsOn(m, group', catLost')
  PROVE  CatIInv'
  <1>1. /\ CatFormed(cat) /\ Alive(cat) /\ catIn \in Seq(CatMessages)
        /\ cat.welcomed => Tracks(cat, catIn, group, catLost)
    BY DEF CatIInv
  <1>2. /\ CatFormed(cat') /\ Alive(cat') /\ GroupType' /\ catIn' \in Seq(CatMessages) /\ catLost' \in BOOLEAN
        /\ cat'.socket # "open" => catIn' = <<>>
    <2>1. catIn' \in Seq(CatMessages)
      BY <1>1
    <2>2. CatFormed(cat') /\ Alive(cat') /\ cat'.socket = "open"
      BY <1>1
    <2>3. QED BY <2>1, <2>2
  <1>3. cat'.welcomed => Tracks(cat', catIn', group', catLost')
    BY <1>1 DEF FollowsOn
  <1>4. ASSUME ~cat.welcomed, catIn'[1].type = "welcome"
        PROVE  /\ catIn'[1].radios \in Reported
               /\ catIn'[1].good => Tracks(HandleWelcome(cat', catIn'[1]), Tail(catIn'), group', catLost')
    <2>1. catIn # <<>>
      BY <1>4
    <2>2. catIn'[1] = catIn[1] /\ Tail(catIn') = Append(Tail(catIn), m)
      BY <1>1, <2>1
    <2>3. /\ catIn[1].radios \in Reported
          /\ catIn[1].good => Tracks(HandleWelcome(cat, catIn[1]), Tail(catIn), group, catLost)
      BY <1>4, <2>1, <2>2 DEF CatIInv
    <2>4. catIn[1].good => Tracks(HandleWelcome(cat, catIn[1]), Append(Tail(catIn), m), group', catLost')
      BY <2>3 DEF FollowsOn
    <2>5. QED BY <2>2, <2>3, <2>4
  <1>5. QED BY <1>2, <1>3, <1>4 DEF CatIInv

LEMMA GreetingSteps ==
  ASSUME CatIInv, Welcomes \/ Impostor
  PROVE  CatIInv'
  <1>1. /\ CatFormed(cat) /\ Alive(cat) /\ GroupType /\ catIn \in Seq(CatMessages) /\ cat.socket = "open"
        /\ catLost \in BOOLEAN
    BY DEF CatIInv, Welcomes, Impostor, Room
  <1>2. ~cat.welcomed /\ \A i \in 1..Len(catIn) : catIn[i].type # "welcome"
    BY DEF Welcomes, Impostor, Greeted
  <1>3. cat' = cat /\ group' = group /\ catLost' \in BOOLEAN /\ (Impostor \/ catLost' = FALSE)
    BY <1>1 DEF Welcomes, Impostor
  <1>4. group \in Groups /\ group.instance \in {1, 2} /\ group.seq \in Nat /\ group.mine \in BOOLEAN /\ group.radios \in Reported
    BY <1>1 DEF GroupType, Groups
  <1>5. PICK m \in CatMessages :
          /\ catIn' = Append(catIn, m)
          /\ m.type = "welcome" =>
               catLost' = FALSE /\ m.mine = group.mine /\ m.seq = group.seq /\ m.radios = group.radios
    <2>1. CASE Welcomes
      <3>1. PICK good \in BOOLEAN : Sends(GroupMessage("welcome", good, group.seq, group.radios, TRUE, 0))
        BY <2>1 DEF Welcomes
      <3>2. PICK m : m = GroupMessage("welcome", good, group.seq, group.radios, TRUE, 0)
        OBVIOUS
      <3>3. group.radios \in UNION {[S -> CatRadios] : S \in SUBSET RadioIds}
        BY <1>4 DEF Reported
      <3>4. m \in CatMessages /\ m.mine = group.mine /\ m.seq = group.seq /\ m.radios = group.radios
        BY <1>4, <3>2, <3>3 DEF GroupMessage, CatMessages
      <3>5. catLost' = FALSE
        BY <2>1 DEF Welcomes
      <3>6. QED BY <3>1, <3>2, <3>4, <3>5 DEF Sends
    <2>2. CASE Impostor
      <3>1. PICK m : m = PlainMessage("error", TRUE, 0)
        OBVIOUS
      <3>2. NoRadios \in [{} -> CatRadios]
        BY DEF NoRadios
      <3>3. NoRadios \in UNION {[S -> CatRadios] : S \in SUBSET RadioIds}
        BY <3>2
      <3>4. m \in CatMessages /\ m.type # "welcome"
        BY <1>4, <3>1, <3>3 DEF PlainMessage, GroupMessage, CatMessages
      <3>5. QED BY <2>2, <3>1, <3>4 DEF Impostor, Sends
    <2>3. QED BY <2>1, <2>2
  <1>6. catIn' \in Seq(CatMessages) /\ catIn' # <<>>
    BY <1>1, <1>5
  <1>7. ASSUME catIn'[1].type = "welcome"
        PROVE  /\ catIn'[1].radios \in Reported
               /\ catIn'[1].good => Tracks(HandleWelcome(cat', catIn'[1]), Tail(catIn'), group', catLost')
    <2>1. catIn = <<>>
      <3>1. SUFFICES ASSUME catIn # <<>> PROVE FALSE
        OBVIOUS
      <3>2. 1 \in 1..Len(catIn) /\ catIn'[1] = catIn[1]
        BY <1>1, <1>5, <3>1
      <3>3. QED BY <1>2, <1>7, <3>2
    <2>2. catIn'[1] = m /\ Tail(catIn') = <<>>
      BY <1>5, <2>1
    <2>3. m.mine = group.mine /\ m.seq = group.seq /\ m.radios = group.radios /\ catLost' = FALSE
      BY <1>5, <1>7, <2>2
    <2>4. m.good => Tracks(HandleWelcome(cat, m), <<>>, group, FALSE)
      BY <1>1, <1>2, <1>4, <2>3, WelcomeIsTracked
    <2>5. QED BY <1>3, <1>4, <2>2, <2>3, <2>4
  <1>8. /\ CatFormed(cat') /\ Alive(cat') /\ GroupType' /\ cat'.socket = "open" /\ ~cat'.welcomed
    BY <1>1, <1>2, <1>3 DEF GroupType
  <1>9. QED BY <1>3, <1>6, <1>7, <1>8 DEF CatIInv

(* Whoever was greeted is told of what changes.                            *)
LEMMA GreetedIsFirst ==
  ASSUME CatIInv, Greeted
  PROVE  cat.welcomed \/ catIn # <<>>
  <1>1. CASE \E i \in 1..Len(catIn) : catIn[i].type = "welcome"
    BY <1>1
  <1>2. QED BY <1>1 DEF Greeted

LEMMA ChangingSteps ==
  ASSUME CatIInv, RadioChanges
  PROVE  CatIInv'
  <1>1. /\ CatFormed(cat) /\ Alive(cat) /\ GroupType /\ catIn \in Seq(CatMessages) /\ cat.socket = "open"
        /\ cat.welcomed \/ catIn # <<>>
    BY GreetedIsFirst DEF CatIInv, RadioChanges, Room
  <1>2. group \in Groups /\ group.instance \in {1, 2} /\ group.seq \in Nat /\ group.mine \in BOOLEAN /\ group.radios \in Reported
    BY <1>1 DEF GroupType, Groups
  <1>3. PICK id \in RadioIds, radio \in CatRadios, full \in BOOLEAN, kept \in BOOLEAN :
          LET now == [group EXCEPT !.seq = @ + 1, !.radios[id] = radio]
          IN  /\ group' = now
              /\ IF kept
                   THEN Sends([GroupMessage("stateUpdate", TRUE, now.seq,
                                 IF full THEN now.radios ELSE [i \in {id} |-> radio], full, 0)
                               EXCEPT !.mine = now.mine])
                   ELSE UNCHANGED catIn
              /\ catLost' = ~kept
    BY DEF RadioChanges
  <1>4. PICK radios : radios = [group.radios EXCEPT ![id] = radio]
    OBVIOUS
  <1>5. radios \in Reported /\ radios[id] = radio /\ \A i \in RadioIds \ {id} : radios[i] = group.radios[i]
    BY <1>2, <1>4 DEF Reported
  <1>6. group' = [group EXCEPT !.seq = group.seq + 1, !.radios = radios]
    BY <1>3, <1>4
  <1>7. /\ group' \in Groups /\ group'.seq = group.seq + 1 /\ group'.mine = group.mine /\ group'.radios = radios
        /\ GroupType'
    <2>1. group' = [instance |-> group.instance, seq |-> group.seq + 1, radios |-> radios, mine |-> group.mine]
      BY <1>2, <1>6 DEF Groups
    <2>2. group.seq + 1 \in Nat
      BY <1>2
    <2>3. QED BY <1>2, <1>5, <2>1, <2>2 DEF Groups, GroupType
  <1>8. cat' = cat /\ catLost' \in BOOLEAN /\ (catLost' <=> ~kept)
    BY <1>3 DEF RadioChanges
  <1>9. CASE kept
    <2>1. PICK said : said = IF full THEN radios ELSE [i \in {id} |-> radio]
      OBVIOUS
    <2>2. PICK m : m = [GroupMessage("stateUpdate", TRUE, group'.seq, said, full, 0) EXCEPT !.mine = group'.mine]
      OBVIOUS
    <2>3. said \in UNION {[S -> CatRadios] : S \in SUBSET RadioIds}
      <3>1. CASE full
        BY <1>5, <2>1, <3>1 DEF Reported
      <3>2. CASE ~full
        <4>1. said \in [{id} -> CatRadios]
          BY <2>1, <3>2
        <4>2. QED BY <4>1
      <3>3. QED BY <3>1, <3>2
    <2>4. /\ DOMAIN said = IF full THEN RadioIds ELSE {id}
          /\ \A i \in DOMAIN said : said[i] = radios[i]
          /\ \A i \in RadioIds \ DOMAIN said : radios[i] = group.radios[i]
          /\ full => said \in Reported
      <3>1. CASE full
        BY <1>5, <2>1, <3>1 DEF Reported
      <3>2. CASE ~full
        BY <1>5, <2>1, <3>2
      <3>3. QED BY <3>1, <3>2
    <2>5. /\ m \in CatMessages /\ m.type = "stateUpdate" /\ m.seq = group'.seq /\ m.mine = group'.mine
          /\ m.radios = said /\ m.full = full
      <3>1. group'.seq \in Nat /\ group'.mine \in BOOLEAN
        BY <1>2, <1>7
      <3>2. QED BY <1>2, <2>2, <2>3, <3>1 DEF GroupMessage, CatMessages
    <2>6. catIn' = Append(catIn, m)
      <3>1. Sends([GroupMessage("stateUpdate", TRUE, group'.seq,
                     IF full THEN group'.radios ELSE [i \in {id} |-> radio], full, 0) EXCEPT !.mine = group'.mine])
        BY <1>3, <1>9
      <3>2. QED BY <1>7, <2>1, <2>2, <3>1 DEF Sends
    <2>7. FollowsOn(m, group', FALSE)
      <3>1. SUFFICES ASSUME NEW d, NEW q, Tracks(d, q, group, catLost)
                     PROVE  Tracks(d, Append(q, m), group', FALSE)
        BY DEF FollowsOn
      <3>2. /\ m.full => m.radios \in Reported
            /\ \A i \in DOMAIN m.radios : m.radios[i] = group'.radios[i]
            /\ \A i \in RadioIds \ DOMAIN m.radios : group'.radios[i] = group.radios[i]
        BY <1>7, <2>4, <2>5
      <3>3. QED BY <1>2, <1>7, <2>5, <3>1, <3>2, UpdateIsTracked
    <2>8. catLost' = FALSE
      BY <1>3, <1>9
    <2>9. QED BY <1>1, <1>7, <1>8, <2>5, <2>6, <2>7, <2>8, SendingSteps
  <1>10. CASE ~kept
    <2>1. catIn' = catIn /\ catLost' = TRUE
      BY <1>3, <1>10
    <2>2. \A d, q : Tracks(d, q, group, catLost) => Tracks(d, q, group', TRUE)
      BY <1>2, <1>7, LossIsTracked
    <2>3. cat'.welcomed => Tracks(cat', catIn', group', catLost')
      BY <1>8, <2>1, <2>2 DEF CatIInv
    <2>4. ASSUME ~cat.welcomed, catIn # <<>>, catIn[1].type = "welcome"
          PROVE  /\ catIn[1].radios \in Reported
                 /\ catIn[1].good => Tracks(HandleWelcome(cat, catIn[1]), Tail(catIn), group', TRUE)
      BY <2>2, <2>4 DEF CatIInv
    <2>5. /\ CatFormed(cat') /\ Alive(cat') /\ catIn' \in Seq(CatMessages) /\ cat'.socket = "open"
      BY <1>1, <1>8, <2>1
    <2>6. QED BY <1>7, <1>8, <2>1, <2>3, <2>4, <2>5 DEF CatIInv
  <1>11. QED BY <1>9, <1>10

LEMMA OwningSteps ==
  ASSUME CatIInv, OwnershipChanges
  PROVE  CatIInv'
  <1>1. /\ GroupType /\ cat.socket = "open" /\ catLost \in BOOLEAN /\ (cat.welcomed \/ catIn # <<>>)
    BY GreetedIsFirst DEF CatIInv, OwnershipChanges, Room
  <1>2. group \in Groups /\ group.instance \in {1, 2} /\ group.seq \in Nat /\ group.mine \in BOOLEAN
    BY <1>1 DEF GroupType, Groups
  <1>3. group' = [group EXCEPT !.mine = FALSE] /\ cat' = cat /\ catLost' = catLost
    BY DEF OwnershipChanges
  <1>4. group' \in Groups /\ group'.seq = group.seq /\ group'.radios = group.radios /\ ~group'.mine /\ GroupType'
    BY <1>1, <1>2, <1>3 DEF Groups, GroupType
  <1>5. PICK m : m = [PlainMessage("ownershipChanged", TRUE, 0) EXCEPT !.mine = FALSE]
    OBVIOUS
  <1>6. NoRadios \in UNION {[S -> CatRadios] : S \in SUBSET RadioIds}
    <2>1. NoRadios \in [{} -> CatRadios]
      BY DEF NoRadios
    <2>2. QED BY <2>1
  <1>7. m \in CatMessages /\ m.type = "ownershipChanged" /\ m.mine = FALSE
    BY <1>2, <1>5, <1>6 DEF PlainMessage, GroupMessage, CatMessages
  <1>8. catIn' = Append(catIn, m)
    BY <1>5 DEF OwnershipChanges
  <1>9. FollowsOn(m, group', catLost)
    <2>1. SUFFICES ASSUME NEW d, NEW q, Tracks(d, q, group, catLost)
                   PROVE  Tracks(d, Append(q, m), group', catLost)
      BY DEF FollowsOn
    <2>2. group'.mine = FALSE
      BY <1>2, <1>3 DEF Groups
    <2>3. m.mine = group'.mine
      BY <1>7, <2>2
    <2>4. QED BY <1>2, <1>4, <1>7, <2>1, <2>3, OwnershipIsTracked
  <1>10. QED BY <1>1, <1>3, <1>4, <1>7, <1>8, <1>9, SendingSteps

LEMMA AnsweringSteps ==
  ASSUME CatIInv, Answers
  PROVE  CatIInv'
  <1>1. CatFormed(cat) /\ Alive(cat) /\ GroupType /\ catLost \in BOOLEAN /\ cat.sent # <<>> /\ cat.socket = "open"
    BY DEF CatIInv, Answers, Room
  <1>2. cat.welcomed
    BY <1>1 DEF Alive
  <1>3. Tracks(cat, catIn, group, catLost)
    BY <1>2 DEF CatIInv
  <1>4. group \in Groups /\ group.instance \in {1, 2} /\ group.seq \in Nat /\ group.mine \in BOOLEAN /\ group.radios \in Reported
    BY <1>1 DEF GroupType, Groups
  <1>5. PICK request : request = cat.sent[1]
    OBVIOUS
  <1>6. cat.sent \in Seq(CatRequests)
    BY <1>3 DEF Tracks, Answerable
  <1>7. request = Head(cat.sent) /\ request \in CatRequests
    BY <1>1, <1>5, <1>6
  <1>8. PICK good \in BOOLEAN :
          /\ request.action = "getAllState" => good
          /\ group' = [group EXCEPT !.mine = @ \/ (good /\ request.action = "getOwnership" /\ ~cat.observer)]
          /\ Sends(GroupMessage("response", good, group.seq, group.radios, TRUE, request.id))
    BY <1>7 DEF Answers
  <1>9. PICK m : m = GroupMessage("response", good, group.seq, group.radios, TRUE, request.id)
    OBVIOUS
  <1>10. group.radios \in UNION {[S -> CatRadios] : S \in SUBSET RadioIds}
    BY <1>4 DEF Reported
  <1>11. request.id \in Nat
    BY <1>7 DEF CatRequests
  <1>12. /\ m \in CatMessages /\ m.type = "response" /\ m.id = request.id /\ m.radios = group.radios
         /\ m.good = good
    BY <1>4, <1>9, <1>10, <1>11 DEF GroupMessage, CatMessages
  <1>13. catIn' = Append(catIn, m)
    BY <1>8, <1>9 DEF Sends
  <1>14. PICK mine \in BOOLEAN : mine = (group.mine \/ (good /\ request.action = "getOwnership" /\ ~cat.observer))
    OBVIOUS
  <1>15. group' = [group EXCEPT !.mine = mine]
    BY <1>8, <1>14
  <1>16. /\ group' \in Groups /\ group'.seq = group.seq /\ group'.radios = group.radios /\ group'.mine = mine
         /\ GroupType'
    BY <1>1, <1>4, <1>15 DEF Groups, GroupType
  <1>17. cat' = [cat EXCEPT !.sent = Tail(cat.sent)] /\ catLost' = catLost
    BY DEF Answers
  <1>18. /\ CatFormed(cat') /\ SameSession(cat', cat) /\ cat'.sent = Tail(cat.sent) /\ cat'.pending = cat.pending
         /\ cat'.radios = cat.radios /\ cat'.sequence = cat.sequence /\ cat'.role = cat.role
         /\ cat'.observer = cat.observer /\ cat'.welcomed = cat.welcomed /\ cat'.socket = cat.socket
    BY <1>1, <1>17 DEF CatFormed, SameSession
  <1>19. Tracks(cat', catIn', group', catLost)
    <2>1. group'.mine = (group.mine \/ (m.good /\ request.action = "getOwnership" /\ ~cat.observer))
      BY <1>12, <1>14, <1>16
    <2>2. request.action = "getAllState" => m.good
      BY <1>8, <1>12
    <2>3. QED BY ZenonT(60), <1>1, <1>3, <1>4, <1>5, <1>12, <1>13, <1>16, <1>18, <2>1, <2>2, AnswerIsTracked
  <1>20. Alive(cat')
    <2>1. cat.observer => cat'.role \notin {"Master", "Slave"} /\ cat'.pending = NoActions
      BY <1>1, <1>18 DEF Alive
    <2>2. QED BY <1>1, <1>2, <1>18, <2>1, SessionGoesOn
  <1>21. catIn' \in Seq(CatMessages)
    BY <1>19 DEF Tracks, WellSent
  <1>22. QED BY <1>1, <1>2, <1>16, <1>17, <1>18, <1>19, <1>20, <1>21 DEF CatIInv

LEMMA RestartingSteps ==
  ASSUME CatIInv, GroupRestarts
  PROVE  CatIInv'
  <1>1. CatFormed(cat) /\ Alive(cat) /\ GroupType /\ catLost \in BOOLEAN
    BY DEF CatIInv
  <1>2. GroupType' /\ catIn' = <<>> /\ catLost' = catLost
    BY <1>1 DEF GroupRestarts, GroupType
  <1>3. CatFormed(cat') /\ Alive(cat') /\ ~cat'.welcomed
    <2>1. CASE cat.socket = "open"
      <3>1. PICK d : d = Cat4OmEnds(cat)
        OBVIOUS
      <3>2. cat' = d
        BY <2>1, <3>1 DEF GroupRestarts
      <3>3. cat.user => ~cat.reconnect
        BY <1>1 DEF Alive
      <3>4. CatFormed(d) /\ Alive(d) /\ d.socket = "closed"
        BY <1>1, <3>1, <3>3, EndingIsClean
      <3>5. ~d.welcomed
        BY <3>4 DEF Alive
      <3>6. QED BY <3>2, <3>4, <3>5
    <2>2. CASE cat.socket # "open"
      <3>1. cat' = cat
        BY <2>2 DEF GroupRestarts
      <3>2. ~cat.welcomed
        BY <1>1, <2>2 DEF Alive
      <3>3. QED BY <1>1, <3>1, <3>2
    <2>3. QED BY <2>1, <2>2
  <1>4. catIn' \in Seq(CatMessages)
    BY <1>2
  <1>5. QED BY <1>1, <1>2, <1>3, <1>4 DEF CatIInv

-----------------------------------------------------------------------------
LEMMA GroupIsFollowedAtFirst == Cat4OmInit => CatIInv
  <1>1. SUFFICES ASSUME Cat4OmInit PROVE CatIInv
    OBVIOUS
  <1>2. CatFormed(cat)
    BY <1>1 DEF Cat4OmInit, NewCat4Om, CatFormed
  <1>3. Alive(cat) /\ ~cat.welcomed
    BY <1>1 DEF Cat4OmInit, NewCat4Om, Alive
  <1>4. PICK radios \in Reported : group = [instance |-> 1, seq |-> 0, radios |-> radios, mine |-> FALSE]
    BY <1>1 DEF Cat4OmInit
  <1>5. GroupType
    BY <1>4 DEF GroupType
  <1>6. catIn = <<>> /\ catLost = FALSE
    BY <1>1 DEF Cat4OmInit
  <1>7. catIn \in Seq(CatMessages)
    BY <1>6
  <1>8. QED BY <1>2, <1>3, <1>5, <1>6, <1>7 DEF CatIInv

LEMMA GroupIsFollowedOn == CatIInv /\ [Cat4OmNext]_catVars => CatIInv'
  <1>1. SUFFICES ASSUME CatIInv, [Cat4OmNext]_catVars PROVE CatIInv'
    OBVIOUS
  <1>2. CASE UNCHANGED catVars
    BY <1>1, <1>2 DEF catVars, CatIInv, GroupType
  <1>3. CASE Cat4OmNext
    BY <1>1, <1>3, OperatorSteps, RequestSteps, ReadingSteps, GreetingSteps, ChangingSteps, OwningSteps,
       AnsweringSteps, RestartingSteps DEF Cat4OmNext
  <1>4. QED BY <1>1, <1>2, <1>3

(* What is told when nothing is left to read is what the group has.        *)
LEMMA CatchesUp == CatIInv => CaughtUp
  <1>1. SUFFICES ASSUME CatIInv, cat.welcomed, ~cat.observer, catIn = <<>>
                 PROVE  /\ ~catLost /\ ~Asked("getAllState") => cat.radios = group.radios
                        /\ ~Asked("getOwnership") => (cat.role = "Master" <=> group.mine)
    BY DEF CaughtUp
  <1>2. Tracks(cat, catIn, group, catLost) /\ GroupType
    BY <1>1 DEF CatIInv
  <1>3. Len(catIn) = 0 /\ 1..Len(catIn) = {} /\ Updates(catIn) = {}
    BY <1>1 DEF Updates
  <1>4. Tells(0, RoleWords(cat.pending, catIn), cat.role, MasterOrSlave(group.mine))
    BY <1>1, <1>2, <1>3 DEF Tracks
  <1>5. cat.role = MasterOrSlave(group.mine)
    BY <1>4 DEF Tells
  <1>6. ASSUME ~catLost, ~Asked("getAllState")
        PROVE  cat.radios = group.radios
    <2>1. Latest(cat.sequence, catIn, group)
      BY <1>2, <1>6 DEF Tracks
    <2>2. cat.sequence = group.seq
      BY <1>3, <2>1 DEF Latest
    <2>3. Complete(cat.sequence, catIn, group)
      <3>1. group.seq \in Nat
        BY <1>2 DEF GroupType
      <3>2. cat.sequence + 1..group.seq = {}
        BY <2>2, <3>1
      <3>3. QED BY <3>2 DEF Complete
    <2>4. ~Owes(cat.sent)
      <3>1. \A k \in 1..Len(cat.sent) :
              cat.sent[k].id \in DOMAIN cat.pending /\ cat.pending[cat.sent[k].id] = cat.sent[k].action
        BY <1>2 DEF Tracks, Answerable
      <3>2. QED BY <1>6, <3>1 DEF Owes, Asked
    <2>5. ASSUME NEW id \in RadioIds
          PROVE  cat.radios[id] = group.radios[id]
      <3>1. Tells(0, RadioWords(cat.pending, catIn, id), cat.radios[id], group.radios[id])
        BY <1>1, <1>2, <1>3, <2>3, <2>4 DEF Tracks
      <3>2. QED BY <3>1 DEF Tells
    <2>6. cat.radios \in Reported /\ group.radios \in Reported
      BY <1>2 DEF Tracks, GroupType
    <2>7. QED BY <2>5, <2>6 DEF Reported
  <1>7. QED BY <1>5, <1>6 DEF MasterOrSlave

(* A client that is connected is never left mute, keeps no role of a       *)
(* connection that ended, and once everything was read and no snapshot is  *)
(* owed, holds what the group has.                                         *)
THEOREM GroupIsFollowed == Cat4OmSpec => []Cat4OmInv
  <1>1. Cat4OmInit => CatIInv
    BY GroupIsFollowedAtFirst
  <1>2. CatIInv /\ [Cat4OmNext]_catVars => CatIInv'
    BY GroupIsFollowedOn
  <1>3. CatIInv => Cat4OmInv
    BY CatchesUp DEF CatIInv, Alive, Cat4OmInv
  <1>4. QED BY <1>1, <1>2, <1>3, PTL DEF Cat4OmSpec


-----------------------------------------------------------------------------
(***************************************************************************)
(* The settings of the radio, for any rig, any reports of the other        *)
(* providers, any profiles and any frequencies.                            *)
(***************************************************************************)

(* The shape of the settings; the window may stand beyond what can be      *)
(* tuned, but only as far as it may be from the centre.                    *)
SettingsFormed(s) ==
  s \in [enabled : BOOLEAN, linked : BOOLEAN, backend : Backends, radio : {s.radio},
         target : {s.target}, dial : {s.dial}, modes : {s.modes}, pending : Nat, owner : {s.owner},
         timer : BOOLEAN, follow : BOOLEAN, center : 1..MaxRf, decoder : 1..MaxRf + Reach,
         loOffset : Int, rxOffset : Int, txOffset : {0}, step : {1}, txTarget : {s.txTarget}]

(* A request is pending while its timer runs.                              *)
Books(s) == /\ (s.pending # NoHz) = s.timer
            /\ (s.owner # NoBackend) = s.timer
Prepared(s) == SettingsFormed(s) /\ Books(s) /\ RadioStateIsValid(s.radio)
Held(s) == Prepared(s) /\ (~(s.enabled /\ s.linked) => s.radio = NoRadio)

SameButWindow(s, w) ==
  /\ w.enabled = s.enabled /\ w.linked = s.linked /\ w.backend = s.backend /\ w.radio = s.radio
  /\ w.target = s.target /\ w.dial = s.dial /\ w.modes = s.modes /\ w.pending = s.pending /\ w.owner = s.owner
  /\ w.timer = s.timer /\ w.follow = s.follow /\ w.loOffset = s.loOffset
  /\ w.rxOffset = s.rxOffset /\ w.txOffset = s.txOffset /\ w.step = s.step
  /\ w.txTarget = s.txTarget

AnyRig ==
  [online : BOOLEAN, receiving : BOOLEAN, writable : SUBSET Parameters, layout : Layouts,
   split : {"Enabled", "Disabled", "?"}, hz : [VfoNames -> Int], selected : VfoNames, mode : Modes]
ProvidedAreValid(provided) ==
  /\ provided = [b \in {Hamlib, Cat4Om} |-> provided[b]]
  /\ RadioStateIsValid(provided[Hamlib]) /\ RadioStateIsValid(provided[Cat4Om])

RadioSettingsIInv ==
  /\ Held(rs) /\ rs.pending = rsAsked
  /\ ProvidedAreValid(rsProvided)
  /\ rsRig \in AnyRig
  /\ rsTransmit # NoHz /\ WriteTarget(rsRig) # "Freq" => TransmitHz = rsTransmit

LEMMA Tunable == MaxHz \in Nat /\ MaxRf \in Nat /\ 1 <= MaxRf /\ MaxRf <= MaxHz /\ Reach \in Nat
  BY WidthAssumption, TuningAssumption

LEMMA BackendsAre == NoBackend \notin Backends /\ OmniRig # Hamlib /\ OmniRig # Cat4Om /\ Hamlib # Cat4Om
  BY DEF Backends, NoBackend, OmniRig, Hamlib, Cat4Om

LEMMA ClampedIs ==
  ASSUME NEW value \in Int, NEW low \in Int, NEW high \in Int, low <= high,
         NEW x, x = Clamped(value, low, high)
  PROVE  /\ x \in low..high
         /\ value \in low..high => x = value
         /\ value < low => x = low
         /\ value > high => x = high
  BY DEF Clamped


(* What the window functions make of settings with another window.         *)
Windowed(s, at, window) == [s EXCEPT !.center = at, !.decoder = window]

LEMMA WindowedIs ==
  ASSUME NEW s, SettingsFormed(s), NEW at \in 1..MaxRf, NEW window \in 1..MaxRf + Reach,
         NEW w, w = Windowed(s, at, window)
  PROVE  SettingsFormed(w) /\ SameButWindow(s, w) /\ w.center = at /\ w.decoder = window
  BY DEF SettingsFormed, SameButWindow, Windowed

LEMMA InReach ==
  ASSUME NEW at \in 1..MaxRf, NEW rf \in Int, rf >= 1, NEW x, x = Clamped(rf, at - Reach, at + Reach)
  PROVE  x \in 1..MaxRf + Reach
<1>1. at - Reach <= at + Reach /\ at - Reach \in Int /\ at + Reach \in Int
      /\ at - Reach <= MaxRf + Reach /\ at + Reach <= MaxRf + Reach /\ at + Reach >= 1
  BY Tunable
<1>2. x \in at - Reach..at + Reach
  BY <1>1, ClampedIs
<1>3. rf < at - Reach => x = at - Reach
  BY <1>1, ClampedIs
<1>4. rf >= at - Reach => x >= 1
  BY <1>1, <1>2, Tunable DEF Clamped
<1>5. x >= 1
  <2>1. CASE rf < at - Reach
    BY <2>1, <1>1, <1>3
  <2>2. CASE rf >= at - Reach
    BY <2>2, <1>4
  <2>3. QED
    BY <1>1, <2>1, <2>2
<1>6. QED
  BY <1>1, <1>2, <1>5, Tunable

CenterFor(s, rf) == Clamped(rf + Clamped(s.loOffset, -Reach, Reach), 1, MaxRf)
LEMMA CenterIsNear ==
  ASSUME NEW s, s.loOffset \in Int, NEW rf \in Int, rf >= 1
  PROVE  /\ CenterFor(s, rf) \in 1..MaxRf
         /\ rf <= MaxRf + Reach => rf \in CenterFor(s, rf) - Reach..CenterFor(s, rf) + Reach
<1> DEFINE c == Clamped(s.loOffset, -Reach, Reach)
           x == Clamped(rf + c, 1, MaxRf)
<1>1. c \in -Reach..Reach
  BY Tunable, ClampedIs
<1>2. c \in Int /\ rf + c \in Int
  BY <1>1, Tunable
<1> HIDE DEF c
<1>3. /\ x \in 1..MaxRf /\ (rf + c \in 1..MaxRf => x = rf + c)
      /\ (rf + c < 1 => x = 1) /\ (rf + c > MaxRf => x = MaxRf)
  BY <1>2, Tunable, ClampedIs
<1>4. x = CenterFor(s, rf)
  BY DEF CenterFor, c
<1> HIDE DEF x
<1>5. rf <= MaxRf + Reach => rf \in x - Reach..x + Reach
  BY <1>1, <1>2, <1>3, Tunable
<1>6. QED
  BY <1>3, <1>4, <1>5

LEMMA WindowSet ==
  ASSUME NEW s, SettingsFormed(s), NEW rf \in Int, rf >= 1, NEW w, w = SetSdrRadioWindow(s, rf)
  PROVE  /\ SettingsFormed(w) /\ SameButWindow(s, w)
         /\ rf <= MaxRf + Reach => WindowIsAt(w, rf)
<1> DEFINE at == CenterFor(s, rf)
           window == Clamped(rf, at - Reach, at + Reach)
<1>0. s.loOffset \in Int
  BY DEF SettingsFormed
<1>1. at \in 1..MaxRf /\ (rf <= MaxRf + Reach => rf \in at - Reach..at + Reach)
  BY <1>0, CenterIsNear
<1>2. w = Windowed(s, at, window)
  BY DEF SetSdrRadioWindow, ApplySdrInput, Windowed, CenterFor, SettingsFormed
<1> HIDE DEF at
<1>3. window \in 1..MaxRf + Reach
  BY <1>1, InReach
<1>4. rf <= MaxRf + Reach => window = rf
  BY <1>1, Tunable DEF Clamped
<1> HIDE DEF window
<1>5. SettingsFormed(w) /\ SameButWindow(s, w) /\ w.center = at /\ w.decoder = window
  BY <1>1, <1>2, <1>3, WindowedIs
<1>6. rf <= MaxRf + Reach => WindowIsAt(w, rf)
  BY <1>4, <1>5 DEF WindowIsAt, SameButWindow, at, CenterFor
<1>7. QED
  BY <1>5, <1>6

LEMMA ObservedIs ==
  ASSUME NEW s
  PROVE  ObservedRxRf(s) \in Hertz \cup {NoHz}
  BY DEF ObservedRxRf, AddSignedOffset

LEMMA ObservedAgrees ==
  ASSUME NEW s, NEW w, SameButWindow(s, w)
  PROVE  ObservedRxRf(w) = ObservedRxRf(s)
  BY DEF SameButWindow, ObservedRxRf

LEMMA FollowSdrIs ==
  ASSUME NEW s, SettingsFormed(s), NEW w, w = FollowSdrToRadioVfo(s)
  PROVE  /\ SettingsFormed(w) /\ SameButWindow(s, w)
         /\ s.follow /\ ObservedRxRf(s) \in 1..MaxRf => WindowIsAt(w, ObservedRxRf(w))
         /\ ~s.follow => w = s
<1>1. CASE s.follow /\ ObservedRxRf(s) # NoHz
  <2>1. ObservedRxRf(s) \in Int /\ ObservedRxRf(s) >= 1
    BY <1>1, ObservedIs, Tunable DEF Hertz
  <2>2. w = SetSdrRadioWindow(s, ObservedRxRf(s))
    BY <1>1 DEF FollowSdrToRadioVfo
  <2>3. /\ SettingsFormed(w) /\ SameButWindow(s, w)
        /\ ObservedRxRf(s) <= MaxRf + Reach => WindowIsAt(w, ObservedRxRf(s))
    BY <2>1, <2>2, WindowSet
  <2>4. ObservedRxRf(s) \in 1..MaxRf => ObservedRxRf(s) <= MaxRf + Reach
    BY <2>1, Tunable
  <2>5. QED
    BY <1>1, <2>3, <2>4, ObservedAgrees
<1>2. CASE ~(s.follow /\ ObservedRxRf(s) # NoHz)
  <2>1. w = s
    BY <1>2 DEF FollowSdrToRadioVfo
  <2>2. ObservedRxRf(s) \in 1..MaxRf => ObservedRxRf(s) # NoHz
    BY Tunable DEF NoHz
  <2>3. QED
    BY <1>2, <2>1, <2>2 DEF SameButWindow
<1>3. QED
  BY <1>1, <1>2

LEMMA ReapplySdrIs ==
  ASSUME NEW s, SettingsFormed(s), NEW w, w = ReapplySdrRadioWindow(s)
  PROVE  /\ SettingsFormed(w) /\ SameButWindow(s, w)
         /\ s.follow /\ ObservedRxRf(s) \in 1..MaxRf => WindowIsAt(w, ObservedRxRf(w))
         /\ ~s.follow => WindowIsAt(w, s.decoder)
<1>1. CASE s.follow
  BY <1>1, FollowSdrIs DEF ReapplySdrRadioWindow
<1>2. CASE ~s.follow
  <2>1. s.decoder \in Int /\ s.decoder >= 1 /\ s.decoder <= MaxRf + Reach
    BY Tunable DEF SettingsFormed
  <2>2. w = SetSdrRadioWindow(s, s.decoder)
    BY <1>2, <2>1 DEF ReapplySdrRadioWindow, NoHz
  <2>3. QED
    BY <1>2, <2>1, <2>2, WindowSet
<1>3. QED
  BY <1>1, <1>2

LEMMA WindowLeavesHeld ==
  ASSUME NEW s, NEW w, SettingsFormed(w), SameButWindow(s, w)
  PROVE  (Held(s) => Held(w)) /\ (Prepared(s) => Prepared(w))
  BY DEF Held, Prepared, Books, SameButWindow

-----------------------------------------------------------------------------
(* Whatever is told of a radio is well formed, the held frequency included. *)
LEMMA ReadIsValid ==
  ASSUME NEW none, NEW value
  PROVE  FieldIsValid(ReadUnless(none, value), none)
  BY DEF FieldIsValid, ReadUnless, Read, Unread, Known, Unknown

LEMMA NoRadioIsValid == RadioStateIsValid(NoRadio)
<1>1. ASSUME NEW none
      PROVE  FieldIsValid(Unread(Unavailable, none), none)
  BY DEF FieldIsValid, Unread, Known, Unavailable
<1>2. /\ NoRadio.rx = Unread(Unavailable, NoHz) /\ NoRadio.tx = Unread(Unavailable, NoHz)
      /\ NoRadio.rxMode = Unread(Unavailable, NoMode) /\ NoRadio.txMode = Unread(Unavailable, NoMode)
      /\ NoRadio.rxVfo = Unread(Unavailable, NoVfo) /\ NoRadio.txVfo = Unread(Unavailable, NoVfo)
      /\ NoRadio.split = Unread(Unavailable, "?") /\ NoRadio.caps.val = {}
  BY DEF NoRadio, Blank, Unread
<1>3. ASSUME NEW f \in Frequencies \cup ModeFields \cup VfoFields \cup {"split"}
      PROVE  NoRadio[f].obs # Known
  BY <1>2, <1>3 DEF Frequencies, ModeFields, VfoFields, Unread, Known, Unavailable
<1>4. /\ \A f \in Frequencies : FieldIsValid(NoRadio[f], NoHz)
      /\ \A f \in ModeFields : FieldIsValid(NoRadio[f], NoMode)
      /\ \A f \in VfoFields : FieldIsValid(NoRadio[f], NoVfo)
      /\ FieldIsValid(NoRadio.split, "?")
  BY <1>1, <1>2 DEF Frequencies, ModeFields, VfoFields
<1>5. QED
  BY <1>2, <1>3, <1>4 DEF RadioStateIsValid

LEMMA RigIsToldValid ==
  ASSUME NEW previous, RadioStateIsValid(previous), NEW rig, NEW target, NEW modes,
         NEW w, w = OmniRigState(previous, rig, target, modes)
  PROVE  RadioStateIsValid(w)
<1>1. CASE ~rig.online
  BY <1>1, NoRadioIsValid DEF OmniRigState
<1>2. CASE rig.online
  <2>0. FieldIsValid(previous.rx, NoHz)
    BY DEF RadioStateIsValid, Frequencies
  <2>1. FieldIsValid(w.rx, NoHz) /\ FieldIsValid(w.tx, NoHz)
    BY <1>2, <2>0, ReadIsValid DEF OmniRigState
  <2>2. FieldIsValid(w.rxMode, NoMode) /\ FieldIsValid(w.txMode, NoMode)
    BY <1>2, ReadIsValid DEF OmniRigState
  <2>3. FieldIsValid(w.rxVfo, NoVfo) /\ FieldIsValid(w.txVfo, NoVfo)
    BY <1>2, ReadIsValid DEF OmniRigState
  <2>4. FieldIsValid(w.split, "?")
    BY <1>2, ReadIsValid DEF OmniRigState
  <2>5. w.avail # Unavailable /\ w.caps.obs = Known /\ w.caps.val \subseteq Capabilities
    BY <1>2 DEF OmniRigState, OmniRigCapabilities, Read, Known, Unavailable
  <2>6. QED
    BY <2>1, <2>2, <2>3, <2>4, <2>5 DEF RadioStateIsValid, Frequencies, ModeFields, VfoFields
<1>3. QED
  BY <1>1, <1>2

LEMMA NextRadioIs ==
  ASSUME NEW s, Prepared(s), NEW rig, NEW target, NEW provided, ProvidedAreValid(provided),
         NEW next, next = NextRadio(s, rig, target, provided)
  PROVE  /\ RadioStateIsValid(next)
         /\ ~(s.enabled /\ s.linked) => next = NoRadio
<1>1. s.backend \in {OmniRig, Hamlib, Cat4Om} /\ RadioStateIsValid(s.radio)
  BY DEF Prepared, SettingsFormed, Backends
<1>2. CASE ~(s.enabled /\ s.linked)
  BY <1>2, NoRadioIsValid DEF NextRadio
<1>3. CASE s.enabled /\ s.linked /\ s.backend = OmniRig
  BY <1>1, <1>3, RigIsToldValid DEF NextRadio
<1>4. CASE s.enabled /\ s.linked /\ s.backend # OmniRig
  BY <1>1, <1>4 DEF NextRadio, ProvidedAreValid
<1>5. QED
  BY <1>2, <1>3, <1>4

(* What is read of the radio, before anything is made of it.               *)
Told(s, radio, target, dial, modes) ==
  [s EXCEPT !.radio = radio, !.target = target, !.dial = dial, !.modes = modes]

LEMMA ToldIs ==
  ASSUME NEW s, SettingsFormed(s), NEW radio, NEW target, NEW dial, NEW modes,
         NEW w, w = Told(s, radio, target, dial, modes)
  PROVE  /\ SettingsFormed(w) /\ w.radio = radio
         /\ w.enabled = s.enabled /\ w.linked = s.linked /\ w.follow = s.follow
         /\ w.pending = s.pending /\ w.owner = s.owner /\ w.timer = s.timer
         /\ w.center = s.center /\ w.decoder = s.decoder
  BY DEF SettingsFormed, Told

(* A request is given up or stands.                                        *)
Forgotten(s) == [s EXCEPT !.pending = NoHz, !.owner = NoBackend, !.timer = FALSE]
SameButRequest(s, w) ==
  /\ w.enabled = s.enabled /\ w.linked = s.linked /\ w.backend = s.backend /\ w.radio = s.radio
  /\ w.follow = s.follow /\ w.center = s.center /\ w.decoder = s.decoder
  /\ w.loOffset = s.loOffset /\ w.rxOffset = s.rxOffset

LEMMA ForgottenIs ==
  ASSUME NEW s, SettingsFormed(s), NEW w, w = Forgotten(s)
  PROVE  SettingsFormed(w) /\ Books(w) /\ SameButRequest(s, w) /\ w.pending = NoHz
  BY DEF SettingsFormed, Forgotten, Books, SameButRequest, NoHz

LEMMA ReconciledIs ==
  ASSUME NEW s, SettingsFormed(s), Books(s), NEW w, w = ReconcilePending(s)
  PROVE  /\ SettingsFormed(w) /\ Books(w) /\ SameButRequest(s, w)
         /\ w.pending \in {s.pending, NoHz}
<1>1. w = s \/ w = Forgotten(s)
  BY DEF ReconcilePending, Forgotten
<1>2. CASE w = s
  BY <1>2 DEF SameButRequest
<1>3. CASE w = Forgotten(s)
  BY <1>3, ForgottenIs
<1>4. QED
  BY <1>1, <1>2, <1>3

(* The window is where the radio receives, if it is to be.                 *)
WindowFollows(s) == s.follow /\ ObservedRxRf(s) \in 1..MaxRf => WindowIsAt(s, ObservedRxRf(s))
(* A step from settings that leaves them in order.                         *)
Kept(s, w) ==
  /\ Held(w) /\ w.pending \in {s.pending, NoHz}
  /\ w.radio # s.radio => WindowFollows(w)

LEMMA RequestLeavesWindow ==
  ASSUME NEW s, NEW w, SameButRequest(s, w), WindowFollows(s)
  PROVE  WindowFollows(w)
<1>1. ObservedRxRf(w) = ObservedRxRf(s)
  BY DEF SameButRequest, ObservedRxRf
<1>2. QED
  BY <1>1 DEF WindowFollows, WindowIsAt, SameButRequest

LEMMA RefreshIs ==
  ASSUME NEW s, Prepared(s), NEW rig, NEW target, NEW provided, ProvidedAreValid(provided),
         NEW w, w = RefreshControlledFrequency(s, rig, target, provided)
  PROVE  /\ Kept(s, w) /\ w.follow = s.follow
         /\ ~s.follow => w.decoder = s.decoder
<1> DEFINE radio == NextRadio(s, rig, target, provided)
           reads == s.enabled /\ s.linked /\ s.backend = OmniRig
           heard == reads /\ rig.online
           read == Told(s, radio, IF reads THEN target ELSE "None",
                        IF heard THEN PropertyHz(rig, RxSource(rig)) ELSE NoHz,
                        IF heard THEN SeenModes(s.modes, rig) ELSE s.modes)
           told == IF read.dial # s.dial \/ read.target # s.target \/ read.radio # s.radio
                     THEN FollowSdrToRadioVfo(read) ELSE read
<1>0. SettingsFormed(s) /\ Books(s) /\ RadioStateIsValid(s.radio)
  BY DEF Prepared
<1>1. RadioStateIsValid(radio) /\ (~(s.enabled /\ s.linked) => radio = NoRadio)
  BY NextRadioIs
<1>2. w = ReconcilePending(told)
  BY DEF RefreshControlledFrequency, Told
<1> HIDE DEF radio, reads, heard
<1>3. /\ SettingsFormed(read) /\ read.radio = radio
      /\ read.enabled = s.enabled /\ read.linked = s.linked /\ read.follow = s.follow
      /\ read.pending = s.pending /\ read.owner = s.owner /\ read.timer = s.timer
      /\ read.center = s.center /\ read.decoder = s.decoder
  BY <1>0, ToldIs
<1> HIDE DEF read
<1>4. Held(read)
  BY <1>0, <1>1, <1>3 DEF Held, Prepared, Books
<1>5. /\ SettingsFormed(told) /\ SameButWindow(read, told)
      /\ read.radio # s.radio => WindowFollows(told)
      /\ ~s.follow => told.decoder = s.decoder
  <2>1. CASE told = FollowSdrToRadioVfo(read)
    <3>1. /\ SettingsFormed(told) /\ SameButWindow(read, told)
          /\ read.follow /\ ObservedRxRf(read) \in 1..MaxRf => WindowIsAt(told, ObservedRxRf(told))
          /\ ~read.follow => told = read
      BY <1>3, <2>1, FollowSdrIs
    <3>2. ObservedRxRf(told) = ObservedRxRf(read) /\ told.follow = read.follow
      BY <3>1, ObservedAgrees DEF SameButWindow
    <3>3. QED
      BY <1>3, <3>1, <3>2 DEF WindowFollows
  <2>2. CASE told = read /\ read.radio = s.radio
    BY <1>3, <2>2 DEF SameButWindow
  <2>3. QED
    BY <2>1, <2>2
<1> HIDE DEF told
<1>6. Held(told) /\ told.pending = s.pending /\ told.radio = read.radio /\ told.follow = s.follow
  BY <1>3, <1>4, <1>5, WindowLeavesHeld DEF SameButWindow
<1>7. SettingsFormed(w) /\ Books(w) /\ SameButRequest(told, w) /\ w.pending \in {told.pending, NoHz}
  BY <1>2, <1>6, ReconciledIs DEF Held, Prepared
<1>8. Held(w)
  BY <1>6, <1>7 DEF Held, Prepared, SameButRequest
<1>9. w.radio # s.radio => WindowFollows(w)
  BY <1>5, <1>6, <1>7, RequestLeavesWindow DEF SameButRequest
<1>10. QED
  BY <1>5, <1>6, <1>7, <1>8, <1>9 DEF Kept, SameButRequest

-----------------------------------------------------------------------------
(* What a setter assigns leaves the radio as it was told.                  *)
Assigned(s, x) == Prepared(x) /\ x.radio = s.radio /\ x.pending \in {s.pending, NoHz}

LEMMA AssignedIsKept ==
  ASSUME NEW s, NEW x, Assigned(s, x), NEW rig, NEW target, NEW provided, ProvidedAreValid(provided),
         NEW w, w = RefreshControlledFrequency(x, rig, target, provided)
  PROVE  /\ Kept(s, w) /\ w.follow = x.follow
         /\ ~x.follow => w.decoder = x.decoder
<1>1. Prepared(x) /\ x.radio = s.radio /\ x.pending \in {s.pending, NoHz}
  BY DEF Assigned
<1>2. Kept(x, w) /\ w.follow = x.follow /\ (~x.follow => w.decoder = x.decoder)
  BY <1>1, RefreshIs
<1>3. QED
  BY <1>1, <1>2 DEF Kept

LEMMA BackendAssigned ==
  ASSUME NEW s, Held(s), NEW b \in Backends
  PROVE  Assigned(s, SetFrequencyBackend(s, b))
<1> DEFINE x == [s EXCEPT !.backend = b]
<1>0. Prepared(s) /\ SettingsFormed(s)
  BY DEF Held, Prepared
<1>1. SettingsFormed(x) /\ x.radio = s.radio /\ x.pending = s.pending
  BY <1>0 DEF SettingsFormed
<1>2. CASE s.backend = b
  BY <1>0, <1>2 DEF SetFrequencyBackend, Assigned
<1>3. CASE s.backend # b
  <2>1. SetFrequencyBackend(s, b) = Forgotten(x)
    BY <1>3 DEF SetFrequencyBackend, Forgotten, ForgetPending
  <2> HIDE DEF x
  <2> DEFINE w == Forgotten(x)
  <2>2. SettingsFormed(w) /\ Books(w) /\ SameButRequest(x, w) /\ w.pending = NoHz
    BY <1>1, ForgottenIs
  <2> HIDE DEF w
  <2>3. Assigned(s, w)
    BY <1>0, <1>1, <2>2 DEF Assigned, Prepared, SameButRequest
  <2>4. QED
    BY <2>1, <2>3 DEF w
<1>4. QED
  BY <1>2, <1>3

LEMMA SwitchAssigned ==
  ASSUME NEW s, Held(s)
  PROVE  /\ Assigned(s, [s EXCEPT !.enabled = ~@])
         /\ Assigned(s, [s EXCEPT !.linked = ~@])
         /\ Assigned(s, [s EXCEPT !.follow = ~@])
<1>0. SettingsFormed(s) /\ Books(s) /\ RadioStateIsValid(s.radio)
  BY DEF Held, Prepared
<1>1. ASSUME NEW x \in {[s EXCEPT !.enabled = ~@], [s EXCEPT !.linked = ~@], [s EXCEPT !.follow = ~@]}
      PROVE  /\ SettingsFormed(x) /\ x.radio = s.radio /\ x.pending = s.pending
             /\ x.owner = s.owner /\ x.timer = s.timer
  BY <1>0 DEF SettingsFormed
<1>2. ASSUME NEW x \in {[s EXCEPT !.enabled = ~@], [s EXCEPT !.linked = ~@], [s EXCEPT !.follow = ~@]}
      PROVE  Assigned(s, x)
  BY <1>0, <1>1 DEF Assigned, Prepared, Books
<1>3. QED
  BY <1>2

LEMMA OffsetAssigned ==
  ASSUME NEW s, Held(s), NEW offset \in Int
  PROVE  /\ Assigned(s, [s EXCEPT !.loOffset = offset])
         /\ Assigned(s, [s EXCEPT !.rxOffset = offset])
         /\ [s EXCEPT !.loOffset = offset].decoder = s.decoder
<1>0. SettingsFormed(s) /\ Books(s) /\ RadioStateIsValid(s.radio)
  BY DEF Held, Prepared
<1>1. ASSUME NEW x \in {[s EXCEPT !.loOffset = offset], [s EXCEPT !.rxOffset = offset]}
      PROVE  /\ SettingsFormed(x) /\ x.radio = s.radio /\ x.pending = s.pending
             /\ x.owner = s.owner /\ x.timer = s.timer /\ x.decoder = s.decoder
  BY <1>0 DEF SettingsFormed
<1>2. ASSUME NEW x \in {[s EXCEPT !.loOffset = offset], [s EXCEPT !.rxOffset = offset]}
      PROVE  Assigned(s, x) /\ x.decoder = s.decoder
  BY <1>0, <1>1 DEF Assigned, Prepared, Books
<1>3. QED
  BY <1>2

LEMMA WindowAssigned ==
  ASSUME NEW s, Held(s), NEW w, SettingsFormed(w), SameButWindow(s, w)
  PROVE  Assigned(s, w)
  BY WindowLeavesHeld DEF Held, Assigned, SameButWindow

LEMMA CenterAssigned ==
  ASSUME NEW s, Held(s), NEW hz \in 1..MaxRf
  PROVE  Assigned(s, SetSdrCenter(s, hz)) /\ Assigned(s, SetSdrDecoderCenter(s, hz))
<1>0. SettingsFormed(s) /\ s.center \in 1..MaxRf /\ s.decoder \in 1..MaxRf + Reach
  BY DEF Held, Prepared, SettingsFormed
<1> DEFINE moved == s.decoder + (hz - s.center)
           free == Clamped(moved, 1, MaxRf)
           kept == IF s.follow THEN s.decoder ELSE free
           at == Clamped(kept, hz - Reach, hz + Reach)
           set == Clamped(hz, 1, MaxRf)
           reached == Clamped(set, s.center - Reach, s.center + Reach)
<1>1. kept \in Int /\ kept >= 1
  <2>1. moved \in Int /\ s.decoder \in Int /\ s.decoder >= 1
    BY <1>0, Tunable
  <2> HIDE DEF moved
  <2>a. 1 \in Int /\ MaxRf \in Int /\ 1 <= MaxRf
    BY Tunable
  <2>b. free = Clamped(moved, 1, MaxRf)
    OBVIOUS
  <2> HIDE DEF free
  <2>2. free \in 1..MaxRf
    BY <2>1, <2>a, <2>b, ClampedIs
  <2>3. QED
    BY <2>1, <2>2
<1>2. set \in 1..MaxRf
  BY Tunable, ClampedIs
<1>3. SetSdrCenter(s, hz) = Windowed(s, hz, at)
  BY <1>0 DEF SetSdrCenter, ApplySdrInput, Windowed, SettingsFormed
<1>4. SetSdrDecoderCenter(s, hz) = Windowed(s, s.center, reached)
  BY <1>0 DEF SetSdrDecoderCenter, ApplySdrInput, Windowed, SettingsFormed
<1> HIDE DEF kept, set
<1>5. at \in 1..MaxRf + Reach /\ reached \in 1..MaxRf + Reach
  <2>1. at \in 1..MaxRf + Reach
    BY <1>1, InReach
  <2>2. set \in Int /\ set >= 1
    BY <1>2
  <2>3. reached \in 1..MaxRf + Reach
    BY <1>0, <2>2, InReach
  <2>4. QED
    BY <2>1, <2>3
<1> HIDE DEF at, reached
<1>6. Assigned(s, Windowed(s, hz, at)) /\ Assigned(s, Windowed(s, s.center, reached))
  BY <1>0, <1>5, WindowedIs, WindowAssigned
<1>7. QED
  BY <1>3, <1>4, <1>6

LEMMA ProfileAssigned ==
  ASSUME NEW s, SettingsFormed(s), Books(s), RadioStateIsValid(s.radio), NEW profile \in Profiles
  PROVE  Assigned(s, LoadProfile(s, profile))
<1> DEFINE x == LoadProfile(s, profile)
<1>1. profile.decoder \in 1..MaxRf + Reach
  BY Tunable DEF Profiles
<1>2. /\ SettingsFormed(x) /\ x.radio = s.radio /\ x.pending = s.pending
      /\ x.owner = s.owner /\ x.timer = s.timer
  BY <1>1 DEF SettingsFormed, LoadProfile, Profiles
<1> HIDE DEF x
<1>3. Assigned(s, x)
  BY <1>2 DEF Assigned, Prepared, Books
<1>4. QED
  BY <1>3 DEF x

(* A request that is made is held until it is answered.                    *)
LEMMA RememberedIs ==
  ASSUME NEW s, Held(s), NEW rf \in Nat, rf # NoHz, NEW w, w = RememberPending(s, rf)
  PROVE  Held(w) /\ w.pending = rf /\ w.radio = s.radio
<1>0. SettingsFormed(s) /\ s.backend \in Backends /\ RadioStateIsValid(s.radio)
      /\ (~(s.enabled /\ s.linked) => s.radio = NoRadio)
  BY DEF Held, Prepared, SettingsFormed
<1>1. /\ SettingsFormed(w) /\ w.pending = rf /\ w.owner = s.backend /\ w.timer = TRUE
      /\ w.radio = s.radio /\ w.enabled = s.enabled /\ w.linked = s.linked
  BY <1>0 DEF SettingsFormed, RememberPending
<1>2. Books(w)
  BY <1>0, <1>1, BackendsAre DEF Books
<1>3. QED
  BY <1>0, <1>1, <1>2 DEF Held, Prepared

-----------------------------------------------------------------------------
(* What a write does to the rig, and what it leaves of it.                 *)
RigFrequencies == {"Freq", "FreqA", "FreqB"}
WrittenVfo(rig, property) == IF property = "Freq" THEN rig.selected ELSE Label(property)

LEMMA MovedIs ==
  ASSUME NEW rig \in AnyRig, NEW property \in RigFrequencies, NEW hz \in Int,
         NEW moved, moved = Moved(rig, property, hz)
  PROVE  /\ moved \in AnyRig /\ WrittenVfo(rig, property) \in VfoNames
         /\ moved.layout = rig.layout /\ moved.writable = rig.writable /\ moved.split = rig.split
         /\ moved.online = rig.online /\ moved.receiving = rig.receiving
         /\ \A vfo \in VfoNames \ {WrittenVfo(rig, property)} : moved.hz[vfo] = rig.hz[vfo]
<1>1. WrittenVfo(rig, property) \in VfoNames
  BY DEF AnyRig, WrittenVfo, Label, VfoNames, RigFrequencies
<1>2. moved = [rig EXCEPT !.hz = [rig.hz EXCEPT ![WrittenVfo(rig, property)] = hz]]
  BY DEF Moved, WrittenVfo
<1>3. [rig.hz EXCEPT ![WrittenVfo(rig, property)] = hz] \in [VfoNames -> Int]
  BY <1>1 DEF AnyRig
<1>4. /\ moved \in AnyRig /\ moved.layout = rig.layout /\ moved.writable = rig.writable
      /\ moved.split = rig.split /\ moved.online = rig.online /\ moved.receiving = rig.receiving
  BY <1>2, <1>3 DEF AnyRig
<1>5. \A vfo \in VfoNames \ {WrittenVfo(rig, property)} : moved.hz[vfo] = rig.hz[vfo]
  BY <1>1, <1>2 DEF AnyRig
<1>6. QED
  BY <1>1, <1>4, <1>5

LEMMA RxTargetIs ==
  ASSUME NEW rig \in AnyRig
  PROVE  /\ WriteTarget(rig) \in RigFrequencies \cup {"None"}
         /\ Named(rig) /\ WriteTarget(rig) # "None" =>
              \/ WriteTarget(rig) = RxProperty(rig.layout)
              \/ /\ WriteTarget(rig) = "Freq" /\ "Freq" \in rig.writable
                 /\ RxProperty(rig.layout) \notin rig.writable
  BY DEF WriteTarget, SelectRxTarget, RxProperty, RigFrequencies, Named

LEMMA RxWriteIsMade ==
  ASSUME NEW rig \in AnyRig, NEW hz \in Int, NEW w, w = WriteOmniRigRx(rig, hz)
  PROVE  w \in AnyRig /\ WriteTarget(w) = WriteTarget(rig)
<1>1. CASE WriteTarget(rig) = "None"
  BY <1>1 DEF WriteOmniRigRx
<1>2. CASE WriteTarget(rig) # "None"
  <2>1. WriteTarget(rig) \in RigFrequencies /\ w = Moved(rig, WriteTarget(rig), hz)
    BY <1>2, RxTargetIs DEF WriteOmniRigRx
  <2>2. /\ w \in AnyRig /\ w.layout = rig.layout /\ w.writable = rig.writable
        /\ w.online = rig.online /\ w.receiving = rig.receiving
    BY <2>1, MovedIs
  <2>3. QED
    BY <2>2 DEF WriteTarget
<1>3. QED
  BY <1>1, <1>2

(* A write to the receive VFO by its name leaves the transmit VFO where it *)
(* is.                                                                     *)
LEMMA TransmitStays ==
  ASSUME NEW rig \in AnyRig, Named(rig), TxSource(rig) # RxSource(rig), WriteTarget(rig) # "Freq",
         NEW hz \in Int, NEW w, w = WriteOmniRigRx(rig, hz)
  PROVE  PropertyHz(w, TxSource(w)) = PropertyHz(rig, TxSource(rig))
<1>1. CASE WriteTarget(rig) = "None"
  BY <1>1 DEF WriteOmniRigRx
<1>2. CASE WriteTarget(rig) # "None"
  <2>0. RxProperty(rig.layout) \in {"FreqA", "FreqB"} /\ RxSource(rig) = RxProperty(rig.layout)
    BY DEF Named, RxProperty, RxSource
  <2>1. TxSource(rig) \in {"FreqA", "FreqB", "None"}
    BY DEF TxSource, OtherProperty, TxProperty, Named, RxProperty, Absent, Conventional, ConventionalTarget
  <2>2. WriteTarget(rig) \in RigFrequencies
    BY <1>2, RxTargetIs
  <2>3. w = Moved(rig, WriteTarget(rig), hz)
    BY <1>2 DEF WriteOmniRigRx
  <2>4. /\ w.layout = rig.layout /\ w.writable = rig.writable /\ w.split = rig.split
        /\ \A vfo \in VfoNames \ {WrittenVfo(rig, WriteTarget(rig))} : w.hz[vfo] = rig.hz[vfo]
    BY <2>2, <2>3, MovedIs
  <2>5. WrittenVfo(rig, WriteTarget(rig)) = Label(RxProperty(rig.layout))
    BY <1>2, <2>0, RxTargetIs DEF WrittenVfo
  <2>6. TxSource(w) = TxSource(rig)
    BY <2>4 DEF TxSource, SplitOn, Conventional, Named
  <2>7. CASE TxSource(rig) = "None"
    BY <2>6, <2>7 DEF PropertyHz
  <2>8. CASE TxSource(rig) # "None"
    <3>1. Label(TxSource(rig)) \in VfoNames \ {Label(RxProperty(rig.layout))} /\ TxSource(rig) # "Freq"
      BY <2>0, <2>1, <2>8 DEF Label, VfoNames
    <3>2. QED
      BY <2>4, <2>5, <2>6, <2>8, <3>1 DEF PropertyHz
  <2>9. QED
    BY <2>7, <2>8
<1>3. QED
  BY <1>1, <1>2

LEMMA TxWriteIsMade ==
  ASSUME NEW rig \in AnyRig, NEW state, NEW hz \in Int
  PROVE  WriteOmniRigTx(rig, state, hz) \in AnyRig
<1>1. CASE ~TxIsWritten(rig, state)
  BY <1>1 DEF WriteOmniRigTx
<1>2. CASE TxIsWritten(rig, state)
  <2>1. TxTarget(rig, state) \in {"FreqA", "FreqB", "None"}
    BY DEF TxTarget, TxProperty
  <2>2. TxTarget(rig, state) \in Parameters
    BY <1>2 DEF TxIsWritten, AnyRig
  <2>3. TxTarget(rig, state) \in RigFrequencies
    BY <2>1, <2>2 DEF Parameters, RigFrequencies
  <2>4. QED
    BY <1>2, <2>3, MovedIs DEF WriteOmniRigTx
<1>3. QED
  BY <1>1, <1>2

LEMMA RigsAreRigs ==
  ASSUME NEW rig \in Rigs
  PROVE  rig \in AnyRig
<1>1. rig.hz \in [VfoNames -> Int]
  BY DEF Rigs
<1>2. QED
  BY <1>1 DEF Rigs, AnyRig

LEMMA SwitchedRigIsMade ==
  ASSUME NEW rig \in AnyRig, NEW mode \in Modes
  PROVE  WriteOmniRigMode(rig, mode) \in AnyRig /\ WriteOmniRigSplit(rig, TRUE) \in AnyRig
BY DEF AnyRig, WriteOmniRigMode, WriteOmniRigSplit

-----------------------------------------------------------------------------
(* What a step makes of the books and of the window.                       *)
Settles == RadioSettingsIInv' /\ (rs'.radio # rs.radio => WindowFollows(rs'))

LEMMA QuietStep ==
  ASSUME RadioSettingsIInv, Kept(rs, rs'), Unasked, ProvidedAreValid(rsProvided'),
         rsRig' = rsRig
  PROVE  Settles
<1>1. Held(rs') /\ rs'.pending \in {rs.pending, NoHz} /\ (rs'.radio # rs.radio => WindowFollows(rs'))
  BY DEF Kept
<1>2. rs.pending = rsAsked /\ rsRig \in AnyRig
  BY DEF RadioSettingsIInv
<1>3. rs'.pending = rsAsked' /\ rsTransmit' = NoHz
  BY <1>1, <1>2 DEF Unasked
<1>4. QED
  BY <1>1, <1>2, <1>3 DEF Settles, RadioSettingsIInv

LEMMA StillKept ==
  ASSUME NEW s, NEW w, Held(w), w.pending \in {s.pending, NoHz}, w.radio = s.radio
  PROVE  Kept(s, w)
  BY DEF Kept

LEMMA RadioReports ==
  ASSUME RadioSettingsIInv, RadioFrequencyTimer \/ HamlibReports \/ Cat4OmReports \/ RxRequestTimeout
  PROVE  Settles
<1>0. Held(rs) /\ Prepared(rs) /\ SettingsFormed(rs) /\ Books(rs) /\ ProvidedAreValid(rsProvided)
  BY DEF RadioSettingsIInv, Held, Prepared
<1>1. CASE RadioFrequencyTimer
  <2>1. PICK target : rs' = RefreshControlledFrequency(rs, rsRig, target, rsProvided)
    BY <1>1 DEF RadioFrequencyTimer, RefreshedIs
  <2>2. Kept(rs, rs')
    BY <1>0, <2>1, RefreshIs
  <2>3. QED
    BY <1>0, <1>1, <2>2, QuietStep DEF RadioFrequencyTimer
<1>2. CASE HamlibReports
  <2>1. PICK radio \in SomeRadios, target \in Targets0 :
          /\ rsProvided' = [rsProvided EXCEPT ![Hamlib] = radio]
          /\ rs' = RefreshControlledFrequency(rs, rsRig, target, rsProvided')
    BY <1>2 DEF HamlibReports
  <2>2. ProvidedAreValid(rsProvided')
    BY <1>0, <2>1, SettingsAssumption, BackendsAre DEF ProvidedAreValid
  <2>3. Kept(rs, rs')
    BY <1>0, <2>1, <2>2, RefreshIs
  <2>4. QED
    BY <1>2, <2>2, <2>3, QuietStep DEF HamlibReports
<1>3. CASE Cat4OmReports
  <2>1. PICK radio \in SomeRadios : rsProvided' = [rsProvided EXCEPT ![Cat4Om] = radio]
    BY <1>3 DEF Cat4OmReports
  <2>2. ProvidedAreValid(rsProvided')
    BY <1>0, <2>1, SettingsAssumption, BackendsAre DEF ProvidedAreValid
  <2> DEFINE r == ReconcilePending(rs)
  <2>3. SettingsFormed(r) /\ Books(r) /\ SameButRequest(rs, r) /\ r.pending \in {rs.pending, NoHz}
    BY <1>0, ReconciledIs
  <2>4. rs' = FollowSdrToRadioVfo(r)
    BY <1>3 DEF Cat4OmReports
  <2> HIDE DEF r
  <2>5. Held(r)
    BY <1>0, <2>3 DEF Held, Prepared, SameButRequest
  <2>6. SettingsFormed(rs') /\ SameButWindow(r, rs')
    BY <2>3, <2>4, FollowSdrIs
  <2>7. Held(rs') /\ rs'.pending \in {rs.pending, NoHz} /\ rs'.radio = rs.radio
    BY <2>3, <2>5, <2>6, WindowLeavesHeld DEF SameButWindow, SameButRequest
  <2>8. QED
    BY <1>3, <2>2, <2>7, StillKept, QuietStep DEF Cat4OmReports
<1>4. CASE RxRequestTimeout
  <2>1. rs' = Forgotten(rs)
    BY <1>4 DEF RxRequestTimeout, RequestTimerFires, Forgotten
  <2>2. SettingsFormed(rs') /\ Books(rs') /\ SameButRequest(rs, rs') /\ rs'.pending = NoHz
    BY <1>0, <2>1, ForgottenIs
  <2>3. Held(rs') /\ rs'.radio = rs.radio
    BY <1>0, <2>2 DEF Held, Prepared, SameButRequest
  <2>4. QED
    BY <1>0, <1>4, <2>2, <2>3, StillKept, QuietStep DEF RxRequestTimeout
<1>5. QED
  BY <1>1, <1>2, <1>3, <1>4

(* A setter: what it assigns is in order, and so is what comes of it.      *)
LEMMA SettingIs ==
  ASSUME RadioSettingsIInv, NEW x, Assigned(rs, x), Setting(x), Unasked,
         UNCHANGED <<rsRig, rsProvided>>
  PROVE  Settles
<1>0. ProvidedAreValid(rsProvided)
  BY DEF RadioSettingsIInv
<1>1. PICK target : rs' = RefreshControlledFrequency(x, rsRig, target, rsProvided)
  BY DEF Setting, RefreshedIs
<1>2. Kept(rs, rs')
  BY <1>0, <1>1, AssignedIsKept
<1>3. QED
  BY <1>0, <1>2, QuietStep

LEMMA PlainSetters ==
  ASSUME RadioSettingsIInv,
         \/ DoSetFrequencyBackend \/ DoSetRadioEnabled \/ DoSetRadioLinked
         \/ DoSetSdrCenter \/ DoSetSdrDecoderCenter \/ DoSelectProfile
  PROVE  Settles
<1>0. Held(rs) /\ SettingsFormed(rs) /\ Books(rs) /\ RadioStateIsValid(rs.radio)
  BY DEF RadioSettingsIInv, Held, Prepared
<1>1. ASSUME DoSetFrequencyBackend
      PROVE  Settles
  <2>1. PICK b \in Backends : Setting(SetFrequencyBackend(rs, b))
    BY <1>1 DEF DoSetFrequencyBackend, Set, Backends
  <2>2. Unasked /\ UNCHANGED <<rsRig, rsProvided>>
    BY <1>1 DEF DoSetFrequencyBackend, Set
  <2>3. QED
    BY <1>0, <2>1, <2>2, BackendAssigned, SettingIs
<1>2. ASSUME DoSetRadioEnabled \/ DoSetRadioLinked
      PROVE  Settles
  <2>1. Setting([rs EXCEPT !.enabled = ~@]) \/ Setting([rs EXCEPT !.linked = ~@])
    BY <1>2 DEF DoSetRadioEnabled, DoSetRadioLinked, Set
  <2>2. Unasked /\ UNCHANGED <<rsRig, rsProvided>>
    BY <1>2 DEF DoSetRadioEnabled, DoSetRadioLinked, Set
  <2>3. QED
    BY <1>0, <2>1, <2>2, SwitchAssigned, SettingIs
<1>3. ASSUME DoSetSdrCenter \/ DoSetSdrDecoderCenter
      PROVE  Settles
  <2>1. PICK hz \in SomeRf : Setting(SetSdrCenter(rs, hz)) \/ Setting(SetSdrDecoderCenter(rs, hz))
    BY <1>3 DEF DoSetSdrCenter, DoSetSdrDecoderCenter, Set
  <2>2. Unasked /\ UNCHANGED <<rsRig, rsProvided>>
    BY <1>3 DEF DoSetSdrCenter, DoSetSdrDecoderCenter, Set
  <2>3. hz \in 1..MaxRf
    BY SettingsAssumption
  <2>4. QED
    BY <1>0, <2>1, <2>2, <2>3, CenterAssigned, SettingIs
<1>4. ASSUME DoSelectProfile
      PROVE  Settles
  <2>1. PICK profile \in SomeProfiles : Setting(LoadProfile(rs, profile))
    BY <1>4 DEF DoSelectProfile, Set
  <2>2. Unasked /\ UNCHANGED <<rsRig, rsProvided>>
    BY <1>4 DEF DoSelectProfile, Set
  <2>3. Assigned(rs, LoadProfile(rs, profile))
    BY <1>0, SettingsAssumption, ProfileAssigned
  <2>4. QED
    BY <2>1, <2>2, <2>3, SettingIs
<1>5. QED
  BY <1>1, <1>2, <1>3, <1>4

(* A setter after whose refresh the window is placed once more.            *)
LEMMA WindowAfter ==
  ASSUME NEW s, NEW r, Kept(s, r), NEW w, SettingsFormed(w), SameButWindow(r, w), WindowFollows(w)
  PROVE  Kept(s, w)
  BY WindowLeavesHeld DEF Kept, SameButWindow

LEMMA SettersThatPlace ==
  ASSUME RadioSettingsIInv, DoSetSdrFollow \/ DoSetLoOffset \/ DoSetRxOffset
  PROVE  Settles /\ WindowFollows(rs')
<1>0. Held(rs) /\ ProvidedAreValid(rsProvided)
  BY DEF RadioSettingsIInv
<1>1. Unasked /\ UNCHANGED <<rsRig, rsProvided>>
  BY DEF DoSetSdrFollow, DoSetLoOffset, DoSetRxOffset, Set
<1>2. PICK x, target :
        /\ Assigned(rs, x)
        /\ \/ rs' = FollowSdrToRadioVfo(RefreshControlledFrequency(x, rsRig, target, rsProvided))
           \/ rs' = ReapplySdrRadioWindow(RefreshControlledFrequency(x, rsRig, target, rsProvided))
  <2>1. CASE DoSetSdrFollow
    <3>1. PICK target : rs' = FollowSdrToRadioVfo(
                          RefreshControlledFrequency([rs EXCEPT !.follow = ~@], rsRig, target, rsProvided))
      BY <2>1 DEF DoSetSdrFollow, Set, SettingThen, RefreshedIs
    <3>2. QED
      BY <1>0, <3>1, SwitchAssigned
  <2>2. CASE DoSetLoOffset
    <3>1. PICK offset \in SomeOffsets, target \in Targets0 : rs' = ReapplySdrRadioWindow(
            RefreshControlledFrequency([rs EXCEPT !.loOffset = offset], rsRig, target, rsProvided))
      BY <2>2 DEF DoSetLoOffset, Set, SettingThen, RefreshedIs
    <3>2. offset \in Int
      BY SettingsAssumption
    <3>3. QED
      BY <1>0, <3>1, <3>2, OffsetAssigned
  <2>3. CASE DoSetRxOffset
    <3>1. PICK offset \in SomeOffsets, target \in Targets0 : rs' = FollowSdrToRadioVfo(
            RefreshControlledFrequency([rs EXCEPT !.rxOffset = offset], rsRig, target, rsProvided))
      BY <2>3 DEF DoSetRxOffset, Set, SettingThen, RefreshedIs
    <3>2. offset \in Int
      BY SettingsAssumption
    <3>3. QED
      BY <1>0, <3>1, <3>2, OffsetAssigned
  <2>4. QED
    BY <2>1, <2>2, <2>3
<1> DEFINE r == RefreshControlledFrequency(x, rsRig, target, rsProvided)
<1>3. Kept(rs, r)
  BY <1>0, <1>2, AssignedIsKept
<1>4. rs' = FollowSdrToRadioVfo(r) \/ rs' = ReapplySdrRadioWindow(r)
  BY <1>2
<1> HIDE DEF r
<1>5. SettingsFormed(r)
  BY <1>3 DEF Kept, Held, Prepared
<1>6. /\ SettingsFormed(rs') /\ SameButWindow(r, rs')
      /\ r.follow /\ ObservedRxRf(r) \in 1..MaxRf => WindowIsAt(rs', ObservedRxRf(rs'))
  BY <1>4, <1>5, FollowSdrIs, ReapplySdrIs
<1>7. WindowFollows(rs')
  BY <1>6, ObservedAgrees DEF WindowFollows, SameButWindow
<1>8. Kept(rs, rs')
  BY <1>3, <1>6, <1>7, WindowAfter
<1>9. QED
  BY <1>0, <1>1, <1>7, <1>8, QuietStep

LEMMA OffsetIsMeasured ==
  ASSUME RadioSettingsIInv, DoSetLoOffset, ~rs'.follow
  PROVE  WindowIsAt(rs', rs.decoder)
<1>0. Held(rs) /\ ProvidedAreValid(rsProvided)
  BY DEF RadioSettingsIInv
<1>1. PICK offset \in SomeOffsets, target \in Targets0 : rs' = ReapplySdrRadioWindow(
        RefreshControlledFrequency([rs EXCEPT !.loOffset = offset], rsRig, target, rsProvided))
  BY DEF DoSetLoOffset, Set, SettingThen, RefreshedIs
<1> DEFINE x == [rs EXCEPT !.loOffset = offset]
           r == RefreshControlledFrequency(x, rsRig, target, rsProvided)
<1>2. offset \in Int
  BY SettingsAssumption
<1>3. Assigned(rs, x) /\ x.decoder = rs.decoder
  BY <1>0, <1>2, OffsetAssigned
<1>4. rs' = ReapplySdrRadioWindow(r)
  BY <1>1
<1> HIDE DEF x
<1>5. Kept(rs, r) /\ r.follow = x.follow /\ (~x.follow => r.decoder = x.decoder)
  BY <1>0, <1>3, AssignedIsKept
<1> HIDE DEF r
<1>6. SettingsFormed(r)
  BY <1>5 DEF Kept, Held, Prepared
<1>7. SameButWindow(r, rs') /\ (~r.follow => WindowIsAt(rs', r.decoder))
  BY <1>4, <1>6, ReapplySdrIs
<1>8. rs'.follow = r.follow
  BY <1>7 DEF SameButWindow
<1>9. QED
  BY <1>3, <1>5, <1>7, <1>8

-----------------------------------------------------------------------------
(* The dial of a frequency that can be tuned, written or not.              *)
LEMMA DialIsWhole ==
  ASSUME NEW s, SettingsFormed(s), NEW rf \in Int
  PROVE  RxDial(s, rf) \in Int /\ TxDialOf(s, rf) \in Int
<1>1. s.rxOffset \in Int /\ s.txOffset \in Int
  BY DEF SettingsFormed
<1>2. QED
  BY <1>1, Tunable DEF RxDial, TxDialOf, ResolveDialFrequency, NoHz

LEMMA RxIsWritten ==
  ASSUME RadioSettingsIInv, NEW rf \in Int, NEW accepted, WritesRx(rf, accepted)
  PROVE  /\ rsRig' \in AnyRig
         /\ (rsTransmit # NoHz /\ WriteTarget(rsRig) # "Freq" => TransmitHz = rsTransmit)'
<1>0. rsRig \in AnyRig /\ SettingsFormed(rs)
  BY DEF RadioSettingsIInv, Held, Prepared
<1> DEFINE hz == RxDial(rs, rf)
<1>1. hz \in Int
  BY <1>0, DialIsWhole
<1>2. rsRig' = IF rs.backend = OmniRig THEN WriteOmniRigRx(rsRig, hz) ELSE rsRig
  BY DEF WritesRx
<1>3. rsTransmit' = IF rs.backend = OmniRig /\ Named(rsRig) /\ TxSource(rsRig) # RxSource(rsRig)
                      THEN PropertyHz(rsRig, TxSource(rsRig)) ELSE NoHz
  BY DEF WritesRx, TransmitHz
<1> HIDE DEF hz
<1>4. rsRig' \in AnyRig /\ WriteTarget(rsRig') = WriteTarget(rsRig)
  BY <1>0, <1>1, <1>2, RxWriteIsMade
<1>5. ASSUME rsTransmit' # NoHz, WriteTarget(rsRig') # "Freq"
      PROVE  PropertyHz(rsRig', TxSource(rsRig')) = rsTransmit'
  <2>1. rs.backend = OmniRig /\ Named(rsRig) /\ TxSource(rsRig) # RxSource(rsRig)
    BY <1>3, <1>5
  <2>2. rsRig' = WriteOmniRigRx(rsRig, hz) /\ rsTransmit' = PropertyHz(rsRig, TxSource(rsRig))
    BY <1>2, <1>3, <2>1
  <2>3. WriteTarget(rsRig) # "Freq"
    BY <1>4, <1>5
  <2>4. QED
    BY <1>0, <1>1, <2>1, <2>2, <2>3, TransmitStays
<1>6. QED
  BY <1>4, <1>5 DEF TransmitHz

(* A request that the provider accepts: it is pending from here on, and    *)
(* the window may be placed for it.                                        *)
LEMMA RequestStep ==
  ASSUME RadioSettingsIInv, NEW rf \in 1..MaxRf, NEW accepted, WritesRx(rf, accepted),
         UNCHANGED rsProvided,
         \/ rs' = rs /\ rsAsked' = rsAsked
         \/ rs' = RememberPending(rs, rf) /\ rsAsked' = rf
         \/ rs' = SetSdrRadioWindow(RememberPending(rs, rf), rf) /\ rsAsked' = rf
  PROVE  Settles
<1>0. Held(rs) /\ rs.pending = rsAsked /\ ProvidedAreValid(rsProvided')
  BY DEF RadioSettingsIInv
<1>1. rf \in Nat /\ rf \in Int /\ rf >= 1 /\ rf # NoHz
  BY Tunable DEF NoHz
<1>2. /\ rsRig' \in AnyRig
      /\ (rsTransmit # NoHz /\ WriteTarget(rsRig) # "Freq" => TransmitHz = rsTransmit)'
  BY <1>1, RxIsWritten
<1>3. Held(rs') /\ rs'.pending = rsAsked' /\ rs'.radio = rs.radio
  <2>1. CASE rs' = rs /\ rsAsked' = rsAsked
    BY <1>0, <2>1
  <2> DEFINE r == RememberPending(rs, rf)
  <2>2. Held(r) /\ r.pending = rf /\ r.radio = rs.radio
    BY <1>0, <1>1, RememberedIs
  <2>3. CASE rs' = r /\ rsAsked' = rf
    BY <2>2, <2>3
  <2>4. CASE rs' = SetSdrRadioWindow(r, rf) /\ rsAsked' = rf
    <3> HIDE DEF r
    <3>1. SettingsFormed(r)
      BY <2>2 DEF Held, Prepared
    <3>2. SettingsFormed(rs') /\ SameButWindow(r, rs')
      BY <1>1, <2>4, <3>1, WindowSet
    <3>3. QED
      BY <2>2, <2>4, <3>2, WindowLeavesHeld DEF SameButWindow
  <2>5. QED
    BY <2>1, <2>3, <2>4
<1>4. QED
  BY <1>0, <1>2, <1>3 DEF Settles, RadioSettingsIInv

(* Steps made faster than the readback add up.                             *)
LEMMA StepsAddUp ==
  ASSUME Held(rs), rs.pending = rsAsked, NEW direction \in {-1, 1}, RxIsWritable(rs),
         SteppedRf(rs, direction) # NoHz
  PROVE  SteppedRf(rs, direction) =
           (IF rs.owner = rs.backend THEN rsAsked ELSE ControlledRf(rs).rx) + direction * rs.step
<1> DEFINE reported == ControlledRf(rs).rx
           pending == IF rs.owner = rs.backend THEN rs.pending ELSE NoHz
           base == IF pending = NoHz THEN reported ELSE pending
<1>1. reported # NoHz /\ rs.step = 1 /\ rs.pending \in Nat
  BY DEF RxIsWritable, Held, Prepared, SettingsFormed
<1>7. reported \in Int
  BY <1>1 DEF ControlledRf, ResolveFrequencies, AddSignedOffset, Hertz
<1>2. rs.owner = rs.backend => rs.pending # NoHz
  BY BackendsAre DEF Held, Prepared, SettingsFormed, Books
<1>3. base = IF rs.owner = rs.backend THEN rsAsked ELSE reported
  BY <1>2
<1>4. SteppedRf(rs, direction) = StepRxFrequency(reported, pending, rs.step, direction)
  BY DEF SteppedRf
<1>8. base \in Int /\ pending \in Nat
  BY <1>1, <1>7, Tunable DEF NoHz
<1> HIDE DEF reported, pending
<1>5. SteppedRf(rs, direction) = base + direction * rs.step
  <2>1. CASE direction = -1
    BY <1>1, <1>4, <1>8, <2>1 DEF StepRxFrequency, NoHz
  <2>2. CASE direction = 1
    BY <1>1, <1>4, <1>8, <2>2 DEF StepRxFrequency, NoHz
  <2>3. QED
    BY <2>1, <2>2
<1>6. QED
  BY <1>3, <1>5 DEF reported

LEMMA OperatorTunes ==
  ASSUME RadioSettingsIInv, DoSetControlledRx \/ DoStepControlledRx
  PROVE  Settles
<1>1. CASE DoSetControlledRx
  <2>1. PICK rf \in SomeRf, accepted \in BOOLEAN :
          /\ WritesRx(rf, accepted)
          /\ rs' = IF accepted THEN RememberPending(rs, rf) ELSE rs
          /\ rsAsked' = IF accepted THEN rf ELSE rsAsked
    BY <1>1 DEF DoSetControlledRx
  <2>2. rf \in 1..MaxRf /\ UNCHANGED rsProvided
    BY <1>1, SettingsAssumption DEF DoSetControlledRx
  <2>3. QED
    BY <2>1, <2>2, RequestStep
<1>2. CASE DoStepControlledRx
  <2>1. PICK direction \in {-1, 1}, accepted \in BOOLEAN :
          /\ RxIsWritable(rs) /\ SteppedRf(rs, direction) \in TunedRf
          /\ WritesRx(SteppedRf(rs, direction), accepted)
          /\ rs' = IF accepted THEN RememberPending(rs, SteppedRf(rs, direction)) ELSE rs
          /\ rsAsked' = IF ~accepted THEN rsAsked
                        ELSE (IF rs.owner = rs.backend THEN rsAsked ELSE ControlledRf(rs).rx)
                             + direction * rs.step
    BY <1>2 DEF DoStepControlledRx
  <2> DEFINE rf == SteppedRf(rs, direction)
  <2>2. rf \in 1..MaxRf /\ UNCHANGED rsProvided
    BY <1>2, <2>1, SettingsAssumption DEF DoStepControlledRx
  <2>3. rf # NoHz
    BY <2>2, Tunable DEF NoHz
  <2>4. rf = (IF rs.owner = rs.backend THEN rsAsked ELSE ControlledRf(rs).rx) + direction * rs.step
    BY <2>1, <2>3, StepsAddUp DEF RadioSettingsIInv
  <2>5. WritesRx(rf, accepted) /\ (\/ rs' = rs /\ rsAsked' = rsAsked
                                   \/ rs' = RememberPending(rs, rf) /\ rsAsked' = rf)
    BY <2>1, <2>4
  <2> HIDE DEF rf
  <2>6. QED
    BY <2>2, <2>5, RequestStep
<1>3. QED
  BY <1>1, <1>2

LEMMA OperatorMovesTheWindow ==
  ASSUME RadioSettingsIInv, DoRequestSdrRx
  PROVE  Settles
<1>0. Held(rs) /\ SettingsFormed(rs)
  BY DEF RadioSettingsIInv, Held, Prepared
<1>1. PICK rf \in SomeRf \cup ({rs.decoder - rs.step, rs.decoder + rs.step} \cap TunedRf) :
        IF ~rs.follow
          THEN Set(SettingThen(SetSdrRadioWindow(rs, rf), LAMBDA s : s))
          ELSE \E accepted \in BOOLEAN :
                 /\ WritesRx(rf, accepted)
                 /\ rs' = IF accepted THEN SetSdrRadioWindow(RememberPending(rs, rf), rf) ELSE rs
                 /\ rsAsked' = IF accepted THEN rf ELSE rsAsked
                 /\ UNCHANGED <<rsProvided, rsChanges>>
  BY DEF DoRequestSdrRx
<1>2. rf \in 1..MaxRf
  BY SettingsAssumption
<1>3. CASE ~rs.follow
  <2> DEFINE x == SetSdrRadioWindow(rs, rf)
  <2>1. SettingsFormed(x) /\ SameButWindow(rs, x)
    BY <1>0, <1>2, WindowSet, Tunable
  <2>2. Setting(x) /\ Unasked /\ UNCHANGED <<rsRig, rsProvided>>
    BY <1>1, <1>3 DEF Set, SettingThen, Setting
  <2> HIDE DEF x
  <2>3. Assigned(rs, x)
    BY <1>0, <2>1, WindowAssigned
  <2>4. QED
    BY <2>2, <2>3, SettingIs
<1>4. CASE rs.follow
  <2>1. PICK accepted \in BOOLEAN :
          /\ WritesRx(rf, accepted)
          /\ rs' = IF accepted THEN SetSdrRadioWindow(RememberPending(rs, rf), rf) ELSE rs
          /\ rsAsked' = IF accepted THEN rf ELSE rsAsked
          /\ UNCHANGED rsProvided
    BY <1>1, <1>4
  <2>2. QED
    BY <1>2, <2>1, RequestStep
<1>5. QED
  BY <1>3, <1>4

LEMMA OtherSteps ==
  ASSUME RadioSettingsIInv,
         RigChanges \/ DoSetControlledTx \/ DoCycleRxMode \/ DoToggleTxMode
  PROVE  Settles
<1>0. Held(rs) /\ SettingsFormed(rs) /\ rsRig \in AnyRig /\ ProvidedAreValid(rsProvided)
      /\ rs.pending = rsAsked
  BY DEF RadioSettingsIInv, Held, Prepared
<1>1. ASSUME rsRig' \in AnyRig, rsTransmit' = NoHz,
             UNCHANGED <<rs, rsProvided, rsAsked>>
      PROVE  Settles
  BY <1>0, <1>1 DEF Settles, RadioSettingsIInv
<1>2. CASE RigChanges
  <2>1. rsRig' \in SomeRigs /\ rsRig' \in Rigs
    BY <1>2, SettingsAssumption DEF RigChanges
  <2>2. rsRig' \in AnyRig
    BY <1>0, <2>1, RigsAreRigs
  <2>3. QED
    BY <1>1, <1>2, <2>2 DEF RigChanges
<1>3. CASE DoSetControlledTx
  <2>1. PICK rf \in SomeRf \cup (IF SyncIsAvailable(rs) THEN {ControlledRf(rs).rx} \cap TunedRf ELSE {}) :
          \/ rsRig' = rsRig
          \/ rsRig' = WriteOmniRigTx(IF NeedsSplit(rs) THEN WriteOmniRigSplit(rsRig, TRUE) ELSE rsRig,
                                     rs.radio, TxDialOf(rs, rf))
    BY <1>3 DEF DoSetControlledTx
  <2>2. rf \in Int
    BY SettingsAssumption, Tunable
  <2>3. TxDialOf(rs, rf) \in Int
    BY <1>0, <2>2, DialIsWhole
  <2> DEFINE split == IF NeedsSplit(rs) THEN WriteOmniRigSplit(rsRig, TRUE) ELSE rsRig
  <2>4. split \in AnyRig
    <3>1. "CW" \in Modes
      BY DEF Modes
    <3>2. WriteOmniRigSplit(rsRig, TRUE) \in AnyRig
      BY <1>0, <3>1, SwitchedRigIsMade
    <3>3. QED
      BY <1>0, <3>2
  <2>5. rsRig' = rsRig \/ rsRig' = WriteOmniRigTx(split, rs.radio, TxDialOf(rs, rf))
    BY <2>1
  <2> HIDE DEF split
  <2>6. rsRig' \in AnyRig
    BY <1>0, <2>3, <2>4, <2>5, TxWriteIsMade
  <2>7. QED
    BY <1>1, <1>3, <2>6 DEF DoSetControlledTx
<1>4. CASE DoCycleRxMode
  <2> DEFINE mode == CycledMode(rs.radio.rxMode.val)
  <2>1. mode \in Modes
    BY DEF CycledMode, Modes
  <2>2. rsRig' = rsRig \/ rsRig' = WriteOmniRigMode(rsRig, mode)
    BY <1>4 DEF DoCycleRxMode
  <2> HIDE DEF mode
  <2>3. rsRig' \in AnyRig
    BY <1>0, <2>1, <2>2, SwitchedRigIsMade
  <2>4. QED
    BY <1>1, <1>4, <2>3 DEF DoCycleRxMode
<1>5. CASE DoToggleTxMode
  <2> DEFINE x == [rs EXCEPT !.txTarget = ToggledTarget(@)]
  <2>1. /\ SettingsFormed(x) /\ x.radio = rs.radio /\ x.pending = rs.pending
        /\ x.owner = rs.owner /\ x.timer = rs.timer /\ x.enabled = rs.enabled /\ x.linked = rs.linked
    BY <1>0 DEF SettingsFormed
  <2>2. rs' = FollowSdrToRadioVfo(x) /\ Unasked /\ UNCHANGED <<rsRig, rsProvided>>
    BY <1>5 DEF DoToggleTxMode, Set
  <2> HIDE DEF x
  <2>3. Held(x)
    BY <1>0, <2>1 DEF Held, Prepared, Books
  <2>4. SettingsFormed(rs') /\ SameButWindow(x, rs')
    BY <2>1, <2>2, FollowSdrIs
  <2>5. Held(rs') /\ rs'.pending = rs.pending /\ rs'.radio = rs.radio
    BY <2>1, <2>3, <2>4, WindowLeavesHeld DEF SameButWindow
  <2>6. QED
    BY <1>0, <2>2, <2>5, StillKept, QuietStep
<1>6. QED
  BY <1>2, <1>3, <1>4, <1>5

LEMMA SettingsAtFirst == RadioSettingsInit => RadioSettingsIInv
<1> SUFFICES ASSUME RadioSettingsInit
             PROVE  RadioSettingsIInv
  OBVIOUS
<1> DEFINE blank == [enabled |-> FALSE, linked |-> FALSE, backend |-> OmniRig, radio |-> NoRadio,
              dial |-> NoHz, target |-> "None", modes |-> [v \in VfoNames |-> NoMode], pending |-> NoHz,
              owner |-> NoBackend, timer |-> FALSE, follow |-> FALSE, center |-> 1, decoder |-> 1,
              loOffset |-> 0, rxOffset |-> 0, txOffset |-> 0, step |-> 1, txTarget |-> "CW"]
<1>1. PICK profile \in SomeProfiles : rs = LoadProfile(blank, profile)
  BY DEF RadioSettingsInit
<1>2. SettingsFormed(blank) /\ Books(blank) /\ blank.radio = NoRadio /\ blank.pending = NoHz
  <2>1. NoHz \in Nat /\ OmniRig \in Backends /\ 1 \in 1..MaxRf /\ 1 \in 1..MaxRf + Reach
    BY Tunable DEF NoHz, OmniRig, Backends
  <2>2. SettingsFormed(blank)
    BY ONLY <2>1 DEF SettingsFormed
  <2>3. Books(blank)
    BY ONLY TRUE DEF Books
  <2>4. QED
    BY <2>2, <2>3
<1> HIDE DEF blank
<1>3. profile \in Profiles
  BY SettingsAssumption
<1>4. Assigned(blank, rs)
  BY <1>1, <1>2, <1>3, NoRadioIsValid, ProfileAssigned
<1>5. Held(rs) /\ rs.pending = rsAsked
  BY <1>2, <1>4 DEF Assigned, Held, RadioSettingsInit
<1>6. ProvidedAreValid(rsProvided)
  BY NoRadioIsValid DEF RadioSettingsInit, ProvidedAreValid
<1>7. rsRig \in SomeRigs /\ rsRig \in Rigs
  BY SettingsAssumption DEF RadioSettingsInit
<1>8. rsRig \in AnyRig /\ rsTransmit = NoHz
  BY <1>7, RigsAreRigs DEF RadioSettingsInit
<1>9. QED
  BY <1>5, <1>6, <1>8 DEF RadioSettingsIInv

LEMMA EveryStepSettles ==
  ASSUME RadioSettingsIInv, RadioSettingsNext
  PROVE  Settles
<1>1. CASE RadioFrequencyTimer \/ HamlibReports \/ Cat4OmReports \/ RxRequestTimeout
  BY <1>1, RadioReports
<1>2. CASE \/ DoSetFrequencyBackend \/ DoSetRadioEnabled \/ DoSetRadioLinked
           \/ DoSetSdrCenter \/ DoSetSdrDecoderCenter \/ DoSelectProfile
  BY <1>2, PlainSetters
<1>3. CASE DoSetSdrFollow \/ DoSetLoOffset \/ DoSetRxOffset
  BY <1>3, SettersThatPlace
<1>4. CASE DoSetControlledRx \/ DoStepControlledRx
  BY <1>4, OperatorTunes
<1>5. CASE DoRequestSdrRx
  BY <1>5, OperatorMovesTheWindow
<1>6. CASE RigChanges \/ DoSetControlledTx \/ DoCycleRxMode \/ DoToggleTxMode
  BY <1>6, OtherSteps
<1>7. QED
  BY <1>1, <1>2, <1>3, <1>4, <1>5, <1>6 DEF RadioSettingsNext

LEMMA SettingsOnwards ==
  RadioSettingsIInv /\ [RadioSettingsNext]_rsVars => RadioSettingsIInv'
<1> SUFFICES ASSUME RadioSettingsIInv, [RadioSettingsNext]_rsVars
             PROVE  RadioSettingsIInv'
  OBVIOUS
<1>1. CASE RadioSettingsNext
  BY <1>1, EveryStepSettles DEF Settles
<1>2. CASE UNCHANGED rsVars
  <2>1. rs' = rs /\ rsRig' = rsRig /\ rsProvided' = rsProvided /\ rsAsked' = rsAsked
        /\ rsTransmit' = rsTransmit
    BY <1>2 DEF rsVars
  <2>2. QED
    BY <2>1 DEF RadioSettingsIInv, TransmitHz
<1>3. QED
  BY <1>1, <1>2

LEMMA SettingsInOrder == RadioSettingsIInv => RadioSettingsInv
  BY DEF RadioSettingsIInv, RadioSettingsInv, Held, Prepared, Books

(* A request for a receive frequency is pending exactly while its timer    *)
(* runs and is what the requests add up to, no radio outlives the settings *)
(* that allow it, and the transmit VFO stays where it is unless only the   *)
(* selected VFO can be written, whatever the rigs are set to               *)
(* (AppSettings::refreshControlledFrequency, reconcilePendingRxRequest,    *)
(* stepControlledRxFrequency).                                             *)
THEOREM RequestsAddUp == RadioSettingsSpec => []RadioSettingsInv
<1>1. RadioSettingsInit => RadioSettingsIInv
  BY SettingsAtFirst
<1>2. RadioSettingsIInv /\ [RadioSettingsNext]_rsVars => RadioSettingsIInv'
  BY SettingsOnwards
<1>3. RadioSettingsIInv => RadioSettingsInv
  BY SettingsInOrder
<1>4. QED
  BY <1>1, <1>2, <1>3, PTL DEF RadioSettingsSpec

(* The window of the SDR receiver is where the radio receives after        *)
(* whatever moves the radio or the local oscillator                        *)
(* (AppSettings::followSdrToRadioVfo, setSdrRadioWindow).                  *)
THEOREM WindowFollowsTheRadio == RadioSettingsSpec => WindowMovesWithRadio
<1> DEFINE Moves ==
      /\ (rs'.radio # rs.radio \/ DoSetSdrFollow \/ DoSetLoOffset \/ DoSetRxOffset)
           /\ rs'.follow /\ ObservedRxRf(rs') \in 1..MaxRf => WindowIsAt(rs', ObservedRxRf(rs'))
      /\ DoSetLoOffset /\ ~rs'.follow => WindowIsAt(rs', rs.decoder)
<1>1. RadioSettingsInit => RadioSettingsIInv
  BY SettingsAtFirst
<1>2. RadioSettingsIInv /\ [RadioSettingsNext]_rsVars => RadioSettingsIInv'
  BY SettingsOnwards
<1>3. RadioSettingsIInv /\ [RadioSettingsNext]_rsVars => [Moves]_rsVars
  <2> SUFFICES ASSUME RadioSettingsIInv, RadioSettingsNext
               PROVE  Moves
    OBVIOUS
  <2>1. /\ rs'.radio # rs.radio => WindowFollows(rs')
        /\ (DoSetSdrFollow \/ DoSetLoOffset \/ DoSetRxOffset) => WindowFollows(rs')
    BY EveryStepSettles, SettersThatPlace DEF Settles
  <2>2. DoSetLoOffset /\ ~rs'.follow => WindowIsAt(rs', rs.decoder)
    BY OffsetIsMeasured
  <2>3. QED
    BY <2>1, <2>2 DEF WindowFollows
<1>4. QED
  BY <1>1, <1>2, <1>3, PTL DEF RadioSettingsSpec, WindowMovesWithRadio
===============================================================================
