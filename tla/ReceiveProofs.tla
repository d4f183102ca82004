------------------------------ MODULE ReceiveProofs ------------------------------
(***************************************************************************)
(* What receiving keeps, for every value of the constants: the labels and  *)
(* the filters of a capture, the worker of the local character decoder,    *)
(* and its lanes, the ring between the audio threads, and who is           *)
(* receiving.                                                              *)
(***************************************************************************)
EXTENDS SpscRing, SdrCapture, CharacterInference, LiveReception, CharacterLanes,
        SequenceTheorems, InductionTheorems

-----------------------------------------------------------------------------
(***************************************************************************)
(* For every set of frequencies, every depth of the driver's queue and of  *)
(* the pipe, and without a bound on the chunks received: a label is true   *)
(* unless the device had strayed, and nothing is carried across a hole     *)
(* that the program could know of.                                         *)
(***************************************************************************)

AnyChunk == [at : Nat, freq : Freqs \cup {NoFreq}, astray : BOOLEAN, unmarked : BOOLEAN]
AnyBlock == [chunk : AnyChunk, label : Freqs, seq : Nat, time : Nat]
AnyExpectation == [label : Freqs \cup {NoFreq}, seq : Nat, time : Nat]
AnyDsp ==
  [running : BOOLEAN, iq : BOOLEAN, wanted : Freqs, applied : Freqs \cup {NoFreq},
   expected : AnyExpectation, stream : Freqs \cup {NoFreq},
   filtered : AnyChunk, filterRun : Nat, batched : AnyChunk, batchRun : Nat]

(* The types, without the bounds that only the model needs.                *)
CaptureType ==
  /\ now \in Nat /\ hardware \in Freqs /\ astray \in BOOLEAN
  /\ device \in Seq(AnyChunk) /\ Len(device) <= QueueDepth + 1
  /\ running \in BOOLEAN
  /\ pending \in Freqs \cup {NoFreq} /\ actual \in Freqs \cup {NoFreq}
  /\ running => actual \in Freqs
  /\ sequence \in Nat /\ clock \in Nat /\ silent \in BOOLEAN
  /\ pipe \in Seq(AnyBlock)

LabelInv == CaptureType /\ ReceivedAsLabelled /\ LabelsAsSet

LEMMA EmptyQueues ==
  /\ <<>> \in Seq(AnyChunk) /\ <<>> \in Seq(AnyBlock)
  /\ Len(<<>>) = 0 /\ Len(<<>>) <= QueueDepth + 1
<1>1. QueueDepth \in Nat
  BY SdrAssumption
<1> QED
  BY <1>1

LEMMA InitLabels == SdrInit => LabelInv
<1> SUFFICES ASSUME SdrInit PROVE LabelInv
  OBVIOUS
<1>1. CaptureType
  BY EmptyQueues, SdrAssumption DEF SdrInit, CaptureType
<1> QED
  BY <1>1 DEF SdrInit, LabelInv, ReceivedAsLabelled, LabelsAsSet

(* One lemma per kind of step. *)
LEMMA ReceiveLabels ==
  ASSUME LabelInv, Receive
  PROVE  LabelInv'
<1> USE DEF Receive
<1> DEFINE chunk == [at |-> now + 1, freq |-> hardware, astray |-> astray, unmarked |-> FALSE]
<1>1. /\ chunk \in AnyChunk /\ Overflow \in AnyChunk
      /\ chunk.astray \/ chunk.freq = actual
  BY DEF LabelInv, CaptureType, ReceivedAsLabelled, AnyChunk, Overflow, NoChunk
<1>2. device' \in {device, Append(device, chunk), Append(device, Overflow)}
  OBVIOUS
<1> HIDE DEF chunk
<1>3. device \in Seq(AnyChunk) /\ device' \in Seq(AnyChunk) /\ Len(device') <= QueueDepth + 1
  BY <1>1, SdrAssumption DEF LabelInv, CaptureType, chunk
<1>4. \A i \in 1..Len(device') : device'[i] # Overflow => device'[i].astray \/ device'[i].freq = actual
  <2> HIDE DEF Receive
  <2>1. CASE device' = device
    BY <2>1 DEF Receive, LabelInv, ReceivedAsLabelled
  <2>2. CASE device' = Append(device, chunk)
    BY <1>1, <1>3, <2>2 DEF Receive, LabelInv, ReceivedAsLabelled
  <2>3. CASE device' = Append(device, Overflow)
    BY <1>1, <1>3, <2>3 DEF Receive, LabelInv, ReceivedAsLabelled
  <2> QED
    BY <1>2, <2>1, <2>2, <2>3
<1>5. CaptureType'
  BY <1>3 DEF LabelInv, CaptureType
<1> QED
  BY <1>4, <1>5 DEF LabelInv, ReceivedAsLabelled, LabelsAsSet

LEMMA SessionLabels ==
  ASSUME LabelInv, (\E f \in Freqs : StartCapture(f)) \/ StopCapture \/ ReadFails
  PROVE  LabelInv'
<1>1. CaptureType'
  <2>1. silent' \in BOOLEAN /\ astray' \in BOOLEAN /\ running' \in BOOLEAN
    BY DEF LabelInv, CaptureType, StartCapture, StopCapture, ReadFails
  <2>2. CASE \E f \in Freqs : StartCapture(f)
    <3> PICK f \in Freqs : StartCapture(f)
      BY <2>2
    <3>1. CASE running' = TRUE
      BY <2>1, <3>1, EmptyQueues DEF LabelInv, CaptureType, StartCapture
    <3>2. CASE running' = FALSE
      BY <2>1, <3>2, EmptyQueues DEF LabelInv, CaptureType, StartCapture
    <3> QED
      BY <3>1, <3>2 DEF StartCapture
  <2>3. CASE StopCapture
    BY <2>3, <2>1, EmptyQueues DEF LabelInv, CaptureType, StopCapture
  <2>4. CASE ReadFails
    BY <2>4, <2>1, EmptyQueues DEF LabelInv, CaptureType, ReadFails
  <2> QED
    BY <2>2, <2>3, <2>4
<1>2. ReceivedAsLabelled'
  BY DEF ReceivedAsLabelled, StartCapture, StopCapture, ReadFails
<1>3. LabelsAsSet'
  BY DEF LabelInv, LabelsAsSet, StartCapture, StopCapture, ReadFails
<1> QED
  BY <1>1, <1>2, <1>3 DEF LabelInv

LEMMA RequestLabels ==
  ASSUME LabelInv, NEW f \in Freqs, RequestRetune(f)
  PROVE  LabelInv'
BY DEF LabelInv, CaptureType, ReceivedAsLabelled, LabelsAsSet, RequestRetune

(* The retune drains all that the driver holds, so nothing received before *)
(* the move is labelled after it.                                          *)
LEMMA RetuneDrains ==
  ASSUME LabelInv, Retune
  PROVE  /\ device' = <<>>
         /\ sequence' = (IF Samples(device) = <<>> THEN sequence ELSE sequence + 1)
         /\ silent' = (Samples(device) = <<>> /\ (device # <<>> \/ silent))
<1>1. device \in Seq(AnyChunk) /\ Len(device) <= DrainReads
  BY SdrAssumption DEF LabelInv, CaptureType
<1>2. (IF Len(device) < DrainReads THEN Len(device) ELSE DrainReads) = Len(device)
  BY <1>1, SdrAssumption
<1>3. SubSeq(device, 1, Len(device)) = device /\ SubSeq(device, Len(device) + 1, Len(device)) = <<>>
  BY <1>1
<1> QED
  BY <1>2, <1>3 DEF Retune

LEMMA RetuneLabels ==
  ASSUME LabelInv, Retune
  PROVE  LabelInv'
<1>1. device' = <<>> /\ sequence' \in {sequence, sequence + 1} /\ silent' \in BOOLEAN
  BY RetuneDrains
<1>2. astray' \in BOOLEAN /\ running' \in BOOLEAN
  BY DEF LabelInv, CaptureType, Retune
<1>3. pending \in Freqs /\ sequence' \in Nat
  BY <1>1 DEF LabelInv, CaptureType, Retune
<1>4. CaptureType'
  BY <1>1, <1>2, <1>3, EmptyQueues DEF LabelInv, CaptureType, Retune
<1>5. ReceivedAsLabelled'
  <2>1. Len(device') = 0 /\ hardware' = actual'
    BY <1>1, EmptyQueues DEF Retune
  <2> QED
    BY <2>1 DEF ReceivedAsLabelled
<1> QED
  BY <1>4, <1>5 DEF LabelInv, LabelsAsSet, Retune

LEMMA RefusedLabels ==
  ASSUME LabelInv, RetuneRefused
  PROVE  LabelInv'
BY SdrAssumption DEF LabelInv, CaptureType, ReceivedAsLabelled, LabelsAsSet, RetuneRefused

LEMMA DeviceTail ==
  ASSUME LabelInv, device # <<>>
  PROVE  /\ Head(device) \in AnyChunk /\ Head(device) = device[1] /\ Len(device) \in Nat \ {0}
         /\ Tail(device) \in Seq(AnyChunk) /\ Len(Tail(device)) <= QueueDepth + 1
         /\ Len(Tail(device)) = Len(device) - 1
         /\ \A i \in 1..Len(Tail(device)) : Tail(device)[i] = device[i + 1] /\ i + 1 \in 1..Len(device)
<1>1. device \in Seq(AnyChunk) /\ Len(device) <= QueueDepth + 1 /\ QueueDepth \in Nat
  BY SdrAssumption DEF LabelInv, CaptureType
<1>2. /\ Tail(device) \in Seq(AnyChunk) /\ Len(Tail(device)) = Len(device) - 1
      /\ Head(device) = device[1] /\ Len(device) \in Nat \ {0}
      /\ \A i \in 1..Len(Tail(device)) : Tail(device)[i] = device[i + 1]
  BY <1>1, HeadTailProperties
<1> QED
  BY <1>1, <1>2

LEMMA TailLabels ==
  ASSUME LabelInv, running, device # <<>>
  PROVE  /\ Head(device) # Overflow => Head(device).astray \/ Head(device).freq = actual
         /\ \A i \in 1..Len(Tail(device)) :
              Tail(device)[i] # Overflow => Tail(device)[i].astray \/ Tail(device)[i].freq = actual
<1>1. \A i \in 1..Len(device) : device[i] # Overflow => device[i].astray \/ device[i].freq = actual
  BY DEF LabelInv, ReceivedAsLabelled
<1>2. 1 \in 1..Len(device)
  BY DeviceTail
<1> QED
  BY <1>1, <1>2, DeviceTail

LEMMA ReadOverflowLabels ==
  ASSUME LabelInv, ReadOverflow
  PROVE  LabelInv'
<1>1. silent' \in BOOLEAN /\ astray' \in BOOLEAN /\ running' \in BOOLEAN
  BY DEF LabelInv, CaptureType, ReadOverflow
<1>2. CaptureType'
  BY <1>1, DeviceTail DEF LabelInv, CaptureType, ReadOverflow
<1>3. ReceivedAsLabelled'
  BY TailLabels DEF LabelInv, ReceivedAsLabelled, ReadOverflow
<1> QED
  BY <1>2, <1>3 DEF LabelInv, LabelsAsSet, ReadOverflow

(* The block that a read leads to. *)
Marked(chunk, stamped) == [chunk EXCEPT !.unmarked = silent /\ ~stamped]
Stamp(chunk, stamped) == IF stamped THEN chunk.at ELSE clock
Pumped(chunk, stamped) ==
  [chunk |-> Marked(chunk, stamped), label |-> actual, seq |-> sequence, time |-> Stamp(chunk, stamped)]

LEMMA PumpedIs ==
  ASSUME LabelInv, Pump
  PROVE  \E stamped \in BOOLEAN :
           LET z == Pumped(Head(device), stamped) IN
             /\ z \in AnyBlock /\ z.chunk.at = Head(device).at /\ z.seq = sequence
             /\ z.time = Stamp(Head(device), stamped)
             /\ z.chunk.unmarked = (silent /\ ~stamped)
             /\ z.chunk.astray \/ z.label = z.chunk.freq
             /\ pipe' = (IF Len(pipe) < PipeDepth THEN Append(pipe, z) ELSE pipe)
             /\ clock' = z.time + 1
<1>1. PICK stamped \in BOOLEAN :
        LET time == IF stamped THEN Head(device).at ELSE clock
            chunk == [Head(device) EXCEPT !.unmarked = silent /\ ~stamped]
            block == [chunk |-> chunk, label |-> actual, seq |-> sequence, time |-> time]
        IN  /\ pipe' = IF Len(pipe) < PipeDepth THEN Append(pipe, block) ELSE pipe
            /\ clock' = time + 1
  BY DEF Pump
<1> DEFINE h == Head(device)
           z == Pumped(h, stamped)
<1>2. running /\ device # <<>> /\ h # Overflow
  BY DEF Pump
<1>3. h \in AnyChunk /\ (h.astray \/ h.freq = actual)
  BY <1>2, DeviceTail, TailLabels
<1>4. pipe' = (IF Len(pipe) < PipeDepth THEN Append(pipe, z) ELSE pipe) /\ clock' = Stamp(h, stamped) + 1
  BY <1>1 DEF Pumped, Marked, Stamp
<1> HIDE DEF h
<1>5. /\ Marked(h, stamped) \in AnyChunk
      /\ Marked(h, stamped).at = h.at /\ Marked(h, stamped).freq = h.freq
      /\ Marked(h, stamped).astray = h.astray
      /\ Marked(h, stamped).unmarked = (silent /\ ~stamped)
  BY <1>3 DEF AnyChunk, Marked
<1>6. Stamp(h, stamped) \in Nat /\ actual \in Freqs /\ sequence \in Nat
  BY <1>2, <1>3 DEF LabelInv, CaptureType, AnyChunk, Stamp
<1>7. /\ z \in AnyBlock /\ z.chunk = Marked(h, stamped) /\ z.label = actual /\ z.seq = sequence
      /\ z.time = Stamp(h, stamped)
  BY <1>5, <1>6 DEF AnyBlock, Pumped
<1> HIDE DEF z
<1>8. /\ z \in AnyBlock /\ z.chunk.at = h.at /\ z.seq = sequence
      /\ z.time = Stamp(h, stamped)
      /\ z.chunk.unmarked = (silent /\ ~stamped)
      /\ z.chunk.astray \/ z.label = z.chunk.freq
      /\ pipe' = (IF Len(pipe) < PipeDepth THEN Append(pipe, z) ELSE pipe)
      /\ clock' = z.time + 1
  BY <1>3, <1>4, <1>5, <1>7
<1> QED
  BY <1>8 DEF h, z

LEMMA PumpLabels ==
  ASSUME LabelInv, Pump
  PROVE  LabelInv'
<1>1. PICK stamped \in BOOLEAN :
        LET z == Pumped(Head(device), stamped) IN
          /\ z \in AnyBlock /\ (z.chunk.astray \/ z.label = z.chunk.freq)
          /\ pipe' = (IF Len(pipe) < PipeDepth THEN Append(pipe, z) ELSE pipe)
          /\ clock' = z.time + 1
  BY PumpedIs
<1> DEFINE z == Pumped(Head(device), stamped)
<1>2. /\ z \in AnyBlock /\ (z.chunk.astray \/ z.label = z.chunk.freq)
      /\ pipe' \in {pipe, Append(pipe, z)} /\ clock' = z.time + 1
  BY <1>1
<1> HIDE DEF z
<1>3. /\ running /\ device # <<>> /\ device' = Tail(device) /\ sequence' = sequence + 1 /\ silent' = FALSE
      /\ UNCHANGED <<now, hardware, astray, running, pending, actual>>
  BY DEF Pump
<1>4. pipe \in Seq(AnyBlock) /\ pipe' \in Seq(AnyBlock)
  <2>1. pipe \in Seq(AnyBlock)
    BY DEF LabelInv, CaptureType
  <2> QED
    BY <1>2, <2>1, AppendProperties
<1>5. z.time \in Nat
  BY <1>2 DEF AnyBlock
<1>6. silent' \in BOOLEAN /\ astray' \in BOOLEAN /\ running' \in BOOLEAN
  BY <1>3 DEF LabelInv, CaptureType
<1>7. CaptureType'
  BY <1>2, <1>3, <1>4, <1>5, <1>6, DeviceTail DEF LabelInv, CaptureType
<1>8. ReceivedAsLabelled'
  BY <1>3, TailLabels DEF LabelInv, ReceivedAsLabelled
<1>9. LabelsAsSet'
  <2>1. CASE pipe' = pipe
    BY <2>1 DEF LabelInv, LabelsAsSet
  <2>2. CASE pipe' = Append(pipe, z)
    BY <1>2, <1>4, <2>2 DEF LabelInv, LabelsAsSet
  <2> QED
    BY <1>2, <2>1, <2>2
<1> QED
  BY <1>7, <1>8, <1>9 DEF LabelInv

(***************************************************************************)
(* The DSP thread. *)
(***************************************************************************)
LEMMA DspLabels ==
  ASSUME LabelInv, SdrDsp
  PROVE  LabelInv'
<1>1. UNCHANGED <<now, hardware, astray, device, running, pending, actual, sequence, clock, silent>>
  BY DEF SdrDsp, DspStart, DspStop, DrainBlock, SetDecoderWindow
<1>2. CASE pipe' = <<>>
  BY <1>1, <1>2, EmptyQueues DEF LabelInv, CaptureType, ReceivedAsLabelled, LabelsAsSet
<1>3. CASE pipe' = pipe
  BY <1>1, <1>3 DEF LabelInv, CaptureType, ReceivedAsLabelled, LabelsAsSet
<1>4. CASE pipe # <<>> /\ pipe' = Tail(pipe)
  <2>1. pipe \in Seq(AnyBlock)
    BY DEF LabelInv, CaptureType
  <2>2. /\ pipe' \in Seq(AnyBlock)
        /\ \A i \in 1..Len(pipe') : i + 1 \in 1..Len(pipe) /\ pipe'[i] = pipe[i + 1]
    BY <1>4, <2>1, HeadTailProperties
  <2> QED
    BY <1>1, <2>2 DEF LabelInv, CaptureType, ReceivedAsLabelled, LabelsAsSet
<1> QED
  BY <1>2, <1>3, <1>4 DEF SdrDsp, DspStart, DspStop, DrainBlock, SetDecoderWindow

LEMMA StepLabels ==
  ASSUME LabelInv, [SdrNext]_sdrVars
  PROVE  LabelInv'
<1>1. CASE Receive
  BY <1>1, ReceiveLabels
<1>2. ASSUME NEW f \in Freqs, StartCapture(f) PROVE LabelInv'
  BY <1>2, SessionLabels
<1>3. CASE StopCapture \/ ReadFails
  BY <1>3, SessionLabels
<1>4. ASSUME NEW f \in Freqs, RequestRetune(f) PROVE LabelInv'
  BY <1>4, RequestLabels
<1>5. CASE Retune
  BY <1>5, RetuneLabels
<1>6. CASE RetuneRefused
  BY <1>6, RefusedLabels
<1>7. CASE ReadOverflow
  BY <1>7, ReadOverflowLabels
<1>8. CASE Pump
  BY <1>8, PumpLabels
<1>9. CASE SdrDsp
  BY <1>9, DspLabels
<1>10. CASE UNCHANGED sdrVars
  BY <1>10 DEF sdrVars, LabelInv, CaptureType, ReceivedAsLabelled, LabelsAsSet
<1>11. Tunable \subseteq Freqs
  BY SdrAssumption
<1> QED
  BY <1>1, <1>2, <1>3, <1>4, <1>5, <1>6, <1>7, <1>8, <1>9, <1>10, <1>11 DEF SdrNext, SdrCapturing

(* Every block in the pipe carries the frequency that its samples were     *)
(* received on, unless the device was on another than it was last set to.  *)
THEOREM LabelsAreTrue == SdrSpec => []LabelsAsSet
<1>1. LabelInv /\ [SdrNext]_sdrVars => LabelInv'
  BY StepLabels
<1>2. LabelInv => LabelsAsSet
  BY DEF LabelInv
<1> QED
  BY InitLabels, <1>1, <1>2, PTL DEF SdrSpec

-----------------------------------------------------------------------------
(* What the capture thread has still to send, as seen by a block.          *)
Source ==
  [now |-> now, queue |-> device, on |-> running, seq |-> sequence, time |-> clock,
   silent |-> silent]
Sources ==
  [now : Nat, queue : Seq(AnyChunk), on : BOOLEAN, seq : Nat, time : Nat, silent : BOOLEAN]

(* The driver's queue is in the order of the air, and but for the overflow *)
(* reports it holds all that was received.                                 *)
InSequence(p) ==
  LET q == p.queue IN
    /\ \A i \in 1..Len(q) : q[i] # Overflow => q[i].at <= p.now
    /\ \A i, j \in 1..Len(q) : i < j /\ q[i] # Overflow /\ q[j] # Overflow => q[i].at < q[j].at
    /\ \A i \in 1..Len(q) :
         i + 1 \in 1..Len(q) /\ q[i] # Overflow /\ q[i + 1] # Overflow => q[i + 1].at = q[i].at + 1
    /\ q # <<>> /\ q[Len(q)] # Overflow => q[Len(q)].at = p.now

(* The next chunk read, if no report of a hole is read before it, is t.    *)
Upcoming(p, t) ==
  /\ p.queue = <<>> => p.now + 1 = t
  /\ p.queue # <<>> /\ p.queue[1] # Overflow => p.queue[1].at = t

(* c is received already, and e, what is expected after it, is not beyond  *)
(* it.                                                                     *)
Past(e, c, p) == c.at <= p.now /\ 1 <= e.time /\ e.time <= c.at + 1

(* c was pumped last, or before the session: if the next block's number is *)
(* the one expected, and so would its time be, it is the next chunk.       *)
StillToCome(e, c, p) ==
  /\ Past(e, c, p)
  /\ \A i \in 1..Len(p.queue) : p.queue[i] # Overflow => c.at < p.queue[i].at
  /\ p.on /\ p.time # 0 => e.seq <= p.seq
  /\ p.on /\ e.time = p.time /\ e.seq = p.seq => p.silent \/ Upcoming(p, c.at + 1)

(* What the validator expects after b.                                     *)
Expected(b) == [label |-> b.label, seq |-> b.seq + 1, time |-> b.time + 1]

Linked(e, c, b) ==
  b.seq = e.seq /\ b.time = e.time => b.chunk.unmarked \/ b.chunk.at = c.at + 1

(* A step from p to q that sends nothing, and starts no session. *)
Preserves(p, q) ==
  /\ q \in Sources /\ InSequence(q)
  /\ p.now <= q.now
  /\ q.on => p.on /\ q.time = p.time
  /\ \A e \in AnyExpectation, c \in AnyChunk : StillToCome(e, c, p) => StillToCome(e, c, q)

LEMMA SourceType ==
  ASSUME LabelInv
  PROVE  /\ Source \in Sources
         /\ Source.now = now /\ Source.queue = device /\ Source.on = running /\ Source.seq = sequence
         /\ Source.time = clock /\ Source.silent = silent
BY DEF LabelInv, CaptureType, Source, Sources

(* The driver's queue grows by what was just received. *)
LEMMA ReceiveCarries ==
  ASSUME NEW p \in Sources, InSequence(p), p.on, NEW q \in Sources, NEW chunk \in AnyChunk,
         chunk.at = p.now + 1, q.now = p.now + 1,
         \/ q.queue = Append(p.queue, chunk)
         \/ q.queue = Append(p.queue, Overflow)
         \/ p.queue # <<>> /\ p.queue[Len(p.queue)] = Overflow /\ q.queue = p.queue,
         q.on = p.on, q.seq = p.seq, q.time = p.time, q.silent = p.silent
  PROVE  Preserves(p, q)
<1> DEFINE s == p.queue
           t == q.queue
           n == Len(s)
<1>1. s \in Seq(AnyChunk) /\ t \in Seq(AnyChunk) /\ n \in Nat /\ p.now \in Nat
  BY DEF Sources
<1>2. Overflow \in AnyChunk /\ chunk # Overflow /\ \A i \in 1..n : s[i].at \in Nat
  <2>1. Overflow \in AnyChunk /\ Overflow.at = 0
    BY DEF Overflow, NoChunk, AnyChunk
  <2>2. \A i \in 1..n : s[i] \in AnyChunk
    BY <1>1
  <2> HIDE DEF s, n
  <2> QED
    BY <1>1, <2>1, <2>2 DEF AnyChunk
<1>3. PICK x : x \in {chunk, Overflow} /\
        (t = Append(s, x) \/ (s # <<>> /\ s[n] = Overflow /\ t = s))
  OBVIOUS
<1> HIDE DEF s, t, n
<1>4. CASE t = Append(s, x)
  <2>1. /\ Len(t) = n + 1 /\ t # <<>> /\ t[n + 1] = x
        /\ \A i \in 1..n : t[i] = s[i]
    BY <1>1, <1>2, <1>3, <1>4 DEF n
  <2>2. \A i \in 1..n : s[i] # Overflow => s[i].at <= p.now
    BY DEF InSequence, s, n
  <2>3. x # Overflow => x.at = p.now + 1
    BY <1>3
  <2>4. \A i \in 1..Len(t) : i \in 1..n \/ i = n + 1
    BY <1>1, <2>1
  <2>5. \A i \in 1..Len(t) : t[i] # Overflow => t[i].at <= q.now
    BY <1>1, <1>2, <2>1, <2>2, <2>3, <2>4
  <2>6. \A i, j \in 1..Len(t) : i < j /\ t[i] # Overflow /\ t[j] # Overflow => t[i].at < t[j].at
    <3> SUFFICES ASSUME NEW i \in 1..Len(t), NEW j \in 1..Len(t), i < j, t[i] # Overflow, t[j] # Overflow
                 PROVE  t[i].at < t[j].at
      OBVIOUS
    <3>1. i \in 1..n
      BY <1>1, <2>1, <2>4
    <3>2. CASE j \in 1..n
      <4>1. \A k, l \in 1..n : k < l /\ s[k] # Overflow /\ s[l] # Overflow => s[k].at < s[l].at
        BY DEF InSequence, s, n
      <4> QED
        BY <2>1, <3>1, <3>2, <4>1
    <3>3. CASE j = n + 1
      BY <1>1, <1>2, <2>1, <2>2, <2>3, <3>1, <3>3
    <3> QED
      BY <2>4, <3>2, <3>3
  <2>7. \A i \in 1..Len(t) :
          i + 1 \in 1..Len(t) /\ t[i] # Overflow /\ t[i + 1] # Overflow => t[i + 1].at = t[i].at + 1
    <3> SUFFICES ASSUME NEW i \in 1..Len(t), i + 1 \in 1..Len(t), t[i] # Overflow, t[i + 1] # Overflow
                 PROVE  t[i + 1].at = t[i].at + 1
      OBVIOUS
    <3>1. i \in 1..n
      BY <1>1, <2>1
    <3>2. CASE i + 1 \in 1..n
      <4>1. \A k \in 1..n : k + 1 \in 1..n /\ s[k] # Overflow /\ s[k + 1] # Overflow => s[k + 1].at = s[k].at + 1
        BY DEF InSequence, s, n
      <4> QED
        BY <2>1, <3>1, <3>2, <4>1
    <3>3. CASE i = n
      <4>1. s # <<>> /\ s[n] = t[n]
        BY <1>1, <2>1, <3>1, <3>3 DEF n
      <4>2. s[n].at = p.now
        BY <3>3, <4>1 DEF InSequence, s, n
      <4> QED
        BY <1>1, <2>1, <2>3, <3>3, <4>1, <4>2
    <3> QED
      BY <1>1, <3>1, <3>2, <3>3
  <2>8. t[Len(t)] # Overflow => t[Len(t)].at = q.now
    BY <1>1, <2>1, <2>3
  <2>9. InSequence(q)
    BY <2>5, <2>6, <2>7, <2>8 DEF InSequence, t
  <2>10. ASSUME NEW e \in AnyExpectation, NEW c \in AnyChunk, StillToCome(e, c, p) PROVE StillToCome(e, c, q)
    <3>1. Past(e, c, p) /\ \A i \in 1..n : s[i] # Overflow => c.at < s[i].at
      BY <2>10 DEF StillToCome, s, n
    <3>2. c.at \in Nat
      BY DEF AnyChunk
    <3>3. Past(e, c, q)
      BY <1>1, <3>1, <3>2 DEF Past
    <3>4. \A i \in 1..Len(t) : t[i] # Overflow => c.at < t[i].at
      BY <1>1, <2>1, <2>3, <2>4, <3>1, <3>2 DEF Past
    <3>5. Upcoming(p, c.at + 1) => Upcoming(q, c.at + 1)
      <4>1. CASE s = <<>>
        BY <1>1, <2>1, <2>3, <4>1 DEF Upcoming, s, t, n
      <4>2. CASE s # <<>>
        <5>1. 1 \in 1..n /\ t[1] = s[1]
          BY <1>1, <2>1, <4>2 DEF n
        <5> QED
          BY <2>1, <4>2, <5>1 DEF Upcoming, s, t
      <4> QED
        BY <4>1, <4>2
    <3> QED
      BY <2>10, <3>3, <3>4, <3>5 DEF StillToCome, t
  <2> QED
    BY <1>1, <2>9, <2>10 DEF Preserves
<1>5. CASE s # <<>> /\ s[n] = Overflow /\ t = s
  <2>1. InSequence(q)
    <3>1. /\ \A i \in 1..n : s[i] # Overflow => s[i].at <= p.now
          /\ \A i, j \in 1..n : i < j /\ s[i] # Overflow /\ s[j] # Overflow => s[i].at < s[j].at
          /\ \A i \in 1..n : i + 1 \in 1..n /\ s[i] # Overflow /\ s[i + 1] # Overflow => s[i + 1].at = s[i].at + 1
      BY DEF InSequence, s, n
    <3>2. \A i \in 1..n : s[i] # Overflow => s[i].at <= q.now
      BY <1>1, <1>2, <3>1
    <3> QED
      BY <1>5, <3>1, <3>2 DEF InSequence, s, t, n
  <2>2. ASSUME NEW e \in AnyExpectation, NEW c \in AnyChunk, StillToCome(e, c, p) PROVE StillToCome(e, c, q)
    <3>1. c.at \in Nat /\ Past(e, c, p)
      BY <2>2 DEF AnyChunk, StillToCome
    <3>2. Past(e, c, q)
      BY <1>1, <3>1 DEF Past
    <3>3. Upcoming(p, c.at + 1) => Upcoming(q, c.at + 1)
      BY <1>5 DEF Upcoming, s, t
    <3> QED
      BY <1>5, <2>2, <3>2, <3>3 DEF StillToCome, s, t
  <2> QED
    BY <1>1, <2>1, <2>2 DEF Preserves
<1> QED
  BY <1>3, <1>4, <1>5

(* The numbers move on, and what the driver holds may be read.             *)
LEMMA MovesOnCarries ==
  ASSUME NEW p \in Sources, NEW q \in Sources, InSequence(q), q.now = p.now, q.on = p.on,
         q.seq = p.seq + 1, q.time = p.time,
         \A i \in 1..Len(q.queue) : \E j \in 1..Len(p.queue) : q.queue[i] = p.queue[j]
  PROVE  Preserves(p, q)
<1>1. ASSUME NEW e \in AnyExpectation, NEW c \in AnyChunk, StillToCome(e, c, p) PROVE StillToCome(e, c, q)
  <2>1. Past(e, c, q) /\ 1 <= e.time
    BY <1>1 DEF StillToCome, Past
  <2>2. \A i \in 1..Len(q.queue) : q.queue[i] # Overflow => c.at < q.queue[i].at
    BY <1>1 DEF StillToCome
  <2>3. e.seq \in Nat /\ p.seq \in Nat /\ p.time \in Nat
    BY DEF AnyExpectation, Sources
  <2>4. q.on /\ q.time # 0 => e.seq <= p.seq
    BY <1>1 DEF StillToCome
  <2>5. ~(q.on /\ e.time = q.time /\ e.seq = q.seq)
    BY <2>1, <2>3, <2>4
  <2> QED
    BY <2>1, <2>2, <2>3, <2>4, <2>5 DEF StillToCome
<1> QED
  BY <1>1 DEF Preserves, Sources

(* The queue is emptied, in silence or because the session ends.           *)
LEMMA EmptiedCarries ==
  ASSUME NEW p \in Sources, NEW q \in Sources, q.queue = <<>>, q.now = p.now,
         q.on => p.on /\ q.seq = p.seq /\ q.time = p.time /\ (q.silent \/ p.queue = <<>>),
         p.silent => q.silent \/ ~q.on
  PROVE  Preserves(p, q)
<1>1. Len(q.queue) = 0
  OBVIOUS
<1>2. InSequence(q)
  BY <1>1 DEF InSequence
<1>3. ASSUME NEW e \in AnyExpectation, NEW c \in AnyChunk, StillToCome(e, c, p) PROVE StillToCome(e, c, q)
  <2>1. Past(e, c, q)
    BY <1>3 DEF StillToCome, Past
  <2>2. CASE q.on
    <3>1. p.queue = <<>> => (Upcoming(p, c.at + 1) => Upcoming(q, c.at + 1))
      BY DEF Upcoming
    <3> QED
      BY <1>1, <1>3, <2>1, <2>2, <3>1 DEF StillToCome
  <2>3. CASE ~q.on
    BY <1>1, <2>1, <2>3 DEF StillToCome
  <2> QED
    BY <2>2, <2>3
<1> QED
  BY <1>2, <1>3 DEF Preserves, Sources

(* The first of the queue is sent in a block. *)
LEMMA SentIsLinked ==
  ASSUME NEW p \in Sources, InSequence(p), p.on, p.queue # <<>>, p.queue[1] # Overflow,
         NEW z \in AnyBlock, NEW stamped \in BOOLEAN,
         z.chunk.at = p.queue[1].at, z.seq = p.seq,
         z.time = (IF stamped THEN p.queue[1].at ELSE p.time),
         z.chunk.unmarked = (p.silent /\ ~stamped),
         NEW e \in AnyExpectation, NEW c \in AnyChunk, StillToCome(e, c, p)
  PROVE  Linked(e, c, z)
<1>1. 1 \in 1..Len(p.queue) /\ p.queue[1].at \in Nat /\ c.at \in Nat /\ e.time \in Nat
  <2>1. p.queue \in Seq(AnyChunk)
    BY DEF Sources
  <2>2. 1 \in 1..Len(p.queue) /\ p.queue[1] \in AnyChunk
    BY <2>1
  <2> QED
    BY <2>2 DEF AnyChunk, AnyExpectation
<1> SUFFICES ASSUME z.seq = e.seq, z.time = e.time PROVE z.chunk.unmarked \/ z.chunk.at = c.at + 1
  BY DEF Linked
<1>2. c.at < p.queue[1].at /\ e.time <= c.at + 1
  BY <1>1 DEF StillToCome, Past
<1>3. CASE stamped
  BY <1>1, <1>2, <1>3
<1>4. CASE ~stamped
  <2>1. e.time = p.time /\ e.seq = p.seq
    BY <1>4
  <2>2. p.silent \/ Upcoming(p, c.at + 1)
    BY <2>1 DEF StillToCome
  <2> QED
    BY <1>4, <2>2 DEF Upcoming
<1> QED
  BY <1>3, <1>4

LEMMA TailInSequence ==
  ASSUME NEW p \in Sources, InSequence(p), p.queue # <<>>,
         NEW q \in Sources, q.queue = Tail(p.queue), q.now = p.now
  PROVE  InSequence(q)
<1> DEFINE s == p.queue
           t == q.queue
           n == Len(s)
<1>1. /\ s \in Seq(AnyChunk) /\ n \in Nat \ {0} /\ t \in Seq(AnyChunk) /\ Len(t) = n - 1
      /\ \A i \in 1..Len(t) : t[i] = s[i + 1] /\ i + 1 \in 1..n
  <2>1. s \in Seq(AnyChunk) /\ s # <<>>
    BY DEF Sources
  <2> HIDE DEF s
  <2> QED
    BY <2>1, HeadTailProperties DEF s
<1>2. /\ \A i \in 1..n : s[i] # Overflow => s[i].at <= p.now
      /\ \A i, j \in 1..n : i < j /\ s[i] # Overflow /\ s[j] # Overflow => s[i].at < s[j].at
      /\ \A i \in 1..n : i + 1 \in 1..n /\ s[i] # Overflow /\ s[i + 1] # Overflow => s[i + 1].at = s[i].at + 1
      /\ s[n] # Overflow => s[n].at = p.now
  BY DEF InSequence
<1> HIDE DEF s, t, n
<1>3. \A i \in 1..Len(t) : t[i] # Overflow => t[i].at <= q.now
  BY <1>1, <1>2
<1>4. \A i, j \in 1..Len(t) : i < j /\ t[i] # Overflow /\ t[j] # Overflow => t[i].at < t[j].at
  <2> SUFFICES ASSUME NEW i \in 1..Len(t), NEW j \in 1..Len(t), i < j, t[i] # Overflow, t[j] # Overflow
               PROVE  t[i].at < t[j].at
    OBVIOUS
  <2>1. t[i] = s[i + 1] /\ t[j] = s[j + 1] /\ i + 1 \in 1..n /\ j + 1 \in 1..n /\ i + 1 < j + 1
    BY <1>1
  <2> QED
    BY <1>2, <2>1
<1>5. \A i \in 1..Len(t) :
        i + 1 \in 1..Len(t) /\ t[i] # Overflow /\ t[i + 1] # Overflow => t[i + 1].at = t[i].at + 1
  BY <1>1, <1>2
<1>6. t # <<>> => Len(t) \in 1..Len(t) /\ t[Len(t)] = s[n]
  BY <1>1
<1>7. t # <<>> /\ t[Len(t)] # Overflow => t[Len(t)].at = q.now
  BY <1>2, <1>6
<1> QED
  BY <1>3, <1>4, <1>5, <1>7 DEF InSequence, t

LEMMA SentIsAhead ==
  ASSUME NEW p \in Sources, InSequence(p), p.queue # <<>>, p.queue[1] # Overflow,
         NEW z \in AnyBlock, z.chunk.at = p.queue[1].at, z.seq = p.seq, z.time <= z.chunk.at,
         NEW q \in Sources, q.queue = Tail(p.queue), q.now = p.now, q.seq = p.seq + 1,
         q.time = z.time + 1
  PROVE  /\ InSequence(q) /\ z.chunk.at <= p.now
         /\ StillToCome(Expected(z), z.chunk, q)
         /\ \A e \in AnyExpectation, c \in AnyChunk :
              StillToCome(e, c, p) /\ p.time # 0 => ~q.on \/ ~p.on \/ StillToCome(e, c, q)
<1> DEFINE s == p.queue
           t == q.queue
           n == Len(s)
<1>1. /\ s \in Seq(AnyChunk) /\ n \in Nat \ {0} /\ t \in Seq(AnyChunk) /\ Len(t) = n - 1
      /\ \A i \in 1..Len(t) : t[i] = s[i + 1] /\ i + 1 \in 1..n
  <2>1. s \in Seq(AnyChunk) /\ s # <<>>
    BY DEF Sources
  <2> HIDE DEF s
  <2> QED
    BY <2>1, HeadTailProperties DEF s
<1>2. /\ \A i \in 1..n : s[i] # Overflow => s[i].at <= p.now
      /\ \A i, j \in 1..n : i < j /\ s[i] # Overflow /\ s[j] # Overflow => s[i].at < s[j].at
      /\ \A i \in 1..n : i + 1 \in 1..n /\ s[i] # Overflow /\ s[i + 1] # Overflow => s[i + 1].at = s[i].at + 1
      /\ s[n] # Overflow => s[n].at = p.now
  BY DEF InSequence
<1>3. s[1] # Overflow /\ z.chunk.at = s[1].at
  OBVIOUS
<1> HIDE DEF s, t, n
<1>4. InSequence(q)
  BY TailInSequence
<1>5. z.chunk.at \in Nat /\ z.time \in Nat /\ z.seq \in Nat /\ z.chunk.at <= p.now
  BY <1>1, <1>2, <1>3 DEF AnyBlock, AnyChunk
<1>6. Expected(z).time = z.time + 1 /\ Expected(z).seq = z.seq + 1
  BY DEF Expected
<1>7. StillToCome(Expected(z), z.chunk, q)
  <2>1. Past(Expected(z), z.chunk, q)
    BY <1>5, <1>6 DEF Past
  <2>2. \A i \in 1..Len(t) : t[i] # Overflow => z.chunk.at < t[i].at
    BY <1>1, <1>2, <1>3
  <2>3. Upcoming(q, z.chunk.at + 1)
    <3>1. CASE t = <<>>
      <4>1. n = 1
        BY <1>1, <3>1
      <4>2. z.chunk.at = q.now
        BY <1>2, <1>3, <4>1
      <4> QED
        BY <3>1, <4>2 DEF Upcoming, t
    <3>2. CASE t # <<>>
      <4>1. 1 \in 1..Len(t) /\ t[1] = s[2] /\ 1 \in 1..n /\ 2 \in 1..n
        BY <1>1, <3>2
      <4> QED
        BY <1>2, <1>3, <3>2, <4>1 DEF Upcoming, t
    <3> QED
      BY <3>1, <3>2
  <2> QED
    BY <1>5, <1>6, <2>1, <2>2, <2>3 DEF StillToCome, t
<1>8. ASSUME NEW e \in AnyExpectation, NEW c \in AnyChunk, StillToCome(e, c, p), p.time # 0, q.on, p.on
      PROVE  StillToCome(e, c, q)
  <2>1. e.seq \in Nat /\ p.seq \in Nat /\ e.seq <= p.seq /\ Past(e, c, p)
    BY <1>8 DEF AnyExpectation, Sources, StillToCome
  <2>2. \A i \in 1..Len(t) : t[i] # Overflow => c.at < t[i].at
    BY <1>1, <1>8 DEF StillToCome, s, n
  <2> QED
    BY <2>1, <2>2 DEF StillToCome, Past, t
<1> QED
  BY <1>4, <1>5, <1>7, <1>8

-----------------------------------------------------------------------------
(* The blocks in the pipe, in the order of their numbers. *)
Chained(s, p) ==
  /\ \A i \in 1..Len(s) : s[i].time <= s[i].chunk.at /\ s[i].chunk.at <= p.now
  /\ \A i \in 1..Len(s) : i + 1 \in 1..Len(s) => Linked(Expected(s[i]), s[i].chunk, s[i + 1])
  /\ s # <<>> => StillToCome(Expected(s[Len(s)]), s[Len(s)].chunk, p)
  /\ p.on /\ p.time = 0 => s = <<>>

(* c was seen before all in the pipe. *)
Follows(e, c, s, p) ==
  /\ Past(e, c, p)
  /\ s = <<>> => StillToCome(e, c, p)
  /\ s # <<>> => Linked(e, c, s[1])

LEMMA ExpectedType ==
  ASSUME NEW b \in AnyBlock
  PROVE  /\ Expected(b) \in AnyExpectation
         /\ Expected(b).label = b.label /\ Expected(b).seq = b.seq + 1 /\ Expected(b).time = b.time + 1
BY DEF AnyBlock, AnyExpectation, Expected

LEMMA CarriesOn ==
  ASSUME NEW p \in Sources, NEW q, Preserves(p, q), NEW s \in Seq(AnyBlock), Chained(s, p)
  PROVE  /\ Chained(s, q)
         /\ \A e \in AnyExpectation, c \in AnyChunk : Follows(e, c, s, p) => Follows(e, c, s, q)
<1>1. q \in Sources /\ p.now \in Nat /\ q.now \in Nat /\ p.now <= q.now
  BY DEF Preserves, Sources
<1>2. \A i \in 1..Len(s) : s[i] \in AnyBlock /\ s[i].chunk \in AnyChunk /\ s[i].chunk.at \in Nat
  <2>1. \A i \in 1..Len(s) : s[i] \in AnyBlock
    OBVIOUS
  <2> QED
    BY <2>1 DEF AnyBlock, AnyChunk
<1>3. \A i \in 1..Len(s) : s[i].chunk.at <= q.now
  BY <1>1, <1>2 DEF Chained
<1>4. s # <<>> => StillToCome(Expected(s[Len(s)]), s[Len(s)].chunk, q)
  <2> SUFFICES ASSUME s # <<>> PROVE StillToCome(Expected(s[Len(s)]), s[Len(s)].chunk, q)
    OBVIOUS
  <2>1. Len(s) \in 1..Len(s)
    OBVIOUS
  <2>2. Expected(s[Len(s)]) \in AnyExpectation /\ s[Len(s)].chunk \in AnyChunk
    BY <1>2, <2>1, ExpectedType
  <2> QED
    BY <2>2 DEF Chained, Preserves
<1>5. q.on /\ q.time = 0 => s = <<>>
  BY DEF Chained, Preserves
<1>6. ASSUME NEW e \in AnyExpectation, NEW c \in AnyChunk, Follows(e, c, s, p) PROVE Follows(e, c, s, q)
  <2>1. c.at \in Nat
    BY DEF AnyChunk
  <2> QED
    BY <1>1, <1>6, <2>1 DEF Follows, Past, Preserves
<1> QED
  BY <1>3, <1>4, <1>5, <1>6 DEF Chained

(* A start empties the pipe. *)
LEMMA StartChains ==
  ASSUME NEW p \in Sources, NEW q \in Sources, q.queue = <<>>, q.now = p.now, q.on => q.time = 0,
         NEW s
  PROVE  /\ InSequence(q) /\ Chained(<<>>, q)
         /\ \A e \in AnyExpectation, c \in AnyChunk : Follows(e, c, s, p) => Follows(e, c, <<>>, q)
<1>1. Len(q.queue) = 0 /\ Len(<<>>) = 0
  OBVIOUS
<1>2. InSequence(q) /\ Chained(<<>>, q)
  BY <1>1 DEF InSequence, Chained
<1>3. ASSUME NEW e \in AnyExpectation, NEW c \in AnyChunk, Follows(e, c, s, p) PROVE Follows(e, c, <<>>, q)
  <2>1. Past(e, c, q) /\ e.time # 0
    BY <1>3 DEF Follows, Past
  <2>2. StillToCome(e, c, q)
    BY <1>1, <2>1 DEF StillToCome
  <2> QED
    BY <2>1, <2>2 DEF Follows
<1> QED
  BY <1>2, <1>3

(* A block joins the pipe, or finds it full. *)
LEMMA SentChains ==
  ASSUME NEW p \in Sources, InSequence(p), p.on, p.queue # <<>>, p.queue[1] # Overflow,
         NEW z \in AnyBlock, NEW stamped \in BOOLEAN,
         z.chunk.at = p.queue[1].at, z.seq = p.seq,
         z.time = (IF stamped THEN p.queue[1].at ELSE p.time), z.time <= z.chunk.at,
         z.chunk.unmarked = (p.silent /\ ~stamped),
         NEW q \in Sources, q.queue = Tail(p.queue), q.on = p.on, q.now = p.now,
         q.seq = p.seq + 1, q.time = z.time + 1,
         NEW s \in Seq(AnyBlock), Chained(s, p), NEW t,
         t = (IF Len(s) < PipeDepth THEN Append(s, z) ELSE s)
  PROVE  /\ InSequence(q) /\ Chained(t, q)
         /\ \A e \in AnyExpectation, c \in AnyChunk : Follows(e, c, s, p) => Follows(e, c, t, q)
<1>1. /\ InSequence(q) /\ z.chunk.at <= p.now
      /\ StillToCome(Expected(z), z.chunk, q)
      /\ \A e \in AnyExpectation, c \in AnyChunk : StillToCome(e, c, p) /\ p.time # 0 => StillToCome(e, c, q)
  BY SentIsAhead
<1>2. \A e \in AnyExpectation, c \in AnyChunk : StillToCome(e, c, p) => Linked(e, c, z)
  BY SentIsLinked
<1>3. q.time # 0 /\ Len(s) \in Nat
  BY DEF AnyBlock
<1>4. \A i \in 1..Len(s) : s[i] \in AnyBlock /\ s[i].chunk \in AnyChunk /\ Expected(s[i]) \in AnyExpectation
  <2>1. \A i \in 1..Len(s) : s[i] \in AnyBlock
    OBVIOUS
  <2> QED
    BY <2>1, ExpectedType DEF AnyBlock
<1>5. CASE Len(s) < PipeDepth
  <2>1. /\ t = Append(s, z) /\ Len(t) = Len(s) + 1 /\ t # <<>> /\ t[Len(s) + 1] = z
        /\ \A i \in 1..Len(s) : t[i] = s[i]
    BY <1>5
  <2>2. \A i \in 1..Len(t) : i \in 1..Len(s) \/ i = Len(s) + 1
    BY <1>3, <2>1
  <2>3. \A i \in 1..Len(t) : t[i].time <= t[i].chunk.at /\ t[i].chunk.at <= q.now
    BY <1>1, <2>1, <2>2 DEF Chained
  <2>4. \A i \in 1..Len(t) : i + 1 \in 1..Len(t) => Linked(Expected(t[i]), t[i].chunk, t[i + 1])
    <3> SUFFICES ASSUME NEW i \in 1..Len(t), i + 1 \in 1..Len(t)
                 PROVE  Linked(Expected(t[i]), t[i].chunk, t[i + 1])
      OBVIOUS
    <3>1. i \in 1..Len(s) /\ t[i] = s[i]
      BY <1>3, <2>1
    <3>2. CASE i + 1 \in 1..Len(s)
      BY <2>1, <3>1, <3>2 DEF Chained
    <3>3. CASE i = Len(s)
      <4>1. s # <<>>
        BY <3>1, <3>3
      <4>2. StillToCome(Expected(s[i]), s[i].chunk, p)
        BY <3>3, <4>1 DEF Chained
      <4>3. t[i + 1] = z
        BY <2>1, <3>3
      <4> QED
        BY <1>2, <1>4, <3>1, <4>2, <4>3
    <3> QED
      BY <1>3, <3>1, <3>2, <3>3
  <2>5. StillToCome(Expected(t[Len(t)]), t[Len(t)].chunk, q)
    BY <1>1, <2>1
  <2>6. Chained(t, q)
    BY <1>3, <2>1, <2>3, <2>4, <2>5 DEF Chained
  <2>7. ASSUME NEW e \in AnyExpectation, NEW c \in AnyChunk, Follows(e, c, s, p) PROVE Follows(e, c, t, q)
    <3>1. Past(e, c, q)
      BY <2>7 DEF Follows, Past
    <3>2. CASE s = <<>>
      <4>1. t[1] = z /\ StillToCome(e, c, p)
        BY <2>1, <2>7, <3>2 DEF Follows
      <4> QED
        BY <1>2, <2>1, <3>1, <4>1 DEF Follows
    <3>3. CASE s # <<>>
      <4>1. t[1] = s[1]
        BY <1>3, <2>1, <3>3
      <4> QED
        BY <2>1, <2>7, <3>1, <3>3, <4>1 DEF Follows
    <3> QED
      BY <3>2, <3>3
  <2> QED
    BY <1>1, <2>6, <2>7
<1>6. CASE ~(Len(s) < PipeDepth)
  <2>1. t = s /\ s # <<>> /\ Len(s) \in 1..Len(s)
    BY <1>3, <1>6, SdrAssumption
  <2>2. p.time # 0
    BY <2>1 DEF Chained
  <2>3. StillToCome(Expected(s[Len(s)]), s[Len(s)].chunk, q)
    <3>1. StillToCome(Expected(s[Len(s)]), s[Len(s)].chunk, p)
      BY <2>1 DEF Chained
    <3> QED
      BY <1>1, <1>4, <2>1, <2>2, <3>1
  <2>4. Chained(t, q)
    BY <1>3, <2>1, <2>3 DEF Chained
  <2>5. \A e \in AnyExpectation, c \in AnyChunk : Follows(e, c, s, p) => Follows(e, c, t, q)
    BY <2>1 DEF Follows, Past
  <2> QED
    BY <1>1, <2>4, <2>5
<1> QED
  BY <1>5, <1>6

(* A block is taken from the pipe. *)
LEMMA TakenChains ==
  ASSUME NEW p, NEW s \in Seq(AnyBlock), s # <<>>, Chained(s, p), NEW t, t = Tail(s)
  PROVE  /\ Chained(t, p) /\ s[1] \in AnyBlock
         /\ Follows(Expected(s[1]), s[1].chunk, t, p)
<1>1. /\ t \in Seq(AnyBlock) /\ Len(t) = Len(s) - 1 /\ Len(s) \in Nat \ {0}
      /\ \A i \in 1..Len(t) : t[i] = s[i + 1] /\ i + 1 \in 1..Len(s)
      /\ 1 \in 1..Len(s) /\ s[1] \in AnyBlock
  BY HeadTailProperties
<1>2. /\ \A i \in 1..Len(t) : t[i].time <= t[i].chunk.at /\ t[i].chunk.at <= p.now
      /\ \A i \in 1..Len(t) : i + 1 \in 1..Len(t) => Linked(Expected(t[i]), t[i].chunk, t[i + 1])
  BY <1>1 DEF Chained
<1>3. t # <<>> => t[Len(t)] = s[Len(s)]
  BY <1>1
<1>4. Chained(t, p)
  BY <1>2, <1>3 DEF Chained
<1>5. Past(Expected(s[1]), s[1].chunk, p)
  <2>1. s[1].time <= s[1].chunk.at /\ s[1].chunk.at <= p.now
    BY <1>1 DEF Chained
  <2>2. s[1].time \in Nat /\ s[1].chunk.at \in Nat
    BY <1>1 DEF AnyBlock, AnyChunk
  <2> QED
    BY <1>1, <2>1, <2>2, ExpectedType DEF Past
<1>6. t = <<>> => StillToCome(Expected(s[1]), s[1].chunk, p)
  <2>1. t = <<>> => Len(t) = 0
    OBVIOUS
  <2>2. t = <<>> => Len(s) = 1
    BY <1>1, <2>1
  <2> QED
    BY <2>2 DEF Chained
<1>7. t # <<>> => Linked(Expected(s[1]), s[1].chunk, t[1])
  <2> SUFFICES ASSUME t # <<>> PROVE Linked(Expected(s[1]), s[1].chunk, t[1])
    OBVIOUS
  <2>1. 1 \in 1..Len(t) /\ t[1] = s[2] /\ 1 + 1 = 2 /\ 2 \in 1..Len(s)
    BY <1>1
  <2> QED
    BY <1>1, <2>1 DEF Chained
<1> QED
  BY <1>1, <1>4, <1>5, <1>6, <1>7 DEF Follows

-----------------------------------------------------------------------------
(* What the validator expects describes the last block it saw.  That block *)
(* is the last one in the filter, and in the batch, unless it was out of   *)
(* reach; then no block with its label is in reach.                        *)
Labelled(c, f) == c.astray \/ c.freq = f
Expecting(d) ==
  /\ d \in AnyDsp
  /\ d.stream = NoFreq => d.filterRun = 0 /\ d.batchRun = 0
  /\ d.stream # NoFreq =>
       /\ d.expected # NoPrevious
       /\ InReach(d.applied, d.stream)
       /\ d.expected.label # d.stream => ~InReach(d.applied, d.expected.label)
       /\ 0 < d.filterRun => Labelled(d.filtered, d.stream)
       /\ 0 < d.batchRun => Labelled(d.batched, d.stream)

(* The chunks that the next block may be joined to. *)
Held(d) ==
  {c \in AnyChunk :
     /\ d.stream # NoFreq /\ d.expected.label = d.stream
     /\ \/ 0 < d.filterRun /\ c = d.filtered
        \/ 0 < d.batchRun /\ c = d.batched}

ExpectedInv == Expecting(dsp)

(* The clock does not run ahead of the air, and a full queue ends in the   *)
(* report of a hole.                                                       *)
DriverInv ==
  /\ clock <= now + 1
  /\ \A i \in 1..Len(device) : device[i] # Overflow => clock <= device[i].at
  /\ Len(device) > QueueDepth => device[Len(device)] = Overflow

ChainInv ==
  /\ InSequence(Source) /\ DriverInv
  /\ Chained(pipe, Source)
  /\ \A c \in Held(dsp) : Follows(dsp.expected, c, pipe, Source)

LEMMA InitExpected == SdrInit => ExpectedInv /\ ChainInv
<1> SUFFICES ASSUME SdrInit PROVE ExpectedInv /\ ChainInv
  OBVIOUS
<1>1. ExpectedInv /\ Held(dsp) = {}
  BY DEF SdrInit, ExpectedInv, Expecting, AnyDsp, AnyExpectation, AnyChunk, NoChunk, NoPrevious, Held
<1>2. Source.queue = <<>> /\ Source.on = FALSE /\ pipe = <<>> /\ clock = 0 /\ now = 0 /\ Len(<<>>) = 0
  BY DEF SdrInit, Source
<1> QED
  <2>1. device = <<>> /\ ~(Len(device) > QueueDepth)
    BY <1>2, SdrAssumption DEF SdrInit
  <2> QED
    BY <1>1, <1>2, <2>1 DEF ChainInv, DriverInv, InSequence, Chained

(* A reset decoder expects anything. *)
LEMMA ResetType ==
  ASSUME NEW d \in AnyDsp, NEW r, r = BatchEmptied(DecimatorReset(d))
  PROVE  /\ r \in AnyDsp
         /\ r.stream = NoFreq /\ r.filterRun = 0 /\ r.batchRun = 0
<1>1. NoChunk \in AnyChunk /\ NoPrevious \in AnyExpectation
  BY DEF NoChunk, NoPrevious, AnyChunk, AnyExpectation
<1>2. DecimatorReset(d) \in AnyDsp
  BY <1>1 DEF DecimatorReset, AnyDsp
<1> QED
  BY <1>1, <1>2 DEF BatchEmptied, DecimatorReset, AnyDsp

LEMMA WindowExpected ==
  ASSUME NEW d \in AnyDsp, Expecting(d)
  PROVE  /\ Expecting(WindowApplied(d))
         /\ WindowApplied(d).filterRun \in {0, d.filterRun}
         /\ WindowApplied(d).batchRun \in {0, d.batchRun}
         /\ 0 < WindowApplied(d).filterRun => WindowApplied(d).filtered = d.filtered
         /\ 0 < WindowApplied(d).batchRun => WindowApplied(d).batched = d.batched
         /\ WindowApplied(d) = d \/ Held(WindowApplied(d)) = {}
<1>1. CASE d.applied = d.wanted
  BY <1>1 DEF WindowApplied
<1>2. CASE d.applied # d.wanted
  <2> DEFINE r == BatchEmptied(DecimatorReset(d))
             w == [r EXCEPT !.applied = d.wanted]
  <2>1. r \in AnyDsp /\ r.stream = NoFreq /\ r.filterRun = 0 /\ r.batchRun = 0
    BY ResetType
  <2>2. d.wanted \in Freqs
    BY DEF AnyDsp
  <2> HIDE DEF r
  <2>3. w \in AnyDsp /\ w.stream = NoFreq /\ w.filterRun = 0 /\ w.batchRun = 0
    BY <2>1, <2>2 DEF AnyDsp
  <2>4. WindowApplied(d) = w
    BY <1>2 DEF WindowApplied, r
  <2> HIDE DEF w
  <2> QED
    BY <2>3, <2>4 DEF Expecting, Held
<1> QED
  BY <1>1, <1>2

LEMMA SessionExpected ==
  ASSUME NEW d \in AnyDsp, NEW starts \in BOOLEAN
  PROVE  Expecting(SessionReset(d, starts)) /\ SessionReset(d, starts).filterRun = 0
         /\ SessionReset(d, starts).batchRun = 0 /\ Held(SessionReset(d, starts)) = {}
<1> DEFINE r == BatchEmptied(DecimatorReset(d))
           s == [r EXCEPT !.running = starts, !.iq = FALSE, !.applied = NoFreq]
<1>1. r \in AnyDsp /\ r.stream = NoFreq /\ r.filterRun = 0 /\ r.batchRun = 0
  BY ResetType
<1> HIDE DEF r
<1>2. s \in AnyDsp
  BY <1>1 DEF AnyDsp
<1>3. s.stream = NoFreq /\ s.filterRun = 0 /\ s.batchRun = 0
  BY <1>1 DEF AnyDsp
<1>4. SessionReset(d, starts) = s
  BY DEF SessionReset, r
<1> HIDE DEF s
<1> QED
  BY <1>2, <1>3, <1>4 DEF Expecting, Held

(* What a block does to the filter and to the batch: both go on only with  *)
(* the block that follows what they hold.                                  *)
LEMMA ProcessExpected ==
  ASSUME NEW d \in AnyDsp, Expecting(d),
         NEW b \in AnyBlock, Labelled(b.chunk, b.label),
         \A c \in Held(d) : Linked(d.expected, c, b),
         NEW e \in Process(d, b)
  PROVE  /\ Expecting(e)
         /\ e.expected = Expected(b) /\ Held(e) \subseteq {b.chunk}
         /\ e.filterRun \in 0..(d.filterRun + 1) /\ e.batchRun \in 0..(d.batchRun + 1)
         /\ 0 < d.filterRun /\ d.filterRun < e.filterRun => Continues(e.filtered, d.filtered)
         /\ 0 < d.batchRun /\ d.batchRun < e.batchRun => Continues(e.batched, d.batched)
<1> DEFINE v == Validated(d, b)
<1>1. /\ b.chunk \in AnyChunk /\ b.label \in Freqs /\ b.seq \in Nat /\ b.time \in Nat
      /\ b.label # NoFreq
  BY SdrAssumption DEF AnyBlock
<1> DEFINE next == Expected(b)
<1>2. next \in AnyExpectation /\ next # NoPrevious /\ next.label = b.label
  BY <1>1, ExpectedType DEF NoPrevious
<1>3. /\ v \in AnyDsp /\ v.expected = next
      /\ v.stream = d.stream /\ v.applied = d.applied
      /\ v.filterRun = d.filterRun /\ v.batchRun = d.batchRun
      /\ v.filtered = d.filtered /\ v.batched = d.batched
  BY <1>2 DEF Validated, AnyDsp, Expected
<1>4. d.filterRun \in Nat /\ d.batchRun \in Nat /\ d.filtered \in AnyChunk /\ d.batched \in AnyChunk
  BY DEF AnyDsp
<1> HIDE DEF next, v
<1>5. CASE ~InReach(d.applied, b.label)
  <2>1. e = v
    BY <1>5 DEF Process, v
  <2>2. d.stream # NoFreq => d.stream # b.label
    BY <1>5 DEF Expecting
  <2>3. Expecting(e) /\ Held(e) = {}
    BY <1>2, <1>3, <1>5, <2>1, <2>2 DEF Expecting, Held
  <2>4. e.filterRun \in 0..(d.filterRun + 1) /\ e.batchRun \in 0..(d.batchRun + 1)
    BY <1>3, <1>4, <2>1
  <2> QED
    BY <1>3, <1>4, <2>1, <2>3, <2>4 DEF next
<1>6. CASE InReach(d.applied, b.label)
  <2> DEFINE hole == Discontinuous(d.expected, b)
             fresh == hole \/ d.stream # b.label
             run == IF hole THEN 0 ELSE d.batchRun
             filterRun == IF fresh THEN 1 ELSE d.filterRun + 1
  <2>1. NoChunk \in AnyChunk
    BY DEF AnyChunk, NoChunk
  <2>2. run \in Nat /\ filterRun \in Nat /\ filterRun > 0
    BY <1>4
  <2>3. PICK n \in {0, 1, run + 1} :
          e = [v EXCEPT !.stream = b.label, !.filtered = b.chunk,
                        !.filterRun = IF fresh THEN 1 ELSE @ + 1,
                        !.batched = IF n = 0 THEN NoChunk ELSE b.chunk,
                        !.batchRun = n]
    BY <1>6 DEF Process, Decimated, v
  <2>4. n \in Nat /\ (IF n = 0 THEN NoChunk ELSE b.chunk) \in AnyChunk
    BY <1>1, <2>1, <2>2
  <2> HIDE DEF fresh, hole, run
  <2>5. /\ e \in AnyDsp /\ e.expected = next /\ e.stream = b.label /\ e.applied = d.applied
        /\ e.filtered = b.chunk /\ e.filterRun = filterRun
        /\ e.batched = (IF n = 0 THEN NoChunk ELSE b.chunk) /\ e.batchRun = n
    BY <1>1, <1>3, <1>4, <2>1, <2>2, <2>3, <2>4 DEF AnyDsp
  <2>6. Expecting(e)
    BY <1>1, <1>2, <1>6, <2>2, <2>4, <2>5 DEF Expecting
  <2>7. Held(e) \subseteq {b.chunk}
    BY <2>4, <2>5 DEF Held
  <2>8. ASSUME ~hole, 0 < d.filterRun \/ 0 < d.batchRun
        PROVE  /\ d.stream = b.label
               /\ 0 < d.filterRun => Continues(b.chunk, d.filtered)
               /\ 0 < d.batchRun => Continues(b.chunk, d.batched)
    <3>1. d.stream # NoFreq
      BY <1>4, <2>8 DEF Expecting
    <3>2. d.expected # NoPrevious
      BY <3>1 DEF Expecting
    <3>3. b.label = d.expected.label /\ b.time = d.expected.time /\ b.seq = d.expected.seq
      BY <2>8, <3>2 DEF Discontinuous, hole
    <3>4. d.stream = b.label
      BY <1>6, <3>1, <3>3 DEF Expecting
    <3>5. ASSUME NEW c \in Held(d), Labelled(c, d.stream) PROVE Continues(b.chunk, c)
      BY <3>3, <3>4, <3>5 DEF Linked, Labelled, Continues
    <3>6. 0 < d.filterRun => d.filtered \in Held(d) /\ Labelled(d.filtered, d.stream)
      BY <1>4, <3>1, <3>3, <3>4 DEF Held, Expecting
    <3>7. 0 < d.batchRun => d.batched \in Held(d) /\ Labelled(d.batched, d.stream)
      BY <1>4, <3>1, <3>3, <3>4 DEF Held, Expecting
    <3> QED
      BY <3>4, <3>5, <3>6, <3>7
  <2>9. 0 < d.filterRun /\ d.filterRun < e.filterRun => Continues(e.filtered, d.filtered)
    BY <1>4, <2>5, <2>8 DEF fresh
  <2>10. 0 < d.batchRun /\ d.batchRun < e.batchRun => Continues(e.batched, d.batched)
    <3> SUFFICES ASSUME 0 < d.batchRun, d.batchRun < n PROVE Continues(e.batched, d.batched)
      BY <2>5
    <3>1. ~hole
      BY <1>4, <2>3 DEF run
    <3>2. e.batched = b.chunk
      BY <1>4, <2>4, <2>5
    <3> QED
      BY <2>8, <3>1, <3>2
  <2>11. e.filterRun \in 0..(d.filterRun + 1) /\ e.batchRun \in 0..(d.batchRun + 1)
    BY <1>4, <2>2, <2>3, <2>5 DEF run
  <2> QED
    BY <2>5, <2>6, <2>7, <2>9, <2>10, <2>11 DEF next
<1> QED
  BY <1>5, <1>6

(* A step of the program keeps to both. *)
LEMMA HeldType ==
  ASSUME NEW d \in AnyDsp
  PROVE  d.expected \in AnyExpectation /\ Held(d) \subseteq AnyChunk
BY DEF AnyDsp, Held

LEMMA DriverKept ==
  ASSUME LabelInv, ChainInv, Receive \/ SdrCapturing
  PROVE  DriverInv'
<1>1. /\ device \in Seq(AnyChunk) /\ Len(device) \in Nat /\ Len(device) <= QueueDepth + 1
      /\ now \in Nat /\ clock \in Nat /\ QueueDepth \in Nat
  BY SdrAssumption DEF LabelInv, CaptureType
<1>2. /\ clock <= now + 1
      /\ \A i \in 1..Len(device) : device[i] # Overflow => clock <= device[i].at
      /\ Len(device) > QueueDepth => device[Len(device)] = Overflow
  BY DEF ChainInv, DriverInv
<1>3. Overflow \in AnyChunk
  BY DEF Overflow, NoChunk, AnyChunk
<1>4. CASE device' = <<>> /\ now' = now /\ clock' \in {0, clock}
  <2>1. Len(device') = 0
    BY <1>4
  <2> QED
    BY <1>1, <1>2, <1>4, <2>1 DEF DriverInv
<1>5. CASE UNCHANGED <<now, device, clock>>
  BY <1>2, <1>5 DEF DriverInv
<1>6. CASE Receive
  <2> DEFINE chunk == [at |-> now + 1, freq |-> hardware, astray |-> astray, unmarked |-> FALSE]
  <2>1. chunk \in AnyChunk /\ chunk.at = now + 1
    BY <1>1 DEF LabelInv, CaptureType, AnyChunk
  <2>2. /\ now' = now + 1 /\ clock' = clock
        /\ \/ Len(device) < QueueDepth /\ device' = Append(device, chunk)
           \/ device' = Append(device, Overflow)
           \/ Len(device) > QueueDepth /\ device' = device
    BY <1>6 DEF Receive
  <2> HIDE DEF chunk
  <2>3. \A i \in 1..Len(device') : device'[i] # Overflow => clock' <= device'[i].at
    <3>1. CASE device' = device
      BY <1>2, <2>2, <3>1
    <3>2. ASSUME NEW x \in {chunk, Overflow}, device' = Append(device, x)
          PROVE  \A i \in 1..Len(device') : device'[i] # Overflow => clock' <= device'[i].at
      <4>1. /\ Len(device') = Len(device) + 1 /\ device'[Len(device) + 1] = x
            /\ \A i \in 1..Len(device) : device'[i] = device[i]
        BY <1>1, <1>3, <2>1, <3>2
      <4>2. \A i \in 1..Len(device') : i \in 1..Len(device) \/ i = Len(device) + 1
        BY <1>1, <4>1
      <4>3. x # Overflow => clock' <= x.at
        BY <1>1, <1>2, <2>1, <2>2, <3>2
      <4> QED
        BY <1>2, <2>2, <4>1, <4>2, <4>3
    <3> QED
      BY <2>2, <3>1, <3>2
  <2>4. Len(device') > QueueDepth => device'[Len(device')] = Overflow
    BY <1>1, <1>2, <1>3, <2>1, <2>2
  <2> QED
    BY <1>1, <1>2, <2>2, <2>3, <2>4 DEF DriverInv
<1>7. CASE ReadOverflow \/ Pump
  <2>1. device # <<>> /\ device' = Tail(device) /\ now' = now
    BY <1>7 DEF ReadOverflow, Pump
  <2>2. /\ Len(device') = Len(device) - 1
        /\ \A i \in 1..Len(device') : device'[i] = device[i + 1] /\ i + 1 \in 1..Len(device)
        /\ Head(device) = device[1] /\ device[1] \in AnyChunk /\ 1 \in 1..Len(device)
    BY <2>1, DeviceTail
  <2>3. ~(Len(device') > QueueDepth)
    BY <1>1, <2>2
  <2>4. CASE ReadOverflow
    <3>1. clock' = clock
      BY <2>4 DEF ReadOverflow
    <3> QED
      BY <1>2, <2>1, <2>2, <2>3, <3>1 DEF DriverInv
  <2>5. CASE Pump
    <3>1. device[1] # Overflow /\ device[1].at \in Nat
      BY <2>2, <2>5 DEF Pump, AnyChunk
    <3>2. PICK stamped \in BOOLEAN : clock' = Stamp(device[1], stamped) + 1
      BY <2>2, <2>5, PumpedIs
    <3>3. clock' <= device[1].at + 1
      BY <1>1, <1>2, <2>2, <3>1, <3>2 DEF Stamp
    <3>4. device[1].at <= now /\ \A i \in 1..Len(device) : 1 < i /\ device[i] # Overflow => device[1].at < device[i].at
      BY <2>2, <3>1, SourceType DEF ChainInv, InSequence
    <3>5. clock' \in Nat /\ \A i \in 1..Len(device) : device[i].at \in Nat
      <4>1. \A i \in 1..Len(device) : device[i] \in AnyChunk
        BY <1>1
      <4>2. Stamp(device[1], stamped) \in {device[1].at, clock}
        BY DEF Stamp
      <4>3. clock' \in Nat
        BY <1>1, <3>1, <3>2, <4>2
      <4> QED
        BY <4>1, <4>3 DEF AnyChunk
    <3>6. \A i \in 1..Len(device') : device'[i] # Overflow => clock' <= device'[i].at
      <4> SUFFICES ASSUME NEW i \in 1..Len(device'), device'[i] # Overflow PROVE clock' <= device'[i].at
        OBVIOUS
      <4>1. device'[i] = device[i + 1] /\ i + 1 \in 1..Len(device) /\ 1 < i + 1
        BY <1>1, <2>2
      <4>2. device[1].at < device[i + 1].at
        BY <3>4, <4>1
      <4> QED
        BY <3>1, <3>3, <3>5, <4>1, <4>2
    <3> QED
      BY <1>1, <2>1, <2>3, <3>1, <3>3, <3>4, <3>5, <3>6 DEF DriverInv
  <2> QED
    BY <1>7, <2>4, <2>5
<1>8. CASE Retune
  BY <1>4, <1>8, RetuneDrains DEF Retune
<1>9. CASE StopCapture \/ ReadFails \/ RetuneRefused \/ (\E f \in Tunable : RequestRetune(f))
  BY <1>4, <1>5, <1>9 DEF StopCapture, ReadFails, RetuneRefused, RequestRetune
<1>10. ASSUME NEW f \in Freqs, StartCapture(f) PROVE DriverInv'
  BY <1>4, <1>10 DEF StartCapture
<1> QED
  BY <1>6, <1>7, <1>8, <1>9, <1>10, SdrAssumption DEF SdrCapturing

LEMMA CaptureChains ==
  ASSUME LabelInv, ExpectedInv, ChainInv, Receive \/ SdrCapturing
  PROVE  ChainInv' /\ dsp' = dsp
<1> DEFINE p == Source
<1>1. LabelInv'
  <2>1. [SdrNext]_sdrVars
    BY DEF SdrNext
  <2> QED
    BY <2>1, StepLabels
<1>2. PICK q : q = Source'
  OBVIOUS
<1>3. /\ p \in Sources /\ p.now = now /\ p.queue = device /\ p.on = running /\ p.seq = sequence
      /\ p.time = clock /\ p.silent = silent
  BY SourceType
<1>4. /\ q \in Sources /\ q.now = now' /\ q.queue = device' /\ q.on = running' /\ q.seq = sequence'
      /\ q.time = clock' /\ q.silent = silent'
  <2>1. /\ Source' \in Sources
        /\ Source'.now = now' /\ Source'.queue = device' /\ Source'.on = running'
        /\ Source'.seq = sequence' /\ Source'.time = clock' /\ Source'.silent = silent'
    BY <1>1 DEF LabelInv, CaptureType, Source, Sources
  <2> QED
    BY <1>2, <2>1
<1>5. InSequence(p) /\ Chained(pipe, p) /\ pipe \in Seq(AnyBlock)
      /\ \A c \in Held(dsp) : Follows(dsp.expected, c, pipe, p)
  BY DEF ChainInv, LabelInv, CaptureType
<1>6. dsp' = dsp /\ dsp.expected \in AnyExpectation /\ Held(dsp) \subseteq AnyChunk
  <2>1. dsp' = dsp
    BY DEF SdrCapturing, Receive, StartCapture, StopCapture, RequestRetune, Retune, RetuneRefused,
           ReadOverflow, Pump, ReadFails
  <2> QED
    BY <2>1, HeldType DEF ExpectedInv, Expecting
<1> HIDE DEF p
<1>7. SUFFICES /\ InSequence(q) /\ Chained(pipe', q)
               /\ \A e \in AnyExpectation, c \in AnyChunk : Follows(e, c, pipe, p) => Follows(e, c, pipe', q)
  <2> SUFFICES ASSUME InSequence(q), Chained(pipe', q),
                 \A e \in AnyExpectation, c \in AnyChunk : Follows(e, c, pipe, p) => Follows(e, c, pipe', q)
               PROVE  ChainInv'
    BY <1>6
  <2>1. \A c \in Held(dsp) : Follows(dsp.expected, c, pipe', q)
    BY <1>5, <1>6
  <2>2. InSequence(Source') /\ Chained(pipe', Source')
        /\ \A c \in Held(dsp') : Follows(dsp'.expected, c, pipe', Source')
    BY <1>2, <1>6, <2>1
  <2> QED
    BY <2>2, DriverKept DEF ChainInv
<1>8. now \in Nat /\ clock \in Nat /\ sequence \in Nat /\ device \in Seq(AnyChunk) /\ QueueDepth \in Nat
  BY SdrAssumption DEF LabelInv, CaptureType
<1>9. ASSUME Preserves(p, q), pipe' = pipe
      PROVE  /\ InSequence(q) /\ Chained(pipe', q)
             /\ \A e \in AnyExpectation, c \in AnyChunk : Follows(e, c, pipe, p) => Follows(e, c, pipe', q)
  <2>1. /\ Chained(pipe, q)
        /\ \A e \in AnyExpectation, c \in AnyChunk : Follows(e, c, pipe, p) => Follows(e, c, pipe, q)
    BY <1>3, <1>5, <1>9, CarriesOn
  <2> QED
    BY <1>9, <2>1 DEF Preserves
<1>10. CASE Receive
  <2> DEFINE chunk == [at |-> now + 1, freq |-> hardware, astray |-> astray, unmarked |-> FALSE]
  <2>1. chunk \in AnyChunk /\ chunk.at = now + 1
    BY <1>8 DEF LabelInv, CaptureType, AnyChunk
  <2>2. /\ now' = now + 1 /\ running /\ UNCHANGED <<running, sequence, clock, silent, pipe>>
        /\ \/ Len(device) < QueueDepth /\ device' = Append(device, chunk)
           \/ device' = Append(device, Overflow)
           \/ Len(device) > QueueDepth /\ device' = device
    BY <1>10 DEF Receive
  <2> HIDE DEF chunk
  <2>3. Len(device) > QueueDepth => device # <<>> /\ device[Len(device)] = Overflow
    BY <1>8 DEF ChainInv, DriverInv
  <2>4. Preserves(p, q)
    BY <1>3, <1>4, <1>5, <2>1, <2>2, <2>3, ReceiveCarries
  <2> QED
    BY <1>9, <2>2, <2>4
<1>11. ASSUME NEW f, StartCapture(f)
       PROVE  /\ InSequence(q) /\ Chained(pipe', q) /\ device' = <<>>
              /\ \A e \in AnyExpectation, c \in AnyChunk : Follows(e, c, pipe, p) => Follows(e, c, pipe', q)
  <2>1. pipe' = <<>> /\ device' = <<>> /\ now' = now /\ (running' => clock' = 0) /\ clock' \in {0, clock}
    BY <1>11 DEF StartCapture
  <2>2. /\ InSequence(q) /\ Chained(<<>>, q)
        /\ \A e \in AnyExpectation, c \in AnyChunk : Follows(e, c, pipe, p) => Follows(e, c, <<>>, q)
    BY <1>3, <1>4, <2>1, StartChains
  <2> QED
    BY <2>1, <2>2
<1>12. CASE StopCapture \/ ReadFails
  <2>1. /\ device' = <<>> /\ running' = FALSE /\ UNCHANGED <<now, clock, pipe>>
    BY <1>12 DEF StopCapture, ReadFails
  <2>2. Preserves(p, q)
    BY <1>3, <1>4, <2>1, EmptiedCarries
  <2> QED
    BY <1>9, <2>1, <2>2
<1>13. CASE RetuneRefused \/ \E f \in Tunable : RequestRetune(f)
  <2>1. UNCHANGED <<now, device, running, sequence, clock, silent, pipe>>
    BY <1>13 DEF RetuneRefused, RequestRetune
  <2>2. q = p
    BY <1>2, <2>1 DEF Source, p
  <2>3. Preserves(p, q)
    BY <1>3, <1>5, <2>2 DEF Preserves, Sources
  <2> QED
    BY <1>9, <2>1, <2>3
<1>14. CASE Retune
  <2>1. /\ device' = <<>> /\ UNCHANGED <<now, running, clock, pipe>> /\ running
        /\ sequence' = (IF Samples(device) = <<>> THEN sequence ELSE sequence + 1)
        /\ silent' = (Samples(device) = <<>> /\ (device # <<>> \/ silent))
    BY <1>14, RetuneDrains DEF Retune
  <2>2. CASE Samples(device) = <<>>
    <3>1. silent' <=> (device # <<>> \/ silent)
      BY <2>1, <2>2
    <3>2. Preserves(p, q)
      BY <1>3, <1>4, <2>1, <2>2, <3>1, EmptiedCarries
    <3> QED
      BY <1>9, <2>1, <3>2
  <2>3. CASE Samples(device) # <<>>
    <3>1. q.queue = <<>> /\ Len(q.queue) = 0
      BY <1>4, <2>1
    <3>2. InSequence(q)
      BY <3>1 DEF InSequence
    <3>3. sequence' = sequence + 1
      BY <2>1, <2>3
    <3>4. q.now = p.now /\ q.on = p.on /\ q.seq = p.seq + 1 /\ q.time = p.time
      BY <1>3, <1>4, <2>1, <3>3
    <3>5. \A i \in 1..Len(q.queue) : \E j \in 1..Len(p.queue) : q.queue[i] = p.queue[j]
      BY <3>1
    <3>6. Preserves(p, q)
      BY <1>3, <1>4, <3>2, <3>4, <3>5, MovesOnCarries
    <3> QED
      BY <1>9, <2>1, <3>6
  <2> QED
    BY <2>2, <2>3
<1>15. CASE ReadOverflow
  <2>1. /\ device # <<>> /\ device' = Tail(device) /\ sequence' = sequence + 1
        /\ UNCHANGED <<now, running, clock, pipe>>
    BY <1>15 DEF ReadOverflow
  <2>2. Len(Tail(device)) = Len(device) - 1
        /\ \A i \in 1..Len(Tail(device)) : Tail(device)[i] = device[i + 1] /\ i + 1 \in 1..Len(device)
    BY <2>1, DeviceTail
  <2>3. InSequence(q)
    BY <1>3, <1>4, <1>5, <2>1, TailInSequence
  <2>4. Preserves(p, q)
    BY <1>3, <1>4, <2>1, <2>2, <2>3, MovesOnCarries
  <2> QED
    BY <1>9, <2>1, <2>4
<1>16. CASE Pump
  <2>1. /\ running /\ device # <<>> /\ Head(device) # Overflow /\ Head(device) = device[1]
        /\ device' = Tail(device) /\ sequence' = sequence + 1
        /\ UNCHANGED <<now, running>>
        /\ device[1] \in AnyChunk /\ Len(Tail(device)) = Len(device) - 1
    BY <1>16, DeviceTail DEF Pump
  <2>2. PICK stamped \in BOOLEAN :
          LET z == Pumped(Head(device), stamped) IN
            /\ z \in AnyBlock /\ z.chunk.at = Head(device).at /\ z.seq = sequence
            /\ z.time = Stamp(Head(device), stamped)
            /\ z.chunk.unmarked = (silent /\ ~stamped)
            /\ pipe' = (IF Len(pipe) < PipeDepth THEN Append(pipe, z) ELSE pipe)
            /\ clock' = z.time + 1
    BY <1>16, PumpedIs
  <2>3. PICK z \in AnyBlock :
          /\ z.chunk.at = device[1].at /\ z.seq = sequence
          /\ z.time = (IF stamped THEN device[1].at ELSE clock)
          /\ z.chunk.unmarked = (silent /\ ~stamped)
          /\ pipe' = (IF Len(pipe) < PipeDepth THEN Append(pipe, z) ELSE pipe)
          /\ clock' = z.time + 1
    BY <2>1, <2>2 DEF Stamp
  <2>4. device[1].at \in Nat /\ device[1].at <= now /\ z.time \in Nat
    BY <1>3, <1>5, <1>8, <2>1 DEF InSequence, AnyChunk, AnyBlock
  <2>5. clock <= device[1].at /\ z.time <= z.chunk.at
    <3>1. clock <= device[1].at
      BY <2>1, <2>4 DEF ChainInv, DriverInv
    <3> QED
      BY <2>3, <2>4, <3>1
  <2>6. /\ InSequence(q) /\ Chained(pipe', q)
        /\ \A e \in AnyExpectation, c \in AnyChunk : Follows(e, c, pipe, p) => Follows(e, c, pipe', q)
    <3>1. /\ p.on /\ p.queue # <<>> /\ p.queue[1] # Overflow
          /\ q.queue = Tail(p.queue) /\ q.on = p.on /\ q.now = p.now /\ q.seq = p.seq + 1
      BY <1>3, <1>4, <2>1
    <3>2. /\ z.chunk.at = p.queue[1].at /\ z.seq = p.seq
          /\ z.time = (IF stamped THEN p.queue[1].at ELSE p.time)
          /\ z.chunk.unmarked = (p.silent /\ ~stamped)
      BY <1>3, <2>3
    <3>3. q.time = z.time + 1
      BY <1>4, <2>3
    <3>4. pipe' = (IF Len(pipe) < PipeDepth THEN Append(pipe, z) ELSE pipe)
      BY <2>3
    <3> QED
      BY <1>3, <1>4, <1>5, <2>5, <3>1, <3>2, <3>3, <3>4, SentChains
  <2> QED
    BY <2>6
<1> QED
  BY <1>10, <1>11, <1>12, <1>13, <1>14, <1>15, <1>16 DEF SdrCapturing

LEMMA DspChains ==
  ASSUME LabelInv, ExpectedInv, ChainInv, SdrDsp
  PROVE  ExpectedInv' /\ ChainInv' /\ FilterStep /\ BatchStep
<1>1. dsp \in AnyDsp /\ Expecting(dsp) /\ dsp.filterRun \in Nat /\ dsp.batchRun \in Nat
  BY DEF ExpectedInv, Expecting, AnyDsp
<1>2. Source' = Source /\ InSequence(Source) /\ DriverInv' /\ Source \in Sources
  <2>1. UNCHANGED <<now, device, running, sequence, clock, silent>>
    BY DEF SdrDsp, DspStart, DspStop, DrainBlock, SetDecoderWindow
  <2> QED
    BY <2>1, SourceType DEF Source, ChainInv, DriverInv
<1>3. /\ Chained(pipe, Source) /\ pipe \in Seq(AnyBlock)
      /\ \A c \in Held(dsp) : Follows(dsp.expected, c, pipe, Source)
  BY DEF ChainInv, LabelInv, CaptureType
<1>4. ASSUME NEW starts \in BOOLEAN, dsp' = SessionReset(dsp, starts), pipe' \in {pipe, <<>>}
      PROVE  ExpectedInv' /\ ChainInv' /\ FilterStep /\ BatchStep
  <2>1. Expecting(dsp') /\ dsp'.filterRun = 0 /\ dsp'.batchRun = 0 /\ Held(dsp') = {}
    BY <1>1, <1>4, SessionExpected
  <2>2. Chained(pipe', Source)
    BY <1>3, <1>4 DEF Chained
  <2> QED
    BY <1>1, <1>2, <2>1, <2>2 DEF ExpectedInv, ChainInv, FilterStep, BatchStep
<1>5. ASSUME NEW f \in Freqs, SetDecoderWindow(f)
      PROVE  ExpectedInv' /\ ChainInv' /\ FilterStep /\ BatchStep
  <2> DEFINE d == [dsp EXCEPT !.wanted = f]
  <2>1. /\ d \in AnyDsp /\ d.filterRun = dsp.filterRun /\ d.batchRun = dsp.batchRun
        /\ d.stream = dsp.stream /\ d.expected = dsp.expected /\ d.applied = dsp.applied
        /\ d.filtered = dsp.filtered /\ d.batched = dsp.batched
    BY <1>1 DEF AnyDsp
  <2>2. dsp' \in {d, WindowApplied(d)} /\ pipe' = pipe
    BY <1>5 DEF SetDecoderWindow
  <2> HIDE DEF d
  <2>3. Expecting(d) /\ Held(d) = Held(dsp)
    BY <1>1, <2>1 DEF Expecting, Held
  <2>4. /\ Expecting(dsp') /\ dsp'.filterRun \in {0, dsp.filterRun} /\ dsp'.batchRun \in {0, dsp.batchRun}
        /\ dsp' = d \/ Held(dsp') = {}
    BY <2>1, <2>2, <2>3, WindowExpected
  <2>5. \A c \in Held(dsp') : Follows(dsp'.expected, c, pipe', Source')
    BY <1>2, <1>3, <2>1, <2>2, <2>3, <2>4
  <2> QED
    BY <1>1, <1>2, <1>3, <2>2, <2>4, <2>5 DEF ExpectedInv, ChainInv, FilterStep, BatchStep
<1>6. CASE DrainBlock
  <2> DEFINE d == WindowApplied(dsp)
             b == pipe[1]
  <2>1. /\ Expecting(d) /\ d \in AnyDsp
        /\ d.filterRun \in {0, dsp.filterRun} /\ d.batchRun \in {0, dsp.batchRun}
        /\ 0 < d.filterRun => d.filtered = dsp.filtered
        /\ 0 < d.batchRun => d.batched = dsp.batched
        /\ d = dsp \/ Held(d) = {}
    BY <1>1, WindowExpected DEF Expecting
  <2>2. pipe # <<>> /\ Head(pipe) = b /\ pipe' = Tail(pipe) /\ dsp' \in Process(d, b)
    BY <1>3, <1>6 DEF DrainBlock
  <2>3. /\ Chained(pipe', Source) /\ b \in AnyBlock
        /\ Follows(Expected(b), b.chunk, pipe', Source)
    BY <1>3, <2>2, TakenChains
  <2>4. Labelled(b.chunk, b.label)
    <3>1. 1 \in 1..Len(pipe)
      BY <1>3, <2>2
    <3> QED
      BY <3>1 DEF LabelInv, LabelsAsSet, Labelled
  <2>5. \A c \in Held(d) : Linked(d.expected, c, b)
    BY <1>3, <2>1, <2>2 DEF Follows
  <2> HIDE DEF d, b
  <2>6. /\ Expecting(dsp')
        /\ dsp'.expected = Expected(b) /\ Held(dsp') \subseteq {b.chunk}
        /\ dsp'.filterRun \in 0..(d.filterRun + 1) /\ dsp'.batchRun \in 0..(d.batchRun + 1)
        /\ 0 < d.filterRun /\ d.filterRun < dsp'.filterRun => Continues(dsp'.filtered, d.filtered)
        /\ 0 < d.batchRun /\ d.batchRun < dsp'.batchRun => Continues(dsp'.batched, d.batched)
    BY <2>1, <2>2, <2>3, <2>4, <2>5, ProcessExpected
  <2>7. FilterStep
    BY <1>1, <2>1, <2>6 DEF FilterStep
  <2>8. BatchStep
    BY <1>1, <2>1, <2>6 DEF BatchStep
  <2>9. \A c \in Held(dsp') : Follows(dsp'.expected, c, pipe', Source')
    BY <1>2, <2>3, <2>6
  <2> QED
    BY <1>2, <2>3, <2>6, <2>7, <2>8, <2>9 DEF ExpectedInv, ChainInv
<1> QED
  BY <1>4, <1>5, <1>6 DEF SdrDsp, DspStart, DspStop

LEMMA StepExpected ==
  ASSUME LabelInv, ExpectedInv, ChainInv, [SdrNext]_sdrVars
  PROVE  ExpectedInv' /\ ChainInv' /\ FilterStep /\ BatchStep
<1>1. CASE Receive \/ SdrCapturing
  <2>1. ChainInv' /\ dsp' = dsp
    BY <1>1, CaptureChains
  <2>2. dsp.filterRun \in Nat /\ dsp.batchRun \in Nat
    BY DEF ExpectedInv, Expecting, AnyDsp
  <2> QED
    BY <2>1, <2>2 DEF ExpectedInv, FilterStep, BatchStep
<1>2. CASE SdrDsp
  BY <1>2, DspChains
<1>3. CASE UNCHANGED sdrVars
  <2>1. dsp.filterRun \in Nat /\ dsp.batchRun \in Nat
    BY DEF ExpectedInv, Expecting, AnyDsp
  <2>2. Source' = Source /\ pipe' = pipe /\ dsp' = dsp
    BY <1>3 DEF sdrVars, Source
  <2>3. DriverInv'
    BY <1>3 DEF sdrVars, ChainInv, DriverInv
  <2> QED
    BY <2>1, <2>2, <2>3 DEF ExpectedInv, ChainInv, FilterStep, BatchStep
<1> QED
  BY <1>1, <1>2, <1>3 DEF SdrNext

(* Neither the filter nor the batch is ever carried across a hole, with a  *)
(* device that stamps all its samples, some or none, and whatever becomes  *)
(* of a refused retune.                                                    *)
THEOREM FilterIsContinuous == SdrSpec => FilterStateIsContinuous
<1>1. LabelInv /\ ExpectedInv /\ ChainInv /\ [SdrNext]_sdrVars => (LabelInv /\ ExpectedInv /\ ChainInv)'
  BY StepLabels, StepExpected
<1>2. LabelInv /\ ExpectedInv /\ ChainInv /\ [SdrNext]_sdrVars => [FilterStep /\ BatchStep]_sdrVars
  BY StepExpected
<1>3. SdrSpec => [][FilterStep /\ BatchStep]_sdrVars
  BY InitLabels, InitExpected, <1>1, <1>2, PTL DEF SdrSpec
<1> QED
  BY <1>3 DEF FilterStateIsContinuous

-----------------------------------------------------------------------------
(* The decoder's window. *)

(* A DSP record has its fields; what they hold is not asked. *)
Formed(d) ==
  d \in [running : {d.running}, iq : {d.iq}, wanted : {d.wanted}, applied : {d.applied},
         expected : {d.expected}, stream : {d.stream}, filtered : {d.filtered},
         filterRun : {d.filterRun}, batched : {d.batched}, batchRun : {d.batchRun}]
WindowKept(d) == Formed(d) /\ (d.iq => d.applied = d.wanted)

LEMMA EmptiedForm ==
  ASSUME NEW d, Formed(d), NEW r, r = BatchEmptied(DecimatorReset(d))
  PROVE  Formed(r) /\ r.running = d.running /\ r.iq = d.iq /\ r.wanted = d.wanted /\ r.applied = d.applied
  <1> DEFINE q == DecimatorReset(d)
  <1>1. /\ Formed(q) /\ q.running = d.running /\ q.iq = d.iq /\ q.wanted = d.wanted
        /\ q.applied = d.applied
    BY DEF DecimatorReset, Formed
  <1> HIDE DEF q
  <1>2. r = [q EXCEPT !.batched = NoChunk, !.batchRun = 0]
    BY DEF BatchEmptied, q
  <1> QED
    BY <1>1, <1>2 DEF Formed

LEMMA AppliedInForce ==
  ASSUME NEW d, Formed(d), NEW w, w = WindowApplied(d)
  PROVE  Formed(w) /\ w.applied = w.wanted
  <1> DEFINE r == BatchEmptied(DecimatorReset(d))
  <1>1. CASE d.applied = d.wanted
    BY <1>1 DEF WindowApplied
  <1>2. CASE d.applied # d.wanted
    <2>1. Formed(r) /\ r.wanted = d.wanted
      BY EmptiedForm
    <2>2. w = [r EXCEPT !.applied = d.wanted]
      BY <1>2 DEF WindowApplied
    <2> HIDE DEF r
    <2> QED
      BY <2>1, <2>2 DEF Formed
  <1> QED
    BY <1>1, <1>2

LEMMA SessionInForce ==
  ASSUME NEW d, Formed(d), NEW starts, NEW s, s = SessionReset(d, starts)
  PROVE  Formed(s) /\ s.iq = FALSE
  <1> DEFINE r == BatchEmptied(DecimatorReset(d))
  <1>1. Formed(r)
    BY EmptiedForm
  <1>2. s = [r EXCEPT !.running = starts, !.iq = FALSE, !.applied = NoFreq]
    BY DEF SessionReset
  <1> HIDE DEF r
  <1> QED
    BY <1>1, <1>2 DEF Formed

LEMMA ProcessInForce ==
  ASSUME NEW d, Formed(d), d.applied = d.wanted, NEW b, NEW e \in Process(d, b)
  PROVE  WindowKept(e)
  <1> DEFINE v == Validated(d, b)
  <1>1. Formed(v) /\ v.applied = v.wanted
    BY DEF Validated, Formed
  <1>2. CASE e = v
    BY <1>1, <1>2 DEF WindowKept
  <1>3. CASE e \in Decimated(d, b)
    <2> DEFINE run == IF Discontinuous(d.expected, b) THEN 0 ELSE d.batchRun
               fresh == Discontinuous(d.expected, b) \/ d.stream # b.label
    <2>1. PICK n \in {0, 1, run + 1} :
            e = [v EXCEPT !.stream = b.label, !.filtered = b.chunk,
                          !.filterRun = IF fresh THEN 1 ELSE @ + 1,
                          !.batched = IF n = 0 THEN NoChunk ELSE b.chunk,
                          !.batchRun = n]
      BY <1>3 DEF Decimated
    <2> HIDE DEF v, fresh
    <2>2. e.applied = v.applied /\ e.wanted = v.wanted
      BY <1>1, <2>1 DEF Formed
    <2>3. Formed(e)
      BY <1>1, <2>1 DEF Formed
    <2> QED
      BY <1>1, <2>2, <2>3 DEF WindowKept
  <1> QED
    BY <1>2, <1>3 DEF Process

(* IQ is only ever processed under the window asked for last. *)
THEOREM WindowIsInForce == SdrSpec => []WindowInForce
<1>1. SdrInit => WindowKept(dsp)
  BY DEF SdrInit, WindowKept, Formed
<1>2. WindowKept(dsp) /\ [SdrNext]_sdrVars => WindowKept(dsp')
  <2> SUFFICES ASSUME WindowKept(dsp), [SdrNext]_sdrVars PROVE WindowKept(dsp')
    OBVIOUS
  <2>1. Formed(dsp)
    BY DEF WindowKept
  <2>2. ASSUME NEW starts, dsp' = SessionReset(dsp, starts) PROVE WindowKept(dsp')
    BY <2>1, <2>2, SessionInForce DEF WindowKept
  <2>3. ASSUME NEW f \in Freqs, SetDecoderWindow(f) PROVE WindowKept(dsp')
    <3> DEFINE d == [dsp EXCEPT !.wanted = f]
    <3>1. Formed(d) /\ d.iq = dsp.iq
      BY <2>1 DEF Formed
    <3>2. dsp' = IF dsp.iq THEN WindowApplied(d) ELSE d
      BY <2>3 DEF SetDecoderWindow
    <3> HIDE DEF d
    <3> QED
      BY <3>1, <3>2, AppliedInForce DEF WindowKept
  <2>4. CASE DrainBlock
    <3> DEFINE d == WindowApplied(dsp)
    <3>1. Formed(d) /\ d.applied = d.wanted
      BY <2>1, AppliedInForce
    <3>2. dsp' \in Process(d, Head(pipe))
      BY <2>4 DEF DrainBlock
    <3> HIDE DEF d
    <3> QED
      BY <3>1, <3>2, ProcessInForce
  <2>5. CASE dsp' = dsp
    BY <2>5
  <2> QED
    BY <2>2, <2>3, <2>4, <2>5
       DEF SdrNext, SdrDsp, SdrCapturing, sdrVars, DspStart, DspStop, Receive, StartCapture,
           StopCapture, RequestRetune, Retune, RetuneRefused, ReadOverflow, Pump, ReadFails
<1>3. WindowKept(dsp) => WindowInForce
  BY DEF WindowKept, WindowInForce
<1>4. (WindowKept(dsp))' <=> WindowKept(dsp')
  BY DEF WindowKept, Formed
<1> QED
  BY <1>1, <1>2, <1>3, <1>4, PTL DEF SdrSpec
-----------------------------------------------------------------------------
(***************************************************************************)
(* What the worker of the local character decoder promises, for any tracks *)
(* and any length of its queue, however long it runs.                      *)
(***************************************************************************)

Windows == [of : Producers, generation : Nat \ {0}]
Told == {"disabled", "error", "ready"}
InferenceType ==
  /\ waiting \in Seq(Windows) /\ queue \in [scheduled : BOOLEAN, generation : Nat \ {0}]
  /\ events \in Seq({"drain", "load", "unload"})
  /\ inferring = NotRunning \/ inferring \in [of : Producers, generation : Nat \ {0}, cancelled : BOOLEAN]
  /\ backend \in {"none", "ready"}
  /\ discarding \in {"no", "reset", "loading", "disabled", "unconfigured"}
  /\ local \in [state : Told \cup {"loading", "unconfigured"}, heard : BOOLEAN]
  /\ mail \in Seq(Told \cup {"result"}) /\ frontends \in BOOLEAN

(* The windows w wait in a queue of generation g: there is room for them,  *)
(* each is of g, and no two are of one track.                              *)
InForce(w, g) ==
  /\ Len(w) <= MostPending
  /\ \A i \in 1..Len(w) : w[i].generation = g
  /\ \A i, j \in 1..Len(w) : w[i].of = w[j].of => i = j

(* One drain is on its way or at work, and only while one is scheduled.    *)
Asked(ev) == \E i \in 1..Len(ev) : ev[i] = "drain"
OneDrain(ev, q, run, w) ==
  /\ \A i, j \in 1..Len(ev) : ev[i] = "drain" /\ ev[j] = "drain" => i = j
  /\ q.scheduled <=> Asked(ev) \/ run # NotRunning
  /\ ~(Asked(ev) /\ run # NotRunning)
  /\ w # <<>> => q.scheduled

(* Whatever says "ready" without a later word of the model, in the mail or *)
(* in what is shown, is right.  Windows are prepared only for it.          *)
Says(m, shown, i) == IF i = 0 THEN shown ELSE m[i]
TellsTheModel(m, shown, model) ==
  \A i \in 0..Len(m) :
    /\ Says(m, shown, i) = "ready"
    /\ \A j \in 1..Len(m) : i < j => m[j] = "result"
    => model = "ready"
Prepares(lc, fe, dis) ==
  /\ fe <=> dis \in {"no", "reset"} /\ lc.state = "ready"
  /\ lc.heard => lc.state = "ready"

InferenceIInv ==
  /\ InferenceType
  /\ InForce(waiting, queue.generation)
  /\ OneDrain(events, queue, inferring, waiting)
  /\ TellsTheModel(mail, local.state, backend)
  /\ Prepares(local, frontends, discarding)

-----------------------------------------------------------------------------
LEMMA InitInference == InferenceInit => InferenceIInv
  <1> SUFFICES ASSUME InferenceInit PROVE InferenceIInv
    OBVIOUS
  <1>1. /\ waiting = <<>> /\ events = <<>> /\ mail = <<>>
        /\ queue = [scheduled |-> FALSE, generation |-> 1]
        /\ inferring = NotRunning /\ backend = "none" /\ discarding = "no" /\ frontends = FALSE
        /\ local = [state |-> "disabled", heard |-> FALSE]
    BY DEF InferenceInit
  <1>2. InferenceType
    <2>1. waiting \in Seq(Windows) /\ events \in Seq({"drain", "load", "unload"})
          /\ mail \in Seq(Told \cup {"result"})
      BY <1>1
    <2>2. queue \in [scheduled : BOOLEAN, generation : Nat \ {0}]
      BY <1>1
    <2>3. local \in [state : Told \cup {"loading", "unconfigured"}, heard : BOOLEAN]
      BY <1>1 DEF Told
    <2> QED
      BY <1>1, <2>1, <2>2, <2>3 DEF InferenceType
  <1>3. InForce(waiting, queue.generation)
    BY <1>1, InferenceAssumption DEF InForce
  <1>4. OneDrain(events, queue, inferring, waiting)
    BY <1>1 DEF OneDrain, Asked
  <1>5. TellsTheModel(mail, local.state, backend) /\ Prepares(local, frontends, discarding)
    BY <1>1 DEF TellsTheModel, Says, Prepares
  <1> QED
    BY <1>2, <1>3, <1>4, <1>5 DEF InferenceIInv

LEMMA EnteredInForce ==
  ASSUME InferenceIInv, NEW p \in Producers
  PROVE  /\ Entered(p) \in Seq(Windows) /\ InForce(Entered(p), queue.generation)
         /\ Entered(p) # <<>>
  <1> DEFINE g == queue.generation
             new == [of |-> p, generation |-> g]
             room == IF Len(waiting) >= MostPending THEN Tail(waiting) ELSE waiting
  <1>1. /\ waiting \in Seq(Windows) /\ new \in Windows /\ new.of = p /\ new.generation = g
        /\ InForce(waiting, g) /\ MostPending \in Nat \ {0}
    BY InferenceAssumption DEF InferenceIInv, InferenceType, Windows
  <1> HIDE DEF g, new
  <1>2. CASE Same(p) # {}
    BY <1>1, <1>2 DEF Entered, Same, g
  <1>3. CASE Same(p) = {}
    <2>1. \A i \in 1..Len(waiting) : waiting[i].of # p
      BY <1>3 DEF Same
    <2>2. /\ room \in Seq(Windows) /\ Len(room) < MostPending
          /\ InForce(room, g) /\ \A i \in 1..Len(room) : room[i].of # p
      <3>1. CASE Len(waiting) >= MostPending
        <4>1. /\ room = Tail(waiting) /\ room \in Seq(Windows) /\ Len(room) = Len(waiting) - 1
              /\ \A i \in 1..Len(room) : room[i] = waiting[i + 1] /\ i + 1 \in 1..Len(waiting)
          BY <1>1, <3>1
        <4> QED
          BY <1>1, <2>1, <4>1 DEF InForce
      <3>2. CASE ~(Len(waiting) >= MostPending)
        BY <1>1, <2>1, <3>2 DEF InForce
      <3> QED
        BY <3>1, <3>2
    <2> HIDE DEF room
    <2>3. /\ Append(room, new) \in Seq(Windows) /\ Len(Append(room, new)) = Len(room) + 1
          /\ \A i \in 1..Len(room) : Append(room, new)[i] = room[i]
          /\ Append(room, new)[Len(room) + 1] = new
      BY <1>1, <2>2
    <2>4. InForce(Append(room, new), g)
      BY <1>1, <2>2, <2>3 DEF InForce
    <2>5. Entered(p) = Append(room, new)
      BY <1>3 DEF Entered, room, new, g
    <2>6. Entered(p) # <<>>
      BY <2>2, <2>3, <2>5
    <2> QED
      BY <2>3, <2>4, <2>5, <2>6 DEF g
  <1> QED
    BY <1>2, <1>3

(* Asking once more when nobody does, and taking the first request away.   *)
LEMMA AskedOnce ==
  ASSUME NEW ev \in Seq({"drain", "load", "unload"}), NEW word \in {"drain", "load", "unload"},
         \A i, j \in 1..Len(ev) : ev[i] = "drain" /\ ev[j] = "drain" => i = j
  PROVE  /\ Append(ev, word) \in Seq({"drain", "load", "unload"})
         /\ Asked(Append(ev, word)) <=> Asked(ev) \/ word = "drain"
         /\ word # "drain" \/ ~Asked(ev) =>
              \A i, j \in 1..Len(Append(ev, word)) :
                Append(ev, word)[i] = "drain" /\ Append(ev, word)[j] = "drain" => i = j
  <1> DEFINE longer == Append(ev, word)
  <1>1. /\ longer \in Seq({"drain", "load", "unload"}) /\ Len(longer) = Len(ev) + 1
        /\ \A i \in 1..Len(ev) : longer[i] = ev[i]
        /\ longer[Len(ev) + 1] = word /\ Len(ev) \in Nat
    OBVIOUS
  <1> HIDE DEF longer
  <1>2. Asked(longer) <=> Asked(ev) \/ word = "drain"
    BY <1>1 DEF Asked
  <1>3. ASSUME word # "drain" \/ ~Asked(ev), NEW i \in 1..Len(longer), NEW j \in 1..Len(longer),
               longer[i] = "drain", longer[j] = "drain"
        PROVE  i = j
    <2>1. (i \in 1..Len(ev) \/ i = Len(ev) + 1) /\ (j \in 1..Len(ev) \/ j = Len(ev) + 1)
      BY <1>1
    <2> QED
      BY <1>1, <1>3, <2>1 DEF Asked
  <1> QED
    BY <1>1, <1>2, <1>3 DEF longer

LEMMA AskedFirst ==
  ASSUME NEW ev \in Seq({"drain", "load", "unload"}), ev # <<>>,
         \A i, j \in 1..Len(ev) : ev[i] = "drain" /\ ev[j] = "drain" => i = j
  PROVE  /\ Tail(ev) \in Seq({"drain", "load", "unload"}) /\ Head(ev) \in {"drain", "load", "unload"}
         /\ Head(ev) = "drain" => Asked(ev) /\ ~Asked(Tail(ev))
         /\ Head(ev) # "drain" => (Asked(Tail(ev)) <=> Asked(ev))
         /\ \A i, j \in 1..Len(Tail(ev)) : Tail(ev)[i] = "drain" /\ Tail(ev)[j] = "drain" => i = j
  <1> DEFINE rest == Tail(ev)
  <1>1. /\ rest \in Seq({"drain", "load", "unload"}) /\ Len(rest) = Len(ev) - 1 /\ Len(ev) \in Nat \ {0}
        /\ \A i \in 1..Len(rest) : rest[i] = ev[i + 1] /\ i + 1 \in 1..Len(ev)
        /\ Head(ev) = ev[1] /\ 1 \in 1..Len(ev) /\ Head(ev) \in {"drain", "load", "unload"}
    OBVIOUS
  <1>2. \A i \in 1..Len(ev) : i = 1 \/ (i - 1 \in 1..Len(rest) /\ rest[i - 1] = ev[i])
    BY <1>1
  <1> HIDE DEF rest
  <1>3. Head(ev) = "drain" => Asked(ev) /\ ~Asked(rest)
    BY <1>1 DEF Asked
  <1>4. Head(ev) # "drain" => (Asked(rest) <=> Asked(ev))
    BY <1>1, <1>2 DEF Asked
  <1>5. ASSUME NEW i \in 1..Len(rest), NEW j \in 1..Len(rest), rest[i] = "drain", rest[j] = "drain"
        PROVE  i = j
    BY <1>1, <1>5
  <1> QED
    BY <1>1, <1>3, <1>4, <1>5 DEF rest

(* The two queues as steps of the worker's thread leave them.              *)
LEMMA WaitingShrinks ==
  ASSUME NEW w \in Seq(Windows), w # <<>>, NEW g, InForce(w, g), InferenceAssumption
  PROVE  /\ Tail(w) \in Seq(Windows) /\ Head(w) \in Windows
         /\ InForce(Tail(w), g) /\ InForce(<<>>, g)
  <1>1. /\ Tail(w) \in Seq(Windows) /\ Head(w) \in Windows /\ Len(Tail(w)) = Len(w) - 1
        /\ \A i \in 1..Len(Tail(w)) : Tail(w)[i] = w[i + 1] /\ i + 1 \in 1..Len(w)
    OBVIOUS
  <1>2. InForce(Tail(w), g)
    BY <1>1, InferenceAssumption DEF InForce
  <1>3. InForce(<<>>, g)
    BY InferenceAssumption DEF InForce
  <1> QED
    BY <1>1, <1>2, <1>3

(* A signal more, and the first signal taken.                              *)
LEMMA MailGrows ==
  ASSUME NEW m \in Seq(Told \cup {"result"}), NEW shown, NEW model, NEW next,
         NEW signal \in Told \cup {"result"},
         TellsTheModel(m, shown, model),
         \/ signal = "result" /\ next = model
         \/ signal \in Told /\ (signal = "ready" => next = "ready")
  PROVE  /\ Append(m, signal) \in Seq(Told \cup {"result"})
         /\ TellsTheModel(Append(m, signal), shown, next)
  <1> DEFINE longer == Append(m, signal)
  <1>1. /\ longer \in Seq(Told \cup {"result"}) /\ Len(longer) = Len(m) + 1 /\ Len(m) \in Nat
        /\ \A i \in 1..Len(m) : longer[i] = m[i]
        /\ longer[Len(m) + 1] = signal
    OBVIOUS
  <1> HIDE DEF longer
  <1>2. ASSUME NEW i \in 0..Len(longer), Says(longer, shown, i) = "ready",
               \A j \in 1..Len(longer) : i < j => longer[j] = "result"
        PROVE  next = "ready"
    <2>1. CASE i = Len(m) + 1
      BY <1>1, <1>2, <2>1 DEF Says, Told
    <2>2. CASE i # Len(m) + 1
      <3>1. i \in 0..Len(m) /\ Says(m, shown, i) = "ready"
        BY <1>1, <1>2, <2>2 DEF Says
      <3>2. longer[Len(m) + 1] = "result"
        BY <1>1, <1>2, <3>1
      <3>3. \A j \in 1..Len(m) : i < j => m[j] = "result"
        BY <1>1, <1>2
      <3>4. next = model
        BY <1>1, <3>2 DEF Told
      <3> QED
        BY <3>1, <3>3, <3>4 DEF TellsTheModel
    <2> QED
      BY <2>1, <2>2
  <1> QED
    BY <1>1, <1>2 DEF TellsTheModel, longer

LEMMA MailShrinks ==
  ASSUME NEW m \in Seq(Told \cup {"result"}), m # <<>>, NEW shown, NEW model,
         TellsTheModel(m, shown, model)
  PROVE  /\ Tail(m) \in Seq(Told \cup {"result"}) /\ Head(m) \in Told \cup {"result"}
         /\ TellsTheModel(Tail(m), IF Head(m) = "result" THEN shown ELSE Head(m), model)
  <1> DEFINE rest == Tail(m)
             said == IF Head(m) = "result" THEN shown ELSE Head(m)
  <1>1. /\ rest \in Seq(Told \cup {"result"}) /\ Len(rest) = Len(m) - 1 /\ Len(m) \in Nat \ {0}
        /\ \A i \in 1..Len(rest) : rest[i] = m[i + 1]
        /\ Head(m) = m[1] /\ Head(m) \in Told \cup {"result"}
    OBVIOUS
  <1> HIDE DEF rest
  <1>2. ASSUME NEW i \in 0..Len(rest), Says(rest, said, i) = "ready",
               \A j \in 1..Len(rest) : i < j => rest[j] = "result"
        PROVE  model = "ready"
    <2>1. \A j \in 1..Len(m) : i + 1 < j => m[j] = "result"
      <3> SUFFICES ASSUME NEW j \in 1..Len(m), i + 1 < j PROVE m[j] = "result"
        OBVIOUS
      <3>1. j - 1 \in 1..Len(rest) /\ i < j - 1 /\ rest[j - 1] = m[j]
        BY <1>1
      <3> QED
        BY <1>2, <3>1
    <2>2. CASE i # 0 \/ Head(m) # "result"
      <3>1. i + 1 \in 0..Len(m) /\ Says(m, shown, i + 1) = "ready"
        BY <1>1, <1>2, <2>2 DEF Says
      <3> QED
        BY <2>1, <3>1 DEF TellsTheModel
    <2>3. CASE i = 0 /\ Head(m) = "result"
      <3>1. 0 \in 0..Len(m) /\ Says(m, shown, 0) = "ready"
        BY <1>1, <1>2, <2>3 DEF Says
      <3>2. \A j \in 1..Len(m) : 0 < j => m[j] = "result"
        BY <1>1, <2>1, <2>3
      <3> QED
        BY <3>1, <3>2 DEF TellsTheModel
    <2> QED
      BY <2>2, <2>3
  <1> QED
    BY <1>1, <1>2 DEF TellsTheModel, rest

-----------------------------------------------------------------------------
LEMMA SubmitStep ==
  ASSUME InferenceIInv, NEW p \in Producers, Submit(p)
  PROVE  InferenceIInv'
  <1>1. /\ waiting' = Entered(p) /\ queue' = [queue EXCEPT !.scheduled = TRUE]
        /\ events' = IF ~queue.scheduled THEN Append(events, "drain") ELSE events
        /\ UNCHANGED <<inferring, backend, discarding, local, mail, frontends>>
    BY DEF Submit, SubmitAs
  <1>2. /\ queue \in [scheduled : BOOLEAN, generation : Nat \ {0}]
        /\ events \in Seq({"drain", "load", "unload"})
        /\ OneDrain(events, queue, inferring, waiting)
    BY DEF InferenceIInv, InferenceType
  <1>3. /\ queue' \in [scheduled : BOOLEAN, generation : Nat \ {0}]
        /\ queue'.generation = queue.generation /\ queue'.scheduled = TRUE
    BY <1>1, <1>2
  <1>4. /\ events' \in Seq({"drain", "load", "unload"})
        /\ OneDrain(events', queue', inferring', waiting')
    <2>1. CASE queue.scheduled
      BY <1>1, <1>2, <1>3, <2>1 DEF OneDrain
    <2>2. CASE ~queue.scheduled
      BY <1>1, <1>2, <1>3, <2>2, AskedOnce DEF OneDrain
    <2> QED
      BY <2>1, <2>2
  <1>5. waiting' \in Seq(Windows) /\ InForce(waiting', queue'.generation)
    BY <1>1, <1>3, EnteredInForce
  <1> QED
    BY <1>1, <1>3, <1>4, <1>5 DEF InferenceIInv, InferenceType, TellsTheModel, Says, Prepares

(* The worker's thread.                                                    *)
LEMMA DrainStep ==
  ASSUME InferenceIInv, DrainNothing \/ DrainOne
  PROVE  InferenceIInv'
  <1>1. /\ queue \in [scheduled : BOOLEAN, generation : Nat \ {0}]
        /\ events \in Seq({"drain", "load", "unload"}) /\ waiting \in Seq(Windows)
        /\ OneDrain(events, queue, inferring, waiting) /\ InForce(waiting, queue.generation)
    BY DEF InferenceIInv, InferenceType
  <1>2. /\ events # <<>> /\ Head(events) = "drain" /\ inferring = NotRunning
        /\ UNCHANGED <<backend, discarding, local, mail, frontends>>
    BY DEF DrainNothing, DrainOne, Drain
  <1>3. /\ Tail(events) \in Seq({"drain", "load", "unload"}) /\ ~Asked(Tail(events))
        /\ \A i, j \in 1..Len(Tail(events)) : Tail(events)[i] = "drain" /\ Tail(events)[j] = "drain" => i = j
    BY <1>1, <1>2, AskedFirst DEF OneDrain
  <1>4. CASE DrainNothing
    <2>1. /\ waiting = <<>> /\ queue' = [queue EXCEPT !.scheduled = FALSE] /\ events' = Tail(events)
          /\ waiting' = waiting /\ inferring' = inferring
      BY <1>4 DEF DrainNothing
    <2>2. /\ queue' \in [scheduled : BOOLEAN, generation : Nat \ {0}]
          /\ queue'.generation = queue.generation /\ queue'.scheduled = FALSE
      BY <1>1, <2>1
    <2>3. OneDrain(events', queue', inferring', waiting')
      BY <1>2, <1>3, <2>1, <2>2 DEF OneDrain
    <2> QED
      BY <1>1, <1>2, <1>3, <2>1, <2>2, <2>3
         DEF InferenceIInv, InferenceType, TellsTheModel, Says, Prepares
  <1>5. CASE DrainOne
    <2>1. /\ waiting # <<>> /\ waiting' = Tail(waiting) /\ queue' = queue
          /\ \/ /\ inferring' = [of |-> Head(waiting).of, generation |-> Head(waiting).generation,
                               cancelled |-> FALSE]
                /\ events' = Tail(events)
             \/ inferring' = inferring /\ events' = Append(Tail(events), "drain")
      BY <1>5 DEF DrainOne
    <2>2. /\ waiting' \in Seq(Windows) /\ Head(waiting) \in Windows
          /\ InForce(waiting', queue'.generation)
      BY <1>1, <2>1, WaitingShrinks, InferenceAssumption
    <2>3. queue.scheduled
      BY <1>1, <2>1 DEF OneDrain
    <2>4. CASE /\ inferring' = [of |-> Head(waiting).of, generation |-> Head(waiting).generation,
                               cancelled |-> FALSE]
               /\ events' = Tail(events)
      <3>1. inferring' \in [of : Producers, generation : Nat \ {0}, cancelled : BOOLEAN]
        BY <2>2, <2>4 DEF Windows
      <3>2. inferring' # NotRunning
        BY <3>1 DEF NotRunning
      <3>3. OneDrain(events', queue', inferring', waiting')
        BY <1>3, <2>1, <2>3, <2>4, <3>2 DEF OneDrain
      <3> QED
        BY <1>1, <1>2, <1>3, <2>1, <2>2, <2>4, <3>1, <3>3
           DEF InferenceIInv, InferenceType, TellsTheModel, Says, Prepares
    <2>5. CASE inferring' = inferring /\ events' = Append(Tail(events), "drain")
      <3>1. /\ events' \in Seq({"drain", "load", "unload"}) /\ Asked(events')
            /\ \A i, j \in 1..Len(events') : events'[i] = "drain" /\ events'[j] = "drain" => i = j
        <4> DEFINE rest == Tail(events)
        <4>1. /\ rest \in Seq({"drain", "load", "unload"}) /\ ~Asked(rest)
              /\ \A i, j \in 1..Len(rest) : rest[i] = "drain" /\ rest[j] = "drain" => i = j
          BY <1>3
        <4>2. events' = Append(rest, "drain")
          BY <2>5
        <4> HIDE DEF rest
        <4> QED
          BY <4>1, <4>2, AskedOnce
      <3>2. OneDrain(events', queue', inferring', waiting')
        BY <1>2, <2>1, <2>3, <2>5, <3>1 DEF OneDrain
      <3> QED
        BY <1>1, <1>2, <2>1, <2>2, <2>5, <3>1, <3>2
           DEF InferenceIInv, InferenceType, TellsTheModel, Says, Prepares
    <2> QED
      BY <2>1, <2>4, <2>5
  <1> QED
    BY <1>4, <1>5

LEMMA InferenceEndsStep ==
  ASSUME InferenceIInv, InferenceEnds
  PROVE  InferenceIInv'
  <1>1. /\ inferring # NotRunning /\ inferring' = NotRunning /\ events' = Append(events, "drain")
        /\ UNCHANGED <<waiting, queue, backend, discarding, local, frontends>>
        /\ \/ mail' = mail \/ mail' = Append(mail, "result") \/ mail' = Append(mail, "error")
    BY DEF InferenceEnds, Tells
  <1>2. /\ events \in Seq({"drain", "load", "unload"}) /\ mail \in Seq(Told \cup {"result"})
        /\ OneDrain(events, queue, inferring, waiting) /\ TellsTheModel(mail, local.state, backend)
    BY DEF InferenceIInv, InferenceType
  <1>3. /\ events' \in Seq({"drain", "load", "unload"}) /\ Asked(events')
        /\ \A i, j \in 1..Len(events') : events'[i] = "drain" /\ events'[j] = "drain" => i = j
    BY <1>1, <1>2, AskedOnce DEF OneDrain
  <1>4. OneDrain(events', queue', inferring', waiting')
    BY <1>1, <1>2, <1>3 DEF OneDrain
  <1>5. "result" \in Told \cup {"result"} /\ "error" \in Told /\ "error" # "ready"
    BY DEF Told
  <1>6. mail' \in Seq(Told \cup {"result"}) /\ TellsTheModel(mail', local.state, backend)
    <2>1. CASE mail' = mail
      BY <1>2, <2>1
    <2>2. CASE mail' = Append(mail, "result")
      BY <1>2, <1>5, <2>2, MailGrows
    <2>3. CASE mail' = Append(mail, "error")
      BY <1>2, <1>5, <2>3, MailGrows
    <2> QED
      BY <1>1, <2>1, <2>2, <2>3
  <1> QED
    BY <1>1, <1>3, <1>4, <1>6 DEF InferenceIInv, InferenceType, InForce, Prepares

LEMMA ConfigureStep ==
  ASSUME InferenceIInv, Configure
  PROVE  InferenceIInv'
  <1>1. /\ events # <<>> /\ Head(events) \in {"load", "unload"} /\ inferring = NotRunning
        /\ waiting' = <<>> /\ queue' = [queue EXCEPT !.generation = @ + 1] /\ events' = Tail(events)
        /\ UNCHANGED <<inferring, discarding, local, frontends>>
        /\ \E signal \in Told : /\ mail' = Append(mail, signal)
                                /\ backend' = IF signal = "ready" THEN "ready" ELSE "none"
    BY DEF Configure, Told
  <1>2. /\ queue \in [scheduled : BOOLEAN, generation : Nat \ {0}]
        /\ events \in Seq({"drain", "load", "unload"}) /\ mail \in Seq(Told \cup {"result"})
        /\ OneDrain(events, queue, inferring, waiting) /\ TellsTheModel(mail, local.state, backend)
    BY DEF InferenceIInv, InferenceType
  <1>3. /\ queue' \in [scheduled : BOOLEAN, generation : Nat \ {0}]
        /\ queue'.scheduled = queue.scheduled
    <2>1. queue \in [scheduled : BOOLEAN, generation : Nat \ {0}]
      BY <1>2
    <2>2. queue' = [queue EXCEPT !.generation = @ + 1]
      BY <1>1
    <2> QED
      BY ONLY <2>1, <2>2
  <1>4. /\ events' \in Seq({"drain", "load", "unload"})
        /\ OneDrain(events', queue', inferring', waiting')
    <2>1. /\ Tail(events) \in Seq({"drain", "load", "unload"}) /\ (Asked(Tail(events)) <=> Asked(events))
          /\ \A i, j \in 1..Len(Tail(events)) : Tail(events)[i] = "drain" /\ Tail(events)[j] = "drain" => i = j
      BY <1>1, <1>2, AskedFirst DEF OneDrain
    <2> QED
      BY <1>1, <1>2, <1>3, <2>1 DEF OneDrain
  <1>5. mail' \in Seq(Told \cup {"result"}) /\ TellsTheModel(mail', local.state, backend')
    <2>1. PICK signal \in Told : /\ mail' = Append(mail, signal)
                                 /\ backend' = IF signal = "ready" THEN "ready" ELSE "none"
      BY <1>1
    <2> DEFINE next == backend'
    <2>2. signal = "ready" => next = "ready"
      BY <2>1
    <2> HIDE DEF next
    <2>3. Append(mail, signal) \in Seq(Told \cup {"result"}) /\ TellsTheModel(Append(mail, signal), local.state, next)
      BY <1>2, <2>2, MailGrows
    <2> QED
      BY <2>1, <2>3 DEF next
  <1>6. backend' \in {"none", "ready"}
    BY <1>1
  <1>7. waiting' \in Seq(Windows) /\ InForce(waiting', queue'.generation)
    BY <1>1, InferenceAssumption DEF InForce
  <1> QED
    BY <1>1, <1>3, <1>4, <1>5, <1>6, <1>7 DEF InferenceIInv, InferenceType, Prepares

(* The controller.                                                         *)
LEMMA DiscardStep ==
  ASSUME InferenceIInv, UNCHANGED <<events, inferring, backend, local, mail>>,
         waiting' = <<>>, queue' = [queue EXCEPT !.generation = @ + 1],
         \/ frontends' = FALSE /\ discarding' \in {"loading", "disabled", "unconfigured"}
         \/ frontends' = frontends /\ discarding = "no" /\ discarding' = "reset"
  PROVE  InferenceIInv'
  <1>1. /\ queue \in [scheduled : BOOLEAN, generation : Nat \ {0}]
        /\ OneDrain(events, queue, inferring, waiting)
    BY DEF InferenceIInv, InferenceType
  <1>2. /\ queue' \in [scheduled : BOOLEAN, generation : Nat \ {0}]
        /\ queue'.scheduled = queue.scheduled
    BY <1>1
  <1>3. OneDrain(events', queue', inferring', waiting')
    BY <1>1, <1>2 DEF OneDrain
  <1>4. waiting' \in Seq(Windows) /\ InForce(waiting', queue'.generation)
    BY InferenceAssumption DEF InForce
  <1>5. Prepares(local', frontends', discarding')
    BY DEF Prepares, InferenceIInv
  <1> QED
    BY <1>2, <1>3, <1>4, <1>5 DEF InferenceIInv, InferenceType

LEMMA DiscardEndsStep ==
  ASSUME InferenceIInv, DiscardEnds
  PROVE  InferenceIInv'
  <1>1. /\ discarding # "no" /\ discarding' = "no"
        /\ \/ inferring # NotRunning /\ inferring' = [inferring EXCEPT !.cancelled = TRUE]
           \/ inferring' = inferring
        /\ local' = [state |-> IF discarding = "reset" THEN local.state ELSE discarding, heard |-> FALSE]
        /\ \/ discarding = "reset" /\ events' = events
           \/ discarding # "reset" /\ events' = Append(events, "load")
           \/ discarding # "reset" /\ events' = Append(events, "unload")
        /\ UNCHANGED <<waiting, queue, backend, mail, frontends>>
    BY DEF DiscardEnds
  <1>2. /\ events \in Seq({"drain", "load", "unload"}) /\ mail \in Seq(Told \cup {"result"})
        /\ discarding \in {"no", "reset", "loading", "disabled", "unconfigured"}
        /\ local \in [state : Told \cup {"loading", "unconfigured"}, heard : BOOLEAN]
        /\ inferring = NotRunning
             \/ inferring \in [of : Producers, generation : Nat \ {0}, cancelled : BOOLEAN]
        /\ OneDrain(events, queue, inferring, waiting)
        /\ TellsTheModel(mail, local.state, backend) /\ Prepares(local, frontends, discarding)
    BY DEF InferenceIInv, InferenceType
  <1>3. /\ events' \in Seq({"drain", "load", "unload"}) /\ (Asked(events') <=> Asked(events))
        /\ \A i, j \in 1..Len(events') : events'[i] = "drain" /\ events'[j] = "drain" => i = j
    <2>1. CASE events' = events
      BY <1>2, <2>1 DEF OneDrain
    <2>2. CASE events' = Append(events, "load")
      BY <1>2, <2>2, AskedOnce DEF OneDrain
    <2>3. CASE events' = Append(events, "unload")
      BY <1>2, <2>3, AskedOnce DEF OneDrain
    <2> QED
      BY <1>1, <2>1, <2>2, <2>3
  <1>4. /\ inferring' = NotRunning
             \/ inferring' \in [of : Producers, generation : Nat \ {0}, cancelled : BOOLEAN]
        /\ inferring' = NotRunning <=> inferring = NotRunning
    <2>1. CASE inferring' = inferring
      BY <1>2, <2>1
    <2>2. CASE inferring # NotRunning /\ inferring' = [inferring EXCEPT !.cancelled = TRUE]
      <3>1. inferring' \in [of : Producers, generation : Nat \ {0}, cancelled : BOOLEAN]
        BY <1>2, <2>2
      <3> QED
        BY <2>2, <3>1 DEF NotRunning
    <2> QED
      BY <1>1, <2>1, <2>2
  <1>5. OneDrain(events', queue', inferring', waiting')
    BY <1>1, <1>2, <1>3, <1>4 DEF OneDrain
  <1>6. /\ local'.heard = FALSE
        /\ local'.state = IF discarding = "reset" THEN local.state ELSE discarding
        /\ local' \in [state : Told \cup {"loading", "unconfigured"}, heard : BOOLEAN]
    BY <1>1, <1>2 DEF Told
  <1>7. Prepares(local', frontends', discarding')
    BY <1>1, <1>2, <1>6 DEF Prepares
  <1>8. TellsTheModel(mail', local'.state, backend')
    BY <1>1, <1>2, <1>6 DEF TellsTheModel, Says
  <1> QED
    BY <1>1, <1>3, <1>4, <1>5, <1>6, <1>7, <1>8 DEF InferenceIInv, InferenceType

LEMMA HeardStep ==
  ASSUME InferenceIInv, StatusChanged \/ ResultHeard
  PROVE  InferenceIInv'
  <1>1. /\ discarding = "no" /\ mail # <<>> /\ mail' = Tail(mail)
        /\ \/ /\ Head(mail) # "result" /\ frontends' = (Head(mail) = "ready")
              /\ local' = [state |-> Head(mail), heard |-> local.heard /\ Head(mail) = "ready"]
           \/ /\ Head(mail) = "result" /\ frontends' = frontends
              /\ local' = [local EXCEPT !.heard = @ \/ local.state = "ready"]
        /\ UNCHANGED <<waiting, queue, events, inferring, backend, discarding>>
    BY DEF StatusChanged, ResultHeard
  <1>2. /\ mail \in Seq(Told \cup {"result"}) /\ TellsTheModel(mail, local.state, backend)
        /\ local \in [state : Told \cup {"loading", "unconfigured"}, heard : BOOLEAN]
        /\ frontends \in BOOLEAN /\ Prepares(local, frontends, discarding)
    BY DEF InferenceIInv, InferenceType
  <1>3. /\ mail' \in Seq(Told \cup {"result"}) /\ Head(mail) \in Told \cup {"result"}
        /\ TellsTheModel(mail', IF Head(mail) = "result" THEN local.state ELSE Head(mail), backend)
    BY <1>1, <1>2, MailShrinks
  <1>4. /\ local' \in [state : Told \cup {"loading", "unconfigured"}, heard : BOOLEAN]
        /\ local'.state = IF Head(mail) = "result" THEN local.state ELSE Head(mail)
        /\ local'.heard => local'.state = "ready"
    <2>1. CASE /\ Head(mail) # "result"
               /\ local' = [state |-> Head(mail), heard |-> local.heard /\ Head(mail) = "ready"]
      <3>1. local'.state = Head(mail) /\ (local'.heard => Head(mail) = "ready")
        BY <2>1
      <3>2. local' \in [state : Told \cup {"loading", "unconfigured"}, heard : BOOLEAN]
        BY <1>3, <2>1
      <3> QED
        BY <2>1, <3>1, <3>2
    <2>2. CASE /\ Head(mail) = "result"
               /\ local' = [local EXCEPT !.heard = @ \/ local.state = "ready"]
      <3>1. local'.state = local.state /\ (local'.heard => local.heard \/ local.state = "ready")
        BY <1>2, <2>2
      <3>2. local' \in [state : Told \cup {"loading", "unconfigured"}, heard : BOOLEAN]
        BY <1>2, <2>2
      <3> QED
        BY <1>2, <2>2, <3>1, <3>2 DEF Prepares
    <2> QED
      BY <1>1, <2>1, <2>2
  <1>5. frontends' \in BOOLEAN /\ Prepares(local', frontends', discarding')
    <2>1. frontends <=> local.state = "ready"
      BY <1>1, <1>2 DEF Prepares
    <2>2. frontends' \in BOOLEAN /\ (frontends' <=> local'.state = "ready")
      <3>1. CASE Head(mail) # "result"
        BY <1>1, <1>4, <3>1
      <3>2. CASE Head(mail) = "result"
        BY <1>1, <1>2, <1>4, <2>1, <3>2
      <3> QED
        BY <3>1, <3>2
    <2> QED
      BY <1>1, <1>4, <2>2 DEF Prepares
  <1> QED
    BY <1>1, <1>3, <1>4, <1>5 DEF InferenceIInv, InferenceType

LEMMA StepInference == InferenceIInv /\ [InferenceNext]_inferenceVars => InferenceIInv'
  <1> SUFFICES ASSUME InferenceIInv, [InferenceNext]_inferenceVars PROVE InferenceIInv'
    OBVIOUS
  <1>1. ASSUME NEW state \in {"loading", "disabled", "unconfigured"},
               ConfigureLocalCharacterDecoder(state)
        PROVE  InferenceIInv'
    BY <1>1, DiscardStep DEF ConfigureLocalCharacterDecoder, DiscardBegins
  <1>2. CASE ResetDecoder
    BY <1>2, DiscardStep DEF ResetDecoder, DiscardBegins, Request
  <1>3. CASE UNCHANGED inferenceVars
    BY <1>3 DEF inferenceVars, InferenceIInv, InferenceType, InForce, OneDrain, Asked,
                TellsTheModel, Says, Prepares
  <1> QED
    BY <1>1, <1>2, <1>3, SubmitStep, DrainStep, InferenceEndsStep, ConfigureStep, DiscardEndsStep,
       HeardStep DEF InferenceNext, InferenceThread

(* Of a queue in which at most one entry asks for a drain.                 *)
LEMMA DrainsCounted ==
  ASSUME NEW ev \in Seq({"drain", "load", "unload"}),
         \A i, j \in 1..Len(ev) : ev[i] = "drain" /\ ev[j] = "drain" => i = j
  PROVE  Cardinality({i \in 1..Len(ev) : ev[i] = "drain"}) = IF Asked(ev) THEN 1 ELSE 0
  <1> DEFINE asking == {i \in 1..Len(ev) : ev[i] = "drain"}
  <1>1. CASE Asked(ev)
    <2>1. PICK i \in 1..Len(ev) : ev[i] = "drain"
      BY <1>1 DEF Asked
    <2>2. asking = {i}
      BY <2>1
    <2> QED
      BY <1>1, <2>2, FS_Singleton
  <1>2. CASE ~Asked(ev)
    <2>1. asking = {}
      BY <1>2 DEF Asked
    <2> QED
      BY <1>2, <2>1, FS_EmptySet
  <1> QED
    BY <1>1, <1>2

LEMMA InferenceFollows == InferenceIInv => InferenceInv
  <1> SUFFICES ASSUME InferenceIInv PROVE InferenceInv
    OBVIOUS
  <1>1. QueueInForce
    <2>1. /\ InForce(waiting, queue.generation) /\ waiting \in Seq(Windows)
      BY DEF InferenceIInv, InferenceType
    <2>2. ASSUME NEW i \in 1..Len(waiting)
          PROVE  waiting[i].generation = queue.generation /\ Same(waiting[i].of) = {i}
      BY <2>1 DEF InForce, Same
    <2> QED
      BY <2>1, <2>2 DEF QueueInForce, InForce
  <1>2. WakesUp
    <2>1. /\ events \in Seq({"drain", "load", "unload"}) /\ OneDrain(events, queue, inferring, waiting)
      BY DEF InferenceIInv, InferenceType
    <2>2. Cardinality({i \in 1..Len(events) : events[i] = "drain"}) = IF Asked(events) THEN 1 ELSE 0
      BY <2>1, DrainsCounted DEF OneDrain
    <2> QED
      BY <2>1, <2>2 DEF WakesUp, Drains, OneDrain
  <1>3. ShowsTheModel
    <2>1. CASE mail = <<>>
      <3>1. local.state = "ready" => backend = "ready"
        <4>1. TellsTheModel(mail, local.state, backend) /\ Len(mail) = 0
          BY <2>1 DEF InferenceIInv
        <4> QED
          BY <4>1 DEF TellsTheModel, Says
      <3> QED
        BY <3>1 DEF InferenceIInv, InferenceType, ShowsTheModel, InferenceSettled, Prepares
    <2>2. CASE mail # <<>>
      BY <2>2 DEF InferenceIInv, ShowsTheModel, InferenceSettled, Prepares
    <2> QED
      BY <2>1, <2>2
  <1> QED
    BY <1>1, <1>2, <1>3 DEF InferenceInv

(* The windows that wait are of the present generation and one of a track; *)
(* a drain is on its way or at work exactly while the worker believes so,  *)
(* so that no wakeup is lost or asked for twice; and what the controller   *)
(* shows of the model is true once everything asked for is done, however   *)
(* the threads interleave: local_character_inference_worker.cpp.           *)
THEOREM InferenceIsInForce == InferenceSpec => []InferenceInv
  BY InitInference, StepInference, InferenceFollows, PTL DEF InferenceSpec

-----------------------------------------------------------------------------
(***************************************************************************)
(* For every capacity and under a single consumer, the ring keeps its      *)
(* slots apart and implements a bounded queue.                             *)
(***************************************************************************)

(* The contract of the ring: "single-consumer". *)
SingleConsumer == \A c, d \in Consumers : c = d

-----------------------------------------------------------------------------
(* Arithmetic of the indices. *)

LEMMA IncrementSlot ==
  ASSUME NEW i \in Slots
  PROVE  Increment(i) \in Slots /\ Increment(i) # i
BY RingAssumption DEF Slots, Increment

LEMMA AheadRange ==
  ASSUME NEW i \in Slots, NEW j \in Slots
  PROVE  /\ Ahead(i, j) \in 0..Capacity
         /\ Ahead(i, j) = 0 <=> i = j
         /\ Advanced(i, Ahead(i, j)) = j
BY RingAssumption DEF Slots, Ahead, Advanced

LEMMA AdvancedSlot ==
  ASSUME NEW i \in Slots, NEW n \in 0..Capacity
  PROVE  /\ Advanced(i, n) \in Slots
         /\ Ahead(i, Advanced(i, n)) = n
BY RingAssumption DEF Slots, Ahead, Advanced

LEMMA PushIndex ==
  ASSUME NEW t \in Slots, NEW h \in Slots, Increment(h) # t
  PROVE  Ahead(t, Increment(h)) = Ahead(t, h) + 1
BY RingAssumption DEF Slots, Ahead, Increment

LEMMA PopIndex ==
  ASSUME NEW t \in Slots, NEW h \in Slots, t # h
  PROVE  /\ Ahead(Increment(t), h) = Ahead(t, h) - 1
         /\ \A n \in 0..(Capacity - 1) : Advanced(Increment(t), n) = Advanced(t, n + 1)
BY RingAssumption DEF Slots, Ahead, Increment, Advanced

(* The slots between the indices are all different from the producer's.    *)
LEMMA BelowHead ==
  ASSUME NEW t \in Slots, NEW h \in Slots, NEW n \in 0..(Ahead(t, h) - 1)
  PROVE  /\ n \in 0..Capacity
         /\ Advanced(t, n) \in Slots
         /\ Advanced(t, n) # h
<1>1. Ahead(t, h) \in 0..Capacity
  BY AheadRange
<1>2. n \in 0..Capacity /\ n # Ahead(t, h)
  BY <1>1, RingAssumption
<1>3. Advanced(t, n) \in Slots /\ Ahead(t, Advanced(t, n)) = n
  BY <1>2, AdvancedSlot
<1> QED
  BY <1>2, <1>3

(* The ring is full when every slot but one lies between its indices.      *)
LEMMA FullRing ==
  ASSUME NEW t \in Slots, NEW h \in Slots
  PROVE  Increment(h) = t <=> Ahead(t, h) = Capacity
BY RingAssumption DEF Slots, Ahead, Increment

(* Loading the consumer's index brings it no further than where it is.     *)
LEMMA LoadTail ==
  ASSUME NEW t \in Slots, NEW h \in Slots, NEW k \in Slots,
         Ahead(t, h) <= Ahead(k, h), NEW l \in Loadable(k, t)
  PROVE  l \in Slots /\ Ahead(t, h) <= Ahead(l, h)
BY RingAssumption DEF Slots, Ahead, Advanced, Loadable

(* Loading the producer's index brings it no further than where it is.     *)
LEMMA LoadHead ==
  ASSUME NEW t \in Slots, NEW h \in Slots, NEW k \in Slots,
         Ahead(t, k) <= Ahead(t, h), NEW l \in Loadable(k, h)
  PROVE  l \in Slots /\ Ahead(t, l) <= Ahead(t, h)
BY RingAssumption DEF Slots, Ahead, Advanced, Loadable

-----------------------------------------------------------------------------
(* The ring is well formed at the start. *)
LEMMA InitInv == RingInit => RingInv
<1> SUFFICES ASSUME RingInit PROVE RingInv
  OBVIOUS
<1>1. 0 \in Slots
  BY RingAssumption DEF Slots
<1>2. RingTypeInv
  BY <1>1 DEF RingInit, RingTypeInv
<1>3. Ahead(0, 0) = 0
  BY DEF Ahead
<1>4. KnownIndices
  BY <1>3 DEF RingInit, KnownIndices
<1>5. AccessedSlots
  BY DEF RingInit, AccessedSlots
<1>6. CopiedBlocks
  BY <1>3 DEF RingInit, CopiedBlocks
<1> QED
  BY <1>2, <1>4, <1>5, <1>6 DEF RingInv

(* What the producer knows bounds the ring: when it sees a free slot there *)
(* is one.                                                                 *)
LEMMA PushHasRoom ==
  ASSUME RingInv, pushing # NoBlock
  PROVE  /\ pushing \in Blocks
         /\ Increment(head) # tail /\ Increment(head) # knownTail
         /\ Ahead(tail, Increment(head)) = Ahead(tail, head) + 1
         /\ Ahead(knownTail, Increment(head)) = Ahead(knownTail, head) + 1
<1>1. head \in Slots /\ tail \in Slots /\ knownTail \in Slots /\ pushing \in Blocks
  BY DEF RingInv, RingTypeInv
<1>2. Increment(head) # knownTail /\ Ahead(tail, head) <= Ahead(knownTail, head)
  BY DEF RingInv, AccessedSlots, KnownIndices
<1>3. Ahead(tail, head) \in 0..Capacity /\ Ahead(knownTail, head) \in 0..Capacity
  BY <1>1, AheadRange
<1>4. Ahead(knownTail, head) # Capacity
  BY <1>1, <1>2, FullRing
<1>5. Increment(head) # tail
  BY <1>1, <1>2, <1>3, <1>4, FullRing, RingAssumption
<1> QED
  BY <1>1, <1>2, <1>5, PushIndex

(* What a consumer knows bounds the ring: when it sees a block there is    *)
(* one, and it is the one it copies out.                                   *)
LEMMA PopHasBlock ==
  ASSUME RingInv, NEW c \in Consumers, popping[c] # Idle
  PROVE  /\ popping[c] = tail /\ tail # knownHead[c] /\ tail # head
         /\ Ahead(tail, head) \in 1..Capacity
<1>1. head \in Slots /\ tail \in Slots /\ knownHead[c] \in Slots
  BY DEF RingInv, RingTypeInv
<1>2. popping[c] = tail /\ tail # knownHead[c]
  BY DEF RingInv, AccessedSlots
<1>3. Ahead(tail, knownHead[c]) <= Ahead(tail, head)
  BY DEF RingInv, KnownIndices
<1>4. /\ Ahead(tail, head) \in 0..Capacity /\ Ahead(tail, knownHead[c]) \in 0..Capacity
      /\ Ahead(tail, knownHead[c]) # 0
      /\ Ahead(tail, head) = 0 <=> tail = head
  BY <1>1, <1>2, AheadRange
<1>5. Ahead(tail, head) \in 1..Capacity
  BY <1>3, <1>4, RingAssumption
<1> QED
  BY <1>2, <1>4, <1>5

-----------------------------------------------------------------------------
(* One lemma per atomic access: each keeps the ring well formed.           *)
LEMMA BeginPushInv ==
  ASSUME RingInv, NEW b \in Blocks, BeginPush(b)
  PROVE  RingInv'
<1> USE DEF BeginPush
<1>1. head \in Slots /\ tail \in Slots /\ knownTail \in Slots
  BY DEF RingInv, RingTypeInv
<1>2. Ahead(tail, head) <= Ahead(knownTail, head)
  BY DEF RingInv, KnownIndices
<1>3. PICK t \in Loadable(knownTail, tail) : Increment(head) # t /\ knownTail' = t
  OBVIOUS
<1>4. t \in Slots /\ Ahead(tail, head) <= Ahead(t, head)
  BY <1>1, <1>2, LoadTail
<1>5. RingTypeInv'
  BY <1>3, <1>4 DEF RingInv, RingTypeInv
<1>6. KnownIndices'
  BY <1>3, <1>4 DEF RingInv, KnownIndices
<1>7. AccessedSlots'
  BY <1>3 DEF RingInv, AccessedSlots
<1>8. CopiedBlocks'
  <2>1. \A n \in 0..(Ahead(tail, head) - 1) : Advanced(tail, n) # head
    BY <1>1, BelowHead
  <2>2. \A n \in 0..(Ahead(tail, head) - 1) :
          storage'[Advanced(tail, n)] = storage[Advanced(tail, n)]
    BY <1>1, <2>1, BelowHead DEF RingInv, RingTypeInv
  <2> QED
    BY <2>2 DEF RingInv, CopiedBlocks
<1> QED
  BY <1>5, <1>6, <1>7, <1>8 DEF RingInv

LEMMA PushFailsInv ==
  ASSUME RingInv, PushFails
  PROVE  RingInv'
<1> USE DEF PushFails
<1>1. head \in Slots /\ tail \in Slots /\ knownTail \in Slots
  BY DEF RingInv, RingTypeInv
<1>2. Ahead(tail, head) <= Ahead(knownTail, head)
  BY DEF RingInv, KnownIndices
<1>3. PICK t \in Loadable(knownTail, tail) : knownTail' = t
  OBVIOUS
<1>4. t \in Slots /\ Ahead(tail, head) <= Ahead(t, head)
  BY <1>1, <1>2, LoadTail
<1>5. RingTypeInv'
  BY <1>3, <1>4 DEF RingInv, RingTypeInv
<1>6. KnownIndices'
  BY <1>3, <1>4 DEF RingInv, KnownIndices
<1>7. AccessedSlots' /\ CopiedBlocks'
  BY DEF RingInv, AccessedSlots, CopiedBlocks
<1> QED
  BY <1>5, <1>6, <1>7 DEF RingInv

LEMMA EndPushInv ==
  ASSUME RingInv, EndPush
  PROVE  RingInv'
<1> USE DEF EndPush
<1>1. head \in Slots /\ tail \in Slots /\ Increment(head) \in Slots
  BY IncrementSlot DEF RingInv, RingTypeInv
<1>2. /\ pushing \in Blocks /\ pushing # NoBlock
      /\ Ahead(tail, head') = Ahead(tail, head) + 1
      /\ Ahead(knownTail, head') = Ahead(knownTail, head) + 1
  BY PushHasRoom
<1>3. Ahead(tail, head) \in 0..Capacity /\ Ahead(tail, head') \in 0..Capacity
  BY <1>1, AheadRange
<1>4. RingTypeInv'
  BY <1>1, <1>2 DEF RingInv, RingTypeInv
<1>5. KnownIndices'
  <2>1. Ahead(tail', head') <= Ahead(knownTail', head')
    <3>1. Ahead(knownTail, head) \in 0..Capacity
      BY <1>1, AheadRange DEF RingInv, RingTypeInv
    <3> QED
      BY <1>2, <1>3, <3>1, RingAssumption DEF RingInv, KnownIndices
  <2>2. ASSUME NEW c \in Consumers
        PROVE  Ahead(tail', knownHead'[c]) <= Ahead(tail', head')
    <3>1. Ahead(tail, knownHead[c]) \in 0..Capacity
      BY <1>1, AheadRange DEF RingInv, RingTypeInv
    <3> QED
      BY <1>2, <1>3, <3>1, RingAssumption DEF RingInv, KnownIndices
  <2> QED
    BY <2>1, <2>2 DEF KnownIndices
<1>6. AccessedSlots'
  BY DEF RingInv, AccessedSlots
<1>7. CopiedBlocks'
  <2> SUFFICES ASSUME NEW n \in 0..(Ahead(tail, head') - 1)
               PROVE  storage'[Advanced(tail, n)] \in Blocks
    BY DEF CopiedBlocks
  <2>1. CASE n = Ahead(tail, head)
    <3>1. Advanced(tail, n) = head
      BY <1>1, <2>1, AheadRange
    <3> QED
      BY <1>1, <1>2, <3>1 DEF RingInv, RingTypeInv
  <2>2. CASE n # Ahead(tail, head)
    <3>1. n \in 0..(Ahead(tail, head) - 1)
      BY <1>2, <1>3, <2>2, RingAssumption
    <3>2. Advanced(tail, n) \in Slots /\ Advanced(tail, n) # head
      BY <1>1, <3>1, BelowHead
    <3>3. storage'[Advanced(tail, n)] = storage[Advanced(tail, n)]
      BY <1>1, <3>2 DEF RingInv, RingTypeInv
    <3> QED
      BY <3>1, <3>3 DEF RingInv, CopiedBlocks
  <2> QED
    BY <2>1, <2>2
<1> QED
  BY <1>4, <1>5, <1>6, <1>7 DEF RingInv

LEMMA BeginPopInv ==
  ASSUME RingInv, NEW c \in Consumers, BeginPop(c)
  PROVE  RingInv'
<1> USE DEF BeginPop
<1>1. head \in Slots /\ tail \in Slots /\ knownHead[c] \in Slots
  BY DEF RingInv, RingTypeInv
<1>2. Ahead(tail, knownHead[c]) <= Ahead(tail, head)
  BY DEF RingInv, KnownIndices
<1>3. PICK h \in Loadable(knownHead[c], head) :
        tail # h /\ knownHead' = [knownHead EXCEPT ![c] = h]
  OBVIOUS
<1>4. h \in Slots /\ Ahead(tail, h) <= Ahead(tail, head)
  BY <1>1, <1>2, LoadHead
<1>5. RingTypeInv'
  BY <1>1, <1>3, <1>4 DEF RingInv, RingTypeInv
<1>6. KnownIndices'
  <2>1. \A d \in Consumers : Ahead(tail, knownHead'[d]) <= Ahead(tail, head)
    BY <1>3, <1>4 DEF RingInv, RingTypeInv, KnownIndices
  <2> QED
    BY <2>1 DEF RingInv, KnownIndices
<1>7. AccessedSlots'
  <2>1. \A d \in Consumers :
          popping'[d] # Idle => popping'[d] = tail /\ tail # knownHead'[d]
    BY <1>3 DEF RingInv, RingTypeInv, AccessedSlots
  <2> QED
    BY <2>1 DEF RingInv, AccessedSlots
<1>8. CopiedBlocks'
  BY DEF RingInv, CopiedBlocks
<1> QED
  BY <1>5, <1>6, <1>7, <1>8 DEF RingInv

LEMMA PopFailsInv ==
  ASSUME RingInv, NEW c \in Consumers, PopFails(c)
  PROVE  RingInv'
<1> USE DEF PopFails
<1>1. head \in Slots /\ tail \in Slots
  BY DEF RingInv, RingTypeInv
<1>2. Ahead(tail, tail) <= Ahead(tail, head)
  BY <1>1, AheadRange, RingAssumption
<1>3. RingTypeInv'
  BY <1>1 DEF RingInv, RingTypeInv
<1>4. KnownIndices'
  BY <1>2 DEF RingInv, RingTypeInv, KnownIndices
<1>5. AccessedSlots'
  BY DEF RingInv, RingTypeInv, AccessedSlots
<1>6. CopiedBlocks'
  BY DEF RingInv, CopiedBlocks
<1> QED
  BY <1>3, <1>4, <1>5, <1>6 DEF RingInv

LEMMA EndPopInv ==
  ASSUME SingleConsumer, RingInv, NEW c \in Consumers, EndPop(c)
  PROVE  RingInv'
<1> USE DEF EndPop
<1>1. head \in Slots /\ tail \in Slots /\ Increment(tail) \in Slots /\ knownHead[c] \in Slots
  BY IncrementSlot DEF RingInv, RingTypeInv
<1>2. /\ popping[c] = tail /\ tail # knownHead[c] /\ tail # head
      /\ Ahead(tail, head) \in 1..Capacity /\ tail' = Increment(tail)
  BY PopHasBlock
<1>3. /\ Ahead(tail', head) = Ahead(tail, head) - 1
      /\ Ahead(tail', knownHead[c]) = Ahead(tail, knownHead[c]) - 1
      /\ \A n \in 0..(Capacity - 1) : Advanced(tail', n) = Advanced(tail, n + 1)
  BY <1>1, <1>2, PopIndex
<1>4. RingTypeInv'
  BY <1>1, <1>2 DEF RingInv, RingTypeInv
<1>5. KnownIndices'
  <2>1. /\ Ahead(knownTail, head) \in 0..Capacity
        /\ Ahead(tail, knownHead[c]) \in 0..Capacity
    BY <1>1, AheadRange DEF RingInv, RingTypeInv
  <2>2. /\ Ahead(tail, head) <= Ahead(knownTail, head)
        /\ Ahead(tail, knownHead[c]) <= Ahead(tail, head)
    BY DEF RingInv, KnownIndices
  <2>3. Ahead(tail', head) <= Ahead(knownTail, head)
    BY <1>2, <1>3, <2>1, <2>2, RingAssumption
  <2>4. Ahead(tail', knownHead[c]) <= Ahead(tail', head)
    BY <1>2, <1>3, <2>1, <2>2, RingAssumption
  <2>5. \A d \in Consumers : knownHead'[d] = knownHead[c]
    BY DEF SingleConsumer
  <2> QED
    BY <2>3, <2>4, <2>5 DEF KnownIndices
<1>6. AccessedSlots'
  <2>1. \A d \in Consumers : popping'[d] = Idle
    BY DEF SingleConsumer, RingInv, RingTypeInv
  <2> QED
    BY <2>1 DEF RingInv, AccessedSlots
<1>7. CopiedBlocks'
  <2> SUFFICES ASSUME NEW n \in 0..(Ahead(tail', head) - 1)
               PROVE  storage[Advanced(tail', n)] \in Blocks
    BY DEF CopiedBlocks
  <2>1. n + 1 \in 0..(Ahead(tail, head) - 1) /\ n \in 0..(Capacity - 1)
    BY <1>2, <1>3, RingAssumption
  <2>2. Advanced(tail', n) = Advanced(tail, n + 1)
    BY <1>3, <2>1
  <2> QED
    BY <2>1, <2>2 DEF RingInv, CopiedBlocks
<1> QED
  BY <1>4, <1>5, <1>6, <1>7 DEF RingInv

-----------------------------------------------------------------------------
(* Under one consumer every index stays where its thread believes it, and  *)
(* every slot between the indices holds a block that was copied in whole.  *)
THEOREM RingWellFormed == ASSUME SingleConsumer PROVE RingSpec => []RingInv
<1>1. RingInv /\ [RingNext]_ringVars => RingInv'
  <2> SUFFICES ASSUME RingInv, [RingNext]_ringVars PROVE RingInv'
    OBVIOUS
  <2>1. ASSUME NEW b \in Blocks, BeginPush(b) PROVE RingInv'
    BY <2>1, BeginPushInv
  <2>2. CASE PushFails
    BY <2>2, PushFailsInv
  <2>3. CASE EndPush
    BY <2>3, EndPushInv
  <2>4. ASSUME NEW c \in Consumers, BeginPop(c) PROVE RingInv'
    BY <2>4, BeginPopInv
  <2>5. ASSUME NEW c \in Consumers, PopFails(c) PROVE RingInv'
    BY <2>5, PopFailsInv
  <2>6. ASSUME NEW c \in Consumers, EndPop(c) PROVE RingInv'
    BY <2>6, EndPopInv
  <2>7. CASE UNCHANGED ringVars
    BY <2>7 DEF ringVars, RingInv, RingTypeInv, KnownIndices, AccessedSlots, CopiedBlocks
  <2> QED
    BY <2>1, <2>2, <2>3, <2>4, <2>5, <2>6, <2>7 DEF RingNext, Push, Pop
<1> QED
  BY InitInv, <1>1, PTL DEF RingSpec

(* The producer and the consumer are never in the same slot. *)
THEOREM SlotsKeptApart == ASSUME SingleConsumer PROVE RingSpec => []NoTornBlock
<1>1. RingInv => NoTornBlock
  <2> SUFFICES ASSUME RingInv, NEW c \in Consumers, pushing # NoBlock
               PROVE  popping[c] # head
    BY DEF NoTornBlock
  <2>1. CASE popping[c] = Idle
    BY <2>1, RingAssumption DEF RingInv, RingTypeInv, Slots, Idle
  <2>2. CASE popping[c] # Idle
    BY <2>2, PopHasBlock
  <2> QED
    BY <2>1, <2>2
<1> QED
  BY RingWellFormed, <1>1, PTL

-----------------------------------------------------------------------------
(* The ring as a queue. *)
LEMMA QueueOf ==
  ASSUME NEW t \in Slots, NEW h \in Slots, NEW slots,
         \A n \in 0..(Ahead(t, h) - 1) : slots[Advanced(t, n)] \in Blocks,
         NEW q, q = [n \in 1..Ahead(t, h) |-> slots[Advanced(t, n - 1)]]
  PROVE  /\ q \in Seq(Blocks)
         /\ Len(q) = Ahead(t, h)
         /\ Ahead(t, h) \in 0..Capacity
         /\ \A n \in 1..Ahead(t, h) : q[n] = slots[Advanced(t, n - 1)]
<1>1. Ahead(t, h) \in 0..Capacity
  BY AheadRange
<1>2. \A n \in 1..Ahead(t, h) :
        n - 1 \in 0..(Ahead(t, h) - 1) /\ slots[Advanced(t, n - 1)] \in Blocks
  BY <1>1, RingAssumption
<1> QED
  BY <1>1, <1>2, RingAssumption

LEMMA ContentsSeq ==
  ASSUME RingInv
  PROVE  /\ Contents \in Seq(Blocks)
         /\ Len(Contents) = Ahead(tail, head)
         /\ Ahead(tail, head) \in 0..Capacity
         /\ \A n \in 1..Ahead(tail, head) : Contents[n] = storage[Advanced(tail, n - 1)]
BY QueueOf DEF RingInv, RingTypeInv, CopiedBlocks, Contents

LEMMA NextContentsSeq ==
  ASSUME RingInv'
  PROVE  /\ Contents' \in Seq(Blocks)
         /\ Len(Contents') = Ahead(tail', head')
         /\ Ahead(tail', head') \in 0..Capacity
         /\ \A n \in 1..Ahead(tail', head') :
              Contents'[n] = storage'[Advanced(tail', n - 1)]
BY QueueOf DEF RingInv, RingTypeInv, CopiedBlocks, Contents

LEMMA SameContents ==
  ASSUME RingInv, UNCHANGED <<tail, head>>,
         \A n \in 0..(Ahead(tail, head) - 1) :
           storage'[Advanced(tail, n)] = storage[Advanced(tail, n)]
  PROVE  Contents' = Contents
<1>1. Ahead(tail, head) \in 0..Capacity
  BY AheadRange DEF RingInv, RingTypeInv
<1>2. \A n \in 1..Ahead(tail, head) : n - 1 \in 0..(Ahead(tail, head) - 1)
  BY <1>1, RingAssumption
<1> QED
  BY <1>2 DEF Contents

LEMMA InitQueue == RingInit => Fifo!Init
<1> SUFFICES ASSUME RingInit PROVE Fifo!Init
  OBVIOUS
<1>1. RingInv
  BY InitInv
<1>2. Ahead(tail, head) = 0
  BY DEF RingInit, Ahead
<1>3. Contents = <<>>
  BY <1>1, <1>2, ContentsSeq, EmptySeq
<1> QED
  BY <1>3 DEF RingInit, Fifo!Init

(* The store to head_ is the step at which a block enters the queue.       *)
LEMMA EndPushAccepts ==
  ASSUME RingInv, EndPush
  PROVE  Fifo!Accept
<1> USE DEF EndPush
<1> DEFINE len == Ahead(tail, head)
<1>1. /\ RingInv'
      /\ pushing \in Blocks
      /\ Ahead(tail', head') = len + 1
  BY EndPushInv, PushHasRoom
<1>2. /\ Contents \in Seq(Blocks) /\ Len(Contents) = len /\ len \in 0..Capacity
      /\ \A n \in 1..len : Contents[n] = storage[Advanced(tail, n - 1)]
  BY ContentsSeq
<1>3. /\ Contents' \in Seq(Blocks) /\ Len(Contents') = len + 1 /\ len + 1 \in 0..Capacity
      /\ \A n \in 1..(len + 1) : Contents'[n] = storage'[Advanced(tail, n - 1)]
  <2>1. /\ Contents' \in Seq(Blocks) /\ Len(Contents') = Ahead(tail', head')
        /\ Ahead(tail', head') \in 0..Capacity
        /\ \A n \in 1..Ahead(tail', head') :
             Contents'[n] = storage'[Advanced(tail', n - 1)]
    BY <1>1, NextContentsSeq
  <2> QED
    BY <1>1, <2>1
<1>4. \A n \in 1..len : Contents'[n] = Contents[n]
  <2> SUFFICES ASSUME NEW n \in 1..len
               PROVE  storage'[Advanced(tail, n - 1)] = storage[Advanced(tail, n - 1)]
    BY <1>2, <1>3
  <2>1. n - 1 \in 0..(Ahead(tail, head) - 1)
    BY <1>2, RingAssumption
  <2>2. Advanced(tail, n - 1) \in Slots /\ Advanced(tail, n - 1) # head
    BY <2>1, BelowHead DEF RingInv, RingTypeInv
  <2> QED
    BY <2>2 DEF RingInv, RingTypeInv
<1>5. Contents'[len + 1] = pushing
  <2>1. Advanced(tail, len) = head /\ head \in Slots
    BY AheadRange DEF RingInv, RingTypeInv
  <2>2. storage'[head] = pushing
    BY <2>1 DEF RingInv, RingTypeInv
  <2>3. len + 1 \in 1..(len + 1) /\ (len + 1) - 1 = len
    BY <1>2, RingAssumption
  <2> QED
    BY <1>3, <2>1, <2>2, <2>3
<1>6. Contents' = Append(Contents, pushing)
  <2> DEFINE longer == Append(Contents, pushing)
  <2>1. /\ longer \in Seq(Blocks) /\ Len(longer) = len + 1
        /\ \A n \in 1..len : longer[n] = Contents[n]
        /\ longer[len + 1] = pushing
    BY <1>1, <1>2, AppendProperties
  <2>2. \A n \in 1..(len + 1) : Contents'[n] = longer[n]
    BY <1>2, <1>4, <1>5, <2>1
  <2> HIDE DEF longer, len
  <2>3. Contents' = longer
    BY <1>3, <2>1, <2>2, SeqEqual
  <2> QED
    BY <2>3 DEF longer
<1>7. Len(Contents) < Capacity
  BY <1>2, <1>3, RingAssumption
<1> QED
  BY <1>1, <1>6, <1>7 DEF Fifo!Accept

(* The store to tail_ is the step at which a block leaves it.              *)
LEMMA EndPopTakes ==
  ASSUME SingleConsumer, RingInv, NEW c \in Consumers, EndPop(c)
  PROVE  Fifo!Take
<1> USE DEF EndPop
<1> DEFINE len == Ahead(tail, head)
<1>1. /\ popping[c] = tail /\ tail # head /\ len \in 1..Capacity /\ tail' = Increment(tail)
  BY PopHasBlock
<1>2. /\ Contents \in Seq(Blocks) /\ Len(Contents) = len
      /\ \A n \in 1..len : Contents[n] = storage[Advanced(tail, n - 1)]
  BY ContentsSeq
<1>3. tail \in Slots /\ head \in Slots
  BY DEF RingInv, RingTypeInv
<1>4. /\ Ahead(tail', head') = len - 1
      /\ \A n \in 0..(Capacity - 1) : Advanced(tail', n) = Advanced(tail, n + 1)
  BY <1>1, <1>3, PopIndex
<1>5. RingInv'
  BY EndPopInv
<1>6. /\ Contents' \in Seq(Blocks) /\ Len(Contents') = len - 1
      /\ \A n \in 1..(len - 1) : Contents'[n] = storage'[Advanced(tail', n - 1)]
  <2>1. /\ Contents' \in Seq(Blocks) /\ Len(Contents') = Ahead(tail', head')
        /\ \A n \in 1..Ahead(tail', head') :
             Contents'[n] = storage'[Advanced(tail', n - 1)]
    BY <1>5, NextContentsSeq
  <2> QED
    BY <1>4, <2>1
<1>7. Contents # <<>> /\ Head(Contents) = taken'
  <2>1. Advanced(tail, 0) = tail
    BY <1>3, RingAssumption DEF Slots, Advanced
  <2>2. Contents # <<>> /\ Head(Contents) = Contents[1]
    BY <1>1, <1>2, RingAssumption
  <2> QED
    BY <1>1, <1>2, <2>1, <2>2, RingAssumption
<1>8. \A n \in 1..(len - 1) : Contents'[n] = Contents[n + 1]
  <2> SUFFICES ASSUME NEW n \in 1..(len - 1) PROVE Contents'[n] = Contents[n + 1]
    OBVIOUS
  <2>1. /\ n - 1 \in 0..(Capacity - 1) /\ (n - 1) + 1 = n
        /\ n + 1 \in 1..len /\ (n + 1) - 1 = n
    BY <1>1, RingAssumption
  <2>2. Advanced(tail', n - 1) = Advanced(tail, n)
    BY <1>4, <2>1
  <2> QED
    BY <1>2, <1>6, <2>1, <2>2
<1>9. Contents' = Tail(Contents)
  <2> DEFINE shorter == Tail(Contents)
  <2>1. /\ shorter \in Seq(Blocks) /\ Len(shorter) = len - 1
        /\ \A n \in 1..(len - 1) : shorter[n] = Contents[n + 1]
    BY <1>2, <1>7, HeadTailProperties
  <2>2. \A n \in 1..(len - 1) : Contents'[n] = shorter[n]
    BY <1>8, <2>1
  <2> HIDE DEF shorter, len
  <2>3. Contents' = shorter
    BY <1>6, <2>1, <2>2, SeqEqual
  <2> QED
    BY <2>3 DEF shorter
<1> QED
  BY <1>7, <1>9 DEF Fifo!Take

(* Under one consumer the ring is a bounded queue: every store to head_ is *)
(* an Accept, every store to tail_ a Take, and nothing else shows.         *)
THEOREM RingIsFifo == ASSUME SingleConsumer PROVE RingSpec => FifoSpec
<1>1. RingInv /\ [RingNext]_ringVars => [Fifo!Next]_<<Contents, taken>>
  <2> SUFFICES ASSUME RingInv, [RingNext]_ringVars
               PROVE  Fifo!Next \/ UNCHANGED <<Contents, taken>>
    OBVIOUS
  <2>1. ASSUME NEW b \in Blocks, BeginPush(b) PROVE UNCHANGED <<Contents, taken>>
    <3>1. \A n \in 0..(Ahead(tail, head) - 1) :
            storage'[Advanced(tail, n)] = storage[Advanced(tail, n)]
      BY <2>1, BelowHead DEF BeginPush, RingInv, RingTypeInv
    <3> QED
      BY <2>1, <3>1, SameContents DEF BeginPush
  <2>2. CASE PushFails
    BY <2>2, SameContents DEF PushFails
  <2>3. CASE EndPush
    BY <2>3, EndPushAccepts DEF Fifo!Next
  <2>4. ASSUME NEW c \in Consumers, BeginPop(c) PROVE UNCHANGED <<Contents, taken>>
    BY <2>4, SameContents DEF BeginPop
  <2>5. ASSUME NEW c \in Consumers, PopFails(c) PROVE UNCHANGED <<Contents, taken>>
    BY <2>5, SameContents DEF PopFails
  <2>6. ASSUME NEW c \in Consumers, EndPop(c) PROVE Fifo!Next
    BY <2>6, EndPopTakes DEF Fifo!Next
  <2>7. CASE UNCHANGED ringVars
    BY <2>7, SameContents DEF ringVars
  <2> QED
    BY <2>1, <2>2, <2>3, <2>4, <2>5, <2>6, <2>7 DEF RingNext, Push, Pop
<1> QED
  BY InitQueue, RingWellFormed, <1>1, PTL DEF RingSpec, FifoSpec, Fifo!Spec

-----------------------------------------------------------------------------
(***************************************************************************)
(* Who is receiving is agreed once everything is said, for any inputs,     *)
(* receivers, frequencies and numbers of starts: what each queue will have *)
(* said when it is read to its end.                                        *)
(***************************************************************************)
AudioCommands == [op : {"audioStart"}, input : Inputs, of : Sessions]
SdrCommands == [op : {"sdrStart"}, receiver : Receivers, center : Centers, of : Sessions]
StopCommands == [op : {"audioStop", "sdrStop"}]
RetuneCommands == [op : {"retune"}, center : Centers]
AnyCommand == StopCommands \cup AudioCommands \cup SdrCommands \cup RetuneCommands
AnySignal == [op : {"start", "stop"}] \cup [op : {"window"}, window : Frequencies]
AnyReport ==
  [event : {"started", "failed", "audioStopped", "sdrStopped"}, of : Sessions]
  \cup [event : {"recovered"}, input : Inputs]
IsStart(m) == m.op \in {"audioStart", "sdrStart"}
Answers(m) == m.event \in {"started", "failed"}

(* The last of q that says something, if k is not 0; the ops are those     *)
(* that do.                                                                *)
Switching == {"audioStop", "sdrStop", "audioStart", "sdrStart"}
Runs == {"start", "stop"}
WindowOps == {"window"}
LastIn(q, ops, k) ==
  /\ k \in 0..Len(q)
  /\ k # 0 => q[k].op \in ops
  /\ \A i \in k + 1..Len(q) : q[i].op \notin ops

WillRun(q, held, goes) ==
  \A k \in 0..Len(q) : LastIn(q, Runs, k) => goes = IF k = 0 THEN held ELSE q[k].op = "start"
WillHear(q, held, window) ==
  \A k \in 0..Len(q) : LastIn(q, WindowOps, k) => window = IF k = 0 THEN held ELSE q[k].window

(* A start follows the stop of the other source, of which at most the one  *)
(* that is next is carried out already.                                    *)
Paired(q, audio, sdr) ==
  \A i \in 1..Len(q) :
    /\ q[i].op = "audioStart" => IF i = 1 THEN sdr = None ELSE q[i - 1].op = "sdrStop"
    /\ q[i].op = "sdrStart" => IF i = 1 THEN audio = None ELSE q[i - 1].op = "audioStop"
    /\ q[i].op = "sdrStop" => \/ IF i = 1 THEN audio = None ELSE q[i - 1].op = "audioStop"
                              \/ i < Len(q) /\ q[i + 1].op = "audioStart"
    /\ q[i].op = "audioStop" => i < Len(q) /\ q[i + 1].op \in {"sdrStop", "sdrStart"}

Recoveries(q) ==
  \A i \in 1..Len(q) : q[i].event = "recovered" => i < Len(q) /\ q[i + 1].event = "started"

(* What is carried out and reported is of this session or one before it,   *)
(* and while a switch is on its way, of one before it.                     *)
OfTheirTime(q, times, s) ==
  /\ \A t \in times : t <= s
  /\ \A i \in 1..Len(q) : IsStart(q[i]) => q[i].of <= s
  /\ \A k \in 1..Len(q) : LastIn(q, Switching, k) =>
       /\ \A t \in times : t < s
       /\ \A i \in 1..k - 1 : IsStart(q[i]) => q[i].of < s
TimesOf(reports) == {reports[i].of : i \in {j \in 1..Len(reports) : Answers(reports[j])}}

(* No report of an earlier session was taken for this one, nor will be.    *)
Clean(reports, crosses, s) == ~crosses /\ \A t \in TimesOf(reports) : t = s

(* What a command m asks for, with the last of the commands: the selected  *)
(* source as it is selected, and that the DSP worker runs with it.         *)
AsksFor(m, last, u, clean, gone, on, off) ==
  /\ m.op = "audioStart" =>
       u.mode = "audio" /\ (clean => on) /\ (clean /\ ~gone => m.input = u.input)
  /\ m.op = "sdrStart" =>
       u.mode = "sdr" /\ (clean => on) /\ (~gone => m.receiver = u.receiver /\ last.center = u.center)
  /\ m.op = "sdrStop" => (clean => ~u.live /\ off)
Switches(q, u, clean, gone, on, off) ==
  \A k \in 1..Len(q) : LastIn(q, Switching, k) => AsksFor(q[k], q[Len(q)], u, clean, gone, on, off)

(* When no switch is on its way: of the selected source, of what is        *)
(* selected or will be, and live or off or about to be.                    *)
OfSource(q, u, c, gone) ==
  /\ c.audio # None => u.mode = "audio"
  /\ c.sdr # None => u.mode = "sdr"
  /\ c.sdr # None /\ ~gone =>
       /\ c.sdr = u.receiver
       /\ u.center = IF q # <<>> THEN q[Len(q)].center ELSE IF c.retune # NoRetune THEN c.retune ELSE c.center
OfInput(u, audio, reports) ==
  /\ \A i \in 1..Len(reports) : reports[i].event = "recovered" => reports[i].input = audio
  /\ u.input = audio \/ \E i \in 1..Len(reports) : reports[i].event = "recovered"
GoesLive(u, reports, on) ==
  /\ on
  /\ \A i \in 1..Len(reports) : reports[i].event # "failed"
  /\ IF reports = <<>> THEN u.live ELSE reports[Len(reports)].event = "started"
GoesOff(u, reports, off) ==
  \/ reports # <<>> /\ reports[Len(reports)].event = "failed"
  \/ ~u.live /\ off /\ \A i \in 1..Len(reports) : reports[i].event # "started"
Hears(c) == c.sdr # None \/ (c.audio # None /\ ~c.broken)
Delivers(q, u, c, reports, clean, gone, on, off) ==
  LastIn(q, Switching, 0) =>
    /\ OfSource(q, u, c, gone)
    /\ clean /\ ~gone /\ c.audio # None => OfInput(u, c.audio, reports)
    /\ clean /\ Hears(c) => GoesLive(u, reports, on)
    /\ clean /\ ~Hears(c) => GoesOff(u, reports, off)

AnyUi == [mode : Modes, live : BOOLEAN, error : BOOLEAN, input : Inputs,
          receiver : Receivers \cup {None}, center : Centers, window : Frequencies]
AnyCapture == [audio : Inputs \cup {None}, broken : BOOLEAN, sdr : Receivers \cup {None},
               center : Centers, retune : Centers \cup {NoRetune}, of : Sessions]
AnyHearing == [running : BOOLEAN, window : Frequencies]
Fits(u) == Distance(u.window, u.center) + DecoderHalf < Half
On == WillRun(toDsp, hearing.running, TRUE)
Off == WillRun(toDsp, hearing.running, FALSE)
InTime == Clean(toUi, crossed, session)

ReceptionTypes ==
  /\ ui \in AnyUi /\ permission \in {"undetermined", "granted", "denied"} /\ asked \in BOOLEAN
  /\ capture \in AnyCapture /\ hearing \in AnyHearing
  /\ session \in Sessions /\ crossed \in BOOLEAN /\ missed \in BOOLEAN
  /\ toCapture \in Seq(AnyCommand) /\ toDsp \in Seq(AnySignal) /\ toUi \in Seq(AnyReport)
OneSource ==
  /\ capture.audio = None \/ capture.sdr = None
  /\ Paired(toCapture, capture.audio, capture.sdr)
Ordered == Recoveries(toUi) /\ OfTheirTime(toCapture, {capture.of} \cup TimesOf(toUi), session)
Tuned == Fits(ui) /\ WillHear(toDsp, hearing.window, ui.window)

ReceptionIInv ==
  /\ ReceptionTypes /\ OneSource /\ Ordered /\ Tuned
  /\ Switches(toCapture, ui, InTime, missed, On, Off)
  /\ Delivers(toCapture, ui, capture, toUi, InTime, missed, On, Off)

-----------------------------------------------------------------------------
(* A queue with more put on its end.                                       *)
LEMMA JoinIs ==
  ASSUME NEW S, NEW q \in Seq(S), NEW c \in Seq(S), NEW r, r = q \o c
  PROVE  /\ r \in Seq(S) /\ Len(r) = Len(q) + Len(c) /\ Len(q) \in Nat /\ Len(c) \in Nat
         /\ \A i \in 1..Len(q) : r[i] = q[i] /\ i \in 1..Len(r)
         /\ \A i \in 1..Len(c) : r[Len(q) + i] = c[i] /\ Len(q) + i \in 1..Len(r)
         /\ \A i \in Len(q) + 1..Len(r) : r[i] = c[i - Len(q)] /\ i - Len(q) \in 1..Len(c)
         /\ Len(c) = 0 => r = q
  <1>1. /\ r \in Seq(S) /\ Len(r) = Len(q) + Len(c) /\ Len(q) \in Nat /\ Len(c) \in Nat
        /\ \A i \in 1..Len(r) : r[i] = IF i <= Len(q) THEN q[i] ELSE c[i - Len(q)]
    BY ConcatProperties, LenProperties
  <1>2. ASSUME Len(c) = 0 PROVE r = q
    <2>1. Len(r) = Len(q) /\ \A i \in 1..Len(q) : r[i] = q[i]
      BY <1>1, <1>2
    <2>2. QED BY <1>1, <2>1, SeqEqual
  <1>3. QED BY <1>1, <1>2

(* A queue without its first.                                              *)
LEMMA TailIs ==
  ASSUME NEW S, NEW q \in Seq(S), q # <<>>, NEW r, r = Tail(q)
  PROVE  /\ r \in Seq(S) /\ Len(q) \in Nat /\ Len(r) \in Nat /\ Len(q) = Len(r) + 1
         /\ Head(q) = q[1] /\ 1 \in 1..Len(q) /\ q[1] \in S
         /\ \A i \in 1..Len(r) : r[i] = q[i + 1] /\ i + 1 \in 1..Len(q)
         /\ \A i \in 2..Len(q) : q[i] = r[i - 1] /\ i - 1 \in 1..Len(r)
         /\ r = <<>> <=> Len(q) = 1
  <1>1. /\ r \in Seq(S) /\ Len(q) \in Nat /\ Len(q) > 0 /\ Len(r) = Len(q) - 1
        /\ Head(q) = q[1] /\ \A i \in 1..Len(r) : r[i] = q[i + 1]
    BY HeadTailProperties, LenProperties, EmptySeq
  <1>2. q[1] \in S
    BY <1>1, ElementOfSeq
  <1>3. r = <<>> <=> Len(r) = 0
    BY <1>1, EmptySeq
  <1>4. QED BY <1>1, <1>2, <1>3

(* What a command carries.                                                 *)
LEMMA CommandIs ==
  ASSUME NEW m \in AnyCommand
  PROVE  /\ m.op \in Switching \cup {"retune"}
         /\ m.op = "audioStart" => m.input \in Inputs /\ m.of \in Sessions
         /\ m.op = "sdrStart" => m.receiver \in Receivers /\ m.center \in Centers /\ m.of \in Sessions
         /\ m.op = "retune" => m.center \in Centers
  BY DEF AnyCommand, AudioCommands, SdrCommands, StopCommands, RetuneCommands, Switching

(* What a signal to the DSP worker carries.                                *)
LEMMA SignalIs ==
  ASSUME NEW m \in AnySignal
  PROVE  m.op \in {"start", "stop", "window"} /\ (m.op = "window" => m.window \in Frequencies)
  BY DEF AnySignal

(* What a report carries.                                                  *)
LEMMA ReportIs ==
  ASSUME NEW m \in AnyReport
  PROVE  /\ m.event \in {"started", "failed", "audioStopped", "sdrStopped", "recovered"}
         /\ m.event # "recovered" => m.of \in Sessions
         /\ m.event = "recovered" => m.input \in Inputs
  BY DEF AnyReport

(* What is said last, when the first is read or another is said. *)
LEMMA LastOfTail ==
  ASSUME NEW S, NEW q \in Seq(S), q # <<>>, NEW r, r = Tail(q), NEW ops, NEW k, LastIn(r, ops, k)
  PROVE  /\ k # 0 => LastIn(q, ops, k + 1) /\ r[k] = q[k + 1] /\ k + 1 \in 1..Len(q)
         /\ k = 0 /\ q[1].op \in ops => LastIn(q, ops, 1)
         /\ k = 0 /\ q[1].op \notin ops => LastIn(q, ops, 0)
  <1>1. /\ Len(q) \in Nat /\ Len(r) \in Nat /\ Len(q) = Len(r) + 1
        /\ \A i \in 1..Len(r) : r[i] = q[i + 1]
        /\ \A i \in 2..Len(q) : q[i] = r[i - 1] /\ i - 1 \in 1..Len(r)
    BY TailIs
  <1>2. k \in 0..Len(r) /\ \A i \in k + 1..Len(r) : r[i].op \notin ops
    BY DEF LastIn
  <1>3. \A i \in k + 2..Len(q) : q[i].op \notin ops
    <2>1. \A i \in k + 2..Len(q) : q[i] = r[i - 1] /\ i - 1 \in k + 1..Len(r)
      BY <1>1, <1>2
    <2>2. QED BY <1>2, <2>1
  <1>4. CASE k # 0
    BY <1>1, <1>2, <1>3, <1>4 DEF LastIn
  <1>5. CASE k = 0
    <2>1. \A i \in 1..Len(q) : i = 1 \/ i \in 2..Len(q)
      BY <1>1
    <2>2. QED BY <1>1, <1>3, <1>5, <2>1 DEF LastIn
  <1>6. QED BY <1>4, <1>5

(* What is put on the end says nothing: the last that does is the last     *)
(* before.                                                                 *)
LEMMA LastBefore ==
  ASSUME NEW S, NEW q \in Seq(S), NEW c \in Seq(S), NEW r, r = q \o c, NEW ops, NEW k, LastIn(r, ops, k),
         \A i \in 1..Len(c) : c[i].op \notin ops
  PROVE  LastIn(q, ops, k)
  <1>1. /\ Len(r) = Len(q) + Len(c) /\ Len(q) \in Nat /\ Len(c) \in Nat
        /\ \A i \in 1..Len(q) : r[i] = q[i] /\ i \in 1..Len(r)
        /\ \A i \in Len(q) + 1..Len(r) : r[i] = c[i - Len(q)] /\ i - Len(q) \in 1..Len(c)
    BY JoinIs
  <1>2. /\ k \in 0..Len(r) /\ \A i \in k + 1..Len(r) : r[i].op \notin ops
        /\ k # 0 => r[k].op \in ops
    BY DEF LastIn
  <1>3. k \in 0..Len(q)
    <2>1. SUFFICES ASSUME k \in Len(q) + 1..Len(r) PROVE FALSE
      BY <1>1, <1>2
    <2>2. k # 0 /\ r[k] = c[k - Len(q)] /\ k - Len(q) \in 1..Len(c)
      BY <1>1, <2>1
    <2>3. QED BY <1>2, <2>2
  <1>4. k # 0 => k \in 1..Len(q) /\ r[k] = q[k]
    BY <1>1, <1>3
  <1>5. \A i \in k + 1..Len(q) : r[i] = q[i] /\ i \in k + 1..Len(r)
    BY <1>1, <1>3
  <1>6. QED BY <1>2, <1>3, <1>4, <1>5 DEF LastIn

(* The end of what is put on is the end of the queue.                      *)
LEMMA EndOfJoin ==
  ASSUME NEW S, NEW q \in Seq(S), NEW c \in Seq(S), NEW r, r = q \o c, Len(c) # 0
  PROVE  Len(r) \in 1..Len(r) /\ r[Len(r)] = c[Len(c)] /\ Len(r) - 1 = Len(q) + (Len(c) - 1)
  <1>1. /\ Len(r) = Len(q) + Len(c) /\ Len(q) \in Nat /\ Len(c) \in Nat /\ Len(r) \in Nat
        /\ \A i \in 1..Len(c) : r[Len(q) + i] = c[i] /\ Len(q) + i \in 1..Len(r)
    BY JoinIs
  <1>2. Len(c) \in 1..Len(c)
    BY <1>1
  <1>3. QED BY <1>1, <1>2

(* When the end of the queue says something, it is the last that does.     *)
LEMMA LastSaid ==
  ASSUME NEW r, NEW ops, NEW k, LastIn(r, ops, k), Len(r) \in 1..Len(r), r[Len(r)].op \in ops
  PROVE  k = Len(r)
  <1>1. k \in 0..Len(r) /\ Len(r) \notin k + 1..Len(r)
    BY DEF LastIn
  <1>2. QED BY <1>1

-----------------------------------------------------------------------------
(* What the DSP worker will be told. *)
LEMMA RunsOnTail ==
  ASSUME NEW q \in Seq(AnySignal), q # <<>>, NEW r, r = Tail(q), NEW held, NEW goes, WillRun(q, held, goes),
         NEW heard, heard = IF q[1].op \in Runs THEN q[1].op = "start" ELSE held
  PROVE  WillRun(r, heard, goes)
  <1> SUFFICES ASSUME NEW k \in 0..Len(r), LastIn(r, Runs, k)
               PROVE  goes = IF k = 0 THEN heard ELSE r[k].op = "start"
    BY DEF WillRun
  <1>1. /\ k # 0 => LastIn(q, Runs, k + 1) /\ r[k] = q[k + 1] /\ k + 1 \in 1..Len(q)
        /\ k = 0 /\ q[1].op \in Runs => LastIn(q, Runs, 1)
        /\ k = 0 /\ q[1].op \notin Runs => LastIn(q, Runs, 0)
    BY LastOfTail
  <1>2. Len(q) \in Nat /\ Len(r) \in Nat /\ Len(q) = Len(r) + 1 /\ k \in Nat
    BY TailIs
  <1>3. CASE k # 0
    <2>1. k + 1 \in 0..Len(q) /\ k + 1 # 0
      BY <1>2
    <2>2. goes = (q[k + 1].op = "start")
      BY <1>1, <1>3, <2>1 DEF WillRun
    <2>3. QED BY <1>1, <1>3, <2>2
  <1>4. CASE k = 0 /\ q[1].op \in Runs
    <2>1. 1 \in 0..Len(q)
      BY <1>2
    <2>2. goes = (q[1].op = "start")
      BY <1>1, <1>4, <2>1 DEF WillRun
    <2>3. QED BY <1>4, <2>2
  <1>5. CASE k = 0 /\ q[1].op \notin Runs
    <2>1. 0 \in 0..Len(q)
      BY <1>2
    <2>2. goes = held
      BY <1>1, <1>5, <2>1 DEF WillRun
    <2>3. QED BY <1>5, <2>2
  <1>6. QED BY <1>3, <1>4, <1>5

(* What the DSP worker will do once it has read what is put on its queue.  *)
LEMMA RunsOnJoin ==
  ASSUME NEW q \in Seq(AnySignal), NEW c \in Seq(AnySignal), NEW r, r = q \o c, NEW held, NEW goes
  PROVE  /\ (\A i \in 1..Len(c) : c[i].op \notin Runs) /\ WillRun(q, held, goes) => WillRun(r, held, goes)
         /\ Len(c) # 0 /\ c[Len(c)].op \in Runs /\ goes = (c[Len(c)].op = "start") => WillRun(r, held, goes)
  <1>1. ASSUME \A i \in 1..Len(c) : c[i].op \notin Runs, WillRun(q, held, goes),
               NEW k \in 0..Len(r), LastIn(r, Runs, k)
        PROVE  goes = IF k = 0 THEN held ELSE r[k].op = "start"
    <2>1. LastIn(q, Runs, k)
      BY <1>1, LastBefore
    <2>2. k \in 0..Len(q) /\ (k # 0 => k \in 1..Len(q))
      BY <2>1 DEF LastIn
    <2>3. k # 0 => r[k] = q[k]
      BY <2>2, JoinIs
    <2>4. QED BY <1>1, <2>1, <2>2, <2>3 DEF WillRun
  <1>2. ASSUME Len(c) # 0, c[Len(c)].op \in Runs, goes = (c[Len(c)].op = "start"),
               NEW k \in 0..Len(r), LastIn(r, Runs, k)
        PROVE  goes = IF k = 0 THEN held ELSE r[k].op = "start"
    <2>1. Len(r) \in 1..Len(r) /\ r[Len(r)] = c[Len(c)]
      BY <1>2, EndOfJoin
    <2>2. k = Len(r)
      BY <1>2, <2>1, LastSaid
    <2>3. QED BY <1>2, <2>1, <2>2
  <1>3. QED BY <1>1, <1>2 DEF WillRun

(* Reading a signal takes the window it carries, and leaves the last one.  *)
LEMMA HearsOnTail ==
  ASSUME NEW q \in Seq(AnySignal), q # <<>>, NEW r, r = Tail(q), NEW held, NEW window, WillHear(q, held, window),
         NEW heard, heard = IF q[1].op = "window" THEN q[1].window ELSE held
  PROVE  WillHear(r, heard, window)
  <1> SUFFICES ASSUME NEW k \in 0..Len(r), LastIn(r, WindowOps, k)
               PROVE  window = IF k = 0 THEN heard ELSE r[k].window
    BY DEF WillHear
  <1>1. /\ k # 0 => LastIn(q, WindowOps, k + 1) /\ r[k] = q[k + 1] /\ k + 1 \in 1..Len(q)
        /\ k = 0 /\ q[1].op \in WindowOps => LastIn(q, WindowOps, 1)
        /\ k = 0 /\ q[1].op \notin WindowOps => LastIn(q, WindowOps, 0)
    BY LastOfTail
  <1>2. Len(q) \in Nat /\ Len(r) \in Nat /\ Len(q) = Len(r) + 1 /\ k \in Nat
    BY TailIs
  <1>3. CASE k # 0
    <2>1. k + 1 \in 0..Len(q) /\ k + 1 # 0
      BY <1>2
    <2>2. window = q[k + 1].window
      BY <1>1, <1>3, <2>1 DEF WillHear
    <2>3. QED BY <1>1, <1>3, <2>2
  <1>4. CASE k = 0 /\ q[1].op = "window"
    <2>1. 1 \in 0..Len(q)
      BY <1>2
    <2>2. window = q[1].window
      BY <1>1, <1>4, <2>1 DEF WillHear, WindowOps
    <2>3. QED BY <1>4, <2>2
  <1>5. CASE k = 0 /\ q[1].op # "window"
    <2>1. 0 \in 0..Len(q)
      BY <1>2
    <2>2. window = held
      BY <1>1, <1>5, <2>1 DEF WillHear, WindowOps
    <2>3. QED BY <1>5, <2>2
  <1>6. QED BY <1>3, <1>4, <1>5

(* The window the DSP worker will hear, once it has read what is put on.   *)
LEMMA HearsOnJoin ==
  ASSUME NEW q \in Seq(AnySignal), NEW c \in Seq(AnySignal), NEW r, r = q \o c, NEW held, NEW window
  PROVE  /\ (\A i \in 1..Len(c) : c[i].op # "window") /\ WillHear(q, held, window) => WillHear(r, held, window)
         /\ Len(c) # 0 /\ c[Len(c)].op = "window" /\ window = c[Len(c)].window => WillHear(r, held, window)
  <1>1. ASSUME \A i \in 1..Len(c) : c[i].op # "window", WillHear(q, held, window),
               NEW k \in 0..Len(r), LastIn(r, WindowOps, k)
        PROVE  window = IF k = 0 THEN held ELSE r[k].window
    <2>1. LastIn(q, WindowOps, k)
      <3>1. \A i \in 1..Len(c) : c[i].op \notin WindowOps
        BY <1>1 DEF WindowOps
      <3>2. QED BY <1>1, <3>1, LastBefore
    <2>2. k \in 0..Len(q) /\ (k # 0 => k \in 1..Len(q))
      BY <2>1 DEF LastIn
    <2>3. k # 0 => r[k] = q[k]
      BY <2>2, JoinIs
    <2>4. QED BY <1>1, <2>1, <2>2, <2>3 DEF WillHear
  <1>2. ASSUME Len(c) # 0, c[Len(c)].op = "window", window = c[Len(c)].window,
               NEW k \in 0..Len(r), LastIn(r, WindowOps, k)
        PROVE  window = IF k = 0 THEN held ELSE r[k].window
    <2>1. Len(r) \in 1..Len(r) /\ r[Len(r)] = c[Len(c)]
      BY <1>2, EndOfJoin
    <2>2. k = Len(r)
      BY <1>2, <2>1, LastSaid DEF WindowOps
    <2>3. QED BY <1>2, <2>1, <2>2
  <1>3. QED BY <1>1, <1>2 DEF WillHear

-----------------------------------------------------------------------------
(* What the command m makes of the sources a and s.                        *)
Carries(m, a, s, b, t) ==
  /\ m.op = "audioStop" => b = None /\ t = s
  /\ m.op = "sdrStop" => t = None /\ b = a
  /\ m.op = "audioStart" => t = s
  /\ m.op = "sdrStart" => b = a
  /\ m.op = "retune" => b = a /\ t = s

(* The starts and the stops that go before them, as the worker takes the   *)
(* first and as the controller sends more.                                 *)
LEMMA PairedTail ==
  ASSUME NEW q \in Seq(AnyCommand), q # <<>>, NEW r, r = Tail(q),
         NEW a, NEW s, Paired(q, a, s), NEW b, NEW t, Carries(q[1], a, s, b, t)
  PROVE  Paired(r, b, t)
  <1>1. /\ Len(q) \in Nat /\ Len(r) \in Nat /\ Len(q) = Len(r) + 1 /\ 1 \in 1..Len(q)
        /\ \A i \in 1..Len(r) : r[i] = q[i + 1] /\ i + 1 \in 1..Len(q)
    BY TailIs
  <1> SUFFICES ASSUME NEW i \in 1..Len(r)
               PROVE  /\ r[i].op = "audioStart" => IF i = 1 THEN t = None ELSE r[i - 1].op = "sdrStop"
                      /\ r[i].op = "sdrStart" => IF i = 1 THEN b = None ELSE r[i - 1].op = "audioStop"
                      /\ r[i].op = "sdrStop" => \/ IF i = 1 THEN b = None ELSE r[i - 1].op = "audioStop"
                                                \/ i < Len(r) /\ r[i + 1].op = "audioStart"
                      /\ r[i].op = "audioStop" => i < Len(r) /\ r[i + 1].op \in {"sdrStop", "sdrStart"}
    BY DEF Paired
  <1> DEFINE j == i + 1
  <1>2. /\ r[i] = q[j] /\ j \in 1..Len(q) /\ j # 1 /\ j - 1 = i /\ (i = 1 => q[j - 1] = q[1])
        /\ (j < Len(q) <=> i < Len(r)) /\ (i < Len(r) => r[i + 1] = q[j + 1])
        /\ i # 1 => r[i - 1] = q[j - 1]
    BY <1>1
  <1>3. /\ q[j].op = "audioStart" => q[j - 1].op = "sdrStop"
        /\ q[j].op = "sdrStart" => q[j - 1].op = "audioStop"
        /\ q[j].op = "sdrStop" => \/ q[j - 1].op = "audioStop"
                                  \/ j < Len(q) /\ q[j + 1].op = "audioStart"
        /\ q[j].op = "audioStop" => j < Len(q) /\ q[j + 1].op \in {"sdrStop", "sdrStart"}
    BY <1>2 DEF Paired
  <1>4. CASE i = 1
    BY <1>2, <1>3, <1>4 DEF Carries
  <1>5. CASE i # 1
    BY <1>2, <1>3, <1>5
  <1>6. QED BY <1>4, <1>5

(* Commands that hold the stops their own starts need.                     *)
Whole(c) ==
  \A i \in 1..Len(c) :
    /\ c[i].op = "audioStart" => i # 1 /\ c[i - 1].op = "sdrStop"
    /\ c[i].op = "sdrStart" => i # 1 /\ c[i - 1].op = "audioStop"
    /\ c[i].op = "sdrStop" => \/ i # 1 /\ c[i - 1].op = "audioStop"
                              \/ i < Len(c) /\ c[i + 1].op = "audioStart"
    /\ c[i].op = "audioStop" => i < Len(c) /\ c[i + 1].op \in {"sdrStop", "sdrStart"}

(* What is sent whole leaves every start after its stop.                   *)
LEMMA PairedJoin ==
  ASSUME NEW q \in Seq(AnyCommand), NEW c \in Seq(AnyCommand), NEW r, r = q \o c,
         NEW a, NEW s, Paired(q, a, s), Whole(c)
  PROVE  Paired(r, a, s)
  <1>1. /\ Len(r) = Len(q) + Len(c) /\ Len(q) \in Nat /\ Len(c) \in Nat
        /\ \A i \in 1..Len(q) : r[i] = q[i] /\ i \in 1..Len(r)
        /\ \A i \in 1..Len(c) : r[Len(q) + i] = c[i] /\ Len(q) + i \in 1..Len(r)
        /\ \A i \in Len(q) + 1..Len(r) : r[i] = c[i - Len(q)] /\ i - Len(q) \in 1..Len(c)
    BY JoinIs
  <1> SUFFICES ASSUME NEW i \in 1..Len(r)
               PROVE  /\ r[i].op = "audioStart" => IF i = 1 THEN s = None ELSE r[i - 1].op = "sdrStop"
                      /\ r[i].op = "sdrStart" => IF i = 1 THEN a = None ELSE r[i - 1].op = "audioStop"
                      /\ r[i].op = "sdrStop" => \/ IF i = 1 THEN a = None ELSE r[i - 1].op = "audioStop"
                                                \/ i < Len(r) /\ r[i + 1].op = "audioStart"
                      /\ r[i].op = "audioStop" => i < Len(r) /\ r[i + 1].op \in {"sdrStop", "sdrStart"}
    BY DEF Paired
  <1>2. CASE i \in 1..Len(q)
    <2>1. /\ r[i] = q[i] /\ (i # 1 => r[i - 1] = q[i - 1])
          /\ i < Len(q) => i < Len(r) /\ r[i + 1] = q[i + 1]
      BY <1>1, <1>2
    <2>2. /\ q[i].op = "audioStart" => IF i = 1 THEN s = None ELSE q[i - 1].op = "sdrStop"
          /\ q[i].op = "sdrStart" => IF i = 1 THEN a = None ELSE q[i - 1].op = "audioStop"
          /\ q[i].op = "sdrStop" => \/ IF i = 1 THEN a = None ELSE q[i - 1].op = "audioStop"
                                    \/ i < Len(q) /\ q[i + 1].op = "audioStart"
          /\ q[i].op = "audioStop" => i < Len(q) /\ q[i + 1].op \in {"sdrStop", "sdrStart"}
      BY <1>2 DEF Paired
    <2>3. QED BY <2>1, <2>2
  <1>3. CASE i \in Len(q) + 1..Len(r)
    <2> DEFINE j == i - Len(q)
    <2>1. /\ r[i] = c[j] /\ j \in 1..Len(c) /\ (j # 1 => i # 1 /\ r[i - 1] = c[j - 1])
          /\ j < Len(c) => i < Len(r) /\ r[i + 1] = c[j + 1]
      BY <1>1, <1>3
    <2>2. /\ c[j].op = "audioStart" => j # 1 /\ c[j - 1].op = "sdrStop"
          /\ c[j].op = "sdrStart" => j # 1 /\ c[j - 1].op = "audioStop"
          /\ c[j].op = "sdrStop" => \/ j # 1 /\ c[j - 1].op = "audioStop"
                                    \/ j < Len(c) /\ c[j + 1].op = "audioStart"
          /\ c[j].op = "audioStop" => j < Len(c) /\ c[j + 1].op \in {"sdrStop", "sdrStart"}
      BY <2>1 DEF Whole
    <2>3. QED BY <2>1, <2>2
  <1>4. QED BY <1>1, <1>2, <1>3

(* A recovery that is still to be read is followed by its start.           *)
LEMMA RecoveriesOnTail ==
  ASSUME NEW q \in Seq(AnyReport), q # <<>>, NEW r, r = Tail(q), Recoveries(q)
  PROVE  Recoveries(r)
  <1>1. /\ Len(q) \in Nat /\ Len(r) \in Nat /\ Len(q) = Len(r) + 1
        /\ \A i \in 1..Len(r) : r[i] = q[i + 1] /\ i + 1 \in 1..Len(q)
    BY TailIs
  <1> SUFFICES ASSUME NEW i \in 1..Len(r), r[i].event = "recovered"
               PROVE  i < Len(r) /\ r[i + 1].event = "started"
    BY DEF Recoveries
  <1>2. i + 1 < Len(q) /\ q[i + 1 + 1].event = "started"
    BY <1>1 DEF Recoveries
  <1>3. i < Len(r) /\ i + 1 \in 1..Len(r)
    BY <1>1, <1>2
  <1>4. QED BY <1>1, <1>2, <1>3

(* Recoveries stay followed by their starts when reports are put on.       *)
LEMMA RecoveriesOnJoin ==
  ASSUME NEW q \in Seq(AnyReport), NEW c \in Seq(AnyReport), NEW r, r = q \o c, Recoveries(q), Recoveries(c)
  PROVE  Recoveries(r)
  <1>1. /\ Len(r) = Len(q) + Len(c) /\ Len(q) \in Nat /\ Len(c) \in Nat
        /\ \A i \in 1..Len(q) : r[i] = q[i] /\ i \in 1..Len(r)
        /\ \A i \in Len(q) + 1..Len(r) : r[i] = c[i - Len(q)] /\ i - Len(q) \in 1..Len(c)
    BY JoinIs
  <1> SUFFICES ASSUME NEW i \in 1..Len(r), r[i].event = "recovered"
               PROVE  i < Len(r) /\ r[i + 1].event = "started"
    BY DEF Recoveries
  <1>2. CASE i \in 1..Len(q)
    <2>1. i < Len(q) /\ q[i + 1].event = "started"
      BY <1>1, <1>2 DEF Recoveries
    <2>2. QED BY <1>1, <2>1
  <1>3. CASE i \in Len(q) + 1..Len(r)
    <2> DEFINE j == i - Len(q)
    <2>1. r[i] = c[j] /\ j \in 1..Len(c)
      BY <1>1, <1>3
    <2>2. j < Len(c) /\ c[j + 1].event = "started"
      BY <2>1 DEF Recoveries
    <2>3. i + 1 \in Len(q) + 1..Len(r) /\ i + 1 - Len(q) = j + 1 /\ i < Len(r)
      BY <1>1, <1>3, <2>2
    <2>4. QED BY <1>1, <2>2, <2>3
  <1>4. QED BY <1>1, <1>2, <1>3

(* Carrying out a command adds no time but that of the command.            *)
LEMMA TimeOnTail ==
  ASSUME NEW q \in Seq(AnyCommand), q # <<>>, NEW r, r = Tail(q), NEW s, NEW T, OfTheirTime(q, T, s),
         NEW U, \A u \in U : u \in T \/ (IsStart(q[1]) /\ u = q[1].of)
  PROVE  OfTheirTime(r, U, s)
  <1>1. /\ Len(q) \in Nat /\ Len(r) \in Nat /\ Len(q) = Len(r) + 1 /\ 1 \in 1..Len(q)
        /\ \A i \in 1..Len(r) : r[i] = q[i + 1] /\ i + 1 \in 1..Len(q)
    BY TailIs
  <1>2. \A u \in U : u <= s
    BY <1>1 DEF OfTheirTime
  <1>3. ASSUME NEW i \in 1..Len(r), IsStart(r[i]) PROVE r[i].of <= s
    BY <1>1, <1>3 DEF OfTheirTime
  <1>4. ASSUME NEW k \in 1..Len(r), LastIn(r, Switching, k)
        PROVE  (\A u \in U : u < s) /\ \A i \in 1..k - 1 : IsStart(r[i]) => r[i].of < s
    <2>1. k # 0 /\ k + 1 \in 1..Len(q) /\ 1 \in 1..(k + 1) - 1
      BY <1>1
    <2>2. LastIn(q, Switching, k + 1)
      BY <1>4, <2>1, LastOfTail
    <2>3. (\A t \in T : t < s) /\ \A i \in 1..(k + 1) - 1 : IsStart(q[i]) => q[i].of < s
      BY <2>1, <2>2 DEF OfTheirTime
    <2>4. \A i \in 1..k - 1 : i + 1 \in 1..(k + 1) - 1 /\ r[i] = q[i + 1]
      BY <1>1
    <2>5. QED BY <2>1, <2>3, <2>4
  <1>5. QED BY <1>2, <1>3, <1>4 DEF OfTheirTime

(* A switch opens a later session than all before it.                      *)
LEMMA TimeOnSwitch ==
  ASSUME NEW q \in Seq(AnyCommand), NEW c \in Seq(AnyCommand), NEW r, r = q \o c, Len(c) # 0,
         c[Len(c)].op \in Switching, \A i \in 1..Len(c) - 1 : ~IsStart(c[i]),
         NEW s \in Nat, NEW T, OfTheirTime(q, T, s), \A t \in T : t \in Nat,
         IsStart(c[Len(c)]) => c[Len(c)].of = s + 1
  PROVE  OfTheirTime(r, T, s + 1)
  <1>1. /\ Len(r) = Len(q) + Len(c) /\ Len(q) \in Nat /\ Len(c) \in Nat
        /\ \A i \in 1..Len(q) : r[i] = q[i] /\ i \in 1..Len(r)
        /\ \A i \in Len(q) + 1..Len(r) : r[i] = c[i - Len(q)] /\ i - Len(q) \in 1..Len(c)
    BY JoinIs
  <1>2. \A t \in T : t < s + 1
    BY DEF OfTheirTime
  <1>3. ASSUME NEW i \in 1..Len(q), IsStart(q[i]) PROVE q[i].of < s + 1
    <2>1. q[i] \in AnyCommand
      BY ElementOfSeq
    <2>2. q[i].of \in Nat
      BY <1>3, <2>1, CommandIs DEF IsStart, Sessions
    <2>3. QED BY <1>3, <2>2 DEF OfTheirTime
  <1>4. Len(r) \in 1..Len(r) /\ r[Len(r)] = c[Len(c)]
    BY EndOfJoin
  <1>5. ASSUME NEW i \in 1..Len(r), IsStart(r[i]), i # Len(r) PROVE r[i].of < s + 1
    <2>1. CASE i \in 1..Len(q)
      BY <1>1, <1>3, <1>5, <2>1
    <2>2. CASE i \in Len(q) + 1..Len(r)
      <3>1. r[i] = c[i - Len(q)] /\ i - Len(q) \in 1..Len(c) - 1
        BY <1>1, <1>5, <2>2
      <3>2. QED BY <1>5, <3>1
    <2>3. QED BY <1>1, <2>1, <2>2
  <1>6. ASSUME NEW i \in 1..Len(r), IsStart(r[i]) PROVE r[i].of <= s + 1
    <2>1. CASE i = Len(r)
      BY <1>4, <1>6, <2>1
    <2>2. CASE i # Len(r)
      <3>1. r[i].of < s + 1
        BY <1>5, <1>6, <2>2
      <3>2. r[i].of \in Nat
        <4>1. r[i] \in AnyCommand
          BY JoinIs, ElementOfSeq
        <4>2. QED BY <1>6, <4>1, CommandIs DEF IsStart, Sessions
      <3>3. QED BY <3>1, <3>2
    <2>3. QED BY <2>1, <2>2
  <1>7. ASSUME NEW k \in 1..Len(r), NEW i \in 1..k - 1, IsStart(r[i]) PROVE r[i].of < s + 1
    <2>1. i \in 1..Len(r) /\ i # Len(r)
      BY <1>1
    <2>2. QED BY <1>5, <1>7, <2>1
  <1>8. \A t \in T : t <= s + 1
    BY <1>2
  <1>9. QED BY <1>2, <1>6, <1>7, <1>8 DEF OfTheirTime

(* A retune opens no session.                                              *)
LEMMA TimeOnRetune ==
  ASSUME NEW q \in Seq(AnyCommand), NEW c \in Seq(AnyCommand), NEW r, r = q \o c,
         \A i \in 1..Len(c) : c[i].op \notin Switching, NEW s, NEW T, OfTheirTime(q, T, s)
  PROVE  OfTheirTime(r, T, s)
  <1>1. /\ Len(r) = Len(q) + Len(c) /\ Len(q) \in Nat /\ Len(c) \in Nat
        /\ \A i \in 1..Len(q) : r[i] = q[i] /\ i \in 1..Len(r)
        /\ \A i \in Len(q) + 1..Len(r) : r[i] = c[i - Len(q)] /\ i - Len(q) \in 1..Len(c)
    BY JoinIs
  <1>2. ASSUME NEW i \in 1..Len(r), IsStart(r[i]) PROVE r[i].of <= s /\ i \in 1..Len(q)
    <2>1. i \notin Len(q) + 1..Len(r)
      BY <1>1, <1>2 DEF IsStart, Switching
    <2>2. i \in 1..Len(q)
      BY <1>1, <2>1
    <2>3. QED BY <1>1, <1>2, <2>2 DEF OfTheirTime
  <1>3. ASSUME NEW k \in 1..Len(r), LastIn(r, Switching, k)
        PROVE  (\A t \in T : t < s) /\ \A i \in 1..k - 1 : IsStart(r[i]) => r[i].of < s
    <2>1. LastIn(q, Switching, k)
      BY <1>3, LastBefore
    <2>2. k \in 1..Len(q)
      BY <2>1 DEF LastIn
    <2>3. (\A t \in T : t < s) /\ \A i \in 1..k - 1 : IsStart(q[i]) => q[i].of < s
      BY <2>1, <2>2 DEF OfTheirTime
    <2>4. \A i \in 1..k - 1 : r[i] = q[i]
      BY <1>1, <2>2
    <2>5. QED BY <2>3, <2>4
  <1>4. QED BY <1>2, <1>3 DEF OfTheirTime

(* The sessions that reports are of. *)
LEMMA TimesOnJoin ==
  ASSUME NEW q \in Seq(AnyReport), NEW c \in Seq(AnyReport), NEW r, r = q \o c
  PROVE  TimesOf(r) = TimesOf(q) \cup TimesOf(c)
  <1>1. /\ Len(r) = Len(q) + Len(c) /\ Len(q) \in Nat /\ Len(c) \in Nat
        /\ \A i \in 1..Len(q) : r[i] = q[i] /\ i \in 1..Len(r)
        /\ \A i \in 1..Len(c) : r[Len(q) + i] = c[i] /\ Len(q) + i \in 1..Len(r)
        /\ \A i \in Len(q) + 1..Len(r) : r[i] = c[i - Len(q)] /\ i - Len(q) \in 1..Len(c)
    BY JoinIs
  <1>2. \A i \in 1..Len(r) : i \in 1..Len(q) \/ i \in Len(q) + 1..Len(r)
    BY <1>1
  <1>3. ASSUME NEW t \in TimesOf(r) PROVE t \in TimesOf(q) \cup TimesOf(c)
    <2>1. PICK i \in 1..Len(r) : Answers(r[i]) /\ t = r[i].of
      BY <1>3 DEF TimesOf
    <2>2. CASE i \in 1..Len(q)
      BY <1>1, <2>1, <2>2 DEF TimesOf
    <2>3. CASE i \in Len(q) + 1..Len(r)
      BY <1>1, <2>1, <2>3 DEF TimesOf
    <2>4. QED BY <1>2, <2>2, <2>3
  <1>4. ASSUME NEW t \in TimesOf(q) PROVE t \in TimesOf(r)
    <2>1. PICK i \in 1..Len(q) : Answers(q[i]) /\ t = q[i].of
      BY <1>4 DEF TimesOf
    <2>2. QED BY <1>1, <2>1 DEF TimesOf
  <1>5. ASSUME NEW t \in TimesOf(c) PROVE t \in TimesOf(r)
    <2>1. PICK i \in 1..Len(c) : Answers(c[i]) /\ t = c[i].of
      BY <1>5 DEF TimesOf
    <2>2. QED BY <1>1, <2>1 DEF TimesOf
  <1>6. QED BY <1>3, <1>4, <1>5

(* The time of one report.                                                 *)
LEMMA TimesOfOne ==
  ASSUME NEW m, NEW c, c = <<m>>
  PROVE  TimesOf(c) = IF Answers(m) THEN {m.of} ELSE {}
  <1>1. \A i \in 1..Len(c) : i = 1 /\ c[i] = m
    OBVIOUS
  <1>2. 1 \in 1..Len(c) /\ c[1] = m
    OBVIOUS
  <1>3. \A t \in TimesOf(c) : Answers(m) /\ t = m.of
    BY <1>1 DEF TimesOf
  <1>4. Answers(m) => m.of \in TimesOf(c)
    BY <1>2 DEF TimesOf
  <1>5. QED BY <1>3, <1>4

(* Reading a report takes away no time but its own.                        *)
LEMMA TimesOnTail ==
  ASSUME NEW q \in Seq(AnyReport), q # <<>>, NEW r, r = Tail(q)
  PROVE  /\ TimesOf(r) \subseteq TimesOf(q)
         /\ \A t \in TimesOf(q) : t \in TimesOf(r) \/ (Answers(q[1]) /\ t = q[1].of)
         /\ Answers(q[1]) => q[1].of \in TimesOf(q)
  <1>1. /\ Len(q) \in Nat /\ Len(r) \in Nat /\ Len(q) = Len(r) + 1 /\ 1 \in 1..Len(q)
        /\ \A i \in 1..Len(r) : r[i] = q[i + 1] /\ i + 1 \in 1..Len(q)
        /\ \A i \in 2..Len(q) : q[i] = r[i - 1] /\ i - 1 \in 1..Len(r)
    BY TailIs
  <1>2. ASSUME NEW t \in TimesOf(r) PROVE t \in TimesOf(q)
    <2>1. PICK i \in 1..Len(r) : Answers(r[i]) /\ t = r[i].of
      BY <1>2 DEF TimesOf
    <2>2. QED BY <1>1, <2>1 DEF TimesOf
  <1>3. ASSUME NEW t \in TimesOf(q) PROVE t \in TimesOf(r) \/ (Answers(q[1]) /\ t = q[1].of)
    <2>1. PICK i \in 1..Len(q) : Answers(q[i]) /\ t = q[i].of
      BY <1>3 DEF TimesOf
    <2>2. CASE i = 1
      BY <2>1, <2>2
    <2>3. CASE i \in 2..Len(q)
      BY <1>1, <2>1, <2>3 DEF TimesOf
    <2>4. QED BY <1>1, <2>2, <2>3
  <1>4. Answers(q[1]) => q[1].of \in TimesOf(q)
    BY <1>1 DEF TimesOf
  <1>5. QED BY <1>2, <1>3, <1>4

-----------------------------------------------------------------------------
(* What is asked for does not depend on the commands before the last, and  *)
(* lasts as long as nothing it speaks of changes.                          *)
LEMMA AskedStill ==
  ASSUME NEW m, NEW last, NEW u, NEW v, v.mode = u.mode, v.receiver = u.receiver, v.center = u.center,
         NEW clean, NEW gone, NEW on, NEW off, AsksFor(m, last, u, clean, gone, on, off),
         NEW neat, NEW lost, NEW yes, NEW no, neat => clean, gone => lost,
         neat => v.input = u.input /\ (v.live => u.live) /\ (on => yes) /\ (off => no)
  PROVE  AsksFor(m, last, v, neat, lost, yes, no)
  BY DEF AsksFor

(* Carrying out a command leaves the last of the switches as it was.       *)
LEMMA SwitchesOnTail ==
  ASSUME NEW q \in Seq(AnyCommand), q # <<>>, NEW r, r = Tail(q),
         NEW u, NEW clean, NEW gone, NEW on, NEW off, Switches(q, u, clean, gone, on, off)
  PROVE  Switches(r, u, clean, gone, on, off)
  <1>1. /\ Len(q) \in Nat /\ Len(r) \in Nat /\ Len(q) = Len(r) + 1
        /\ \A i \in 1..Len(r) : r[i] = q[i + 1] /\ i + 1 \in 1..Len(q)
    BY TailIs
  <1>2. ASSUME NEW k \in 1..Len(r), LastIn(r, Switching, k)
        PROVE  AsksFor(r[k], r[Len(r)], u, clean, gone, on, off)
    <2>1. k # 0 /\ k + 1 \in 1..Len(q) /\ r[k] = q[k + 1] /\ Len(r) \in 1..Len(r)
      BY <1>1
    <2>2. r[Len(r)] = q[Len(q)]
      BY <1>1, <2>1
    <2>3. LastIn(q, Switching, k + 1)
      BY <1>2, <2>1, LastOfTail
    <2>4. AsksFor(q[k + 1], q[Len(q)], u, clean, gone, on, off)
      BY <2>1, <2>3 DEF Switches
    <2>5. QED BY <2>1, <2>2, <2>4
  <1>3. QED BY <1>2 DEF Switches

(* A new switch is what all that follows is about.                         *)
LEMMA SwitchesOnSwitch ==
  ASSUME NEW q \in Seq(AnyCommand), NEW c \in Seq(AnyCommand), NEW r, r = q \o c, Len(c) # 0,
         c[Len(c)].op \in Switching, NEW u, NEW clean, NEW gone, NEW on, NEW off,
         AsksFor(c[Len(c)], c[Len(c)], u, clean, gone, on, off)
  PROVE  Switches(r, u, clean, gone, on, off) /\ ~LastIn(r, Switching, 0)
  <1>1. Len(r) \in 1..Len(r) /\ r[Len(r)] = c[Len(c)]
    BY EndOfJoin
  <1>2. ASSUME NEW k \in 1..Len(r), LastIn(r, Switching, k)
        PROVE  AsksFor(r[k], r[Len(r)], u, clean, gone, on, off)
    <2>1. k = Len(r)
      BY <1>1, <1>2, LastSaid
    <2>2. QED BY <1>1, <2>1
  <1>3. ~LastIn(r, Switching, 0)
    BY <1>1 DEF LastIn
  <1>4. QED BY <1>2, <1>3 DEF Switches

(* A retune follows the frequency that is tuned to. *)
Dials(u, v, center) ==
  /\ v.mode = u.mode /\ v.live = u.live /\ v.input = u.input /\ v.receiver = u.receiver
  /\ v.center = center

(* A retune is what the receiver will be on, in place of where it was      *)
(* sent.                                                                   *)
LEMMA SwitchesOnRetune ==
  ASSUME NEW q \in Seq(AnyCommand), NEW center \in Centers, NEW r, r = q \o <<[op |-> "retune", center |-> center]>>,
         NEW u, NEW v, Dials(u, v, center), NEW clean, NEW gone, NEW on, NEW off, Switches(q, u, clean, gone, on, off)
  PROVE  Switches(r, v, clean, gone, on, off)
  <1> DEFINE m == [op |-> "retune", center |-> center]
             c == <<m>>
  <1>1. /\ m \in AnyCommand /\ c \in Seq(AnyCommand) /\ Len(c) = 1 /\ c[1] = m
        /\ m.op = "retune" /\ m.center = center
    BY DEF AnyCommand, RetuneCommands
  <1>2. r = q \o c
    OBVIOUS
  <1> HIDE DEF m, c
  <1>3. \A i \in 1..Len(c) : c[i].op \notin Switching
    BY <1>1 DEF Switching
  <1>4. Len(r) \in 1..Len(r) /\ r[Len(r)] = m
    BY <1>1, <1>2, EndOfJoin
  <1>5. ASSUME NEW k \in 1..Len(r), LastIn(r, Switching, k)
        PROVE  AsksFor(r[k], r[Len(r)], v, clean, gone, on, off)
    <2>1. LastIn(q, Switching, k)
      BY <1>1, <1>2, <1>3, <1>5, LastBefore
    <2>2. k \in 1..Len(q)
      BY <2>1 DEF LastIn
    <2>3. r[k] = q[k]
      BY <1>1, <1>2, <2>2, JoinIs
    <2>4. AsksFor(q[k], q[Len(q)], u, clean, gone, on, off)
      BY <2>1, <2>2 DEF Switches
    <2>5. QED BY <1>1, <1>4, <2>3, <2>4 DEF AsksFor, Dials
  <1>6. QED BY <1>5 DEF Switches

(* With no switch on its way, a retune is where the receiver will be.      *)
LEMMA DeliversOnRetune ==
  ASSUME NEW q \in Seq(AnyCommand), NEW center \in Centers, NEW r, r = q \o <<[op |-> "retune", center |-> center]>>,
         NEW u, NEW v, Dials(u, v, center), NEW c, NEW reports, NEW clean, NEW gone, NEW on, NEW off,
         Delivers(q, u, c, reports, clean, gone, on, off)
  PROVE  Delivers(r, v, c, reports, clean, gone, on, off)
  <1> DEFINE m == [op |-> "retune", center |-> center]
             d == <<m>>
  <1>1. /\ m \in AnyCommand /\ d \in Seq(AnyCommand) /\ Len(d) = 1 /\ d[1] = m
        /\ m.op = "retune" /\ m.center = center
    BY DEF AnyCommand, RetuneCommands
  <1>2. r = q \o d
    OBVIOUS
  <1> HIDE DEF m, d
  <1>3. \A i \in 1..Len(d) : d[i].op \notin Switching
    BY <1>1 DEF Switching
  <1>4. Len(r) \in 1..Len(r) /\ r[Len(r)] = m /\ r # <<>>
    BY <1>1, <1>2, EndOfJoin
  <1> SUFFICES ASSUME LastIn(r, Switching, 0)
               PROVE  /\ OfSource(r, v, c, gone)
                      /\ clean /\ ~gone /\ c.audio # None => OfInput(v, c.audio, reports)
                      /\ clean /\ Hears(c) => GoesLive(v, reports, on)
                      /\ clean /\ ~Hears(c) => GoesOff(v, reports, off)
    BY DEF Delivers
  <1>5. LastIn(q, Switching, 0)
    BY <1>1, <1>2, <1>3, LastBefore
  <1>6. OfSource(r, v, c, gone)
    BY <1>1, <1>4, <1>5 DEF Delivers, OfSource, Dials
  <1>7. clean /\ ~gone /\ c.audio # None => OfInput(v, c.audio, reports)
    BY <1>5 DEF Delivers, OfInput, Dials
  <1>8. clean /\ Hears(c) => GoesLive(v, reports, on)
    BY <1>5 DEF Delivers, GoesLive, Dials
  <1>9. clean /\ ~Hears(c) => GoesOff(v, reports, off)
    BY <1>5 DEF Delivers, GoesOff, Dials
  <1>10. QED BY <1>6, <1>7, <1>8, <1>9

-----------------------------------------------------------------------------
(* Nothing is on its way at first.                                         *)
LEMMA InitReception == ReceptionInit => ReceptionIInv
  <1> SUFFICES ASSUME ReceptionInit PROVE ReceptionIInv
    OBVIOUS
  <1>1. ReceptionTypes
    <2>1. /\ (CHOOSE input \in Inputs : TRUE) \in Inputs
          /\ (CHOOSE center \in Centers : TRUE) \in Centers /\ (CHOOSE center \in Centers : TRUE) \in Nat
      BY ReceptionAssumption
    <2>2. ui \in AnyUi
      BY <2>1 DEF ReceptionInit, AnyUi, Modes, Frequencies
    <2>3. /\ toCapture \in Seq(AnyCommand) /\ toDsp \in Seq(AnySignal) /\ toUi \in Seq(AnyReport)
      BY DEF ReceptionInit
    <2>4. 0 \in Sessions
      BY ReceptionAssumption DEF Sessions
    <2>5. capture \in AnyCapture /\ hearing \in AnyHearing
      BY <2>2, <2>4 DEF ReceptionInit, AnyCapture, AnyHearing, AnyUi
    <2>6. QED BY <2>2, <2>3, <2>4, <2>5 DEF ReceptionInit, ReceptionTypes
  <1>2. OneSource
    BY DEF ReceptionInit, OneSource, Paired
  <1>3. Ordered
    BY DEF ReceptionInit, Ordered, Recoveries, OfTheirTime, TimesOf
  <1>4. Tuned
    <2>1. ui.window = ui.center /\ ui.center \in Nat
      BY <1>1 DEF ReceptionInit, ReceptionTypes, AnyUi, Frequencies
    <2>2. Fits(ui)
      BY <2>1, ReceptionAssumption DEF Fits, Distance
    <2>3. toDsp = <<>> /\ hearing.window = ui.window
      BY DEF ReceptionInit
    <2>4. WillHear(toDsp, hearing.window, ui.window)
      BY <2>3 DEF WillHear
    <2>5. QED BY <2>2, <2>4 DEF Tuned
  <1>5. Switches(toCapture, ui, InTime, missed, On, Off)
    BY DEF ReceptionInit, Switches
  <1>6. Delivers(toCapture, ui, capture, toUi, InTime, missed, On, Off)
    BY DEF ReceptionInit, Delivers, OfSource, GoesOff, Hears, Off, WillRun, LastIn
  <1>7. QED BY <1>1, <1>2, <1>3, <1>4, <1>5, <1>6 DEF ReceptionIInv

(* The inductive invariant says more than the invariant: when nothing is   *)
(* on its way, what was to be said has been.                               *)
LEMMA AgreementFollows == ReceptionIInv => ReceptionInv
  <1> SUFFICES ASSUME ReceptionIInv PROVE ReceptionInv
    OBVIOUS
  <1>1. ReceptionTypeOK
    BY DEF ReceptionIInv, ReceptionTypes, ReceptionTypeOK, AnyUi, AnyCapture, AnyHearing
  <1>2. \A q \in {toCapture} : q = <<>> => LastIn(q, Switching, 0)
    BY DEF LastIn
  <1>3. toCapture = <<>> => /\ OfSource(toCapture, ui, capture, missed)
                            /\ InTime /\ ~missed /\ capture.audio # None => OfInput(ui, capture.audio, toUi)
                            /\ InTime /\ Hears(capture) => GoesLive(ui, toUi, On)
                            /\ InTime /\ ~Hears(capture) => GoesOff(ui, toUi, Off)
    BY <1>2 DEF ReceptionIInv, Delivers
  <1>4. toDsp = <<>> => (On => hearing.running = TRUE) /\ (Off => hearing.running = FALSE)
                        /\ hearing.window = ui.window
    <2> SUFFICES ASSUME toDsp = <<>>
                 PROVE  (On => hearing.running = TRUE) /\ (Off => hearing.running = FALSE)
                        /\ hearing.window = ui.window
      OBVIOUS
    <2>1. Len(toDsp) = 0 /\ 0 \in 0..Len(toDsp) /\ LastIn(toDsp, Runs, 0) /\ LastIn(toDsp, WindowOps, 0)
      BY DEF LastIn
    <2>2. WillHear(toDsp, hearing.window, ui.window)
      BY DEF ReceptionIInv, Tuned
    <2>3. QED BY <2>1, <2>2 DEF On, Off, WillRun, WillHear
  <1>5. toUi = <<>> /\ ~crossed => InTime
    BY DEF InTime, Clean, TimesOf
  <1>6. Agreed
    <2> SUFFICES ASSUME Settled, ~crossed
                 PROVE  /\ ui.live = Receiving
                        /\ Receiving = hearing.running
                        /\ capture.audio # None /\ ~missed => capture.audio = ui.input
                        /\ capture.sdr # None /\ ~missed => capture.sdr = ui.receiver
      BY DEF Agreed
    <2>1. InTime /\ toCapture = <<>> /\ toDsp = <<>> /\ toUi = <<>>
      BY <1>5 DEF Settled
    <2>2. capture.audio # None /\ ~missed => capture.audio = ui.input
      BY <1>3, <2>1 DEF OfInput, Dials
    <2>3. capture.sdr # None /\ ~missed => capture.sdr = ui.receiver
      BY <1>3, <2>1 DEF OfSource, Dials
    <2>4. ui.live \in BOOLEAN /\ hearing.running \in BOOLEAN /\ Receiving = Hears(capture)
      BY DEF ReceptionIInv, ReceptionTypes, AnyUi, AnyHearing, Receiving, Hears
    <2>5. CASE Hears(capture)
      <3>1. ui.live /\ On
        BY <1>3, <2>1, <2>5 DEF GoesLive, Dials
      <3>2. hearing.running = TRUE
        BY <1>4, <2>1, <3>1
      <3>3. QED BY <2>2, <2>3, <2>4, <2>5, <3>1, <3>2
    <2>6. CASE ~Hears(capture)
      <3>1. ~ui.live /\ Off
        BY <1>3, <2>1, <2>6 DEF GoesOff, Dials
      <3>2. hearing.running = FALSE
        BY <1>4, <2>1, <3>1
      <3>3. ui.live = FALSE
        BY <2>4, <3>1
      <3>4. Receiving = FALSE
        BY <2>6 DEF Receiving, Hears
      <3>5. QED BY <2>2, <2>3, <3>2, <3>3, <3>4
    <2>7. QED BY <2>5, <2>6
  <1>7. capture.audio = None \/ capture.sdr = None
    BY DEF ReceptionIInv, OneSource
  <1>8. /\ toCapture = <<>> /\ capture.audio # None => ui.mode = "audio"
        /\ toCapture = <<>> /\ capture.sdr # None => ui.mode = "sdr"
    BY <1>3 DEF OfSource, Dials
  <1>9. WindowFollows
    <2> SUFFICES ASSUME Settled, capture.sdr # None, ~missed PROVE Audible
      BY DEF WindowFollows
    <2>1. capture.center = ui.center
      BY <1>3 DEF Settled, OfSource, Dials
    <2>2. hearing.window = ui.window
      BY <1>4 DEF Settled
    <2>3. QED BY <2>1, <2>2 DEF ReceptionIInv, Tuned, Fits, Audible
  <1>10. QED BY <1>1, <1>6, <1>7, <1>8, <1>9 DEF ReceptionInv

(* A switch that is on its way, taken with what is said in its time, finds *)
(* nothing reported but stops.                                             *)
LEMMA OnlyStops ==
  ASSUME Ordered, toUi \in Seq(AnyReport), InTime, NEW k \in 1..Len(toCapture), LastIn(toCapture, Switching, k)
  PROVE  \A i \in 1..Len(toUi) : ~Answers(toUi[i]) /\ toUi[i].event # "recovered"
  <1>1. \A t \in TimesOf(toUi) : t < session /\ t = session
    BY DEF Ordered, OfTheirTime, InTime, Clean
  <1>2. ASSUME NEW i \in 1..Len(toUi), Answers(toUi[i]) PROVE FALSE
    <2>1. toUi[i].of \in TimesOf(toUi)
      BY <1>2 DEF TimesOf
    <2>2. toUi[i] \in AnyReport
      BY ElementOfSeq
    <2>3. toUi[i].of \in Nat
      BY <1>2, <2>2, ReportIs DEF Answers, Sessions
    <2>4. QED BY <1>1, <2>1, <2>3
  <1>3. ASSUME NEW i \in 1..Len(toUi), toUi[i].event = "recovered" PROVE FALSE
    <2>1. i < Len(toUi) /\ toUi[i + 1].event = "started"
      BY <1>3 DEF Ordered, Recoveries
    <2>2. i + 1 \in 1..Len(toUi)
      BY <2>1, LenProperties
    <2>3. QED BY <1>2, <2>1, <2>2 DEF Answers
  <1>4. QED BY <1>2, <1>3

(* What a switch asks for stays so when only the reports are read.         *)
LEMMA SwitchesStill ==
  ASSUME NEW q, NEW u, NEW v, v.mode = u.mode, v.receiver = u.receiver, v.center = u.center,
         NEW clean, NEW gone, NEW on, NEW off, Switches(q, u, clean, gone, on, off),
         NEW neat, NEW lost, NEW yes, NEW no, neat => clean, gone => lost,
         \A k \in 1..Len(q) : LastIn(q, Switching, k) /\ neat =>
           v.input = u.input /\ (v.live => u.live) /\ (on => yes) /\ (off => no)
  PROVE  Switches(q, v, neat, lost, yes, no)
  <1>1. ASSUME NEW k \in 1..Len(q), LastIn(q, Switching, k)
        PROVE  AsksFor(q[k], q[Len(q)], v, neat, lost, yes, no)
    <2> DEFINE m == q[k]
               last == q[Len(q)]
    <2>1. AsksFor(m, last, u, clean, gone, on, off)
      BY <1>1 DEF Switches
    <2>2. neat => v.input = u.input /\ (v.live => u.live) /\ (on => yes) /\ (off => no)
      BY <1>1
    <2> HIDE DEF m, last
    <2>3. AsksFor(m, last, v, neat, lost, yes, no)
      BY <2>1, <2>2, AskedStill
    <2>4. QED BY <2>3 DEF m, last
  <1>2. QED BY <1>1 DEF Switches

-----------------------------------------------------------------------------
(* The DSP worker takes what it is told. *)
LEMMA DspStep ==
  ASSUME ReceptionIInv, DspTakes
  PROVE  ReceptionIInv'
  <1> DEFINE m == toDsp[1]
  <1>1. /\ toDsp # <<>> /\ toDsp' = Tail(toDsp) /\ toDsp \in Seq(AnySignal) /\ Head(toDsp) = m
        /\ toDsp' \in Seq(AnySignal) /\ m \in AnySignal
        /\ UNCHANGED <<ui, permission, asked, capture, toCapture, toUi, session, crossed, missed>>
    BY TailIs DEF ReceptionIInv, ReceptionTypes, DspTakes
  <1>2. m.op \in {"start", "stop", "window"} /\ (m.op = "window" => m.window \in Frequencies)
    BY <1>1, SignalIs
  <1>3. /\ hearing' \in AnyHearing
        /\ hearing'.running = IF m.op \in Runs THEN m.op = "start" ELSE hearing.running
        /\ hearing'.window = IF m.op = "window" THEN m.window ELSE hearing.window
    <2>1. hearing \in AnyHearing
      BY DEF ReceptionIInv, ReceptionTypes
    <2>2. hearing' = CASE m.op = "start" -> [hearing EXCEPT !.running = TRUE]
                       [] m.op = "stop" -> [hearing EXCEPT !.running = FALSE]
                       [] m.op = "window" -> [hearing EXCEPT !.window = m.window]
      BY <1>1 DEF DspTakes
    <2> HIDE DEF m
    <2>3. QED BY <1>2, <2>1, <2>2 DEF AnyHearing, Runs
  <1>4. ReceptionTypes'
    BY <1>1, <1>3 DEF ReceptionIInv, ReceptionTypes
  <1>5. OneSource' /\ Ordered'
    BY <1>1 DEF ReceptionIInv, OneSource, Ordered
  <1>6. Tuned'
    <2>1. WillHear(toDsp, hearing.window, ui.window)
      BY DEF ReceptionIInv, Tuned
    <2>2. WillHear(toDsp', hearing'.window, ui.window)
      BY <1>1, <1>3, <2>1, HearsOnTail
    <2>3. QED BY <1>1, <2>2 DEF ReceptionIInv, Tuned, Fits
  <1>7. (On => On') /\ (Off => Off') /\ InTime' = InTime
    <2>1. \A goes \in BOOLEAN : WillRun(toDsp, hearing.running, goes) => WillRun(toDsp', hearing'.running, goes)
      BY <1>1, <1>3, RunsOnTail
    <2>2. QED BY <1>1, <2>1 DEF On, Off, InTime
  <1>8. Switches(toCapture, ui, InTime, missed, On, Off)'
    <2>1. Switches(toCapture, ui, InTime, missed, On, Off)
      BY DEF ReceptionIInv
    <2>2. Switches(toCapture, ui, InTime', missed, On', Off')
      BY <1>7, <2>1 DEF Switches, AsksFor
    <2>3. QED BY <1>1, <2>2
  <1>9. Delivers(toCapture, ui, capture, toUi, InTime, missed, On, Off)'
    <2>1. Delivers(toCapture, ui, capture, toUi, InTime', missed, On', Off')
      BY <1>7 DEF ReceptionIInv, Delivers, GoesLive, GoesOff
    <2>2. QED BY <1>1, <2>1
  <1>10. QED BY <1>4, <1>5, <1>6, <1>8, <1>9 DEF ReceptionIInv

-----------------------------------------------------------------------------
(* The controller takes the report h, whichever it is.                     *)
LEMMA HeardInput ==
  ASSUME NEW q \in Seq(AnyReport), q # <<>>, NEW u, NEW v, NEW audio, OfInput(u, audio, q),
         v.input = IF q[1].event = "recovered" THEN q[1].input ELSE u.input
  PROVE  OfInput(v, audio, Tail(q))
  <1>0. PICK r : r = Tail(q)
    OBVIOUS
  <1>1. /\ Len(q) \in Nat /\ Len(r) \in Nat /\ Len(q) = Len(r) + 1 /\ 1 \in 1..Len(q)
        /\ \A i \in 1..Len(r) : r[i] = q[i + 1] /\ i + 1 \in 1..Len(q)
        /\ \A i \in 2..Len(q) : q[i] = r[i - 1] /\ i - 1 \in 1..Len(r)
    BY <1>0, TailIs
  <1>2. \A i \in 1..Len(r) : r[i].event = "recovered" => r[i].input = audio
    BY <1>1 DEF OfInput
  <1>3. CASE q[1].event = "recovered"
    BY <1>0, <1>1, <1>2, <1>3 DEF OfInput
  <1>4. CASE q[1].event # "recovered" /\ u.input = audio
    BY <1>0, <1>2, <1>4 DEF OfInput
  <1>5. CASE q[1].event # "recovered" /\ u.input # audio
    <2>1. PICK i \in 1..Len(q) : q[i].event = "recovered"
      BY <1>5 DEF OfInput
    <2>2. i \in 2..Len(q)
      BY <1>1, <1>5, <2>1
    <2>3. i - 1 \in 1..Len(r) /\ r[i - 1].event = "recovered"
      BY <1>1, <2>1, <2>2
    <2>4. QED BY <1>0, <1>2, <2>3 DEF OfInput
  <1>6. QED BY <1>3, <1>4, <1>5

(* A source that goes live still does when its next report is read.        *)
LEMMA HeardLive ==
  ASSUME NEW q \in Seq(AnyReport), q # <<>>, NEW u, NEW v, GoesLive(u, q, TRUE), q[1].event = "started" => v.live
  PROVE  GoesLive(v, Tail(q), TRUE) /\ q[1].event # "failed"
  <1>0. PICK r : r = Tail(q)
    OBVIOUS
  <1>1. /\ Len(q) \in Nat /\ Len(r) \in Nat /\ Len(q) = Len(r) + 1 /\ 1 \in 1..Len(q)
        /\ \A i \in 1..Len(r) : r[i] = q[i + 1] /\ i + 1 \in 1..Len(q)
        /\ r = <<>> <=> Len(q) = 1
    BY <1>0, TailIs
  <1>2. q[Len(q)].event = "started" /\ \A i \in 1..Len(q) : q[i].event # "failed"
    BY DEF GoesLive
  <1>3. \A i \in 1..Len(r) : r[i].event # "failed"
    BY <1>1, <1>2
  <1>4. r = <<>> => v.live
    BY <1>1, <1>2
  <1>5. r # <<>> => r[Len(r)].event = "started"
    BY <1>1, <1>2
  <1>6. q[1].event # "failed"
    BY <1>1, <1>2
  <1>7. GoesLive(v, r, TRUE)
    BY <1>3, <1>4, <1>5 DEF GoesLive
  <1>8. QED BY <1>0, <1>6, <1>7

(* A source that goes off still does when its next report is read.         *)
LEMMA HeardOff ==
  ASSUME NEW q \in Seq(AnyReport), q # <<>>, NEW u, NEW v, NEW off, NEW no, GoesOff(u, q, off),
         q[1].event # "started" /\ v.live => u.live, q[1].event = "failed" => ~v.live /\ no, off => no
  PROVE  GoesOff(v, Tail(q), no)
  <1>0. PICK r : r = Tail(q)
    OBVIOUS
  <1>1. /\ Len(q) \in Nat /\ Len(r) \in Nat /\ Len(q) = Len(r) + 1 /\ 1 \in 1..Len(q)
        /\ \A i \in 1..Len(r) : r[i] = q[i + 1] /\ i + 1 \in 1..Len(q)
        /\ r = <<>> <=> Len(q) = 1
    BY <1>0, TailIs
  <1>2. CASE q[Len(q)].event = "failed" /\ r # <<>>
    <2>1. r[Len(r)] = q[Len(q)]
      BY <1>1, <1>2
    <2>2. GoesOff(v, r, no)
      BY <1>2, <2>1 DEF GoesOff
    <2>3. QED BY <1>0, <2>2
  <1>3. CASE q[Len(q)].event = "failed" /\ r = <<>>
    <2>1. ~v.live /\ no /\ Len(r) = 0
      BY <1>1, <1>3
    <2>2. GoesOff(v, r, no)
      BY <2>1 DEF GoesOff
    <2>3. QED BY <1>0, <2>2
  <1>4. CASE ~u.live /\ off /\ \A i \in 1..Len(q) : q[i].event # "started"
    <2>1. ~v.live /\ no /\ \A i \in 1..Len(r) : r[i].event # "started"
      BY <1>1, <1>4
    <2>2. GoesOff(v, r, no)
      BY <2>1 DEF GoesOff
    <2>3. QED BY <1>0, <2>2
  <1>5. \/ q[Len(q)].event = "failed"
        \/ ~u.live /\ off /\ \A i \in 1..Len(q) : q[i].event # "started"
    BY DEF GoesOff
  <1>6. QED BY <1>2, <1>3, <1>4, <1>5

(* The controller takes the next report, whichever it is.                  *)
LEMMA ReportHeardStep ==
  ASSUME ReceptionIInv, toUi # <<>>, NEW h, h = toUi[1], toUi' = Tail(toUi),
         UNCHANGED <<permission, asked, capture, hearing, toCapture, session, missed>>,
         crossed' = IF Answers(h) THEN crossed \/ h.of # session ELSE crossed,
         ui' \in AnyUi, ui'.mode = ui.mode, ui'.receiver = ui.receiver, ui'.center = ui.center,
         ui'.window = ui.window, ui'.input = IF h.event = "recovered" THEN h.input ELSE ui.input,
         h.event = "started" => ui'.live, h.event # "started" /\ ui'.live => ui.live,
         h.event = "failed" => ~ui'.live,
         NEW d, d = IF h.event = "failed" THEN <<[op |-> "stop"]>> ELSE <<>>, toDsp' = toDsp \o d
  PROVE  ReceptionIInv'
  <1>1. /\ ReceptionTypes /\ OneSource /\ Ordered /\ Tuned
        /\ Switches(toCapture, ui, InTime, missed, On, Off)
        /\ Delivers(toCapture, ui, capture, toUi, InTime, missed, On, Off)
    BY DEF ReceptionIInv
  <1>2. /\ toUi \in Seq(AnyReport) /\ toUi' \in Seq(AnyReport) /\ h \in AnyReport /\ 1 \in 1..Len(toUi)
    BY <1>1, TailIs DEF ReceptionTypes
  <1>3. /\ d \in Seq(AnySignal) /\ \A i \in 1..Len(d) : d[i].op # "window"
        /\ h.event # "failed" => \A i \in 1..Len(d) : d[i].op \notin Runs
        /\ h.event = "failed" => Len(d) # 0 /\ d[Len(d)].op \in Runs /\ (d[Len(d)].op = "start") = FALSE
    <2>1. CASE h.event = "failed"
      BY <2>1 DEF AnySignal, Runs
    <2>2. CASE h.event # "failed"
      BY <2>2
    <2>3. QED BY <2>1, <2>2
  <1>4. ReceptionTypes'
    <2>1. toDsp' \in Seq(AnySignal)
      BY <1>1, <1>3, JoinIs DEF ReceptionTypes
    <2>2. crossed' \in BOOLEAN
      BY <1>1 DEF ReceptionTypes
    <2>3. QED BY <1>1, <1>2, <2>1, <2>2 DEF ReceptionTypes
  <1>5. OneSource'
    BY <1>1 DEF OneSource
  <1>6. /\ TimesOf(toUi') \subseteq TimesOf(toUi)
        /\ \A t \in TimesOf(toUi) : t \in TimesOf(toUi') \/ (Answers(h) /\ t = h.of)
        /\ Answers(h) => h.of \in TimesOf(toUi)
    BY <1>2, TimesOnTail
  <1>7. Ordered'
    <2>1. Recoveries(toUi')
      BY <1>1, <1>2, RecoveriesOnTail DEF Ordered
    <2>2. OfTheirTime(toCapture, {capture.of} \cup TimesOf(toUi'), session)
      BY <1>1, <1>6 DEF Ordered, OfTheirTime
    <2>3. QED BY <2>1, <2>2 DEF Ordered
  <1>8. Tuned'
    <2>0. toDsp \in Seq(AnySignal) /\ WillHear(toDsp, hearing.window, ui.window)
      BY <1>1 DEF Tuned, ReceptionTypes
    <2>a. d \in Seq(AnySignal)
      BY <1>3
    <2>b. \A i \in 1..Len(d) : d[i].op # "window"
      BY <1>3
    <2>1. WillHear(toDsp', hearing.window, ui.window)
      <3>1. PICK c : c = d
        OBVIOUS
      <3>2. PICK s : s = toDsp'
        OBVIOUS
      <3>3. s = toDsp \o c /\ c \in Seq(AnySignal) /\ \A i \in 1..Len(c) : c[i].op # "window"
        BY <2>a, <2>b, <3>1, <3>2
      <3>4. WillHear(s, hearing.window, ui.window)
        BY ONLY <2>0, <3>3, HearsOnJoin
      <3>5. QED BY <3>2, <3>4
    <2>2. QED BY <1>1, <2>1 DEF Tuned, Fits
  <1>9. InTime' => InTime
    BY <1>6 DEF InTime, Clean
  <1>10. /\ h.event # "failed" /\ On => On'
         /\ h.event = "failed" => Off'
         /\ Off => Off'
    <2>1. toDsp \in Seq(AnySignal)
      BY <1>1 DEF ReceptionTypes
    <2>2. CASE h.event = "failed"
      <3>1. WillRun(toDsp', hearing.running, FALSE)
        BY <1>3, <2>1, <2>2, RunsOnJoin
      <3>2. QED BY <2>2, <3>1 DEF Off
    <2>3. CASE h.event # "failed"
      <3>1. \A goes \in BOOLEAN : WillRun(toDsp, hearing.running, goes) => WillRun(toDsp', hearing.running, goes)
        BY <1>3, <2>1, <2>3, RunsOnJoin
      <3>2. QED BY <2>3, <3>1 DEF On, Off
    <2>4. QED BY <2>2, <2>3
  <1>11. Switches(toCapture, ui, InTime, missed, On, Off)'
    <2>1. ASSUME NEW k \in 1..Len(toCapture), LastIn(toCapture, Switching, k)
          PROVE  AsksFor(toCapture[k], toCapture[Len(toCapture)], ui', InTime', missed, On', Off')
      <3>1. AsksFor(toCapture[k], toCapture[Len(toCapture)], ui, InTime, missed, On, Off)
        BY <1>1, <2>1 DEF Switches
      <3>2. InTime' => h.event \notin {"started", "failed", "recovered"}
        BY <1>1, <1>2, <1>9, <2>1, OnlyStops DEF Answers
      <3>3. QED BY <1>9, <1>10, <3>1, <3>2 DEF AsksFor
    <2>2. QED BY <2>1 DEF Switches
  <1>12. Delivers(toCapture, ui, capture, toUi, InTime, missed, On, Off)'
    <2> SUFFICES ASSUME LastIn(toCapture, Switching, 0)
                 PROVE  /\ OfSource(toCapture, ui', capture, missed)
                        /\ InTime' /\ ~missed /\ capture.audio # None => OfInput(ui', capture.audio, toUi')
                        /\ InTime' /\ Hears(capture) => GoesLive(ui', toUi', On')
                        /\ InTime' /\ ~Hears(capture) => GoesOff(ui', toUi', Off')
      BY DEF Delivers
    <2>1. /\ OfSource(toCapture, ui, capture, missed)
          /\ InTime /\ ~missed /\ capture.audio # None => OfInput(ui, capture.audio, toUi)
          /\ InTime /\ Hears(capture) => GoesLive(ui, toUi, On)
          /\ InTime /\ ~Hears(capture) => GoesOff(ui, toUi, Off)
      BY <1>1 DEF Delivers
    <2>2. OfSource(toCapture, ui', capture, missed)
      BY <2>1 DEF OfSource
    <2>3. OfInput(ui, capture.audio, toUi) => OfInput(ui', capture.audio, toUi')
      BY <1>2, HeardInput
    <2>4. GoesLive(ui, toUi, On) => GoesLive(ui', toUi', On')
      <3>1. SUFFICES ASSUME GoesLive(ui, toUi, On) PROVE GoesLive(ui', toUi', On')
        OBVIOUS
      <3>2. On /\ GoesLive(ui, toUi, TRUE)
        BY <3>1 DEF GoesLive
      <3>3. GoesLive(ui', toUi', TRUE) /\ h.event # "failed"
        BY <1>2, <3>2, HeardLive
      <3>4. QED BY <1>10, <3>2, <3>3 DEF GoesLive
    <2>5. GoesOff(ui, toUi, Off) => GoesOff(ui', toUi', Off')
      <3> DEFINE off == Off
                 no == Off'
      <3>1. SUFFICES ASSUME GoesOff(ui, toUi, off) PROVE GoesOff(ui', toUi', no)
        OBVIOUS
      <3>2. /\ h.event = "failed" => ~ui'.live /\ no
            /\ off => no
        BY <1>10
      <3> HIDE DEF off, no
      <3>3. QED BY <1>2, <3>1, <3>2, HeardOff
    <2>6. QED BY <1>9, <2>1, <2>2, <2>3, <2>4, <2>5
  <1>13. QED BY <1>4, <1>5, <1>7, <1>8, <1>11, <1>12 DEF ReceptionIInv

(* The controller hears of a start, a stop, a failure or a recovery.       *)
LEMMA HearingStep ==
  ASSUME ReceptionIInv, Hearing
  PROVE  ReceptionIInv'
  <1> DEFINE h == toUi[1]
  <1>1. /\ toUi # <<>> /\ toUi' = Tail(toUi) /\ Head(toUi) = h /\ h \in AnyReport
        /\ UNCHANGED <<permission, asked, capture, hearing, toCapture, session, missed>>
    <2>1. toUi # <<>> /\ toUi \in Seq(AnyReport)
      BY DEF ReceptionIInv, ReceptionTypes, Hearing, Started, AudioStopped, SdrStopped, Failed, InputRecovered, Report
    <2>2. Head(toUi) = h /\ h \in AnyReport
      BY <2>1, TailIs
    <2>3. toUi' = Tail(toUi) /\ UNCHANGED <<permission, asked, capture, hearing, toCapture, session, missed>>
      BY DEF Hearing, Started, AudioStopped, SdrStopped, Failed, InputRecovered, StoppedIn, Heard
    <2>4. QED BY <2>1, <2>2, <2>3
  <1>2. ui \in AnyUi /\ toDsp \in Seq(AnySignal) /\ toDsp \o <<>> = toDsp
    BY JoinIs DEF ReceptionIInv, ReceptionTypes
  <1> DEFINE d == IF h.event = "failed" THEN <<[op |-> "stop"]>> ELSE <<>>
  <1>3. CASE Started
    <2>1. ui' = [ui EXCEPT !.live = TRUE, !.error = FALSE] /\ h.event = "started" /\ toDsp' = toDsp \o d
          /\ crossed' = (crossed \/ h.of # session)
      BY <1>1, <1>3 DEF Started, Report, Heard, Crosses
    <2> HIDE DEF h, d
    <2>2. /\ ui' \in AnyUi /\ ui'.mode = ui.mode /\ ui'.receiver = ui.receiver /\ ui'.center = ui.center
          /\ ui'.window = ui.window /\ ui'.input = ui.input /\ ui'.live
      BY <1>2, <2>1 DEF AnyUi
    <2>3. QED BY <1>1, <2>1, <2>2, ReportHeardStep DEF h, d, Answers
  <1>4. ASSUME NEW mode \in {"audio", "sdr"}, StoppedIn(mode), h.event \in {"audioStopped", "sdrStopped"}
        PROVE  ReceptionIInv'
    <2>1. ui' = (IF ui.mode = mode THEN [ui EXCEPT !.live = FALSE] ELSE ui) /\ toDsp' = toDsp \o d
          /\ crossed' = crossed
      BY <1>4 DEF StoppedIn, Heard
    <2> HIDE DEF h, d
    <2>2. /\ ui' \in AnyUi /\ ui'.mode = ui.mode /\ ui'.receiver = ui.receiver /\ ui'.center = ui.center
          /\ ui'.window = ui.window /\ ui'.input = ui.input /\ (ui'.live => ui.live)
      BY <1>2, <2>1 DEF AnyUi
    <2>3. QED BY <1>1, <1>4, <2>1, <2>2, ReportHeardStep DEF h, d, Answers
  <1>5. CASE AudioStopped
    BY <1>1, <1>4, <1>5 DEF AudioStopped, Report
  <1>6. CASE SdrStopped
    BY <1>1, <1>4, <1>6 DEF SdrStopped, Report
  <1>7. CASE Failed
    <2>1. ui' = [ui EXCEPT !.live = FALSE, !.error = TRUE] /\ h.event = "failed" /\ toDsp' = toDsp \o d
          /\ crossed' = (crossed \/ h.of # session)
      BY <1>1, <1>7 DEF Failed, Report, Heard, Crosses
    <2> HIDE DEF h, d
    <2>2. /\ ui' \in AnyUi /\ ui'.mode = ui.mode /\ ui'.receiver = ui.receiver /\ ui'.center = ui.center
          /\ ui'.window = ui.window /\ ui'.input = ui.input /\ ~ui'.live
      BY <1>2, <2>1 DEF AnyUi
    <2>3. QED BY <1>1, <2>1, <2>2, ReportHeardStep DEF h, d, Answers
  <1>8. CASE InputRecovered
    <2>1. ui' = [ui EXCEPT !.input = h.input] /\ h.event = "recovered" /\ toDsp' = toDsp \o d
          /\ crossed' = crossed
      BY <1>1, <1>8 DEF InputRecovered, Report, Heard
    <2>2. h.input \in Inputs
      BY <1>1, <2>1, ReportIs
    <2> HIDE DEF h, d
    <2>3. /\ ui' \in AnyUi /\ ui'.mode = ui.mode /\ ui'.receiver = ui.receiver /\ ui'.center = ui.center
          /\ ui'.window = ui.window /\ ui'.input = h.input /\ ui'.live = ui.live
      BY <1>2, <2>1, <2>2 DEF AnyUi
    <2>4. QED BY <1>1, <2>1, <2>3, ReportHeardStep DEF h, d, Answers
  <1>9. QED BY <1>3, <1>5, <1>6, <1>7, <1>8 DEF Hearing

-----------------------------------------------------------------------------
(* A device that breaks is reported of the session it was started in.      *)
LEMMA BreakStep ==
  ASSUME ReceptionIInv, toUi' = Append(toUi, [event |-> "failed", of |-> capture.of]),
         UNCHANGED <<ui, permission, asked, hearing, toCapture, toDsp, session, crossed, missed>>,
         capture' \in AnyCapture, capture'.audio = capture.audio, capture'.sdr \in {capture.sdr, None},
         capture'.center = capture.center, capture'.retune = capture.retune, capture'.of = capture.of,
         ~Hears(capture')
  PROVE  ReceptionIInv'
  <1> DEFINE m == [event |-> "failed", of |-> capture.of]
             e == <<m>>
  <1>1. /\ ReceptionTypes /\ OneSource /\ Ordered /\ Tuned
        /\ Switches(toCapture, ui, InTime, missed, On, Off)
        /\ Delivers(toCapture, ui, capture, toUi, InTime, missed, On, Off)
    BY DEF ReceptionIInv
  <1>2. /\ m \in AnyReport /\ e \in Seq(AnyReport) /\ Len(e) = 1 /\ e[1] = m /\ m.event = "failed"
        /\ m.of = capture.of /\ Answers(m)
    BY <1>1 DEF ReceptionTypes, AnyCapture, AnyReport, Answers
  <1>3. toUi \in Seq(AnyReport) /\ toUi' = toUi \o e
    BY <1>1, <1>2, AppendIsConcat DEF ReceptionTypes
  <1> HIDE DEF m, e
  <1>4. ReceptionTypes'
    <2>1. toUi' \in Seq(AnyReport)
      BY <1>2, <1>3, JoinIs
    <2>2. QED BY <1>1, <2>1 DEF ReceptionTypes
  <1>5. OneSource'
    <2>1. capture'.audio = None \/ capture'.sdr = None
      BY <1>1 DEF OneSource
    <2>2. Paired(toCapture, capture'.audio, capture'.sdr)
      BY <1>1 DEF OneSource, Paired
    <2>3. QED BY <2>1, <2>2 DEF OneSource
  <1>6. TimesOf(e) = {capture.of}
    BY <1>2, TimesOfOne DEF e
  <1>7. TimesOf(toUi') = TimesOf(toUi) \cup {capture.of}
    <2>1. TimesOf(toUi') = TimesOf(toUi) \cup TimesOf(e)
      BY <1>2, <1>3, TimesOnJoin
    <2>2. QED BY <1>6, <2>1
  <1>8. Ordered'
    <2>1. Recoveries(toUi')
      BY <1>1, <1>2, <1>3, RecoveriesOnJoin DEF Ordered, Recoveries
    <2>2. {capture'.of} \cup TimesOf(toUi') = {capture.of} \cup TimesOf(toUi)
      BY <1>7
    <2>3. QED BY <1>1, <2>1, <2>2 DEF Ordered
  <1>9. Tuned'
    BY <1>1 DEF Tuned
  <1>10. InTime' => InTime
    BY <1>7 DEF InTime, Clean
  <1>11. Switches(toCapture, ui, InTime, missed, On, Off)'
    BY <1>1, <1>10 DEF Switches, AsksFor, On, Off
  <1>12. Delivers(toCapture, ui, capture, toUi, InTime, missed, On, Off)'
    <2> SUFFICES ASSUME LastIn(toCapture, Switching, 0)
                 PROVE  /\ OfSource(toCapture, ui, capture', missed)
                        /\ InTime' /\ ~missed /\ capture'.audio # None => OfInput(ui, capture'.audio, toUi')
                        /\ GoesOff(ui, toUi', Off')
      BY DEF Delivers
    <2>1. /\ OfSource(toCapture, ui, capture, missed)
          /\ InTime /\ ~missed /\ capture.audio # None => OfInput(ui, capture.audio, toUi)
      BY <1>1 DEF Delivers
    <2>2. OfSource(toCapture, ui, capture', missed)
      BY <2>1 DEF OfSource
    <2>3. ASSUME OfInput(ui, capture.audio, toUi) PROVE OfInput(ui, capture.audio, toUi')
      <3>1. /\ \A i \in 1..Len(toUi) : toUi'[i] = toUi[i] /\ i \in 1..Len(toUi')
            /\ \A i \in 1..Len(toUi') : i \in 1..Len(toUi) \/ toUi'[i] = m
        <4>1. /\ Len(toUi') = Len(toUi) + Len(e) /\ Len(toUi) \in Nat
              /\ \A i \in 1..Len(toUi) : toUi'[i] = toUi[i] /\ i \in 1..Len(toUi')
              /\ \A i \in Len(toUi) + 1..Len(toUi') : toUi'[i] = e[i - Len(toUi)]
          BY <1>2, <1>3, JoinIs
        <4>2. QED BY <1>2, <4>1
      <3>2. QED BY <1>2, <2>3, <3>1 DEF OfInput
    <2>4. GoesOff(ui, toUi', Off')
      <3>1. Len(toUi') \in 1..Len(toUi') /\ toUi'[Len(toUi')] = m
        BY <1>2, <1>3, EndOfJoin
      <3>2. QED BY <1>2, <3>1 DEF GoesOff
    <2>5. QED BY <1>10, <2>1, <2>2, <2>3, <2>4
  <1>13. QED BY <1>4, <1>5, <1>8, <1>9, <1>11, <1>12 DEF ReceptionIInv

(* A device fails while it runs.                                           *)
LEMMA DevicesStep ==
  ASSUME ReceptionIInv, Devices
  PROVE  ReceptionIInv'
  <1>1. capture \in AnyCapture /\ (capture.audio = None \/ capture.sdr = None)
    BY DEF ReceptionIInv, ReceptionTypes, OneSource
  <1>2. CASE AudioBreaks
    <2>1. /\ capture' = [capture EXCEPT !.broken = TRUE] /\ capture.audio # None
          /\ toUi' = Append(toUi, [event |-> "failed", of |-> capture.of])
          /\ UNCHANGED <<ui, permission, asked, hearing, toCapture, toDsp, session, crossed, missed>>
      BY <1>2 DEF AudioBreaks, OnItsOwn, Say
    <2>2. /\ capture' \in AnyCapture /\ capture'.audio = capture.audio /\ capture'.sdr = capture.sdr
          /\ capture'.center = capture.center /\ capture'.retune = capture.retune /\ capture'.of = capture.of
          /\ capture'.broken
      BY <1>1, <2>1 DEF AnyCapture
    <2>3. ~Hears(capture')
      BY <1>1, <2>1, <2>2 DEF Hears
    <2>4. QED BY <2>1, <2>2, <2>3, BreakStep
  <1>3. CASE SdrBreaks
    <2>1. /\ capture' = [capture EXCEPT !.sdr = None] /\ capture.sdr # None
          /\ toUi' = Append(toUi, [event |-> "failed", of |-> capture.of])
          /\ UNCHANGED <<ui, permission, asked, hearing, toCapture, toDsp, session, crossed, missed>>
      BY <1>3 DEF SdrBreaks, OnItsOwn, Say
    <2>2. /\ capture' \in AnyCapture /\ capture'.audio = capture.audio /\ capture'.sdr = None
          /\ capture'.center = capture.center /\ capture'.retune = capture.retune /\ capture'.of = capture.of
      BY <1>1, <2>1 DEF AnyCapture
    <2>3. ~Hears(capture')
      BY <1>1, <2>1, <2>2 DEF Hears
    <2>4. QED BY <2>1, <2>2, <2>3, BreakStep
  <1>4. QED BY <1>2, <1>3 DEF Devices

(* A retune that waits is applied, or refused, which the session misses.   *)
LEMMA AppliedStep ==
  ASSUME ReceptionIInv, ApplyPendingRetune
  PROVE  ReceptionIInv'
  <1>1. /\ ReceptionTypes /\ OneSource /\ Ordered /\ Tuned
        /\ Switches(toCapture, ui, InTime, missed, On, Off)
        /\ Delivers(toCapture, ui, capture, toUi, InTime, missed, On, Off)
    BY DEF ReceptionIInv
  <1>2. /\ UNCHANGED <<ui, permission, asked, hearing, toCapture, toDsp, toUi, session, crossed>>
        /\ capture.retune # NoRetune
        /\ \/ capture' = [capture EXCEPT !.center = capture.retune, !.retune = NoRetune] /\ missed' = missed
           \/ capture' = [capture EXCEPT !.retune = NoRetune] /\ missed' = TRUE
    BY DEF ApplyPendingRetune, OnItsOwn
  <1>3. /\ capture' \in AnyCapture /\ capture'.audio = capture.audio /\ capture'.sdr = capture.sdr
        /\ capture'.broken = capture.broken /\ capture'.of = capture.of /\ capture'.retune = NoRetune
        /\ missed' \in BOOLEAN /\ (missed => missed') /\ (~missed' => capture'.center = capture.retune)
    <2>1. capture \in AnyCapture /\ missed \in BOOLEAN
      BY <1>1 DEF ReceptionTypes
    <2>2. QED BY <1>2, <2>1 DEF AnyCapture
  <1>4. ReceptionTypes' /\ OneSource' /\ Ordered' /\ Tuned'
    BY <1>1, <1>2, <1>3 DEF ReceptionTypes, OneSource, Ordered, Tuned
  <1>5. InTime' = InTime /\ On' = On /\ Off' = Off
    BY <1>2 DEF InTime, On, Off
  <1>6. Switches(toCapture, ui, InTime, missed, On, Off)'
    BY <1>1, <1>2, <1>3, <1>5 DEF Switches, AsksFor
  <1>7. Delivers(toCapture, ui, capture, toUi, InTime, missed, On, Off)'
    <2> SUFFICES ASSUME LastIn(toCapture, Switching, 0)
                 PROVE  /\ OfSource(toCapture, ui, capture', missed')
                        /\ InTime' /\ ~missed' /\ capture'.audio # None => OfInput(ui, capture'.audio, toUi)
                        /\ InTime' /\ Hears(capture') => GoesLive(ui, toUi, On')
                        /\ InTime' /\ ~Hears(capture') => GoesOff(ui, toUi, Off')
      BY <1>2 DEF Delivers
    <2>1. /\ OfSource(toCapture, ui, capture, missed)
          /\ InTime /\ ~missed /\ capture.audio # None => OfInput(ui, capture.audio, toUi)
          /\ InTime /\ Hears(capture) => GoesLive(ui, toUi, On)
          /\ InTime /\ ~Hears(capture) => GoesOff(ui, toUi, Off)
      BY <1>1 DEF Delivers
    <2>2. OfSource(toCapture, ui, capture', missed')
      BY <1>2, <1>3, <2>1 DEF OfSource
    <2>3. Hears(capture') = Hears(capture)
      BY <1>3 DEF Hears
    <2>4. QED BY <1>3, <1>5, <2>1, <2>2, <2>3 DEF GoesLive, GoesOff
  <1>8. QED BY <1>4, <1>6, <1>7 DEF ReceptionIInv

-----------------------------------------------------------------------------
(* The capture thread carries out the first of the commands, m.            *)
LEMMA CarriedOut ==
  ASSUME ReceptionIInv, toCapture # <<>>, NEW m, m = toCapture[1], toCapture' = Tail(toCapture),
         NEW e \in Seq(AnyReport), toUi' = toUi \o e, Recoveries(e), \A t \in TimesOf(e) : t = capture'.of,
         UNCHANGED <<ui, permission, asked, hearing, toDsp, session, crossed, missed>>,
         capture' \in AnyCapture, capture'.of = capture.of \/ (IsStart(m) /\ capture'.of = m.of),
         Carries(m, capture.audio, capture.sdr, capture'.audio, capture'.sdr),
         Delivers(toCapture, ui, capture, toUi, InTime, missed, On, Off)'
  PROVE  ReceptionIInv'
  <1>1. /\ ReceptionTypes /\ OneSource /\ Ordered /\ Tuned
        /\ Switches(toCapture, ui, InTime, missed, On, Off)
    BY DEF ReceptionIInv
  <1>2. /\ toCapture \in Seq(AnyCommand) /\ toCapture' \in Seq(AnyCommand) /\ m \in AnyCommand
        /\ 1 \in 1..Len(toCapture) /\ toUi \in Seq(AnyReport) /\ toUi' \in Seq(AnyReport)
    BY <1>1, TailIs, JoinIs DEF ReceptionTypes
  <1>3. m.op \in {"audioStop", "sdrStop", "audioStart", "sdrStart", "retune"}
    BY <1>2, CommandIs DEF Switching
  <1>4. ReceptionTypes'
    BY <1>1, <1>2 DEF ReceptionTypes
  <1>5. OneSource'
    <2>1. Paired(toCapture', capture'.audio, capture'.sdr)
      <3>1. Paired(toCapture, capture.audio, capture.sdr)
        BY <1>1 DEF OneSource
      <3>2. QED BY <1>2, <3>1, PairedTail
    <2>2. /\ m.op = "audioStart" => capture.sdr = None
          /\ m.op = "sdrStart" => capture.audio = None
      BY <1>1, <1>2 DEF OneSource, Paired
    <2>3. capture'.audio = None \/ capture'.sdr = None
      BY <1>1, <1>3, <2>2 DEF OneSource, Carries
    <2>4. QED BY <2>1, <2>3 DEF OneSource
  <1>6. TimesOf(toUi') = TimesOf(toUi) \cup TimesOf(e)
    BY <1>2, TimesOnJoin
  <1>7. Ordered'
    <2>1. Recoveries(toUi')
      BY <1>1, <1>2, RecoveriesOnJoin DEF Ordered
    <2>2. PICK T : T = {capture.of} \cup TimesOf(toUi)
      OBVIOUS
    <2>3. PICK U : U = {capture'.of} \cup TimesOf(toUi')
      OBVIOUS
    <2>4. \A u \in U : u \in T \/ (IsStart(m) /\ u = m.of)
      BY <1>6, <2>2, <2>3
    <2>5. OfTheirTime(toCapture, T, session)
      BY <1>1, <2>2 DEF Ordered
    <2>6. OfTheirTime(toCapture', U, session)
      BY <1>2, <2>4, <2>5, TimeOnTail
    <2>7. QED BY <2>1, <2>3, <2>6 DEF Ordered
  <1>8. Tuned'
    BY <1>1 DEF Tuned
  <1>9. InTime' => InTime
    BY <1>6 DEF InTime, Clean
  <1>10. Switches(toCapture, ui, InTime, missed, On, Off)'
    <2>1. \A k \in 1..Len(toCapture') : LastIn(toCapture', Switching, k) =>
            AsksFor(toCapture'[k], toCapture'[Len(toCapture')], ui, InTime, missed, On, Off)
      <3> DEFINE clean == InTime
                 on == On
                 off == Off
      <3>1. Switches(toCapture, ui, clean, missed, on, off)
        BY <1>1
      <3> HIDE DEF clean, on, off
      <3>2. Switches(toCapture', ui, clean, missed, on, off)
        BY <1>2, <3>1, SwitchesOnTail
      <3>3. QED BY <3>2 DEF Switches, clean, on, off
    <2>2. QED BY <1>9, <2>1 DEF Switches, AsksFor, On, Off
  <1>11. QED BY <1>4, <1>5, <1>7, <1>8, <1>10 DEF ReceptionIInv

(* What is known of the last switch when its turn has come.                *)
LEMMA LastCarried ==
  ASSUME ReceptionIInv, toCapture # <<>>, NEW m, m = toCapture[1], NEW r, r = Tail(toCapture),
         LastIn(r, Switching, 0)
  PROVE  /\ m.op = "retune" => LastIn(toCapture, Switching, 0)
         /\ m.op # "audioStop"
         /\ m.op = "sdrStop" => capture.audio = None
         /\ m.op = "audioStart" => capture.sdr = None
         /\ m.op = "sdrStart" => capture.audio = None
         /\ m.op # "retune" => AsksFor(m, toCapture[Len(toCapture)], ui, InTime, missed, On, Off)
         /\ m.op # "retune" /\ InTime => \A i \in 1..Len(toUi) : ~Answers(toUi[i]) /\ toUi[i].event # "recovered"
         /\ IF r = <<>> THEN toCapture[Len(toCapture)] = m ELSE toCapture[Len(toCapture)] = r[Len(r)]
  <1>1. /\ ReceptionTypes /\ OneSource /\ Ordered
        /\ Switches(toCapture, ui, InTime, missed, On, Off)
    BY DEF ReceptionIInv
  <1>2. /\ toCapture \in Seq(AnyCommand) /\ m \in AnyCommand /\ 1 \in 1..Len(toCapture)
        /\ Len(toCapture) \in Nat /\ Len(r) \in Nat /\ Len(toCapture) = Len(r) + 1
        /\ \A i \in 1..Len(r) : r[i] = toCapture[i + 1]
        /\ toUi \in Seq(AnyReport)
    BY <1>1, TailIs DEF ReceptionTypes
  <1>3. m.op \in Switching \cup {"retune"}
    BY <1>2, CommandIs
  <1>4. /\ m.op \in Switching => LastIn(toCapture, Switching, 1)
        /\ m.op \notin Switching => LastIn(toCapture, Switching, 0)
    BY <1>2, LastOfTail
  <1>5. \A i \in 2..Len(toCapture) : toCapture[i].op \notin Switching
    <2>1. \A i \in 1..Len(r) : r[i].op \notin Switching
      BY DEF LastIn
    <2>2. \A i \in 2..Len(toCapture) : i - 1 \in 1..Len(r) /\ toCapture[i] = r[i - 1]
      BY <1>2
    <2>3. QED BY <2>1, <2>2
  <1>6. /\ m.op = "audioStart" => capture.sdr = None
        /\ m.op = "sdrStart" => capture.audio = None
        /\ m.op = "sdrStop" => capture.audio = None \/ (1 < Len(toCapture) /\ toCapture[2].op = "audioStart")
        /\ m.op = "audioStop" => 1 < Len(toCapture) /\ toCapture[2].op \in {"sdrStop", "sdrStart"}
    BY <1>1, <1>2 DEF OneSource, Paired
  <1>7. 1 < Len(toCapture) => toCapture[2].op \notin Switching
    BY <1>2, <1>5
  <1>8. m.op # "audioStop" /\ (m.op = "sdrStop" => capture.audio = None)
    BY <1>6, <1>7 DEF Switching
  <1>9. m.op # "retune" => AsksFor(m, toCapture[Len(toCapture)], ui, InTime, missed, On, Off)
    BY <1>1, <1>2, <1>3, <1>4 DEF Switches
  <1>10. m.op # "retune" /\ InTime => \A i \in 1..Len(toUi) : ~Answers(toUi[i]) /\ toUi[i].event # "recovered"
    BY <1>1, <1>2, <1>3, <1>4, OnlyStops
  <1>11. r = <<>> => Len(r) = 0
    OBVIOUS
  <1>12. r # <<>> => Len(r) \in 1..Len(r)
    BY <1>2, TailIs
  <1>13. IF r = <<>> THEN toCapture[Len(toCapture)] = m ELSE toCapture[Len(toCapture)] = r[Len(r)]
    BY <1>2, <1>11, <1>12
  <1>14. m.op = "retune" => LastIn(toCapture, Switching, 0)
    BY <1>4 DEF Switching
  <1>15. QED BY <1>6, <1>8, <1>9, <1>10, <1>13, <1>14

(* What the capture thread reports of one command.                         *)
Lacks(q, x) == \A i \in 1..Len(q) : q[i].event # x

(* An event that neither of two runs of reports has.                       *)
LEMMA LacksJoin ==
  ASSUME NEW q \in Seq(AnyReport), NEW c \in Seq(AnyReport), NEW x, Lacks(q, x), Lacks(c, x)
  PROVE  Lacks(q \o c, x)
  <1>1. PICK r : r = q \o c
    OBVIOUS
  <1>2. /\ Len(r) = Len(q) + Len(c) /\ Len(q) \in Nat /\ Len(c) \in Nat
        /\ \A i \in 1..Len(q) : r[i] = q[i]
        /\ \A i \in Len(q) + 1..Len(r) : r[i] = c[i - Len(q)] /\ i - Len(q) \in 1..Len(c)
    BY <1>1, JoinIs
  <1>3. ASSUME NEW i \in 1..Len(r) PROVE r[i].event # x
    <2>1. i \in 1..Len(q) \/ i \in Len(q) + 1..Len(r)
      BY <1>2
    <2>2. QED BY <1>2, <2>1 DEF Lacks
  <1>4. QED BY <1>1, <1>3 DEF Lacks

(* What a worker reports that is stopped.                                  *)
LEMMA StopsAre ==
  ASSUME NEW x \in {"audioStopped", "sdrStopped"}, NEW n \in Sessions, NEW off \in BOOLEAN,
         NEW g, g = IF off THEN <<>> ELSE <<[event |-> x, of |-> n]>>
  PROVE  /\ g \in Seq(AnyReport) /\ Recoveries(g) /\ TimesOf(g) = {}
         /\ Lacks(g, "started") /\ Lacks(g, "failed") /\ Lacks(g, "recovered")
  <1>1. PICK m : m = [event |-> x, of |-> n]
    OBVIOUS
  <1>2. m \in AnyReport /\ m.event \notin {"started", "failed", "recovered"}
    BY <1>1 DEF AnyReport
  <1>3. \A i \in 1..Len(g) : g[i] = m
    BY <1>1
  <1>4. g \in Seq(AnyReport)
    BY <1>1, <1>2
  <1>5. TimesOf(g) = {}
    BY <1>2, <1>3 DEF TimesOf, Answers
  <1>6. QED BY <1>2, <1>3, <1>4, <1>5 DEF Recoveries, Lacks

(* What a start reports of a device that is opened, or is not.             *)
Opens(c, opened, n) ==
  /\ c \in Seq(AnyReport) /\ c # <<>> /\ Recoveries(c) /\ TimesOf(c) = {n}
  /\ opened = None => c[Len(c)].event = "failed"
  /\ opened # None => c[Len(c)].event = "started" /\ Lacks(c, "failed")

(* What a worker reports that is started.                                  *)
LEMMA AnswerIs ==
  ASSUME NEW opened, NEW x, x = IF opened = None THEN "failed" ELSE "started",
         NEW n \in Sessions, NEW c, c = <<[event |-> x, of |-> n]>>
  PROVE  Opens(c, opened, n) /\ Lacks(c, "recovered")
  <1>1. PICK m : m = [event |-> x, of |-> n]
    OBVIOUS
  <1>2. m \in AnyReport /\ m.event = x /\ m.of = n /\ Answers(m) /\ x # "recovered"
    BY <1>1 DEF AnyReport, Answers
  <1>3. c = <<m>> /\ c # <<>> /\ c[Len(c)] = m /\ \A i \in 1..Len(c) : c[i] = m
    BY <1>1
  <1>4. TimesOf(c) = {n}
    BY <1>2, <1>3, TimesOfOne
  <1>5. c \in Seq(AnyReport)
    BY <1>2, <1>3
  <1>6. Recoveries(c) /\ Lacks(c, "recovered") /\ (x # "failed" => Lacks(c, "failed"))
    BY <1>2, <1>3 DEF Recoveries, Lacks
  <1>7. QED BY <1>2, <1>3, <1>4, <1>5, <1>6 DEF Opens

(* What the audio worker reports of an input that it found under its name. *)
LEMMA RecoveryIs ==
  ASSUME NEW found \in Inputs, NEW n \in Sessions,
         NEW c, c = <<[event |-> "recovered", input |-> found], [event |-> "started", of |-> n]>>
  PROVE  /\ Opens(c, found, n)
         /\ \A i \in 1..Len(c) : c[i].event = "recovered" => c[i].input = found
         /\ \E i \in 1..Len(c) : c[i].event = "recovered"
  <1>1. PICK m : m = [event |-> "recovered", input |-> found]
    OBVIOUS
  <1>2. PICK k : k = [event |-> "started", of |-> n]
    OBVIOUS
  <1>3. /\ m \in AnyReport /\ k \in AnyReport /\ m.event = "recovered" /\ m.input = found /\ ~Answers(m)
        /\ k.event = "started" /\ k.of = n /\ Answers(k)
    BY <1>1, <1>2 DEF AnyReport, Answers
  <1>4. c = <<m, k>> /\ Len(c) = 2 /\ c[1] = m /\ c[2] = k /\ \A i \in 1..Len(c) : i = 1 \/ i = 2
    BY <1>1, <1>2
  <1>5. TimesOf(c) = {n}
    <2>1. \A t \in TimesOf(c) : t = n
      BY <1>3, <1>4 DEF TimesOf
    <2>2. n \in TimesOf(c)
      <3>1. 2 \in 1..Len(c) /\ Answers(c[2]) /\ c[2].of = n
        BY <1>3, <1>4
      <3>2. QED BY <3>1 DEF TimesOf
    <2>3. QED BY <2>1, <2>2
  <1>6. c \in Seq(AnyReport)
    BY <1>3, <1>4
  <1>7. Recoveries(c)
    BY <1>3, <1>4 DEF Recoveries
  <1>8. Lacks(c, "failed") /\ \A i \in 1..Len(c) : c[i].event = "recovered" => c[i].input = found
    BY <1>3, <1>4 DEF Lacks
  <1>9. c[Len(c)].event = "started" /\ c # <<>>
    BY <1>3, <1>4
  <1>10. 1 \in 1..Len(c) /\ c[1].event = "recovered"
    BY <1>3, <1>4
  <1>11. found # None
    BY ReceptionAssumption
  <1>12. QED BY <1>5, <1>6, <1>7, <1>8, <1>9, <1>10, <1>11 DEF Opens

(* What a worker reports of the device it lets go.                         *)
LEMMA GoneAre ==
  ASSUME ReceptionTypes
  PROVE  /\ AudioGone \in Seq(AnyReport) /\ Recoveries(AudioGone) /\ TimesOf(AudioGone) = {}
         /\ Lacks(AudioGone, "started") /\ Lacks(AudioGone, "failed") /\ Lacks(AudioGone, "recovered")
         /\ SdrGone \in Seq(AnyReport) /\ Recoveries(SdrGone) /\ TimesOf(SdrGone) = {}
         /\ Lacks(SdrGone, "started") /\ Lacks(SdrGone, "failed") /\ Lacks(SdrGone, "recovered")
  <1>1. capture.of \in Sessions
    BY DEF ReceptionTypes, AnyCapture
  <1>2. PICK g : g = AudioGone
    OBVIOUS
  <1>3. PICK k : k = SdrGone
    OBVIOUS
  <1>4. g = IF capture.audio = None THEN <<>> ELSE <<[event |-> "audioStopped", of |-> capture.of]>>
    BY <1>2 DEF AudioGone, Say
  <1>5. k = IF capture.sdr = None THEN <<>> ELSE <<[event |-> "sdrStopped", of |-> capture.of]>>
    BY <1>3 DEF SdrGone, Say
  <1>6. /\ g \in Seq(AnyReport) /\ Recoveries(g) /\ TimesOf(g) = {}
        /\ Lacks(g, "started") /\ Lacks(g, "failed") /\ Lacks(g, "recovered")
    <2>1. PICK off \in BOOLEAN : off = (capture.audio = None)
      OBVIOUS
    <2>2. g = IF off THEN <<>> ELSE <<[event |-> "audioStopped", of |-> capture.of]>>
      BY <1>4, <2>1
    <2>3. QED BY <1>1, <2>2, StopsAre
  <1>7. /\ k \in Seq(AnyReport) /\ Recoveries(k) /\ TimesOf(k) = {}
        /\ Lacks(k, "started") /\ Lacks(k, "failed") /\ Lacks(k, "recovered")
    <2>1. PICK off \in BOOLEAN : off = (capture.sdr = None)
      OBVIOUS
    <2>2. k = IF off THEN <<>> ELSE <<[event |-> "sdrStopped", of |-> capture.of]>>
      BY <1>5, <2>1
    <2>3. QED BY <1>1, <2>2, StopsAre
  <1>8. QED BY <1>2, <1>3, <1>6, <1>7

(* The audio worker is told to stop.                                       *)
LEMMA AudioStopStep ==
  ASSUME ReceptionIInv, AudioStop
  PROVE  ReceptionIInv'
  <1> DEFINE m == toCapture[1]
             e == AudioGone
  <1>1. ReceptionTypes /\ toCapture \in Seq(AnyCommand) /\ capture \in AnyCapture
    BY DEF ReceptionIInv, ReceptionTypes
  <1>2. /\ toCapture # <<>> /\ m.op = "audioStop" /\ toCapture' = Tail(toCapture) /\ toUi' = toUi \o e
        /\ capture' = [capture EXCEPT !.audio = None, !.broken = FALSE]
        /\ UNCHANGED <<ui, permission, asked, hearing, toDsp, session, crossed, missed>>
    BY <1>1, TailIs DEF AudioStop, Command, Captured, AudioOff
  <1>3. e \in Seq(AnyReport) /\ Recoveries(e) /\ TimesOf(e) = {}
    BY <1>1, GoneAre
  <1>4. /\ capture' \in AnyCapture /\ capture'.audio = None /\ capture'.sdr = capture.sdr
        /\ capture'.of = capture.of
    BY <1>1, <1>2 DEF AnyCapture
  <1>5. ~LastIn(toCapture', Switching, 0)
    BY <1>2, LastCarried
  <1>6. Delivers(toCapture, ui, capture, toUi, InTime, missed, On, Off)'
    BY <1>5 DEF Delivers
  <1>7. Carries(m, capture.audio, capture.sdr, capture'.audio, capture'.sdr)
    BY <1>2, <1>4 DEF Carries
  <1> HIDE DEF e
  <1>8. QED BY <1>2, <1>3, <1>4, <1>6, <1>7, CarriedOut

(* The SDR worker is told to stop.                                         *)
LEMMA SdrStopStep ==
  ASSUME ReceptionIInv, SdrStop
  PROVE  ReceptionIInv'
  <1> DEFINE m == toCapture[1]
             e == SdrGone
  <1>1. ReceptionTypes /\ toCapture \in Seq(AnyCommand) /\ capture \in AnyCapture /\ toUi \in Seq(AnyReport)
    BY DEF ReceptionIInv, ReceptionTypes
  <1>2. /\ toCapture # <<>> /\ m.op = "sdrStop" /\ toCapture' = Tail(toCapture) /\ toUi' = toUi \o e
        /\ capture' = [capture EXCEPT !.sdr = None, !.retune = NoRetune]
        /\ UNCHANGED <<ui, permission, asked, hearing, toDsp, session, crossed, missed>>
    BY <1>1, TailIs DEF SdrStop, Command, Captured, SdrOff
  <1>3. e \in Seq(AnyReport) /\ Recoveries(e) /\ TimesOf(e) = {} /\ Lacks(e, "started")
    BY <1>1, GoneAre
  <1>4. /\ capture' \in AnyCapture /\ capture'.audio = capture.audio /\ capture'.sdr = None
        /\ capture'.of = capture.of
    BY <1>1, <1>2 DEF AnyCapture
  <1>5. Carries(m, capture.audio, capture.sdr, capture'.audio, capture'.sdr)
    BY <1>2, <1>4 DEF Carries
  <1> HIDE DEF e
  <1>6. InTime' => InTime
    <2>1. TimesOf(toUi') = TimesOf(toUi) \cup TimesOf(e)
      BY <1>1, <1>2, <1>3, TimesOnJoin
    <2>2. QED BY <1>2, <2>1 DEF InTime, Clean
  <1>7. Delivers(toCapture, ui, capture, toUi, InTime, missed, On, Off)'
    <2> SUFFICES ASSUME LastIn(toCapture', Switching, 0)
                 PROVE  /\ OfSource(toCapture', ui, capture', missed)
                        /\ capture'.audio = None /\ ~Hears(capture')
                        /\ InTime' => GoesOff(ui, toUi', Off')
      BY <1>2 DEF Delivers
    <2>1. /\ capture.audio = None
          /\ AsksFor(m, toCapture[Len(toCapture)], ui, InTime, missed, On, Off)
          /\ InTime => \A i \in 1..Len(toUi) : ~Answers(toUi[i]) /\ toUi[i].event # "recovered"
      BY <1>2, LastCarried
    <2>2. capture'.audio = None /\ ~Hears(capture') /\ OfSource(toCapture', ui, capture', missed)
      BY <1>4, <2>1 DEF Hears, OfSource
    <2>3. InTime' => GoesOff(ui, toUi', Off')
      <3>1. SUFFICES ASSUME InTime' PROVE GoesOff(ui, toUi', Off')
        OBVIOUS
      <3>2. ~ui.live /\ Off
        BY <1>2, <1>6, <2>1, <3>1 DEF AsksFor
      <3>3. Lacks(toUi, "started")
        BY <1>6, <2>1, <3>1 DEF Lacks, Answers
      <3>4. Lacks(toUi', "started")
        BY <1>1, <1>2, <1>3, <3>3, LacksJoin
      <3>5. Off'
        BY <1>2, <3>2 DEF Off
      <3>6. QED BY <3>2, <3>4, <3>5 DEF GoesOff, Lacks
    <2>4. QED BY <2>2, <2>3
  <1>8. QED BY <1>2, <1>3, <1>4, <1>5, <1>7, CarriedOut

(* A start, of either source, that is the last of the switches: what it    *)
(* reports, and whether anything is delivered, go together.                *)
LEMMA StartDelivers ==
  ASSUME ReceptionIInv, toCapture # <<>>, NEW m, m = toCapture[1], m.op \in {"audioStart", "sdrStart"},
         LastIn(Tail(toCapture), Switching, 0), InTime, NEW g \in Seq(AnyReport), Lacks(g, "failed"),
         NEW c, NEW opened, NEW n, Opens(c, opened, n), NEW e, e = g \o c, NEW d
  PROVE  /\ opened # None => GoesLive(d, toUi \o e, On)
         /\ opened = None => GoesOff(d, toUi \o e, Off)
  <1>1. toUi \in Seq(AnyReport)
    BY DEF ReceptionIInv, ReceptionTypes
  <1>2. PICK r : r = toUi \o e
    OBVIOUS
  <1>3. c \in Seq(AnyReport) /\ Len(c) # 0 /\ Len(c) \in Nat
    BY EmptySeq, LenProperties DEF Opens
  <1>4. e \in Seq(AnyReport) /\ Len(e) # 0 /\ e[Len(e)] = c[Len(c)]
    <2>1. e \in Seq(AnyReport) /\ Len(e) = Len(g) + Len(c) /\ Len(g) \in Nat
      BY <1>3, JoinIs
    <2>2. QED BY <1>3, <2>1, EndOfJoin
  <1>5. r # <<>> /\ r[Len(r)] = c[Len(c)]
    <2>1. Len(r) \in 1..Len(r) /\ r[Len(r)] = e[Len(e)]
      BY <1>1, <1>2, <1>4, EndOfJoin
    <2>2. QED BY <1>4, <2>1
  <1>6. On /\ \A i \in 1..Len(toUi) : ~Answers(toUi[i])
    <2>1. /\ AsksFor(m, toCapture[Len(toCapture)], ui, InTime, missed, On, Off)
          /\ \A i \in 1..Len(toUi) : ~Answers(toUi[i]) /\ toUi[i].event # "recovered"
      BY LastCarried
    <2>2. QED BY <2>1 DEF AsksFor
  <1>7. ASSUME opened # None PROVE GoesLive(d, r, On)
    <2>1. Lacks(toUi, "failed")
      BY <1>6 DEF Lacks, Answers
    <2>2. c[Len(c)].event = "started" /\ Lacks(c, "failed")
      BY <1>7 DEF Opens
    <2>3. Lacks(e, "failed")
      BY <1>3, <2>2, LacksJoin
    <2>4. Lacks(r, "failed")
      BY <1>1, <1>2, <1>4, <2>1, <2>3, LacksJoin
    <2>5. QED BY <1>5, <1>6, <2>2, <2>4 DEF GoesLive, Lacks
  <1>8. ASSUME opened = None PROVE GoesOff(d, r, Off)
    <2>1. c[Len(c)].event = "failed"
      BY <1>8 DEF Opens
    <2>2. QED BY <1>5, <2>1 DEF GoesOff
  <1>9. QED BY <1>2, <1>7, <1>8

(* Reports with no recovery before those of a start change nothing it says *)
(* of the input.                                                           *)
LEMMA InputJoin ==
  ASSUME NEW q \in Seq(AnyReport), NEW c \in Seq(AnyReport), Lacks(q, "recovered"),
         NEW u, NEW audio, OfInput(u, audio, c)
  PROVE  OfInput(u, audio, q \o c)
  <1>1. PICK r : r = q \o c
    OBVIOUS
  <1>2. /\ Len(r) = Len(q) + Len(c) /\ Len(q) \in Nat /\ Len(c) \in Nat
        /\ \A i \in 1..Len(q) : r[i] = q[i]
        /\ \A i \in 1..Len(c) : r[Len(q) + i] = c[i] /\ Len(q) + i \in 1..Len(r)
        /\ \A i \in Len(q) + 1..Len(r) : r[i] = c[i - Len(q)] /\ i - Len(q) \in 1..Len(c)
    BY <1>1, JoinIs
  <1>3. ASSUME NEW i \in 1..Len(r), r[i].event = "recovered" PROVE r[i].input = audio
    <2>1. i \in 1..Len(q) \/ i \in Len(q) + 1..Len(r)
      BY <1>2
    <2>2. r[i] = c[i - Len(q)] /\ i - Len(q) \in 1..Len(c)
      BY <1>2, <1>3, <2>1 DEF Lacks
    <2>3. QED BY <1>3, <2>2 DEF OfInput
  <1>4. ASSUME NEW i \in 1..Len(c), c[i].event = "recovered"
        PROVE  \E j \in 1..Len(r) : r[j].event = "recovered"
    BY <1>2, <1>4
  <1>5. u.input = audio \/ \E j \in 1..Len(r) : r[j].event = "recovered"
    BY <1>4 DEF OfInput
  <1>6. QED BY <1>1, <1>3, <1>5 DEF OfInput

(* The reports of a start, after those of the device let go before it.     *)
LEMMA OpensReports ==
  ASSUME NEW g \in Seq(AnyReport), Recoveries(g), TimesOf(g) = {}, NEW c, NEW opened, NEW n, Opens(c, opened, n),
         NEW e, e = g \o c
  PROVE  e \in Seq(AnyReport) /\ Recoveries(e) /\ \A t \in TimesOf(e) : t = n
  <1>1. c \in Seq(AnyReport) /\ Recoveries(c) /\ TimesOf(c) = {n}
    BY DEF Opens
  <1>2. e \in Seq(AnyReport)
    BY <1>1, JoinIs
  <1>3. Recoveries(e)
    BY <1>1, RecoveriesOnJoin
  <1>4. TimesOf(e) = TimesOf(g) \cup TimesOf(c)
    BY <1>1, TimesOnJoin
  <1>5. QED BY <1>1, <1>2, <1>3, <1>4

(* What an audio start reports.                                            *)
LEMMA AudioSays ==
  ASSUME ReceptionIInv, NEW c, NEW opened, NEW n, Opens(c, opened, n), NEW e, e = AudioGone \o c
  PROVE  /\ e \in Seq(AnyReport) /\ Recoveries(e) /\ \A t \in TimesOf(e) : t = n
         /\ \A u : OfInput(u, opened, c) => OfInput(u, opened, e)
  <1>1. PICK g : g = AudioGone
    OBVIOUS
  <1>2. /\ g \in Seq(AnyReport) /\ Recoveries(g) /\ TimesOf(g) = {} /\ Lacks(g, "recovered")
    BY <1>1, GoneAre DEF ReceptionIInv
  <1>3. e = g \o c
    BY <1>1
  <1>4. e \in Seq(AnyReport) /\ Recoveries(e) /\ \A t \in TimesOf(e) : t = n
    BY <1>2, <1>3, OpensReports
  <1>5. ASSUME NEW u, OfInput(u, opened, c) PROVE OfInput(u, opened, e)
    <2>1. c \in Seq(AnyReport)
      BY DEF Opens
    <2>2. QED BY <1>2, <1>3, <1>5, <2>1, InputJoin
  <1>6. QED BY <1>4, <1>5

(* What an SDR start reports.                                              *)
LEMMA SdrSays ==
  ASSUME ReceptionIInv, NEW c, NEW opened, NEW n, Opens(c, opened, n), NEW e, e = SdrGone \o c
  PROVE  e \in Seq(AnyReport) /\ Recoveries(e) /\ \A t \in TimesOf(e) : t = n
  <1>1. PICK g : g = SdrGone
    OBVIOUS
  <1>2. g \in Seq(AnyReport) /\ Recoveries(g) /\ TimesOf(g) = {}
    BY <1>1, GoneAre DEF ReceptionIInv
  <1>3. e = g \o c
    BY <1>1
  <1>4. QED BY <1>2, <1>3, OpensReports

(* An input is opened, under its name or as it was asked for, or none.     *)
LEMMA AudioStarts ==
  ASSUME ReceptionIInv, toCapture # <<>>, NEW m, m = toCapture[1], m.op = "audioStart", toCapture' = Tail(toCapture),
         NEW c, Opens(c, capture'.audio, m.of), toUi' = toUi \o (AudioGone \o c),
         UNCHANGED <<ui, permission, asked, hearing, toDsp, session, crossed, missed>>,
         capture' \in AnyCapture, capture'.of = m.of, capture'.sdr = capture.sdr, ~capture'.broken,
         capture'.audio # None => OfInput(m, capture'.audio, c)
  PROVE  ReceptionIInv'
  <1>1. PICK g : g = AudioGone
    OBVIOUS
  <1>2. PICK e : e = g \o c
    OBVIOUS
  <1>3. toUi \in Seq(AnyReport)
    BY DEF ReceptionIInv, ReceptionTypes
  <1>4. g \in Seq(AnyReport) /\ Lacks(g, "failed")
    BY <1>1, GoneAre DEF ReceptionIInv
  <1>5. toUi' = toUi \o e
    BY <1>1, <1>2
  <1>6. e \in Seq(AnyReport) /\ Recoveries(e) /\ \A t \in TimesOf(e) : t = m.of
    BY <1>1, <1>2, AudioSays
  <1>7. Carries(m, capture.audio, capture.sdr, capture'.audio, capture'.sdr)
    BY DEF Carries
  <1>8. Delivers(toCapture, ui, capture, toUi, InTime, missed, On, Off)'
    <2> SUFFICES ASSUME LastIn(toCapture', Switching, 0)
                 PROVE  /\ OfSource(toCapture', ui, capture', missed)
                        /\ InTime' /\ ~missed /\ capture'.audio # None => OfInput(ui, capture'.audio, toUi')
                        /\ InTime' /\ Hears(capture') => GoesLive(ui, toUi', On)
                        /\ InTime' /\ ~Hears(capture') => GoesOff(ui, toUi', Off)
      BY DEF Delivers, On, Off
    <2>1. /\ capture.sdr = None
          /\ AsksFor(m, toCapture[Len(toCapture)], ui, InTime, missed, On, Off)
          /\ InTime => \A i \in 1..Len(toUi) : ~Answers(toUi[i]) /\ toUi[i].event # "recovered"
      BY LastCarried
    <2>2. InTime' => InTime
      <3>1. TimesOf(toUi') = TimesOf(toUi) \cup TimesOf(e)
        BY <1>3, <1>5, <1>6, TimesOnJoin
      <3>2. QED BY <3>1 DEF InTime, Clean
    <2>3. OfSource(toCapture', ui, capture', missed)
      BY <2>1 DEF OfSource, AsksFor
    <2>4. Hears(capture') <=> capture'.audio # None
      BY <2>1 DEF Hears
    <2>5. ASSUME InTime', ~missed, capture'.audio # None PROVE OfInput(ui, capture'.audio, toUi')
      <3>1. ui.input = m.input
        BY <2>1, <2>2, <2>5 DEF AsksFor
      <3>2. OfInput(ui, capture'.audio, c)
        BY <2>5, <3>1 DEF OfInput
      <3>3. OfInput(ui, capture'.audio, e)
        BY <1>1, <1>2, <3>2, AudioSays
      <3>4. Lacks(toUi, "recovered")
        BY <2>1, <2>2, <2>5 DEF Lacks
      <3>5. QED BY <1>3, <1>5, <1>6, <3>3, <3>4, InputJoin
    <2>6. ASSUME InTime'
          PROVE  /\ Hears(capture') => GoesLive(ui, toUi', On)
                 /\ ~Hears(capture') => GoesOff(ui, toUi', Off)
      <3>1. m.op \in {"audioStart", "sdrStart"} /\ LastIn(Tail(toCapture), Switching, 0) /\ InTime
        BY <2>2, <2>6
      <3>2. /\ capture'.audio # None => GoesLive(ui, toUi', On)
            /\ capture'.audio = None => GoesOff(ui, toUi', Off)
        BY <1>2, <1>4, <1>5, <3>1, StartDelivers
      <3>3. QED BY <2>4, <3>2
    <2>7. QED BY <2>3, <2>5, <2>6
  <1>9. IsStart(m) /\ \A t \in TimesOf(e) : t = capture'.of
    BY <1>6 DEF IsStart
  <1>10. QED BY <1>5, <1>6, <1>7, <1>8, <1>9, CarriedOut

(* The audio worker is told to start.                                      *)
LEMMA AudioStartStep ==
  ASSUME ReceptionIInv, AudioStart
  PROVE  ReceptionIInv'
  <1>1. PICK m : m = toCapture[1]
    OBVIOUS
  <1>2. ReceptionTypes /\ toCapture \in Seq(AnyCommand) /\ capture \in AnyCapture
    BY DEF ReceptionIInv, ReceptionTypes
  <1>3. /\ toCapture # <<>> /\ Head(toCapture) = m /\ m.op = "audioStart" /\ m \in AnyCommand
        /\ toCapture' = Tail(toCapture)
        /\ UNCHANGED <<ui, permission, asked, hearing, toDsp, session, crossed, missed>>
    BY <1>1, <1>2, TailIs DEF AudioStart, Command, Captured
  <1>4. m.of \in Sessions /\ m.input \in Inputs
    BY <1>3, CommandIs
  <1>5. AudioGone \in Seq(AnyReport)
    BY <1>2, GoneAre
  <1>6. \/ /\ capture' = [AudioOff EXCEPT !.audio = m.input, !.of = m.of]
           /\ toUi' = toUi \o Append(AudioGone, [event |-> "started", of |-> m.of])
        \/ \E found \in Inputs :
             /\ capture' = [AudioOff EXCEPT !.audio = found, !.of = m.of]
             /\ toUi' = toUi \o (AudioGone \o <<[event |-> "recovered", input |-> found], [event |-> "started", of |-> m.of]>>)
        \/ /\ capture' = [AudioOff EXCEPT !.of = m.of]
           /\ toUi' = toUi \o Append(AudioGone, [event |-> "failed", of |-> m.of])
    BY <1>3 DEF AudioStart, Captured
  <1>7. \A x : Append(AudioGone, x) = AudioGone \o <<x>>
    BY <1>5, AppendIsConcat
  <1>8. None \notin Inputs
    BY ReceptionAssumption
  <1>9. CASE /\ capture' = [AudioOff EXCEPT !.audio = m.input, !.of = m.of]
             /\ toUi' = toUi \o Append(AudioGone, [event |-> "started", of |-> m.of])
    <2>1. PICK c : c = <<[event |-> "started", of |-> m.of]>>
      OBVIOUS
    <2>2. toUi' = toUi \o (AudioGone \o c)
      BY <1>7, <1>9, <2>1
    <2>3. /\ capture' \in AnyCapture /\ capture'.of = m.of /\ capture'.sdr = capture.sdr /\ ~capture'.broken
          /\ capture'.audio = m.input /\ capture'.audio # None
      BY <1>2, <1>4, <1>8, <1>9 DEF AudioOff, AnyCapture
    <2>4. Opens(c, capture'.audio, m.of) /\ Lacks(c, "recovered")
      <3>1. PICK x : x = IF capture'.audio = None THEN "failed" ELSE "started"
        OBVIOUS
      <3>2. c = <<[event |-> x, of |-> m.of]>>
        BY <2>1, <2>3, <3>1
      <3>3. QED BY <1>4, <3>1, <3>2, AnswerIs
    <2>5. OfInput(m, capture'.audio, c)
      BY <2>3, <2>4 DEF OfInput, Lacks
    <2>6. QED BY <1>1, <1>3, <2>2, <2>3, <2>4, <2>5, AudioStarts
  <1>10. CASE \E found \in Inputs :
             /\ capture' = [AudioOff EXCEPT !.audio = found, !.of = m.of]
             /\ toUi' = toUi \o (AudioGone \o <<[event |-> "recovered", input |-> found], [event |-> "started", of |-> m.of]>>)
    <2>1. PICK found \in Inputs :
             /\ capture' = [AudioOff EXCEPT !.audio = found, !.of = m.of]
             /\ toUi' = toUi \o (AudioGone \o <<[event |-> "recovered", input |-> found], [event |-> "started", of |-> m.of]>>)
      BY <1>10
    <2>2. PICK c : c = <<[event |-> "recovered", input |-> found], [event |-> "started", of |-> m.of]>>
      OBVIOUS
    <2>3. /\ Opens(c, found, m.of)
          /\ \A i \in 1..Len(c) : c[i].event = "recovered" => c[i].input = found
          /\ \E i \in 1..Len(c) : c[i].event = "recovered"
      BY <1>4, <2>2, RecoveryIs
    <2>4. /\ capture' \in AnyCapture /\ capture'.of = m.of /\ capture'.sdr = capture.sdr /\ ~capture'.broken
          /\ capture'.audio = found
      BY <1>2, <1>4, <2>1 DEF AudioOff, AnyCapture
    <2>5. Opens(c, capture'.audio, m.of) /\ OfInput(m, capture'.audio, c)
      BY <2>3, <2>4 DEF OfInput
    <2>6. toUi' = toUi \o (AudioGone \o c)
      BY <2>1, <2>2
    <2>7. QED BY <1>1, <1>3, <2>4, <2>5, <2>6, AudioStarts
  <1>11. CASE /\ capture' = [AudioOff EXCEPT !.of = m.of]
              /\ toUi' = toUi \o Append(AudioGone, [event |-> "failed", of |-> m.of])
    <2>1. PICK c : c = <<[event |-> "failed", of |-> m.of]>>
      OBVIOUS
    <2>2. toUi' = toUi \o (AudioGone \o c)
      BY <1>7, <1>11, <2>1
    <2>3. /\ capture' \in AnyCapture /\ capture'.of = m.of /\ capture'.sdr = capture.sdr /\ ~capture'.broken
          /\ capture'.audio = None
      BY <1>2, <1>4, <1>11 DEF AudioOff, AnyCapture
    <2>4. Opens(c, capture'.audio, m.of)
      <3>1. PICK x : x = IF capture'.audio = None THEN "failed" ELSE "started"
        OBVIOUS
      <3>2. c = <<[event |-> x, of |-> m.of]>>
        BY <2>1, <2>3, <3>1
      <3>3. QED BY <1>4, <3>1, <3>2, AnswerIs
    <2>5. capture'.audio # None => OfInput(m, capture'.audio, c)
      BY <2>3
    <2>6. QED BY <1>1, <1>3, <2>2, <2>3, <2>4, <2>5, AudioStarts
  <1>12. QED BY <1>6, <1>9, <1>10, <1>11

(* A receiver is opened where it was to be tuned, or does not open.        *)
LEMMA SdrStarts ==
  ASSUME ReceptionIInv, toCapture # <<>>, NEW m, m = toCapture[1], m.op = "sdrStart", toCapture' = Tail(toCapture),
         NEW c, Opens(c, capture'.sdr, m.of), toUi' = toUi \o (SdrGone \o c),
         UNCHANGED <<ui, permission, asked, hearing, toDsp, session, crossed, missed>>,
         capture' \in AnyCapture, capture'.of = m.of, capture'.audio = capture.audio, capture'.retune = NoRetune,
         capture'.sdr # None => capture'.sdr = m.receiver /\ capture'.center = m.center
  PROVE  ReceptionIInv'
  <1>1. PICK g : g = SdrGone
    OBVIOUS
  <1>2. PICK e : e = g \o c
    OBVIOUS
  <1>3. toUi \in Seq(AnyReport)
    BY DEF ReceptionIInv, ReceptionTypes
  <1>4. g \in Seq(AnyReport) /\ Lacks(g, "failed")
    BY <1>1, GoneAre DEF ReceptionIInv
  <1>5. toUi' = toUi \o e
    BY <1>1, <1>2
  <1>6. e \in Seq(AnyReport) /\ Recoveries(e) /\ \A t \in TimesOf(e) : t = m.of
    BY <1>1, <1>2, SdrSays
  <1>7. Carries(m, capture.audio, capture.sdr, capture'.audio, capture'.sdr)
    BY DEF Carries
  <1>8. Delivers(toCapture, ui, capture, toUi, InTime, missed, On, Off)'
    <2> SUFFICES ASSUME LastIn(toCapture', Switching, 0)
                 PROVE  /\ OfSource(toCapture', ui, capture', missed)
                        /\ capture'.audio = None
                        /\ InTime' /\ Hears(capture') => GoesLive(ui, toUi', On)
                        /\ InTime' /\ ~Hears(capture') => GoesOff(ui, toUi', Off)
      BY DEF Delivers, On, Off
    <2>1. PICK last : last = toCapture[Len(toCapture)]
      OBVIOUS
    <2>2. /\ capture.audio = None
          /\ AsksFor(m, last, ui, InTime, missed, On, Off)
          /\ last = IF toCapture' = <<>> THEN m ELSE toCapture'[Len(toCapture')]
      BY <2>1, LastCarried
    <2>3. InTime' => InTime
      <3>1. TimesOf(toUi') = TimesOf(toUi) \cup TimesOf(e)
        BY <1>3, <1>5, <1>6, TimesOnJoin
      <3>2. QED BY <3>1 DEF InTime, Clean
    <2>4. OfSource(toCapture', ui, capture', missed)
      BY <2>2 DEF OfSource, AsksFor
    <2>5. Hears(capture') <=> capture'.sdr # None
      BY <2>2 DEF Hears
    <2>6. ASSUME InTime'
          PROVE  /\ Hears(capture') => GoesLive(ui, toUi', On)
                 /\ ~Hears(capture') => GoesOff(ui, toUi', Off)
      <3>1. m.op \in {"audioStart", "sdrStart"} /\ LastIn(Tail(toCapture), Switching, 0) /\ InTime
        BY <2>3, <2>6
      <3>2. /\ capture'.sdr # None => GoesLive(ui, toUi', On)
            /\ capture'.sdr = None => GoesOff(ui, toUi', Off)
        BY <1>2, <1>4, <1>5, <3>1, StartDelivers
      <3>3. QED BY <2>5, <3>2
    <2>7. QED BY <2>2, <2>4, <2>6
  <1>9. IsStart(m) /\ \A t \in TimesOf(e) : t = capture'.of
    BY <1>6 DEF IsStart
  <1>10. QED BY <1>5, <1>6, <1>7, <1>8, <1>9, CarriedOut

(* The SDR worker is told to start.                                        *)
LEMMA SdrStartStep ==
  ASSUME ReceptionIInv, SdrStart
  PROVE  ReceptionIInv'
  <1>1. PICK m : m = toCapture[1]
    OBVIOUS
  <1>2. ReceptionTypes /\ toCapture \in Seq(AnyCommand) /\ capture \in AnyCapture
    BY DEF ReceptionIInv, ReceptionTypes
  <1>3. /\ toCapture # <<>> /\ Head(toCapture) = m /\ m.op = "sdrStart" /\ m \in AnyCommand
        /\ toCapture' = Tail(toCapture)
        /\ UNCHANGED <<ui, permission, asked, hearing, toDsp, session, crossed, missed>>
    BY <1>1, <1>2, TailIs DEF SdrStart, Command, Captured
  <1>4. m.of \in Sessions /\ m.receiver \in Receivers /\ m.center \in Centers
    BY <1>3, CommandIs
  <1>5. SdrGone \in Seq(AnyReport)
    BY <1>2, GoneAre
  <1>6. \A x : Append(SdrGone, x) = SdrGone \o <<x>>
    BY <1>5, AppendIsConcat
  <1>7. \/ /\ capture' = [SdrOff EXCEPT !.sdr = m.receiver, !.center = m.center, !.of = m.of]
           /\ toUi' = toUi \o (SdrGone \o <<[event |-> "started", of |-> m.of]>>)
        \/ /\ capture' = [SdrOff EXCEPT !.of = m.of]
           /\ toUi' = toUi \o (SdrGone \o <<[event |-> "failed", of |-> m.of]>>)
    BY <1>3, <1>6 DEF SdrStart, Captured
  <1>8. None \notin Receivers
    BY ReceptionAssumption
  <1>9. CASE /\ capture' = [SdrOff EXCEPT !.sdr = m.receiver, !.center = m.center, !.of = m.of]
             /\ toUi' = toUi \o (SdrGone \o <<[event |-> "started", of |-> m.of]>>)
    <2>1. /\ capture' \in AnyCapture /\ capture'.of = m.of /\ capture'.audio = capture.audio
          /\ capture'.retune = NoRetune /\ capture'.sdr = m.receiver /\ capture'.center = m.center
      BY <1>2, <1>4, <1>9 DEF SdrOff, AnyCapture
    <2>2. PICK c : c = <<[event |-> "started", of |-> m.of]>>
      OBVIOUS
    <2>3. toUi' = toUi \o (SdrGone \o c)
      BY <1>9, <2>2
    <2>4. Opens(c, capture'.sdr, m.of)
      <3>1. PICK x : x = IF capture'.sdr = None THEN "failed" ELSE "started"
        OBVIOUS
      <3>2. c = <<[event |-> x, of |-> m.of]>>
        BY <1>4, <1>8, <2>1, <2>2, <3>1
      <3>3. QED BY <1>4, <3>1, <3>2, AnswerIs
    <2>5. QED BY <1>1, <1>3, <2>1, <2>3, <2>4, SdrStarts
  <1>10. CASE /\ capture' = [SdrOff EXCEPT !.of = m.of]
              /\ toUi' = toUi \o (SdrGone \o <<[event |-> "failed", of |-> m.of]>>)
    <2>1. /\ capture' \in AnyCapture /\ capture'.of = m.of /\ capture'.audio = capture.audio
          /\ capture'.retune = NoRetune /\ capture'.sdr = None
      BY <1>2, <1>4, <1>10 DEF SdrOff, AnyCapture
    <2>2. PICK c : c = <<[event |-> "failed", of |-> m.of]>>
      OBVIOUS
    <2>3. toUi' = toUi \o (SdrGone \o c)
      BY <1>10, <2>2
    <2>4. Opens(c, capture'.sdr, m.of)
      <3>1. PICK x : x = IF capture'.sdr = None THEN "failed" ELSE "started"
        OBVIOUS
      <3>2. c = <<[event |-> x, of |-> m.of]>>
        BY <2>1, <2>2, <3>1
      <3>3. QED BY <1>4, <3>1, <3>2, AnswerIs
    <2>5. QED BY <1>1, <1>3, <2>1, <2>3, <2>4, SdrStarts
  <1>11. QED BY <1>7, <1>9, <1>10

(* What the dial asks for waits until the receiver takes it.               *)
LEMMA RetuneStep ==
  ASSUME ReceptionIInv, AskForRetune
  PROVE  ReceptionIInv'
  <1>1. PICK m : m = toCapture[1]
    OBVIOUS
  <1>2. PICK e : e = <<>>
    OBVIOUS
  <1>3. /\ toCapture \in Seq(AnyCommand) /\ capture \in AnyCapture /\ toUi \in Seq(AnyReport)
        /\ Delivers(toCapture, ui, capture, toUi, InTime, missed, On, Off)
    BY DEF ReceptionIInv, ReceptionTypes
  <1>4. /\ toCapture # <<>> /\ Head(toCapture) = m /\ m.op = "retune" /\ m \in AnyCommand
        /\ toCapture' = Tail(toCapture) /\ toUi' = toUi \o e
        /\ UNCHANGED <<ui, permission, asked, hearing, toDsp, session, crossed, missed>>
        /\ capture' = IF capture.sdr = None THEN capture ELSE [capture EXCEPT !.retune = m.center]
    BY <1>1, <1>2, <1>3, TailIs DEF AskForRetune, Command, Captured
  <1>5. m.center \in Centers /\ m.center # NoRetune
    BY <1>4, CommandIs, ReceptionAssumption DEF NoRetune
  <1>6. e \in Seq(AnyReport) /\ Recoveries(e) /\ TimesOf(e) = {} /\ Len(e) = 0
    BY <1>2 DEF Recoveries, TimesOf
  <1>7. toUi' = toUi
    BY <1>3, <1>4, <1>6, JoinIs
  <1>8. /\ capture' \in AnyCapture /\ capture'.audio = capture.audio /\ capture'.sdr = capture.sdr
        /\ capture'.of = capture.of /\ capture'.broken = capture.broken /\ capture'.center = capture.center
        /\ (capture.sdr # None => capture'.retune = m.center)
    BY <1>3, <1>4, <1>5 DEF AnyCapture
  <1>9. Carries(m, capture.audio, capture.sdr, capture'.audio, capture'.sdr)
    BY <1>4, <1>8 DEF Carries
  <1>10. Delivers(toCapture, ui, capture, toUi, InTime, missed, On, Off)'
    <2> SUFFICES ASSUME LastIn(toCapture', Switching, 0)
                 PROVE  /\ OfSource(toCapture', ui, capture', missed)
                        /\ InTime /\ ~missed /\ capture'.audio # None => OfInput(ui, capture'.audio, toUi)
                        /\ InTime /\ Hears(capture') => GoesLive(ui, toUi, On)
                        /\ InTime /\ ~Hears(capture') => GoesOff(ui, toUi, Off)
      BY <1>4, <1>7 DEF Delivers, On, Off, InTime
    <2>1. PICK last : last = toCapture[Len(toCapture)]
      OBVIOUS
    <2>2. /\ LastIn(toCapture, Switching, 0)
          /\ last = IF toCapture' = <<>> THEN m ELSE toCapture'[Len(toCapture')]
      BY <1>1, <1>4, <2>1, LastCarried
    <2>3. /\ OfSource(toCapture, ui, capture, missed)
          /\ InTime /\ ~missed /\ capture.audio # None => OfInput(ui, capture.audio, toUi)
          /\ InTime /\ Hears(capture) => GoesLive(ui, toUi, On)
          /\ InTime /\ ~Hears(capture) => GoesOff(ui, toUi, Off)
      BY <1>3, <2>2 DEF Delivers
    <2>4. OfSource(toCapture', ui, capture', missed)
      BY <1>4, <1>5, <1>8, <2>1, <2>2, <2>3 DEF OfSource
    <2>5. Hears(capture') = Hears(capture)
      BY <1>8 DEF Hears
    <2>6. QED BY <1>8, <2>3, <2>4, <2>5
  <1>11. \A t \in TimesOf(e) : t = capture'.of
    BY <1>6
  <1>12. QED BY <1>1, <1>4, <1>6, <1>8, <1>9, <1>10, <1>11, CarriedOut

-----------------------------------------------------------------------------
(* The operator acts: commands c, which may be a start or a stop, and what *)
(* the DSP worker is told of them, d.                                      *)
Sends(c, s) ==
  /\ c \in Seq(AnyCommand) /\ Len(c) # 0 /\ c[Len(c)].op \in Switching /\ Whole(c)
  /\ \A i \in 1..Len(c) - 1 : ~IsStart(c[i])
  /\ IsStart(c[Len(c)]) => c[Len(c)].of = s + 1
TellsRun(d, goes) == \E j \in 1..Len(d) : LastIn(d, Runs, j) /\ goes = (d[j].op = "start")
Shows(d, before, window) ==
  \/ window = before /\ \A i \in 1..Len(d) : d[i].op # "window"
  \/ Len(d) # 0 /\ d[Len(d)].op = "window" /\ d[Len(d)].window = window

(* The DSP worker runs, or not, as it was told last.                       *)
LEMMA RunsAfter ==
  ASSUME NEW q \in Seq(AnySignal), NEW d \in Seq(AnySignal), NEW r, r = q \o d, NEW held, NEW goes, TellsRun(d, goes)
  PROVE  WillRun(r, held, goes)
  <1>1. PICK j \in 1..Len(d) : LastIn(d, Runs, j) /\ goes = (d[j].op = "start")
    BY DEF TellsRun
  <1>2. /\ Len(r) = Len(q) + Len(d) /\ Len(q) \in Nat /\ Len(d) \in Nat
        /\ \A i \in 1..Len(d) : r[Len(q) + i] = d[i] /\ Len(q) + i \in 1..Len(r)
        /\ \A i \in Len(q) + 1..Len(r) : r[i] = d[i - Len(q)] /\ i - Len(q) \in 1..Len(d)
    BY JoinIs
  <1>3. d[j].op \in Runs /\ \A i \in j + 1..Len(d) : d[i].op \notin Runs
    BY <1>1 DEF LastIn
  <1>4. ASSUME NEW k \in 0..Len(r), LastIn(r, Runs, k)
        PROVE  k # 0 /\ r[k] = d[j]
    <2>1. PICK n : n = Len(q) + j
      OBVIOUS
    <2>2. n \in 1..Len(r) /\ r[n] = d[j]
      BY <1>1, <1>2, <2>1
    <2>3. /\ k # 0 => r[k].op \in Runs
          /\ \A i \in k + 1..Len(r) : r[i].op \notin Runs
      BY <1>4 DEF LastIn
    <2>4. n <= k
      BY <1>2, <1>3, <2>2, <2>3
    <2>5. k - Len(q) \notin j + 1..Len(d)
      <3>1. SUFFICES ASSUME k - Len(q) \in j + 1..Len(d) PROVE FALSE
        OBVIOUS
      <3>2. k \in Len(q) + 1..Len(r) /\ k # 0
        BY <1>2, <3>1
      <3>3. r[k] = d[k - Len(q)]
        BY <1>2, <3>2
      <3>4. QED BY <1>3, <2>3, <3>1, <3>2, <3>3
    <2>6. k = n
      BY <1>2, <2>1, <2>2, <2>4, <2>5
    <2>7. QED BY <2>2, <2>6
  <1>5. QED BY <1>1, <1>4 DEF WillRun

(* The DSP worker hears the window it was told last.                       *)
LEMMA HearsAfter ==
  ASSUME NEW q \in Seq(AnySignal), NEW d \in Seq(AnySignal), NEW r, r = q \o d, NEW held, NEW before,
         WillHear(q, held, before), NEW window, Shows(d, before, window)
  PROVE  WillHear(r, held, window)
  BY HearsOnJoin DEF Shows

(* A switch, or a stop. *)
LEMMA Switched ==
  ASSUME ReceptionIInv, NEW c, Sends(c, session), toCapture' = toCapture \o c,
         NEW d \in Seq(AnySignal), toDsp' = toDsp \o d, Shows(d, ui.window, ui'.window),
         session' = session + 1, session < MaxSessions, ~crossed', ~missed', crossed' \in BOOLEAN, missed' \in BOOLEAN,
         ui' \in AnyUi, Fits(ui'), permission' \in {"undetermined", "granted", "denied"}, asked' \in BOOLEAN,
         UNCHANGED <<capture, hearing, toUi>>,
         NEW goes \in BOOLEAN, TellsRun(d, goes), AsksFor(c[Len(c)], c[Len(c)], ui', TRUE, FALSE, goes, ~goes)
  PROVE  ReceptionIInv'
  <1>1. /\ ReceptionTypes /\ OneSource /\ Ordered /\ Tuned
    BY DEF ReceptionIInv
  <1>2. /\ c \in Seq(AnyCommand) /\ Len(c) # 0 /\ c[Len(c)].op \in Switching /\ Whole(c)
        /\ \A i \in 1..Len(c) - 1 : ~IsStart(c[i])
        /\ IsStart(c[Len(c)]) => c[Len(c)].of = session + 1
    BY DEF Sends
  <1>3. /\ toCapture \in Seq(AnyCommand) /\ toDsp \in Seq(AnySignal) /\ toUi \in Seq(AnyReport)
        /\ session \in Nat /\ capture.of \in Sessions /\ MaxSessions \in Nat
    BY <1>1, ReceptionAssumption DEF ReceptionTypes, AnyCapture, Sessions
  <1>4. toCapture' \in Seq(AnyCommand) /\ toDsp' \in Seq(AnySignal)
    BY <1>2, <1>3, JoinIs
  <1>5. session' \in Sessions
    BY <1>3 DEF Sessions
  <1>6. ReceptionTypes'
    BY <1>1, <1>4, <1>5 DEF ReceptionTypes
  <1>7. OneSource'
    <2>1. Paired(toCapture, capture.audio, capture.sdr)
      BY <1>1 DEF OneSource
    <2>2. Paired(toCapture', capture.audio, capture.sdr)
      BY <1>2, <1>3, <2>1, PairedJoin
    <2>3. QED BY <1>1, <2>2 DEF OneSource
  <1>8. Ordered'
    <2>1. PICK T : T = {capture.of} \cup TimesOf(toUi)
      OBVIOUS
    <2>2. \A t \in T : t \in Nat
      <3>1. ASSUME NEW i \in 1..Len(toUi), Answers(toUi[i]) PROVE toUi[i].of \in Nat
        <4>1. toUi[i] \in AnyReport
          BY <1>3, ElementOfSeq
        <4>2. QED BY <3>1, <4>1, ReportIs DEF Answers, Sessions
      <3>2. \A t \in TimesOf(toUi) : t \in Nat
        BY <3>1 DEF TimesOf
      <3>3. capture.of \in Nat
        BY <1>3 DEF Sessions
      <3>4. QED BY <2>1, <3>2, <3>3
    <2>3. OfTheirTime(toCapture, T, session)
      BY <1>1, <2>1 DEF Ordered
    <2>4. OfTheirTime(toCapture', T, session + 1)
      BY <1>2, <1>3, <2>2, <2>3, TimeOnSwitch
    <2>5. QED BY <1>1, <2>1, <2>4 DEF Ordered
  <1>9. Tuned'
    <2>1. WillHear(toDsp, hearing.window, ui.window)
      BY <1>1 DEF Tuned
    <2>2. WillHear(toDsp', hearing.window, ui'.window)
      BY <1>3, <2>1, HearsAfter
    <2>3. QED BY <2>2 DEF Tuned
  <1>10. (goes => On') /\ (~goes => Off')
    <2>1. WillRun(toDsp', hearing.running, goes)
      BY <1>3, RunsAfter
    <2>2. QED BY <2>1 DEF On, Off
  <1>11. Switches(toCapture', ui', InTime', missed', On', Off') /\ ~LastIn(toCapture', Switching, 0)
    <2> DEFINE clean == InTime'
               on == On'
               off == Off'
    <2> HIDE DEF clean, on, off
    <2>1. AsksFor(c[Len(c)], c[Len(c)], ui', clean, missed', on, off)
      BY <1>10 DEF AsksFor, on, off
    <2>2. Switches(toCapture', ui', clean, missed', on, off) /\ ~LastIn(toCapture', Switching, 0)
      BY <1>2, <1>3, <2>1, SwitchesOnSwitch
    <2>3. QED BY <2>2 DEF clean, on, off
  <1>12. Delivers(toCapture, ui, capture, toUi, InTime, missed, On, Off)'
    BY <1>11 DEF Delivers
  <1>13. QED BY <1>6, <1>7, <1>8, <1>9, <1>11, <1>12 DEF ReceptionIInv

(* What is said besides: nothing that starts or stops, and a setting that  *)
(* the session in progress is not told of is missed by it.                 *)
LEMMA Said ==
  ASSUME ReceptionIInv, toCapture' = toCapture,
         NEW d \in Seq(AnySignal), toDsp' = toDsp \o d, Shows(d, ui.window, ui'.window),
         \A i \in 1..Len(d) : d[i].op \notin Runs,
         UNCHANGED <<session, crossed, capture, hearing, toUi>>, missed' \in BOOLEAN, missed => missed',
         ui' \in AnyUi, Fits(ui'), permission' \in {"undetermined", "granted", "denied"}, asked' \in BOOLEAN,
         ui'.mode = ui.mode, ui'.live = ui.live,
         ui'.input # ui.input /\ ui.mode = "audio" /\ Underway => missed',
         (ui'.receiver # ui.receiver \/ ui'.center # ui.center) /\ ui.mode = "sdr" /\ Underway => missed'
  PROVE  ReceptionIInv'
  <1>1. /\ ReceptionTypes /\ OneSource /\ Ordered /\ Tuned
        /\ Switches(toCapture, ui, InTime, missed, On, Off)
        /\ Delivers(toCapture, ui, capture, toUi, InTime, missed, On, Off)
    BY DEF ReceptionIInv
  <1>2. toDsp \in Seq(AnySignal)
    BY <1>1 DEF ReceptionTypes
  <1>3. toDsp' \in Seq(AnySignal)
    BY <1>2, JoinIs
  <1>4. ReceptionTypes' /\ OneSource' /\ Ordered'
    BY <1>1, <1>3 DEF ReceptionTypes, OneSource, Ordered
  <1>5. Tuned'
    <2>1. WillHear(toDsp, hearing.window, ui.window)
      BY <1>1 DEF Tuned
    <2>2. WillHear(toDsp', hearing.window, ui'.window)
      BY <1>2, <2>1, HearsAfter
    <2>3. QED BY <2>2 DEF Tuned
  <1>6. (On => On') /\ (Off => Off') /\ InTime' = InTime
    <2>1. \A goes \in BOOLEAN : WillRun(toDsp, hearing.running, goes) => WillRun(toDsp', hearing.running, goes)
      BY <1>2, RunsOnJoin
    <2>2. QED BY <2>1 DEF On, Off, InTime
  <1>7. Switches(toCapture', ui', InTime', missed', On', Off')
    <2>1. ASSUME NEW k \in 1..Len(toCapture), LastIn(toCapture, Switching, k)
          PROVE  AsksFor(toCapture[k], toCapture[Len(toCapture)], ui', InTime, missed', On', Off')
      <3>1. AsksFor(toCapture[k], toCapture[Len(toCapture)], ui, InTime, missed, On, Off)
        BY <1>1, <2>1 DEF Switches
      <3>2. Underway
        BY <2>1 DEF Underway
      <3>3. QED BY <1>6, <3>1, <3>2 DEF AsksFor
    <2>2. QED BY <1>6, <2>1 DEF Switches
  <1>8. Delivers(toCapture', ui', capture', toUi', InTime', missed', On', Off')
    <2> SUFFICES ASSUME LastIn(toCapture, Switching, 0)
                 PROVE  /\ OfSource(toCapture, ui', capture, missed')
                        /\ InTime /\ ~missed' /\ capture.audio # None => OfInput(ui', capture.audio, toUi)
                        /\ InTime /\ Hears(capture) => GoesLive(ui', toUi, On')
                        /\ InTime /\ ~Hears(capture) => GoesOff(ui', toUi, Off')
      BY <1>6 DEF Delivers
    <2>1. /\ OfSource(toCapture, ui, capture, missed)
          /\ InTime /\ ~missed /\ capture.audio # None => OfInput(ui, capture.audio, toUi)
          /\ InTime /\ Hears(capture) => GoesLive(ui, toUi, On)
          /\ InTime /\ ~Hears(capture) => GoesOff(ui, toUi, Off)
      BY <1>1 DEF Delivers
    <2>2. OfSource(toCapture, ui', capture, missed')
      BY <2>1 DEF OfSource, Underway
    <2>3. InTime /\ ~missed' /\ capture.audio # None => OfInput(ui', capture.audio, toUi)
      BY <2>1 DEF OfSource, OfInput, Underway
    <2>4. /\ GoesLive(ui, toUi, On) => GoesLive(ui', toUi, On')
          /\ GoesOff(ui, toUi, Off) => GoesOff(ui', toUi, Off')
      BY <1>6 DEF GoesLive, GoesOff
    <2>5. QED BY <2>1, <2>2, <2>3, <2>4
  <1>9. QED BY <1>4, <1>5, <1>7, <1>8 DEF ReceptionIInv

(* The dial moves while a receiver is live. *)
LEMMA Retuned ==
  ASSUME ReceptionIInv, toCapture' = toCapture \o <<[op |-> "retune", center |-> ui'.center]>>,
         NEW d \in Seq(AnySignal), toDsp' = toDsp \o d, Shows(d, ui.window, ui'.window),
         \A i \in 1..Len(d) : d[i].op \notin Runs,
         UNCHANGED <<permission, asked, session, crossed, missed, capture, hearing, toUi>>,
         ui' \in AnyUi, Fits(ui'), ui'.mode = ui.mode, ui'.live = ui.live, ui'.input = ui.input,
         ui'.receiver = ui.receiver
  PROVE  ReceptionIInv'
  <1>1. /\ ReceptionTypes /\ OneSource /\ Ordered /\ Tuned
        /\ Switches(toCapture, ui, InTime, missed, On, Off)
        /\ Delivers(toCapture, ui, capture, toUi, InTime, missed, On, Off)
    BY DEF ReceptionIInv
  <1>2. toDsp \in Seq(AnySignal) /\ toCapture \in Seq(AnyCommand) /\ ui'.center \in Centers
    BY <1>1 DEF ReceptionTypes, AnyUi
  <1>3. PICK m : m = [op |-> "retune", center |-> ui'.center]
    OBVIOUS
  <1>4. PICK c : c = <<m>>
    OBVIOUS
  <1>5. m \in AnyCommand /\ m.op = "retune" /\ m.op \notin Switching
    BY <1>2, <1>3 DEF AnyCommand, RetuneCommands, Switching
  <1>6. c \in Seq(AnyCommand) /\ \A i \in 1..Len(c) : c[i] = m
    BY <1>4, <1>5
  <1>7. toCapture' = toCapture \o c
    BY <1>3, <1>4
  <1>8. toDsp' \in Seq(AnySignal) /\ toCapture' \in Seq(AnyCommand)
    BY <1>2, <1>6, <1>7, JoinIs
  <1>9. ReceptionTypes'
    BY <1>1, <1>8 DEF ReceptionTypes
  <1>10. OneSource'
    <2>1. Whole(c)
      BY <1>5, <1>6 DEF Whole
    <2>2. Paired(toCapture, capture.audio, capture.sdr)
      BY <1>1 DEF OneSource
    <2>3. Paired(toCapture', capture.audio, capture.sdr)
      BY <1>2, <1>6, <1>7, <2>1, <2>2, PairedJoin
    <2>4. QED BY <1>1, <2>3 DEF OneSource
  <1>11. Ordered'
    <2>1. \A i \in 1..Len(c) : c[i].op \notin Switching
      BY <1>5, <1>6
    <2>2. PICK T : T = {capture.of} \cup TimesOf(toUi)
      OBVIOUS
    <2>3. OfTheirTime(toCapture, T, session)
      BY <1>1, <2>2 DEF Ordered
    <2>4. OfTheirTime(toCapture', T, session)
      BY <1>2, <1>6, <1>7, <2>1, <2>3, TimeOnRetune
    <2>5. QED BY <1>1, <2>2, <2>4 DEF Ordered
  <1>12. Tuned'
    <2>1. WillHear(toDsp, hearing.window, ui.window)
      BY <1>1 DEF Tuned
    <2>2. WillHear(toDsp', hearing.window, ui'.window)
      BY <1>2, <2>1, HearsAfter
    <2>3. QED BY <2>2 DEF Tuned
  <1>13. (On => On') /\ (Off => Off') /\ InTime' = InTime
    <2>1. \A goes \in BOOLEAN : WillRun(toDsp, hearing.running, goes) => WillRun(toDsp', hearing.running, goes)
      BY <1>2, RunsOnJoin
    <2>2. QED BY <2>1 DEF On, Off, InTime
  <1> DEFINE clean == InTime
             on == On
             off == Off
  <1>14. /\ Switches(toCapture, ui, clean, missed, on, off)
         /\ Delivers(toCapture, ui, capture, toUi, clean, missed, on, off)
    BY <1>1
  <1>15. clean = InTime' /\ (on => On') /\ (off => Off')
    BY <1>13
  <1> HIDE DEF clean, on, off
  <1>16. PICK center \in Centers : center = ui'.center
    BY <1>2
  <1>17. Dials(ui, ui', center) /\ toCapture' = toCapture \o <<[op |-> "retune", center |-> center]>>
    BY <1>16 DEF Dials
  <1>18. Switches(toCapture', ui', clean, missed, on, off)
    BY <1>2, <1>14, <1>17, SwitchesOnRetune
  <1>19. Delivers(toCapture', ui', capture, toUi, clean, missed, on, off)
    BY <1>2, <1>14, <1>17, DeliversOnRetune
  <1>20. Switches(toCapture', ui', InTime', missed', On', Off')
    BY <1>15, <1>18 DEF Switches, AsksFor
  <1>21. Delivers(toCapture', ui', capture', toUi', InTime', missed', On', Off')
    BY <1>15, <1>19 DEF Delivers, GoesLive, GoesOff
  <1>22. QED BY <1>9, <1>10, <1>11, <1>12, <1>20, <1>21 DEF ReceptionIInv

-----------------------------------------------------------------------------
(* What the operator's actions send. *)
LEMMA StopsSent ==
  ASSUME NEW c, c = <<[op |-> "audioStop"], [op |-> "sdrStop"]>>, NEW s
  PROVE  Sends(c, s) /\ c[Len(c)].op = "sdrStop"
  <1>1. PICK a : a = [op |-> "audioStop"]
    OBVIOUS
  <1>2. PICK b : b = [op |-> "sdrStop"]
    OBVIOUS
  <1>3. a \in AnyCommand /\ b \in AnyCommand /\ a.op = "audioStop" /\ b.op = "sdrStop"
    BY <1>1, <1>2 DEF AnyCommand, StopCommands
  <1>4. c = <<a, b>> /\ Len(c) = 2 /\ c[1] = a /\ c[2] = b
    BY <1>1, <1>2
  <1>5. c \in Seq(AnyCommand)
    BY <1>3, <1>4
  <1>6. \A i \in 1..Len(c) : i = 1 \/ i = 2
    BY <1>4
  <1>7. Whole(c)
    BY <1>3, <1>4, <1>6 DEF Whole
  <1>8. /\ \A i \in 1..Len(c) - 1 : ~IsStart(c[i])
        /\ ~IsStart(c[Len(c)]) /\ c[Len(c)].op \in Switching
    BY <1>3, <1>4 DEF IsStart, Switching
  <1>9. QED BY <1>3, <1>4, <1>5, <1>7, <1>8 DEF Sends

(* What the controller sends to start an input.                            *)
LEMMA AudioSent ==
  ASSUME NEW input \in Inputs, NEW s \in Nat, s + 1 \in Sessions,
         NEW m, m = [op |-> "audioStart", input |-> input, of |-> s + 1], NEW c,
         \/ c = <<[op |-> "sdrStop"], m>>
         \/ c = <<[op |-> "audioStop"], [op |-> "sdrStop"], [op |-> "sdrStop"], m>>
  PROVE  Sends(c, s) /\ c[Len(c)] = m
  <1>1. PICK a : a = [op |-> "audioStop"]
    OBVIOUS
  <1>2. PICK b : b = [op |-> "sdrStop"]
    OBVIOUS
  <1>3. /\ a \in AnyCommand /\ b \in AnyCommand /\ a.op = "audioStop" /\ b.op = "sdrStop"
        /\ m \in AnyCommand /\ m.op = "audioStart" /\ m.of = s + 1
    BY <1>1, <1>2 DEF AnyCommand, StopCommands, AudioCommands
  <1>4. CASE c = <<[op |-> "sdrStop"], m>>
    <2>1. c = <<b, m>> /\ Len(c) = 2 /\ c[1] = b /\ c[2] = m
      BY <1>2, <1>4
    <2>2. c \in Seq(AnyCommand)
      BY <1>3, <2>1
    <2>3. \A i \in 1..Len(c) : i = 1 \/ i = 2
      BY <2>1
    <2>4. Whole(c)
      BY <1>3, <2>1, <2>3 DEF Whole
    <2>5. \A i \in 1..Len(c) - 1 : ~IsStart(c[i])
      BY <1>3, <2>1 DEF IsStart
    <2>6. QED BY <1>3, <2>1, <2>2, <2>4, <2>5 DEF Sends, Switching
  <1>5. CASE c = <<[op |-> "audioStop"], [op |-> "sdrStop"], [op |-> "sdrStop"], m>>
    <2>1. c = <<a, b, b, m>> /\ Len(c) = 4 /\ c[1] = a /\ c[2] = b /\ c[3] = b /\ c[4] = m
      BY <1>1, <1>2, <1>5
    <2>2. c \in Seq(AnyCommand)
      BY <1>3, <2>1
    <2>3. \A i \in 1..Len(c) : i = 1 \/ i = 2 \/ i = 3 \/ i = 4
      BY <2>1
    <2>4. Whole(c)
      BY <1>3, <2>1, <2>3 DEF Whole
    <2>5. \A i \in 1..Len(c) - 1 : ~IsStart(c[i])
      <3>1. \A i \in 1..Len(c) - 1 : i = 1 \/ i = 2 \/ i = 3
        BY <2>1
      <3>2. QED BY <1>3, <2>1, <3>1 DEF IsStart
    <2>6. QED BY <1>3, <2>1, <2>2, <2>4, <2>5 DEF Sends, Switching
  <1>6. QED BY <1>4, <1>5

(* What the controller sends to start a receiver.                          *)
LEMMA SdrSent ==
  ASSUME NEW receiver \in Receivers, NEW center \in Centers, NEW s \in Nat, s + 1 \in Sessions,
         NEW m, m = [op |-> "sdrStart", receiver |-> receiver, center |-> center, of |-> s + 1],
         NEW c, c = <<[op |-> "audioStop"], m>>
  PROVE  Sends(c, s) /\ c[Len(c)] = m
  <1>1. PICK a : a = [op |-> "audioStop"]
    OBVIOUS
  <1>2. /\ a \in AnyCommand /\ a.op = "audioStop"
        /\ m \in AnyCommand /\ m.op = "sdrStart" /\ m.of = s + 1
    BY <1>1 DEF AnyCommand, StopCommands, SdrCommands
  <1>3. c = <<a, m>> /\ Len(c) = 2 /\ c[1] = a /\ c[2] = m
    BY <1>1
  <1>4. c \in Seq(AnyCommand)
    BY <1>2, <1>3
  <1>5. \A i \in 1..Len(c) : i = 1 \/ i = 2
    BY <1>3
  <1>6. Whole(c)
    BY <1>2, <1>3, <1>5 DEF Whole
  <1>7. \A i \in 1..Len(c) - 1 : ~IsStart(c[i])
    BY <1>2, <1>3 DEF IsStart
  <1>8. QED BY <1>2, <1>3, <1>4, <1>6, <1>7 DEF Sends, Switching

(* What the DSP worker is told of running.                                 *)
LEMMA RunSaid ==
  ASSUME NEW x \in {"start", "stop"}, NEW d,
         \/ d = <<[op |-> x]>>
         \/ d = <<[op |-> "stop"], [op |-> x]>>
  PROVE  d \in Seq(AnySignal) /\ TellsRun(d, x = "start") /\ \A w : Shows(d, w, w)
  <1>1. PICK a : a = [op |-> "stop"]
    OBVIOUS
  <1>2. PICK b : b = [op |-> x]
    OBVIOUS
  <1>3. /\ a \in AnySignal /\ b \in AnySignal /\ a.op = "stop" /\ b.op = x
        /\ a.op # "window" /\ b.op # "window" /\ b.op \in Runs
    BY <1>1, <1>2 DEF AnySignal, Runs
  <1>4. CASE d = <<[op |-> x]>>
    <2>1. d = <<b>> /\ Len(d) = 1 /\ d[1] = b
      BY <1>2, <1>4
    <2>2. LastIn(d, Runs, 1) /\ 1 \in 1..Len(d)
      BY <1>3, <2>1 DEF LastIn
    <2>3. d \in Seq(AnySignal) /\ \A i \in 1..Len(d) : d[i].op # "window"
      BY <1>3, <2>1
    <2>4. QED BY <1>3, <2>1, <2>2, <2>3 DEF TellsRun, Shows
  <1>5. CASE d = <<[op |-> "stop"], [op |-> x]>>
    <2>1. d = <<a, b>> /\ Len(d) = 2 /\ d[1] = a /\ d[2] = b
      BY <1>1, <1>2, <1>5
    <2>2. LastIn(d, Runs, 2) /\ 2 \in 1..Len(d)
      BY <1>3, <2>1 DEF LastIn
    <2>3. d \in Seq(AnySignal) /\ \A i \in 1..Len(d) : d[i].op # "window"
      <3>1. \A i \in 1..Len(d) : i = 1 \/ i = 2
        BY <2>1
      <3>2. QED BY <1>3, <2>1, <3>1
    <2>4. QED BY <1>3, <2>1, <2>2, <2>3 DEF TellsRun, Shows
  <1>6. QED BY <1>4, <1>5

(* What the DSP worker is told of the window.                              *)
LEMMA WindowSaid ==
  ASSUME NEW w \in Frequencies, NEW d, d = <<[op |-> "window", window |-> w]>>
  PROVE  /\ d \in Seq(AnySignal) /\ \A v : Shows(d, v, w)
         /\ \A i \in 1..Len(d) : d[i].op \notin Runs
  <1>1. PICK a : a = [op |-> "window", window |-> w]
    OBVIOUS
  <1>2. a \in AnySignal /\ a.op = "window" /\ a.window = w /\ a.op \notin Runs
    BY <1>1 DEF AnySignal, Runs
  <1>3. d = <<a>> /\ Len(d) = 1 /\ d[1] = a
    BY <1>1
  <1>4. QED BY <1>2, <1>3 DEF Shows

(* What the DSP worker is told when a receiver is started.                 *)
LEMMA StartSaid ==
  ASSUME NEW w \in Frequencies, NEW x \in Frequencies, NEW d,
         \/ d = <<[op |-> "start"], [op |-> "window", window |-> w]>>
         \/ d = <<[op |-> "window", window |-> x], [op |-> "start"], [op |-> "window", window |-> w]>>
  PROVE  d \in Seq(AnySignal) /\ TellsRun(d, TRUE) /\ \A v : Shows(d, v, w)
  <1>1. PICK a : a = [op |-> "start"]
    OBVIOUS
  <1>2. PICK b : b = [op |-> "window", window |-> w]
    OBVIOUS
  <1>3. PICK e : e = [op |-> "window", window |-> x]
    OBVIOUS
  <1>4. /\ a \in AnySignal /\ b \in AnySignal /\ e \in AnySignal /\ a.op = "start" /\ a.op \in Runs
        /\ b.op = "window" /\ b.window = w /\ b.op \notin Runs
    BY <1>1, <1>2, <1>3 DEF AnySignal, Runs
  <1>5. CASE d = <<[op |-> "start"], [op |-> "window", window |-> w]>>
    <2>1. d = <<a, b>> /\ Len(d) = 2 /\ d[1] = a /\ d[2] = b
      BY <1>1, <1>2, <1>5
    <2>2. LastIn(d, Runs, 1) /\ 1 \in 1..Len(d)
      BY <1>4, <2>1 DEF LastIn
    <2>3. d \in Seq(AnySignal)
      BY <1>4, <2>1
    <2>4. QED BY <1>4, <2>1, <2>2, <2>3 DEF TellsRun, Shows
  <1>6. CASE d = <<[op |-> "window", window |-> x], [op |-> "start"], [op |-> "window", window |-> w]>>
    <2>1. d = <<e, a, b>> /\ Len(d) = 3 /\ d[1] = e /\ d[2] = a /\ d[3] = b
      BY <1>1, <1>2, <1>3, <1>6
    <2>2. LastIn(d, Runs, 2) /\ 2 \in 1..Len(d)
      BY <1>4, <2>1 DEF LastIn
    <2>3. d \in Seq(AnySignal)
      BY <1>4, <2>1
    <2>4. QED BY <1>4, <2>1, <2>2, <2>3 DEF TellsRun, Shows
  <1>7. QED BY <1>5, <1>6

(* Saying nothing changes nothing.                                         *)
LEMMA NothingSaid ==
  /\ <<>> \in Seq(AnySignal) /\ \A w : Shows(<<>>, w, w)
  /\ \A i \in 1..Len(<<>>) : <<>>[i].op \notin Runs
  BY DEF Shows

(* Where the decoder's window comes to lie.                                *)
LEMMA WindowForFits ==
  ASSUME NEW center \in Centers, NEW window \in Frequencies, NEW w, w = WindowFor(center, window)
  PROVE  w \in Frequencies /\ Distance(w, center) + DecoderHalf < Half
  <1>1. /\ center \in Nat /\ window \in Nat /\ Half \in Nat /\ DecoderHalf \in Nat /\ DecoderHalf < Half
        /\ Margin \in Nat /\ Margin # 0
    BY ReceptionAssumption DEF Frequencies
  <1>2. CASE w = center
    BY <1>1, <1>2 DEF Frequencies, Distance
  <1>3. CASE WindowReach > 0 /\ w = Within(center, WindowReach, window)
    BY <1>1, <1>3 DEF Within, WindowReach, Frequencies, Distance
  <1>4. WindowReach \in Int
    BY <1>1 DEF WindowReach
  <1>5. QED BY <1>2, <1>3, <1>4 DEF WindowFor

(* A window the settings pulled inside fits the receiver.                  *)
LEMMA HeldFits ==
  ASSUME NEW center \in Centers, NEW wanted \in Centers, NEW w, w = Within(center, HeldReach, wanted)
  PROVE  w \in Frequencies /\ Distance(w, center) + DecoderHalf < Half
  <1>1. /\ center \in Nat /\ wanted \in Nat /\ Half \in Nat /\ DecoderHalf \in Nat /\ DecoderHalf < Half
        /\ HeldMargin \in Nat /\ HeldMargin > 0 /\ HeldReach >= 0
    BY ReceptionAssumption
  <1>2. QED BY <1>1 DEF Within, HeldReach, Frequencies, Distance

(* A session begins. *)
Begins ==
  /\ session < MaxSessions /\ session' = session + 1 /\ crossed' = FALSE /\ missed' = FALSE
  /\ permission' \in {"undetermined", "granted", "denied"} /\ asked' \in BOOLEAN
  /\ UNCHANGED <<capture, hearing, toUi>>

(* The controller stops both sources.                                      *)
LEMMA Stopped ==
  ASSUME ReceptionIInv, Begins, ui' \in AnyUi, ~ui'.live, ui'.window = ui.window, ui'.center = ui.center,
         toCapture' = toCapture \o <<[op |-> "audioStop"], [op |-> "sdrStop"]>>,
         toDsp' = toDsp \o <<[op |-> "stop"]>>
  PROVE  ReceptionIInv'
  <1>1. PICK c : c = <<[op |-> "audioStop"], [op |-> "sdrStop"]>>
    OBVIOUS
  <1>2. PICK d : d = <<[op |-> "stop"]>>
    OBVIOUS
  <1>3. Sends(c, session) /\ c[Len(c)].op = "sdrStop"
    BY <1>1, StopsSent
  <1>4. d \in Seq(AnySignal) /\ TellsRun(d, FALSE) /\ Shows(d, ui.window, ui.window)
    <2>1. PICK x \in {"start", "stop"} : x = "stop"
      OBVIOUS
    <2>2. d = <<[op |-> x]>>
      BY <1>2, <2>1
    <2>3. d \in Seq(AnySignal) /\ TellsRun(d, x = "start") /\ \A w : Shows(d, w, w)
      BY <2>2, RunSaid
    <2>4. (x = "start") = FALSE
      BY <2>1
    <2>5. QED BY <2>3, <2>4
  <1>5. AsksFor(c[Len(c)], c[Len(c)], ui', TRUE, FALSE, FALSE, ~FALSE)
    BY <1>3 DEF AsksFor
  <1>6. Fits(ui')
    BY DEF ReceptionIInv, Tuned, Fits
  <1>7. QED BY <1>1, <1>2, <1>3, <1>4, <1>5, <1>6, Switched DEF Begins

(* The controller starts an input.                                         *)
LEMMA BegunAudio ==
  ASSUME ReceptionIInv, Begins, ui' \in AnyUi, ui'.mode = "audio", ui'.window = ui.window, ui'.center = ui.center,
         NEW m, m = [op |-> "audioStart", input |-> ui'.input, of |-> session + 1],
         NEW c, \/ c = <<[op |-> "sdrStop"], m>>
                \/ c = <<[op |-> "audioStop"], [op |-> "sdrStop"], [op |-> "sdrStop"], m>>,
         toCapture' = toCapture \o c,
         NEW d, d = <<[op |-> "start"]>> \/ d = <<[op |-> "stop"], [op |-> "start"]>>, toDsp' = toDsp \o d
  PROVE  ReceptionIInv'
  <1>1. session \in Nat /\ session + 1 \in Sessions /\ ui'.input \in Inputs
    BY ReceptionAssumption DEF ReceptionIInv, ReceptionTypes, Begins, Sessions, AnyUi
  <1>2. Sends(c, session) /\ c[Len(c)] = m
    <2>1. PICK input \in Inputs : input = ui'.input
      BY <1>1
    <2>2. m = [op |-> "audioStart", input |-> input, of |-> session + 1]
      BY <2>1
    <2>3. QED BY <1>1, <2>2, AudioSent
  <1>3. d \in Seq(AnySignal) /\ TellsRun(d, TRUE) /\ Shows(d, ui.window, ui.window)
    <2>1. PICK x \in {"start", "stop"} : x = "start"
      OBVIOUS
    <2>2. d = <<[op |-> x]>> \/ d = <<[op |-> "stop"], [op |-> x]>>
      BY <2>1
    <2>3. d \in Seq(AnySignal) /\ TellsRun(d, x = "start") /\ \A w : Shows(d, w, w)
      BY <2>2, RunSaid
    <2>4. (x = "start") = TRUE
      BY <2>1
    <2>5. QED BY <2>3, <2>4
  <1>4. AsksFor(m, m, ui', TRUE, FALSE, TRUE, ~TRUE)
    BY DEF AsksFor
  <1>5. Fits(ui')
    BY DEF ReceptionIInv, Tuned, Fits
  <1>6. QED BY <1>2, <1>3, <1>4, <1>5, Switched DEF Begins

(* The controller starts a receiver.                                       *)
LEMMA BegunSdr ==
  ASSUME ReceptionIInv, Begins, ui' \in AnyUi, ui'.mode = "sdr", ui'.receiver # None, Fits(ui'),
         NEW m, m = [op |-> "sdrStart", receiver |-> ui'.receiver, center |-> ui'.center, of |-> session + 1],
         toCapture' = toCapture \o <<[op |-> "audioStop"], m>>,
         NEW x \in Frequencies, NEW d,
         \/ d = <<[op |-> "start"], [op |-> "window", window |-> ui'.window]>>
         \/ d = <<[op |-> "window", window |-> x], [op |-> "start"], [op |-> "window", window |-> ui'.window]>>,
         toDsp' = toDsp \o d
  PROVE  ReceptionIInv'
  <1>1. /\ session \in Nat /\ session + 1 \in Sessions
        /\ ui'.receiver \in Receivers /\ ui'.center \in Centers /\ ui'.window \in Frequencies
    BY ReceptionAssumption DEF ReceptionIInv, ReceptionTypes, Begins, Sessions, AnyUi
  <1>2. PICK c : c = <<[op |-> "audioStop"], m>>
    OBVIOUS
  <1>3. Sends(c, session) /\ c[Len(c)] = m
    <2>1. PICK receiver \in Receivers : receiver = ui'.receiver
      BY <1>1
    <2>2. PICK center \in Centers : center = ui'.center
      BY <1>1
    <2>3. m = [op |-> "sdrStart", receiver |-> receiver, center |-> center, of |-> session + 1]
      BY <2>1, <2>2
    <2>4. QED BY <1>1, <1>2, <2>3, SdrSent
  <1>4. d \in Seq(AnySignal) /\ TellsRun(d, TRUE) /\ Shows(d, ui.window, ui'.window)
    <2>1. PICK w \in Frequencies : w = ui'.window
      BY <1>1
    <2>2. \/ d = <<[op |-> "start"], [op |-> "window", window |-> w]>>
          \/ d = <<[op |-> "window", window |-> x], [op |-> "start"], [op |-> "window", window |-> w]>>
      BY <2>1
    <2>3. d \in Seq(AnySignal) /\ TellsRun(d, TRUE) /\ \A v : Shows(d, v, w)
      BY <2>2, StartSaid
    <2>4. QED BY <2>1, <2>3
  <1>5. AsksFor(m, m, ui', TRUE, FALSE, TRUE, ~TRUE)
    BY DEF AsksFor
  <1>6. toCapture' = toCapture \o c
    BY <1>2
  <1>7. QED BY <1>3, <1>4, <1>5, <1>6, Switched DEF Begins

(* A tuple of known length with one more at its end.                       *)
LEMMA AppendedIs ==
  ASSUME NEW S, NEW q \in Seq(S), NEW x \in S, NEW k, k = Append(q, x), NEW n \in Nat, Len(q) = n
  PROVE  k \in Seq(S) /\ Len(k) = n + 1 /\ k[n + 1] = x /\ \A i \in 1..n : k[i] = q[i]
  BY AppendProperties

(* Two pairs, joined.                                                      *)
LEMMA FourJoined ==
  ASSUME NEW S, NEW a \in S, NEW b \in S, NEW c \in S, NEW d \in S,
         NEW q, q = <<a, b>>, NEW r, r = <<c, d>>, NEW k, k = q \o r
  PROVE  k \in Seq(S) /\ Len(k) = 4 /\ k[1] = a /\ k[2] = b /\ k[3] = c /\ k[4] = d
  <1>1. /\ q \in Seq(S) /\ Len(q) = 2 /\ q[1] = a /\ q[2] = b
        /\ r \in Seq(S) /\ Len(r) = 2 /\ r[1] = c /\ r[2] = d
    OBVIOUS
  <1>2. Len(k) = 4 /\ k \in Seq(S)
    BY <1>1, ConcatProperties
  <1>3. \A i \in 1..4 : k[i] = IF i <= 2 THEN q[i] ELSE r[i - 2]
    BY <1>1, <1>2, ConcatProperties
  <1>4. QED BY <1>1, <1>2, <1>3

(* The short queues that the operations put together.                      *)
LEMMA Joined ==
  /\ \A a, b : <<>> \o <<a, b>> = <<a, b>>
  /\ \A a, b, c, d : <<a, b>> \o <<c, d>> = <<a, b, c, d>>
  /\ \A a : Append(<<>>, a) = <<a>>
  /\ \A a, b : Append(<<a>>, b) = <<a, b>>
  /\ \A a, b, c : Append(<<a, b>>, c) = <<a, b, c>>
  <1>1. ASSUME NEW a, NEW b PROVE <<>> \o <<a, b>> = <<a, b>>
    <2>1. <<a, b>> \in Seq({a, b})
      OBVIOUS
    <2>2. QED BY <2>1, ConcatEmptySeq
  <1>2. ASSUME NEW a, NEW b, NEW c, NEW d PROVE <<a, b>> \o <<c, d>> = <<a, b, c, d>>
    <2>1. PICK S : S = {a, b, c, d}
      OBVIOUS
    <2>2. PICK q : q = <<a, b>>
      OBVIOUS
    <2>3. PICK r : r = <<c, d>>
      OBVIOUS
    <2>4. PICK t : t = <<a, b, c, d>>
      OBVIOUS
    <2>5. PICK k : k = q \o r
      OBVIOUS
    <2>6. a \in S /\ b \in S /\ c \in S /\ d \in S
      BY <2>1
    <2>7. t \in Seq(S) /\ Len(t) = 4 /\ t[1] = a /\ t[2] = b /\ t[3] = c /\ t[4] = d
      BY <2>4, <2>6
    <2>8. k \in Seq(S) /\ Len(k) = 4 /\ k[1] = a /\ k[2] = b /\ k[3] = c /\ k[4] = d
      BY <2>2, <2>3, <2>5, <2>6, FourJoined
    <2>11. \A i \in 1..Len(k) : k[i] = t[i]
      <3>1. \A i \in 1..Len(k) : i = 1 \/ i = 2 \/ i = 3 \/ i = 4
        BY <2>8
      <3>2. QED BY <2>7, <2>8, <3>1
    <2>12. k = t
      BY <2>7, <2>8, <2>11, SeqEqual
    <2>13. QED BY <2>2, <2>3, <2>4, <2>5, <2>12
  <1>3. \A a : Append(<<>>, a) = <<a>>
    OBVIOUS
  <1>4. ASSUME NEW a, NEW b PROVE Append(<<a>>, b) = <<a, b>>
    <2>1. PICK S : S = {a, b}
      OBVIOUS
    <2>2. PICK q : q = <<a>>
      OBVIOUS
    <2>3. PICK t : t = <<a, b>>
      OBVIOUS
    <2>4. PICK k : k = Append(q, b)
      OBVIOUS
    <2>5. q \in Seq(S) /\ Len(q) = 1 /\ q[1] = a /\ b \in S
      BY <2>1, <2>2
    <2>6. t \in Seq(S) /\ Len(t) = 2 /\ t[1] = a /\ t[2] = b
      BY <2>1, <2>3
    <2>7. k \in Seq(S) /\ Len(k) = 2 /\ k[1] = a /\ k[2] = b
      <3>1. k \in Seq(S) /\ Len(k) = 1 + 1 /\ k[1 + 1] = b /\ \A i \in 1..1 : k[i] = q[i]
        BY <2>4, <2>5, AppendedIs
      <3>2. QED BY <2>5, <3>1
    <2>8. \A i \in 1..Len(k) : k[i] = t[i]
      <3>1. \A i \in 1..Len(k) : i = 1 \/ i = 2
        BY <2>7
      <3>2. QED BY <2>6, <2>7, <3>1
    <2>9. k = t
      BY <2>6, <2>7, <2>8, SeqEqual
    <2>10. QED BY <2>2, <2>3, <2>4, <2>9
  <1>5. ASSUME NEW a, NEW b, NEW c PROVE Append(<<a, b>>, c) = <<a, b, c>>
    <2>1. PICK S : S = {a, b, c}
      OBVIOUS
    <2>2. PICK q : q = <<a, b>>
      OBVIOUS
    <2>3. PICK t : t = <<a, b, c>>
      OBVIOUS
    <2>4. PICK k : k = Append(q, c)
      OBVIOUS
    <2>5. q \in Seq(S) /\ Len(q) = 2 /\ q[1] = a /\ q[2] = b /\ c \in S
      BY <2>1, <2>2
    <2>6. t \in Seq(S) /\ Len(t) = 3 /\ t[1] = a /\ t[2] = b /\ t[3] = c
      BY <2>1, <2>3
    <2>7. k \in Seq(S) /\ Len(k) = 3 /\ k[1] = a /\ k[2] = b /\ k[3] = c
      <3>1. k \in Seq(S) /\ Len(k) = 2 + 1 /\ k[2 + 1] = c /\ \A i \in 1..2 : k[i] = q[i]
        BY <2>4, <2>5, AppendedIs
      <3>2. QED BY <2>5, <3>1
    <2>8. \A i \in 1..Len(k) : k[i] = t[i]
      <3>1. \A i \in 1..Len(k) : i = 1 \/ i = 2 \/ i = 3
        BY <2>7
      <3>2. QED BY <2>6, <2>7, <3>1
    <2>9. k = t
      BY <2>6, <2>7, <2>8, SeqEqual
    <2>10. QED BY <2>2, <2>3, <2>4, <2>9
  <1>6. QED BY <1>1, <1>2, <1>3, <1>4, <1>5

(* The microphone is allowed, or is not, or is not known to be. *)
LEMMA PermittedStep ==
  ASSUME ReceptionIInv, session < MaxSessions, NEW allowed \in {"undetermined", "granted", "denied"},
         StartIfPermitted(allowed), permission' \in {"undetermined", "granted", "denied"}, asked' \in BOOLEAN,
         UNCHANGED <<capture, hearing, toUi>>
  PROVE  ReceptionIInv'
  <1>1. /\ ui \in AnyUi /\ Fits(ui) /\ missed \in BOOLEAN /\ toCapture \in Seq(AnyCommand)
        /\ toDsp \in Seq(AnySignal) /\ session \in Nat
    BY DEF ReceptionIInv, ReceptionTypes, Tuned, Sessions
  <1> DEFINE stops == <<[op |-> "audioStop"], [op |-> "sdrStop"]>>
             m == [op |-> "audioStart", input |-> ui.input, of |-> session + 1]
             switched == SetSourceMode(Now, "audio")
  <1>2. CASE ui.mode = "audio" /\ allowed = "granted"
    <2>1. /\ ui' = [ui EXCEPT !.error = FALSE]
          /\ toCapture' = toCapture \o <<[op |-> "sdrStop"], m>> /\ toDsp' = toDsp \o <<[op |-> "start"]>>
          /\ session' = session + 1 /\ crossed' = FALSE /\ missed' = FALSE
      <3>1. BeginLiveAudioCapture(switched) =
              [u |-> [ui EXCEPT !.error = FALSE], c |-> <<[op |-> "sdrStop"], m>>, d |-> <<[op |-> "start"]>>]
        BY <1>2, Joined DEF BeginLiveAudioCapture, SetSourceMode, Now
      <3>2. <<[op |-> "sdrStop"], m>> # <<>>
        OBVIOUS
      <3> HIDE DEF m, switched
      <3>3. Anew([u |-> [ui EXCEPT !.error = FALSE], c |-> <<[op |-> "sdrStop"], m>>, d |-> <<[op |-> "start"]>>])
        BY <1>2, <3>1 DEF StartIfPermitted, switched
      <3>4. QED BY <3>2, <3>3 DEF Anew, Perform
    <2>2. /\ ui' \in AnyUi /\ ui'.mode = "audio" /\ ui'.window = ui.window /\ ui'.center = ui.center
          /\ ui'.input = ui.input
      BY <1>1, <1>2, <2>1 DEF AnyUi
    <2>3. m = [op |-> "audioStart", input |-> ui'.input, of |-> session + 1]
      BY <2>2
    <2>4. Begins
      BY <2>1 DEF Begins
    <2> HIDE DEF m
    <2>5. QED BY <2>1, <2>2, <2>3, <2>4, BegunAudio
  <1>3. CASE ui.mode = "audio" /\ allowed # "granted"
    <2>1. switched = [u |-> ui, c |-> <<>>, d |-> <<>>]
      BY <1>3 DEF SetSourceMode, Now
    <2>2. PICK v : v = IF allowed = "denied" THEN [ui EXCEPT !.error = TRUE] ELSE ui
      OBVIOUS
    <2>3. Anew([u |-> v, c |-> <<>>, d |-> <<>>])
      <3>1. Anew(IF allowed = "denied" THEN [switched EXCEPT !.u.error = TRUE] ELSE switched)
        BY <1>3 DEF StartIfPermitted
      <3> HIDE DEF switched
      <3>2. QED BY <2>1, <2>2, <3>1
    <2>4. /\ ui' = v /\ toCapture' = toCapture \o <<>> /\ toDsp' = toDsp \o <<>>
          /\ UNCHANGED <<session, crossed, missed>>
      BY <2>3 DEF Anew, Perform
    <2>5. /\ ui' \in AnyUi /\ ui'.mode = ui.mode /\ ui'.window = ui.window /\ ui'.center = ui.center
          /\ ui'.input = ui.input /\ ui'.live = ui.live /\ ui'.receiver = ui.receiver
      BY <1>1, <2>2, <2>4 DEF AnyUi
    <2>6. toCapture' = toCapture
      BY <1>1, <2>4
    <2>7. PICK d : d = <<>>
      OBVIOUS
    <2>8. /\ d \in Seq(AnySignal) /\ toDsp' = toDsp \o d /\ Shows(d, ui.window, ui'.window)
          /\ \A i \in 1..Len(d) : d[i].op \notin Runs
      BY <2>4, <2>5, <2>7, NothingSaid
    <2>9. Fits(ui') /\ missed' = missed
      BY <1>1, <2>4, <2>5 DEF Fits
    <2>10. QED BY <1>1, <2>4, <2>5, <2>6, <2>8, <2>9, Said
  <1>4. CASE ui.mode # "audio" /\ allowed = "granted"
    <2>1. /\ ui' = [ui EXCEPT !.mode = "audio", !.live = FALSE, !.error = FALSE]
          /\ toCapture' = toCapture \o <<[op |-> "audioStop"], [op |-> "sdrStop"], [op |-> "sdrStop"], m>>
          /\ toDsp' = toDsp \o <<[op |-> "stop"], [op |-> "start"]>>
          /\ session' = session + 1 /\ crossed' = FALSE /\ missed' = FALSE
      <3>1. switched = [u |-> [ui EXCEPT !.mode = "audio", !.live = FALSE], c |-> stops, d |-> <<[op |-> "stop"]>>]
        BY <1>4, Joined DEF SetSourceMode, Now
      <3>2. BeginLiveAudioCapture(switched) =
              [u |-> [ui EXCEPT !.mode = "audio", !.live = FALSE, !.error = FALSE],
               c |-> <<[op |-> "audioStop"], [op |-> "sdrStop"], [op |-> "sdrStop"], m>>,
               d |-> <<[op |-> "stop"], [op |-> "start"]>>]
        <4>1. PICK v : v = [ui EXCEPT !.mode = "audio", !.live = FALSE]
          OBVIOUS
        <4>2. v.input = ui.input /\ [v EXCEPT !.error = FALSE] = [ui EXCEPT !.mode = "audio", !.live = FALSE, !.error = FALSE]
          BY <1>1, <4>1 DEF AnyUi
        <4>3. switched = [u |-> v, c |-> stops, d |-> <<[op |-> "stop"]>>]
          BY <3>1, <4>1
        <4>4. BeginLiveAudioCapture(switched) =
                [u |-> [v EXCEPT !.error = FALSE],
                 c |-> stops \o <<[op |-> "sdrStop"], [op |-> "audioStart", input |-> v.input, of |-> session + 1]>>,
                 d |-> Append(<<[op |-> "stop"]>>, [op |-> "start"])]
          <5> HIDE DEF switched, stops
          <5>1. QED BY <4>3 DEF BeginLiveAudioCapture
        <4>5. stops \o <<[op |-> "sdrStop"], m>> = <<[op |-> "audioStop"], [op |-> "sdrStop"], [op |-> "sdrStop"], m>>
          BY Joined
        <4>6. Append(<<[op |-> "stop"]>>, [op |-> "start"]) = <<[op |-> "stop"], [op |-> "start"]>>
          BY Joined
        <4>7. m = [op |-> "audioStart", input |-> v.input, of |-> session + 1]
          BY <4>2
        <4> HIDE DEF switched, stops, m
        <4>8. QED BY <4>2, <4>4, <4>5, <4>6, <4>7
      <3>3. <<[op |-> "audioStop"], [op |-> "sdrStop"], [op |-> "sdrStop"], m>> # <<>>
        OBVIOUS
      <3> HIDE DEF m, switched
      <3>4. Anew([u |-> [ui EXCEPT !.mode = "audio", !.live = FALSE, !.error = FALSE],
                  c |-> <<[op |-> "audioStop"], [op |-> "sdrStop"], [op |-> "sdrStop"], m>>,
                  d |-> <<[op |-> "stop"], [op |-> "start"]>>])
        BY <1>4, <3>2 DEF StartIfPermitted, switched
      <3>5. QED BY <3>3, <3>4 DEF Anew, Perform
    <2>2. /\ ui' \in AnyUi /\ ui'.mode = "audio" /\ ui'.window = ui.window /\ ui'.center = ui.center
          /\ ui'.input = ui.input
      BY <1>1, <2>1 DEF AnyUi, Modes
    <2>3. m = [op |-> "audioStart", input |-> ui'.input, of |-> session + 1]
      BY <2>2
    <2>4. Begins
      BY <2>1 DEF Begins
    <2> HIDE DEF m
    <2>5. QED BY <2>1, <2>2, <2>3, <2>4, BegunAudio
  <1>5. CASE ui.mode # "audio" /\ allowed # "granted"
    <2>1. switched = [u |-> [ui EXCEPT !.mode = "audio", !.live = FALSE], c |-> stops, d |-> <<[op |-> "stop"]>>]
      BY <1>5, Joined DEF SetSourceMode, Now
    <2>2. PICK v : v = IF allowed = "denied" THEN [ui EXCEPT !.mode = "audio", !.live = FALSE, !.error = TRUE]
                                             ELSE [ui EXCEPT !.mode = "audio", !.live = FALSE]
      OBVIOUS
    <2>3. Anew([u |-> v, c |-> stops, d |-> <<[op |-> "stop"]>>])
      <3>1. Anew(IF allowed = "denied" THEN [switched EXCEPT !.u.error = TRUE] ELSE switched)
        BY <1>5 DEF StartIfPermitted
      <3> HIDE DEF switched
      <3>2. QED BY <2>1, <2>2, <3>1
    <2>4. stops # <<>>
      OBVIOUS
    <2>5. /\ ui' = v /\ toCapture' = toCapture \o stops /\ toDsp' = toDsp \o <<[op |-> "stop"]>>
          /\ session' = session + 1 /\ crossed' = FALSE /\ missed' = FALSE
      BY <2>3, <2>4 DEF Anew, Perform
    <2>6. /\ ui' \in AnyUi /\ ~ui'.live /\ ui'.window = ui.window /\ ui'.center = ui.center
      BY <1>1, <2>2, <2>5 DEF AnyUi, Modes
    <2>7. Begins
      BY <2>5 DEF Begins
    <2>8. QED BY <2>5, <2>6, <2>7, Stopped
  <1>6. QED BY <1>2, <1>3, <1>4, <1>5

(* The operator stops receiving.                                           *)
LEMMA StopStep ==
  ASSUME ReceptionIInv, StopLive
  PROVE  ReceptionIInv'
  <1>1. ui \in AnyUi /\ permission \in {"undetermined", "granted", "denied"} /\ asked \in BOOLEAN
    BY DEF ReceptionIInv, ReceptionTypes
  <1> DEFINE stops == <<[op |-> "audioStop"], [op |-> "sdrStop"]>>
  <1>2. stops # <<>>
    OBVIOUS
  <1>3. /\ ui' = [ui EXCEPT !.live = FALSE] /\ toCapture' = toCapture \o stops /\ toDsp' = toDsp \o <<[op |-> "stop"]>>
        /\ session' = session + 1 /\ crossed' = FALSE /\ missed' = FALSE /\ session < MaxSessions
        /\ UNCHANGED <<permission, asked, capture, hearing, toUi>>
    <2> HIDE DEF stops
    <2>1. Anew([u |-> [ui EXCEPT !.live = FALSE], c |-> stops, d |-> <<[op |-> "stop"]>>])
      BY DEF StopLive, stops
    <2>2. QED BY <1>2, <2>1 DEF Anew, Perform, StopLive, MayAct
  <1>4. ui' \in AnyUi /\ ~ui'.live /\ ui'.window = ui.window /\ ui'.center = ui.center
    BY <1>1, <1>3 DEF AnyUi
  <1>5. Begins
    BY <1>1, <1>3 DEF Begins
  <1>6. QED BY <1>3, <1>4, <1>5, Stopped

(* The operator selects the other source.                                  *)
LEMMA SwitchStep ==
  ASSUME ReceptionIInv, SwitchSource
  PROVE  ReceptionIInv'
  <1>1. ui \in AnyUi /\ permission \in {"undetermined", "granted", "denied"} /\ asked \in BOOLEAN
    BY DEF ReceptionIInv, ReceptionTypes
  <1>2. PICK mode \in Modes \ {ui.mode} : Anew(SetSourceMode(Now, mode))
    BY DEF SwitchSource
  <1> DEFINE stops == <<[op |-> "audioStop"], [op |-> "sdrStop"]>>
  <1>3. stops # <<>>
    OBVIOUS
  <1>4. SetSourceMode(Now, mode) =
          [u |-> [ui EXCEPT !.mode = mode, !.live = FALSE], c |-> stops, d |-> <<[op |-> "stop"]>>]
    BY <1>2, Joined DEF SetSourceMode, Now
  <1>5. /\ ui' = [ui EXCEPT !.mode = mode, !.live = FALSE]
        /\ toCapture' = toCapture \o stops /\ toDsp' = toDsp \o <<[op |-> "stop"]>>
        /\ session' = session + 1 /\ crossed' = FALSE /\ missed' = FALSE /\ session < MaxSessions
        /\ UNCHANGED <<permission, asked, capture, hearing, toUi>>
    <2> HIDE DEF stops
    <2>1. Anew([u |-> [ui EXCEPT !.mode = mode, !.live = FALSE], c |-> stops, d |-> <<[op |-> "stop"]>>])
      BY <1>2, <1>4
    <2>2. QED BY <1>3, <2>1 DEF Anew, Perform, SwitchSource, MayAct
  <1>6. ui' \in AnyUi /\ ~ui'.live /\ ui'.window = ui.window /\ ui'.center = ui.center
    BY <1>1, <1>2, <1>5 DEF AnyUi
  <1>7. Begins
    BY <1>1, <1>5 DEF Begins
  <1>8. QED BY <1>5, <1>6, <1>7, Stopped

(* Another input is selected, while one is received or not. *)
LEMMA InputStep ==
  ASSUME ReceptionIInv, SetAudioInputSelection
  PROVE  ReceptionIInv'
  <1>1. /\ ui \in AnyUi /\ permission \in {"undetermined", "granted", "denied"} /\ asked \in BOOLEAN
        /\ Fits(ui) /\ missed \in BOOLEAN /\ toCapture \in Seq(AnyCommand)
    BY DEF ReceptionIInv, ReceptionTypes, Tuned
  <1>2. PICK input \in Inputs \ {ui.input} :
          IF ui.live /\ ui.mode = "audio"
            THEN Anew(BeginLiveAudioCapture([Now EXCEPT !.u.input = input]))
            ELSE Unsaid([Now EXCEPT !.u.input = input], "audio")
    BY DEF SetAudioInputSelection
  <1>3. PICK v : v = [ui EXCEPT !.input = input]
    OBVIOUS
  <1>4. /\ v \in AnyUi /\ v.mode = ui.mode /\ v.live = ui.live /\ v.window = ui.window /\ v.center = ui.center
        /\ v.receiver = ui.receiver /\ v.input = input
    BY <1>1, <1>3 DEF AnyUi
  <1>5. [Now EXCEPT !.u.input = input] = [u |-> v, c |-> <<>>, d |-> <<>>]
    BY <1>3 DEF Now
  <1>6. /\ session < MaxSessions /\ UNCHANGED <<permission, asked, capture, hearing, toUi>>
    BY DEF SetAudioInputSelection, MayAct
  <1>7. CASE ui.live /\ ui.mode = "audio"
    <2>1. PICK m : m = [op |-> "audioStart", input |-> v.input, of |-> session + 1]
      OBVIOUS
    <2>2. PICK w : w = [v EXCEPT !.error = FALSE]
      OBVIOUS
    <2>3. BeginLiveAudioCapture([u |-> v, c |-> <<>>, d |-> <<>>]) =
            [u |-> w, c |-> <<[op |-> "sdrStop"], m>>, d |-> <<[op |-> "start"]>>]
      BY <2>1, <2>2, Joined DEF BeginLiveAudioCapture
    <2>4. Anew([u |-> w, c |-> <<[op |-> "sdrStop"], m>>, d |-> <<[op |-> "start"]>>])
      BY <1>2, <1>5, <1>7, <2>3
    <2>5. <<[op |-> "sdrStop"], m>> # <<>>
      OBVIOUS
    <2>6. /\ ui' = w /\ toCapture' = toCapture \o <<[op |-> "sdrStop"], m>> /\ toDsp' = toDsp \o <<[op |-> "start"]>>
          /\ session' = session + 1 /\ crossed' = FALSE /\ missed' = FALSE
      BY <2>4, <2>5 DEF Anew, Perform
    <2>7. /\ w \in AnyUi /\ w.mode = "audio" /\ w.window = ui.window /\ w.center = ui.center /\ w.input = v.input
      BY <1>4, <1>7, <2>2 DEF AnyUi
    <2>8. Begins
      BY <1>1, <1>6, <2>6 DEF Begins
    <2>9. m = [op |-> "audioStart", input |-> ui'.input, of |-> session + 1]
      BY <2>1, <2>6, <2>7
    <2>10. QED BY <2>6, <2>7, <2>8, <2>9, BegunAudio
  <1>8. CASE ~(ui.live /\ ui.mode = "audio")
    <2>1. Unsaid([u |-> v, c |-> <<>>, d |-> <<>>], "audio")
      BY <1>2, <1>5, <1>8
    <2>2. /\ ui' = v /\ toCapture' = toCapture \o <<>> /\ toDsp' = toDsp \o <<>>
          /\ missed' = (missed \/ (Underway /\ ui.mode = "audio")) /\ UNCHANGED <<session, crossed>>
      BY <2>1 DEF Unsaid, Perform
    <2>3. toCapture' = toCapture
      BY <1>1, <2>2
    <2>4. PICK d : d = <<>>
      OBVIOUS
    <2>5. /\ d \in Seq(AnySignal) /\ toDsp' = toDsp \o d /\ Shows(d, ui.window, ui'.window)
          /\ \A i \in 1..Len(d) : d[i].op \notin Runs
      BY <1>4, <2>2, <2>4, NothingSaid
    <2>6. Fits(ui')
      BY <1>1, <1>4, <2>2 DEF Fits
    <2>7. missed' \in BOOLEAN /\ (missed => missed') /\ (ui.mode = "audio" /\ Underway => missed')
      BY <1>1, <2>2
    <2>8. ui' \in AnyUi /\ ui'.mode = ui.mode /\ ui'.live = ui.live /\ ui'.receiver = ui.receiver /\ ui'.center = ui.center
      BY <1>4, <2>2
    <2>9. QED BY <1>1, <1>6, <2>2, <2>3, <2>5, <2>6, <2>7, <2>8, Said
  <1>9. QED BY <1>7, <1>8

-----------------------------------------------------------------------------
(* The receiver is started, or its settings change. *)
LEMMA PublishIs ==
  ASSUME NEW v \in AnyUi, NEW c, NEW d, NEW w, w = WindowFor(v.center, v.window)
  PROVE  PublishSdrDecoderWindow([u |-> v, c |-> c, d |-> d]) =
           [u |-> [v EXCEPT !.window = w], c |-> c, d |-> Append(d, [op |-> "window", window |-> w])]
  <1>1. PICK e : e = [u |-> v, c |-> c, d |-> d]
    OBVIOUS
  <1>2. e.u = v /\ WindowFor(e.u.center, e.u.window) = w
    BY <1>1
  <1>3. PICK m : m = [op |-> "window", window |-> w]
    OBVIOUS
  <1>4. PICK a : a = Append(d, m)
    OBVIOUS
  <1>5. PICK y : y = [v EXCEPT !.window = w]
    OBVIOUS
  <1>6. PublishSdrDecoderWindow(e) = [e EXCEPT !.u = y, !.d = a]
    <2>1. PublishSdrDecoderWindow(e) = [e EXCEPT !.u = [e.u EXCEPT !.window = w], !.d = Append(e.d, m)]
      BY <1>2, <1>3, Zenon DEF PublishSdrDecoderWindow
    <2>2. e.d = d
      BY <1>1
    <2>3. QED BY <1>2, <1>4, <1>5, <2>1, <2>2
  <1>7. [e EXCEPT !.u = y, !.d = a] = [u |-> y, c |-> c, d |-> a]
    <2>1. PICK f : f = [[u |-> v, c |-> c, d |-> d] EXCEPT !.u = y, !.d = a]
      OBVIOUS
    <2>2. PICK g : g = [u |-> y, c |-> c, d |-> a]
      OBVIOUS
    <2>3. f \in [u : {y}, c : {c}, d : {a}] /\ g \in [u : {y}, c : {c}, d : {a}]
      BY <2>1, <2>2
    <2>4. f.u = g.u /\ f.c = g.c /\ f.d = g.d
      BY <2>1, <2>2
    <2>5. f = g
      BY <2>3, <2>4
    <2>6. f = [e EXCEPT !.u = y, !.d = a]
      BY <1>1, <2>1, Zenon
    <2>7. QED BY <2>2, <2>5, <2>6
  <1>8. QED BY <1>1, <1>3, <1>4, <1>5, <1>6, <1>7

(* What beginLiveSdrCapture() leaves and sends, of v and d: y, c and f.    *)
BegunSdrAs(v, d, w, m, c, y, f) ==
  /\ v \in AnyUi /\ v.receiver # None /\ w = WindowFor(v.center, v.window)
  /\ m = [op |-> "sdrStart", receiver |-> v.receiver, center |-> v.center, of |-> session + 1]
  /\ c = <<[op |-> "audioStop"], m>>
  /\ y = [v EXCEPT !.error = FALSE, !.live = FALSE, !.window = w]
  /\ f = Append(Append(d, [op |-> "start"]), [op |-> "window", window |-> w])

LEMMA BeginSdrIs ==
  ASSUME NEW v, NEW d, NEW w, NEW m, NEW c, NEW y, NEW f, BegunSdrAs(v, d, w, m, c, y, f)
  PROVE  BeginLiveSdrCapture([u |-> v, c |-> <<>>, d |-> d]) = [u |-> y, c |-> c, d |-> f]
  <1>1. /\ v \in AnyUi /\ v.receiver # None /\ w = WindowFor(v.center, v.window)
        /\ m = [op |-> "sdrStart", receiver |-> v.receiver, center |-> v.center, of |-> session + 1]
        /\ c = <<[op |-> "audioStop"], m>>
        /\ y = [v EXCEPT !.error = FALSE, !.live = FALSE, !.window = w]
        /\ f = Append(Append(d, [op |-> "start"]), [op |-> "window", window |-> w])
    BY DEF BegunSdrAs
  <1>2. PICK x : x = [v EXCEPT !.error = FALSE, !.live = FALSE]
    OBVIOUS
  <1>3. PICK e : e = Append(d, [op |-> "start"])
    OBVIOUS
  <1>4. x \in AnyUi /\ x.center = v.center /\ x.window = v.window
    BY <1>1, <1>2 DEF AnyUi
  <1>5. <<>> \o <<[op |-> "audioStop"], m>> = c
    BY <1>1, Joined
  <1>6. BeginLiveSdrCapture([u |-> v, c |-> <<>>, d |-> d]) = PublishSdrDecoderWindow([u |-> x, c |-> c, d |-> e])
    BY <1>1, <1>2, <1>3, <1>5 DEF BeginLiveSdrCapture
  <1>7. [x EXCEPT !.window = w] = [v EXCEPT !.error = FALSE, !.live = FALSE, !.window = w]
    BY <1>1, <1>2 DEF AnyUi
  <1>8. [x EXCEPT !.window = w] = y
    BY ONLY <1>1, <1>7
  <1>9. PublishSdrDecoderWindow([u |-> x, c |-> c, d |-> e]) =
          [u |-> [x EXCEPT !.window = w], c |-> c, d |-> Append(e, [op |-> "window", window |-> w])]
    <2>1. x \in AnyUi /\ w = WindowFor(x.center, x.window)
      BY <1>1, <1>4
    <2>2. QED BY ONLY <2>1, PublishIs
  <1>10. QED BY <1>1, <1>3, <1>6, <1>8, <1>9

(* A receiver that is selected is started, as v says. *)
LEMMA SdrBegins ==
  ASSUME ReceptionIInv, session < MaxSessions, UNCHANGED <<permission, asked, capture, hearing, toUi>>,
         NEW v \in AnyUi, v.mode = "sdr", v.receiver # None, NEW x \in Frequencies, NEW d,
         d = <<>> \/ d = <<[op |-> "window", window |-> x]>>,
         Anew(BeginLiveSdrCapture([u |-> v, c |-> <<>>, d |-> d]))
  PROVE  ReceptionIInv'
  <1>1. permission \in {"undetermined", "granted", "denied"} /\ asked \in BOOLEAN
    BY DEF ReceptionIInv, ReceptionTypes
  <1>2. PICK w : w = WindowFor(v.center, v.window)
    OBVIOUS
  <1>3. w \in Frequencies /\ Distance(w, v.center) + DecoderHalf < Half
    BY <1>2, WindowForFits DEF AnyUi
  <1>4. PICK m : m = [op |-> "sdrStart", receiver |-> v.receiver, center |-> v.center, of |-> session + 1]
    OBVIOUS
  <1>5. PICK e : e = Append(Append(d, [op |-> "start"]), [op |-> "window", window |-> w])
    OBVIOUS
  <1>6. PICK y : y = [v EXCEPT !.error = FALSE, !.live = FALSE, !.window = w]
    OBVIOUS
  <1>7. /\ y \in AnyUi /\ y.mode = "sdr" /\ y.receiver = v.receiver /\ y.center = v.center /\ y.window = w
        /\ Fits(y)
    BY <1>3, <1>6 DEF AnyUi, Fits
  <1>8. PICK c : c = <<[op |-> "audioStop"], m>>
    OBVIOUS
  <1>9. Anew([u |-> y, c |-> c, d |-> e])
    <2>1. BeginLiveSdrCapture([u |-> v, c |-> <<>>, d |-> d]) = [u |-> y, c |-> c, d |-> e]
      <3>1. BegunSdrAs(v, d, w, m, c, y, e)
        BY <1>2, <1>4, <1>5, <1>6, <1>8 DEF BegunSdrAs
      <3>2. QED BY ONLY <3>1, BeginSdrIs
    <2>2. QED BY <2>1
  <1>10. c # <<>>
    BY <1>8
  <1>11. /\ ui' = y /\ toCapture' = toCapture \o c /\ toDsp' = toDsp \o e
         /\ session' = session + 1 /\ crossed' = FALSE /\ missed' = FALSE
    BY <1>9, <1>10 DEF Anew, Perform
  <1>12. \/ e = <<[op |-> "start"], [op |-> "window", window |-> ui'.window]>>
         \/ e = <<[op |-> "window", window |-> x], [op |-> "start"], [op |-> "window", window |-> ui'.window]>>
    <2>1. ui'.window = w
      BY <1>7, <1>11
    <2>2. CASE d = <<>>
      <3>1. Append(d, [op |-> "start"]) = <<[op |-> "start"]>>
        BY <2>2, Joined
      <3>2. QED BY <1>5, <2>1, <3>1, Joined
    <2>3. CASE d = <<[op |-> "window", window |-> x]>>
      <3>1. \A a : Append(<<a>>, [op |-> "start"]) = <<a, [op |-> "start"]>>
        BY Joined
      <3>2. Append(d, [op |-> "start"]) = <<[op |-> "window", window |-> x], [op |-> "start"]>>
        BY <2>3, <3>1
      <3>3. PICK a : a = [op |-> "window", window |-> x]
        OBVIOUS
      <3>4. PICK b : b = [op |-> "start"]
        OBVIOUS
      <3>5. PICK k : k = [op |-> "window", window |-> w]
        OBVIOUS
      <3>6. Append(<<a, b>>, k) = <<a, b, k>>
        BY Joined
      <3>7. e = <<a, b, k>>
        BY <1>5, <3>2, <3>3, <3>4, <3>5, <3>6
      <3>8. QED BY <2>1, <3>3, <3>4, <3>5, <3>7
    <2>4. QED BY <2>2, <2>3
  <1>13. Begins
    BY <1>1, <1>11 DEF Begins
  <1>14. m = [op |-> "sdrStart", receiver |-> ui'.receiver, center |-> ui'.center, of |-> session + 1]
    BY <1>4, <1>7, <1>11
  <1>15. toCapture' = toCapture \o <<[op |-> "audioStop"], m>>
    BY <1>8, <1>11
  <1>16. ui' \in AnyUi /\ ui'.mode = "sdr" /\ ui'.receiver # None /\ Fits(ui')
    BY <1>7, <1>11
  <1>17. QED BY <1>11, <1>12, <1>13, <1>14, <1>15, <1>16, BegunSdr

(* The settings are handed over.                                           *)
Chosen(r, c, w) == [Now EXCEPT !.u.receiver = r, !.u.center = c, !.u.window = w]

(* What the chosen receiver leaves of the controller.                      *)
LEMMA ChosenIs ==
  ASSUME NEW r, NEW c, NEW w, NEW v, v = [ui EXCEPT !.receiver = r, !.center = c, !.window = w]
  PROVE  Chosen(r, c, w) = [u |-> v, c |-> <<>>, d |-> <<>>]
  <1>1. [Now EXCEPT !.u.receiver = r, !.u.center = c, !.u.window = w]
          = [Now EXCEPT !.u = [Now.u EXCEPT !.receiver = r, !.center = c, !.window = w]]
    OBVIOUS
  <1>2. Now.u = ui
    BY DEF Now
  <1>3. PICK n : n = <<>>
    OBVIOUS
  <1>4. Now = [u |-> ui, c |-> n, d |-> n]
    BY <1>3 DEF Now
  <1>5. [[u |-> ui, c |-> n, d |-> n] EXCEPT !.u = v] = [u |-> v, c |-> n, d |-> n]
    OBVIOUS
  <1>6. [Now EXCEPT !.u = v] = [u |-> v, c |-> n, d |-> n]
    BY <1>4, <1>5, Zenon
  <1>7. [Now EXCEPT !.u.receiver = r, !.u.center = c, !.u.window = w] = [Now EXCEPT !.u = v]
    BY <1>1, <1>2
  <1>8. QED BY <1>3, <1>6, <1>7 DEF Chosen

HandsOver(v, r, c, w) ==
  /\ v \in AnyUi /\ v.mode = ui.mode /\ v.live = ui.live /\ v.input = ui.input
  /\ v.receiver = r /\ v.center = c /\ v.window = w
  /\ Chosen(r, c, w) = [u |-> v, c |-> <<>>, d |-> <<>>]

(* There is a controller that the settings hand over to.                   *)
LEMMA HandedOver ==
  ASSUME ui \in AnyUi, NEW r, r \in Receivers \cup {None}, NEW c, c \in Centers, NEW w, w \in Frequencies
  PROVE  \E v : HandsOver(v, r, c, w)
  <1>1. PICK v : v = [ui EXCEPT !.receiver = r, !.center = c, !.window = w]
    OBVIOUS
  <1>2. /\ v \in AnyUi /\ v.mode = ui.mode /\ v.live = ui.live /\ v.input = ui.input
        /\ v.receiver = r /\ v.center = c /\ v.window = w
    BY <1>1 DEF AnyUi
  <1>3. PICK x, y, z : x = r /\ y = c /\ z = w
    OBVIOUS
  <1>4. Chosen(r, c, w) = [u |-> v, c |-> <<>>, d |-> <<>>]
    <2>1. v = [ui EXCEPT !.receiver = x, !.center = y, !.window = z]
      BY <1>1, <1>3
    <2>2. Chosen(x, y, z) = [u |-> v, c |-> <<>>, d |-> <<>>]
      BY <2>1, ChosenIs
    <2>3. QED BY <1>3, <2>2
  <1>5. QED BY <1>2, <1>4 DEF HandsOver

(* The operator starts a receiver.                                         *)
LEMMA StartSdrStep ==
  ASSUME ReceptionIInv, StartLiveSdr
  PROVE  ReceptionIInv'
  <1>1. /\ ui \in AnyUi /\ Fits(ui) /\ missed \in BOOLEAN /\ toCapture \in Seq(AnyCommand)
        /\ permission \in {"undetermined", "granted", "denied"} /\ asked \in BOOLEAN
    BY DEF ReceptionIInv, ReceptionTypes, Tuned
  <1>2. /\ ui.mode = "sdr" /\ session < MaxSessions /\ UNCHANGED <<permission, asked, capture, hearing, toUi>>
        /\ Anew(BeginLiveSdrCapture(SetSourceMode(Now, "sdr")))
    BY DEF StartLiveSdr, MayAct
  <1>3. SetSourceMode(Now, "sdr") = [u |-> ui, c |-> <<>>, d |-> <<>>]
    BY <1>2 DEF SetSourceMode, Now
  <1>4. CASE ui.receiver # None
    <2>1. PICK d : d = <<>>
      OBVIOUS
    <2>2. PICK x \in Frequencies : TRUE
      BY <1>1 DEF AnyUi
    <2>3. Anew(BeginLiveSdrCapture([u |-> ui, c |-> <<>>, d |-> d]))
      BY <1>2, <1>3, <2>1
    <2>4. QED BY <1>1, <1>2, <1>4, <2>1, <2>2, <2>3, SdrBegins
  <1>5. CASE ui.receiver = None
    <2>1. PICK v : v = [ui EXCEPT !.error = TRUE]
      OBVIOUS
    <2>2. BeginLiveSdrCapture([u |-> ui, c |-> <<>>, d |-> <<>>]) = [u |-> v, c |-> <<>>, d |-> <<>>]
      BY <1>5, <2>1 DEF BeginLiveSdrCapture
    <2>3. Anew([u |-> v, c |-> <<>>, d |-> <<>>])
      BY <1>2, <1>3, <2>2
    <2>4. /\ ui' = v /\ toCapture' = toCapture \o <<>> /\ toDsp' = toDsp \o <<>>
          /\ UNCHANGED <<session, crossed, missed>>
      BY <2>3 DEF Anew, Perform
    <2>5. /\ ui' \in AnyUi /\ ui'.mode = ui.mode /\ ui'.window = ui.window /\ ui'.center = ui.center
          /\ ui'.input = ui.input /\ ui'.live = ui.live /\ ui'.receiver = ui.receiver
      BY <1>1, <2>1, <2>4 DEF AnyUi
    <2>6. toCapture' = toCapture
      BY <1>1, <2>4
    <2>7. PICK d : d = <<>>
      OBVIOUS
    <2>8. /\ d \in Seq(AnySignal) /\ toDsp' = toDsp \o d /\ Shows(d, ui.window, ui'.window)
          /\ \A i \in 1..Len(d) : d[i].op \notin Runs
      BY <2>4, <2>5, <2>7, NothingSaid
    <2>9. Fits(ui') /\ missed' = missed
      BY <1>1, <2>4, <2>5 DEF Fits
    <2>10. /\ UNCHANGED <<session, crossed, capture, hearing, toUi>> /\ missed' \in BOOLEAN /\ (missed => missed')
           /\ permission' \in {"undetermined", "granted", "denied"} /\ asked' \in BOOLEAN
      BY <1>1, <1>2, <2>4, <2>9
    <2>11. /\ ui' \in AnyUi /\ Fits(ui') /\ ui'.mode = ui.mode /\ ui'.live = ui.live /\ ui'.input = ui.input
           /\ ui'.receiver = ui.receiver /\ ui'.center = ui.center
      BY <2>5, <2>9
    <2>12. QED BY ONLY ReceptionIInv, <2>6, <2>8, <2>10, <2>11, Said
  <1>6. QED BY <1>4, <1>5

(* What the settings leave of the controller, told, with the window they   *)
(* hand over or as it is pulled inside, and what the DSP worker is told.   *)
ToldAs(e, w, d) ==
  /\ w \in AnyUi /\ Fits(w) /\ e = [u |-> w, c |-> <<>>, d |-> d]
  /\ \/ d = <<>> /\ w.window = ui.window
     \/ d = <<[op |-> "window", window |-> w.window]>>

(* What the settings tell the DSP worker.                                  *)
LEMMA ToldIs ==
  ASSUME NEW w, NEW e, NEW d, ToldAs(e, w, d)
  PROVE  /\ d \in Seq(AnySignal) /\ Shows(d, ui.window, w.window)
         /\ \A i \in 1..Len(d) : d[i].op \notin Runs
  <1>1. CASE d = <<>> /\ w.window = ui.window
    BY <1>1, NothingSaid
  <1>2. CASE d = <<[op |-> "window", window |-> w.window]>>
    <2>1. PICK x \in Frequencies : x = w.window
      BY DEF ToldAs, AnyUi
    <2>2. d = <<[op |-> "window", window |-> x]>>
      BY <1>2, <2>1
    <2>3. /\ d \in Seq(AnySignal) /\ \A v : Shows(d, v, x)
          /\ \A i \in 1..Len(d) : d[i].op \notin Runs
      BY <2>2, WindowSaid
    <2>4. QED BY <2>1, <2>3
  <1>3. QED BY <1>1, <1>2 DEF ToldAs

(* A settings change that sends no command.                                *)
LEMMA UnsaidSdr ==
  ASSUME ReceptionIInv, UNCHANGED <<permission, asked, capture, hearing, toUi>>,
         NEW e, NEW w, NEW d, ToldAs(e, w, d), NEW v, v \in {w, [w EXCEPT !.error = TRUE]},
         Unsaid([u |-> v, c |-> <<>>, d |-> d], "sdr"),
         w.mode = ui.mode, w.live = ui.live, w.input = ui.input
  PROVE  ReceptionIInv'
  <1>1. /\ missed \in BOOLEAN /\ toCapture \in Seq(AnyCommand) /\ toDsp \in Seq(AnySignal)
        /\ permission \in {"undetermined", "granted", "denied"} /\ asked \in BOOLEAN
    BY DEF ReceptionIInv, ReceptionTypes
  <1>2. /\ ui' = v /\ toCapture' = toCapture \o <<>> /\ toDsp' = toDsp \o d
        /\ missed' = (missed \/ (Underway /\ ui.mode = "sdr")) /\ UNCHANGED <<session, crossed>>
    BY DEF Unsaid, Perform
  <1>3. /\ ui' \in AnyUi /\ ui'.window = w.window /\ ui'.mode = ui.mode /\ ui'.live = ui.live /\ ui'.input = ui.input
        /\ Fits(ui')
    BY <1>2 DEF ToldAs, AnyUi, Fits
  <1>4. toCapture' = toCapture
    BY <1>1, <1>2
  <1>5. /\ d \in Seq(AnySignal) /\ Shows(d, ui.window, ui'.window)
        /\ \A i \in 1..Len(d) : d[i].op \notin Runs
    BY <1>3, ToldIs
  <1>6. missed' \in BOOLEAN /\ (missed => missed') /\ (ui.mode = "sdr" /\ Underway => missed')
    BY <1>1, <1>2
  <1>7. QED BY <1>1, <1>2, <1>3, <1>4, <1>5, <1>6, Said

(* The operator applies the SDR settings.                                  *)
LEMMA SettingsStep ==
  ASSUME ReceptionIInv, ApplySdrInput
  PROVE  ReceptionIInv'
  <1>1. /\ ui \in AnyUi /\ Fits(ui) /\ missed \in BOOLEAN /\ toCapture \in Seq(AnyCommand)
        /\ permission \in {"undetermined", "granted", "denied"} /\ asked \in BOOLEAN
    BY DEF ReceptionIInv, ReceptionTypes, Tuned
  <1>2. session < MaxSessions /\ UNCHANGED <<permission, asked, capture, hearing, toUi>>
    BY DEF ApplySdrInput, MayAct
  <1> DEFINE ToldOf(receiver, center, window) ==
               IF center # ui.center \/ window # ui.window \/ ~ui.live
                 THEN PublishSdrDecoderWindow(Chosen(receiver, center, window)) ELSE Chosen(receiver, center, window)
             Applied(receiver, center, told) ==
               CASE ui.live /\ ui.mode = "sdr" /\ receiver # ui.receiver /\ receiver # None ->
                      Anew(BeginLiveSdrCapture(told))
                 [] ui.live /\ ui.mode = "sdr" /\ receiver # ui.receiver /\ receiver = None ->
                      Unsaid(BeginLiveSdrCapture(told), "sdr")
                 [] ui.live /\ ui.mode = "sdr" /\ receiver = ui.receiver /\ center # ui.center ->
                      /\ Perform([told EXCEPT !.c = <<[op |-> "retune", center |-> center]>>])
                      /\ UNCHANGED <<session, crossed, missed>>
                 [] ~(ui.live /\ ui.mode = "sdr") /\ (receiver # ui.receiver \/ center # ui.center) ->
                      Unsaid(told, "sdr")
                 [] OTHER -> Perform(told) /\ UNCHANGED <<session, crossed, missed>>
  <1>3. PICK receiver \in Receivers \cup {None}, center \in Centers, wanted \in Centers :
          Applied(receiver, center, ToldOf(receiver, center, Within(center, HeldReach, wanted)))
    BY DEF ApplySdrInput, Chosen
  <1>4. PICK window : window = Within(center, HeldReach, wanted)
    OBVIOUS
  <1>5. window \in Frequencies /\ Distance(window, center) + DecoderHalf < Half
    BY <1>4, HeldFits
  <1>6. PICK told : told = ToldOf(receiver, center, window)
    OBVIOUS
  <1>7. Applied(receiver, center, told)
    BY <1>3, <1>4, <1>6
  <1>8. \E w, d : /\ ToldAs(told, w, d) /\ w.mode = ui.mode /\ w.live = ui.live /\ w.input = ui.input
                  /\ w.receiver = receiver /\ w.center = center
    <2>1. PICK v : HandsOver(v, receiver, center, window)
      BY <1>1, <1>5, HandedOver
    <2>2. /\ v \in AnyUi /\ v.mode = ui.mode /\ v.live = ui.live /\ v.input = ui.input
          /\ v.receiver = receiver /\ v.center = center /\ v.window = window
      BY <2>1 DEF HandsOver
    <2>3. Chosen(receiver, center, window) = [u |-> v, c |-> <<>>, d |-> <<>>]
      BY <2>1 DEF HandsOver
    <2>4. CASE told = Chosen(receiver, center, window) /\ window = ui.window
      <3>1. ToldAs(told, v, <<>>)
        BY <1>5, <2>2, <2>3, <2>4 DEF ToldAs, Fits
      <3>2. QED BY <2>2, <3>1
    <2>5. CASE told = PublishSdrDecoderWindow(Chosen(receiver, center, window))
      <3>1. PICK x : x = WindowFor(center, window)
        OBVIOUS
      <3>2. x \in Frequencies /\ Distance(x, center) + DecoderHalf < Half
        BY <1>5, <3>1, WindowForFits
      <3>3. PICK w : w = [v EXCEPT !.window = x]
        OBVIOUS
      <3>4. /\ w \in AnyUi /\ w.mode = ui.mode /\ w.live = ui.live /\ w.input = ui.input
            /\ w.receiver = receiver /\ w.center = center /\ w.window = x
        BY <2>2, <3>2, <3>3 DEF AnyUi
      <3>5. told = [u |-> w, c |-> <<>>, d |-> Append(<<>>, [op |-> "window", window |-> x])]
        <4>1. x = WindowFor(v.center, v.window)
          BY <2>2, <3>1
        <4>2. PICK n : n = <<>>
          OBVIOUS
        <4>3. told = PublishSdrDecoderWindow([u |-> v, c |-> n, d |-> n])
          BY <2>3, <2>5, <4>2
        <4>4. PublishSdrDecoderWindow([u |-> v, c |-> n, d |-> n]) =
                [u |-> [v EXCEPT !.window = x], c |-> n, d |-> Append(n, [op |-> "window", window |-> x])]
          BY <2>2, <4>1, PublishIs
        <4>5. QED BY <3>3, <4>2, <4>3, <4>4
      <3>6. PICK d : d = <<[op |-> "window", window |-> x]>>
        OBVIOUS
      <3>7. told = [u |-> w, c |-> <<>>, d |-> d]
        BY <3>5, <3>6, Joined
      <3>8. ToldAs(told, w, d)
        BY <3>2, <3>4, <3>6, <3>7 DEF ToldAs, Fits
      <3>9. QED BY <3>4, <3>8
    <2>6. QED BY <1>6, <2>4, <2>5
  <1>9. PICK w, d : /\ ToldAs(told, w, d) /\ w.mode = ui.mode /\ w.live = ui.live /\ w.input = ui.input
                    /\ w.receiver = receiver /\ w.center = center
    BY <1>8
  <1>10. /\ told = [u |-> w, c |-> <<>>, d |-> d] /\ w \in AnyUi /\ Fits(w)
         /\ d \in Seq(AnySignal) /\ Shows(d, ui.window, w.window)
         /\ \A i \in 1..Len(d) : d[i].op \notin Runs
    BY <1>9, ToldIs DEF ToldAs
  <1> HIDE DEF ToldOf
  <1>11. CASE ui.live /\ ui.mode = "sdr" /\ receiver # ui.receiver /\ receiver # None
    <2>1. Anew(BeginLiveSdrCapture([u |-> w, c |-> <<>>, d |-> d]))
      BY <1>7, <1>10, <1>11
    <2>2. PICK x \in Frequencies : x = w.window
      BY <1>10 DEF AnyUi
    <2>3. d = <<>> \/ d = <<[op |-> "window", window |-> x]>>
      BY <1>9, <2>2 DEF ToldAs
    <2>4. w.mode = "sdr" /\ w.receiver # None
      BY <1>9, <1>11
    <2>5. QED BY <1>2, <1>10, <2>1, <2>3, <2>4, SdrBegins
  <1>12. CASE ui.live /\ ui.mode = "sdr" /\ receiver # ui.receiver /\ receiver = None
    <2>1. Unsaid(BeginLiveSdrCapture(told), "sdr")
      BY <1>7, <1>12
    <2>2. PICK v : v = [w EXCEPT !.error = TRUE]
      OBVIOUS
    <2>3. BeginLiveSdrCapture([u |-> w, c |-> <<>>, d |-> d]) = [u |-> v, c |-> <<>>, d |-> d]
      BY <1>9, <1>12, <2>2 DEF BeginLiveSdrCapture
    <2>4. Unsaid([u |-> v, c |-> <<>>, d |-> d], "sdr")
      BY <1>10, <2>1, <2>3
    <2>5. QED BY <1>2, <1>9, <2>2, <2>4, UnsaidSdr
  <1>13. CASE ui.live /\ ui.mode = "sdr" /\ receiver = ui.receiver /\ center # ui.center
    <2>1. PICK c : c = <<[op |-> "retune", center |-> center]>>
      OBVIOUS
    <2>2. Perform([told EXCEPT !.c = c]) /\ UNCHANGED <<session, crossed, missed>>
      BY <1>7, <1>13, <2>1
    <2>3. \A x : [[u |-> w, c |-> x, d |-> d] EXCEPT !.c = c] = [u |-> w, c |-> c, d |-> d]
      OBVIOUS
    <2>4. Perform([u |-> w, c |-> c, d |-> d])
      BY <1>10, <2>2, <2>3
    <2>5. ui' = w /\ toCapture' = toCapture \o c /\ toDsp' = toDsp \o d
      BY <2>4 DEF Perform
    <2>6. toCapture' = toCapture \o <<[op |-> "retune", center |-> ui'.center]>>
      BY <1>9, <2>1, <2>5
    <2>7. /\ ui' \in AnyUi /\ Fits(ui') /\ ui'.mode = ui.mode /\ ui'.live = ui.live /\ ui'.input = ui.input
          /\ ui'.receiver = ui.receiver /\ Shows(d, ui.window, ui'.window)
      BY <1>9, <1>10, <1>13, <2>5
    <2>8. QED BY <1>2, <1>10, <2>2, <2>5, <2>6, <2>7, Retuned
  <1>14. CASE ~(ui.live /\ ui.mode = "sdr") /\ (receiver # ui.receiver \/ center # ui.center)
    <2>1. Unsaid(told, "sdr")
      BY <1>7, <1>14
    <2>2. Unsaid([u |-> w, c |-> <<>>, d |-> d], "sdr")
      BY <1>10, <2>1
    <2>3. QED BY <1>2, <1>9, <2>2, UnsaidSdr
  <1>15. CASE receiver = ui.receiver /\ center = ui.center
    <2>1. Perform(told) /\ UNCHANGED <<session, crossed, missed>>
      BY <1>7, <1>15
    <2>2. Perform([u |-> w, c |-> <<>>, d |-> d])
      BY <1>10, <2>1
    <2>3. ui' = w /\ toCapture' = toCapture \o <<>> /\ toDsp' = toDsp \o d
      BY <2>2 DEF Perform
    <2>4. toCapture' = toCapture
      BY <1>1, <2>3
    <2>5. /\ ui' \in AnyUi /\ Fits(ui') /\ ui'.mode = ui.mode /\ ui'.live = ui.live /\ ui'.input = ui.input
          /\ ui'.receiver = ui.receiver /\ ui'.center = ui.center /\ Shows(d, ui.window, ui'.window)
      BY <1>9, <1>10, <1>15, <2>3
    <2>6. QED BY <1>1, <1>2, <1>10, <2>1, <2>3, <2>4, <2>5, Said
  <1>16. QED BY <1>11, <1>12, <1>13, <1>14, <1>15

(* The operator acts, or the answer to a permission request comes.         *)
LEMMA OperatorStep ==
  ASSUME ReceptionIInv, Operator
  PROVE  ReceptionIInv'
  <1>1. permission \in {"undetermined", "granted", "denied"} /\ asked \in BOOLEAN
    BY DEF ReceptionIInv, ReceptionTypes
  <1>2. CASE StartLiveAudio
    <2>1. /\ StartIfPermitted(permission) /\ session < MaxSessions /\ asked' \in BOOLEAN
          /\ UNCHANGED <<permission, capture, hearing, toUi>>
      BY <1>1, <1>2 DEF StartLiveAudio, MayAct
    <2>2. QED BY <1>1, <2>1, PermittedStep
  <1>3. CASE PermissionAnswered
    <2>1. PICK allowed \in {"undetermined", "granted", "denied"} : allowed = permission' /\ StartIfPermitted(allowed)
      BY <1>3 DEF PermissionAnswered
    <2>2. session < MaxSessions /\ asked' \in BOOLEAN /\ UNCHANGED <<capture, hearing, toUi>>
      BY <1>3 DEF PermissionAnswered
    <2>3. QED BY <2>1, <2>2, PermittedStep
  <1>4. QED BY <1>2, <1>3, StartSdrStep, StopStep, SwitchStep, InputStep, SettingsStep DEF Operator

(* Every step keeps the inductive invariant.                               *)
LEMMA StepReception == ReceptionIInv /\ [ReceptionNext]_receptionVars => ReceptionIInv'
  <1> SUFFICES ASSUME ReceptionIInv, [ReceptionNext]_receptionVars PROVE ReceptionIInv'
    OBVIOUS
  <1>1. CASE Operator
    BY <1>1, OperatorStep
  <1>2. CASE Capturing
    BY <1>2, AudioStopStep, SdrStopStep, AudioStartStep, SdrStartStep, RetuneStep, AppliedStep DEF Capturing
  <1>3. CASE Devices
    BY <1>3, DevicesStep
  <1>4. CASE DspTakes
    BY <1>4, DspStep
  <1>5. CASE Hearing
    BY <1>5, HearingStep
  <1>6. CASE UNCHANGED receptionVars
    BY <1>6 DEF receptionVars, ReceptionIInv, ReceptionTypes, OneSource, Ordered, Tuned, InTime, On, Off
  <1>7. QED BY <1>1, <1>2, <1>3, <1>4, <1>5, <1>6 DEF ReceptionNext

(* Whatever is started, stopped, switched, answered late, retuned or       *)
(* broken, never do two sources fill the one ring.  And when everything is *)
(* said, the controller, the capture workers and the DSP worker agree on   *)
(* what is received, if no report of an earlier session was taken for one  *)
(* of this session (crossed) and the session was given its settings as     *)
(* they are (missed): the code promises nothing of the others.             *)
THEOREM ReceptionAgrees == ReceptionSpec => []ReceptionInv
  <1>1. ReceptionIInv /\ [ReceptionNext]_receptionVars => ReceptionIInv'
    BY StepReception
  <1>2. QED BY <1>1, InitReception, AgreementFollows, PTL DEF ReceptionSpec

-----------------------------------------------------------------------------
(***************************************************************************)
(* The lanes of the local model, for any tracks, any bounds and any order  *)
(* in which the table holds them.                                          *)
(***************************************************************************)
AnyLane == [bank : Nat, lane : Nat, unseen : Nat, silent : Nat, started : BOOLEAN, follows : BOOLEAN,
            rows : Nat, windows : Nat, run : Nat, spans : {FALSE}]
AnyTable == UNION {[kept -> AnyLane] : kept \in SUBSET LaneTracks}
AnyLaneBank == [enabled : BOOLEAN, generation : Nat, next : Nat]
AnyTranscript == [bank : Nat, lane : Nat, sequence : Nat, run : Nat]

(* What process() has of the bank on its way, which is of generation g.    *)
LanesKeptApart(all, g, n) ==
  \A id \in DOMAIN all :
    /\ all[id].bank = g /\ all[id].run <= n
    /\ \A other \in DOMAIN all \ {id} : all[other].run # all[id].run
Banks(g) ==
  {w \in [lanes : AnyTable, bank : AnyLaneBank, runs : Nat] :
     /\ Cardinality(DOMAIN w.lanes) <= MostLanes
     /\ w.bank.generation = g /\ LanesKeptApart(w.lanes, g, w.runs)}

LanesIInv ==
  /\ lanes \in AnyTable /\ laneBank \in AnyLaneBank /\ runs \in Nat
  /\ transcripts \in [LaneTracks -> AnyTranscript]
  /\ LanesInv

(* A table, by its domain and its members.                                 *)
LEMMA TableIs ==
  ASSUME NEW all
  PROVE  /\ all \in AnyTable => /\ all = [id \in DOMAIN all |-> all[id]] /\ DOMAIN all \subseteq LaneTracks
                                /\ IsFiniteSet(DOMAIN all) /\ \A id \in DOMAIN all : all[id] \in AnyLane
         /\ all = [id \in DOMAIN all |-> all[id]] /\ DOMAIN all \subseteq LaneTracks
            /\ (\A id \in DOMAIN all : all[id] \in AnyLane) => all \in AnyTable
  <1>1. ASSUME all \in AnyTable
        PROVE  /\ all = [id \in DOMAIN all |-> all[id]] /\ DOMAIN all \subseteq LaneTracks
               /\ IsFiniteSet(DOMAIN all) /\ \A id \in DOMAIN all : all[id] \in AnyLane
    <2>1. PICK kept \in SUBSET LaneTracks : all \in [kept -> AnyLane]
      BY <1>1 DEF AnyTable
    <2>2. all = [id \in DOMAIN all |-> all[id]] /\ DOMAIN all \subseteq LaneTracks
          /\ \A id \in DOMAIN all : all[id] \in AnyLane
      BY <2>1
    <2>3. IsFiniteSet(DOMAIN all)
      BY <2>2, LanesAssumption, FS_Subset
    <2>4. QED BY <2>2, <2>3
  <1>2. ASSUME all = [id \in DOMAIN all |-> all[id]], DOMAIN all \subseteq LaneTracks,
               \A id \in DOMAIN all : all[id] \in AnyLane
        PROVE  all \in AnyTable
    <2>1. all \in [DOMAIN all -> AnyLane]
      BY <1>2
    <2>2. QED BY <1>2, <2>1 DEF AnyTable
  <1>3. QED BY <1>1, <1>2

(* Of a table with a member there is one to make room.                     *)
LEMMA OldestIs ==
  ASSUME NEW all \in AnyTable, DOMAIN all # {}, NEW table \in Places
  PROVE  Oldest(all, table) \in DOMAIN all
  <1> DEFINE longest == {id \in DOMAIN all : \A other \in DOMAIN all : all[other].unseen <= all[id].unseen}
  <1>1. /\ IsFiniteSet(DOMAIN all) /\ DOMAIN all \subseteq LaneTracks
        /\ \A id \in DOMAIN all : all[id].unseen \in Nat
    BY TableIs DEF AnyLane
  <1>2. longest # {}
    <2> DEFINE age == [id \in DOMAIN all |-> 0 - all[id].unseen]
    <2>1. age \in [DOMAIN all -> Int]
      BY <1>1
    <2>2. PICK id \in DOMAIN all : \A other \in DOMAIN all : age[id] <= age[other]
      <3> HIDE DEF age
      <3>1. QED BY <1>1, <2>1, LeastOfFinite
    <2>3. \A other \in DOMAIN all : all[other].unseen <= all[id].unseen
      BY <1>1, <2>2
    <2>4. QED BY <2>3
  <1>3. IsFiniteSet(longest)
    BY <1>1, FS_Subset
  <1>4. \E id \in longest : \A other \in longest : table[id] <= table[other]
    <2> DEFINE place == [id \in longest |-> table[id]]
    <2>1. Cardinality(LaneTracks) \in Nat
      BY LanesAssumption, FS_CardinalityType
    <2>2. \A id \in LaneTracks : table[id] \in Int
      BY <2>1 DEF Places
    <2>3. place \in [longest -> Int]
      BY <1>1, <2>2
    <2>4. PICK id \in longest : \A other \in longest : place[id] <= place[other]
      <3> HIDE DEF place, longest
      <3>1. QED BY <1>2, <1>3, <2>3, LeastOfFinite
    <2>5. QED BY <2>4
  <1>5. Oldest(all, table) \in longest
    BY <1>4 DEF Oldest
  <1>6. QED BY <1>5

(* What a block makes of a lane: only a break gives it a new run.          *)
LEMMA FrontendIs ==
  ASSUME NEW l \in AnyLane, NEW lost \in BOOLEAN, NEW run \in Nat, NEW m, m = FrontendProcess(l, lost, run)
  PROVE  /\ m \in AnyLane /\ m.bank = l.bank /\ m.unseen = l.unseen
         /\ m.run = IF Broken(l, lost) THEN run ELSE l.run
  <1>1. WindowRows \in Nat \ {0} /\ StrideRows \in 1..WindowRows
    BY LanesAssumption
  <1>2. PICK b : b = IF Broken(l, lost) THEN AfterBreak(l, run) ELSE l
    OBVIOUS
  <1>3. /\ b \in AnyLane /\ b.bank = l.bank /\ b.unseen = l.unseen
        /\ b.run = IF Broken(l, lost) THEN run ELSE l.run
    <2>1. CASE Broken(l, lost)
      <3>1. PICK r : r = [l EXCEPT !.rows = 0, !.windows = 0, !.spans = FALSE]
        OBVIOUS
      <3>2. r \in AnyLane /\ r.bank = l.bank /\ r.unseen = l.unseen
        BY <3>1 DEF AnyLane
      <3>3. PICK n : n = r.lane + 1
        OBVIOUS
      <3>4. n \in Nat
        BY <3>2, <3>3 DEF AnyLane
      <3>5. b = [r EXCEPT !.lane = n, !.run = run]
        BY <1>2, <2>1, <3>1, <3>3 DEF AfterBreak, ResetSignalState
      <3>6. b \in AnyLane
        BY <3>2, <3>4, <3>5 DEF AnyLane
      <3>7. b.bank = r.bank /\ b.unseen = r.unseen /\ b.run = run
        BY <3>2, <3>5 DEF AnyLane
      <3>8. QED BY <2>1, <3>2, <3>6, <3>7
    <2>2. CASE ~Broken(l, lost)
      BY <1>2, <2>2
    <2>3. QED BY <2>1, <2>2
  <1>4. m = RowMade(b)
    BY <1>2 DEF FrontendProcess
  <1>5. PICK rows : rows = IF b.rows = WindowRows THEN WindowRows - StrideRows + 1 ELSE b.rows + 1
    OBVIOUS
  <1>6. rows \in Nat
    BY <1>1, <1>3, <1>5 DEF AnyLane
  <1>7. PICK windows : windows = IF rows = WindowRows THEN b.windows + 1 ELSE b.windows
    OBVIOUS
  <1>8. windows \in Nat
    BY <1>3, <1>7 DEF AnyLane
  <1>9. m = [b EXCEPT !.rows = rows, !.windows = windows, !.started = TRUE, !.follows = TRUE]
    BY <1>4, <1>5, <1>7 DEF RowMade
  <1>10. QED BY <1>3, <1>6, <1>8, <1>9 DEF AnyLane

(* Room is made before a lane is put in.                                   *)
LEMMA RoomIsMade ==
  ASSUME NEW all \in AnyTable, Cardinality(DOMAIN all) <= MostLanes, NEW id \in LaneTracks, NEW table \in Places,
         NEW roomy, roomy = IF id \in DOMAIN all \/ Cardinality(DOMAIN all) < MostLanes THEN all
                            ELSE Without(all, Oldest(all, table))
  PROVE  /\ roomy \in AnyTable /\ DOMAIN roomy \subseteq DOMAIN all
         /\ \A other \in DOMAIN roomy : roomy[other] = all[other]
         /\ Cardinality(DOMAIN roomy \cup {id}) <= MostLanes
  <1>1. IsFiniteSet(DOMAIN all) /\ Cardinality(DOMAIN all) \in Nat /\ MostLanes \in 1..8
    BY TableIs, LanesAssumption, FS_CardinalityType
  <1>2. CASE id \in DOMAIN all
    <2>1. DOMAIN roomy \cup {id} = DOMAIN all
      BY <1>2
    <2>2. QED BY <1>2, <2>1
  <1>3. CASE id \notin DOMAIN all /\ Cardinality(DOMAIN all) < MostLanes
    <2>1. Cardinality(DOMAIN all \cup {id}) = Cardinality(DOMAIN all) + 1
      BY <1>1, <1>3, FS_AddElement
    <2>2. QED BY <1>1, <1>3, <2>1
  <1>4. CASE id \notin DOMAIN all /\ ~(Cardinality(DOMAIN all) < MostLanes)
    <2>1. PICK old : old = Oldest(all, table)
      OBVIOUS
    <2>2. roomy = [other \in DOMAIN all \ {old} |-> all[other]]
      BY <1>4, <2>1 DEF Without
    <2>3. DOMAIN all # {}
      BY <1>1, <1>4, FS_EmptySet
    <2>4. old \in DOMAIN all
      BY <2>1, <2>3, OldestIs
    <2>5. DOMAIN roomy = DOMAIN all \ {old} /\ \A other \in DOMAIN roomy : roomy[other] = all[other]
      BY <2>2
    <2>6. roomy \in AnyTable
      <3>1. DOMAIN all \subseteq LaneTracks /\ \A other \in DOMAIN all : all[other] \in AnyLane
        BY TableIs
      <3>2. roomy = [other \in DOMAIN roomy |-> roomy[other]]
        BY <2>2
      <3>3. DOMAIN roomy \subseteq LaneTracks /\ \A other \in DOMAIN roomy : roomy[other] \in AnyLane
        BY <2>5, <3>1
      <3>4. QED BY <3>2, <3>3, TableIs
    <2>7. IsFiniteSet(DOMAIN roomy) /\ Cardinality(DOMAIN roomy) = Cardinality(DOMAIN all) - 1
      <3>1. PICK rest : rest = DOMAIN all \ {old}
        OBVIOUS
      <3>2. IsFiniteSet(rest) /\ Cardinality(rest) = Cardinality(DOMAIN all) - 1
        BY ONLY <1>1, <2>4, <3>1, FS_RemoveElement
      <3>3. QED BY <2>5, <3>1, <3>2
    <2>8. id \notin DOMAIN roomy
      BY <1>4, <2>5
    <2>9. Cardinality(DOMAIN roomy \cup {id}) = Cardinality(DOMAIN roomy) + 1
      BY <2>7, <2>8, FS_AddElement
    <2>10. QED BY <1>1, <2>5, <2>6, <2>7, <2>9
  <1>5. QED BY <1>2, <1>3, <1>4

(* A track is served: a lane of its own, whatever was there.               *)
LEMMA ServedIs ==
  ASSUME NEW g, NEW w \in Banks(g), NEW id \in LaneTracks, NEW t \in LaneInputs, NEW lost \in BOOLEAN,
         NEW table \in Places
  PROVE  Served(w, id, t, lost, table) \in Banks(g)
  <1>1. /\ w.lanes \in AnyTable /\ w.bank \in AnyLaneBank /\ w.runs \in Nat /\ w.bank.generation = g
        /\ Cardinality(DOMAIN w.lanes) <= MostLanes /\ LanesKeptApart(w.lanes, g, w.runs)
    BY DEF Banks
  <1>2. PICK held : held = (id \in DOMAIN w.lanes)
    OBVIOUS
  <1>3. PICK roomy : roomy = IF id \in DOMAIN w.lanes \/ Cardinality(DOMAIN w.lanes) < MostLanes THEN w.lanes
                             ELSE Without(w.lanes, Oldest(w.lanes, table))
    OBVIOUS
  <1>4. /\ roomy \in AnyTable /\ DOMAIN roomy \subseteq DOMAIN w.lanes
        /\ \A other \in DOMAIN roomy : roomy[other] = w.lanes[other]
        /\ Cardinality(DOMAIN roomy \cup {id}) <= MostLanes
    <2>1. PICK before : before = w.lanes
      OBVIOUS
    <2>2. /\ before \in AnyTable /\ Cardinality(DOMAIN before) <= MostLanes
          /\ roomy = IF id \in DOMAIN before \/ Cardinality(DOMAIN before) < MostLanes THEN before
                     ELSE Without(before, Oldest(before, table))
      BY <1>1, <1>3, <2>1
    <2>3. /\ roomy \in AnyTable /\ DOMAIN roomy \subseteq DOMAIN before
          /\ \A other \in DOMAIN roomy : roomy[other] = before[other]
          /\ Cardinality(DOMAIN roomy \cup {id}) <= MostLanes
      BY ONLY <2>2, id \in LaneTracks, table \in Places, RoomIsMade
    <2>4. QED BY <2>1, <2>3
  <1>5. PICK found : found = IF id \in DOMAIN w.lanes THEN w.lanes[id] ELSE NewLane(w.bank, w.runs + 1)
    OBVIOUS
  <1>6. found \in AnyLane /\ found.bank = g
    <2>1. CASE id \in DOMAIN w.lanes
      BY <1>1, <1>5, <2>1, TableIs DEF LanesKeptApart
    <2>2. CASE id \notin DOMAIN w.lanes
      BY <1>1, <1>5, <2>2 DEF NewLane, AnyLane, AnyLaneBank
    <2>3. QED BY <2>1, <2>2
  <1>7. PICK run : run = w.runs + 1
    OBVIOUS
  <1>8. run \in Nat
    BY <1>1, <1>7
  <1>9. PICK l : l = [found EXCEPT !.unseen = 0, !.silent = IF t.active THEN 0 ELSE @]
    OBVIOUS
  <1>10. /\ l \in AnyLane /\ l.bank = found.bank /\ l.run = found.run
         /\ l.started = found.started /\ l.follows = found.follows
    <2>1. PICK s : s = IF t.active THEN 0 ELSE found.silent
      OBVIOUS
    <2>2. s \in Nat
      BY <1>6, <2>1 DEF AnyLane
    <2>3. l = [found EXCEPT !.unseen = 0, !.silent = s]
      BY <1>9, <2>1
    <2>4. l \in AnyLane
      BY <1>6, <2>2, <2>3 DEF AnyLane
    <2>5. l.bank = found.bank /\ l.run = found.run /\ l.started = found.started /\ l.follows = found.follows
      BY <1>6, <2>3 DEF AnyLane
    <2>6. QED BY <2>4, <2>5
  <1>11. PICK lane : lane = FrontendProcess(l, lost, run)
    OBVIOUS
  <1>12. /\ lane \in AnyLane /\ lane.bank = g
         /\ lane.run = IF Broken(found, lost) THEN run ELSE found.run
    <2>1. /\ lane \in AnyLane /\ lane.bank = l.bank
          /\ lane.run = IF Broken(l, lost) THEN run ELSE l.run
      BY <1>8, <1>10, <1>11, FrontendIs
    <2>2. Broken(l, lost) <=> Broken(found, lost)
      BY <1>10 DEF Broken
    <2>3. QED BY <1>6, <1>10, <2>1, <2>2
  <1>13. PICK all : all = [other \in DOMAIN roomy \cup {id} |-> IF other = id THEN lane ELSE roomy[other]]
    OBVIOUS
  <1>14. PICK n : n = IF id \in DOMAIN w.lanes /\ ~Broken(found, lost) THEN w.runs ELSE run
    OBVIOUS
  <1>15. PICK bank : bank = IF id \in DOMAIN w.lanes THEN w.bank ELSE [w.bank EXCEPT !.next = @ + 1]
    OBVIOUS
  <1>16. Served(w, id, t, lost, table) = [lanes |-> all, bank |-> bank, runs |-> n]
    BY <1>3, <1>5, <1>7, <1>9, <1>11, <1>13, <1>14, <1>15 DEF Served
  <1>17. /\ DOMAIN all = DOMAIN roomy \cup {id} /\ all[id] = lane
         /\ \A other \in DOMAIN all \ {id} : other \in DOMAIN w.lanes /\ all[other] = w.lanes[other]
    BY <1>4, <1>13
  <1>18. all \in AnyTable
    <2>1. DOMAIN all \subseteq LaneTracks
      BY <1>4, <1>17, TableIs
    <2>2. \A other \in DOMAIN all : all[other] \in AnyLane
      BY <1>1, <1>12, <1>17, TableIs
    <2>3. all = [other \in DOMAIN all |-> all[other]]
      BY <1>13
    <2>4. QED BY <2>1, <2>2, <2>3, TableIs
  <1>19. bank \in AnyLaneBank /\ bank.generation = g
    BY <1>1, <1>15 DEF AnyLaneBank
  <1>20. n \in Nat /\ w.runs <= n
    BY <1>1, <1>7, <1>14
  <1>21. LanesKeptApart(all, g, n)
    <2>1. \A other \in DOMAIN w.lanes : w.lanes[other].run \in Nat /\ w.lanes[other].run <= w.runs
      BY <1>1, TableIs DEF LanesKeptApart, AnyLane
    <2>2. lane.run <= n /\ \A other \in DOMAIN w.lanes \ {id} : w.lanes[other].run # lane.run
      <3>1. CASE id \in DOMAIN w.lanes /\ ~Broken(found, lost)
        BY <1>1, <1>5, <1>12, <1>14, <2>1, <3>1 DEF LanesKeptApart
      <3>2. CASE id \in DOMAIN w.lanes /\ Broken(found, lost)
        BY <1>1, <1>7, <1>12, <1>14, <2>1, <3>2
      <3>3. CASE id \notin DOMAIN w.lanes
        <4>1. found.run = w.runs + 1
          BY <1>5, <3>3 DEF NewLane
        <4>2. lane.run = run /\ n = run
          BY <1>7, <1>12, <1>14, <3>3, <4>1
        <4>3. QED BY <1>1, <1>7, <2>1, <4>2
      <3>4. QED BY <3>1, <3>2, <3>3
    <2>3. ASSUME NEW other \in DOMAIN all
          PROVE  /\ all[other].bank = g /\ all[other].run <= n
                 /\ \A another \in DOMAIN all \ {other} : all[another].run # all[other].run
      <3>1. CASE other = id
        BY <1>12, <1>17, <2>2, <3>1
      <3>2. CASE other # id
        <4>1. other \in DOMAIN w.lanes /\ all[other] = w.lanes[other]
          BY <1>17, <3>2
        <4>2. all[other].bank = g /\ all[other].run <= n
          BY <1>1, <1>20, <2>1, <4>1 DEF LanesKeptApart
        <4>3. ASSUME NEW another \in DOMAIN all \ {other} PROVE all[another].run # all[other].run
          <5>1. CASE another = id
            BY <1>17, <2>2, <3>2, <4>1, <5>1
          <5>2. CASE another # id
            BY <1>1, <1>17, <4>1, <4>3, <5>2 DEF LanesKeptApart
          <5>3. QED BY <5>1, <5>2
        <4>4. QED BY <4>2, <4>3
      <3>3. QED BY <3>1, <3>2
    <2>4. QED BY <2>3 DEF LanesKeptApart
  <1>22. Cardinality(DOMAIN all) <= MostLanes
    BY <1>4, <1>17
  <1>23. QED BY <1>16, <1>18, <1>19, <1>20, <1>21, <1>22 DEF Banks

(* So are all that are eligible, in turn.                                  *)
LEMMA ServedAllIs ==
  ASSUME NEW g, NEW w \in Banks(g), NEW tracks, NEW n \in Nat, NEW first \in [1..n -> LaneTracks],
         \A k \in 1..n : tracks[first[k]] \in LaneInputs, NEW lost \in BOOLEAN, NEW table \in Places
  PROVE  ServedAll(w, tracks, first, lost, table) \in Banks(g)
  <1> DEFINE V == Banks(g)
             Next(q, k) == Served(q, first[k], tracks[first[k]], lost, table)
             Body(f) == [k \in 0..n |-> IF k = 0 THEN w
                                        ELSE Served(f[k - 1], first[k], tracks[first[k]], lost, table)]
             step == [k \in 1..n |-> [q \in V |-> Next(q, k)]]
             found == CHOOSE served : served = Body(served)
  <1>1. Len(first) = n
    <2>1. first \in Seq(LaneTracks) /\ DOMAIN first = 1..n
      BY IsASeq
    <2>2. QED BY <2>1, LenProperties
  <1>2. \A k \in 1..n : \A q \in V : Next(q, k) \in V
    <2>1. ASSUME NEW k \in 1..n, NEW q \in V PROVE Next(q, k) \in V
      <3>1. first[k] \in LaneTracks /\ tracks[first[k]] \in LaneInputs
        OBVIOUS
      <3>2. QED BY <3>1, ServedIs
    <2>2. QED BY <2>1
  <1>3. w \in V
    OBVIOUS
  <1>4. ServedAll(w, tracks, first, lost, table) = found[n]
    BY <1>1 DEF ServedAll
  <1>5. ASSUME NEW f
        PROVE  Body(f)[0] = w /\ \A k \in 1..n : Body(f)[k] = Next(f[k - 1], k)
    OBVIOUS
  <1>6. ASSUME NEW f, f = [k \in 0..n |-> f[k]], f[0] = Body(f)[0], \A k \in 1..n : f[k] = Body(f)[k]
        PROVE  f = Body(f)
    <2> DEFINE b == Body(f)
    <2>1. b = [k \in 0..n |-> b[k]] /\ \A k \in 0..n : k = 0 \/ k \in 1..n
      OBVIOUS
    <2> HIDE DEF b
    <2>2. QED BY <1>6, <2>1 DEF b
  <1> HIDE DEF V, Next, Body
  <1>7. step \in [1..n -> [V -> V]] /\ \A k \in 1..n : \A q \in V : step[k][q] = Next(q, k)
    BY <1>2
  <1> HIDE DEF step
  <1>8. PICK f \in [0..n -> V] : IsRecursion(f, w, step, n)
    BY <1>3, <1>7, RecursionUpTo
  <1>9. f = Body(f)
    <2>1. ASSUME NEW k \in 1..n PROVE f[k] = Next(f[k - 1], k)
      <3>1. k - 1 \in 0..n
        OBVIOUS
      <3>2. QED BY <1>7, <1>8, <3>1 DEF IsRecursion
    <2>2. QED BY <1>5, <1>6, <1>8, <2>1 DEF IsRecursion
  <1>10. found = Body(found)
    BY <1>9
  <1> HIDE DEF found
  <1>11. found[0] = w /\ \A k \in 1..n : found[k] = Next(found[k - 1], k)
    <2>1. Body(found)[0] = w /\ \A k \in 1..n : Body(found)[k] = Next(found[k - 1], k)
      BY <1>5
    <2>2. QED BY <1>10, <2>1
  <1>12. n \in 0..n /\ \A k \in 0..n : found[k] \in V
    <2> DEFINE G == {k \in 0..n : found[k] \in V}
    <2>1. 0 \in G /\ \A k \in 1..n : k - 1 \in G => k \in G
      BY <1>2, <1>3, <1>11
    <2> HIDE DEF G
    <2>2. 0..n \subseteq G
      BY <2>1, InductionUpTo
    <2>3. QED BY <2>2 DEF G
  <1>13. QED BY <1>4, <1>12 DEF V

-----------------------------------------------------------------------------
(* No lane at first.                                                       *)
LEMMA NoLanes ==
  /\ <<>> \in AnyTable /\ DOMAIN <<>> = {} /\ Cardinality(DOMAIN <<>>) = 0
  <1>1. DOMAIN <<>> = {}
    OBVIOUS
  <1>2. <<>> = [id \in DOMAIN <<>> |-> <<>>[id]]
    OBVIOUS
  <1>3. <<>> \in AnyTable
    BY <1>1, <1>2, TableIs
  <1>4. QED BY <1>1, <1>3, FS_EmptySet

LEMMA InitLanes == LanesInit => LanesIInv
  <1> SUFFICES ASSUME LanesInit PROVE LanesIInv
    OBVIOUS
  <1>1. lanes \in AnyTable /\ DOMAIN lanes = {} /\ Cardinality(DOMAIN lanes) = 0
    BY NoLanes DEF LanesInit
  <1>2. laneBank \in AnyLaneBank /\ runs \in Nat /\ laneBank.generation = 1
    BY DEF LanesInit, AnyLaneBank
  <1>3. transcripts \in [LaneTracks -> AnyTranscript] /\ \A id \in LaneTracks : transcripts[id].bank = 0
    BY DEF LanesInit, AnyTranscript, NoTranscript
  <1>4. LanesInv
    BY <1>1, <1>2, <1>3, LanesAssumption DEF LanesInv
  <1>5. QED BY <1>1, <1>2, <1>3, <1>4 DEF LanesIInv

(* A block older, and without those that were not used for long.           *)
LEMMA AgedIs ==
  ASSUME NEW all \in AnyTable, NEW lost \in BOOLEAN, NEW old, old = Aged(all, lost)
  PROVE  /\ old \in AnyTable /\ DOMAIN old = DOMAIN all
         /\ \A id \in DOMAIN all : old[id].bank = all[id].bank /\ old[id].run = all[id].run
  <1>1. Grace \in Nat /\ ManualGrace \in Nat /\ LongestGrace \in Nat
    BY LanesAssumption DEF LongestGrace
  <1>2. DOMAIN old = DOMAIN all /\ old = [id \in DOMAIN old |-> old[id]] /\ DOMAIN all \subseteq LaneTracks
    BY TableIs DEF Aged
  <1>3. ASSUME NEW id \in DOMAIN all
        PROVE  old[id] \in AnyLane /\ old[id].bank = all[id].bank /\ old[id].run = all[id].run
    <2>1. PICK l : l = all[id]
      OBVIOUS
    <2>2. l \in AnyLane
      BY <2>1, TableIs
    <2>3. PICK unseen : unseen = l.unseen + 1
      OBVIOUS
    <2>4. PICK quiet : quiet = Smaller(l.silent + (IF lost THEN 2 ELSE 1), LongestGrace + 1)
      OBVIOUS
    <2>5. unseen \in Nat /\ quiet \in Nat
      BY <1>1, <2>2, <2>3, <2>4 DEF AnyLane, Smaller
    <2>6. old[id] = [l EXCEPT !.unseen = unseen, !.silent = quiet]
      BY <2>1, <2>3, <2>4 DEF Aged
    <2>7. QED BY <2>1, <2>2, <2>5, <2>6 DEF AnyLane
  <1>4. old \in AnyTable
    BY <1>2, <1>3, TableIs
  <1>5. QED BY <1>2, <1>3, <1>4

LEMMA KeptIs ==
  ASSUME NEW all \in AnyTable, NEW left, left = Kept(all)
  PROVE  /\ left \in AnyTable /\ DOMAIN left \subseteq DOMAIN all
         /\ \A id \in DOMAIN left : /\ left[id].bank = all[id].bank /\ left[id].run = all[id].run
                                    /\ left[id].unseen <= UnseenLimit
  <1>1. /\ DOMAIN left = {id \in DOMAIN all : all[id].unseen <= UnseenLimit}
        /\ left = [id \in DOMAIN left |-> left[id]] /\ DOMAIN all \subseteq LaneTracks
    BY TableIs DEF Kept
  <1>2. ASSUME NEW id \in DOMAIN left
        PROVE  /\ left[id] \in AnyLane /\ left[id].bank = all[id].bank /\ left[id].run = all[id].run
               /\ left[id].unseen <= UnseenLimit
    <2>1. PICK l : l = all[id]
      OBVIOUS
    <2>2. l \in AnyLane /\ l.unseen <= UnseenLimit
      BY <1>1, <2>1, TableIs
    <2>3. PICK follows : follows = (l.unseen = 0)
      OBVIOUS
    <2>4. left[id] = [l EXCEPT !.follows = follows]
      BY <1>1, <2>1, <2>3 DEF Kept
    <2>5. follows \in BOOLEAN
      BY <2>3
    <2>6. left[id] \in AnyLane
      BY <2>2, <2>4, <2>5 DEF AnyLane
    <2>7. left[id].bank = l.bank /\ left[id].run = l.run /\ left[id].unseen = l.unseen
      BY <2>2, <2>4 DEF AnyLane
    <2>8. QED BY <2>1, <2>2, <2>6, <2>7
  <1>3. left \in AnyTable
    BY <1>1, <1>2, TableIs
  <1>4. QED BY <1>1, <1>2, <1>3

-----------------------------------------------------------------------------
(* The tracks that are served.                                             *)
LEMMA RankedAre ==
  ASSUME NEW present \in SUBSET LaneTracks, NEW tracks \in [present -> LaneInputs], NEW first \in Ranked(tracks)
  PROVE  \E n \in Nat : /\ first \in [1..n -> LaneTracks]
                        /\ \A k \in 1..n : tracks[first[k]] \in LaneInputs
  <1>1. PICK eligible : eligible = {id \in DOMAIN tracks : Eligible(id, tracks[id])}
    OBVIOUS
  <1>2. PICK n : n = Smaller(MostLanes, Cardinality(eligible))
    OBVIOUS
  <1>3. eligible \subseteq present
    BY <1>1
  <1>4. Cardinality(eligible) \in Nat
    BY <1>3, LanesAssumption, FS_Subset, FS_CardinalityType
  <1>5. n \in Nat
    BY <1>2, <1>4, LanesAssumption DEF Smaller
  <1>6. first \in [1..n -> eligible]
    BY <1>1, <1>2 DEF Ranked
  <1>7. first \in [1..n -> LaneTracks] /\ \A k \in 1..n : tracks[first[k]] \in LaneInputs
    BY <1>3, <1>6
  <1>8. QED BY <1>5, <1>7

LEMMA BlockStep ==
  ASSUME LanesIInv, ProcessBlock
  PROVE  LanesIInv'
  <1>1. /\ lanes \in AnyTable /\ laneBank \in AnyLaneBank /\ runs \in Nat
        /\ transcripts \in [LaneTracks -> AnyTranscript] /\ LanesInv
    BY DEF LanesIInv
  <1> DEFINE Ends(tracks, first, table, lost) ==
          LET w == ServedAll([lanes |-> Aged(lanes, lost), bank |-> laneBank, runs |-> runs],
                             tracks, first, lost, table)
              ready == {id \in {first[i] : i \in 1..Len(first)} \cap DOMAIN w.lanes : WindowReady(w.lanes[id])}
          IN /\ lanes' = Kept(w.lanes) /\ laneBank' = w.bank /\ runs' = w.runs
             /\ \E heard \in SUBSET ready :
                  transcripts' = [id \in LaneTracks |->
                    IF id \in heard /\ Accepts(transcripts[id], w.lanes[id])
                    THEN Following(w.lanes[id]) ELSE transcripts[id]]
  <1>2. \E present \in SUBSET LaneTracks : \E tracks \in [present -> LaneInputs] :
          \E first \in Ranked(tracks), table \in Places, lost \in BOOLEAN : Ends(tracks, first, table, lost)
    BY DEF ProcessBlock
  <1>3. PICK present \in SUBSET LaneTracks : \E tracks \in [present -> LaneInputs] :
          \E first \in Ranked(tracks), table \in Places, lost \in BOOLEAN : Ends(tracks, first, table, lost)
    <2> HIDE DEF Ends
    <2>1. QED BY <1>2
  <1>4. PICK tracks \in [present -> LaneInputs] :
          \E first \in Ranked(tracks), table \in Places, lost \in BOOLEAN : Ends(tracks, first, table, lost)
    <2> HIDE DEF Ends
    <2>1. QED BY <1>3
  <1>5. PICK first \in Ranked(tracks), table \in Places, lost \in BOOLEAN : Ends(tracks, first, table, lost)
    <2> HIDE DEF Ends
    <2>1. QED BY <1>4
  <1>6. PICK w : w = ServedAll([lanes |-> Aged(lanes, lost), bank |-> laneBank, runs |-> runs],
                               tracks, first, lost, table)
    OBVIOUS
  <1>7. /\ lanes' = Kept(w.lanes) /\ laneBank' = w.bank /\ runs' = w.runs
        /\ \E heard \in SUBSET (DOMAIN w.lanes) :
             transcripts' = [id \in LaneTracks |->
               IF id \in heard /\ Accepts(transcripts[id], w.lanes[id])
               THEN Following(w.lanes[id]) ELSE transcripts[id]]
    BY <1>5, <1>6
  <1>8. PICK heard \in SUBSET (DOMAIN w.lanes) :
          /\ w = ServedAll([lanes |-> Aged(lanes, lost), bank |-> laneBank, runs |-> runs],
                           tracks, first, lost, table)
          /\ lanes' = Kept(w.lanes) /\ laneBank' = w.bank /\ runs' = w.runs
          /\ transcripts' = [id \in LaneTracks |->
               IF id \in heard /\ Accepts(transcripts[id], w.lanes[id])
               THEN Following(w.lanes[id]) ELSE transcripts[id]]
    BY <1>6, <1>7
  <1>9. PICK g : g = laneBank.generation
    OBVIOUS
  <1>10. PICK old : old = Aged(lanes, lost)
    OBVIOUS
  <1>11. /\ old \in AnyTable /\ DOMAIN old = DOMAIN lanes
        /\ \A id \in DOMAIN lanes : old[id].bank = lanes[id].bank /\ old[id].run = lanes[id].run
    BY <1>1, <1>10, AgedIs
  <1>12. PICK base : base = [lanes |-> old, bank |-> laneBank, runs |-> runs]
    OBVIOUS
  <1>13. base \in Banks(g)
    <2>1. LanesKeptApart(old, g, runs)
      BY <1>1, <1>9, <1>11 DEF LanesInv, LanesKeptApart
    <2>2. Cardinality(DOMAIN old) <= MostLanes
      BY <1>1, <1>11 DEF LanesInv
    <2>3. QED BY <1>1, <1>9, <1>11, <1>12, <2>1, <2>2 DEF Banks
  <1>14. w \in Banks(g)
    <2>1. PICK n \in Nat : first \in [1..n -> LaneTracks] /\ \A k \in 1..n : tracks[first[k]] \in LaneInputs
      BY RankedAre
    <2>2. w = ServedAll(base, tracks, first, lost, table)
      BY <1>8, <1>10, <1>12
    <2>3. QED BY <1>13, <2>1, <2>2, ServedAllIs
  <1>15. /\ w.lanes \in AnyTable /\ w.bank \in AnyLaneBank /\ w.runs \in Nat /\ w.bank.generation = g
        /\ Cardinality(DOMAIN w.lanes) <= MostLanes /\ LanesKeptApart(w.lanes, g, w.runs)
    BY <1>14 DEF Banks
  <1>16. /\ lanes' \in AnyTable /\ DOMAIN lanes' \subseteq DOMAIN w.lanes
         /\ \A id \in DOMAIN lanes' : /\ lanes'[id].bank = w.lanes[id].bank /\ lanes'[id].run = w.lanes[id].run
                                      /\ lanes'[id].unseen <= UnseenLimit
    BY <1>8, <1>15, KeptIs
  <1>17. Cardinality(DOMAIN lanes') <= MostLanes
    <2>1. IsFiniteSet(DOMAIN w.lanes)
      BY <1>15, TableIs
    <2>2. /\ Cardinality(DOMAIN lanes') \in Nat /\ Cardinality(DOMAIN w.lanes) \in Nat
          /\ Cardinality(DOMAIN lanes') <= Cardinality(DOMAIN w.lanes)
      BY <1>16, <2>1, FS_Subset, FS_CardinalityType
    <2>3. QED BY <1>15, <2>2, LanesAssumption
  <1>18. ASSUME NEW id \in DOMAIN lanes'
         PROVE  /\ ~lanes'[id].spans /\ lanes'[id].unseen <= UnseenLimit
                /\ lanes'[id].bank = laneBank'.generation /\ lanes'[id].run <= runs'
                /\ \A other \in DOMAIN lanes' \ {id} : lanes'[other].run # lanes'[id].run
    <2>1. lanes'[id] \in AnyLane
      BY <1>16, TableIs
    <2>2. ~lanes'[id].spans
      BY <2>1 DEF AnyLane
    <2>3. lanes'[id].bank = laneBank'.generation /\ lanes'[id].run <= runs'
      BY <1>8, <1>15, <1>16 DEF LanesKeptApart
    <2>4. ASSUME NEW other \in DOMAIN lanes' \ {id} PROVE lanes'[other].run # lanes'[id].run
      BY <1>15, <1>16, <2>4 DEF LanesKeptApart
    <2>5. QED BY <1>16, <2>2, <2>3, <2>4
  <1>19. ASSUME NEW id \in LaneTracks
         PROVE  transcripts'[id] \in AnyTranscript /\ transcripts'[id].bank <= laneBank'.generation
    <2>1. transcripts[id] \in AnyTranscript /\ transcripts[id].bank <= laneBank'.generation
      BY <1>1, <1>8, <1>9, <1>15 DEF LanesInv
    <2>2. CASE id \in heard /\ Accepts(transcripts[id], w.lanes[id])
      <3>1. PICK l : l = w.lanes[id]
        OBVIOUS
      <3>2. l \in AnyLane /\ l.bank = g
        BY <1>8, <1>15, <2>2, <3>1, TableIs DEF LanesKeptApart
      <3>3. transcripts'[id] = [bank |-> l.bank, lane |-> l.lane, sequence |-> l.windows, run |-> l.run]
        BY <1>8, <2>2, <3>1 DEF Following
      <3>4. g \in Nat /\ g = laneBank'.generation
        BY <1>1, <1>8, <1>9, <1>15 DEF AnyLaneBank
      <3>5. QED BY <3>2, <3>3, <3>4 DEF AnyLane, AnyTranscript
    <2>3. CASE ~(id \in heard /\ Accepts(transcripts[id], w.lanes[id]))
      BY <1>8, <2>1, <2>3
    <2>4. QED BY <2>2, <2>3
  <1>20. transcripts' \in [LaneTracks -> AnyTranscript]
    BY <1>8, <1>19
  <1>21. LanesInv'
    BY <1>17, <1>18, <1>19 DEF LanesInv
  <1>22. laneBank' \in AnyLaneBank /\ runs' \in Nat
    BY <1>8, <1>15
  <1>23. QED BY <1>16, <1>20, <1>21, <1>22 DEF LanesIInv

(* A bank that is reset has no lane, and is of a later generation.         *)
LEMMA ResetStep ==
  ASSUME LanesIInv, lanes' = <<>>, UNCHANGED <<runs, transcripts>>, laneBank' \in AnyLaneBank,
         laneBank'.generation = laneBank.generation + 1
  PROVE  LanesIInv'
  <1>1. /\ laneBank \in AnyLaneBank /\ runs \in Nat
        /\ transcripts \in [LaneTracks -> AnyTranscript] /\ LanesInv
    BY DEF LanesIInv
  <1>2. lanes' \in AnyTable /\ DOMAIN lanes' = {} /\ Cardinality(DOMAIN lanes') = 0
    BY NoLanes
  <1>3. ASSUME NEW id \in LaneTracks PROVE transcripts'[id].bank <= laneBank'.generation
    <2>1. transcripts[id].bank \in Nat /\ transcripts[id].bank <= laneBank.generation /\ laneBank.generation \in Nat
      BY <1>1 DEF AnyTranscript, AnyLaneBank, LanesInv
    <2>2. QED BY <2>1
  <1>4. LanesInv'
    BY <1>2, <1>3, LanesAssumption DEF LanesInv
  <1>5. QED BY <1>1, <1>2, <1>4 DEF LanesIInv

LEMMA ResetIs ==
  ASSUME NEW b \in AnyLaneBank, NEW c, c = BankReset(b)
  PROVE  c \in AnyLaneBank /\ c.generation = b.generation + 1
  <1>1. PICK n : n = b.generation + 1
    OBVIOUS
  <1>2. n \in Nat
    BY <1>1 DEF AnyLaneBank
  <1>3. PICK next \in Nat : next = 1
    OBVIOUS
  <1>4. c = [b EXCEPT !.generation = n, !.next = next]
    BY <1>1, <1>3 DEF BankReset
  <1>5. c \in AnyLaneBank
    BY <1>2, <1>4 DEF AnyLaneBank
  <1>6. c.generation = n
    BY <1>4 DEF AnyLaneBank
  <1>7. QED BY <1>1, <1>5, <1>6

LEMMA StepLanes == LanesIInv /\ [LanesNext]_lanesVars => LanesIInv'
  <1> SUFFICES ASSUME LanesIInv, [LanesNext]_lanesVars PROVE LanesIInv'
    OBVIOUS
  <1>1. CASE ProcessBlock
    BY <1>1, BlockStep
  <1>2. CASE SetEnabled
    <2>1. laneBank' = [BankReset(laneBank) EXCEPT !.enabled = ~@] /\ lanes' = <<>> /\ UNCHANGED <<runs, transcripts>>
      BY <1>2 DEF SetEnabled
    <2>2. laneBank' \in AnyLaneBank /\ laneBank'.generation = laneBank.generation + 1
      <3>1. PICK b : b = BankReset(laneBank)
        OBVIOUS
      <3>2. PICK e : e = ~b.enabled
        OBVIOUS
      <3>3. b \in AnyLaneBank /\ b.generation = laneBank.generation + 1
        BY <3>1, ResetIs DEF LanesIInv
      <3>4. laneBank' = [b EXCEPT !.enabled = e] /\ e \in BOOLEAN
        BY <2>1, <3>1, <3>2
      <3>5. QED BY <3>3, <3>4 DEF AnyLaneBank
    <2>3. QED BY <2>1, <2>2, ResetStep
  <1>3. CASE ResetBank
    <2>1. laneBank' = BankReset(laneBank) /\ lanes' = <<>> /\ UNCHANGED <<runs, transcripts>>
      BY <1>3 DEF ResetBank
    <2>2. laneBank' \in AnyLaneBank /\ laneBank'.generation = laneBank.generation + 1
      BY <2>1, ResetIs DEF LanesIInv
    <2>3. QED BY <2>1, <2>2, ResetStep
  <1>4. CASE ForgetTranscripts
    <2>1. transcripts' = [id \in LaneTracks |-> NoTranscript] /\ UNCHANGED <<lanes, laneBank, runs>>
      BY <1>4 DEF ForgetTranscripts
    <2>2. transcripts' \in [LaneTracks -> AnyTranscript] /\ \A id \in LaneTracks : transcripts'[id].bank = 0
      BY <2>1 DEF AnyTranscript, NoTranscript
    <2>3. laneBank'.generation \in Nat
      BY <2>1 DEF LanesIInv, AnyLaneBank
    <2>4. LanesInv'
      BY <2>1, <2>2, <2>3 DEF LanesIInv, LanesInv
    <2>5. QED BY <2>1, <2>2, <2>4 DEF LanesIInv
  <1>5. CASE UNCHANGED lanesVars
    BY <1>5 DEF lanesVars, LanesIInv, LanesInv
  <1>6. QED BY <1>1, <1>2, <1>3, <1>4, <1>5 DEF LanesNext

(* However tracks come and go, are passed over or make room for others,    *)
(* and whatever is lost or reset: there are never more lanes than the bank *)
(* may have, no window holds sound from both sides of a break, no two      *)
(* lanes are of one run, and no transcript follows a bank yet to come.     *)
THEOREM LanesKept == LanesSpec => []LanesInv
  <1>1. LanesIInv => LanesInv
    BY DEF LanesIInv
  <1>2. QED BY <1>1, InitLanes, StepLanes, PTL DEF LanesSpec
=============================================================================
