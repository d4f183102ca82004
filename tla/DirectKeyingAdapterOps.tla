------------------------ MODULE DirectKeyingAdapterOps ------------------------
(***************************************************************************)
(* The operations of DirectKeyingAdapter, the one place where the program  *)
(* touches the PTT and KEY lines, as functions from a port value to a port *)
(* value.  The serial device behind it (QSerialPort and the lock file) is  *)
(* external: it may refuse to be owned or opened, it comes up with any     *)
(* level on either line, and some of its writes may fail.  A failing write *)
(* may also make Qt emit errorOccurred inside the call, which enters the   *)
(* adapter again through handleBackendError.                               *)
(***************************************************************************)
EXTENDS Integers

Lines == {"ptt", "key"}
LineStates == {"Unknown", "Inactive", "Active"}
Levels == [Lines -> BOOLEAN]
NoneKnown == [line \in Lines |-> "Unknown"]
AllInactive == [line \in Lines |-> "Inactive"]

(* A device: the writes that fail now, and whether a failure is signalled. *)
Writes == [line : Lines, up : BOOLEAN]
Devices == [broken : SUBSET Writes, signals : BOOLEAN]
Fails(device, line, up) == [line |-> line, up |-> up] \in device.broken

(***************************************************************************)
(* openSafe, known and fault are the adapter's DirectKeyingSnapshot (the   *)
(* fault text is only present or absent), owned its ownership_acquired_;   *)
(* isOpen and wire are the device's.  bare is history: a write has put KEY *)
(* outside PTT although the device would have lowered KEY first.           *)
(***************************************************************************)
Ports ==
  [openSafe : BOOLEAN, known : [Lines -> LineStates], fault : BOOLEAN,
   owned : BOOLEAN, isOpen : BOOLEAN, wire : Levels, bare : BOOLEAN]

NewPort ==
  [openSafe |-> FALSE, known |-> NoneKnown, fault |-> FALSE, owned |-> FALSE,
   isOpen |-> FALSE, wire |-> [line \in Lines |-> FALSE], bare |-> FALSE]

FaultOrUnknown(p) ==
  p.fault \/ ~p.openSafe \/ \E line \in Lines : p.known[line] = "Unknown"
KnownInactive(p) == ~FaultOrUnknown(p) /\ p.known = AllInactive
Usable(p) == p.openSafe /\ p.isOpen /\ ~p.fault

(* What the adapter's state says of itself between calls, and of the wire. *)
PortConsistent(p) ==
  /\ p.owned = p.isOpen
  /\ p.openSafe = p.isOpen
  /\ ~p.isOpen => p.known = NoneKnown
  /\ p.isOpen /\ ~p.fault => \A line \in Lines : p.known[line] # "Unknown"
ReportedMatchesWire(p) ==
  \A line \in Lines :
    /\ p.known[line] = "Active" => p.wire[line]
    /\ p.known[line] = "Inactive" => ~p.wire[line]

MarkClosedUnknown(p) == [p EXCEPT !.openSafe = FALSE, !.known = NoneKnown]
CloseDevice(p) == [MarkClosedUnknown(p) EXCEPT !.isOpen = FALSE, !.owned = FALSE]

LeavesKeyBare(p, line, up, device) ==
  /\ \/ line = "ptt" /\ ~up /\ p.wire["ptt"] /\ p.wire["key"]
     \/ line = "key" /\ up /\ ~p.wire["ptt"]
  /\ ~Fails(device, "key", FALSE)
WriteLine(p, line, up, device) ==
  [p EXCEPT !.wire[line] = up, !.known[line] = IF up THEN "Active" ELSE "Inactive",
            !.bare = @ \/ LeavesKeyBare(p, line, up, device)]

-----------------------------------------------------------------------------
(* One half of releaseAll() while a fault is being handled: a signal that  *)
(* the failing write emits is ignored.                                     *)
ReleaseLineQuietly(p, line, device) ==
  CASE p.known[line] = "Inactive" -> p
    [] p.known[line] # "Inactive" /\ Fails(device, line, FALSE) ->
         [p EXCEPT !.known[line] = "Unknown", !.fault = TRUE]
    [] p.known[line] # "Inactive" /\ ~Fails(device, line, FALSE) ->
         WriteLine(p, line, FALSE, device)

ReleaseQuietly(p, device) ==
  ReleaseLineQuietly(ReleaseLineQuietly(p, "key", device), "ptt", device)

FaultAndClose(p, release, device) ==
  LET released == IF release /\ p.isOpen THEN ReleaseQuietly(p, device) ELSE p
  IN [CloseDevice(released) EXCEPT !.fault = TRUE]

(* One half of releaseAll().  When the write fails with a signal, the      *)
(* adapter has faulted and closed by the time the write returns, and the   *)
(* write of the other line then fails because the port is not open.        *)
ReleaseLine(p, line, device) ==
  CASE p.known[line] = "Inactive" -> p
    [] p.known[line] # "Inactive" /\ (~p.isOpen \/ Fails(device, line, FALSE)) ->
         LET q == IF p.isOpen /\ device.signals THEN FaultAndClose(p, TRUE, device) ELSE p
         IN [q EXCEPT !.known[line] = "Unknown", !.fault = TRUE]
    [] p.known[line] # "Inactive" /\ p.isOpen /\ ~Fails(device, line, FALSE) ->
         WriteLine(p, line, FALSE, device)

(* KEY is released before PTT, and PTT even if KEY could not be.           *)
ReleaseAll(p, device) ==
  IF ~p.isOpen
    THEN MarkClosedUnknown(p)
    ELSE ReleaseLine(ReleaseLine(p, "key", device), "ptt", device)
Released(p) == p.isOpen /\ p.known = AllInactive

(* setPtt and setKey.  A write that fails faults and closes the adapter;   *)
(* the error signal it may emit does so first, before the state of the     *)
(* line is marked unknown, and the second time finds nothing left to do.   *)
SetLine(p, line, up, device) ==
  CASE ~Usable(p) -> p
    [] Usable(p) /\ p.known[line] = (IF up THEN "Active" ELSE "Inactive") -> p
    [] Usable(p) /\ p.known[line] # (IF up THEN "Active" ELSE "Inactive") ->
         IF Fails(device, line, up)
           THEN FaultAndClose(
                  IF device.signals THEN p ELSE [p EXCEPT !.known[line] = "Unknown"],
                  TRUE, device)
           ELSE WriteLine(p, line, up, device)
LineIs(p, line, up) ==
  Usable(p) /\ p.known[line] = (IF up THEN "Active" ELSE "Inactive")

Close(p, device) == CloseDevice(IF p.isOpen THEN ReleaseAll(p, device) ELSE p)

(* The device emits errorOccurred while no call is in progress. *)
BackendError(p, device) == FaultAndClose(p, TRUE, device)

(***************************************************************************)
(* open() of a well-formed configuration: the engine refuses the others    *)
(* before it calls.  opens: the lock is acquired and the device opens;     *)
(* levels: what its lines come up with.                                    *)
(***************************************************************************)
Initialized(p, device) ==
  IF Released(p) THEN [p EXCEPT !.openSafe = TRUE] ELSE FaultAndClose(p, FALSE, device)
OpenClosed(p, opens, levels, device) ==
  IF opens
    THEN Initialized(
           ReleaseAll([p EXCEPT !.fault = FALSE, !.owned = TRUE, !.isOpen = TRUE,
                                !.wire = levels], device), device)
    ELSE [p EXCEPT !.fault = TRUE]
Open(p, opens, levels, device) == OpenClosed(Close(p, device), opens, levels, device)
=============================================================================
