--------------------------- MODULE MCTransmitStation ---------------------------
(***************************************************************************)
(* The transmitting station, and the settings it is configured from, in    *)
(* one instance: a behaviour works one of them.                            *)
(***************************************************************************)
EXTENDS TransmitStation, StationProfiles

VARIABLE part

MCScheduler == [lead |-> 0, hang |-> 0, maxMessage |-> 2, maxLateness |-> 0]
MCEngineConfig == [keying |-> TRUE, tune |-> 2, scheduler |-> MCScheduler]

(* One station to work, and a callsign that is not one.                    *)
MCCalls == {"c1"}
MCRawCalls == {"c1", "junk"}
MCNormalizeCall == [raw \in MCRawCalls |-> IF raw = "c1" THEN "c1" ELSE "none"]
(* Two messages; the second is too long to be encoded at the slower speed. *)
MCMessages == {"m1", "m2"}
MCRawMessages == {"m1", "m2"}
MCNormalizeMessage == [raw \in MCRawMessages |-> raw]
MCSpeeds == {10, 20}
Keyed(dot, n) ==
  [text |-> TRUE, dot |-> dot, spans |-> <<[key |-> TRUE, units |-> n]>>, total |-> dot * n]
MCEncode ==
  [pair \in MCMessages \X MCSpeeds |->
     CASE pair = <<"m1", 20>> -> Keyed(1, 1)
       [] pair = <<"m1", 10>> -> Keyed(2, 1)
       [] pair = <<"m2", 20>> -> Keyed(1, 2)
       [] pair = <<"m2", 10>> -> Engine!Scheduler!NoPlan]

MCSomeRadios ==
  { [ready |-> TRUE, id |-> "20m"], [ready |-> TRUE, id |-> "40m"],
    [ready |-> FALSE, id |-> "20m"] }

Refuses(line, up) == [line |-> line, up |-> up]
Device(broken, signals) == [broken |-> broken, signals |-> signals]
MCSomeDevices == { Device({}, FALSE), Device({Refuses("key", FALSE)}, FALSE) }

Bench(plug, refuses) == [plug |-> plug, opens |-> TRUE, refuses |-> refuses]
MCSomeBenches ==
  { Bench(plug, {}) : plug \in Plugs }
    \cup { Bench("straight", {<<line, FALSE>>}) : line \in Lines }
    \cup { [plug |-> "straight", opens |-> FALSE, refuses |-> {}] }

(* The part that is not worked is left in one of its initial states.        *)
StationInit ==
  /\ part \in {"station", "profiles"}
  /\ Init /\ ProfilesInit
  /\ part = "station" => page = "source" /\ built
  /\ part = "profiles" => device = Device({}, FALSE) /\ s.radio = [ready |-> FALSE, id |-> "20m"]
StationNext ==
  /\ UNCHANGED part
  /\ \/ part = "station" /\ Next /\ UNCHANGED profileVars
     \/ part = "profiles" /\ ProfilesNext /\ UNCHANGED vars
StationSpec == StationInit /\ [][StationNext]_<<part, vars, profileVars>> /\ Fairness
=============================================================================
