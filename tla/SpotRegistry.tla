------------------------------ MODULE SpotRegistry ------------------------------
(***************************************************************************)
(* What other receivers report hearing: the bounded store of their reports *)
(* (core/src/cw_spot_registry.cpp) and the markers that ReplayController   *)
(* makes of it (desktop/replay/replay_controller.cpp).  A report's age is  *)
(* told by the wall clock, which may be set back, and a feed may stamp its *)
(* reports as it likes.  A frequency is the band it is in.                 *)
(***************************************************************************)
EXTENDS Integers, SequencesExt

CONSTANTS SpotCalls, SpotBands, Unplaced,  \* Unplaced: not known, or in no band
          Retentions,    \* retention_ns, as the settings may choose it
          MaximumSpots,
          Stamps,        \* when feeds say that they heard a station
          LastTime,      \* bound on the wall clock
          MostSetBacks   \* bound on how often the clock is set back
ASSUME SpotsAssumption ==
  /\ Retentions \subseteq Nat /\ MaximumSpots \in Nat /\ Stamps \subseteq Int

VARIABLES joined,        \* the kind of feed of the server joined, or Off
          retention,
          spots,         \* the store, in the order of insertion
          heard,         \* the band the receiver is on, or Unplaced
          shown,         \* dx_spots_
          wall, setBacks,
  latest         \* the latest that the clock has ever shown
spotVars == <<joined, retention, spots, heard, shown, wall, setBacks, latest>>

Off == "off"
Feeds == {"beacon", "cluster"}

(* No further than the retention in the past. *)
IsCurrent(spot, window) == spot.at >= wall \/ wall - spot.at <= window
Expired(store, window) ==
  LET kept[k \in 0..Len(store)] ==
        IF k = 0 THEN <<>>
        ELSE IF IsCurrent(store[k], window) THEN Append(kept[k - 1], store[k]) ELSE kept[k - 1]
  IN  kept[Len(store)]

Admissible(spot, window) ==
  /\ spot.at < wall => wall - spot.at <= window
  /\ spot.at > wall => spot.at - wall <= window

(* A feed that names a station again renews its report, unless it is late; *)
(* at the limit the oldest report gives way to a newer one.                *)
Renewed(store, k, spot) ==
  IF spot.at >= store[k].at THEN [store EXCEPT ![k] = spot] ELSE store
Oldest(store) ==
  Min({k \in DOMAIN store : \A l \in DOMAIN store : store[k].at <= store[l].at})
Inserted(store, spot) ==
  IF Len(store) < MaximumSpots THEN Append(store, spot)
  ELSE IF spot.at <= store[Oldest(store)].at THEN store
  ELSE Append(RemoveAt(store, Oldest(store)), spot)
Added(store, spot, window) ==
  LET kept == Expired(store, window)
      same == {k \in DOMAIN kept : kept[k].source = spot.source /\ kept[k].call = spot.call}
  IN  IF MaximumSpots = 0 \/ ~Admissible(spot, window) THEN store
      ELSE IF same # {} THEN Renewed(kept, Min(same), spot)
      ELSE Inserted(kept, spot)

(* All reports of a station are one match, which is where the newest of    *)
(* them, and of equally new ones the last inserted, says that it is.       *)
MatchOf(call, store) ==
  LET reports == {k \in DOMAIN store : store[k].call = call}
      newest == Max({k \in reports : \A l \in reports : store[l].at <= store[k].at})
  IN  [call |-> call, band |-> store[newest].band, at |-> store[newest].at,
       sources |-> {store[k].source : k \in reports}]
Matches(store) == {MatchOf(spot.call, store) : spot \in ToSet(store)}

IsWithinReceivedBand(band, on) == on = Unplaced \/ (band # Unplaced /\ band = on)

(* The store is swept, and what the joined feed reports on the received    *)
(* band is shown.                                                          *)
RebuildDxSpotModel(feed, store, window, on) ==
  LET kept == IF feed = Off THEN store ELSE Expired(store, window)
  IN  /\ spots' = kept
      /\ shown' = IF feed = Off THEN {}
                  ELSE {m \in Matches(kept) :
                          feed \in m.sources /\ IsWithinReceivedBand(m.band, on)}

-----------------------------------------------------------------------------
(* New limits make a new store; a link that is given up empties it.        *)
ConfigureSpots ==
  \E feed \in Feeds \cup {Off}, window \in Retentions :
    LET renewed == IF window # retention THEN <<>> ELSE spots
        store == IF feed = Off /\ joined # Off THEN <<>> ELSE renewed
    IN  /\ joined' = feed /\ retention' = window
        /\ RebuildDxSpotModel(feed, store, window, heard)
        /\ UNCHANGED <<heard, wall, setBacks, latest>>

(* A batch is added one by one at one reading of the clock, and the        *)
(* markers are rebuilt unless none of it is on the received band.          *)
AcceptDxSpots ==
  /\ joined # Off
  /\ \E call \in SpotCalls, band \in SpotBands \cup {Unplaced}, at \in Stamps :
       /\ IsWithinReceivedBand(band, heard)
       /\ LET spot == [source |-> joined, call |-> call, band |-> band, at |-> at]
          IN  RebuildDxSpotModel(joined, Added(spots, spot, retention), retention, heard)
  /\ UNCHANGED <<joined, retention, heard, wall, setBacks, latest>>

(* Defect: the markers stand until the timer fires. *)
RetuneLeavingMarkers ==
  /\ heard' \in SpotBands \cup {Unplaced}
  /\ UNCHANGED <<joined, retention, spots, shown, wall, setBacks, latest>>

Retune ==
  /\ heard' \in SpotBands \cup {Unplaced}
  /\ RebuildDxSpotModel(joined, spots, retention, heard')
  /\ UNCHANGED <<joined, retention, wall, setBacks, latest>>

ExpiryTimer ==
  /\ joined # Off
  /\ RebuildDxSpotModel(joined, spots, retention, heard)
  /\ UNCHANGED <<joined, retention, heard, wall, setBacks, latest>>

ClockRuns ==
  /\ wall < LastTime /\ wall' = wall + 1
  /\ latest' = Max({latest, wall'})
  /\ UNCHANGED <<joined, retention, spots, heard, shown, setBacks>>
ClockIsSetBack ==
  /\ setBacks < MostSetBacks /\ setBacks' = setBacks + 1
  /\ wall' \in 0..wall - 1
  /\ UNCHANGED <<joined, retention, spots, heard, shown, latest>>

SpotsInit ==
  /\ joined = Off /\ retention \in Retentions
  /\ spots = <<>> /\ heard = Unplaced /\ shown = {}
  /\ wall = 0 /\ setBacks = 0 /\ latest = 0
SpotsNext ==
  \/ ConfigureSpots \/ AcceptDxSpots \/ Retune \/ ExpiryTimer
  \/ ClockRuns \/ ClockIsSetBack
SpotsSpec == SpotsInit /\ [][SpotsNext]_spotVars

-----------------------------------------------------------------------------
SpotsTypeOK ==
  /\ joined \in Feeds \cup {Off} /\ heard \in SpotBands \cup {Unplaced}
  /\ Len(spots) <= MaximumSpots
  /\ \A k, l \in DOMAIN spots :
       k # l => <<spots[k].source, spots[k].call>> # <<spots[l].source, spots[l].call>>

(* A marker stands for a report in the store: of the feed that is joined,  *)
(* on the band that is received, whichever server, band or limit it was    *)
(* admitted under; and nothing outlives the link.                          *)
MarkersAreReported ==
  /\ \A m \in shown :
       /\ IsWithinReceivedBand(m.band, heard)
       /\ \E spot \in ToSet(spots) : spot.call = m.call /\ spot.source = joined
       /\ \A feed \in m.sources :
            \E spot \in ToSet(spots) : spot.call = m.call /\ spot.source = feed
  /\ joined = Off => spots = <<>> /\ shown = {}

(* No report stays for good: however feeds stamp what they send, and though *)
(* the clock is set back after a report came, the clock will pass its age.  *)
ReportsCanExpire == \A spot \in ToSet(spots) : spot.at <= latest + retention

SpotsInv == SpotsTypeOK /\ MarkersAreReported /\ ReportsCanExpire
=============================================================================
