------------------------------ MODULE ControlLease ------------------------------
(***************************************************************************)
(* ControlLeaseManager: a station server grants one client at a time the   *)
(* control of a rig, for a while.  Nothing happens by itself: a lease that *)
(* has run out is dropped by the next call that looks.  clients may call   *)
(* at any time; leaseNow is the clock of the server, which only goes on.   *)
(***************************************************************************)
EXTENDS Integers

CONSTANTS LeaseClients, LeaseRigs,
          Nobody,            \* no client
          RequestedTtls,     \* what a client asks for
          MinTtl, MaxTtl,
          LeaseEnd           \* bound on the clock
ASSUME LeaseAssumption ==
  /\ Nobody \notin LeaseClients
  /\ RequestedTtls \subseteq Int /\ LeaseEnd \in Nat
  /\ MinTtl \in Nat \ {0} /\ MaxTtl \in Nat /\ MinTtl <= MaxTtl

VARIABLES
  leases,    \* who holds each rig, and until when; Nobody when no entry
  leaseNow,
  granted    \* history: what the last answer to each rig's holder promised
leaseVars == <<leases, leaseNow, granted>>

Lease(client, until) == [client |-> client, until |-> until]
NoLease == Lease(Nobody, 0)
ClampTtl(ttl) == IF ttl < MinTtl THEN MinTtl ELSE IF ttl > MaxTtl THEN MaxTtl ELSE ttl

(* Defect: a lease is dropped a moment before its end.                     *)
ExpireEarly(held) ==
  [rig \in LeaseRigs |-> IF held[rig].until <= leaseNow + 1 THEN NoLease ELSE held[rig]]
Expire(held) == [rig \in LeaseRigs |-> IF held[rig].until <= leaseNow THEN NoLease ELSE held[rig]]

LeaseInit ==
  /\ leases = [rig \in LeaseRigs |-> NoLease] /\ granted = leases /\ leaseNow = 0

-----------------------------------------------------------------------------
(* acquire: also a renewal by the client that holds the rig.  An           *)
(* identifier that is not valid is refused before anything is looked at.   *)
Acquire(client, rig, ttl) ==
  LET held == Expire(leases)
      lease == Lease(client, leaseNow + ClampTtl(ttl))
      free == held[rig].client \in {Nobody, client}
  IN  /\ leases' = IF free THEN [held EXCEPT ![rig] = lease] ELSE held
      /\ granted' = IF free THEN [granted EXCEPT ![rig] = lease] ELSE granted
      /\ UNCHANGED leaseNow

Renew(client, rig, ttl) ==
  LET held == Expire(leases)
      lease == Lease(client, leaseNow + ClampTtl(ttl))
      owned == held[rig].client = client
  IN  /\ leases' = IF owned THEN [held EXCEPT ![rig] = lease] ELSE held
      /\ granted' = IF owned THEN [granted EXCEPT ![rig] = lease] ELSE granted
      /\ UNCHANGED leaseNow

(* A release does not look at the clock.                                   *)
Release(client, rig) ==
  /\ leases[rig].client = client
  /\ leases' = [leases EXCEPT ![rig] = NoLease]
  /\ granted' = [granted EXCEPT ![rig] = NoLease]
  /\ UNCHANGED leaseNow

(* expire, and owns and current, which begin with it.                      *)
Looks == leases' = Expire(leases) /\ UNCHANGED <<granted, leaseNow>>

LeaseTick == leaseNow < LeaseEnd /\ leaseNow' = leaseNow + 1 /\ UNCHANGED <<leases, granted>>

LeaseNext ==
  \/ \E client \in LeaseClients, rig \in LeaseRigs :
       \/ \E ttl \in RequestedTtls : Acquire(client, rig, ttl) \/ Renew(client, rig, ttl)
       \/ Release(client, rig)
  \/ Looks \/ LeaseTick
LeaseSpec == LeaseInit /\ [][LeaseNext]_leaseVars

-----------------------------------------------------------------------------
Owns(client, rig) == Expire(leases)[rig].client = client

(* remote_control.cpp: the client that was told it has a rig until some    *)
(* time has it until then, whatever the others ask; and nobody holds a rig *)
(* that he was not granted, or for longer.                                 *)
KeepsItsPromise ==
  \A rig \in LeaseRigs :
    /\ granted[rig].until > leaseNow => Owns(granted[rig].client, rig)
    /\ leases[rig] \in {granted[rig], NoLease}
    /\ leases[rig].until <= leaseNow + MaxTtl

(* A rig passes to another client only after the end that was promised, or *)
(* its holder's release.                                                   *)
HandsOverLate ==
  [][\A rig \in LeaseRigs, client \in LeaseClients :
       granted'[rig].client = client /\ granted[rig].client \notin {client, Nobody}
         => granted[rig].until <= leaseNow]_leaseVars
=============================================================================
