-------------------------------- MODULE Estate --------------------------------
(***************************************************************************)
(* The tables of what a customer has: groups, assets with the devices and  *)
(* the centrals in them, maintenance groups and API keys.  These are the   *)
(* components of Registry that are proved about in a module of their own.  *)
(***************************************************************************)
EXTENDS Requests, FiniteSets

CONSTANTS
  MaxGroups, Member,
  MaxAssets, AssetOwner,
  MaxFleetAssets, MaxDevices, ExternalId,
  MaxGatewayAssets, MaxCentrals,
  MaxTeams, User,
  MaxKeys, ScopeSet

VARIABLES
  group,
  asset, device, owners, merged, central, mergedKeys,
  team, membership, enrolled, left,
  key, late, wanted, admitted, lost

\* Bounds: the requests made to a component, less where it takes many statements.
Grouping == INSTANCE Groups WITH MaxRequests <- MaxRequests - 3
Tree == INSTANCE Assets WITH MaxRequests <- MaxRequests - 3, Customer <- AssetOwner
Fleet == INSTANCE Devices WITH
  MaxRequests <- MaxRequests - 4, Customer <- AssetOwner, MaxAssets <- MaxFleetAssets
Gateways == INSTANCE Centrals WITH
  MaxRequests <- MaxRequests - 3, Customer <- AssetOwner, MaxAssets <- MaxGatewayAssets
Teams == INSTANCE MaintenanceGroups WITH MaxRequests <- MaxRequests - 3
Keys == INSTANCE CustomerApiKeys WITH MaxRequests <- MaxRequests - 3

ASSUME EstateAssumption ==
  /\ MaxGroups \in Nat
  /\ MaxAssets \in Nat /\ AssetOwner # {}
  /\ MaxFleetAssets \in Nat \ {0} /\ MaxDevices \in Nat /\ Fleet!NoId \notin ExternalId
  /\ MaxGatewayAssets \in Nat \ {0} /\ MaxCentrals \in Nat
  /\ MaxTeams \in Nat /\ IsFiniteSet(User)
  /\ MaxKeys \in Nat /\ ScopeSet \subseteq SUBSET Keys!Scope

fleet == <<device, owners, merged>>
gateways == <<central, mergedKeys>>
teams == <<team, membership, enrolled, left>>
keys == <<key, late, wanted, admitted, lost>>
===============================================================================
