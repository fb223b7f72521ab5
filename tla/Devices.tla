------------------------------- MODULE Devices -------------------------------
(***************************************************************************)
(* Devices, each in an asset: DeviceService over the devices table, beside *)
(* AssetService.                                                           *)
(*                                                                         *)
(* A device stores its asset, and apart from it the customer that the      *)
(* asset had when it was read.  Left out are serial numbers, which a       *)
(* unique index decides, and the columns of connectivity and activity,     *)
(* which single statements set; an update merges one key into the metadata *)
(* of the device, the name of its request.                                 *)
(***************************************************************************)
EXTENDS Assets

CONSTANTS
  MaxDevices,   \* bound: devices, one of which is there from the start
  ExternalId

VARIABLES
  device,
  owners,       \* history: the customers each asset has had
  merged        \* history: the keys whose update of the device was answered

deviceTables == <<asset, device, owners, merged>>

Device == 1 .. MaxDevices
NoId == "none"

DeviceRow == [state : {"unborn", "there", "gone"}, asset : Asset \cup {NoAsset}, customer : Customer,
              external : ExternalId \cup {NoId}, metadata : SUBSET Request, version : Nat]

UnbornDevice == [state |-> "unborn", asset |-> NoAsset, customer |-> CHOOSE c \in Customer : TRUE,
                 external |-> NoId, metadata |-> {}, version |-> 0]

Installed(d) == device[d].state = "there"
NewDevices == {d \in Device : device[d].state = "unborn"}
Holders(e) == {d \in Device : Installed(d) /\ device[d].external = e}

DevicesTypeOK ==
  /\ AssetsTypeOK
  /\ device \in [Device -> DeviceRow]
  /\ merged \in [Device -> SUBSET Request]
  /\ owners \subseteq Asset \X Customer

FirstDevice == [UnbornDevice EXCEPT !.state = "there", !.asset = 1, !.customer = FirstAsset.customer, !.version = 1]

DevicesInit ==
  /\ AssetsInit
  /\ device = [d \in Device |-> IF d = 1 THEN FirstDevice ELSE UnbornDevice]
  /\ owners = {<<1, FirstAsset.customer>>}
  /\ merged = [d \in Device |-> {}]

Reads == UNCHANGED deviceTables

-----------------------------------------------------------------------------
\* Requests

CreateDevice(r, a, e) ==
  /\ NewDevices # {}
  /\ There(a)
  /\ Begin(r, [pc |-> IF e = NoId THEN "insertDevice" ELSE "external", device |-> NoAsset, asset |-> a,
               customer |-> asset[a].customer, external |-> e])
  /\ Reads

\* e: the external id asked for, or none.
UpdateDevice(r, d, e) ==
  /\ Installed(d)
  /\ Begin(r, [pc |-> IF e \in {NoId, device[d].external} THEN "readDevice" ELSE "external",
               device |-> d, external |-> e])
  /\ Reads

DeleteDevice(r, d) ==
  /\ Installed(d)
  /\ Begin(r, [pc |-> "dropDevice", device |-> d])
  /\ Reads

MoveDevice(r, d, a) ==
  /\ Installed(d)
  /\ device[d].asset # a
  /\ Begin(r, [pc |-> "newAsset", device |-> d, asset |-> a])
  /\ Reads

-----------------------------------------------------------------------------
\* Statements

\* getByExternalId, for a creation or for an update.
LookForExternal(r) ==
  LET c == call[r] IN
  /\ At(r, "external")
  /\ IF Holders(c.external) \ {c.device} # {} THEN Done(r)
     ELSE Goes(r, [c EXCEPT !.pc = IF c.device = NoAsset THEN "insertDevice" ELSE "readDevice"])
  /\ Reads

\* Mutation of InsertDevice: asset and customer change places.
InsertDeviceSwapped(r) ==
  LET c == call[r] IN
  /\ At(r, "insertDevice")
  /\ device' = IF NewDevices = {} \/ ~There(c.asset) THEN device
               ELSE [device EXCEPT ![Min(NewDevices)] =
                       [state |-> "there", asset |-> c.customer, customer |-> c.asset,
                        external |-> c.external, metadata |-> {}, version |-> 1]]
  /\ Done(r)
  /\ UNCHANGED <<asset, owners, merged>>

\* The foreign key refuses an asset that has gone.
InsertDevice(r) ==
  LET c == call[r] IN
  /\ At(r, "insertDevice")
  /\ device' = IF NewDevices = {} \/ ~There(c.asset) THEN device
               ELSE [device EXCEPT ![Min(NewDevices)] =
                       [state |-> "there", asset |-> c.asset, customer |-> c.customer,
                        external |-> c.external, metadata |-> {}, version |-> 1]]
  /\ Done(r)
  /\ UNCHANGED <<asset, owners, merged>>

\* The repository reads the device once more, and merges into what it reads.
ReadDevice(r) ==
  LET c == call[r] IN
  /\ At(r, "readDevice")
  /\ IF Installed(c.device)
       THEN Goes(r, [pc |-> "writeDevice", device |-> c.device, external |-> c.external,
                     metadata |-> device[c.device].metadata, version |-> device[c.device].version])
       ELSE Done(r)
  /\ Reads

\* Mutation of Current: the version of the row is not compared.
CurrentAnyway(c) == Installed(c.device)

Current(c) == Installed(c.device) /\ device[c.device].version = c.version

\* The asset and the customer are not part of the statement.
WriteDevice(r) ==
  LET c == call[r]
      d == c.device
  IN
  /\ At(r, "writeDevice")
  /\ IF Current(c)
       THEN /\ device' = [device EXCEPT ![d].external = IF c.external = NoId THEN @ ELSE c.external,
                            ![d].metadata = c.metadata \cup {r}, ![d].version = c.version + 1]
            /\ merged' = [merged EXCEPT ![d] = @ \cup {r}]
       ELSE UNCHANGED <<device, merged>>
  /\ Done(r)
  /\ UNCHANGED <<asset, owners>>

DropDevice(r) ==
  /\ At(r, "dropDevice")
  /\ device' = IF Installed(call[r].device)
                 THEN [device EXCEPT ![call[r].device] = [UnbornDevice EXCEPT !.state = "gone"]] ELSE device
  /\ Done(r)
  /\ UNCHANGED <<asset, owners, merged>>

ReadNewAsset(r) ==
  LET c == call[r] IN
  /\ At(r, "newAsset")
  /\ IF There(c.asset)
       THEN Goes(r, [pc |-> "moveDevice", device |-> c.device, asset |-> c.asset,
                     customer |-> asset[c.asset].customer])
       ELSE Done(r)
  /\ Reads

\* One statement, whose version nobody compares, and which the foreign key checks.
PlaceDevice(r) ==
  LET c == call[r] IN
  /\ At(r, "moveDevice")
  /\ device' = IF Installed(c.device) /\ There(c.asset)
                 THEN [device EXCEPT ![c.device].asset = c.asset, ![c.device].customer = c.customer]
                 ELSE device
  /\ Done(r)
  /\ UNCHANGED <<asset, owners, merged>>

InUse == {device[d].asset : d \in {x \in Device : Installed(x)}}

DevicesNext ==
  \E r \in Request :
    \/ /\ AssetSteps(r, InUse)
       /\ owners' = owners \cup {<<a, asset'[a].customer>> : a \in {x \in Asset : There(x)'}}
       /\ UNCHANGED <<device, merged>>
    \/ \E a \in Asset, e \in ExternalId \cup {NoId} : CreateDevice(r, a, e)
    \/ \E d \in Device :
         \/ \E e \in ExternalId \cup {NoId} : UpdateDevice(r, d, e)
         \/ \E a \in Asset : MoveDevice(r, d, a)
         \/ DeleteDevice(r, d)
    \/ LookForExternal(r) \/ InsertDevice(r) \/ ReadDevice(r) \/ WriteDevice(r)
    \/ DropDevice(r) \/ ReadNewAsset(r) \/ PlaceDevice(r)
    \/ Fails(r) /\ Reads

DevicesSpec == DevicesInit /\ [][DevicesNext]_<<deviceTables, requests>>

-----------------------------------------------------------------------------
\* Correctness

\* However moves of devices and of assets overlap, the customer a device is stored
\* with is one that its asset has had: both are written together.
CustomerWasOwner == \A d \in Device : Installed(d) => <<device[d].asset, device[d].customer>> \in owners

\* The asset of a device exists: the service does not look for devices when it
\* deletes an asset ("TODO", AssetService.ts:116), the foreign key does.
DeviceHasAsset == \A d \in Device : Installed(d) => There(device[d].asset)

\* What an update has merged into the metadata is not lost to another update that
\* had read the device before.
MergesKept == \A d \in Device : Installed(d) => merged[d] \subseteq device[d].metadata

\* Between requests that come one after the other no two devices share an external
\* id, which only the service's lookup keeps apart.
ExternalIdsDiffer == Settled => \A e \in ExternalId : Cardinality(Holders(e)) <= 1

-----------------------------------------------------------------------------
\* What the code says and does not do

\* "Device with external ID ... already exists" (DeviceService.ts:43), whatever
\* overlaps.
ExternalIdsUnique == \A e \in ExternalId : Cardinality(Holders(e)) <= 1

\* A device belongs to the customer of its asset, as its creation and its move say
\* (DeviceService.ts:48, :177), also after the asset has moved to another one.
CustomerFollows ==
  Settled => \A d \in Device : Installed(d) => device[d].customer = asset[device[d].asset].customer
=============================================================================
