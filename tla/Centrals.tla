------------------------------ MODULE Centrals ------------------------------
(***************************************************************************)
(* Centrals, the gateways installed in assets: CentralService over the     *)
(* centrals table, beside AssetService.                                    *)
(*                                                                         *)
(* Two routes lead to the table.  The handlers of serverless.yml call the  *)
(* service; the Express controller calls the repository itself, and makes  *)
(* none of the service's checks.  Configuration and metadata are merged    *)
(* under the version that was read; the connection and the statistics are  *)
(* written whatever the version.  What a request merges is one key, its    *)
(* own name.  Serial numbers, which a unique index decides, are left out.  *)
(***************************************************************************)
EXTENDS Assets

CONSTANT MaxCentrals   \* bound: centrals created

VARIABLES
  central,
  mergedKeys    \* history: the keys that were answered, per central and column

centralTables == <<asset, central, mergedKeys>>

Central == 1 .. MaxCentrals

Keys == [config : SUBSET Request, stats : SUBSET Request]
NoKeys == [config |-> {}, stats |-> {}]

CentralRow == [state : {"unborn", "there", "gone"}, asset : Asset \cup {NoAsset}, customer : Customer,
               connection : {"ONLINE", "OFFLINE"}, keys : Keys, version : Nat]

UnbornCentral == [state |-> "unborn", asset |-> NoAsset, customer |-> CHOOSE c \in Customer : TRUE,
                  connection |-> "OFFLINE", keys |-> NoKeys, version |-> 0]

Working(k) == central[k].state = "there"
NewCentrals == {k \in Central : central[k].state = "unborn"}

CentralsTypeOK ==
  /\ AssetsTypeOK
  /\ central \in [Central -> CentralRow]
  /\ mergedKeys \in [Central -> Keys]

CentralsInit ==
  /\ AssetsInit
  /\ central = [k \in Central |-> UnbornCentral]
  /\ mergedKeys = [k \in Central |-> NoKeys]

CentralReads == UNCHANGED centralTables

-----------------------------------------------------------------------------
\* Requests to the service

CreateCentral(r, a, c) ==
  /\ NewCentrals # {}
  /\ FitsBelow(a, c)
  /\ Begin(r, [pc |-> "insertCentral", asset |-> a, customer |-> c])
  /\ CentralReads

\* column: what is merged, or the status alone.
UpdateCentral(r, k, column) ==
  /\ Working(k)
  /\ Begin(r, [pc |-> "readCentral", central |-> k, column |-> column])
  /\ CentralReads

DeleteCentral(r, k) ==
  /\ Working(k)
  /\ Begin(r, [pc |-> "dropCentral", central |-> k])
  /\ CentralReads

ReportConnection(r, k, connection, stats) ==
  /\ Working(k)
  /\ Begin(r, [pc |-> IF stats THEN "readStats" ELSE "connect", central |-> k, connection |-> connection])
  /\ CentralReads

RecordHeartbeat(r, k) == ReportConnection(r, k, "ONLINE", TRUE)

-----------------------------------------------------------------------------
\* Requests to the controller, whose first read is the repository's

CreateCentralDirectly(r, a, c) ==
  /\ NewCentrals # {}
  /\ There(a)
  /\ Begin(r, [pc |-> "insertCentral", asset |-> a, customer |-> c])
  /\ CentralReads

Seen(k) == [keys |-> central[k].keys, version |-> central[k].version]

UpdateCentralDirectly(r, k, column) ==
  /\ Working(k)
  /\ Begin(r, [pc |-> "writeCentral", central |-> k, column |-> column, seen |-> Seen(k)])
  /\ CentralReads

-----------------------------------------------------------------------------
\* Statements

\* The foreign key refuses an asset that has gone.
InsertCentral(r) ==
  LET c == call[r] IN
  /\ At(r, "insertCentral")
  /\ central' = IF NewCentrals = {} \/ ~There(c.asset) THEN central
                ELSE [central EXCEPT ![Min(NewCentrals)] =
                        [state |-> "there", asset |-> c.asset, customer |-> c.customer,
                         connection |-> "OFFLINE", keys |-> NoKeys, version |-> 1]]
  /\ Done(r)
  /\ UNCHANGED <<asset, mergedKeys>>

ReadCentral(r) ==
  LET c == call[r] IN
  /\ At(r, "readCentral")
  /\ IF Working(c.central)
       THEN Goes(r, [pc |-> "writeCentral", central |-> c.central, column |-> c.column, seen |-> Seen(c.central)])
       ELSE Done(r)
  /\ CentralReads

\* Mutation of Unmodified: the version of the row is not compared.
UnmodifiedAnyway(c) == Working(c.central)

Unmodified(c) == Working(c.central) /\ central[c.central].version = c.seen.version

WriteCentral(r) ==
  LET c == call[r]
      k == c.central
  IN
  /\ At(r, "writeCentral")
  /\ IF Unmodified(c)
       THEN IF c.column = "config"
              THEN /\ central' = [central EXCEPT ![k].keys.config = c.seen.keys.config \cup {r},
                                                ![k].version = c.seen.version + 1]
                   /\ mergedKeys' = [mergedKeys EXCEPT ![k].config = @ \cup {r}]
              ELSE /\ central' = [central EXCEPT ![k].version = c.seen.version + 1]
                   /\ UNCHANGED mergedKeys
       ELSE UNCHANGED <<central, mergedKeys>>
  /\ Done(r)
  /\ UNCHANGED asset

DropCentral(r) ==
  /\ At(r, "dropCentral")
  /\ central' = IF Working(call[r].central)
                  THEN [central EXCEPT ![call[r].central] = [UnbornCentral EXCEPT !.state = "gone"]]
                  ELSE central
  /\ Done(r)
  /\ UNCHANGED <<asset, mergedKeys>>

\* What a report without statistics writes.
Connect(r) ==
  LET c == call[r] IN
  /\ At(r, "connect")
  /\ central' = IF Working(c.central) THEN [central EXCEPT ![c.central].connection = c.connection] ELSE central
  /\ Done(r)
  /\ UNCHANGED <<asset, mergedKeys>>

ReadStats(r) ==
  LET c == call[r] IN
  /\ At(r, "readStats")
  /\ IF Working(c.central)
       THEN Goes(r, [pc |-> "writeStats", central |-> c.central, connection |-> c.connection,
                     stats |-> central[c.central].keys.stats])
       ELSE Done(r)
  /\ CentralReads

\* Whatever was written since the statistics were read.
WriteStats(r) ==
  LET c == call[r]
      k == c.central
  IN
  /\ At(r, "writeStats")
  /\ IF Working(k)
       THEN /\ central' = [central EXCEPT ![k].connection = c.connection, ![k].keys.stats = c.stats \cup {r}]
            /\ mergedKeys' = [mergedKeys EXCEPT ![k].stats = @ \cup {r}]
       ELSE UNCHANGED <<central, mergedKeys>>
  /\ Done(r)
  /\ UNCHANGED asset

Occupied == {central[k].asset : k \in {x \in Central : Working(x)}}

CentralsNext ==
  \E r \in Request :
    \/ AssetSteps(r, Occupied) /\ UNCHANGED <<central, mergedKeys>>
    \/ \E a \in Asset, c \in Customer : CreateCentral(r, a, c) \/ CreateCentralDirectly(r, a, c)
    \/ \E k \in Central :
         \/ \E column \in {"config", "status"} : UpdateCentral(r, k, column) \/ UpdateCentralDirectly(r, k, column)
         \/ \E connection \in {"ONLINE", "OFFLINE"}, stats \in BOOLEAN : ReportConnection(r, k, connection, stats)
         \/ RecordHeartbeat(r, k)
         \/ DeleteCentral(r, k)
    \/ InsertCentral(r) \/ ReadCentral(r) \/ WriteCentral(r) \/ DropCentral(r)
    \/ Connect(r) \/ ReadStats(r) \/ WriteStats(r)
    \/ Fails(r) /\ CentralReads

CentralsSpec == CentralsInit /\ [][CentralsNext]_<<centralTables, requests>>

-----------------------------------------------------------------------------
\* Correctness

\* The asset of a central exists, however the creation of a central and the
\* deletion of its asset overlap, and by whichever route it was created.
CentralHasAsset == \A k \in Central : Working(k) => There(central[k].asset)

\* What an update has merged into the configuration is not lost to another update,
\* to a change of status or to a heartbeat that had read the central before.
ConfigKept == \A k \in Central : Working(k) => mergedKeys[k].config \subseteq central[k].keys.config

-----------------------------------------------------------------------------
\* What the code says and does not do

\* "Customer ID must match the asset's customer" (CentralService.ts:35): the
\* controller does not ask.
CustomerMatches ==
  Settled => \A k \in Central : Working(k) => central[k].customer = asset[central[k].asset].customer

\* A heartbeat merges its statistics into those there are (CentralRepository.ts:270):
\* two that overlap keep one of them.
StatsKept == \A k \in Central : Working(k) => mergedKeys[k].stats \subseteq central[k].keys.stats
=============================================================================
