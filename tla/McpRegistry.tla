---------------------------- MODULE McpRegistry ----------------------------
(***************************************************************************)
(* The MCP registry (internal/mcp/registry.go) and who connects through    *)
(* it: the /mcp panel and commands, subagents (ConnectServers) and holders *)
(* of leases.  A registry keeps one entry per server name and its          *)
(* operations are about one name each, so the module follows one server.   *)
(* A change of project or plugins puts a fresh registry in the place of    *)
(* the current one; whoever works with the old one goes on with it.        *)
(*                                                                         *)
(* Two locks: connectionLifecycleMu serialises leases, which hold it over  *)
(* the dialling; mu covers each step on the maps.  Disconnect and the      *)
(* change of registry take mu only.  A definition named ...Fault is the    *)
(* one after it with a defect; no action uses it.                          *)
(***************************************************************************)
EXTENDS Naturals, FiniteSets

CONSTANTS
  Procs,           \* goroutines that use the server
  None,
  MaxRegistries,   \* bound: registries of one process life
  BoundClients,    \* bound: Clients made
  BoundEpoch,      \* bound: generations of one entry
  BoundFaults      \* bound: servers that die, configs that change, disconnects

ASSUME McpRegistryAssumption ==
  /\ IsFiniteSet(Procs) /\ None \notin Procs
  /\ MaxRegistries \in Nat \ {0} /\ BoundClients \in Nat
  /\ BoundEpoch \in Nat /\ BoundFaults \in Nat

Registries == 1 .. MaxRegistries
Clients == 1 .. BoundClients
Epochs == 0 .. BoundEpoch

VARIABLES
  current,     \* DefaultRegistry
  configured,  \* the name has a config, per registry
  installed,   \* r.clients[name], 0 for none
  epoch,       \* currentEpoch
  temporary,   \* disconnectAfterFinalLease
  retained,    \* retainWithoutLeases
  leases,      \* leaseCountsByEpoch
  lifecycle,   \* the holder of connectionLifecycleMu
  client,      \* the life of each Client
  made, faults,
  at, on,      \* where each goroutine is, and in which registry
  dialled,     \* the Client it made, 0 for none
  lease, held, \* its lease's epoch, and the Client it got with it
  wanted,      \* history: Clients a Connect returned, or adopted
  renumbered   \* history: entries dropped under a lease

entry == <<installed, epoch, temporary, retained, leases>>
proc == <<at, on, dialled, lease, held>>
hist == <<wanted, renumbered>>
vars == <<current, configured, entry, lifecycle, client, made, faults, proc, hist>>

Init ==
  /\ current = 1 /\ configured = [r \in Registries |-> r = 1]
  /\ installed = [r \in Registries |-> 0] /\ epoch = [r \in Registries |-> 0]
  /\ temporary = [r \in Registries |-> FALSE] /\ retained = [r \in Registries |-> FALSE]
  /\ leases = [r \in Registries |-> [e \in Epochs |-> 0]]
  /\ lifecycle = [r \in Registries |-> None]
  /\ client = [c \in Clients |-> "none"] /\ made = 0 /\ faults = 0
  /\ at = [p \in Procs |-> "idle"] /\ on = [p \in Procs |-> 1]
  /\ dialled = [p \in Procs |-> 0] /\ lease = [p \in Procs |-> 0] /\ held = [p \in Procs |-> 0]
  /\ wanted = {} /\ renumbered = {}

IsConnected(c) == c # 0 /\ client[c] = "live"

Goto(p, place) == at' = [at EXCEPT ![p] = place]

Fault == faults < BoundFaults /\ faults' = faults + 1

\* Back to idle, with no registry in hand.
Rest(p) == Goto(p, "idle") /\ on' = [on EXCEPT ![p] = 1]

\* NewClient, and its Connect begins.
Dial(p) ==
  /\ made < BoundClients /\ made' = made + 1
  /\ client' = [client EXCEPT ![made + 1] = "dialling"]
  /\ dialled' = [dialled EXCEPT ![p] = made + 1]

\* The handshake is over and its Client takes the entry, whatever was there.
Install(p) ==
  LET r == on[p] IN
  /\ epoch[r] < BoundEpoch /\ epoch' = [epoch EXCEPT ![r] = @ + 1]
  /\ client' = [client EXCEPT ![dialled[p]] = "live"]
  /\ installed' = [installed EXCEPT ![r] = dialled[p]]

-----------------------------------------------------------------------------
\* Connect, by the user or by a subagent's ConnectServers.

Retain(r) ==
  /\ retained' = [retained EXCEPT ![r] = TRUE]
  /\ temporary' = [temporary EXCEPT ![r] = FALSE]

ConnectFast(p) ==
  LET r == current IN
  /\ at[p] = "idle" /\ lifecycle[r] = None /\ configured[r] /\ IsConnected(installed[r])
  /\ Retain(r) /\ wanted' = wanted \cup {installed[r]}
  /\ Goto(p, "using") /\ on' = [on EXCEPT ![p] = r]
  /\ UNCHANGED <<current, configured, installed, epoch, leases, lifecycle, client, made,
                 faults, dialled, lease, held, renumbered>>

ConnectDial(p) ==
  LET r == current IN
  /\ at[p] = "idle" /\ lifecycle[r] = None /\ configured[r] /\ ~IsConnected(installed[r])
  /\ Dial(p) /\ Goto(p, "connecting") /\ on' = [on EXCEPT ![p] = r]
  /\ UNCHANGED <<current, configured, entry, lifecycle, faults, lease, held, hist>>

ConnectDone(p) ==
  LET r == on[p] IN
  /\ at[p] = "connecting" /\ lifecycle[r] = None
  /\ Install(p) /\ Retain(r) /\ wanted' = wanted \cup {dialled[p]}
  /\ Goto(p, "using") /\ dialled' = [dialled EXCEPT ![p] = 0]
  /\ UNCHANGED <<current, configured, leases, lifecycle, made, faults, on, lease, held, renumbered>>

\* A failed handshake closes its transport.
DialFails(p) ==
  /\ at[p] \in {"connecting", "leasing"}
  /\ client' = [client EXCEPT ![dialled[p]] = "closed"]
  /\ lifecycle' = IF at[p] = "leasing" THEN [lifecycle EXCEPT ![on[p]] = None] ELSE lifecycle
  /\ Rest(p) /\ dialled' = [dialled EXCEPT ![p] = 0]
  /\ UNCHANGED <<current, configured, entry, made, faults, lease, held, hist>>

-----------------------------------------------------------------------------
\* Leases.

\* acquireConnectionLease: under connectionLifecycleMu until it has counted.
Acquire(p) ==
  LET r == current IN
  /\ at[p] = "idle" /\ lifecycle[r] = None /\ configured[r]
  /\ lifecycle' = [lifecycle EXCEPT ![r] = p] /\ on' = [on EXCEPT ![p] = r]
  /\ IF IsConnected(installed[r])
     THEN Goto(p, "counting") /\ UNCHANGED <<client, made, dialled>>
     ELSE Goto(p, "leasing") /\ Dial(p)
  /\ UNCHANGED <<current, configured, entry, faults, lease, held, hist>>

LeaseDialled(p) ==
  /\ at[p] = "leasing" /\ Install(p) /\ Goto(p, "counting")
  /\ UNCHANGED <<current, configured, temporary, retained, leases, lifecycle, made, faults,
                 on, dialled, lease, held, hist>>

TemporaryFault(r, fresh) == fresh /\ ~retained[r]

\* A connection is temporary if a lease made it and nobody asked to keep it.
Temporary(r, fresh) == temporary[r] \/ (fresh /\ ~retained[r])

\* The entry may have been dropped since: the count then goes to a new one.
Count(p) ==
  LET r == on[p] IN
  /\ at[p] = "counting" /\ lifecycle' = [lifecycle EXCEPT ![r] = None]
  /\ lease' = [lease EXCEPT ![p] = epoch[r]]
  /\ held' = [held EXCEPT ![p] = installed[r]]
  /\ leases' = [leases EXCEPT ![r][epoch[r]] = @ + 1]
  /\ temporary' = [temporary EXCEPT ![r] = Temporary(r, dialled[p] # 0)]
  /\ dialled' = [dialled EXCEPT ![p] = 0] /\ Goto(p, "leased")
  /\ UNCHANGED <<current, configured, installed, epoch, retained, client, made, faults, on, hist>>

\* Client.Disconnect, in a goroutine of its own.
Close(c) == client' = IF c = 0 THEN client ELSE [client EXCEPT ![c] = "closed"]

EndsConnectionFault(r, e) == epoch[r] = e /\ temporary[r] /\ ~retained[r]

\* The final lease of the current generation of a temporary connection.
EndsConnection(r, e) ==
  leases[r][e] = 1 /\ epoch[r] = e /\ temporary[r] /\ ~retained[r]

\* releaseConnectionLease.
Release(p) ==
  LET r == on[p]
      e == lease[p]
  IN
  /\ at[p] = "leased" /\ lifecycle[r] = None /\ Rest(p)
  /\ leases' = [leases EXCEPT ![r][e] = IF @ = 0 THEN 0 ELSE @ - 1]
  /\ IF EndsConnection(r, e)
     THEN /\ installed' = [installed EXCEPT ![r] = 0]
          /\ temporary' = [temporary EXCEPT ![r] = FALSE]
          /\ Close(installed[r])
     ELSE UNCHANGED <<installed, temporary, client>>
  /\ lease' = [lease EXCEPT ![p] = 0] /\ held' = [held EXCEPT ![p] = 0]
  /\ UNCHANGED <<current, configured, epoch, retained, lifecycle, made, faults, dialled, hist>>

-----------------------------------------------------------------------------
\* Disconnect and what else drops the entry, under mu alone.

\* The goroutines that have, or are about to count, a lease in registry r.
Leasing(r) == {p \in Procs : on[p] = r /\ at[p] \in {"leasing", "counting", "leased"}}

\* delete(connectionStates): the next generation counts from zero again.
StateDropped(r) ==
  /\ epoch' = [epoch EXCEPT ![r] = 0]
  /\ temporary' = [temporary EXCEPT ![r] = FALSE]
  /\ retained' = [retained EXCEPT ![r] = FALSE]
  /\ leases' = [leases EXCEPT ![r] = [e \in Epochs |-> 0]]
  /\ renumbered' = IF Leasing(r) = {} THEN renumbered ELSE renumbered \cup {r}

Detach(r) ==
  /\ StateDropped(r) /\ Close(installed[r])
  /\ installed' = [installed EXCEPT ![r] = 0]
  /\ UNCHANGED <<current, lifecycle, made, dialled, lease, held, wanted>>

\* By the user: the panel, /mcp disconnect, the first half of a reconnect.
Disconnect == Fault /\ Detach(current) /\ UNCHANGED <<configured, at, on>>

\* By a subagent whose run ends: ConnectServers' cleanup.
Cleanup(p) == at[p] = "using" /\ Detach(on[p]) /\ Rest(p) /\ UNCHANGED <<configured, faults>>

RemoveServer ==
  /\ configured[current] /\ Fault /\ Detach(current)
  /\ configured' = [configured EXCEPT ![current] = FALSE] /\ UNCHANGED <<at, on>>

\* No settings file could be written: the entry is gone and nothing closes its Client.
RemoveFails ==
  LET r == current IN
  /\ configured[r] /\ installed[r] # 0 /\ epoch[r] < BoundEpoch /\ Fault
  /\ installed' = [installed EXCEPT ![r] = 0] /\ epoch' = [epoch EXCEPT ![r] = @ + 1]
  /\ UNCHANGED <<current, configured, temporary, retained, leases, lifecycle, client, made,
                 proc, hist>>

AddServer ==
  /\ ~configured[current] /\ configured' = [configured EXCEPT ![current] = TRUE]
  /\ UNCHANGED <<current, entry, lifecycle, client, made, faults, proc, hist>>

\* A connect of the user's is over once it is reported.
Leave(p) ==
  /\ at[p] = "using" /\ Rest(p)
  /\ UNCHANGED <<current, configured, entry, lifecycle, client, made, faults, dialled,
                 lease, held, hist>>

\* Reload finds the config gone: the Client goes, its state stays.
ReloadWithout ==
  LET r == current IN
  /\ configured[r] /\ Fault /\ configured' = [configured EXCEPT ![r] = FALSE]
  /\ Close(installed[r]) /\ installed' = [installed EXCEPT ![r] = 0]
  /\ UNCHANGED <<current, epoch, temporary, retained, leases, lifecycle, made, proc, hist>>

Adoptable(r, same) == same /\ IsConnected(installed[r])

\* Initialize: adoptLiveClients moves the Client if its config is the same and
\* it lives, and never the state that goes with it.
InitializeWith(has, same) ==
  LET r == current
      c == installed[r]
  IN
  /\ current < MaxRegistries /\ current' = current + 1
  /\ (same => has /\ configured[r])
  /\ configured' = [configured EXCEPT ![r + 1] = has]
  /\ IF Adoptable(r, same)
     THEN /\ installed' = [installed EXCEPT ![r] = 0, ![r + 1] = c]
          /\ wanted' = wanted \cup {c} /\ UNCHANGED client
     ELSE /\ installed' = [installed EXCEPT ![r] = 0]
          /\ Close(c) /\ UNCHANGED wanted
  /\ UNCHANGED <<epoch, temporary, retained, leases, lifecycle, made, faults, proc, renumbered>>

Initialize == \E has, same \in BOOLEAN : InitializeWith(has, same)

-----------------------------------------------------------------------------
\* The server side.

Dies(c) ==
  /\ client[c] = "live" /\ Fault
  /\ client' = [client EXCEPT ![c] = "dead"]
  /\ UNCHANGED <<current, configured, entry, lifecycle, made, proc, hist>>

Step(p) ==
  \/ ConnectFast(p) \/ ConnectDial(p) \/ ConnectDone(p) \/ DialFails(p) \/ Leave(p)
  \/ Cleanup(p) \/ Acquire(p) \/ LeaseDialled(p) \/ Count(p) \/ Release(p)

Next ==
  \/ \E p \in Procs : Step(p)
  \/ Disconnect \/ RemoveServer \/ RemoveFails \/ AddServer \/ ReloadWithout \/ Initialize
  \/ \E c \in Clients : Dies(c)

Spec == Init /\ [][Next]_vars
=============================================================================
