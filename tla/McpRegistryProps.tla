-------------------------- MODULE McpRegistryProps --------------------------
(* The properties of McpRegistry. *)
EXTENDS McpRegistry

\* Type invariant.
TypeOK ==
  /\ current \in Registries /\ configured \in [Registries -> BOOLEAN]
  /\ installed \in [Registries -> Clients \cup {0}] /\ epoch \in [Registries -> Epochs]
  /\ temporary \in [Registries -> BOOLEAN] /\ retained \in [Registries -> BOOLEAN]
  /\ leases \in [Registries -> [Epochs -> Nat]]
  /\ lifecycle \in [Registries -> Procs \cup {None}]
  /\ client \in [Clients -> {"none", "dialling", "live", "dead", "closed"}]
  /\ made \in 0 .. BoundClients /\ faults \in 0 .. BoundFaults
  /\ at \in [Procs -> {"idle", "connecting", "using", "leasing", "counting", "leased"}]
  /\ on \in [Procs -> Registries]
  /\ dialled \in [Procs -> Clients \cup {0}]
  /\ lease \in [Procs -> Epochs] /\ held \in [Procs -> Clients \cup {0}]
  /\ wanted \subseteq Clients /\ renumbered \subseteq Registries

Releases(p) == at[p] = "leased" /\ at'[p] = "idle"

\* p's release in registry r takes the connection down.
EndsIt(p, r) == Releases(p) /\ on[p] = r /\ installed[r] # 0 /\ installed'[r] = 0

Shared(p, r) == \E q \in Procs \ {p} : at[q] = "leased" /\ on[q] = r /\ held[q] = installed[r]

\* A lease given back takes the connection down only if no one else holds a
\* lease on it and no one connected it to keep: not the user while agents had
\* it on lease, not another agent over a server that died and was dialled
\* again.  (Not where the entry was dropped under a lease.)
ReleaseSparesOthers ==
  [][\A p \in Procs : \A r \in Registries \ renumbered :
       EndsIt(p, r) => ~Shared(p, r) /\ installed[r] \notin wanted]_vars

\* A connection made for a lease goes with the last lease: one that is still
\* there without a holder was asked for, or replaced one that was.
TemporaryGoes ==
  \A r \in Registries :
    installed[r] # 0 /\ installed[r] \notin wanted /\ ~retained[r] =>
      \E p \in Procs : on[p] = r /\ \/ at[p] = "counting"
                                    \/ at[p] = "leased" /\ held[p] = installed[r]

-----------------------------------------------------------------------------
(* What the code says of itself and does not keep. *)

\* releaseConnectionLease: "A stale cleanup from an older connection generation
\* cannot affect a replacement connection with the same name."
StaleReleaseIsHarmless ==
  [][\A p \in Procs : \A r \in Registries :
       EndsIt(p, r) => held[p] = installed[r]]_vars

\* ensureConnectedWhileLifecycleLocked: its lock is held "so duplicate
\* transports cannot be created".
NoDuplicateTransport ==
  \A c \in Clients : client[c] = "live" => \E r \in Registries : installed[r] = c

\* Disconnect: "The server is gone from the registry's point of view when this
\* returns".
AgentsLeaveTheUsers ==
  [][\A p \in Procs : at[p] = "using" /\ at'[p] = "idle" => installed' = installed]_vars
=============================================================================
