------------------------- MODULE McpRegistryProofs -------------------------
(***************************************************************************)
(* Machine-checked proofs, for any number of goroutines, registries,       *)
(* Clients and faults, of the properties MCMcpRegistry checks.             *)
(***************************************************************************)
EXTENDS McpRegistryProps, FiniteSetTheorems, TLAPS

-----------------------------------------------------------------------------
(* The inductive invariant. *)

Places == {"idle", "connecting", "using", "leasing", "counting", "leased"}
Lives == {"none", "dialling", "live", "dead", "closed"}

\* The type invariant in parts.
ProcType ==
  /\ at \in [Procs -> Places] /\ on \in [Procs -> Registries]
  /\ dialled \in [Procs -> Clients \cup {0}]
  /\ lease \in [Procs -> Epochs] /\ held \in [Procs -> Clients \cup {0}]
EntryType ==
  /\ installed \in [Registries -> Clients \cup {0}] /\ epoch \in [Registries -> Epochs]
  /\ leases \in [Registries -> [Epochs -> Nat]]
FlagType == temporary \in [Registries -> BOOLEAN] /\ retained \in [Registries -> BOOLEAN]
ClientType ==
  /\ client \in [Clients -> Lives] /\ made \in 0 .. BoundClients /\ faults \in 0 .. BoundFaults
  /\ wanted \subseteq Clients
RegistryType ==
  /\ current \in Registries /\ configured \in [Registries -> BOOLEAN]
  /\ lifecycle \in [Registries -> Procs \cup {None}] /\ renumbered \subseteq Registries

Up(c) == client[c] \in {"live", "dead", "closed"}
Dialling(p) == at[p] \in {"connecting", "leasing"}

\* Whoever dials or counts for a lease holds its registry's lifecycle lock.
LockInv == \A p \in Procs : at[p] \in {"leasing", "counting"} => lifecycle[on[p]] = p

\* Nobody works with a registry to come, which is as newEmptyRegistry makes it.
PresentInv == \A p \in Procs : at[p] # "idle" => on[p] <= current
FutureInv ==
  \A r \in Registries : r > current =>
    installed[r] = 0 /\ epoch[r] = 0 /\ leases[r][0] = 0 /\ ~temporary[r] /\ ~retained[r]

\* A Client that is being dialled is its goroutine's alone.
MadeInv == \A c \in Clients : c > made => client[c] = "none"
DialInv == \A p \in Procs : Dialling(p) => dialled[p] # 0 /\ client[dialled[p]] = "dialling"
RestInv == \A p \in Procs : at[p] \in {"idle", "using", "leased"} => dialled[p] = 0
OwnInv == \A p, q \in Procs : Dialling(p) /\ Dialling(q) /\ p # q => dialled[p] # dialled[q]

\* One that is installed, held or wanted has been up, and is installed once.
InstalledInv == \A r \in Registries : installed[r] # 0 => Up(installed[r])
HeldInv == \A p \in Procs : held[p] # 0 => Up(held[p])
WantedInv == \A c \in wanted : Up(c)
OnceInv == \A r, s \in Registries : installed[r] # 0 /\ installed[r] = installed[s] => r = s

\* A lease on the installed Client is one of the current generation, and later
\* generations have none.
EpochInv ==
  \A p \in Procs : at[p] = "leased" /\ held[p] # 0 /\ held[p] = installed[on[p]] => lease[p] = epoch[on[p]]
LaterInv == \A r \in Registries : \A e \in Epochs : e > epoch[r] => leases[r][e] = 0

\* A Client someone connected to keep is not a temporary connection.
KeepInv == \A r \in Registries : installed[r] \in wanted => retained[r] \/ ~temporary[r]

Unowned(r) == installed[r] # 0 /\ installed[r] \notin wanted /\ ~retained[r]
Counted(r) == temporary[r] /\ leases[r][epoch[r]] > 0

\* What a goroutine finds that is about to count a lease, on a Client it dialled
\* or on one it found there.
NewInv ==
  \A p \in Procs : at[p] = "counting" /\ dialled[p] # 0 =>
    installed[on[p]] \in {0, dialled[p]} /\ installed[on[p]] \notin wanted
FoundInv == \A p \in Procs : at[p] = "counting" /\ dialled[p] = 0 /\ Unowned(on[p]) => Counted(on[p])

\* A connection nobody asked for is temporary, and has a lease or gets its first.
OwnerInv ==
  \A r \in Registries : Unowned(r) => Counted(r) \/ \E p \in Procs : at[p] = "counting" /\ on[p] = r

Holders(r, e) == {p \in Procs : at[p] = "leased" /\ on[p] = r /\ lease[p] = e}
Keepers(r) == {p \in Procs : at[p] = "leased" /\ on[p] = r /\ held[p] = installed[r]}

\* The count of a generation is no less than its leases, unless the entry was
\* dropped under one, and never more than the leases on the installed Client.
LowerInv ==
  \A r \in Registries \ renumbered : \A e \in Epochs : Cardinality(Holders(r, e)) <= leases[r][e]
UpperInv ==
  \A r \in Registries : installed[r] # 0 => leases[r][epoch[r]] <= Cardinality(Keepers(r))

TypeInv == ProcType /\ EntryType /\ FlagType /\ ClientType /\ RegistryType
PlaceInv == LockInv /\ PresentInv /\ FutureInv
ClientInv == MadeInv /\ DialInv /\ RestInv /\ OwnInv /\ InstalledInv /\ HeldInv /\ WantedInv /\ OnceInv
LeaseInv == EpochInv /\ LaterInv /\ KeepInv /\ NewInv /\ FoundInv /\ OwnerInv
CountInv == LowerInv /\ UpperInv

IInv == TypeInv /\ PlaceInv /\ ClientInv /\ LeaseInv /\ CountInv

\* The parts are the type invariant.
LEMMA TypeParts == TypeInv <=> TypeOK
BY DEF TypeInv, TypeOK, ProcType, EntryType, FlagType, ClientType, RegistryType, Places, Lives

USE DEF entry, proc, hist

\* The ranges: what their bounds matter for.
LEMMA Ranges ==
  /\ 0 \notin Clients /\ 0 \in Epochs /\ 1 \in Registries /\ None \notin Procs
  /\ \A n \in Clients : n \in Nat /\ n # 0
  /\ \A n \in Registries : n \in Nat /\ n # 0
  /\ \A n \in Epochs : n \in Nat
BY McpRegistryAssumption DEF Clients, Epochs, Registries

\* What comes after one of a range that is not at its bound.
LEMMA Successors ==
  /\ \A n \in 0 .. BoundClients : n < BoundClients => n + 1 \in Clients
  /\ \A n \in Epochs : n < BoundEpoch => n + 1 \in Epochs
  /\ \A n \in Registries : n < MaxRegistries => n + 1 \in Registries
BY McpRegistryAssumption DEF Clients, Epochs, Registries

\* Sets of goroutines are finite.
LEMMA Finite == \A S \in SUBSET Procs : IsFiniteSet(S) /\ Cardinality(S) \in Nat
BY McpRegistryAssumption, FS_Subset, FS_CardinalityType

-----------------------------------------------------------------------------
(* One lemma per step: the invariant holds after it.  Those but the steps  *)
(* that count a lease or give it back leave all leases alone.              *)

LeasesStand ==
  \A p \in Procs :
    /\ at'[p] = "leased" <=> at[p] = "leased"
    /\ at[p] = "leased" => on'[p] = on[p] /\ lease'[p] = lease[p] /\ held'[p] = held[p]

\* Where the counts stand too, or there is no lease, none is too low.
LEMMA LowerStands ==
  ASSUME LowerInv, EntryType', LeasesStand,
         \A s \in Registries \ renumbered' :
           s \notin renumbered /\ (leases'[s] = leases[s] \/ \A p \in Procs : at[p] = "leased" => on[p] # s)
  PROVE  LowerInv'
<1> SUFFICES ASSUME NEW s \in Registries \ renumbered', NEW e \in Epochs
             PROVE  Cardinality(Holders(s, e)') <= leases'[s][e]
  BY DEF LowerInv
<1>1. Holders(s, e)' = Holders(s, e)
  BY DEF Holders, LeasesStand
<1>2. CASE leases'[s] = leases[s]
  BY <1>1, <1>2 DEF LowerInv
<1>3. CASE \A p \in Procs : at[p] = "leased" => on[p] # s
  <2>1. Holders(s, e) = {}
    BY <1>3 DEF Holders
  <2>2. leases'[s][e] \in Nat
    BY DEF EntryType
  <2>3. QED
    BY <1>1, <2>1, <2>2, FS_EmptySet
<1>4. QED
  BY <1>2, <1>3

\* Where the entry stands, or its generation has no count, none is too high.
LEMMA UpperStands ==
  ASSUME UpperInv, LeasesStand,
         \A s \in Registries : installed'[s] # 0 =>
           \/ installed'[s] = installed[s] /\ epoch'[s] = epoch[s] /\ leases'[s] = leases[s]
           \/ leases'[s][epoch'[s]] = 0
  PROVE  UpperInv'
<1> SUFFICES ASSUME NEW s \in Registries, installed'[s] # 0
             PROVE  leases'[s][epoch'[s]] <= Cardinality(Keepers(s)')
  BY DEF UpperInv
<1>1. CASE installed'[s] = installed[s] /\ epoch'[s] = epoch[s] /\ leases'[s] = leases[s]
  <2>1. Keepers(s)' = Keepers(s)
    BY <1>1 DEF Keepers, LeasesStand
  <2>2. QED
    BY <1>1, <2>1 DEF UpperInv
<1>2. CASE leases'[s][epoch'[s]] = 0
  <2>1. Keepers(s)' \in SUBSET Procs
    BY DEF Keepers
  <2>2. QED
    BY <1>2, <2>1, Finite
<1>3. QED
  BY <1>1, <1>2

\* A connect that finds the Client live keeps it.
LEMMA ConnectFastKeeps ==
  ASSUME IInv, NEW p \in Procs, ConnectFast(p)
  PROVE  IInv' /\ LeasesStand
<1> DEFINE r == current
<1>0. TypeInv /\ PlaceInv /\ ClientInv /\ LeaseInv
  BY DEF IInv
<1> USE DEF TypeInv, PlaceInv, ClientInv, LeaseInv
<1>1. UNCHANGED <<dialled, lease, held, installed, epoch, leases, client, made, faults, current, configured, lifecycle, renumbered>>
  BY DEF ConnectFast, Retain, IsConnected, Goto
<1>2. r \in Registries /\ at[p] = "idle" /\ lifecycle[r] = None /\ installed[r] # 0 /\ Up(installed[r])
  BY <1>0, Ranges, Successors DEF ConnectFast, Retain, IsConnected, Goto, ProcType, RegistryType, ClientType, DialInv, MadeInv, RestInv, Dialling, Up
<1>3. \A q \in Procs : at'[q] = IF q = p THEN "using" ELSE at[q]
  BY <1>0, <1>2, Ranges DEF ConnectFast, Retain, IsConnected, Goto, ProcType, RegistryType
<1>4. \A q \in Procs : on'[q] = IF q = p THEN r ELSE on[q]
  BY <1>0, <1>2, Ranges DEF ConnectFast, Retain, IsConnected, Goto, ProcType, RegistryType
<1>5. \A s \in Registries : temporary'[s] <=> IF s = r THEN FALSE ELSE temporary[s]
  BY <1>0, <1>2, Ranges DEF ConnectFast, Retain, IsConnected, Goto, FlagType, RegistryType
<1>6. \A s \in Registries : retained'[s] <=> IF s = r THEN TRUE ELSE retained[s]
  BY <1>0, <1>2, Ranges DEF ConnectFast, Retain, IsConnected, Goto, FlagType, RegistryType
<1>7. wanted' = wanted \cup {installed[r]}
  BY <1>0, <1>2, Ranges DEF ConnectFast, Retain, IsConnected, Goto, ClientType, EntryType, RegistryType
<1>8. TypeInv'
  <2>1. at' \in [Procs -> Places]
    BY <1>0, <1>2 DEF ConnectFast, Retain, IsConnected, Goto, ProcType, Places, RegistryType
  <2>2. on' \in [Procs -> Registries]
    BY <1>0, <1>2, Ranges DEF ConnectFast, Retain, IsConnected, Goto, ProcType, RegistryType
  <2>3. temporary' \in [Registries -> BOOLEAN]
    BY <1>0, <1>2, Ranges DEF ConnectFast, Retain, IsConnected, Goto, FlagType, RegistryType
  <2>4. retained' \in [Registries -> BOOLEAN]
    BY <1>0, <1>2, Ranges DEF ConnectFast, Retain, IsConnected, Goto, FlagType, RegistryType
  <2>5. wanted' \in SUBSET Clients
    BY <1>0, <1>2, Ranges DEF ConnectFast, Retain, IsConnected, Goto, ClientType, EntryType, RegistryType
  <2>6. QED
    BY <1>0, <1>1, <2>1, <2>2, <2>3, <2>4, <2>5 DEF ProcType, EntryType, FlagType, ClientType, RegistryType
<1>9. PlaceInv'
  <2>1. LockInv'
    BY <1>0, <1>1, Ranges, <1>2, <1>3, <1>4 DEF LockInv, ProcType, RegistryType
  <2>2. PresentInv'
    BY <1>0, <1>1, Ranges, <1>2, <1>3, <1>4 DEF PresentInv, ProcType, RegistryType
  <2>3. FutureInv'
    BY <1>0, <1>1, Ranges, <1>2, <1>5, <1>6 DEF FutureInv, PresentInv, EntryType, FlagType, RegistryType
  <2>4. QED
    BY <2>1, <2>2, <2>3
<1>10. ClientInv'
  <2>1. MadeInv'
    BY <1>0, <1>1, Ranges, <1>2 DEF MadeInv, DialInv, InstalledInv, Up, Dialling, ProcType, EntryType, ClientType
  <2>2. DialInv'
    BY <1>0, <1>1, Ranges, <1>2, <1>3 DEF DialInv, InstalledInv, MadeInv, OwnInv, Up, Dialling, ProcType, EntryType, ClientType
  <2>3. RestInv'
    BY <1>0, <1>1, Ranges, <1>2, <1>3 DEF RestInv, ProcType
  <2>4. OwnInv'
    BY <1>0, <1>1, Ranges, <1>2, <1>3 DEF OwnInv, DialInv, MadeInv, Dialling, ProcType, ClientType
  <2>5. InstalledInv'
    BY <1>0, <1>1, Ranges, <1>2 DEF InstalledInv, Up, ProcType, EntryType, ClientType
  <2>6. HeldInv'
    BY <1>0, <1>1, Ranges, <1>2 DEF HeldInv, InstalledInv, Up, ProcType
  <2>7. WantedInv'
    BY <1>0, <1>1, Ranges, <1>2, <1>7 DEF WantedInv, InstalledInv, Up, ClientType
  <2>8. OnceInv'
    BY <1>0, <1>1, Ranges, <1>2 DEF OnceInv, InstalledInv, DialInv, Up, Dialling, EntryType
  <2>9. QED
    BY <2>1, <2>2, <2>3, <2>4, <2>5, <2>6, <2>7, <2>8
<1>11. LeaseInv'
  <2>1. EpochInv'
    BY <1>0, <1>1, Ranges, <1>2, <1>3, <1>4 DEF EpochInv, HeldInv, DialInv, Dialling, Up, PresentInv, ProcType, EntryType, RegistryType
  <2>2. LaterInv'
    BY <1>0, <1>1, Ranges, <1>2 DEF LaterInv, EntryType
  <2>3. KeepInv'
    BY <1>0, <1>1, Ranges, <1>2, <1>7, <1>6, <1>5 DEF KeepInv, OnceInv, NewInv, EntryType, FlagType, ClientType
  <2>4. NewInv'
    BY <1>0, <1>1, Ranges, <1>2, <1>3, <1>4, <1>7 DEF NewInv, LockInv, OnceInv, PresentInv, ProcType, EntryType, ClientType, RegistryType
  <2>5. FoundInv'
    <3> SUFFICES ASSUME NEW q \in Procs, at'[q] = "counting", dialled[q] = 0, Unowned(on[q])'
                 PROVE  Counted(on[q])'
      BY <1>1 DEF FoundInv
    <3>1. at[q] = "counting" /\ on'[q] = on[q] /\ on[q] \in Registries /\ on[q] # r
      BY <1>0, <1>2, <1>3, <1>4, Ranges DEF LockInv, ProcType
    <3>2. Unowned(on[q])
      BY <1>1, <3>1, <1>6, <1>7 DEF Unowned
    <3>3. Counted(on[q])
      BY <1>0, <3>1, <3>2 DEF FoundInv
    <3>4. QED
      BY <1>1, <3>1, <3>3, <1>5 DEF Counted
  <2>6. OwnerInv'
    <3> SUFFICES ASSUME NEW s \in Registries, Unowned(s)', ~Counted(s)'
                 PROVE  \E q \in Procs : at'[q] = "counting" /\ on'[q] = s
      BY DEF OwnerInv
    <3>1. s # r /\ Unowned(s) /\ ~Counted(s)
      BY <1>0, <1>1, Ranges, <1>2, <1>3, <1>4, <1>7, <1>6, <1>5 DEF Unowned, Counted, EntryType, FlagType, ClientType
    <3>2. PICK q \in Procs : at[q] = "counting" /\ on[q] = s
      BY <1>0, <3>1 DEF OwnerInv
    <3>3. QED
      BY <3>1, <3>2, <1>0, <1>1, Ranges, <1>2, <1>3, <1>4, <1>7, <1>6, <1>5 DEF ProcType
  <2>7. QED
    BY <2>1, <2>2, <2>3, <2>4, <2>5, <2>6
<1>12. LeasesStand
  BY <1>0, <1>1, <1>2, <1>3, <1>4 DEF LeasesStand, Dialling, ProcType
<1>13. LowerInv'
  BY <1>0, <1>1, <1>12, <1>8, LowerStands DEF IInv, CountInv
<1>14. UpperInv'
  BY <1>1, <1>12, UpperStands DEF IInv, CountInv
<1>15. QED
  BY <1>8, <1>9, <1>10, <1>11, <1>12, <1>13, <1>14 DEF IInv, CountInv

\* A connect that dials makes a Client of its own.
LEMMA ConnectDialKeeps ==
  ASSUME IInv, NEW p \in Procs, ConnectDial(p)
  PROVE  IInv' /\ LeasesStand
<1> DEFINE r == current
<1>0. TypeInv /\ PlaceInv /\ ClientInv /\ LeaseInv
  BY DEF IInv
<1> USE DEF TypeInv, PlaceInv, ClientInv, LeaseInv
<1>1. UNCHANGED <<lease, held, installed, epoch, leases, temporary, retained, faults, wanted, current, configured, lifecycle, renumbered>>
  BY DEF ConnectDial, Dial, Goto
<1>2. r \in Registries /\ at[p] = "idle" /\ made < BoundClients /\ made + 1 \in Clients /\ client[made + 1] = "none"
  BY <1>0, Ranges, Successors DEF ConnectDial, Dial, Goto, ProcType, RegistryType, ClientType, DialInv, MadeInv, RestInv, Dialling, Up
<1>3. \A q \in Procs : at'[q] = IF q = p THEN "connecting" ELSE at[q]
  BY <1>0, <1>2, Ranges DEF ConnectDial, Dial, Goto, ProcType, RegistryType
<1>4. \A q \in Procs : on'[q] = IF q = p THEN r ELSE on[q]
  BY <1>0, <1>2, Ranges DEF ConnectDial, Dial, Goto, ProcType, RegistryType
<1>5. \A q \in Procs : dialled'[q] = IF q = p THEN made + 1 ELSE dialled[q]
  BY <1>0, <1>2, Ranges DEF ConnectDial, Dial, Goto, ProcType, RegistryType
<1>6. \A d \in Clients : client'[d] = IF d = made + 1 THEN "dialling" ELSE client[d]
  BY <1>0, <1>2, Ranges DEF ConnectDial, Dial, Goto, ClientType, RegistryType
<1>7. made' = made + 1
  BY <1>0, <1>2, Ranges DEF ConnectDial, Dial, Goto, ClientType, RegistryType
<1>8. \A d \in Clients : Up(d) => Up(d)'
  BY <1>0, <1>2, Ranges, <1>6 DEF Up, DialInv, InstalledInv, EntryType, ProcType, Dialling, MadeInv, ClientType
<1>9. TypeInv'
  <2>1. at' \in [Procs -> Places]
    BY <1>0, <1>2 DEF ConnectDial, Dial, Goto, ProcType, Places, RegistryType
  <2>2. on' \in [Procs -> Registries]
    BY <1>0, <1>2, Ranges DEF ConnectDial, Dial, Goto, ProcType, RegistryType
  <2>3. dialled' \in [Procs -> Clients \cup {0}]
    BY <1>0, <1>2, Ranges, Successors DEF ConnectDial, Dial, Goto, ProcType, RegistryType
  <2>4. client' \in [Clients -> Lives]
    BY <1>0, <1>2, Ranges, Successors DEF ConnectDial, Dial, Goto, ClientType, Lives, RegistryType
  <2>5. made' \in 0 .. BoundClients
    BY <1>0, <1>2, McpRegistryAssumption DEF ConnectDial, Dial, Goto, ClientType
  <2>6. QED
    BY <1>0, <1>1, <2>1, <2>2, <2>3, <2>4, <2>5 DEF ProcType, EntryType, FlagType, ClientType, RegistryType
<1>10. PlaceInv'
  <2>1. LockInv'
    BY <1>0, <1>1, Ranges, <1>2, <1>3, <1>4 DEF LockInv, ProcType, RegistryType
  <2>2. PresentInv'
    BY <1>0, <1>1, Ranges, <1>2, <1>3, <1>4 DEF PresentInv, ProcType, RegistryType
  <2>3. FutureInv'
    BY <1>0, <1>1, Ranges, <1>2 DEF FutureInv, PresentInv, EntryType, FlagType, RegistryType
  <2>4. QED
    BY <2>1, <2>2, <2>3
<1>11. ClientInv'
  <2>1. MadeInv'
    BY <1>0, <1>1, Ranges, <1>2, <1>7, <1>6, <1>5 DEF MadeInv, DialInv, InstalledInv, Up, Dialling, ProcType, EntryType, ClientType
  <2>2. DialInv'
    BY <1>0, <1>1, Ranges, <1>2, <1>3, <1>5, <1>6 DEF DialInv, InstalledInv, MadeInv, OwnInv, Up, Dialling, ProcType, EntryType, ClientType
  <2>3. RestInv'
    BY <1>0, <1>1, Ranges, <1>2, <1>3, <1>5 DEF RestInv, ProcType
  <2>4. OwnInv'
    BY <1>0, <1>1, Ranges, <1>2, <1>3, <1>5, <1>6, <1>7 DEF OwnInv, DialInv, MadeInv, Dialling, ProcType, ClientType
  <2>5. InstalledInv'
    BY <1>0, <1>1, Ranges, <1>2, <1>8, <1>5, <1>6 DEF InstalledInv, Up, ProcType, EntryType, ClientType
  <2>6. HeldInv'
    BY <1>0, <1>1, Ranges, <1>2, <1>8 DEF HeldInv, InstalledInv, Up, ProcType
  <2>7. WantedInv'
    BY <1>0, <1>1, Ranges, <1>2, <1>8, <1>6 DEF WantedInv, InstalledInv, Up, ClientType
  <2>8. OnceInv'
    BY <1>0, <1>1, Ranges, <1>2 DEF OnceInv, InstalledInv, DialInv, Up, Dialling, EntryType
  <2>9. QED
    BY <2>1, <2>2, <2>3, <2>4, <2>5, <2>6, <2>7, <2>8
<1>12. LeaseInv'
  <2>1. EpochInv'
    <3> SUFFICES ASSUME NEW q \in Procs, at'[q] = "leased", held[q] # 0, held[q] = installed[on'[q]]
                 PROVE  lease[q] = epoch[on'[q]]
      BY <1>1 DEF EpochInv
    <3>1. at[q] = "leased" /\ on'[q] = on[q]
      BY <1>3, <1>4
    <3>2. QED
      BY <1>0, <3>1 DEF EpochInv
  <2>2. LaterInv'
    BY <1>0, <1>1, Ranges, <1>2 DEF LaterInv, EntryType
  <2>3. KeepInv'
    BY <1>0, <1>1, Ranges, <1>2 DEF KeepInv, OnceInv, NewInv, EntryType, FlagType, ClientType
  <2>4. NewInv'
    BY <1>0, <1>1, Ranges, <1>2, <1>3, <1>4, <1>5 DEF NewInv, LockInv, OnceInv, PresentInv, ProcType, EntryType, ClientType, RegistryType
  <2>5. FoundInv'
    BY <1>0, <1>1, Ranges, <1>2, <1>3, <1>4, <1>5 DEF FoundInv, LockInv, PresentInv, OwnerInv, Unowned, Counted, ProcType, EntryType, FlagType, ClientType, RegistryType
  <2>6. OwnerInv'
    <3> SUFFICES ASSUME NEW s \in Registries, Unowned(s)', ~Counted(s)'
                 PROVE  \E q \in Procs : at'[q] = "counting" /\ on'[q] = s
      BY DEF OwnerInv
    <3>1. Unowned(s) /\ ~Counted(s)
      BY <1>1 DEF Unowned, Counted
    <3>2. PICK q \in Procs : at[q] = "counting" /\ on[q] = s
      BY <1>0, <3>1 DEF OwnerInv
    <3>3. QED
      BY <1>1, <1>2, <3>2, <1>3, <1>4
  <2>7. QED
    BY <2>1, <2>2, <2>3, <2>4, <2>5, <2>6
<1>13. LeasesStand
  BY <1>0, <1>1, <1>2, <1>3, <1>4 DEF LeasesStand, Dialling, ProcType
<1>14. LowerInv'
  BY <1>0, <1>1, <1>13, <1>9, LowerStands DEF IInv, CountInv
<1>15. UpperInv'
  BY <1>1, <1>13, UpperStands DEF IInv, CountInv
<1>16. QED
  BY <1>9, <1>10, <1>11, <1>12, <1>13, <1>14, <1>15 DEF IInv, CountInv

\* Its Client takes the entry, to keep.
LEMMA ConnectDoneKeeps ==
  ASSUME IInv, NEW p \in Procs, ConnectDone(p)
  PROVE  IInv' /\ LeasesStand
<1> DEFINE r == on[p]
<1>0. TypeInv /\ PlaceInv /\ ClientInv /\ LeaseInv
  BY DEF IInv
<1> USE DEF TypeInv, PlaceInv, ClientInv, LeaseInv
<1>1. UNCHANGED <<on, lease, held, leases, made, faults, current, configured, lifecycle, renumbered>>
  BY DEF ConnectDone, Install, Retain, Goto
<1>2. r \in Registries /\ at[p] = "connecting" /\ lifecycle[r] = None /\ dialled[p] \in Clients /\ epoch[r] < BoundEpoch
  BY <1>0, Ranges, Successors DEF ConnectDone, Install, Retain, Goto, ProcType, RegistryType, ClientType, DialInv, MadeInv, RestInv, Dialling, Up
<1>3. (\A s \in Registries : installed[s] # dialled[p]) /\ (\A q \in Procs : held[q] # dialled[p]) /\ dialled[p] \notin wanted
  BY <1>0, <1>2, Ranges DEF InstalledInv, HeldInv, WantedInv, DialInv, Dialling, Up, ProcType, EntryType
<1>4. \A q \in Procs : at'[q] = IF q = p THEN "using" ELSE at[q]
  BY <1>0, <1>2, Ranges DEF ConnectDone, Install, Retain, Goto, ProcType
<1>5. \A q \in Procs : dialled'[q] = IF q = p THEN 0 ELSE dialled[q]
  BY <1>0, <1>2, Ranges DEF ConnectDone, Install, Retain, Goto, ProcType
<1>6. \A s \in Registries : installed'[s] = IF s = r THEN dialled[p] ELSE installed[s]
  BY <1>0, <1>2, Ranges DEF ConnectDone, Install, Retain, Goto, EntryType, ProcType
<1>7. \A s \in Registries : epoch'[s] = IF s = r THEN epoch[r] + 1 ELSE epoch[s]
  BY <1>0, <1>2, Ranges DEF ConnectDone, Install, Retain, Goto, EntryType
<1>8. \A s \in Registries : temporary'[s] <=> IF s = r THEN FALSE ELSE temporary[s]
  BY <1>0, <1>2, Ranges DEF ConnectDone, Install, Retain, Goto, FlagType
<1>9. \A s \in Registries : retained'[s] <=> IF s = r THEN TRUE ELSE retained[s]
  BY <1>0, <1>2, Ranges DEF ConnectDone, Install, Retain, Goto, FlagType
<1>10. \A d \in Clients : client'[d] = IF d = dialled[p] THEN "live" ELSE client[d]
  BY <1>0, <1>2, Ranges DEF ConnectDone, Install, Retain, Goto, ClientType, ProcType
<1>11. wanted' = wanted \cup {dialled[p]}
  BY <1>0, <1>2, Ranges DEF ConnectDone, Install, Retain, Goto, ClientType, ProcType
<1>12. \A d \in Clients : Up(d) => Up(d)'
  BY <1>0, <1>2, Ranges, <1>10 DEF Up, DialInv, InstalledInv, EntryType, ProcType, Dialling, MadeInv, ClientType
<1>13. TypeInv'
  <2>1. at' \in [Procs -> Places]
    BY <1>0, <1>2 DEF ConnectDone, Install, Retain, Goto, ProcType, Places
  <2>2. dialled' \in [Procs -> Clients \cup {0}]
    BY <1>0, <1>2, Ranges DEF ConnectDone, Install, Retain, Goto, ProcType
  <2>3. installed' \in [Registries -> Clients \cup {0}]
    BY <1>0, <1>2, Ranges DEF ConnectDone, Install, Retain, Goto, EntryType, ProcType
  <2>4. epoch' \in [Registries -> Epochs]
    BY <1>0, <1>2, Ranges, Successors DEF ConnectDone, Install, Retain, Goto, EntryType
  <2>5. temporary' \in [Registries -> BOOLEAN]
    BY <1>0, <1>2, Ranges DEF ConnectDone, Install, Retain, Goto, FlagType
  <2>6. retained' \in [Registries -> BOOLEAN]
    BY <1>0, <1>2, Ranges DEF ConnectDone, Install, Retain, Goto, FlagType
  <2>7. client' \in [Clients -> Lives]
    BY <1>0, <1>2, Ranges DEF ConnectDone, Install, Retain, Goto, ClientType, Lives, ProcType
  <2>8. wanted' \in SUBSET Clients
    BY <1>0, <1>2, Ranges DEF ConnectDone, Install, Retain, Goto, ClientType, ProcType
  <2>9. QED
    BY <1>0, <1>1, <2>1, <2>2, <2>3, <2>4, <2>5, <2>6, <2>7, <2>8 DEF ProcType, EntryType, FlagType, ClientType, RegistryType
<1>14. PlaceInv'
  <2>1. LockInv'
    BY <1>0, <1>1, Ranges, <1>2, <1>4, <1>3 DEF LockInv, ProcType, RegistryType
  <2>2. PresentInv'
    BY <1>0, <1>1, Ranges, <1>2, <1>4, <1>3 DEF PresentInv, ProcType, RegistryType
  <2>3. FutureInv'
    BY <1>0, <1>1, Ranges, <1>2, <1>6, <1>7, <1>8, <1>9, <1>3 DEF FutureInv, PresentInv, EntryType, FlagType, RegistryType
  <2>4. QED
    BY <2>1, <2>2, <2>3
<1>15. ClientInv'
  <2>1. MadeInv'
    BY <1>0, <1>1, Ranges, <1>2, <1>10, <1>5, <1>6, <1>3 DEF MadeInv, DialInv, InstalledInv, Up, Dialling, ProcType, EntryType, ClientType
  <2>2. DialInv'
    BY <1>0, <1>1, Ranges, <1>2, <1>4, <1>5, <1>10, <1>6, <1>3 DEF DialInv, InstalledInv, MadeInv, OwnInv, Up, Dialling, ProcType, EntryType, ClientType
  <2>3. RestInv'
    BY <1>0, <1>1, Ranges, <1>2, <1>4, <1>5, <1>3 DEF RestInv, ProcType
  <2>4. OwnInv'
    BY <1>0, <1>1, Ranges, <1>2, <1>4, <1>5, <1>10, <1>3 DEF OwnInv, DialInv, MadeInv, Dialling, ProcType, ClientType
  <2>5. InstalledInv'
    <3> SUFFICES ASSUME NEW s \in Registries, installed'[s] # 0
                 PROVE  Up(installed[s])'
      BY DEF InstalledInv
    <3>1. CASE s = r
      BY <3>1, <1>2, <1>6, <1>10 DEF Up
    <3>2. CASE s # r
      BY <3>2, <1>0, <1>6, <1>12 DEF InstalledInv, EntryType
    <3>3. QED
      BY <3>1, <3>2
  <2>6. HeldInv'
    BY <1>0, <1>1, Ranges, <1>2, <1>12, <1>3 DEF HeldInv, InstalledInv, Up, ProcType
  <2>7. WantedInv'
    BY <1>0, <1>1, Ranges, <1>2, <1>11, <1>12, <1>10, <1>3 DEF WantedInv, InstalledInv, Up, ClientType
  <2>8. OnceInv'
    BY <1>0, <1>1, Ranges, <1>2, <1>6, <1>3 DEF OnceInv, InstalledInv, DialInv, Up, Dialling, EntryType
  <2>9. QED
    BY <2>1, <2>2, <2>3, <2>4, <2>5, <2>6, <2>7, <2>8
<1>16. LeaseInv'
  <2>1. EpochInv'
    <3> SUFFICES ASSUME NEW q \in Procs, at'[q] = "leased", held[q] # 0, held[q] = installed'[on[q]]
                 PROVE  lease[q] = epoch'[on[q]]
      BY <1>1 DEF EpochInv
    <3>1. at[q] = "leased" /\ on[q] \in Registries /\ on[q] # r
      BY <1>0, <1>1, Ranges, <1>2, <1>4, <1>6, <1>7, <1>3 DEF ProcType
    <3>2. QED
      BY <3>1, <1>0, <1>1, Ranges, <1>2, <1>4, <1>6, <1>7, <1>3 DEF EpochInv
  <2>2. LaterInv'
    BY <1>0, <1>1, Ranges, <1>2, <1>7, <1>3 DEF LaterInv, EntryType
  <2>3. KeepInv'
    BY <1>0, <1>1, Ranges, <1>2, <1>6, <1>11, <1>9, <1>8, <1>3 DEF KeepInv, OnceInv, NewInv, EntryType, FlagType, ClientType
  <2>4. NewInv'
    BY <1>0, <1>1, Ranges, <1>2, <1>4, <1>5, <1>6, <1>11, <1>3 DEF NewInv, LockInv, OnceInv, PresentInv, ProcType, EntryType, ClientType, RegistryType
  <2>5. FoundInv'
    BY <1>0, <1>1, Ranges, <1>2, <1>4, <1>5, <1>6, <1>11, <1>9, <1>8, <1>7, <1>3 DEF FoundInv, LockInv, PresentInv, OwnerInv, Unowned, Counted, ProcType, EntryType, FlagType, ClientType, RegistryType
  <2>6. OwnerInv'
    <3> SUFFICES ASSUME NEW s \in Registries, Unowned(s)', ~Counted(s)'
                 PROVE  \E q \in Procs : at'[q] = "counting" /\ on'[q] = s
      BY DEF OwnerInv
    <3>1. s # r /\ Unowned(s) /\ ~Counted(s)
      BY <1>0, <1>1, Ranges, <1>2, <1>4, <1>6, <1>11, <1>9, <1>8, <1>7, <1>3 DEF Unowned, Counted, EntryType, FlagType, ClientType
    <3>2. PICK q \in Procs : at[q] = "counting" /\ on[q] = s
      BY <1>0, <3>1 DEF OwnerInv
    <3>3. QED
      BY <3>1, <3>2, <1>0, <1>1, Ranges, <1>2, <1>4, <1>6, <1>11, <1>9, <1>8, <1>7, <1>3 DEF ProcType
  <2>7. QED
    BY <2>1, <2>2, <2>3, <2>4, <2>5, <2>6
<1>17. LeasesStand
  BY <1>0, <1>1, <1>2, <1>4 DEF LeasesStand, Dialling, ProcType
<1>18. LowerInv'
  BY <1>0, <1>1, <1>17, <1>13, LowerStands DEF IInv, CountInv
<1>19. UpperInv'
  <2>1. ASSUME NEW s \in Registries, installed'[s] # 0
        PROVE  \/ installed'[s] = installed[s] /\ epoch'[s] = epoch[s] /\ leases'[s] = leases[s]
               \/ leases'[s][epoch'[s]] = 0
    BY <1>0, <1>1, Ranges, Successors, <1>2, <1>6, <1>7, <1>3, <2>1 DEF LaterInv, FutureInv, EntryType, RegistryType
  <2>2. QED
    BY <2>1, <1>17, UpperStands DEF IInv, CountInv
<1>20. QED
  BY <1>13, <1>14, <1>15, <1>16, <1>17, <1>18, <1>19 DEF IInv, CountInv

\* A handshake that fails leaves the entry alone.
LEMMA DialFailsKeeps ==
  ASSUME IInv, NEW p \in Procs, DialFails(p)
  PROVE  IInv' /\ LeasesStand
<1> DEFINE r == on[p]
<1>0. TypeInv /\ PlaceInv /\ ClientInv /\ LeaseInv
  BY DEF IInv
<1> USE DEF TypeInv, PlaceInv, ClientInv, LeaseInv
<1>1. UNCHANGED <<lease, held, installed, epoch, leases, temporary, retained, made, faults, wanted, current, configured, renumbered>>
  BY DEF DialFails, Rest, Goto
<1>2. r \in Registries /\ Dialling(p) /\ dialled[p] \in Clients
  BY <1>0, Ranges, Successors DEF DialFails, Rest, Goto, ProcType, RegistryType, ClientType, DialInv, MadeInv, RestInv, Dialling, Up
<1>3. \A q \in Procs : at'[q] = IF q = p THEN "idle" ELSE at[q]
  BY <1>0, <1>2, Ranges DEF DialFails, Rest, Goto, ProcType
<1>4. \A q \in Procs : on'[q] = IF q = p THEN 1 ELSE on[q]
  BY <1>0, <1>2, Ranges DEF DialFails, Rest, Goto, ProcType
<1>5. \A q \in Procs : dialled'[q] = IF q = p THEN 0 ELSE dialled[q]
  BY <1>0, <1>2, Ranges DEF DialFails, Rest, Goto, ProcType
<1>6. \A d \in Clients : client'[d] = IF d = dialled[p] THEN "closed" ELSE client[d]
  BY <1>0, <1>2, Ranges DEF DialFails, Rest, Goto, ClientType, ProcType
<1>7. \A s \in Registries : lifecycle'[s] = IF s = r /\ at[p] = "leasing" THEN None ELSE lifecycle[s]
  BY <1>0, <1>2, Ranges DEF DialFails, Rest, Goto, RegistryType, ProcType
<1>8. \A d \in Clients : Up(d) => Up(d)'
  BY <1>0, <1>2, Ranges, <1>6 DEF Up, DialInv, InstalledInv, EntryType, ProcType, Dialling, MadeInv, ClientType
<1>9. TypeInv'
  <2>1. at' \in [Procs -> Places]
    BY <1>0, <1>2 DEF DialFails, Rest, Goto, ProcType, Places
  <2>2. on' \in [Procs -> Registries]
    BY <1>0, <1>2, Ranges DEF DialFails, Rest, Goto, ProcType
  <2>3. dialled' \in [Procs -> Clients \cup {0}]
    BY <1>0, <1>2, Ranges DEF DialFails, Rest, Goto, ProcType
  <2>4. client' \in [Clients -> Lives]
    BY <1>0, <1>2, Ranges DEF DialFails, Rest, Goto, ClientType, Lives, ProcType
  <2>5. lifecycle' \in [Registries -> Procs \cup {None}]
    BY <1>0, <1>2, Ranges DEF DialFails, Rest, Goto, RegistryType, ProcType
  <2>6. QED
    BY <1>0, <1>1, <2>1, <2>2, <2>3, <2>4, <2>5 DEF ProcType, EntryType, FlagType, ClientType, RegistryType
<1>10. PlaceInv'
  <2>1. LockInv'
    BY <1>0, <1>1, Ranges, <1>2, <1>3, <1>4, <1>7 DEF LockInv, ProcType, RegistryType
  <2>2. PresentInv'
    BY <1>0, <1>1, Ranges, <1>2, <1>3, <1>4 DEF PresentInv, ProcType, RegistryType
  <2>3. FutureInv'
    BY <1>0, <1>1, Ranges, <1>2 DEF FutureInv, PresentInv, EntryType, FlagType, RegistryType
  <2>4. QED
    BY <2>1, <2>2, <2>3
<1>11. ClientInv'
  <2>1. MadeInv'
    BY <1>0, <1>1, Ranges, <1>2, <1>6, <1>5 DEF MadeInv, DialInv, InstalledInv, Up, Dialling, ProcType, EntryType, ClientType
  <2>2. DialInv'
    BY <1>0, <1>1, Ranges, <1>2, <1>3, <1>5, <1>6 DEF DialInv, InstalledInv, MadeInv, OwnInv, Up, Dialling, ProcType, EntryType, ClientType
  <2>3. RestInv'
    BY <1>0, <1>1, Ranges, <1>2, <1>3, <1>5 DEF RestInv, ProcType
  <2>4. OwnInv'
    BY <1>0, <1>1, Ranges, <1>2, <1>3, <1>5, <1>6 DEF OwnInv, DialInv, MadeInv, Dialling, ProcType, ClientType
  <2>5. InstalledInv'
    BY <1>0, <1>1, Ranges, <1>2, <1>8, <1>5, <1>6 DEF InstalledInv, Up, ProcType, EntryType, ClientType
  <2>6. HeldInv'
    BY <1>0, <1>1, Ranges, <1>2, <1>8 DEF HeldInv, InstalledInv, Up, ProcType
  <2>7. WantedInv'
    BY <1>0, <1>1, Ranges, <1>2, <1>8, <1>6 DEF WantedInv, InstalledInv, Up, ClientType
  <2>8. OnceInv'
    BY <1>0, <1>1, Ranges, <1>2 DEF OnceInv, InstalledInv, DialInv, Up, Dialling, EntryType
  <2>9. QED
    BY <2>1, <2>2, <2>3, <2>4, <2>5, <2>6, <2>7, <2>8
<1>12. LeaseInv'
  <2>1. EpochInv'
    BY <1>0, <1>1, Ranges, <1>2, <1>3, <1>4 DEF EpochInv, HeldInv, DialInv, Dialling, Up, PresentInv, ProcType, EntryType, RegistryType
  <2>2. LaterInv'
    BY <1>0, <1>1, Ranges, <1>2 DEF LaterInv, EntryType
  <2>3. KeepInv'
    BY <1>0, <1>1, Ranges, <1>2 DEF KeepInv, OnceInv, NewInv, EntryType, FlagType, ClientType
  <2>4. NewInv'
    BY <1>0, <1>1, Ranges, <1>2, <1>3, <1>4, <1>5, <1>7 DEF NewInv, LockInv, OnceInv, PresentInv, ProcType, EntryType, ClientType, RegistryType
  <2>5. FoundInv'
    BY <1>0, <1>1, Ranges, <1>2, <1>3, <1>4, <1>5, <1>7 DEF FoundInv, LockInv, PresentInv, OwnerInv, Unowned, Counted, ProcType, EntryType, FlagType, ClientType, RegistryType
  <2>6. OwnerInv'
    <3> SUFFICES ASSUME NEW s \in Registries, Unowned(s)', ~Counted(s)'
                 PROVE  \E q \in Procs : at'[q] = "counting" /\ on'[q] = s
      BY DEF OwnerInv
    <3>1. Unowned(s) /\ ~Counted(s)
      BY <1>0, <1>1, Ranges, <1>2, <1>3, <1>4 DEF Unowned, Counted, EntryType, FlagType, ClientType
    <3>2. PICK q \in Procs : at[q] = "counting" /\ on[q] = s
      BY <1>0, <3>1 DEF OwnerInv
    <3>3. QED
      BY <3>1, <3>2, <1>0, <1>1, Ranges, <1>2, <1>3, <1>4 DEF Dialling, ProcType
  <2>7. QED
    BY <2>1, <2>2, <2>3, <2>4, <2>5, <2>6
<1>13. LeasesStand
  BY <1>0, <1>1, <1>2, <1>3, <1>4 DEF LeasesStand, Dialling, ProcType
<1>14. LowerInv'
  BY <1>0, <1>1, <1>13, <1>9, LowerStands DEF IInv, CountInv
<1>15. UpperInv'
  BY <1>1, <1>13, UpperStands DEF IInv, CountInv
<1>16. QED
  BY <1>9, <1>10, <1>11, <1>12, <1>13, <1>14, <1>15 DEF IInv, CountInv

\* A lease on a live Client.
LEMMA AcquireHereKeeps ==
  ASSUME IInv, NEW p \in Procs, Acquire(p), IsConnected(installed[current])
  PROVE  IInv' /\ LeasesStand
<1> DEFINE r == current
<1>0. TypeInv /\ PlaceInv /\ ClientInv /\ LeaseInv
  BY DEF IInv
<1> USE DEF TypeInv, PlaceInv, ClientInv, LeaseInv
<1>1. UNCHANGED <<dialled, lease, held, installed, epoch, leases, temporary, retained, client, made, faults, wanted, current, configured, renumbered>>
  BY DEF Acquire, Goto
<1>2. r \in Registries /\ at[p] = "idle" /\ lifecycle[r] = None /\ dialled[p] = 0
  BY <1>0, Ranges, Successors DEF Acquire, Goto, ProcType, RegistryType, ClientType, DialInv, MadeInv, RestInv, Dialling, Up
<1>3. \A q \in Procs : at'[q] = IF q = p THEN "counting" ELSE at[q]
  BY <1>0, <1>2, Ranges DEF Acquire, Goto, ProcType, RegistryType
<1>4. \A q \in Procs : on'[q] = IF q = p THEN r ELSE on[q]
  BY <1>0, <1>2, Ranges DEF Acquire, Goto, ProcType, RegistryType
<1>5. \A s \in Registries : lifecycle'[s] = IF s = r THEN p ELSE lifecycle[s]
  BY <1>0, <1>2, Ranges DEF Acquire, Goto, RegistryType
<1>6. TypeInv'
  <2>1. at' \in [Procs -> Places]
    BY <1>0, <1>2 DEF Acquire, Goto, ProcType, Places, RegistryType
  <2>2. on' \in [Procs -> Registries]
    BY <1>0, <1>2, Ranges DEF Acquire, Goto, ProcType, RegistryType
  <2>3. lifecycle' \in [Registries -> Procs \cup {None}]
    BY <1>0, <1>2 DEF Acquire, Goto, RegistryType
  <2>4. QED
    BY <1>0, <1>1, <2>1, <2>2, <2>3 DEF ProcType, EntryType, FlagType, ClientType, RegistryType
<1>7. PlaceInv'
  <2>1. LockInv'
    BY <1>0, <1>1, Ranges, <1>2, <1>3, <1>4, <1>5 DEF LockInv, ProcType, RegistryType
  <2>2. PresentInv'
    BY <1>0, <1>1, Ranges, <1>2, <1>3, <1>4 DEF PresentInv, ProcType, RegistryType
  <2>3. FutureInv'
    BY <1>0, <1>1, Ranges, <1>2 DEF FutureInv, PresentInv, EntryType, FlagType, RegistryType
  <2>4. QED
    BY <2>1, <2>2, <2>3
<1>8. ClientInv'
  <2>1. MadeInv'
    BY <1>0, <1>1, Ranges, <1>2 DEF MadeInv, DialInv, InstalledInv, Up, Dialling, ProcType, EntryType, ClientType
  <2>2. DialInv'
    BY <1>0, <1>1, Ranges, <1>2, <1>3 DEF DialInv, InstalledInv, MadeInv, OwnInv, Up, Dialling, ProcType, EntryType, ClientType
  <2>3. RestInv'
    BY <1>0, <1>1, Ranges, <1>2, <1>3 DEF RestInv, ProcType
  <2>4. OwnInv'
    BY <1>0, <1>1, Ranges, <1>2, <1>3 DEF OwnInv, DialInv, MadeInv, Dialling, ProcType, ClientType
  <2>5. InstalledInv'
    BY <1>0, <1>1, Ranges, <1>2 DEF InstalledInv, Up, ProcType, EntryType, ClientType
  <2>6. HeldInv'
    BY <1>0, <1>1, Ranges, <1>2 DEF HeldInv, InstalledInv, Up, ProcType
  <2>7. WantedInv'
    BY <1>0, <1>1, Ranges, <1>2 DEF WantedInv, InstalledInv, Up, ClientType
  <2>8. OnceInv'
    BY <1>0, <1>1, Ranges, <1>2 DEF OnceInv, InstalledInv, DialInv, Up, Dialling, EntryType
  <2>9. QED
    BY <2>1, <2>2, <2>3, <2>4, <2>5, <2>6, <2>7, <2>8
<1>9. LeaseInv'
  <2>1. EpochInv'
    <3> SUFFICES ASSUME NEW q \in Procs, at'[q] = "leased", held[q] # 0, held[q] = installed[on'[q]]
                 PROVE  lease[q] = epoch[on'[q]]
      BY <1>1 DEF EpochInv
    <3>1. at[q] = "leased" /\ on'[q] = on[q]
      BY <1>3, <1>4
    <3>2. QED
      BY <1>0, <3>1 DEF EpochInv
  <2>2. LaterInv'
    BY <1>0, <1>1, Ranges, <1>2 DEF LaterInv, EntryType
  <2>3. KeepInv'
    BY <1>0, <1>1, Ranges, <1>2 DEF KeepInv, OnceInv, NewInv, EntryType, FlagType, ClientType
  <2>4. NewInv'
    BY <1>0, <1>1, Ranges, <1>2, <1>3, <1>4, <1>5 DEF NewInv, LockInv, OnceInv, PresentInv, ProcType, EntryType, ClientType, RegistryType
  <2>5. FoundInv'
    BY <1>0, <1>1, Ranges, <1>2, <1>3, <1>4, <1>5 DEF FoundInv, LockInv, PresentInv, OwnerInv, Unowned, Counted, ProcType, EntryType, FlagType, ClientType, RegistryType
  <2>6. OwnerInv'
    <3> SUFFICES ASSUME NEW s \in Registries, Unowned(s)', ~Counted(s)'
                 PROVE  \E q \in Procs : at'[q] = "counting" /\ on'[q] = s
      BY DEF OwnerInv
    <3>1. Unowned(s) /\ ~Counted(s)
      BY <1>1 DEF Unowned, Counted
    <3>2. PICK q \in Procs : at[q] = "counting" /\ on[q] = s
      BY <1>0, <3>1 DEF OwnerInv
    <3>3. QED
      BY <1>1, <1>2, <3>2, <1>3, <1>4
  <2>7. QED
    BY <2>1, <2>2, <2>3, <2>4, <2>5, <2>6
<1>10. LeasesStand
  BY <1>0, <1>1, <1>2, <1>3, <1>4 DEF LeasesStand, Dialling, ProcType
<1>11. LowerInv'
  BY <1>0, <1>1, <1>10, <1>6, LowerStands DEF IInv, CountInv
<1>12. UpperInv'
  BY <1>1, <1>10, UpperStands DEF IInv, CountInv
<1>13. QED
  BY <1>6, <1>7, <1>8, <1>9, <1>10, <1>11, <1>12 DEF IInv, CountInv

\* A lease that dials.
LEMMA AcquireDialKeeps ==
  ASSUME IInv, NEW p \in Procs, Acquire(p), ~IsConnected(installed[current])
  PROVE  IInv' /\ LeasesStand
<1> DEFINE r == current
<1>0. TypeInv /\ PlaceInv /\ ClientInv /\ LeaseInv
  BY DEF IInv
<1> USE DEF TypeInv, PlaceInv, ClientInv, LeaseInv
<1>1. UNCHANGED <<lease, held, installed, epoch, leases, temporary, retained, faults, wanted, current, configured, renumbered>>
  BY DEF Acquire, Dial, Goto
<1>2. r \in Registries /\ at[p] = "idle" /\ lifecycle[r] = None /\ made < BoundClients /\ made + 1 \in Clients /\ client[made + 1] = "none"
  BY <1>0, Ranges, Successors DEF Acquire, Dial, Goto, ProcType, RegistryType, ClientType, DialInv, MadeInv, RestInv, Dialling, Up
<1>3. \A q \in Procs : at'[q] = IF q = p THEN "leasing" ELSE at[q]
  BY <1>0, <1>2, Ranges DEF Acquire, Dial, Goto, ProcType, RegistryType
<1>4. \A q \in Procs : on'[q] = IF q = p THEN r ELSE on[q]
  BY <1>0, <1>2, Ranges DEF Acquire, Dial, Goto, ProcType, RegistryType
<1>5. \A q \in Procs : dialled'[q] = IF q = p THEN made + 1 ELSE dialled[q]
  BY <1>0, <1>2, Ranges DEF Acquire, Dial, Goto, ProcType, RegistryType
<1>6. \A d \in Clients : client'[d] = IF d = made + 1 THEN "dialling" ELSE client[d]
  BY <1>0, <1>2, Ranges DEF Acquire, Dial, Goto, ClientType, RegistryType
<1>7. made' = made + 1
  BY <1>0, <1>2, Ranges DEF Acquire, Dial, Goto, ClientType, RegistryType
<1>8. \A s \in Registries : lifecycle'[s] = IF s = r THEN p ELSE lifecycle[s]
  BY <1>0, <1>2, Ranges DEF Acquire, Dial, Goto, RegistryType
<1>9. \A d \in Clients : Up(d) => Up(d)'
  BY <1>0, <1>2, Ranges, <1>6 DEF Up, DialInv, InstalledInv, EntryType, ProcType, Dialling, MadeInv, ClientType
<1>10. TypeInv'
  <2>1. at' \in [Procs -> Places]
    <3>1. at' = [at EXCEPT ![p] = "leasing"]
      BY DEF Acquire, Goto
    <3>2. QED
      BY <1>0, <3>1 DEF ProcType, Places
  <2>2. on' \in [Procs -> Registries]
    BY <1>0, <1>2, Ranges DEF Acquire, Dial, Goto, ProcType, RegistryType
  <2>3. dialled' \in [Procs -> Clients \cup {0}]
    BY <1>0, <1>2, Ranges, Successors DEF Acquire, Dial, Goto, ProcType, RegistryType
  <2>4. client' \in [Clients -> Lives]
    <3>1. client' = [client EXCEPT ![made + 1] = "dialling"]
      BY DEF Acquire, Dial
    <3>2. QED
      BY <1>0, <3>1 DEF ClientType, Lives
  <2>5. made' \in 0 .. BoundClients
    BY <1>0, <1>2, McpRegistryAssumption DEF Acquire, Dial, Goto, ClientType
  <2>6. lifecycle' \in [Registries -> Procs \cup {None}]
    BY <1>0, <1>2 DEF Acquire, Dial, Goto, RegistryType
  <2>7. QED
    BY <1>0, <1>1, <2>1, <2>2, <2>3, <2>4, <2>5, <2>6 DEF ProcType, EntryType, FlagType, ClientType, RegistryType
<1>11. PlaceInv'
  <2>1. LockInv'
    BY <1>0, <1>1, Ranges, <1>2, <1>3, <1>4, <1>8 DEF LockInv, ProcType, RegistryType
  <2>2. PresentInv'
    BY <1>0, <1>1, Ranges, <1>2, <1>3, <1>4 DEF PresentInv, ProcType, RegistryType
  <2>3. FutureInv'
    BY <1>0, <1>1, Ranges, <1>2 DEF FutureInv, PresentInv, EntryType, FlagType, RegistryType
  <2>4. QED
    BY <2>1, <2>2, <2>3
<1>12. ClientInv'
  <2>1. MadeInv'
    BY <1>0, <1>1, Ranges, <1>2, <1>7, <1>6, <1>5 DEF MadeInv, DialInv, InstalledInv, Up, Dialling, ProcType, EntryType, ClientType
  <2>2. DialInv'
    BY <1>0, <1>1, Ranges, <1>2, <1>3, <1>5, <1>6 DEF DialInv, InstalledInv, MadeInv, OwnInv, Up, Dialling, ProcType, EntryType, ClientType
  <2>3. RestInv'
    BY <1>0, <1>1, Ranges, <1>2, <1>3, <1>5 DEF RestInv, ProcType
  <2>4. OwnInv'
    BY <1>0, <1>1, Ranges, <1>2, <1>3, <1>5, <1>6, <1>7 DEF OwnInv, DialInv, MadeInv, Dialling, ProcType, ClientType
  <2>5. InstalledInv'
    BY <1>0, <1>1, Ranges, <1>2, <1>9, <1>5, <1>6 DEF InstalledInv, Up, ProcType, EntryType, ClientType
  <2>6. HeldInv'
    BY <1>0, <1>1, Ranges, <1>2, <1>9 DEF HeldInv, InstalledInv, Up, ProcType
  <2>7. WantedInv'
    BY <1>0, <1>1, Ranges, <1>2, <1>9, <1>6 DEF WantedInv, InstalledInv, Up, ClientType
  <2>8. OnceInv'
    BY <1>0, <1>1, Ranges, <1>2 DEF OnceInv, InstalledInv, DialInv, Up, Dialling, EntryType
  <2>9. QED
    BY <2>1, <2>2, <2>3, <2>4, <2>5, <2>6, <2>7, <2>8
<1>13. LeaseInv'
  <2>1. EpochInv'
    <3> SUFFICES ASSUME NEW q \in Procs, at'[q] = "leased", held[q] # 0, held[q] = installed[on'[q]]
                 PROVE  lease[q] = epoch[on'[q]]
      BY <1>1 DEF EpochInv
    <3>1. at[q] = "leased" /\ on'[q] = on[q]
      BY <1>3, <1>4
    <3>2. QED
      BY <1>0, <3>1 DEF EpochInv
  <2>2. LaterInv'
    BY <1>0, <1>1, Ranges, <1>2 DEF LaterInv, EntryType
  <2>3. KeepInv'
    BY <1>0, <1>1, Ranges, <1>2 DEF KeepInv, OnceInv, NewInv, EntryType, FlagType, ClientType
  <2>4. NewInv'
    BY <1>0, <1>1, Ranges, <1>2, <1>3, <1>4, <1>5, <1>8 DEF NewInv, LockInv, OnceInv, PresentInv, ProcType, EntryType, ClientType, RegistryType
  <2>5. FoundInv'
    BY <1>0, <1>1, Ranges, <1>2, <1>3, <1>4, <1>5, <1>8 DEF FoundInv, LockInv, PresentInv, OwnerInv, Unowned, Counted, ProcType, EntryType, FlagType, ClientType, RegistryType
  <2>6. OwnerInv'
    <3> SUFFICES ASSUME NEW s \in Registries, Unowned(s)', ~Counted(s)'
                 PROVE  \E q \in Procs : at'[q] = "counting" /\ on'[q] = s
      BY DEF OwnerInv
    <3>1. Unowned(s) /\ ~Counted(s)
      BY <1>1 DEF Unowned, Counted
    <3>2. PICK q \in Procs : at[q] = "counting" /\ on[q] = s
      BY <1>0, <3>1 DEF OwnerInv
    <3>3. QED
      BY <1>1, <1>2, <3>2, <1>3, <1>4
  <2>7. QED
    BY <2>1, <2>2, <2>3, <2>4, <2>5, <2>6
<1>14. LeasesStand
  BY <1>0, <1>1, <1>2, <1>3, <1>4 DEF LeasesStand, Dialling, ProcType
<1>15. LowerInv'
  BY <1>0, <1>1, <1>14, <1>10, LowerStands DEF IInv, CountInv
<1>16. UpperInv'
  BY <1>1, <1>14, UpperStands DEF IInv, CountInv
<1>17. QED
  BY <1>10, <1>11, <1>12, <1>13, <1>14, <1>15, <1>16 DEF IInv, CountInv

\* Its Client takes the entry and waits to be counted.
LEMMA LeaseDialledKeeps ==
  ASSUME IInv, NEW p \in Procs, LeaseDialled(p)
  PROVE  IInv' /\ LeasesStand
<1> DEFINE r == on[p]
<1>0. TypeInv /\ PlaceInv /\ ClientInv /\ LeaseInv
  BY DEF IInv
<1> USE DEF TypeInv, PlaceInv, ClientInv, LeaseInv
<1>1. UNCHANGED <<on, dialled, lease, held, leases, temporary, retained, made, faults, wanted, current, configured, lifecycle, renumbered>>
  BY DEF LeaseDialled, Install, Goto
<1>2. r \in Registries /\ at[p] = "leasing" /\ dialled[p] \in Clients /\ epoch[r] < BoundEpoch
  BY <1>0, Ranges, Successors DEF LeaseDialled, Install, Goto, ProcType, RegistryType, ClientType, DialInv, MadeInv, RestInv, Dialling, Up
<1>3. (\A s \in Registries : installed[s] # dialled[p]) /\ (\A q \in Procs : held[q] # dialled[p]) /\ dialled[p] \notin wanted
  BY <1>0, <1>2, Ranges DEF InstalledInv, HeldInv, WantedInv, DialInv, Dialling, Up, ProcType, EntryType
<1>4. \A q \in Procs : at'[q] = IF q = p THEN "counting" ELSE at[q]
  BY <1>0, <1>2, Ranges DEF LeaseDialled, Install, Goto, ProcType
<1>5. \A s \in Registries : installed'[s] = IF s = r THEN dialled[p] ELSE installed[s]
  BY <1>0, <1>2, Ranges DEF LeaseDialled, Install, Goto, EntryType, ProcType
<1>6. \A s \in Registries : epoch'[s] = IF s = r THEN epoch[r] + 1 ELSE epoch[s]
  BY <1>0, <1>2, Ranges DEF LeaseDialled, Install, Goto, EntryType
<1>7. \A d \in Clients : client'[d] = IF d = dialled[p] THEN "live" ELSE client[d]
  BY <1>0, <1>2, Ranges DEF LeaseDialled, Install, Goto, ClientType, ProcType
<1>8. \A d \in Clients : Up(d) => Up(d)'
  BY <1>0, <1>2, Ranges, <1>7 DEF Up, DialInv, InstalledInv, EntryType, ProcType, Dialling, MadeInv, ClientType
<1>9. TypeInv'
  <2>1. at' \in [Procs -> Places]
    BY <1>0, <1>2 DEF LeaseDialled, Install, Goto, ProcType, Places
  <2>2. installed' \in [Registries -> Clients \cup {0}]
    BY <1>0, <1>2, Ranges DEF LeaseDialled, Install, Goto, EntryType, ProcType
  <2>3. epoch' \in [Registries -> Epochs]
    BY <1>0, <1>2, Ranges, Successors DEF LeaseDialled, Install, Goto, EntryType
  <2>4. client' \in [Clients -> Lives]
    BY <1>0, <1>2, Ranges DEF LeaseDialled, Install, Goto, ClientType, Lives, ProcType
  <2>5. QED
    BY <1>0, <1>1, <2>1, <2>2, <2>3, <2>4 DEF ProcType, EntryType, FlagType, ClientType, RegistryType
<1>10. PlaceInv'
  <2>1. LockInv'
    BY <1>0, <1>1, Ranges, <1>2, <1>4, <1>3 DEF LockInv, ProcType, RegistryType
  <2>2. PresentInv'
    BY <1>0, <1>1, Ranges, <1>2, <1>4, <1>3 DEF PresentInv, ProcType, RegistryType
  <2>3. FutureInv'
    BY <1>0, <1>1, Ranges, <1>2, <1>5, <1>6, <1>3 DEF FutureInv, PresentInv, EntryType, FlagType, RegistryType
  <2>4. QED
    BY <2>1, <2>2, <2>3
<1>11. ClientInv'
  <2>1. MadeInv'
    BY <1>0, <1>1, Ranges, <1>2, <1>7, <1>5, <1>3 DEF MadeInv, DialInv, InstalledInv, Up, Dialling, ProcType, EntryType, ClientType
  <2>2. DialInv'
    BY <1>0, <1>1, Ranges, <1>2, <1>4, <1>7, <1>5, <1>3 DEF DialInv, InstalledInv, MadeInv, OwnInv, Up, Dialling, ProcType, EntryType, ClientType
  <2>3. RestInv'
    BY <1>0, <1>1, Ranges, <1>2, <1>4, <1>3 DEF RestInv, ProcType
  <2>4. OwnInv'
    BY <1>0, <1>1, Ranges, <1>2, <1>4, <1>7, <1>3 DEF OwnInv, DialInv, MadeInv, Dialling, ProcType, ClientType
  <2>5. InstalledInv'
    <3> SUFFICES ASSUME NEW s \in Registries, installed'[s] # 0
                 PROVE  Up(installed[s])'
      BY DEF InstalledInv
    <3>1. CASE s = r
      BY <3>1, <1>2, <1>5, <1>7 DEF Up
    <3>2. CASE s # r
      BY <3>2, <1>0, <1>5, <1>8 DEF InstalledInv, EntryType
    <3>3. QED
      BY <3>1, <3>2
  <2>6. HeldInv'
    BY <1>0, <1>1, Ranges, <1>2, <1>8, <1>3 DEF HeldInv, InstalledInv, Up, ProcType
  <2>7. WantedInv'
    BY <1>0, <1>1, Ranges, <1>2, <1>8, <1>7, <1>3 DEF WantedInv, InstalledInv, Up, ClientType
  <2>8. OnceInv'
    BY <1>0, <1>1, Ranges, <1>2, <1>5, <1>3 DEF OnceInv, InstalledInv, DialInv, Up, Dialling, EntryType
  <2>9. QED
    BY <2>1, <2>2, <2>3, <2>4, <2>5, <2>6, <2>7, <2>8
<1>12. LeaseInv'
  <2>1. EpochInv'
    BY <1>0, <1>1, Ranges, <1>2, <1>4, <1>5, <1>6, <1>3 DEF EpochInv, HeldInv, DialInv, Dialling, Up, PresentInv, ProcType, EntryType, RegistryType
  <2>2. LaterInv'
    BY <1>0, <1>1, Ranges, <1>2, <1>6, <1>3 DEF LaterInv, EntryType
  <2>3. KeepInv'
    BY <1>0, <1>1, Ranges, <1>2, <1>5, <1>3 DEF KeepInv, OnceInv, NewInv, EntryType, FlagType, ClientType
  <2>4. NewInv'
    BY <1>0, <1>1, Ranges, <1>2, <1>4, <1>5, <1>3 DEF NewInv, LockInv, OnceInv, PresentInv, ProcType, EntryType, ClientType, RegistryType
  <2>5. FoundInv'
    <3> SUFFICES ASSUME NEW q \in Procs, at'[q] = "counting", dialled'[q] = 0, Unowned(on[q])'
                 PROVE  Counted(on[q])'
      BY DEF FoundInv
    <3>1. q # p /\ at[q] = "counting" /\ on'[q] = on[q] /\ on[q] \in Registries /\ on[q] # r
      BY <1>0, <1>1, Ranges, <1>2, <1>4, <1>5, <1>6, <1>3 DEF LockInv, ProcType
    <3>2. Unowned(on[q])
      BY <3>1, <1>0, <1>1, Ranges, <1>2, <1>4, <1>5, <1>6, <1>3 DEF Unowned, EntryType
    <3>3. Counted(on[q])
      BY <1>0, <1>1, <3>1, <3>2 DEF FoundInv
    <3>4. QED
      BY <3>1, <3>3, <1>0, <1>1, Ranges, <1>2, <1>4, <1>5, <1>6, <1>3 DEF Counted, EntryType, FlagType
  <2>6. OwnerInv'
    <3> SUFFICES ASSUME NEW s \in Registries, Unowned(s)', ~Counted(s)'
                 PROVE  \E q \in Procs : at'[q] = "counting" /\ on'[q] = s
      BY DEF OwnerInv
    <3>1. CASE s = r
      BY <1>1, <3>1, <1>4
    <3>2. CASE s # r
      <4>1. Unowned(s) /\ ~Counted(s)
        BY <1>1, <3>2, <1>5, <1>6 DEF Unowned, Counted
      <4>2. PICK q \in Procs : at[q] = "counting" /\ on[q] = s
        BY <1>0, <4>1 DEF OwnerInv
      <4>3. QED
        BY <1>1, <4>2, <1>4
    <3>3. QED
      BY <3>1, <3>2
  <2>7. QED
    BY <2>1, <2>2, <2>3, <2>4, <2>5, <2>6
<1>13. LeasesStand
  BY <1>0, <1>1, <1>2, <1>4 DEF LeasesStand, Dialling, ProcType
<1>14. LowerInv'
  BY <1>0, <1>1, <1>13, <1>9, LowerStands DEF IInv, CountInv
<1>15. UpperInv'
  <2>1. ASSUME NEW s \in Registries, installed'[s] # 0
        PROVE  \/ installed'[s] = installed[s] /\ epoch'[s] = epoch[s] /\ leases'[s] = leases[s]
               \/ leases'[s][epoch'[s]] = 0
    BY <1>0, <1>1, Ranges, Successors, <1>2, <1>5, <1>6, <1>3, <2>1 DEF LaterInv, FutureInv, EntryType, RegistryType
  <2>2. QED
    BY <2>1, <1>13, UpperStands DEF IInv, CountInv
<1>16. QED
  BY <1>9, <1>10, <1>11, <1>12, <1>13, <1>14, <1>15 DEF IInv, CountInv

\* Leaving changes no entry.
LEMMA LeaveKeeps ==
  ASSUME IInv, NEW p \in Procs, Leave(p)
  PROVE  IInv' /\ LeasesStand
<1> DEFINE r == on[p]
<1>0. TypeInv /\ PlaceInv /\ ClientInv /\ LeaseInv
  BY DEF IInv
<1> USE DEF TypeInv, PlaceInv, ClientInv, LeaseInv
<1>1. UNCHANGED <<dialled, lease, held, installed, epoch, leases, temporary, retained, client, made, faults, wanted, current, configured, lifecycle, renumbered>>
  BY DEF Leave, Rest, Goto
<1>2. r \in Registries /\ at[p] = "using"
  BY <1>0, Ranges, Successors DEF Leave, Rest, Goto, ProcType, RegistryType, ClientType, DialInv, MadeInv, RestInv, Dialling, Up
<1>3. \A q \in Procs : at'[q] = IF q = p THEN "idle" ELSE at[q]
  BY <1>0, <1>2, Ranges DEF Leave, Rest, Goto, ProcType
<1>4. \A q \in Procs : on'[q] = IF q = p THEN 1 ELSE on[q]
  BY <1>0, <1>2, Ranges DEF Leave, Rest, Goto, ProcType
<1>5. TypeInv'
  <2>1. at' \in [Procs -> Places]
    BY <1>0, <1>2 DEF Leave, Rest, Goto, ProcType, Places
  <2>2. on' \in [Procs -> Registries]
    BY <1>0, <1>2, Ranges DEF Leave, Rest, Goto, ProcType
  <2>3. QED
    BY <1>0, <1>1, <2>1, <2>2 DEF ProcType, EntryType, FlagType, ClientType, RegistryType
<1>6. PlaceInv'
  <2>1. LockInv'
    BY <1>0, <1>1, Ranges, <1>2, <1>3, <1>4 DEF LockInv, ProcType, RegistryType
  <2>2. PresentInv'
    BY <1>0, <1>1, Ranges, <1>2, <1>3, <1>4 DEF PresentInv, ProcType, RegistryType
  <2>3. FutureInv'
    BY <1>0, <1>1, Ranges, <1>2 DEF FutureInv, PresentInv, EntryType, FlagType, RegistryType
  <2>4. QED
    BY <2>1, <2>2, <2>3
<1>7. ClientInv'
  <2>1. MadeInv'
    BY <1>0, <1>1, Ranges, <1>2 DEF MadeInv, DialInv, InstalledInv, Up, Dialling, ProcType, EntryType, ClientType
  <2>2. DialInv'
    BY <1>0, <1>1, Ranges, <1>2, <1>3 DEF DialInv, InstalledInv, MadeInv, OwnInv, Up, Dialling, ProcType, EntryType, ClientType
  <2>3. RestInv'
    BY <1>0, <1>1, Ranges, <1>2, <1>3 DEF RestInv, ProcType
  <2>4. OwnInv'
    BY <1>0, <1>1, Ranges, <1>2, <1>3 DEF OwnInv, DialInv, MadeInv, Dialling, ProcType, ClientType
  <2>5. InstalledInv'
    BY <1>0, <1>1, Ranges, <1>2 DEF InstalledInv, Up, ProcType, EntryType, ClientType
  <2>6. HeldInv'
    BY <1>0, <1>1, Ranges, <1>2 DEF HeldInv, InstalledInv, Up, ProcType
  <2>7. WantedInv'
    BY <1>0, <1>1, Ranges, <1>2 DEF WantedInv, InstalledInv, Up, ClientType
  <2>8. OnceInv'
    BY <1>0, <1>1, Ranges, <1>2 DEF OnceInv, InstalledInv, DialInv, Up, Dialling, EntryType
  <2>9. QED
    BY <2>1, <2>2, <2>3, <2>4, <2>5, <2>6, <2>7, <2>8
<1>8. LeaseInv'
  <2>1. EpochInv'
    BY <1>0, <1>1, Ranges, <1>2, <1>3, <1>4 DEF EpochInv, HeldInv, DialInv, Dialling, Up, PresentInv, ProcType, EntryType, RegistryType
  <2>2. LaterInv'
    BY <1>0, <1>1, Ranges, <1>2 DEF LaterInv, EntryType
  <2>3. KeepInv'
    BY <1>0, <1>1, Ranges, <1>2 DEF KeepInv, OnceInv, NewInv, EntryType, FlagType, ClientType
  <2>4. NewInv'
    BY <1>0, <1>1, Ranges, <1>2, <1>3, <1>4 DEF NewInv, LockInv, OnceInv, PresentInv, ProcType, EntryType, ClientType, RegistryType
  <2>5. FoundInv'
    BY <1>0, <1>1, Ranges, <1>2, <1>3, <1>4 DEF FoundInv, LockInv, PresentInv, OwnerInv, Unowned, Counted, ProcType, EntryType, FlagType, ClientType, RegistryType
  <2>6. OwnerInv'
    BY <1>0, <1>1, Ranges, <1>2, <1>3, <1>4 DEF OwnerInv, Unowned, Counted, ProcType, EntryType, FlagType, ClientType
  <2>7. QED
    BY <2>1, <2>2, <2>3, <2>4, <2>5, <2>6
<1>9. LeasesStand
  BY <1>0, <1>1, <1>2, <1>3, <1>4 DEF LeasesStand, Dialling, ProcType
<1>10. LowerInv'
  BY <1>0, <1>1, <1>9, <1>5, LowerStands DEF IInv, CountInv
<1>11. UpperInv'
  BY <1>1, <1>9, UpperStands DEF IInv, CountInv
<1>12. QED
  BY <1>5, <1>6, <1>7, <1>8, <1>9, <1>10, <1>11 DEF IInv, CountInv

\* An entry that is dropped is as new; who was using it may leave.
LEMMA DetachKeeps ==
  ASSUME IInv, NEW r \in Registries, Detach(r), ProcType', RegistryType', faults' \in 0 .. BoundFaults,
         \A q \in Procs : (at'[q] = at[q] /\ on'[q] = on[q]) \/ (at[q] = "using" /\ at'[q] = "idle")
  PROVE  IInv' /\ LeasesStand
<1>0. TypeInv /\ PlaceInv /\ ClientInv /\ LeaseInv
  BY DEF IInv
<1> USE DEF TypeInv, PlaceInv, ClientInv, LeaseInv
<1>1. UNCHANGED <<current, lifecycle, made, dialled, lease, held, wanted>>
  BY DEF Detach, StateDropped, Close
<1>2. \A s \in Registries : installed'[s] = IF s = r THEN 0 ELSE installed[s]
  BY <1>0, Ranges DEF Detach, StateDropped, Close, EntryType
<1>3. \A s \in Registries : epoch'[s] = IF s = r THEN 0 ELSE epoch[s]
  BY <1>0, Ranges DEF Detach, StateDropped, Close, EntryType
<1>4. \A s \in Registries : \A e \in Epochs : leases'[s][e] = IF s = r THEN 0 ELSE leases[s][e]
  BY <1>0, Ranges DEF Detach, StateDropped, Close, EntryType
<1>5. \A s \in Registries : temporary'[s] <=> IF s = r THEN FALSE ELSE temporary[s]
  BY <1>0, Ranges DEF Detach, StateDropped, Close, FlagType
<1>6. \A s \in Registries : retained'[s] <=> IF s = r THEN FALSE ELSE retained[s]
  BY <1>0, Ranges DEF Detach, StateDropped, Close, FlagType
<1>7. \A d \in Clients : client'[d] = IF d = installed[r] THEN "closed" ELSE client[d]
  BY <1>0, Ranges DEF Detach, StateDropped, Close, ClientType, EntryType
<1>8. \A d \in Clients : Up(d) => Up(d)'
  BY <1>0, Ranges, <1>7 DEF Up, DialInv, InstalledInv, EntryType, ProcType, Dialling, MadeInv, ClientType
<1>9. TypeInv'
  <2>1. installed' \in [Registries -> Clients \cup {0}]
    BY <1>0, Ranges DEF Detach, StateDropped, Close, EntryType
  <2>2. epoch' \in [Registries -> Epochs]
    BY <1>0, Ranges DEF Detach, StateDropped, Close, EntryType
  <2>3. leases' \in [Registries -> [Epochs -> Nat]]
    BY <1>0, Ranges DEF Detach, StateDropped, Close, EntryType
  <2>4. temporary' \in [Registries -> BOOLEAN]
    BY <1>0, Ranges DEF Detach, StateDropped, Close, FlagType
  <2>5. retained' \in [Registries -> BOOLEAN]
    BY <1>0, Ranges DEF Detach, StateDropped, Close, FlagType
  <2>6. client' \in [Clients -> Lives]
    BY <1>0, Ranges DEF Detach, StateDropped, Close, ClientType, Lives, EntryType
  <2>7. QED
    BY <1>0, <1>1, <2>1, <2>2, <2>3, <2>4, <2>5, <2>6 DEF ProcType, EntryType, FlagType, ClientType, RegistryType
<1>10. PlaceInv'
  <2>1. LockInv'
    BY <1>0, <1>1, Ranges DEF LockInv, ProcType, RegistryType
  <2>2. PresentInv'
    BY <1>0, <1>1, Ranges DEF PresentInv, ProcType, RegistryType
  <2>3. FutureInv'
    BY <1>0, <1>1, Ranges, <1>2, <1>3, <1>4, <1>5, <1>6 DEF FutureInv, PresentInv, EntryType, FlagType, RegistryType
  <2>4. QED
    BY <2>1, <2>2, <2>3
<1>11. ClientInv'
  <2>1. MadeInv'
    <3> SUFFICES ASSUME NEW d \in Clients, d > made
                 PROVE  client'[d] = "none"
      BY <1>1 DEF MadeInv
    <3>1. client[d] = "none"
      BY <1>0 DEF MadeInv
    <3>2. d # installed[r]
      BY <1>0, <3>1, Ranges DEF InstalledInv, Up
    <3>3. QED
      BY <3>1, <3>2, <1>7
  <2>2. DialInv'
    <3> SUFFICES ASSUME NEW q \in Procs, at[q] \in {"connecting", "leasing"}
                 PROVE  dialled[q] # 0 /\ client'[dialled[q]] = "dialling"
      BY <1>1 DEF DialInv, Dialling
    <3>1. dialled[q] \in Clients /\ client[dialled[q]] = "dialling"
      BY <1>0 DEF DialInv, Dialling, ProcType
    <3>2. dialled[q] # installed[r]
      BY <1>0, <3>1, Ranges DEF InstalledInv, Up
    <3>3. QED
      BY <3>1, <3>2, <1>7, Ranges
  <2>3. RestInv'
    BY <1>0, <1>1, Ranges DEF RestInv, ProcType
  <2>4. OwnInv'
    BY <1>0, <1>1, Ranges, <1>7 DEF OwnInv, DialInv, MadeInv, Dialling, ProcType, ClientType
  <2>5. InstalledInv'
    BY <1>0, <1>1, Ranges, <1>2, <1>8, <1>7 DEF InstalledInv, Up, ProcType, EntryType, ClientType
  <2>6. HeldInv'
    BY <1>0, <1>1, Ranges, <1>8 DEF HeldInv, InstalledInv, Up, ProcType
  <2>7. WantedInv'
    BY <1>0, <1>1, Ranges, <1>8, <1>7 DEF WantedInv, InstalledInv, Up, ClientType
  <2>8. OnceInv'
    BY <1>0, <1>1, Ranges, <1>2 DEF OnceInv, InstalledInv, DialInv, Up, Dialling, EntryType
  <2>9. QED
    BY <2>1, <2>2, <2>3, <2>4, <2>5, <2>6, <2>7, <2>8
<1>12. LeaseInv'
  <2>1. EpochInv'
    BY <1>0, <1>1, Ranges, <1>2, <1>3 DEF EpochInv, HeldInv, DialInv, Dialling, Up, PresentInv, ProcType, EntryType, RegistryType
  <2>2. LaterInv'
    BY <1>0, <1>1, Ranges, <1>3, <1>4 DEF LaterInv, EntryType
  <2>3. KeepInv'
    BY <1>0, <1>1, Ranges, <1>2, <1>6, <1>5 DEF KeepInv, OnceInv, NewInv, EntryType, FlagType, ClientType
  <2>4. NewInv'
    BY <1>0, <1>1, Ranges, <1>2 DEF NewInv, LockInv, OnceInv, PresentInv, ProcType, EntryType, ClientType, RegistryType
  <2>5. FoundInv'
    <3> SUFFICES ASSUME NEW q \in Procs, at'[q] = "counting", dialled[q] = 0, Unowned(on[q])'
                 PROVE  Counted(on[q])'
      BY <1>1 DEF FoundInv
    <3>1. at[q] = "counting" /\ on'[q] = on[q] /\ on[q] \in Registries
      BY <1>0 DEF ProcType
    <3>2. on[q] # r /\ Unowned(on[q])
      BY <1>1, <3>1, <1>2, <1>6 DEF Unowned
    <3>3. Counted(on[q])
      BY <1>0, <3>1, <3>2 DEF FoundInv
    <3>4. QED
      BY <1>0, <3>1, <3>2, <3>3, <1>5, <1>4, <1>3 DEF Counted, EntryType
  <2>6. OwnerInv'
    <3> SUFFICES ASSUME NEW s \in Registries, Unowned(s)', ~Counted(s)'
                 PROVE  \E q \in Procs : at'[q] = "counting" /\ on'[q] = s
      BY DEF OwnerInv
    <3>1. s # r /\ Unowned(s) /\ ~Counted(s)
      BY <1>0, <1>1, Ranges, <1>2, <1>6, <1>5, <1>4, <1>3 DEF Unowned, Counted, EntryType, FlagType, ClientType
    <3>2. PICK q \in Procs : at[q] = "counting" /\ on[q] = s
      BY <1>0, <3>1 DEF OwnerInv
    <3>3. QED
      BY <3>1, <3>2, <1>0, <1>1, Ranges, <1>2, <1>6, <1>5, <1>4, <1>3 DEF ProcType
  <2>7. QED
    BY <2>1, <2>2, <2>3, <2>4, <2>5, <2>6
<1>13. LeasesStand
  BY <1>0, <1>1 DEF LeasesStand, Dialling, ProcType
<1>14. LowerInv'
  <2>1. ASSUME NEW s \in Registries \ renumbered'
        PROVE  s \notin renumbered /\ (leases'[s] = leases[s] \/ \A p \in Procs : at[p] = "leased" => on[p] # s)
    BY <1>0 DEF Detach, StateDropped, Leasing, EntryType
  <2>2. QED
    BY <1>0, <2>1, <1>13, <1>9, LowerStands DEF IInv, CountInv
<1>15. UpperInv'
  <2>1. ASSUME NEW s \in Registries, installed'[s] # 0
        PROVE  \/ installed'[s] = installed[s] /\ epoch'[s] = epoch[s] /\ leases'[s] = leases[s]
               \/ leases'[s][epoch'[s]] = 0
    BY <1>0, <2>1 DEF Detach, StateDropped, EntryType
  <2>2. QED
    BY <2>1, <1>13, UpperStands DEF IInv, CountInv
<1>16. QED
  BY <1>9, <1>10, <1>11, <1>12, <1>13, <1>14, <1>15 DEF IInv, CountInv

\* Adding the config again touches no entry.
LEMMA AddServerKeeps ==
  ASSUME IInv, AddServer
  PROVE  IInv' /\ LeasesStand
<1>0. TypeInv /\ PlaceInv /\ ClientInv /\ LeaseInv
  BY DEF IInv
<1> USE DEF TypeInv, PlaceInv, ClientInv, LeaseInv
<1>1. UNCHANGED <<at, on, dialled, lease, held, installed, epoch, leases, temporary, retained, client, made, faults, wanted, current, lifecycle, renumbered>>
  BY DEF AddServer
<1>2. TypeInv'
  <2>1. configured' \in [Registries -> BOOLEAN]
    BY <1>0 DEF AddServer, RegistryType
  <2>2. QED
    BY <1>0, <1>1, <2>1 DEF ProcType, EntryType, FlagType, ClientType, RegistryType
<1>3. PlaceInv'
  <2>1. LockInv'
    BY <1>0, <1>1, Ranges DEF LockInv, ProcType, RegistryType
  <2>2. PresentInv'
    BY <1>0, <1>1, Ranges DEF PresentInv, ProcType, RegistryType
  <2>3. FutureInv'
    BY <1>0, <1>1, Ranges DEF FutureInv, PresentInv, EntryType, FlagType, RegistryType
  <2>4. QED
    BY <2>1, <2>2, <2>3
<1>4. ClientInv'
  <2>1. MadeInv'
    BY <1>0, <1>1, Ranges DEF MadeInv, DialInv, InstalledInv, Up, Dialling, ProcType, EntryType, ClientType
  <2>2. DialInv'
    BY <1>0, <1>1, Ranges DEF DialInv, InstalledInv, MadeInv, OwnInv, Up, Dialling, ProcType, EntryType, ClientType
  <2>3. RestInv'
    BY <1>0, <1>1, Ranges DEF RestInv, ProcType
  <2>4. OwnInv'
    BY <1>0, <1>1, Ranges DEF OwnInv, DialInv, MadeInv, Dialling, ProcType, ClientType
  <2>5. InstalledInv'
    BY <1>0, <1>1, Ranges DEF InstalledInv, Up, ProcType, EntryType, ClientType
  <2>6. HeldInv'
    BY <1>0, <1>1, Ranges DEF HeldInv, InstalledInv, Up, ProcType
  <2>7. WantedInv'
    BY <1>0, <1>1, Ranges DEF WantedInv, InstalledInv, Up, ClientType
  <2>8. OnceInv'
    BY <1>0, <1>1, Ranges DEF OnceInv, InstalledInv, DialInv, Up, Dialling, EntryType
  <2>9. QED
    BY <2>1, <2>2, <2>3, <2>4, <2>5, <2>6, <2>7, <2>8
<1>5. LeaseInv'
  <2>1. EpochInv'
    BY <1>0, <1>1, Ranges DEF EpochInv, HeldInv, DialInv, Dialling, Up, PresentInv, ProcType, EntryType, RegistryType
  <2>2. LaterInv'
    BY <1>0, <1>1, Ranges DEF LaterInv, EntryType
  <2>3. KeepInv'
    BY <1>0, <1>1, Ranges DEF KeepInv, OnceInv, NewInv, EntryType, FlagType, ClientType
  <2>4. NewInv'
    BY <1>0, <1>1, Ranges DEF NewInv, LockInv, OnceInv, PresentInv, ProcType, EntryType, ClientType, RegistryType
  <2>5. FoundInv'
    BY <1>0, <1>1, Ranges DEF FoundInv, LockInv, PresentInv, OwnerInv, Unowned, Counted, ProcType, EntryType, FlagType, ClientType, RegistryType
  <2>6. OwnerInv'
    BY <1>0, <1>1, Ranges DEF OwnerInv, Unowned, Counted, ProcType, EntryType, FlagType, ClientType
  <2>7. QED
    BY <2>1, <2>2, <2>3, <2>4, <2>5, <2>6
<1>6. LeasesStand
  BY <1>0, <1>1 DEF LeasesStand, Dialling, ProcType
<1>7. LowerInv'
  BY <1>0, <1>1, <1>6, <1>2, LowerStands DEF IInv, CountInv
<1>8. UpperInv'
  BY <1>1, <1>6, UpperStands DEF IInv, CountInv
<1>9. QED
  BY <1>2, <1>3, <1>4, <1>5, <1>6, <1>7, <1>8 DEF IInv, CountInv

\* A reload without the server drops the Client and leaves the state.
LEMMA ReloadWithoutKeeps ==
  ASSUME IInv, ReloadWithout
  PROVE  IInv' /\ LeasesStand
<1> DEFINE r == current
<1>0. TypeInv /\ PlaceInv /\ ClientInv /\ LeaseInv
  BY DEF IInv
<1> USE DEF TypeInv, PlaceInv, ClientInv, LeaseInv
<1>1. UNCHANGED <<at, on, dialled, lease, held, epoch, leases, temporary, retained, made, wanted, current, lifecycle, renumbered>>
  BY DEF ReloadWithout, Close, Fault
<1>2. r \in Registries /\ configured[r]
  BY <1>0, Ranges, Successors DEF ReloadWithout, Close, Fault, ProcType, RegistryType, ClientType, DialInv, MadeInv, RestInv, Dialling, Up
<1>3. \A s \in Registries : installed'[s] = IF s = r THEN 0 ELSE installed[s]
  BY <1>0, <1>2, Ranges DEF ReloadWithout, Close, Fault, EntryType, RegistryType
<1>4. \A d \in Clients : client'[d] = IF d = installed[r] THEN "closed" ELSE client[d]
  BY <1>0, <1>2, Ranges DEF ReloadWithout, Close, Fault, ClientType, EntryType, RegistryType
<1>5. \A d \in Clients : Up(d) => Up(d)'
  BY <1>0, <1>2, Ranges, <1>4 DEF Up, DialInv, InstalledInv, EntryType, ProcType, Dialling, MadeInv, ClientType
<1>6. TypeInv'
  <2>1. installed' \in [Registries -> Clients \cup {0}]
    BY <1>0, <1>2, Ranges DEF ReloadWithout, Close, Fault, EntryType, RegistryType
  <2>2. client' \in [Clients -> Lives]
    BY <1>0, <1>2, Ranges DEF ReloadWithout, Close, Fault, ClientType, Lives, EntryType, RegistryType
  <2>3. faults' \in 0 .. BoundFaults
    BY <1>0, <1>2, McpRegistryAssumption DEF ReloadWithout, Close, Fault, ClientType
  <2>4. configured' \in [Registries -> BOOLEAN]
    BY <1>0, <1>2 DEF ReloadWithout, Close, Fault, RegistryType
  <2>5. QED
    BY <1>0, <1>1, <2>1, <2>2, <2>3, <2>4 DEF ProcType, EntryType, FlagType, ClientType, RegistryType
<1>7. PlaceInv'
  <2>1. LockInv'
    BY <1>0, <1>1, Ranges, <1>2 DEF LockInv, ProcType, RegistryType
  <2>2. PresentInv'
    BY <1>0, <1>1, Ranges, <1>2 DEF PresentInv, ProcType, RegistryType
  <2>3. FutureInv'
    BY <1>0, <1>1, Ranges, <1>2, <1>3 DEF FutureInv, PresentInv, EntryType, FlagType, RegistryType
  <2>4. QED
    BY <2>1, <2>2, <2>3
<1>8. ClientInv'
  <2>1. MadeInv'
    BY <1>0, <1>1, Ranges, <1>2, <1>4, <1>3 DEF MadeInv, DialInv, InstalledInv, Up, Dialling, ProcType, EntryType, ClientType
  <2>2. DialInv'
    <3> SUFFICES ASSUME NEW q \in Procs, Dialling(q)
                 PROVE  dialled[q] # 0 /\ client'[dialled[q]] = "dialling"
      BY <1>1 DEF DialInv, Dialling
    <3>1. dialled[q] \in Clients /\ client[dialled[q]] = "dialling" /\ dialled[q] # installed[r]
      BY <1>0, <1>1, Ranges, <1>2, <1>4, <1>3 DEF DialInv, InstalledInv, Up, ProcType
    <3>2. QED
      BY <3>1, <1>0, <1>1, Ranges, <1>2, <1>4, <1>3
  <2>3. RestInv'
    BY <1>0, <1>1, Ranges, <1>2 DEF RestInv, ProcType
  <2>4. OwnInv'
    BY <1>0, <1>1, Ranges, <1>2, <1>4 DEF OwnInv, DialInv, MadeInv, Dialling, ProcType, ClientType
  <2>5. InstalledInv'
    BY <1>0, <1>1, Ranges, <1>2, <1>3, <1>5, <1>4 DEF InstalledInv, Up, ProcType, EntryType, ClientType
  <2>6. HeldInv'
    BY <1>0, <1>1, Ranges, <1>2, <1>5 DEF HeldInv, InstalledInv, Up, ProcType
  <2>7. WantedInv'
    BY <1>0, <1>1, Ranges, <1>2, <1>5, <1>4 DEF WantedInv, InstalledInv, Up, ClientType
  <2>8. OnceInv'
    BY <1>0, <1>1, Ranges, <1>2, <1>3 DEF OnceInv, InstalledInv, DialInv, Up, Dialling, EntryType
  <2>9. QED
    BY <2>1, <2>2, <2>3, <2>4, <2>5, <2>6, <2>7, <2>8
<1>9. LeaseInv'
  <2>1. EpochInv'
    BY <1>0, <1>1, Ranges, <1>2, <1>3 DEF EpochInv, HeldInv, DialInv, Dialling, Up, PresentInv, ProcType, EntryType, RegistryType
  <2>2. LaterInv'
    BY <1>0, <1>1, Ranges, <1>2 DEF LaterInv, EntryType
  <2>3. KeepInv'
    BY <1>0, <1>1, Ranges, <1>2, <1>3 DEF KeepInv, OnceInv, NewInv, EntryType, FlagType, ClientType
  <2>4. NewInv'
    BY <1>0, <1>1, Ranges, <1>2, <1>3 DEF NewInv, LockInv, OnceInv, PresentInv, ProcType, EntryType, ClientType, RegistryType
  <2>5. FoundInv'
    BY <1>0, <1>1, Ranges, <1>2, <1>3 DEF FoundInv, LockInv, PresentInv, OwnerInv, Unowned, Counted, ProcType, EntryType, FlagType, ClientType, RegistryType
  <2>6. OwnerInv'
    BY <1>0, <1>1, Ranges, <1>2, <1>3 DEF OwnerInv, Unowned, Counted, ProcType, EntryType, FlagType, ClientType
  <2>7. QED
    BY <2>1, <2>2, <2>3, <2>4, <2>5, <2>6
<1>10. LeasesStand
  BY <1>0, <1>1, <1>2 DEF LeasesStand, Dialling, ProcType
<1>11. LowerInv'
  BY <1>0, <1>1, <1>10, <1>6, LowerStands DEF IInv, CountInv
<1>12. UpperInv'
  <2>1. ASSUME NEW s \in Registries, installed'[s] # 0
        PROVE  \/ installed'[s] = installed[s] /\ epoch'[s] = epoch[s] /\ leases'[s] = leases[s]
               \/ leases'[s][epoch'[s]] = 0
    BY <1>0, <1>1, Ranges, Successors, <1>2, <1>3, <2>1 DEF LaterInv, FutureInv, EntryType, RegistryType
  <2>2. QED
    BY <2>1, <1>10, UpperStands DEF IInv, CountInv
<1>13. QED
  BY <1>6, <1>7, <1>8, <1>9, <1>10, <1>11, <1>12 DEF IInv, CountInv

\* A removal that fails drops the Client, unclosed, and counts a generation on.
LEMMA RemoveFailsKeeps ==
  ASSUME IInv, RemoveFails
  PROVE  IInv' /\ LeasesStand
<1> DEFINE r == current
<1>0. TypeInv /\ PlaceInv /\ ClientInv /\ LeaseInv
  BY DEF IInv
<1> USE DEF TypeInv, PlaceInv, ClientInv, LeaseInv
<1>1. UNCHANGED <<at, on, dialled, lease, held, leases, temporary, retained, client, made, wanted, current, configured, lifecycle, renumbered>>
  BY DEF RemoveFails, proc, hist
<1>2. r \in Registries /\ installed[r] # 0
  BY <1>0 DEF RemoveFails, RegistryType
<1>3. \A s \in Registries : installed'[s] = IF s = r THEN 0 ELSE installed[s]
  BY <1>0, <1>2 DEF RemoveFails, EntryType
<1>4. \A s \in Registries : epoch'[s] = IF s = r THEN epoch[r] + 1 ELSE epoch[s]
  BY <1>0, <1>2 DEF RemoveFails, EntryType
<1>5. epoch[r] \in Nat /\ epoch[r] + 1 \in Epochs
  BY <1>0, <1>2, McpRegistryAssumption DEF RemoveFails, EntryType, Epochs
<1>6. TypeInv'
  <2>1. installed' \in [Registries -> Clients \cup {0}] /\ epoch' \in [Registries -> Epochs]
    BY <1>0, <1>2, <1>5 DEF RemoveFails, EntryType
  <2>2. faults' \in 0 .. BoundFaults
    BY <1>0, McpRegistryAssumption DEF RemoveFails, Fault, ClientType
  <2>3. QED
    BY <1>0, <1>1, <2>1, <2>2 DEF ProcType, EntryType, FlagType, ClientType, RegistryType
<1>7. PlaceInv'
  <2>1. LockInv' /\ PresentInv'
    BY <1>0, <1>1 DEF LockInv, PresentInv
  <2>2. FutureInv'
    <3>1. ~(r > current)
      BY <1>2, Ranges
    <3>2. QED
      BY <1>0, <1>1, <1>3, <1>4, <3>1 DEF FutureInv
  <2>3. QED
    BY <2>1, <2>2
<1>8. ClientInv'
  <2>1. MadeInv' /\ DialInv' /\ RestInv' /\ OwnInv' /\ HeldInv' /\ WantedInv'
    BY <1>0, <1>1 DEF MadeInv, DialInv, RestInv, OwnInv, HeldInv, WantedInv, Dialling, Up
  <2>2. InstalledInv' /\ OnceInv'
    BY <1>0, <1>1, <1>3 DEF InstalledInv, OnceInv, Up
  <2>3. QED
    BY <2>1, <2>2
<1>9. LeaseInv'
  <2>1. EpochInv'
    BY <1>0, <1>1, <1>3, <1>4 DEF EpochInv, ProcType
  <2>2. LaterInv'
    <3> SUFFICES ASSUME NEW s \in Registries, NEW e \in Epochs, e > epoch'[s]
                 PROVE  leases[s][e] = 0
      BY <1>1 DEF LaterInv
    <3>1. e \in Nat /\ epoch[s] \in Nat
      BY <1>0, Ranges DEF EntryType
    <3>2. e > epoch[s]
      BY <1>4, <1>5, <3>1
    <3>3. QED
      BY <1>0, <3>2 DEF LaterInv
  <2>3. KeepInv'
    <3>1. 0 \notin wanted
      BY <1>0, Ranges DEF ClientType
    <3>2. QED
      BY <1>0, <1>1, <1>3, <3>1 DEF KeepInv
  <2>4. NewInv'
    <3>1. 0 \notin wanted
      BY <1>0, Ranges DEF ClientType
    <3>2. QED
      BY <1>0, <1>1, <1>3, <3>1 DEF NewInv, ProcType
  <2>5. FoundInv'
    BY <1>0, <1>1, <1>3, <1>4 DEF FoundInv, Unowned, Counted, ProcType
  <2>6. OwnerInv'
    BY <1>0, <1>1, <1>3, <1>4 DEF OwnerInv, Unowned, Counted
  <2>7. QED
    BY <2>1, <2>2, <2>3, <2>4, <2>5, <2>6
<1>10. LeasesStand
  BY <1>1 DEF LeasesStand
<1>11. LowerInv'
  BY <1>0, <1>1, <1>6, <1>10, LowerStands DEF IInv, CountInv
<1>12. UpperInv'
  <2>1. \A s \in Registries : installed'[s] # 0 =>
          installed'[s] = installed[s] /\ epoch'[s] = epoch[s] /\ leases'[s] = leases[s]
    BY <1>1, <1>3, <1>4
  <2>2. QED
    BY <1>10, <2>1, UpperStands DEF IInv, CountInv
<1>13. QED
  BY <1>6, <1>7, <1>8, <1>9, <1>10, <1>11, <1>12 DEF IInv, CountInv

\* The next registry takes the live Client.
LEMMA AdoptKeeps ==
  ASSUME IInv, NEW has \in BOOLEAN, NEW same \in BOOLEAN, InitializeWith(has, same), Adoptable(current, same)
  PROVE  IInv' /\ LeasesStand
<1> DEFINE r == current
<1>0. TypeInv /\ PlaceInv /\ ClientInv /\ LeaseInv
  BY DEF IInv
<1> USE DEF TypeInv, PlaceInv, ClientInv, LeaseInv
<1>1. UNCHANGED <<at, on, dialled, lease, held, epoch, leases, temporary, retained, client, made, faults, lifecycle, renumbered>>
  BY DEF InitializeWith, Adoptable, IsConnected
<1>2. r \in Registries /\ installed[r] # 0 /\ Up(installed[r]) /\ r + 1 \in Registries
  BY <1>0, Ranges, Successors DEF InitializeWith, Adoptable, IsConnected, ProcType, RegistryType, ClientType, DialInv, MadeInv, RestInv, Dialling, Up
<1>3. (\A q \in Procs : at[q] # "idle" => on[q] # r + 1) /\ installed[r + 1] = 0 /\ epoch[r + 1] = 0 /\ ~temporary[r + 1] /\ ~retained[r + 1] /\ r # r + 1
  BY <1>0, <1>2, Ranges DEF PresentInv, FutureInv, ProcType
<1>4. \A s \in Registries : installed'[s] = IF s = r THEN 0 ELSE IF s = r + 1 THEN installed[r] ELSE installed[s]
  BY <1>0, <1>2, Ranges DEF InitializeWith, Adoptable, IsConnected, EntryType, RegistryType
<1>5. wanted' = wanted \cup {installed[r]}
  BY <1>0, <1>2, Ranges DEF InitializeWith, Adoptable, IsConnected, ClientType, EntryType, RegistryType
<1>6. current' = r + 1
  BY <1>0, <1>2, Ranges DEF InitializeWith, Adoptable, IsConnected, RegistryType
<1>7. TypeInv'
  <2>1. installed' \in [Registries -> Clients \cup {0}]
    BY <1>0, <1>2, Ranges, Successors DEF InitializeWith, Adoptable, IsConnected, EntryType, RegistryType
  <2>2. wanted' \in SUBSET Clients
    BY <1>0, <1>2, Ranges DEF InitializeWith, Adoptable, IsConnected, ClientType, EntryType, RegistryType
  <2>3. current' \in Registries
    BY <1>0, <1>2, Ranges, Successors DEF InitializeWith, Adoptable, IsConnected, RegistryType
  <2>4. configured' \in [Registries -> BOOLEAN]
    BY <1>0, <1>2 DEF InitializeWith, Adoptable, IsConnected, RegistryType
  <2>5. QED
    BY <1>0, <1>1, <2>1, <2>2, <2>3, <2>4 DEF ProcType, EntryType, FlagType, ClientType, RegistryType
<1>8. PlaceInv'
  <2>1. LockInv'
    BY <1>0, <1>1, Ranges, <1>2, <1>3 DEF LockInv, ProcType, RegistryType
  <2>2. PresentInv'
    BY <1>0, <1>1, Ranges, <1>2, <1>6, <1>3 DEF PresentInv, ProcType, RegistryType
  <2>3. FutureInv'
    BY <1>0, <1>1, Ranges, <1>2, <1>6, <1>4, <1>3 DEF FutureInv, PresentInv, EntryType, FlagType, RegistryType
  <2>4. QED
    BY <2>1, <2>2, <2>3
<1>9. ClientInv'
  <2>1. MadeInv'
    BY <1>0, <1>1, Ranges, <1>2, <1>4, <1>3 DEF MadeInv, DialInv, InstalledInv, Up, Dialling, ProcType, EntryType, ClientType
  <2>2. DialInv'
    BY <1>0, <1>1, Ranges, <1>2, <1>4, <1>3 DEF DialInv, InstalledInv, MadeInv, OwnInv, Up, Dialling, ProcType, EntryType, ClientType
  <2>3. RestInv'
    BY <1>0, <1>1, Ranges, <1>2, <1>3 DEF RestInv, ProcType
  <2>4. OwnInv'
    BY <1>0, <1>1, Ranges, <1>2, <1>3 DEF OwnInv, DialInv, MadeInv, Dialling, ProcType, ClientType
  <2>5. InstalledInv'
    BY <1>0, <1>1, Ranges, <1>2, <1>4, <1>3 DEF InstalledInv, Up, ProcType, EntryType, ClientType
  <2>6. HeldInv'
    BY <1>0, <1>1, Ranges, <1>2, <1>3 DEF HeldInv, InstalledInv, Up, ProcType
  <2>7. WantedInv'
    BY <1>0, <1>1, Ranges, <1>2, <1>5, <1>3 DEF WantedInv, InstalledInv, Up, ClientType
  <2>8. OnceInv'
    BY <1>0, <1>1, Ranges, <1>2, <1>4, <1>3 DEF OnceInv, InstalledInv, DialInv, Up, Dialling, EntryType
  <2>9. QED
    BY <2>1, <2>2, <2>3, <2>4, <2>5, <2>6, <2>7, <2>8
<1>10. LeaseInv'
  <2>1. EpochInv'
    <3> SUFFICES ASSUME NEW q \in Procs, at[q] = "leased", held[q] # 0, held[q] = installed'[on[q]]
                 PROVE  lease[q] = epoch[on[q]]
      BY <1>1 DEF EpochInv
    <3>1. on[q] \in Registries /\ on[q] # r + 1 /\ on[q] # r
      BY <1>0, <1>1, Ranges, <1>2, <1>4, <1>6, <1>3 DEF ProcType
    <3>2. QED
      BY <3>1, <1>0, <1>1, Ranges, <1>2, <1>4, <1>6, <1>3 DEF EpochInv
  <2>2. LaterInv'
    BY <1>0, <1>1, Ranges, <1>2, <1>3 DEF LaterInv, EntryType
  <2>3. KeepInv'
    <3> SUFFICES ASSUME NEW s \in Registries, installed'[s] \in wanted', ~retained'[s], temporary'[s]
                 PROVE  FALSE
      BY DEF KeepInv
    <3>1. s # r /\ s # r + 1 /\ installed[s] \in wanted'
      BY <1>0, <1>1, Ranges, <1>2, <1>4, <1>5, <1>3 DEF EntryType, ClientType
    <3>2. installed[s] # installed[r]
      BY <3>1, <1>0, <1>1, Ranges, <1>2, <1>4, <1>5, <1>3 DEF OnceInv
    <3>3. QED
      BY <3>1, <3>2, <1>0, <1>1, Ranges, <1>2, <1>4, <1>5, <1>3 DEF KeepInv
  <2>4. NewInv'
    <3> SUFFICES ASSUME NEW q \in Procs, at[q] = "counting", dialled[q] # 0
                 PROVE  installed'[on[q]] \in {0, dialled[q]} /\ installed'[on[q]] \notin wanted'
      BY <1>1 DEF NewInv
    <3>1. on[q] \in Registries /\ on[q] # r + 1
      BY <1>0, <1>1, Ranges, <1>2, <1>4, <1>5, <1>3 DEF ProcType
    <3>2. CASE on[q] = r
      BY <3>2, <1>0, <1>1, Ranges, <1>2, <1>4, <1>5, <1>3 DEF EntryType, ClientType
    <3>3. CASE on[q] # r
      <4>1. installed'[on[q]] = installed[on[q]] /\ (installed[on[q]] = 0 \/ installed[on[q]] # installed[r])
        BY <3>1, <3>3, <1>0, <1>1, Ranges, <1>2, <1>4, <1>5, <1>3 DEF OnceInv
      <4>2. QED
        BY <4>1, <1>0, <1>1, Ranges, <1>2, <1>4, <1>5, <1>3 DEF NewInv, ClientType
    <3>4. QED
      BY <3>2, <3>3
  <2>5. FoundInv'
    BY <1>0, <1>1, Ranges, <1>2, <1>4, <1>5, <1>3 DEF FoundInv, LockInv, PresentInv, OwnerInv, Unowned, Counted, ProcType, EntryType, FlagType, ClientType, RegistryType
  <2>6. OwnerInv'
    BY <1>0, <1>1, Ranges, <1>2, <1>4, <1>5, <1>3 DEF OwnerInv, Unowned, Counted, ProcType, EntryType, FlagType, ClientType
  <2>7. QED
    BY <2>1, <2>2, <2>3, <2>4, <2>5, <2>6
<1>11. LeasesStand
  BY <1>0, <1>1, <1>2 DEF LeasesStand, Dialling, ProcType
<1>12. LowerInv'
  BY <1>0, <1>1, <1>11, <1>7, LowerStands DEF IInv, CountInv
<1>13. UpperInv'
  <2>1. ASSUME NEW s \in Registries, installed'[s] # 0
        PROVE  \/ installed'[s] = installed[s] /\ epoch'[s] = epoch[s] /\ leases'[s] = leases[s]
               \/ leases'[s][epoch'[s]] = 0
    BY <1>0, <1>1, Ranges, Successors, <1>2, <1>4, <1>3, <2>1 DEF LaterInv, FutureInv, EntryType, RegistryType
  <2>2. QED
    BY <2>1, <1>11, UpperStands DEF IInv, CountInv
<1>14. QED
  BY <1>7, <1>8, <1>9, <1>10, <1>11, <1>12, <1>13 DEF IInv, CountInv

\* The next registry takes nothing.
LEMMA ReplaceKeeps ==
  ASSUME IInv, NEW has \in BOOLEAN, NEW same \in BOOLEAN, InitializeWith(has, same), ~Adoptable(current, same)
  PROVE  IInv' /\ LeasesStand
<1> DEFINE r == current
<1>0. TypeInv /\ PlaceInv /\ ClientInv /\ LeaseInv
  BY DEF IInv
<1> USE DEF TypeInv, PlaceInv, ClientInv, LeaseInv
<1>1. UNCHANGED <<at, on, dialled, lease, held, epoch, leases, temporary, retained, made, faults, wanted, lifecycle, renumbered>>
  BY DEF InitializeWith, Close
<1>2. r \in Registries /\ r + 1 \in Registries
  BY <1>0, Ranges, Successors DEF InitializeWith, Close, ProcType, RegistryType, ClientType, DialInv, MadeInv, RestInv, Dialling, Up
<1>3. (\A q \in Procs : at[q] # "idle" => on[q] # r + 1) /\ installed[r + 1] = 0 /\ epoch[r + 1] = 0 /\ ~temporary[r + 1] /\ ~retained[r + 1] /\ r # r + 1
  BY <1>0, <1>2, Ranges DEF PresentInv, FutureInv, ProcType
<1>4. \A s \in Registries : installed'[s] = IF s = r THEN 0 ELSE installed[s]
  BY <1>0, <1>2, Ranges DEF InitializeWith, Close, EntryType, RegistryType
<1>5. \A d \in Clients : client'[d] = IF d = installed[r] THEN "closed" ELSE client[d]
  BY <1>0, <1>2, Ranges DEF InitializeWith, Close, ClientType, EntryType, RegistryType
<1>6. current' = r + 1
  BY <1>0, <1>2, Ranges DEF InitializeWith, Close, RegistryType
<1>7. \A d \in Clients : Up(d) => Up(d)'
  BY <1>0, <1>2, Ranges, <1>5 DEF Up, DialInv, InstalledInv, EntryType, ProcType, Dialling, MadeInv, ClientType
<1>8. TypeInv'
  <2>1. installed' \in [Registries -> Clients \cup {0}]
    BY <1>0, <1>2, Ranges DEF InitializeWith, Close, EntryType, RegistryType
  <2>2. client' \in [Clients -> Lives]
    BY <1>0, <1>2, Ranges DEF InitializeWith, Close, ClientType, Lives, EntryType, RegistryType
  <2>3. current' \in Registries
    BY <1>0, <1>2, Ranges, Successors DEF InitializeWith, Close, RegistryType
  <2>4. configured' \in [Registries -> BOOLEAN]
    BY <1>0, <1>2 DEF InitializeWith, Close, RegistryType
  <2>5. QED
    BY <1>0, <1>1, <2>1, <2>2, <2>3, <2>4 DEF ProcType, EntryType, FlagType, ClientType, RegistryType
<1>9. PlaceInv'
  <2>1. LockInv'
    BY <1>0, <1>1, Ranges, <1>2, <1>3 DEF LockInv, ProcType, RegistryType
  <2>2. PresentInv'
    BY <1>0, <1>1, Ranges, <1>2, <1>6, <1>3 DEF PresentInv, ProcType, RegistryType
  <2>3. FutureInv'
    BY <1>0, <1>1, Ranges, <1>2, <1>6, <1>4, <1>3 DEF FutureInv, PresentInv, EntryType, FlagType, RegistryType
  <2>4. QED
    BY <2>1, <2>2, <2>3
<1>10. ClientInv'
  <2>1. MadeInv'
    BY <1>0, <1>1, Ranges, <1>2, <1>5, <1>4, <1>3 DEF MadeInv, DialInv, InstalledInv, Up, Dialling, ProcType, EntryType, ClientType
  <2>2. DialInv'
    <3> SUFFICES ASSUME NEW q \in Procs, Dialling(q)'
                 PROVE  dialled[q] # 0 /\ client'[dialled[q]] = "dialling"
      BY <1>1 DEF DialInv, Dialling
    <3>1. Dialling(q) /\ dialled[q] \in Clients /\ client[dialled[q]] = "dialling"
      BY <1>0, <1>1 DEF DialInv, Dialling, ProcType
    <3>2. dialled[q] # installed[r]
      BY <1>0, <1>2, <3>1, Ranges DEF InstalledInv, Up
    <3>3. QED
      BY <3>1, <3>2, <1>5, Ranges
  <2>3. RestInv'
    BY <1>0, <1>1, Ranges, <1>2, <1>3 DEF RestInv, ProcType
  <2>4. OwnInv'
    BY <1>0, <1>1, Ranges, <1>2, <1>5, <1>3 DEF OwnInv, DialInv, MadeInv, Dialling, ProcType, ClientType
  <2>5. InstalledInv'
    BY <1>0, <1>1, Ranges, <1>2, <1>4, <1>7, <1>5, <1>3 DEF InstalledInv, Up, ProcType, EntryType, ClientType
  <2>6. HeldInv'
    BY <1>0, <1>1, Ranges, <1>2, <1>7, <1>3 DEF HeldInv, InstalledInv, Up, ProcType
  <2>7. WantedInv'
    BY <1>0, <1>1, Ranges, <1>2, <1>7, <1>5, <1>3 DEF WantedInv, InstalledInv, Up, ClientType
  <2>8. OnceInv'
    BY <1>0, <1>1, Ranges, <1>2, <1>4, <1>3 DEF OnceInv, InstalledInv, DialInv, Up, Dialling, EntryType
  <2>9. QED
    BY <2>1, <2>2, <2>3, <2>4, <2>5, <2>6, <2>7, <2>8
<1>11. LeaseInv'
  <2>1. EpochInv'
    BY <1>0, <1>1, Ranges, <1>2, <1>4, <1>6, <1>3 DEF EpochInv, HeldInv, DialInv, Dialling, Up, PresentInv, ProcType, EntryType, RegistryType
  <2>2. LaterInv'
    BY <1>0, <1>1, Ranges, <1>2, <1>3 DEF LaterInv, EntryType
  <2>3. KeepInv'
    BY <1>0, <1>1, Ranges, <1>2, <1>4, <1>3 DEF KeepInv, OnceInv, NewInv, EntryType, FlagType, ClientType
  <2>4. NewInv'
    BY <1>0, <1>1, Ranges, <1>2, <1>4, <1>3 DEF NewInv, LockInv, OnceInv, PresentInv, ProcType, EntryType, ClientType, RegistryType
  <2>5. FoundInv'
    BY <1>0, <1>1, Ranges, <1>2, <1>4, <1>3 DEF FoundInv, LockInv, PresentInv, OwnerInv, Unowned, Counted, ProcType, EntryType, FlagType, ClientType, RegistryType
  <2>6. OwnerInv'
    BY <1>0, <1>1, Ranges, <1>2, <1>4, <1>3 DEF OwnerInv, Unowned, Counted, ProcType, EntryType, FlagType, ClientType
  <2>7. QED
    BY <2>1, <2>2, <2>3, <2>4, <2>5, <2>6
<1>12. LeasesStand
  BY <1>0, <1>1, <1>2 DEF LeasesStand, Dialling, ProcType
<1>13. LowerInv'
  BY <1>0, <1>1, <1>12, <1>8, LowerStands DEF IInv, CountInv
<1>14. UpperInv'
  <2>1. ASSUME NEW s \in Registries, installed'[s] # 0
        PROVE  \/ installed'[s] = installed[s] /\ epoch'[s] = epoch[s] /\ leases'[s] = leases[s]
               \/ leases'[s][epoch'[s]] = 0
    BY <1>0, <1>1, Ranges, Successors, <1>2, <1>4, <1>3, <2>1 DEF LaterInv, FutureInv, EntryType, RegistryType
  <2>2. QED
    BY <2>1, <1>12, UpperStands DEF IInv, CountInv
<1>15. QED
  BY <1>8, <1>9, <1>10, <1>11, <1>12, <1>13, <1>14 DEF IInv, CountInv

\* A server that dies.
LEMMA DiesKeeps ==
  ASSUME IInv, NEW c \in Clients, Dies(c)
  PROVE  IInv' /\ LeasesStand
<1>0. TypeInv /\ PlaceInv /\ ClientInv /\ LeaseInv
  BY DEF IInv
<1> USE DEF TypeInv, PlaceInv, ClientInv, LeaseInv
<1>1. UNCHANGED <<at, on, dialled, lease, held, installed, epoch, leases, temporary, retained, made, wanted, current, configured, lifecycle, renumbered>>
  BY DEF Dies, Fault
<1>2. client[c] = "live"
  BY <1>0, Ranges, Successors DEF Dies, Fault, ProcType, RegistryType, ClientType, DialInv, MadeInv, RestInv, Dialling, Up
<1>3. \A d \in Clients : client'[d] = IF d = c THEN "dead" ELSE client[d]
  BY <1>0, <1>2, Ranges DEF Dies, Fault, ClientType
<1>4. \A d \in Clients : Up(d) => Up(d)'
  BY <1>0, <1>2, Ranges, <1>3 DEF Up, DialInv, InstalledInv, EntryType, ProcType, Dialling, MadeInv, ClientType
<1>5. TypeInv'
  <2>1. client' \in [Clients -> Lives]
    BY <1>0, <1>2 DEF Dies, Fault, ClientType, Lives
  <2>2. faults' \in 0 .. BoundFaults
    BY <1>0, <1>2, McpRegistryAssumption DEF Dies, Fault, ClientType
  <2>3. QED
    BY <1>0, <1>1, <2>1, <2>2 DEF ProcType, EntryType, FlagType, ClientType, RegistryType
<1>6. PlaceInv'
  <2>1. LockInv'
    BY <1>0, <1>1, Ranges, <1>2 DEF LockInv, ProcType, RegistryType
  <2>2. PresentInv'
    BY <1>0, <1>1, Ranges, <1>2 DEF PresentInv, ProcType, RegistryType
  <2>3. FutureInv'
    BY <1>0, <1>1, Ranges, <1>2 DEF FutureInv, PresentInv, EntryType, FlagType, RegistryType
  <2>4. QED
    BY <2>1, <2>2, <2>3
<1>7. ClientInv'
  <2>1. MadeInv'
    BY <1>0, <1>1, Ranges, <1>2, <1>3 DEF MadeInv, DialInv, InstalledInv, Up, Dialling, ProcType, EntryType, ClientType
  <2>2. DialInv'
    BY <1>0, <1>1, Ranges, <1>2, <1>3 DEF DialInv, InstalledInv, MadeInv, OwnInv, Up, Dialling, ProcType, EntryType, ClientType
  <2>3. RestInv'
    BY <1>0, <1>1, Ranges, <1>2 DEF RestInv, ProcType
  <2>4. OwnInv'
    BY <1>0, <1>1, Ranges, <1>2, <1>3 DEF OwnInv, DialInv, MadeInv, Dialling, ProcType, ClientType
  <2>5. InstalledInv'
    BY <1>0, <1>1, Ranges, <1>2, <1>4, <1>3 DEF InstalledInv, Up, ProcType, EntryType, ClientType
  <2>6. HeldInv'
    BY <1>0, <1>1, Ranges, <1>2, <1>4 DEF HeldInv, InstalledInv, Up, ProcType
  <2>7. WantedInv'
    BY <1>0, <1>1, Ranges, <1>2, <1>4, <1>3 DEF WantedInv, InstalledInv, Up, ClientType
  <2>8. OnceInv'
    BY <1>0, <1>1, Ranges, <1>2 DEF OnceInv, InstalledInv, DialInv, Up, Dialling, EntryType
  <2>9. QED
    BY <2>1, <2>2, <2>3, <2>4, <2>5, <2>6, <2>7, <2>8
<1>8. LeaseInv'
  <2>1. EpochInv'
    BY <1>0, <1>1, Ranges, <1>2 DEF EpochInv, HeldInv, DialInv, Dialling, Up, PresentInv, ProcType, EntryType, RegistryType
  <2>2. LaterInv'
    BY <1>0, <1>1, Ranges, <1>2 DEF LaterInv, EntryType
  <2>3. KeepInv'
    BY <1>0, <1>1, Ranges, <1>2 DEF KeepInv, OnceInv, NewInv, EntryType, FlagType, ClientType
  <2>4. NewInv'
    BY <1>0, <1>1, Ranges, <1>2 DEF NewInv, LockInv, OnceInv, PresentInv, ProcType, EntryType, ClientType, RegistryType
  <2>5. FoundInv'
    BY <1>0, <1>1, Ranges, <1>2 DEF FoundInv, LockInv, PresentInv, OwnerInv, Unowned, Counted, ProcType, EntryType, FlagType, ClientType, RegistryType
  <2>6. OwnerInv'
    BY <1>0, <1>1, Ranges, <1>2 DEF OwnerInv, Unowned, Counted, ProcType, EntryType, FlagType, ClientType
  <2>7. QED
    BY <2>1, <2>2, <2>3, <2>4, <2>5, <2>6
<1>9. LeasesStand
  BY <1>0, <1>1, <1>2 DEF LeasesStand, Dialling, ProcType
<1>10. LowerInv'
  BY <1>0, <1>1, <1>9, <1>5, LowerStands DEF IInv, CountInv
<1>11. UpperInv'
  BY <1>1, <1>9, UpperStands DEF IInv, CountInv
<1>12. QED
  BY <1>5, <1>6, <1>7, <1>8, <1>9, <1>10, <1>11 DEF IInv, CountInv

\* The lease is counted.
LEMMA CountKeeps ==
  ASSUME IInv, NEW p \in Procs, Count(p)
  PROVE  IInv'
<1> DEFINE r == on[p]
<1>0. TypeInv /\ PlaceInv /\ ClientInv /\ LeaseInv
  BY DEF IInv
<1> USE DEF TypeInv, PlaceInv, ClientInv, LeaseInv
<1>1. UNCHANGED <<on, installed, epoch, retained, client, made, faults, wanted, current, configured, renumbered>>
  BY DEF Count, Temporary, Goto, LockInv
<1>2. r \in Registries /\ at[p] = "counting" /\ lifecycle[r] = p
  BY <1>0, Ranges, Successors DEF Count, Temporary, Goto, LockInv, ProcType, RegistryType, ClientType, DialInv, MadeInv, RestInv, Dialling, Up
<1>3. \A q \in Procs : at'[q] = IF q = p THEN "leased" ELSE at[q]
  BY <1>0, <1>2, Ranges DEF Count, Temporary, Goto, LockInv, ProcType
<1>4. \A q \in Procs : dialled'[q] = IF q = p THEN 0 ELSE dialled[q]
  BY <1>0, <1>2, Ranges DEF Count, Temporary, Goto, LockInv, ProcType
<1>5. \A q \in Procs : lease'[q] = IF q = p THEN epoch[r] ELSE lease[q]
  BY <1>0, <1>2, Ranges DEF Count, Temporary, Goto, LockInv, ProcType, EntryType
<1>6. \A q \in Procs : held'[q] = IF q = p THEN installed[r] ELSE held[q]
  BY <1>0, <1>2, Ranges DEF Count, Temporary, Goto, LockInv, ProcType, EntryType
<1>7. \A s \in Registries : \A e \in Epochs : leases'[s][e] = IF s = r /\ e = epoch[r] THEN leases[s][e] + 1 ELSE leases[s][e]
  BY <1>0, <1>2, Ranges DEF Count, Temporary, Goto, LockInv, EntryType
<1>8. \A s \in Registries : temporary'[s] <=> IF s = r THEN temporary[r] \/ (dialled[p] # 0 /\ ~retained[r]) ELSE temporary[s]
  BY <1>0, <1>2, Ranges DEF Count, Temporary, Goto, LockInv, FlagType, ProcType
<1>9. \A s \in Registries : lifecycle'[s] = IF s = r THEN None ELSE lifecycle[s]
  BY <1>0, <1>2, Ranges DEF Count, Temporary, Goto, LockInv, RegistryType
<1>10. TypeInv'
  <2>1. at' \in [Procs -> Places]
    BY <1>0, <1>2 DEF Count, Temporary, Goto, LockInv, ProcType, Places
  <2>2. dialled' \in [Procs -> Clients \cup {0}]
    BY <1>0, <1>2, Ranges DEF Count, Temporary, Goto, LockInv, ProcType
  <2>3. lease' \in [Procs -> Epochs]
    BY <1>0, <1>2, Ranges DEF Count, Temporary, Goto, LockInv, ProcType, EntryType
  <2>4. held' \in [Procs -> Clients \cup {0}]
    BY <1>0, <1>2, Ranges DEF Count, Temporary, Goto, LockInv, ProcType, EntryType
  <2>5. leases' \in [Registries -> [Epochs -> Nat]]
    BY <1>0, <1>2, Ranges, Successors DEF Count, Temporary, Goto, LockInv, EntryType
  <2>6. temporary' \in [Registries -> BOOLEAN]
    BY <1>0, <1>2, Ranges DEF Count, Temporary, Goto, LockInv, FlagType, ProcType
  <2>7. lifecycle' \in [Registries -> Procs \cup {None}]
    BY <1>0, <1>2, Ranges DEF Count, Temporary, Goto, LockInv, RegistryType
  <2>8. QED
    BY <1>0, <1>1, <2>1, <2>2, <2>3, <2>4, <2>5, <2>6, <2>7 DEF ProcType, EntryType, FlagType, ClientType, RegistryType
<1>11. PlaceInv'
  <2>1. LockInv'
    BY <1>0, <1>1, Ranges, <1>2, <1>3, <1>9 DEF LockInv, ProcType, RegistryType
  <2>2. PresentInv'
    BY <1>0, <1>1, Ranges, <1>2, <1>3 DEF PresentInv, ProcType, RegistryType
  <2>3. FutureInv'
    BY <1>0, <1>1, Ranges, <1>2, <1>7, <1>8 DEF FutureInv, PresentInv, EntryType, FlagType, RegistryType
  <2>4. QED
    BY <2>1, <2>2, <2>3
<1>12. ClientInv'
  <2>1. MadeInv'
    BY <1>0, <1>1, Ranges, <1>2, <1>4 DEF MadeInv, DialInv, InstalledInv, Up, Dialling, ProcType, EntryType, ClientType
  <2>2. DialInv'
    BY <1>0, <1>1, Ranges, <1>2, <1>3, <1>4 DEF DialInv, InstalledInv, MadeInv, OwnInv, Up, Dialling, ProcType, EntryType, ClientType
  <2>3. RestInv'
    BY <1>0, <1>1, Ranges, <1>2, <1>3, <1>4 DEF RestInv, ProcType
  <2>4. OwnInv'
    BY <1>0, <1>1, Ranges, <1>2, <1>3, <1>4 DEF OwnInv, DialInv, MadeInv, Dialling, ProcType, ClientType
  <2>5. InstalledInv'
    BY <1>0, <1>1, Ranges, <1>2, <1>4 DEF InstalledInv, Up, ProcType, EntryType, ClientType
  <2>6. HeldInv'
    BY <1>0, <1>1, Ranges, <1>2, <1>6 DEF HeldInv, InstalledInv, Up, ProcType
  <2>7. WantedInv'
    BY <1>0, <1>1, Ranges, <1>2 DEF WantedInv, InstalledInv, Up, ClientType
  <2>8. OnceInv'
    BY <1>0, <1>1, Ranges, <1>2 DEF OnceInv, InstalledInv, DialInv, Up, Dialling, EntryType
  <2>9. QED
    BY <2>1, <2>2, <2>3, <2>4, <2>5, <2>6, <2>7, <2>8
<1>13. LeaseInv'
  <2>1. EpochInv'
    BY <1>0, <1>1, Ranges, <1>2, <1>3, <1>6, <1>5 DEF EpochInv, HeldInv, DialInv, Dialling, Up, PresentInv, ProcType, EntryType, RegistryType
  <2>2. LaterInv'
    BY <1>0, <1>1, Ranges, <1>2, <1>7 DEF LaterInv, EntryType
  <2>3. KeepInv'
    BY <1>0, <1>1, Ranges, <1>2, <1>8 DEF KeepInv, OnceInv, NewInv, EntryType, FlagType, ClientType
  <2>4. NewInv'
    BY <1>0, <1>1, Ranges, <1>2, <1>3, <1>4, <1>9 DEF NewInv, LockInv, OnceInv, PresentInv, ProcType, EntryType, ClientType, RegistryType
  <2>5. FoundInv'
    BY <1>0, <1>1, Ranges, <1>2, <1>3, <1>4, <1>8, <1>7, <1>9 DEF FoundInv, LockInv, PresentInv, OwnerInv, Unowned, Counted, ProcType, EntryType, FlagType, ClientType, RegistryType
  <2>6. OwnerInv'
    <3> SUFFICES ASSUME NEW s \in Registries, Unowned(s)', ~Counted(s)'
                 PROVE  \E q \in Procs : at'[q] = "counting" /\ on'[q] = s
      BY DEF OwnerInv
    <3>1. s # r
      <4>1. SUFFICES ASSUME s = r
                     PROVE  FALSE
        OBVIOUS
      <4>2. Unowned(r)
        BY <4>1, <1>0, <1>1, Ranges, <1>2, <1>3, <1>8, <1>7 DEF Unowned, EntryType, FlagType
      <4>3. temporary'[r]
        BY <4>2, <1>0, <1>1, Ranges, <1>2, <1>3, <1>8, <1>7 DEF FoundInv, Unowned, Counted, FlagType
      <4>4. leases'[r][epoch'[r]] > 0
        BY <1>0, <1>1, Ranges, <1>2, <1>3, <1>8, <1>7 DEF EntryType
      <4>5. QED
        BY <4>1, <4>3, <4>4 DEF Counted
    <3>2. s # r /\ Unowned(s) /\ ~Counted(s)
      BY <3>1, <1>0, <1>1, Ranges, <1>2, <1>3, <1>8, <1>7 DEF Unowned, Counted, EntryType, FlagType, ClientType
    <3>3. PICK q \in Procs : at[q] = "counting" /\ on[q] = s
      BY <1>0, <3>2 DEF OwnerInv
    <3>4. QED
      BY <3>2, <3>3, <1>0, <1>1, Ranges, <1>2, <1>3, <1>8, <1>7 DEF ProcType
  <2>7. QED
    BY <2>1, <2>2, <2>3, <2>4, <2>5, <2>6
<1>14. ASSUME NEW S \in SUBSET Procs, p \notin S
      PROVE  Cardinality(S \cup {p}) = Cardinality(S) + 1 /\ Cardinality(S) \in Nat
  BY <1>14, Finite, FS_AddElement
<1>15. CountInv'
  <2>1. LowerInv'
    <3> SUFFICES ASSUME NEW s \in Registries \ renumbered', NEW e \in Epochs
                 PROVE  Cardinality(Holders(s, e)') <= leases'[s][e]
      BY DEF LowerInv
    <3>1. Cardinality(Holders(s, e)) <= leases[s][e] /\ leases[s][e] \in Nat
      BY <1>0, <1>1 DEF IInv, CountInv, LowerInv, EntryType
    <3>2. Holders(s, e) \in SUBSET Procs /\ p \notin Holders(s, e)
      BY <1>2 DEF Holders
    <3>3. CASE s = r /\ e = epoch[r]
      <4>1. Holders(s, e)' = Holders(s, e) \cup {p}
        BY <1>1, <1>2, <3>3, <1>3, <1>5 DEF Holders
      <4>2. QED
        BY <1>14, <3>1, <3>2, <3>3, <4>1, <1>7
    <3>4. CASE ~(s = r /\ e = epoch[r])
      <4>1. Holders(s, e)' = Holders(s, e)
        BY <1>1, <1>2, <3>4, <1>3, <1>5 DEF Holders
      <4>2. QED
        BY <3>1, <3>4, <4>1, <1>7
    <3>5. QED
      BY <3>3, <3>4
  <2>2. UpperInv'
    <3> SUFFICES ASSUME NEW s \in Registries, installed[s] # 0
                 PROVE  leases'[s][epoch[s]] <= Cardinality(Keepers(s)')
      BY <1>1 DEF UpperInv
    <3>1. leases[s][epoch[s]] <= Cardinality(Keepers(s)) /\ epoch[s] \in Epochs /\ leases[s][epoch[s]] \in Nat
      BY <1>0 DEF IInv, CountInv, UpperInv, EntryType
    <3>2. Keepers(s) \in SUBSET Procs /\ p \notin Keepers(s)
      BY <1>2 DEF Keepers
    <3>3. CASE s = r
      <4>1. Keepers(s)' = Keepers(s) \cup {p}
        BY <1>1, <1>2, <3>3, <1>3, <1>6 DEF Keepers
      <4>2. QED
        BY <1>14, <3>1, <3>2, <3>3, <4>1, <1>7
    <3>4. CASE s # r
      <4>1. Keepers(s)' = Keepers(s)
        BY <1>1, <1>2, <3>4, <1>3, <1>6 DEF Keepers
      <4>2. QED
        BY <3>1, <3>4, <4>1, <1>7
    <3>5. QED
      BY <3>3, <3>4
  <2>3. QED
    BY <2>1, <2>2 DEF CountInv
<1>16. QED
  BY <1>10, <1>11, <1>12, <1>13, <1>15 DEF IInv

\* A release that ends the connection.
LEMMA ReleaseEndsKeeps ==
  ASSUME IInv, NEW p \in Procs, Release(p), EndsConnection(on[p], lease[p])
  PROVE  IInv'
<1> DEFINE r == on[p]
<1>0. TypeInv /\ PlaceInv /\ ClientInv /\ LeaseInv
  BY DEF IInv
<1> USE DEF TypeInv, PlaceInv, ClientInv, LeaseInv
<1>1. UNCHANGED <<dialled, epoch, retained, made, faults, wanted, current, configured, lifecycle, renumbered>>
  BY DEF Release, Rest, Close, Goto
<1>2. r \in Registries /\ at[p] = "leased" /\ lifecycle[r] = None
  BY <1>0, Ranges, Successors DEF Release, Rest, Close, Goto, ProcType, RegistryType, ClientType, DialInv, MadeInv, RestInv, Dialling, Up
<1>3. \A q \in Procs : at'[q] = IF q = p THEN "idle" ELSE at[q]
  BY <1>0, <1>2, Ranges DEF Release, Rest, Close, Goto, ProcType
<1>4. \A q \in Procs : on'[q] = IF q = p THEN 1 ELSE on[q]
  BY <1>0, <1>2, Ranges DEF Release, Rest, Close, Goto, ProcType
<1>5. \A q \in Procs : lease'[q] = IF q = p THEN 0 ELSE lease[q]
  BY <1>0, <1>2, Ranges DEF Release, Rest, Close, Goto, ProcType
<1>6. \A q \in Procs : held'[q] = IF q = p THEN 0 ELSE held[q]
  BY <1>0, <1>2, Ranges DEF Release, Rest, Close, Goto, ProcType
<1>7. \A s \in Registries : installed'[s] = IF s = r THEN 0 ELSE installed[s]
  BY <1>0, <1>2, Ranges DEF Release, Rest, Close, Goto, EntryType
<1>8. \A s \in Registries : \A e \in Epochs : leases'[s][e] = IF s = r /\ e = lease[p] /\ leases[s][e] # 0 THEN leases[s][e] - 1 ELSE leases[s][e]
  BY <1>0, <1>2, Ranges DEF Release, Rest, Close, Goto, EntryType, ProcType
<1>9. \A s \in Registries : temporary'[s] <=> IF s = r THEN FALSE ELSE temporary[s]
  BY <1>0, <1>2, Ranges DEF Release, Rest, Close, Goto, FlagType
<1>10. \A d \in Clients : client'[d] = IF d = installed[r] THEN "closed" ELSE client[d]
  BY <1>0, <1>2, Ranges DEF Release, Rest, Close, Goto, ClientType, EntryType
<1>11. \A d \in Clients : Up(d) => Up(d)'
  BY <1>0, <1>2, Ranges, <1>10 DEF Up, DialInv, InstalledInv, EntryType, ProcType, Dialling, MadeInv, ClientType
<1>12. TypeInv'
  <2>1. at' \in [Procs -> Places]
    BY <1>0, <1>2 DEF Release, Rest, Close, Goto, ProcType, Places
  <2>2. on' \in [Procs -> Registries]
    BY <1>0, <1>2, Ranges DEF Release, Rest, Close, Goto, ProcType
  <2>3. lease' \in [Procs -> Epochs]
    BY <1>0, <1>2, Ranges DEF Release, Rest, Close, Goto, ProcType
  <2>4. held' \in [Procs -> Clients \cup {0}]
    BY <1>0, <1>2, Ranges DEF Release, Rest, Close, Goto, ProcType
  <2>5. installed' \in [Registries -> Clients \cup {0}]
    BY <1>0, <1>2, Ranges DEF Release, Rest, Close, Goto, EntryType
  <2>6. leases' \in [Registries -> [Epochs -> Nat]]
    <3> DEFINE e == lease[p]
               n == IF leases[r][e] = 0 THEN 0 ELSE leases[r][e] - 1
    <3>1. leases' = [leases EXCEPT ![r] = [leases[r] EXCEPT ![e] = n]]
      BY DEF Release
    <3>2. leases[r] \in [Epochs -> Nat] /\ e \in Epochs
      BY <1>0, <1>2 DEF EntryType, ProcType
    <3>3. n \in Nat
      BY <3>2
    <3>4. QED
      BY <1>0, <3>1, <3>2, <3>3 DEF EntryType
  <2>7. temporary' \in [Registries -> BOOLEAN]
    BY <1>0, <1>2, Ranges DEF Release, Rest, Close, Goto, FlagType
  <2>8. client' \in [Clients -> Lives]
    BY <1>0, <1>2, Ranges DEF Release, Rest, Close, Goto, ClientType, Lives, EntryType
  <2>9. QED
    BY <1>0, <1>1, <2>1, <2>2, <2>3, <2>4, <2>5, <2>6, <2>7, <2>8 DEF ProcType, EntryType, FlagType, ClientType, RegistryType
<1>13. PlaceInv'
  <2>1. LockInv'
    BY <1>0, <1>1, Ranges, <1>2, <1>3, <1>4 DEF LockInv, ProcType, RegistryType
  <2>2. PresentInv'
    BY <1>0, <1>1, Ranges, <1>2, <1>3, <1>4 DEF PresentInv, ProcType, RegistryType
  <2>3. FutureInv'
    BY <1>0, <1>1, Ranges, <1>2, <1>7, <1>8, <1>9 DEF FutureInv, PresentInv, EntryType, FlagType, RegistryType
  <2>4. QED
    BY <2>1, <2>2, <2>3
<1>14. ClientInv'
  <2>1. MadeInv'
    BY <1>0, <1>1, Ranges, <1>2, <1>10, <1>7 DEF MadeInv, DialInv, InstalledInv, Up, Dialling, ProcType, EntryType, ClientType
  <2>2. DialInv'
    <3> SUFFICES ASSUME NEW q \in Procs, Dialling(q)'
                 PROVE  dialled[q] # 0 /\ client'[dialled[q]] = "dialling"
      BY <1>1 DEF DialInv, Dialling
    <3>1. Dialling(q) /\ dialled[q] \in Clients /\ client[dialled[q]] = "dialling"
      BY <1>0, <1>1, <1>3 DEF DialInv, Dialling, ProcType
    <3>2. dialled[q] # installed[r]
      BY <1>0, <1>2, <3>1, Ranges DEF InstalledInv, Up
    <3>3. QED
      BY <3>1, <3>2, <1>10, Ranges
  <2>3. RestInv'
    BY <1>0, <1>1, Ranges, <1>2, <1>3 DEF RestInv, ProcType
  <2>4. OwnInv'
    BY <1>0, <1>1, Ranges, <1>2, <1>3, <1>10 DEF OwnInv, DialInv, MadeInv, Dialling, ProcType, ClientType
  <2>5. InstalledInv'
    BY <1>0, <1>1, Ranges, <1>2, <1>7, <1>11, <1>10 DEF InstalledInv, Up, ProcType, EntryType, ClientType
  <2>6. HeldInv'
    BY <1>0, <1>1, Ranges, <1>2, <1>6, <1>11 DEF HeldInv, InstalledInv, Up, ProcType
  <2>7. WantedInv'
    BY <1>0, <1>1, Ranges, <1>2, <1>11, <1>10 DEF WantedInv, InstalledInv, Up, ClientType
  <2>8. OnceInv'
    BY <1>0, <1>1, Ranges, <1>2, <1>7 DEF OnceInv, InstalledInv, DialInv, Up, Dialling, EntryType
  <2>9. QED
    BY <2>1, <2>2, <2>3, <2>4, <2>5, <2>6, <2>7, <2>8
<1>15. LeaseInv'
  <2>1. EpochInv'
    BY <1>0, <1>1, Ranges, <1>2, <1>3, <1>4, <1>6, <1>5, <1>7 DEF EpochInv, HeldInv, DialInv, Dialling, Up, PresentInv, ProcType, EntryType, RegistryType
  <2>2. LaterInv'
    BY <1>0, <1>1, Ranges, <1>2, <1>8 DEF LaterInv, EntryType
  <2>3. KeepInv'
    BY <1>0, <1>1, Ranges, <1>2, <1>7, <1>9 DEF KeepInv, OnceInv, NewInv, EntryType, FlagType, ClientType
  <2>4. NewInv'
    BY <1>0, <1>1, Ranges, <1>2, <1>3, <1>4, <1>7 DEF NewInv, LockInv, OnceInv, PresentInv, ProcType, EntryType, ClientType, RegistryType
  <2>5. FoundInv'
    <3> SUFFICES ASSUME NEW q \in Procs, at'[q] = "counting", dialled'[q] = 0, Unowned(on[q])'
                 PROVE  Counted(on[q])'
      BY DEF FoundInv
    <3>1. q # p /\ at[q] = "counting" /\ on'[q] = on[q] /\ on[q] \in Registries /\ on[q] # r
      BY <1>0, <1>1, Ranges, <1>2, <1>3, <1>4, <1>7, <1>9, <1>8 DEF LockInv, ProcType
    <3>2. Unowned(on[q])
      BY <3>1, <1>0, <1>1, Ranges, <1>2, <1>3, <1>4, <1>7, <1>9, <1>8 DEF Unowned, EntryType
    <3>3. Counted(on[q])
      BY <1>0, <1>1, <3>1, <3>2 DEF FoundInv
    <3>4. QED
      BY <3>1, <3>3, <1>0, <1>1, Ranges, <1>2, <1>3, <1>4, <1>7, <1>9, <1>8 DEF Counted, EntryType, FlagType
  <2>6. OwnerInv'
    <3> SUFFICES ASSUME NEW s \in Registries, Unowned(s)', ~Counted(s)'
                 PROVE  \E q \in Procs : at'[q] = "counting" /\ on'[q] = s
      BY DEF OwnerInv
    <3>1. s # r /\ Unowned(s) /\ ~Counted(s)
      BY <1>0, <1>1, Ranges, <1>2, <1>3, <1>4, <1>7, <1>9, <1>8 DEF Unowned, Counted, EntryType, FlagType, ClientType
    <3>2. PICK q \in Procs : at[q] = "counting" /\ on[q] = s
      BY <1>0, <3>1 DEF OwnerInv
    <3>3. QED
      BY <3>1, <3>2, <1>0, <1>1, Ranges, <1>2, <1>3, <1>4, <1>7, <1>9, <1>8 DEF ProcType
  <2>7. QED
    BY <2>1, <2>2, <2>3, <2>4, <2>5, <2>6
<1>16. ASSUME NEW S \in SUBSET Procs
      PROVE  /\ Cardinality(S \ {p}) = IF p \in S THEN Cardinality(S) - 1 ELSE Cardinality(S)
             /\ Cardinality(S) \in Nat /\ (p \in S => Cardinality(S) > 0)
  <2>1. IsFiniteSet(S) /\ Cardinality(S) \in Nat /\ Cardinality(S \ {p}) \in Nat
    BY Finite
  <2>2. Cardinality(S \ {p}) = IF p \in S THEN Cardinality(S) - 1 ELSE Cardinality(S)
    BY <2>1, FS_RemoveElement
  <2>3. QED
    BY <2>1, <2>2
<1>17. CountInv'
  <2>1. LowerInv'
    <3> SUFFICES ASSUME NEW s \in Registries \ renumbered', NEW e \in Epochs
                 PROVE  Cardinality(Holders(s, e)') <= leases'[s][e]
      BY DEF LowerInv
    <3>1. Cardinality(Holders(s, e)) <= leases[s][e] /\ leases[s][e] \in Nat
      BY <1>0, <1>1 DEF IInv, CountInv, LowerInv, EntryType
    <3>2. Holders(s, e) \in SUBSET Procs /\ (p \in Holders(s, e) <=> s = r /\ e = lease[p])
      BY <1>2 DEF Holders
    <3>3. Holders(s, e)' = Holders(s, e) \ {p}
      BY <1>3, <1>4, <1>5 DEF Holders
    <3>4. QED
      BY <1>16, <3>1, <3>2, <3>3, <1>8
  <2>2. UpperInv'
    <3> SUFFICES ASSUME NEW s \in Registries, installed'[s] # 0
                 PROVE  leases'[s][epoch[s]] <= Cardinality(Keepers(s)')
      BY <1>1 DEF UpperInv
    <3>1. s # r /\ installed'[s] = installed[s]
      BY <1>7
    <3>2. leases[s][epoch[s]] <= Cardinality(Keepers(s)) /\ epoch[s] \in Epochs
      BY <1>0, <3>1 DEF IInv, CountInv, UpperInv, EntryType
    <3>3. Keepers(s)' = Keepers(s)
      BY <3>1, <1>2, <1>3, <1>4, <1>6 DEF Keepers
    <3>4. QED
      BY <3>1, <3>2, <3>3, <1>8
  <2>3. QED
    BY <2>1, <2>2 DEF CountInv
<1>18. QED
  BY <1>12, <1>13, <1>14, <1>15, <1>17 DEF IInv

\* A release that ends nothing.
LEMMA ReleaseOnlyKeeps ==
  ASSUME IInv, NEW p \in Procs, Release(p), ~EndsConnection(on[p], lease[p])
  PROVE  IInv'
<1> DEFINE r == on[p]
<1>0. TypeInv /\ PlaceInv /\ ClientInv /\ LeaseInv
  BY DEF IInv
<1> USE DEF TypeInv, PlaceInv, ClientInv, LeaseInv
<1>1. UNCHANGED <<dialled, installed, epoch, temporary, retained, client, made, faults, wanted, current, configured, lifecycle, renumbered>>
  BY DEF Release, Rest, Goto
<1>2. r \in Registries /\ at[p] = "leased" /\ lifecycle[r] = None
  BY <1>0, Ranges, Successors DEF Release, Rest, Goto, ProcType, RegistryType, ClientType, DialInv, MadeInv, RestInv, Dialling, Up
<1>3. \A q \in Procs : at'[q] = IF q = p THEN "idle" ELSE at[q]
  BY <1>0, <1>2, Ranges DEF Release, Rest, Goto, ProcType
<1>4. \A q \in Procs : on'[q] = IF q = p THEN 1 ELSE on[q]
  BY <1>0, <1>2, Ranges DEF Release, Rest, Goto, ProcType
<1>5. \A q \in Procs : lease'[q] = IF q = p THEN 0 ELSE lease[q]
  BY <1>0, <1>2, Ranges DEF Release, Rest, Goto, ProcType
<1>6. \A q \in Procs : held'[q] = IF q = p THEN 0 ELSE held[q]
  BY <1>0, <1>2, Ranges DEF Release, Rest, Goto, ProcType
<1>7. \A s \in Registries : \A e \in Epochs : leases'[s][e] = IF s = r /\ e = lease[p] /\ leases[s][e] # 0 THEN leases[s][e] - 1 ELSE leases[s][e]
  BY <1>0, <1>2, Ranges DEF Release, Rest, Goto, EntryType, ProcType
<1>8. TypeInv'
  <2>1. at' \in [Procs -> Places]
    BY <1>0, <1>2 DEF Release, Rest, Goto, ProcType, Places
  <2>2. on' \in [Procs -> Registries]
    BY <1>0, <1>2, Ranges DEF Release, Rest, Goto, ProcType
  <2>3. lease' \in [Procs -> Epochs]
    BY <1>0, <1>2, Ranges DEF Release, Rest, Goto, ProcType
  <2>4. held' \in [Procs -> Clients \cup {0}]
    BY <1>0, <1>2, Ranges DEF Release, Rest, Goto, ProcType
  <2>5. leases' \in [Registries -> [Epochs -> Nat]]
    <3> DEFINE e == lease[p]
               n == IF leases[r][e] = 0 THEN 0 ELSE leases[r][e] - 1
    <3>1. leases' = [leases EXCEPT ![r] = [leases[r] EXCEPT ![e] = n]]
      BY DEF Release
    <3>2. leases[r] \in [Epochs -> Nat] /\ e \in Epochs
      BY <1>0, <1>2 DEF EntryType, ProcType
    <3>3. n \in Nat
      BY <3>2
    <3>4. QED
      BY <1>0, <3>1, <3>2, <3>3 DEF EntryType
  <2>6. QED
    BY <1>0, <1>1, <2>1, <2>2, <2>3, <2>4, <2>5 DEF ProcType, EntryType, FlagType, ClientType, RegistryType
<1>9. PlaceInv'
  <2>1. LockInv'
    BY <1>0, <1>1, Ranges, <1>2, <1>3, <1>4 DEF LockInv, ProcType, RegistryType
  <2>2. PresentInv'
    BY <1>0, <1>1, Ranges, <1>2, <1>3, <1>4 DEF PresentInv, ProcType, RegistryType
  <2>3. FutureInv'
    BY <1>0, <1>1, Ranges, <1>2, <1>7 DEF FutureInv, PresentInv, EntryType, FlagType, RegistryType
  <2>4. QED
    BY <2>1, <2>2, <2>3
<1>10. ClientInv'
  <2>1. MadeInv'
    BY <1>0, <1>1, Ranges, <1>2 DEF MadeInv, DialInv, InstalledInv, Up, Dialling, ProcType, EntryType, ClientType
  <2>2. DialInv'
    BY <1>0, <1>1, Ranges, <1>2, <1>3 DEF DialInv, InstalledInv, MadeInv, OwnInv, Up, Dialling, ProcType, EntryType, ClientType
  <2>3. RestInv'
    BY <1>0, <1>1, Ranges, <1>2, <1>3 DEF RestInv, ProcType
  <2>4. OwnInv'
    BY <1>0, <1>1, Ranges, <1>2, <1>3 DEF OwnInv, DialInv, MadeInv, Dialling, ProcType, ClientType
  <2>5. InstalledInv'
    BY <1>0, <1>1, Ranges, <1>2 DEF InstalledInv, Up, ProcType, EntryType, ClientType
  <2>6. HeldInv'
    BY <1>0, <1>1, Ranges, <1>2, <1>6 DEF HeldInv, InstalledInv, Up, ProcType
  <2>7. WantedInv'
    BY <1>0, <1>1, Ranges, <1>2 DEF WantedInv, InstalledInv, Up, ClientType
  <2>8. OnceInv'
    BY <1>0, <1>1, Ranges, <1>2 DEF OnceInv, InstalledInv, DialInv, Up, Dialling, EntryType
  <2>9. QED
    BY <2>1, <2>2, <2>3, <2>4, <2>5, <2>6, <2>7, <2>8
<1>11. LeaseInv'
  <2>1. EpochInv'
    BY <1>0, <1>1, Ranges, <1>2, <1>3, <1>4, <1>6, <1>5 DEF EpochInv, HeldInv, DialInv, Dialling, Up, PresentInv, ProcType, EntryType, RegistryType
  <2>2. LaterInv'
    BY <1>0, <1>1, Ranges, <1>2, <1>7 DEF LaterInv, EntryType
  <2>3. KeepInv'
    BY <1>0, <1>1, Ranges, <1>2 DEF KeepInv, OnceInv, NewInv, EntryType, FlagType, ClientType
  <2>4. NewInv'
    BY <1>0, <1>1, Ranges, <1>2, <1>3, <1>4 DEF NewInv, LockInv, OnceInv, PresentInv, ProcType, EntryType, ClientType, RegistryType
  <2>5. FoundInv'
    <3> SUFFICES ASSUME NEW q \in Procs, at'[q] = "counting", dialled'[q] = 0, Unowned(on[q])'
                 PROVE  Counted(on[q])'
      BY DEF FoundInv
    <3>1. q # p /\ at[q] = "counting" /\ on'[q] = on[q] /\ on[q] \in Registries /\ on[q] # r
      BY <1>0, <1>1, Ranges, <1>2, <1>3, <1>4, <1>7 DEF LockInv, ProcType
    <3>2. Unowned(on[q])
      BY <3>1, <1>0, <1>1, Ranges, <1>2, <1>3, <1>4, <1>7 DEF Unowned, EntryType
    <3>3. Counted(on[q])
      BY <1>0, <1>1, <3>1, <3>2 DEF FoundInv
    <3>4. QED
      BY <3>1, <3>3, <1>0, <1>1, Ranges, <1>2, <1>3, <1>4, <1>7 DEF Counted, EntryType, FlagType
  <2>6. OwnerInv'
    <3> SUFFICES ASSUME NEW s \in Registries, Unowned(s)', ~Counted(s)'
                 PROVE  \E q \in Procs : at'[q] = "counting" /\ on'[q] = s
      BY DEF OwnerInv
    <3>1. Unowned(s)
      BY <1>1 DEF Unowned
    <3>2. CASE Counted(s)
      <4>1. temporary[s] /\ ~retained[s] /\ leases[s][epoch[s]] > 0 /\ ~(leases'[s][epoch[s]] > 0)
        BY <1>1, <3>1, <3>2 DEF Unowned, Counted
      <4>2. s = r /\ epoch[s] = lease[p] /\ leases[s][epoch[s]] = 1
        BY <4>1, <1>0, <1>1, Ranges, <1>2, <1>3, <1>4, <1>7 DEF EntryType
      <4>3. QED
        BY <4>1, <4>2 DEF EndsConnection
    <3>3. CASE ~Counted(s)
      <4>1. PICK q \in Procs : at[q] = "counting" /\ on[q] = s
        BY <1>0, <3>1, <3>3 DEF OwnerInv
      <4>2. q # p
        BY <4>1, <1>2
      <4>3. QED
        BY <4>1, <4>2, <1>0, <1>1, Ranges, <1>2, <1>3, <1>4, <1>7 DEF ProcType
    <3>4. QED
      BY <3>2, <3>3
  <2>7. QED
    BY <2>1, <2>2, <2>3, <2>4, <2>5, <2>6
<1>12. ASSUME NEW S \in SUBSET Procs
      PROVE  /\ Cardinality(S \ {p}) = IF p \in S THEN Cardinality(S) - 1 ELSE Cardinality(S)
             /\ Cardinality(S) \in Nat /\ (p \in S => Cardinality(S) > 0)
  <2>1. IsFiniteSet(S) /\ Cardinality(S) \in Nat /\ Cardinality(S \ {p}) \in Nat
    BY Finite
  <2>2. Cardinality(S \ {p}) = IF p \in S THEN Cardinality(S) - 1 ELSE Cardinality(S)
    BY <2>1, FS_RemoveElement
  <2>3. QED
    BY <2>1, <2>2
<1>13. CountInv'
  <2>1. LowerInv'
    <3> SUFFICES ASSUME NEW s \in Registries \ renumbered', NEW e \in Epochs
                 PROVE  Cardinality(Holders(s, e)') <= leases'[s][e]
      BY DEF LowerInv
    <3>1. Cardinality(Holders(s, e)) <= leases[s][e] /\ leases[s][e] \in Nat
      BY <1>0, <1>1 DEF IInv, CountInv, LowerInv, EntryType
    <3>2. Holders(s, e) \in SUBSET Procs /\ (p \in Holders(s, e) <=> s = r /\ e = lease[p])
      BY <1>2 DEF Holders
    <3>3. Holders(s, e)' = Holders(s, e) \ {p}
      BY <1>3, <1>4, <1>5 DEF Holders
    <3>4. QED
      BY <1>12, <3>1, <3>2, <3>3, <1>7
  <2>2. UpperInv'
    <3> SUFFICES ASSUME NEW s \in Registries, installed[s] # 0
                 PROVE  leases'[s][epoch[s]] <= Cardinality(Keepers(s)')
      BY <1>1 DEF UpperInv
    <3>1. leases[s][epoch[s]] <= Cardinality(Keepers(s)) /\ epoch[s] \in Epochs /\ leases[s][epoch[s]] \in Nat
      BY <1>0 DEF IInv, CountInv, UpperInv, EntryType
    <3>2. Keepers(s)' = Keepers(s) \ {p}
      BY <1>1, <1>3, <1>4, <1>6 DEF Keepers
    <3>3. Keepers(s) \in SUBSET Procs
      BY DEF Keepers
    <3>4. p \in Keepers(s) => s = r /\ epoch[s] = lease[p]
      BY <1>0, <1>2 DEF Keepers, EpochInv
    <3>5. QED
      BY <1>12, <3>1, <3>2, <3>3, <3>4, <1>7
  <2>3. QED
    BY <2>1, <2>2 DEF CountInv
<1>14. QED
  BY <1>8, <1>9, <1>10, <1>11, <1>13 DEF IInv

-----------------------------------------------------------------------------
(* The invariant holds in every state. *)

\* The initial states.
LEMMA InitKeeps == Init => IInv
<1> SUFFICES ASSUME Init
             PROVE  IInv
  OBVIOUS
<1>1. TypeInv
  <2>1. 1 \in Registries /\ 0 \in Epochs /\ 0 \in Nat /\ BoundClients \in Nat /\ BoundFaults \in Nat
    BY Ranges, McpRegistryAssumption
  <2>2. [e \in Epochs |-> 0] \in [Epochs -> Nat]
    BY <2>1
  <2>3. ProcType /\ EntryType /\ FlagType
    BY <2>1, <2>2 DEF Init, ProcType, EntryType, FlagType, Places
  <2>4. ClientType /\ RegistryType
    BY <2>1 DEF Init, ClientType, RegistryType, Lives
  <2>5. QED
    BY <2>3, <2>4 DEF TypeInv
<1>2. PlaceInv
  BY Ranges DEF Init, PlaceInv, LockInv, PresentInv, FutureInv
<1>3. ClientInv
  BY Ranges DEF Init, ClientInv, MadeInv, DialInv, RestInv, OwnInv, InstalledInv, HeldInv, WantedInv, OnceInv, Dialling
<1>4. LeaseInv
  BY Ranges DEF Init, LeaseInv, EpochInv, LaterInv, KeepInv, NewInv, FoundInv, OwnerInv, Unowned
<1>5. LowerInv
  <2> SUFFICES ASSUME NEW s \in Registries, NEW e \in Epochs
               PROVE  Cardinality(Holders(s, e)) <= leases[s][e]
    BY DEF LowerInv
  <2>1. Holders(s, e) = {} /\ leases[s][e] = 0
    BY DEF Init, Holders
  <2>2. QED
    BY <2>1, FS_EmptySet
<1>6. UpperInv
  BY DEF Init, UpperInv
<1>7. QED
  BY <1>1, <1>2, <1>3, <1>4, <1>5, <1>6 DEF IInv, CountInv

\* A step of a goroutine.
LEMMA GoroutineKeeps ==
  ASSUME IInv, NEW p \in Procs, Step(p)
  PROVE  IInv' /\ (LeasesStand \/ Count(p) \/ Release(p))
<1>1. CASE ConnectFast(p)
  BY <1>1, ConnectFastKeeps
<1>2. CASE ConnectDial(p)
  BY <1>2, ConnectDialKeeps
<1>3. CASE ConnectDone(p)
  BY <1>3, ConnectDoneKeeps
<1>4. CASE DialFails(p)
  BY <1>4, DialFailsKeeps
<1>5. CASE Leave(p)
  BY <1>5, LeaveKeeps
<1>6. CASE Cleanup(p)
  <2>1. Detach(on[p]) /\ on[p] \in Registries /\ ProcType /\ RegistryType /\ faults \in 0 .. BoundFaults
    BY <1>6 DEF Cleanup, IInv, TypeInv, ProcType, ClientType
  <2>2. /\ at' = [at EXCEPT ![p] = "idle"] /\ on' = [on EXCEPT ![p] = 1]
        /\ UNCHANGED <<configured, faults>> /\ at[p] = "using"
    BY <1>6 DEF Cleanup, Rest, Goto
  <2>3. ProcType'
    BY <2>1, <2>2, Ranges DEF Detach, ProcType, Places
  <2>4. RegistryType'
    BY <2>1, <2>2 DEF Detach, StateDropped, RegistryType
  <2>5. \A q \in Procs : (at'[q] = at[q] /\ on'[q] = on[q]) \/ (at[q] = "using" /\ at'[q] = "idle")
    BY <2>1, <2>2 DEF ProcType
  <2>6. QED
    BY <2>1, <2>2, <2>3, <2>4, <2>5, DetachKeeps
<1>7. CASE Acquire(p)
  BY <1>7, AcquireHereKeeps, AcquireDialKeeps
<1>8. CASE LeaseDialled(p)
  BY <1>8, LeaseDialledKeeps
<1>9. CASE Count(p)
  BY <1>9, CountKeeps
<1>10. CASE Release(p)
  BY <1>10, ReleaseEndsKeeps, ReleaseOnlyKeeps
<1>11. QED
  BY <1>1, <1>2, <1>3, <1>4, <1>5, <1>6, <1>7, <1>8, <1>9, <1>10 DEF Step

\* A change of the configuration or of the registry.
LEMMA ConfigurationKeeps ==
  ASSUME IInv, Disconnect \/ RemoveServer \/ RemoveFails \/ AddServer \/ ReloadWithout \/ Initialize
  PROVE  IInv' /\ LeasesStand
<1>0. ProcType /\ RegistryType /\ faults \in 0 .. BoundFaults /\ BoundFaults \in Nat
  BY McpRegistryAssumption DEF IInv, TypeInv, ClientType
<1>1. CASE Disconnect \/ RemoveServer
  <2>1. /\ Detach(current) /\ current \in Registries /\ UNCHANGED <<at, on>>
        /\ configured' \in [Registries -> BOOLEAN] /\ faults' \in 0 .. BoundFaults
    <3>1. CASE Disconnect
      BY <1>0, <3>1 DEF Disconnect, Fault, RegistryType
    <3>2. CASE RemoveServer
      BY <1>0, <3>2 DEF RemoveServer, Fault, RegistryType
    <3>3. QED
      BY <1>1, <3>1, <3>2
  <2>2. ProcType' /\ RegistryType'
    BY <1>0, <2>1 DEF Detach, StateDropped, ProcType, RegistryType
  <2>3. \A q \in Procs : (at'[q] = at[q] /\ on'[q] = on[q]) \/ (at[q] = "using" /\ at'[q] = "idle")
    BY <2>1
  <2>4. QED
    BY <2>1, <2>2, <2>3, DetachKeeps
<1>2. CASE AddServer
  BY <1>2, AddServerKeeps
<1>3. CASE RemoveFails \/ ReloadWithout
  BY <1>3, RemoveFailsKeeps, ReloadWithoutKeeps
<1>4. CASE Initialize
  BY <1>4, AdoptKeeps, ReplaceKeeps DEF Initialize
<1>5. QED
  BY <1>1, <1>2, <1>3, <1>4

\* A step that changes nothing.
LEMMA StutterKeeps ==
  ASSUME IInv, UNCHANGED vars
  PROVE  IInv' /\ LeasesStand
<1> USE DEF vars, IInv
<1>1. TypeInv'
  BY DEF TypeInv, ProcType, EntryType, FlagType, ClientType, RegistryType
<1>2. PlaceInv'
  BY DEF PlaceInv, LockInv, PresentInv, FutureInv
<1>3. ClientInv'
  BY DEF ClientInv, MadeInv, DialInv, RestInv, OwnInv, InstalledInv, HeldInv, WantedInv, OnceInv, Dialling, Up
<1>4. LeaseInv'
  BY DEF LeaseInv, EpochInv, LaterInv, KeepInv, NewInv, FoundInv, OwnerInv, Unowned, Counted
<1>5. CountInv'
  BY DEF CountInv, LowerInv, UpperInv, Holders, Keepers
<1>6. LeasesStand
  BY DEF LeasesStand
<1>7. QED
  BY <1>1, <1>2, <1>3, <1>4, <1>5, <1>6

\* Every step.
LEMMA StepKeeps ==
  ASSUME IInv, [Next]_vars
  PROVE  IInv' /\ (LeasesStand \/ \E p \in Procs : Count(p) \/ Release(p))
<1>1. ASSUME NEW p \in Procs, Step(p)
      PROVE  IInv' /\ (LeasesStand \/ Count(p) \/ Release(p))
  BY <1>1, GoroutineKeeps
<1>2. CASE Disconnect \/ RemoveServer \/ RemoveFails \/ AddServer \/ ReloadWithout \/ Initialize
  BY <1>2, ConfigurationKeeps
<1>3. ASSUME NEW c \in Clients, Dies(c)
      PROVE  IInv' /\ LeasesStand
  BY <1>3, DiesKeeps
<1>4. CASE UNCHANGED vars
  BY <1>4, StutterKeeps
<1>5. QED
  BY <1>1, <1>2, <1>3, <1>4 DEF Next

\* The invariant is one of the specification.
THEOREM Inductive == Spec => []IInv
<1>1. Init => IInv
  BY InitKeeps
<1>2. IInv /\ [Next]_vars => IInv'
  BY StepKeeps
<1>3. QED
  BY <1>1, <1>2, PTL DEF Spec

-----------------------------------------------------------------------------
(* The properties. *)

\* The variables keep their types.
THEOREM TypeCorrect == Spec => []TypeOK
<1>1. IInv => TypeOK
  BY TypeParts DEF IInv
<1>2. QED
  BY <1>1, Inductive, PTL

\* A connection that was made for a lease is there only while a goroutine has a
\* lease on it, or is about to count one.
THEOREM TemporaryHolds == Spec => []TemporaryGoes
<1>1. IInv => TemporaryGoes
  <2> DEFINE Holds(p, r) == on[p] = r /\ (at[p] = "counting" \/ (at[p] = "leased" /\ held[p] = installed[r]))
  <2> SUFFICES ASSUME IInv, NEW r \in Registries, Unowned(r)
               PROVE  \E p \in Procs : Holds(p, r)
    BY DEF TemporaryGoes, Unowned
  <2>1. CASE \E p \in Procs : at[p] = "counting" /\ on[p] = r
    BY <2>1
  <2>2. CASE Counted(r)
    <3>1. leases[r][epoch[r]] > 0 /\ leases[r][epoch[r]] <= Cardinality(Keepers(r))
      BY <2>2 DEF Counted, Unowned, IInv, CountInv, UpperInv
    <3>2. leases[r][epoch[r]] \in Nat /\ Cardinality(Keepers(r)) \in Nat
      BY Finite DEF IInv, TypeInv, EntryType, Keepers
    <3>3. Keepers(r) # {}
      BY <3>1, <3>2, FS_EmptySet
    <3>4. QED
      BY <3>3 DEF Keepers
  <2>3. QED
    BY <2>1, <2>2 DEF IInv, LeaseInv, OwnerInv
<1>2. QED
  BY <1>1, Inductive, PTL

\* A release that ends the connection is the last of its generation.
LEMMA OneHolder ==
  ASSUME IInv, NEW p \in Procs, at[p] = "leased", on[p] \notin renumbered,
         EndsConnection(on[p], lease[p]), NEW q \in Procs \ {p}
  PROVE  ~(at[q] = "leased" /\ on[q] = on[p] /\ lease[q] = lease[p])
<1> DEFINE H == Holders(on[p], lease[p])
<1>1. on[p] \in Registries /\ lease[p] \in Epochs
  BY DEF IInv, TypeInv, ProcType
<1>2. Cardinality(H) <= 1 /\ p \in H
  BY <1>1 DEF EndsConnection, IInv, CountInv, LowerInv, Holders
<1>3. IsFiniteSet(H) /\ Cardinality(H) \in Nat /\ Cardinality(H \ {p}) \in Nat /\ IsFiniteSet(H \ {p})
  BY Finite DEF Holders
<1>4. Cardinality(H \ {p}) = 0
  BY <1>2, <1>3, FS_RemoveElement
<1>5. H \ {p} = {}
  BY <1>3, <1>4, FS_EmptySet
<1>6. QED
  BY <1>5 DEF Holders

\* A release takes down a connection that no other goroutine has on lease and
\* nobody connected to keep.
THEOREM ReleaseIsOwn == Spec => ReleaseSparesOthers
<1>1. ASSUME IInv, [Next]_vars, NEW p \in Procs, NEW r \in Registries \ renumbered, EndsIt(p, r)
      PROVE  ~Shared(p, r) /\ installed[r] \notin wanted
  <2>1. at[p] = "leased" /\ at'[p] = "idle" /\ on[p] = r /\ installed[r] # 0 /\ installed'[r] = 0
    BY <1>1 DEF EndsIt, Releases
  <2>2. ~LeasesStand
    BY <2>1 DEF LeasesStand
  <2>3. PICK q \in Procs : Count(q) \/ Release(q)
    BY <1>1, <2>2, StepKeeps
  <2>4. at \in [Procs -> Places] /\ installed \in [Registries -> Clients \cup {0}]
    BY <1>1 DEF IInv, TypeInv, ProcType, EntryType
  <2>5. Release(p)
    <3>1. ~Count(q)
      BY <2>1, <2>3, <2>4 DEF Count, Goto
    <3>2. q = p
      BY <2>1, <2>3, <2>4, <3>1 DEF Release, Rest, Goto
    <3>3. QED
      BY <2>3, <3>1, <3>2
  <2>6. EndsConnection(on[p], lease[p])
    BY <2>1, <2>5 DEF Release
  <2>7. installed[r] \notin wanted
    BY <1>1, <2>1, <2>6 DEF EndsConnection, IInv, LeaseInv, KeepInv
  <2>8. ~Shared(p, r)
    <3> SUFFICES ASSUME NEW o \in Procs \ {p}, at[o] = "leased", on[o] = r, held[o] = installed[r]
                 PROVE  FALSE
      BY DEF Shared
    <3>1. lease[o] = epoch[r]
      BY <1>1, <2>1 DEF IInv, LeaseInv, EpochInv
    <3>2. lease[o] = lease[p]
      BY <2>1, <2>6, <3>1 DEF EndsConnection
    <3>3. QED
      BY <1>1, <2>1, <2>6, <3>2, OneHolder
  <2>9. QED
    BY <2>7, <2>8
<1>2. IInv /\ [Next]_vars =>
        [\A p \in Procs : \A r \in Registries \ renumbered :
           EndsIt(p, r) => ~Shared(p, r) /\ installed[r] \notin wanted]_vars
  BY <1>1
<1>3. QED
  BY <1>2, Inductive, PTL DEF Spec, ReleaseSparesOthers
=============================================================================
