-------------------------- MODULE CronSharedProps --------------------------
(* The properties of CronShared. *)
EXTENDS CronShared

Records == [next : 0 .. BoundTime + 2, expires : 0 .. BoundTime + Expiry]
JobLists == UNION {[S -> Records] : S \in SUBSET Jobs}

\* Type invariant.
CronTypeOK ==
  /\ now \in 1 .. BoundTime /\ made \subseteq Jobs /\ faults \in 0 .. BoundFaults
  /\ disk \in JobLists /\ jobs \in [Windows -> JobLists] /\ read \in [Windows -> JobLists]
  /\ known \in [Windows -> SUBSET Durable]
  /\ at \in [Windows -> {"down", "up", "read", "write"}]
  /\ boots \in 0 .. BoundBoots /\ overlap \in BOOLEAN
  /\ removed \in [Windows -> SUBSET ended] /\ ended \subseteq made /\ saved \subseteq made
  /\ writer \in Windows \cup {None}
  /\ DOMAIN disk \subseteq Durable /\ \A w \in Windows : DOMAIN read[w] \subseteq Durable

Saves(w) == at[w] = "write" /\ at'[w] = "up" /\ writer' = w

\* A save leaves in the file nothing its window removed since it was opened,
\* whatever the file held: the other windows' jobs it carries over never bring
\* back its own deletions.
RemovedStaysRemoved == [][\A w \in Windows : Saves(w) => DOMAIN disk' \cap removed[w] = {}]_cronVars

\* A save keeps, as they were, the jobs it read that its window never held; all
\* it drops is what the window removed or what came after it read.
OthersAreKept ==
  [][\A w \in Windows : Saves(w) =>
       /\ DOMAIN disk \ DOMAIN disk' \subseteq removed[w] \cup (Jobs \ DOMAIN read[w])
       /\ \A j \in DOMAIN disk' \ DOMAIN jobs[w] : disk'[j] = read[w][j]]_cronVars

\* While no other window writes, the file has the durable jobs of the last
\* writer exactly as it holds them and nothing it removed: every operation that
\* changes one saves it.
FileMatchesWriter ==
  \A w \in Windows :
    writer = w /\ at[w] = "up" =>
      /\ \A j \in Own(w) : j \in DOMAIN disk /\ disk[j] = jobs[w][j]
      /\ DOMAIN disk \cap removed[w] = {}

\* As long as no save works from a file that changed since it read it, a job
\* that reached the file stays there until some window removes it: restarts,
\* jobs skipped at boot, and any number of windows saving lose none.
NoneIsLost == ~overlap => saved \ ended \subseteq DOMAIN disk

-----------------------------------------------------------------------------
(* What the code says of itself and does not keep. *)

\* saveDurableLocked writes "preserving any the file holds that belong to
\* another instance".
ForeignPreserved ==
  [][faults' = 0 =>
       \A j \in DOMAIN disk \ DOMAIN disk' : \E w \in Windows : Saves(w) /\ j \in removed[w]]_cronVars

\* "Jobs it did know about and no longer holds were deliberately removed, so
\* they stay removed."
StaysRemoved ==
  [][\A j \in Jobs \cap (DOMAIN disk' \ DOMAIN disk) : \A w \in Windows : j \notin removed[w]]_cronVars

\* "maxJobs is the maximum number of concurrent cron jobs."
AtMostMaxJobs == \A w \in Windows : Cardinality(DOMAIN jobs[w]) <= MaxJobs

\* nextAfter looks four years of 365 days ahead: a job for 29 February has no
\* next time when it fires, and is due at every tick until it expires.
FiredIsRescheduled ==
  \A w \in Windows : \A j \in DOMAIN jobs[w] \cap Recurring : jobs[w][j].next # 0
=============================================================================
