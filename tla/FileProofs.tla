------------------------------ MODULE FileProofs -----------------------------
(***************************************************************************)
(* Machine-checked proofs about what is kept in files, for any bounds: the *)
(* store of durable jobs that any number of windows write (CronShared),    *)
(* and the transcripts, caches and index of any number of sessions         *)
(* (Transcript), through crashes and restarts: first that nothing kept is  *)
(* lost or doubled, then that a resumed session shows what was on screen.  *)
(***************************************************************************)
EXTENDS CronSharedProps, TranscriptProps, FiniteSetTheorems, SequenceTheorems, WellFoundedInduction, TLAPS

-----------------------------------------------------------------------------
(* The job store: its inductive invariant. *)

\* What a window remembers of the durable jobs it has held: each is either held
\* still or removed, and is known from its first save on.
Memory(w) ==
  /\ DOMAIN jobs[w] \subseteq made
  /\ removed[w] \cap DOMAIN jobs[w] = {}
  /\ removed[w] \cap Durable \subseteq known[w]
  /\ known[w] \subseteq DOMAIN jobs[w] \cup removed[w]
  /\ at[w] \in {"up", "write"} => Own(w) \subseteq known[w]
  /\ at[w] = "down" => removed[w] = {} /\ known[w] = {} /\ DOMAIN jobs[w] = {}

\* Windows write only jobs that were made, and a closed one is no writer.
FileInv ==
  /\ DOMAIN disk \subseteq saved
  /\ \A w \in Windows : DOMAIN read[w] \subseteq saved /\ (at[w] = "down" => writer # w)

CronInv == CronTypeOK /\ FileInv /\ \A w \in Windows : Memory(w)

USE CronAssumption

-----------------------------------------------------------------------------
(* Lists of jobs. *)

LEMMA EmptyList == Empty \in JobLists /\ DOMAIN Empty = {}
<1>1. Empty \in [{} -> Records]
  BY DEF Empty
<1>2. QED
  BY <1>1 DEF JobLists, Empty

LEMMA ListParts ==
  ASSUME NEW f \in JobLists
  PROVE  DOMAIN f \subseteq Jobs /\ \A j \in DOMAIN f : f[j] \in Records
<1>1. PICK S \in SUBSET Jobs : f \in [S -> Records]
  BY DEF JobLists
<1>2. QED
  BY <1>1

\* What a save writes.
LEMMA ContentList ==
  ASSUME CronTypeOK, NEW w \in Windows
  PROVE  /\ Content(w) \in JobLists
         /\ DOMAIN Content(w) = Own(w) \cup Foreign(w)
         /\ DOMAIN Content(w) \subseteq Durable
         /\ \A j \in DOMAIN Content(w) :
              Content(w)[j] = IF j \in Own(w) THEN jobs[w][j] ELSE read[w][j]
<1>1. jobs[w] \in JobLists /\ read[w] \in JobLists /\ DOMAIN read[w] \subseteq Durable
  BY DEF CronTypeOK
<1>2. Own(w) \subseteq DOMAIN jobs[w] /\ Own(w) \subseteq Durable /\ Foreign(w) \subseteq DOMAIN read[w]
  BY DEF Own, Foreign
<1>3. Own(w) \cup Foreign(w) \in SUBSET Jobs
  BY <1>1, <1>2, ListParts
<1>4. \A j \in Own(w) \cup Foreign(w) :
        (IF j \in Own(w) THEN jobs[w][j] ELSE read[w][j]) \in Records
  BY <1>1, <1>2, ListParts
<1>5. Content(w) \in [Own(w) \cup Foreign(w) -> Records]
  BY <1>4 DEF Content
<1>6. QED
  BY <1>1, <1>2, <1>3, <1>5 DEF Content, JobLists

-----------------------------------------------------------------------------
(* Each action keeps the invariant. *)

LEMMA InitInv == CronInit => CronInv
<1> SUFFICES ASSUME CronInit PROVE CronInv
  OBVIOUS
<1>1. CronTypeOK
  <2>1. /\ now \in 1 .. BoundTime /\ faults \in 0 .. BoundFaults /\ boots \in 0 .. BoundBoots
    BY DEF CronInit
  <2>4. overlap \in BOOLEAN
    BY DEF CronInit
  <2>2. /\ disk \in JobLists /\ DOMAIN disk \subseteq Durable
        /\ read \in [Windows -> JobLists] /\ \A w \in Windows : DOMAIN read[w] \subseteq Durable
        /\ jobs \in [Windows -> JobLists]
    BY EmptyList DEF CronInit
  <2>3. QED
    BY <2>1, <2>2, <2>4 DEF CronInit, CronTypeOK
<1>2. FileInv
  BY EmptyList DEF CronInit, FileInv
<1>3. ASSUME NEW w \in Windows PROVE Memory(w)
  BY EmptyList DEF CronInit, Memory, Own
<1>4. QED
  BY <1>1, <1>2, <1>3 DEF CronInv

LEMMA AdvanceInv == CronInv /\ Advance => CronInv'
<1> SUFFICES ASSUME CronInv, Advance PROVE CronInv'
  OBVIOUS
<1>1. CronTypeOK'
  BY DEF CronInv, CronTypeOK, Advance, files, gone
<1>2. FileInv'
  BY DEF CronInv, FileInv, Advance, files, gone
<1>3. ASSUME NEW w \in Windows PROVE Memory(w)'
  BY <1>3 DEF CronInv, Memory, Own, Advance, files, gone
<1>4. QED
  BY <1>1, <1>2, <1>3 DEF CronInv

LEMMA SaveReadInv == ASSUME CronInv, NEW w \in Windows, SaveRead(w) PROVE CronInv'
<1>1. Own(w) \subseteq Durable /\ jobs[w] \in JobLists
  BY DEF CronInv, CronTypeOK, Own
<1>2. CronTypeOK'
  <2>1. /\ known' \in [Windows -> SUBSET Durable] /\ at' \in [Windows -> {"down", "up", "read", "write"}]
        /\ faults' \in 0 .. BoundFaults
    BY <1>1 DEF CronInv, CronTypeOK, SaveRead
  <2>2. read' \in [Windows -> JobLists] /\ \A v \in Windows : DOMAIN read'[v] \subseteq Durable
    BY EmptyList DEF CronInv, CronTypeOK, SaveRead
  <2>3. QED
    BY <2>1, <2>2 DEF CronInv, CronTypeOK, SaveRead, gone
<1>3. FileInv'
  BY EmptyList DEF CronInv, CronTypeOK, FileInv, SaveRead
<1>4. ASSUME NEW v \in Windows PROVE Memory(v)'
  <2>1. UNCHANGED <<made, jobs, removed>>
    BY DEF SaveRead, gone
  <2>2. CASE v = w
    BY <2>1, <2>2 DEF CronInv, CronTypeOK, Memory, Own, SaveRead
  <2>3. CASE v # w
    BY <2>1, <2>3 DEF CronInv, CronTypeOK, Memory, Own, SaveRead
  <2>4. QED
    BY <2>2, <2>3
<1>5. QED
  BY <1>2, <1>3, <1>4 DEF CronInv

LEMMA SaveWriteInv == ASSUME CronInv, NEW w \in Windows, SaveWrite(w) PROVE CronInv'
<1>1. disk' \in JobLists /\ DOMAIN disk' = Own(w) \cup Foreign(w) /\ DOMAIN disk' \subseteq Durable
  BY ContentList DEF CronInv, SaveWrite
<1>2. Own(w) \cup Foreign(w) \subseteq made
  BY DEF CronInv, CronTypeOK, FileInv, Memory, Own, Foreign
<1>3. CronTypeOK'
  <2>1. /\ at' \in [Windows -> {"down", "up", "read", "write"}] /\ overlap' \in BOOLEAN
        /\ writer' \in Windows \cup {None} /\ saved' \subseteq made
    BY <1>1, <1>2 DEF CronInv, CronTypeOK, SaveWrite
  <2>2. read' \in [Windows -> JobLists] /\ \A v \in Windows : DOMAIN read'[v] \subseteq Durable
    BY EmptyList DEF CronInv, CronTypeOK, SaveWrite
  <2>3. QED
    BY <1>1, <2>1, <2>2 DEF CronInv, CronTypeOK, SaveWrite, gone
<1>4. FileInv'
  BY EmptyList DEF CronInv, CronTypeOK, FileInv, SaveWrite
<1>5. ASSUME NEW v \in Windows PROVE Memory(v)'
  BY DEF CronInv, CronTypeOK, Memory, Own, SaveWrite, gone
<1>6. QED
  BY <1>3, <1>4, <1>5 DEF CronInv

LEMMA SaveFailsInv == ASSUME CronInv, NEW w \in Windows, SaveFails(w) PROVE CronInv'
<1>1. CronTypeOK'
  <2>1. /\ at' \in [Windows -> {"down", "up", "read", "write"}]
        /\ writer' \in Windows \cup {None} /\ faults' \in 0 .. BoundFaults
    BY DEF CronInv, CronTypeOK, SaveFails
  <2>2. read' \in [Windows -> JobLists] /\ \A v \in Windows : DOMAIN read'[v] \subseteq Durable
    BY EmptyList DEF CronInv, CronTypeOK, SaveFails
  <2>3. QED
    BY <2>1, <2>2 DEF CronInv, CronTypeOK, SaveFails, gone
<1>2. FileInv'
  BY EmptyList DEF CronInv, CronTypeOK, FileInv, SaveFails
<1>3. ASSUME NEW v \in Windows PROVE Memory(v)'
  BY DEF CronInv, CronTypeOK, Memory, Own, SaveFails, gone
<1>4. QED
  BY <1>1, <1>2, <1>3 DEF CronInv

LEMMA CrashInv == ASSUME CronInv, NEW w \in Windows, Crash(w) PROVE CronInv'
<1>1. CronTypeOK'
  <2>1. /\ at' \in [Windows -> {"down", "up", "read", "write"}] /\ writer' \in Windows \cup {None}
        /\ known' \in [Windows -> SUBSET Durable] /\ removed' \in [Windows -> SUBSET ended]
    BY DEF CronInv, CronTypeOK, Crash
  <2>2. jobs' \in [Windows -> JobLists]
    BY EmptyList DEF CronInv, CronTypeOK, Crash
  <2>3. read' \in [Windows -> JobLists] /\ \A v \in Windows : DOMAIN read'[v] \subseteq Durable
    BY EmptyList DEF CronInv, CronTypeOK, Crash
  <2>4. QED
    BY <2>1, <2>2, <2>3 DEF CronInv, CronTypeOK, Crash
<1>2. FileInv'
  BY EmptyList DEF CronInv, CronTypeOK, FileInv, Crash
<1>3. ASSUME NEW v \in Windows PROVE Memory(v)'
  <2>1. CASE v = w
    BY <2>1, EmptyList DEF CronInv, CronTypeOK, Memory, Own, Crash
  <2>2. CASE v # w
    BY <2>2 DEF CronInv, CronTypeOK, Memory, Own, Crash
  <2>3. QED
    BY <2>1, <2>2
<1>4. QED
  BY <1>1, <1>2, <1>3 DEF CronInv

LEMMA BootInv == ASSUME CronInv, NEW w \in Windows, Boot(w) PROVE CronInv'
<1> PICK next \in [DOMAIN disk \cap Recurring -> NextFires] :
      LET loaded == {j \in DOMAIN disk :
                       ~Expired(disk[j]) /\ (j \in Recurring => next[j] # 0)}
          due(j) == IF j \in Recurring THEN next[j]
                    ELSE IF disk[j].next <= now THEN now ELSE disk[j].next
      IN  /\ jobs' = [jobs EXCEPT ![w] =
                        [j \in loaded |-> [disk[j] EXCEPT !.next = due(j)]]]
          /\ known' = [known EXCEPT ![w] = Adopted(w, loaded)]
  BY DEF Boot
<1> DEFINE loaded == {j \in DOMAIN disk :
                        ~Expired(disk[j]) /\ (j \in Recurring => next[j] # 0)}
           due(j) == IF j \in Recurring THEN next[j]
                     ELSE IF disk[j].next <= now THEN now ELSE disk[j].next
           list == [j \in loaded |-> [disk[j] EXCEPT !.next = due(j)]]
<1>1. jobs' = [jobs EXCEPT ![w] = list] /\ known' = [known EXCEPT ![w] = @ \cup loaded]
  BY DEF Adopted
<1>2. loaded \subseteq DOMAIN disk /\ loaded \subseteq Jobs /\ loaded \subseteq Durable
  BY ListParts DEF CronInv, CronTypeOK
<1>3. ASSUME NEW j \in loaded PROVE [disk[j] EXCEPT !.next = due(j)] \in Records
  <2>1. disk[j] \in Records
    BY <1>2, <1>3, ListParts DEF CronInv, CronTypeOK
  <2>2. now \in 1 .. BoundTime
    BY DEF CronInv, CronTypeOK
  <2>3. j \in Recurring => next[j] \in 0 .. BoundTime + 2
    BY <1>2, <1>3, <2>2 DEF NextFires
  <2>4. due(j) \in 0 .. BoundTime + 2
    BY <2>1, <2>2, <2>3 DEF Records
  <2>5. QED
    BY <2>1, <2>4 DEF Records
<1>4. list \in JobLists /\ DOMAIN list = loaded
  <2>1. list \in [loaded -> Records]
    BY <1>3
  <2>2. QED
    BY <1>2, <2>1 DEF JobLists
<1> HIDE DEF list, loaded
<1>5. CronTypeOK'
  <2>1. /\ at' \in [Windows -> {"down", "up", "read", "write"}] /\ boots' \in 0 .. BoundBoots
    BY DEF CronInv, CronTypeOK, Boot
  <2>2. jobs' \in [Windows -> JobLists] /\ known' \in [Windows -> SUBSET Durable]
    BY <1>1, <1>2, <1>4 DEF CronInv, CronTypeOK
  <2>3. UNCHANGED <<now, made, gone, files>>
    BY DEF Boot
  <2>4. QED
    BY <2>1, <2>2, <2>3 DEF CronInv, CronTypeOK, gone, files
<1>6. FileInv'
  BY DEF CronInv, CronTypeOK, FileInv, Boot, files
<1>7. loaded \subseteq made
  BY <1>2 DEF CronInv, CronTypeOK, FileInv
<1>8. ASSUME NEW v \in Windows PROVE Memory(v)'
  <2>1. UNCHANGED <<made, removed>> /\ at' = [at EXCEPT ![w] = "up"] /\ at[w] = "down"
    BY DEF Boot, gone
  <2>2. CASE v = w
    <3>1. removed'[v] = {} /\ known'[v] = loaded /\ DOMAIN jobs'[v] = loaded
      BY <1>1, <1>4, <2>1, <2>2 DEF CronInv, CronTypeOK, Memory
    <3>2. QED
      BY <1>2, <1>7, <2>1, <2>2, <3>1 DEF CronInv, CronTypeOK, Memory, Own
  <2>3. CASE v # w
    BY <1>1, <2>1, <2>3 DEF CronInv, CronTypeOK, Memory, Own
  <2>4. QED
    BY <2>2, <2>3
<1>9. QED
  BY <1>5, <1>6, <1>8 DEF CronInv

\* An operation of the scheduler: it gives the window another list of jobs
\* and forgets some.
LEMMA Operation ==
  ASSUME CronInv, NEW w \in Windows, at[w] = "up",
         NEW list \in JobLists, jobs' = [jobs EXCEPT ![w] = list],
         NEW S \in SUBSET DOMAIN jobs[w], Forget(w, S),
         DOMAIN jobs[w] \ S \subseteq DOMAIN list, DOMAIN list \cap S = {},
         DOMAIN list \subseteq made', made \subseteq made', made' \subseteq Jobs,
         DOMAIN list \cap removed[w] = {},
         DOMAIN list \cap Durable \subseteq known[w] \/ at'[w] = "read",
         NEW u \in {"read", "up"}, at' = [at EXCEPT ![w] = u],
         UNCHANGED <<now, known, boots, files>>
  PROVE  CronInv'
<1>1. S \subseteq made
  BY DEF CronInv, Memory
<1>2. CronTypeOK'
  <2>1. /\ at' \in [Windows -> {"down", "up", "read", "write"}] /\ jobs' \in [Windows -> JobLists]
    BY DEF CronInv, CronTypeOK
  <2>2. removed' \in [Windows -> SUBSET ended'] /\ ended' \subseteq made' /\ saved' \subseteq made'
    BY <1>1 DEF CronInv, CronTypeOK, Forget, files
  <2>3. QED
    BY <2>1, <2>2 DEF CronInv, CronTypeOK, files
<1>3. FileInv'
  BY DEF CronInv, CronTypeOK, FileInv, files
<1>4. ASSUME NEW v \in Windows PROVE Memory(v)'
  <2>1. CASE v = w
    <3>1. jobs'[v] = list /\ removed'[v] = removed[w] \cup S /\ known'[v] = known[w]
      BY <2>1 DEF CronInv, CronTypeOK, Forget
    <3>2. Own(w) \subseteq known[w] /\ Memory(w) /\ at'[v] # "down" /\ at'[v] # "write"
      BY <2>1 DEF CronInv, CronTypeOK, Memory
    <3>3. S \cap Durable \subseteq known[w]
      BY <3>2 DEF Own
    <3>4. QED
      BY <2>1, <3>1, <3>2, <3>3 DEF Memory, Own
  <2>2. CASE v # w
    <3>1. jobs'[v] = jobs[v] /\ removed'[v] = removed[v] /\ known'[v] = known[v] /\ at'[v] = at[v]
      BY <2>2 DEF CronInv, CronTypeOK, Forget
    <3>2. Memory(v)
      BY DEF CronInv
    <3>3. QED
      BY <3>1, <3>2 DEF Memory, Own
  <2>3. QED
    BY <2>1, <2>2
<1>5. QED
  BY <1>2, <1>3, <1>4 DEF CronInv

LEMMA CreateInv == ASSUME CronInv, NEW w \in Windows, NEW j \in Jobs, Create(w, j) PROVE CronInv'
<1>1. PICK next \in NextFires \ {0} :
        LET job == [next |-> next, expires |-> IF j \in Recurring THEN now + Expiry ELSE 0]
        IN  jobs' = [jobs EXCEPT ![w] = [i \in DOMAIN @ \cup {j} |-> IF i = j THEN job ELSE @[i]]]
  BY DEF Create
<1> DEFINE job == [next |-> next, expires |-> IF j \in Recurring THEN now + Expiry ELSE 0]
           list == [i \in DOMAIN jobs[w] \cup {j} |-> IF i = j THEN job ELSE jobs[w][i]]
<1>2. jobs' = [jobs EXCEPT ![w] = list]
  BY <1>1
<1>3. job \in Records
  <2>1. now \in 1 .. BoundTime
    BY DEF CronInv, CronTypeOK
  <2>2. next \in 0 .. BoundTime + 2
    BY <2>1 DEF NextFires
  <2>3. QED
    BY <2>1, <2>2 DEF Records
<1> HIDE DEF job
<1>4. list \in JobLists /\ DOMAIN list = DOMAIN jobs[w] \cup {j}
  <2>1. jobs[w] \in JobLists
    BY DEF CronInv, CronTypeOK
  <2>2. list \in [DOMAIN jobs[w] \cup {j} -> Records]
    BY <1>3, <2>1, ListParts
  <2>3. DOMAIN jobs[w] \cup {j} \in SUBSET Jobs
    BY <2>1, ListParts
  <2>4. QED
    BY <2>2, <2>3 DEF JobLists
<1> HIDE DEF list
<1>5. PICK u \in {"read", "up"} : at' = [at EXCEPT ![w] = u] /\ (j \in Durable => u = "read")
  BY DEF Create, Then
<1>6. /\ at[w] = "up" /\ j \notin made /\ made' = made \cup {j}
      /\ UNCHANGED <<now, known, boots, gone, files>>
  BY DEF Create
<1>7. Forget(w, {})
  BY <1>6 DEF CronInv, CronTypeOK, Forget, gone
<1>8. Memory(w) /\ removed[w] \subseteq made /\ made \subseteq Jobs /\ w \in DOMAIN at
  BY DEF CronInv, CronTypeOK
<1>9. DOMAIN list \cap Durable \subseteq known[w] \/ at'[w] = "read"
  BY <1>4, <1>5, <1>6, <1>8 DEF Memory, Own
<1>10. /\ DOMAIN list \subseteq made' /\ made' \subseteq Jobs /\ made \subseteq made'
       /\ DOMAIN list \cap removed[w] = {} /\ DOMAIN jobs[w] \subseteq DOMAIN list
  BY <1>4, <1>6, <1>8 DEF Memory
<1>11. QED
  BY <1>2, <1>4, <1>5, <1>6, <1>7, <1>9, <1>10, Operation

LEMMA DeleteInv == ASSUME CronInv, NEW w \in Windows, NEW j \in Jobs, Delete(w, j) PROVE CronInv'
<1> DEFINE list == [i \in DOMAIN jobs[w] \ {j} |-> jobs[w][i]]
<1>1. /\ at[w] = "up" /\ j \in DOMAIN jobs[w] /\ jobs' = [jobs EXCEPT ![w] = list]
      /\ Forget(w, {j}) /\ UNCHANGED <<now, made, known, boots, files>>
  BY DEF Delete
<1>2. list \in JobLists /\ DOMAIN list = DOMAIN jobs[w] \ {j}
  <2>1. jobs[w] \in JobLists
    BY DEF CronInv, CronTypeOK
  <2>2. list \in [DOMAIN jobs[w] \ {j} -> Records] /\ DOMAIN jobs[w] \ {j} \in SUBSET Jobs
    BY <2>1, ListParts
  <2>3. QED
    BY <2>2 DEF JobLists
<1> HIDE DEF list
<1>3. PICK u \in {"read", "up"} : at' = [at EXCEPT ![w] = u]
  BY DEF Delete, Then
<1>4. Memory(w) /\ made \subseteq Jobs /\ Own(w) \subseteq known[w]
  BY <1>1 DEF CronInv, CronTypeOK, Memory
<1>5. DOMAIN list \cap Durable \subseteq known[w]
  BY <1>2, <1>4 DEF Own
<1>6. DOMAIN list \subseteq made' /\ made' \subseteq Jobs /\ DOMAIN list \cap removed[w] = {}
  BY <1>1, <1>2, <1>4 DEF Memory
<1>7. QED
  BY <1>1, <1>2, <1>3, <1>5, <1>6, Operation

LEMMA TickInv == ASSUME CronInv, NEW w \in Windows, Tick(w) PROVE CronInv'
<1>1. PICK next \in [Due(w) \cap Recurring -> NextFires] :
        jobs' = [jobs EXCEPT ![w] =
          [j \in DOMAIN @ \ Gone(w) |->
             IF j \in Due(w) THEN [@[j] EXCEPT !.next = next[j]] ELSE @[j]]]
  BY DEF Tick
<1> DEFINE list == [j \in DOMAIN jobs[w] \ Gone(w) |->
                      IF j \in Due(w) THEN [jobs[w][j] EXCEPT !.next = next[j]] ELSE jobs[w][j]]
<1>2. jobs' = [jobs EXCEPT ![w] = list]
  BY <1>1
<1>3. /\ at[w] = "up" /\ Forget(w, Gone(w)) /\ UNCHANGED <<now, made, known, boots, files>>
  BY DEF Tick
<1>4. jobs[w] \in JobLists
  BY DEF CronInv, CronTypeOK
<1>5. Gone(w) \subseteq DOMAIN jobs[w]
  BY DEF Gone, Stale, Due
<1>6. ASSUME NEW j \in DOMAIN jobs[w] \ Gone(w) PROVE list[j] \in Records
  <2>1. jobs[w][j] \in Records
    BY <1>4, <1>6, ListParts
  <2>2. CASE j \in Due(w)
    <3>1. next[j] \in NextFires
      BY <1>6, <2>2 DEF Gone
    <3>2. next[j] \in 0 .. BoundTime + 2
      BY <3>1 DEF NextFires, CronInv, CronTypeOK
    <3>3. [jobs[w][j] EXCEPT !.next = next[j]] \in Records
      BY <2>1, <3>2 DEF Records
    <3>4. QED
      BY <1>6, <2>2, <3>3
  <2>3. CASE j \notin Due(w)
    BY <1>6, <2>1, <2>3
  <2>4. QED
    BY <2>2, <2>3
<1>7. list \in JobLists /\ DOMAIN list = DOMAIN jobs[w] \ Gone(w)
  <2>1. list \in [DOMAIN jobs[w] \ Gone(w) -> Records]
    BY <1>6
  <2>2. DOMAIN jobs[w] \ Gone(w) \in SUBSET Jobs
    BY <1>4, ListParts
  <2>3. QED
    BY <2>1, <2>2 DEF JobLists
<1> HIDE DEF list
<1>8. PICK u \in {"read", "up"} : at' = [at EXCEPT ![w] = u]
  BY DEF Tick, Then
<1>9. Memory(w) /\ made \subseteq Jobs /\ Own(w) \subseteq known[w]
  BY <1>3 DEF CronInv, CronTypeOK, Memory
<1>10. DOMAIN list \cap Durable \subseteq known[w]
  BY <1>7, <1>9 DEF Own
<1>11. DOMAIN list \subseteq made' /\ made' \subseteq Jobs /\ DOMAIN list \cap removed[w] = {}
  BY <1>3, <1>7, <1>9 DEF Memory
<1>12. QED
  BY <1>2, <1>3, <1>5, <1>7, <1>8, <1>10, <1>11, Operation

LEMMA NextInv == CronInv /\ [CronNext]_cronVars => CronInv'
<1> SUFFICES ASSUME CronInv, [CronNext]_cronVars PROVE CronInv'
  OBVIOUS
<1>1. CASE UNCHANGED cronVars
  <2>1. CronTypeOK'
    BY <1>1 DEF CronInv, CronTypeOK, cronVars, files, gone
  <2>2. FileInv'
    BY <1>1 DEF CronInv, FileInv, cronVars, files, gone
  <2>3. ASSUME NEW w \in Windows PROVE Memory(w)'
    BY <1>1 DEF CronInv, Memory, Own, cronVars, files, gone
  <2>4. QED
    BY <2>1, <2>2, <2>3 DEF CronInv
<1>2. CASE CronNext
  BY <1>2, AdvanceInv, SaveReadInv, SaveWriteInv, SaveFailsInv, BootInv, CrashInv, TickInv,
     CreateInv, DeleteInv DEF CronNext
<1>3. QED
  BY <1>1, <1>2

LEMMA CronInductive == CronSpec => []CronInv
BY InitInv, NextInv, PTL DEF CronSpec

-----------------------------------------------------------------------------
(* What the transcripts keep. *)

\* Every variable has its type, however many windows and jobs there are.
THEOREM CronTypeCorrect == CronSpec => []CronTypeOK
<1>1. CronInv => CronTypeOK
  BY DEF CronInv
<1>2. QED
  BY <1>1, CronInductive, PTL

\* Only a save that succeeds makes its window the writer.
LEMMA SaveStep ==
  ASSUME CronInv, [CronNext]_cronVars, NEW w \in Windows, Saves(w)
  PROVE  disk' = Content(w)
<1>1. at[w] = "write" /\ at'[w] = "up" /\ writer' = w /\ at \in [Windows -> {"down", "up", "read", "write"}]
  BY DEF Saves, CronInv, CronTypeOK
<1>2. ASSUME NEW v \in Windows, SaveWrite(v) PROVE disk' = Content(w)
  BY <1>1, <1>2 DEF SaveWrite
<1>3. ASSUME NEW v \in Windows, SaveFails(v) PROVE FALSE
  <2>1. v = w
    BY <1>1, <1>3 DEF SaveFails
  <2>2. QED
    BY <1>1, <1>3, <2>1 DEF SaveFails
<1>4. ASSUME NEW v \in Windows, SaveRead(v) \/ Boot(v) \/ Crash(v) PROVE FALSE
  <2>1. CASE SaveRead(v)
    BY <1>1, <2>1 DEF SaveRead
  <2>2. CASE Boot(v)
    BY <1>1, <2>2 DEF Boot
  <2>3. CASE Crash(v)
    BY <1>1, <2>3 DEF Crash
  <2>4. QED
    BY <1>4, <2>1, <2>2, <2>3
<1>5. ASSUME NEW v \in Windows, NEW j \in Jobs, Create(v, j) \/ Delete(v, j) PROVE FALSE
  <2>1. at[v] = "up" /\ \E u \in {"read", "up"} : at' = [at EXCEPT ![v] = u]
    BY <1>5 DEF Create, Delete, Then
  <2>2. QED
    BY <1>1, <2>1
<1>6. ASSUME NEW v \in Windows, Tick(v) PROVE FALSE
  <2>1. at[v] = "up" /\ \E u \in {"read", "up"} : at' = [at EXCEPT ![v] = u]
    BY <1>6 DEF Tick, Then
  <2>2. QED
    BY <1>1, <2>1
<1>7. CASE Advance \/ UNCHANGED cronVars
  BY <1>1, <1>7 DEF Advance, cronVars
<1>8. QED
  BY <1>2, <1>3, <1>4, <1>5, <1>6, <1>7 DEF CronNext

\* What a save leaves out, and that it carries the rest.
LEMMA ContentFacts ==
  ASSUME CronInv, NEW w \in Windows, at[w] = "write"
  PROVE  /\ DOMAIN Content(w) \cap removed[w] = {}
         /\ \A j \in DOMAIN read[w] : j \in removed[w] \cup DOMAIN Content(w)
<1>1. DOMAIN Content(w) = Own(w) \cup Foreign(w) /\ DOMAIN Content(w) \subseteq Durable
  BY ContentList DEF CronInv
<1>2. Memory(w) /\ DOMAIN read[w] \subseteq Durable
  BY DEF CronInv, CronTypeOK
<1>3. QED
  BY <1>1, <1>2 DEF Memory, Own, Foreign

\* For any number of windows: a window's save never brings back what the
\* window removed.
THEOREM DeletionsHold == CronSpec => RemovedStaysRemoved
<1>1. CronInv /\ [CronNext]_cronVars => [\A w \in Windows : Saves(w) => DOMAIN disk' \cap removed[w] = {}]_cronVars
  BY SaveStep, ContentFacts DEF Saves
<1>2. QED
  BY <1>1, CronInductive, PTL DEF CronSpec, RemovedStaysRemoved

\* For any number of windows: a save keeps what it read and its window never
\* held, unchanged.
THEOREM ForeignersHold == CronSpec => OthersAreKept
<1> DEFINE P == \A w \in Windows : Saves(w) =>
                  /\ DOMAIN disk \ DOMAIN disk' \subseteq removed[w] \cup (Jobs \ DOMAIN read[w])
                  /\ \A j \in DOMAIN disk' \ DOMAIN jobs[w] : disk'[j] = read[w][j]
<1>1. CronInv /\ [CronNext]_cronVars => P
  <2> SUFFICES ASSUME CronInv, [CronNext]_cronVars, NEW w \in Windows, Saves(w)
               PROVE  /\ DOMAIN disk \ DOMAIN disk' \subseteq removed[w] \cup (Jobs \ DOMAIN read[w])
                      /\ \A j \in DOMAIN disk' \ DOMAIN jobs[w] : disk'[j] = read[w][j]
    OBVIOUS
  <2>1. disk' = Content(w) /\ at[w] = "write"
    BY SaveStep DEF Saves
  <2>2. DOMAIN disk \subseteq Jobs
    BY ListParts DEF CronInv, CronTypeOK
  <2>3. \A j \in DOMAIN Content(w) :
          Content(w)[j] = IF j \in Own(w) THEN jobs[w][j] ELSE read[w][j]
    BY ContentList DEF CronInv
  <2>4. QED
    BY <2>1, <2>2, <2>3, ContentFacts DEF Own
<1>2. QED
  BY <1>1, CronInductive, PTL DEF CronSpec, OthersAreKept

-----------------------------------------------------------------------------
(* What the file holds between saves. *)

\* After a step that leaves the file alone, a window that is the writer still
\* and at rest was so before, unless an operation of its own has just ended
\* without a save; such an operation touches no durable job.
LEMMA QuietStep ==
  ASSUME CronInv, CronNext, UNCHANGED disk, ~(\E v \in Windows : SaveWrite(v)),
         NEW w \in Windows, writer' = w, at'[w] = "up"
  PROVE  /\ writer = w /\ at[w] = "up"
         /\ Own(w)' = Own(w)
         /\ \A j \in Own(w) : jobs'[w][j] = jobs[w][j]
         /\ removed'[w] \cap Durable = removed[w] \cap Durable
<1>1. /\ at \in [Windows -> {"down", "up", "read", "write"}] /\ jobs \in [Windows -> JobLists]
      /\ removed \in [Windows -> SUBSET ended]
      /\ at[w] = "down" => writer # w
  BY DEF CronInv, CronTypeOK, FileInv
<1>2. ASSUME Advance PROVE UNCHANGED <<writer, at, jobs, removed>>
  BY <1>2 DEF Advance, files, gone
<1>3. ASSUME NEW v \in Windows, SaveRead(v)
      PROVE  writer = w /\ at[w] = "up" /\ UNCHANGED <<jobs, removed>>
  BY <1>1, <1>3 DEF SaveRead, gone
<1>4. ASSUME NEW v \in Windows, SaveFails(v)
      PROVE  writer = w /\ at[w] = "up" /\ UNCHANGED <<jobs, removed>>
  BY <1>1, <1>4 DEF SaveFails, gone
<1>5. ASSUME NEW v \in Windows, Boot(v)
      PROVE  writer = w /\ at[w] = "up" /\ jobs'[w] = jobs[w] /\ removed'[w] = removed[w]
  <2>1. PICK f : jobs' = [jobs EXCEPT ![v] = f]
    BY <1>5 DEF Boot
  <2>2. writer' = writer /\ at[v] = "down" /\ at' = [at EXCEPT ![v] = "up"] /\ removed' = removed
    BY <1>5 DEF Boot, files, gone
  <2>3. v # w
    BY <1>1, <2>2
  <2>4. QED
    BY <1>1, <2>1, <2>2, <2>3
<1>6. ASSUME NEW v \in Windows, Crash(v)
      PROVE  writer = w /\ at[w] = "up" /\ jobs'[w] = jobs[w] /\ removed'[w] = removed[w]
  BY <1>1, <1>6 DEF Crash
<1>7. ASSUME NEW v \in Windows, NEW j \in Jobs, Create(v, j)
      PROVE  /\ writer = w /\ at[w] = "up" /\ Own(w)' = Own(w) /\ removed'[w] = removed[w]
             /\ \A i \in Own(w) : jobs'[w][i] = jobs[w][i]
  <2>1. /\ writer' = writer /\ removed' = removed /\ at[v] = "up" /\ Then(v, j \in Durable) /\ j \notin made
    BY <1>7 DEF Create, files, gone
  <2>0. PICK next \in NextFires \ {0} :
          LET job == [next |-> next, expires |-> IF j \in Recurring THEN now + Expiry ELSE 0]
          IN  jobs' = [jobs EXCEPT ![v] = [i \in DOMAIN @ \cup {j} |-> IF i = j THEN job ELSE @[i]]]
    BY <1>7, Zenon DEF Create
  <2>2. PICK job : jobs' = [jobs EXCEPT ![v] = [i \in DOMAIN @ \cup {j} |-> IF i = j THEN job ELSE @[i]]]
    BY <2>0, Zenon
  <2>3. CASE v # w
    BY <1>1, <2>1, <2>2, <2>3 DEF Then, Own
  <2>4. CASE v = w
    <3>1. j \notin Durable /\ at[w] = "up"
      BY <1>1, <2>1, <2>4 DEF Then
    <3>2. /\ DOMAIN jobs'[w] = DOMAIN jobs[w] \cup {j}
          /\ \A i \in DOMAIN jobs[w] : i # j => jobs'[w][i] = jobs[w][i]
      BY <1>1, <2>2, <2>4
    <3>3. QED
      BY <2>1, <3>1, <3>2 DEF Own
  <2>5. QED
    BY <2>3, <2>4
<1>8. ASSUME NEW v \in Windows, NEW j \in Jobs, Delete(v, j)
      PROVE  /\ writer = w /\ at[w] = "up" /\ Own(w)' = Own(w)
             /\ removed'[w] \cap Durable = removed[w] \cap Durable
             /\ \A i \in Own(w) : jobs'[w][i] = jobs[w][i]
  <2>1. /\ writer' = writer /\ Forget(v, {j}) /\ at[v] = "up" /\ Then(v, j \in Durable)
        /\ jobs' = [jobs EXCEPT ![v] = [i \in DOMAIN @ \ {j} |-> @[i]]]
    BY <1>8 DEF Delete, files
  <2>2. CASE v # w
    BY <1>1, <2>1, <2>2 DEF Then, Own, Forget
  <2>3. CASE v = w
    <3>1. j \notin Durable
      BY <1>1, <2>1, <2>3 DEF Then
    <3>2. /\ DOMAIN jobs'[w] = DOMAIN jobs[w] \ {j} /\ removed'[w] = removed[w] \cup {j}
          /\ \A i \in DOMAIN jobs[w] \ {j} : jobs'[w][i] = jobs[w][i]
      BY <1>1, <2>1, <2>3 DEF Forget
    <3>3. QED
      BY <2>1, <2>3, <3>1, <3>2 DEF Own
  <2>4. QED
    BY <2>2, <2>3
<1>9. ASSUME NEW v \in Windows, Tick(v)
      PROVE  /\ writer = w /\ at[w] = "up" /\ Own(w)' = Own(w)
             /\ removed'[w] \cap Durable = removed[w] \cap Durable
             /\ \A i \in Own(w) : jobs'[w][i] = jobs[w][i]
  <2>1. /\ writer' = writer /\ Forget(v, Gone(v)) /\ at[v] = "up" /\ Then(v, Touched(v) \cap Durable # {})
    BY <1>9 DEF Tick, files
  <2>2. PICK next : jobs' = [jobs EXCEPT ![v] =
                      [j \in DOMAIN @ \ Gone(v) |->
                         IF j \in Due(v) THEN [@[j] EXCEPT !.next = next[j]] ELSE @[j]]]
    BY <1>9 DEF Tick
  <2>3. CASE v # w
    BY <1>1, <2>1, <2>2, <2>3 DEF Then, Own, Forget
  <2>4. CASE v = w
    <3>1. Touched(w) \cap Durable = {}
      BY <1>1, <2>1, <2>4 DEF Then
    <3>2. Gone(w) \cap Durable = {} /\ Due(w) \cap Durable = {}
      BY <3>1 DEF Touched, Gone
    <3>3. /\ DOMAIN jobs'[w] = DOMAIN jobs[w] \ Gone(w)
          /\ \A j \in DOMAIN jobs[w] \ (Gone(w) \cup Due(w)) : jobs'[w][j] = jobs[w][j]
          /\ removed'[w] = removed[w] \cup Gone(w)
      BY <1>1, <2>1, <2>2, <2>4 DEF Forget
    <3>4. QED
      BY <2>1, <2>4, <3>2, <3>3 DEF Own
  <2>5. QED
    BY <2>3, <2>4
<1>10. QED
  BY <1>2, <1>3, <1>4, <1>5, <1>6, <1>7, <1>8, <1>9 DEF CronNext, Own

FileHolds == FileMatchesWriter /\ NoneIsLost

LEMMA FileHoldsStep == CronInv /\ FileHolds /\ [CronNext]_cronVars => FileHolds'
<1> SUFFICES ASSUME CronInv, FileHolds, [CronNext]_cronVars PROVE FileHolds'
  OBVIOUS
<1>1. ASSUME NEW v \in Windows, SaveWrite(v) PROVE FileHolds'
  <2>1. /\ disk' = Content(v) /\ writer' = v /\ at[v] = "write" /\ saved' = saved \cup DOMAIN disk'
        /\ overlap' = (overlap \/ read[v] # disk) /\ UNCHANGED <<jobs, removed, ended>>
    BY <1>1 DEF SaveWrite, gone
  <2>2. /\ DOMAIN Content(v) \cap removed[v] = {}
        /\ \A j \in DOMAIN read[v] : j \in removed[v] \cup DOMAIN Content(v)
    BY <2>1, ContentFacts
  <2>3. /\ DOMAIN Content(v) = Own(v) \cup Foreign(v)
        /\ \A j \in Own(v) : Content(v)[j] = jobs[v][j]
    BY ContentList DEF CronInv
  <2>4. FileMatchesWriter'
    BY <2>1, <2>2, <2>3 DEF FileMatchesWriter, Own
  <2>5. NoneIsLost'
    <3>1. removed[v] \subseteq ended
      BY DEF CronInv, CronTypeOK
    <3>2. QED
      BY <2>1, <2>2, <3>1 DEF FileHolds, NoneIsLost
  <2>6. QED
    BY <2>4, <2>5 DEF FileHolds
<1>2. CASE CronNext /\ ~(\E v \in Windows : SaveWrite(v))
  <2>1. UNCHANGED <<disk, saved, overlap>> /\ ended \subseteq ended'
    BY <1>2 DEF CronNext, Advance, SaveRead, SaveFails, Boot, Crash, Tick, Create, Delete, Forget, files, gone
  <2>2. ASSUME NEW w \in Windows, writer' = w, at'[w] = "up"
        PROVE  /\ \A j \in Own(w)' : j \in DOMAIN disk' /\ disk'[j] = jobs'[w][j]
               /\ DOMAIN disk' \cap removed'[w] = {}
    <3>1. /\ writer = w /\ at[w] = "up" /\ Own(w)' = Own(w)
          /\ \A j \in Own(w) : jobs'[w][j] = jobs[w][j]
          /\ removed'[w] \cap Durable = removed[w] \cap Durable
      BY <1>2, <2>1, <2>2, QuietStep
    <3>2. DOMAIN disk \subseteq Durable
      BY DEF CronInv, CronTypeOK
    <3>3. QED
      BY <2>1, <3>1, <3>2 DEF FileHolds, FileMatchesWriter
  <2>3. NoneIsLost'
    BY <2>1 DEF FileHolds, NoneIsLost
  <2>4. QED
    BY <2>2, <2>3 DEF FileHolds, FileMatchesWriter
<1>3. CASE UNCHANGED cronVars
  BY <1>3 DEF FileHolds, FileMatchesWriter, NoneIsLost, Own, cronVars, files, gone
<1>4. QED
  BY <1>1, <1>2, <1>3

LEMMA FileHoldsAlways == CronSpec => []FileHolds
<1>1. CronInit => FileHolds
  BY DEF CronInit, FileHolds, FileMatchesWriter, NoneIsLost
<1>2. QED
  BY <1>1, CronInductive, FileHoldsStep, PTL DEF CronSpec

\* For any number of windows: the file has the last writer's durable jobs as
\* the writer holds them, and nothing it removed.
THEOREM WriterIsOnFile == CronSpec => []FileMatchesWriter
<1>1. FileHolds => FileMatchesWriter
  BY DEF FileHolds
<1>2. QED
  BY <1>1, FileHoldsAlways, PTL

\* For any number of windows and restarts: without overlapping saves no job
\* leaves the file but by removal.
THEOREM NoJobIsLost == CronSpec => []NoneIsLost
<1>1. FileHolds => NoneIsLost
  BY DEF FileHolds
<1>2. QED
  BY <1>1, FileHoldsAlways, PTL

-----------------------------------------------------------------------------
(* Numbers: induction over a set of them, greatest elements, iteration.    *)

\* What holds of 0 and is handed on to the next holds of all: otherwise there
\* would be a least one of which it does not.
LEMMA Induction ==
  ASSUME NEW S, 0 \in S, \A n \in Nat : n \in S => n + 1 \in S
  PROVE  Nat \subseteq S
<1> SUFFICES ASSUME Nat \ S # {} PROVE FALSE
  OBVIOUS
<1> DEFINE R == OpToRel(<, Nat)
<1>1. IsWellFoundedOn(R, Nat)
  BY NatLessThanWellFounded
<1>2. \A x, y \in Nat : <<x, y>> \in R <=> x < y
  BY DEF OpToRel
<1> HIDE DEF R
<1>3. PICK x \in Nat \ S : \A y \in Nat \ S : ~(<<y, x>> \in R)
  BY <1>1, WFMin
<1>4. x # 0 /\ x - 1 \in Nat /\ x - 1 < x
  BY <1>3
<1>5. x - 1 \in S
  BY <1>2, <1>3, <1>4
<1>6. (x - 1) + 1 \in S
  BY <1>4, <1>5
<1>7. QED
  BY <1>3, <1>6

\* A set of places of a sequence has a last one.
LEMMA MaxIs ==
  ASSUME NEW n \in Nat, NEW T \in SUBSET (1 .. n), T # {}
  PROVE  Max(T) \in T /\ \A y \in T : y <= Max(T)
<1>1. \A m \in Nat : T \subseteq 1 .. m => \E x \in T : \A y \in T : y <= x
  <2> DEFINE S == {m \in Nat : T \subseteq 1 .. m => \E x \in T : \A y \in T : y <= x}
  <2>1. 0 \in S
    <3>1. PICK t \in T : TRUE
      OBVIOUS
    <3>2. ~(t \in 1 .. 0)
      OBVIOUS
    <3>3. ~(T \subseteq 1 .. 0)
      BY <3>1, <3>2
    <3>4. QED
      BY <3>3
  <2>2. \A m \in Nat : m \in S => m + 1 \in S
    <3> SUFFICES ASSUME NEW m \in Nat, T \subseteq 1 .. m => \E x \in T : \A y \in T : y <= x,
                        T \subseteq 1 .. m + 1
                 PROVE  \E x \in T : \A y \in T : y <= x
      OBVIOUS
    <3>1. CASE m + 1 \in T
      BY <3>1
    <3>2. CASE m + 1 \notin T
      <4>1. T \subseteq 1 .. m
        BY <3>2
      <4>2. QED
        BY <4>1
    <3>3. QED
      BY <3>1, <3>2
  <2> HIDE DEF S
  <2>3. Nat \subseteq S
    BY <2>1, <2>2, Induction
  <2>4. QED
    BY <2>3 DEF S
<1>2. \E x \in T : \A y \in T : y <= x
  BY <1>1
<1>3. \E x \in T : \A y \in T : x >= y
  <2>1. PICK x \in T : \A y \in T : y <= x
    BY <1>2
  <2>2. \A y \in T : x >= y
    BY <2>1
  <2>3. QED
    BY <2>2
<1>4. Max(T) \in T /\ \A y \in T : Max(T) >= y
  BY <1>3 DEF Max
<1>5. QED
  BY <1>4

\* A function can be iterated.
LEMMA Iteration ==
  ASSUME NEW X, NEW x0 \in X, NEW h \in [X -> X]
  PROVE  \E f \in [Nat -> X] : f[0] = x0 /\ \A n \in Nat : f[n + 1] = h[f[n]]
<1> DEFINE Runs(g, n) == g \in [0 .. n -> X] /\ g[0] = x0 /\ \A k \in 0 .. n : k # n => g[k + 1] = h[g[k]]
<1>1. \A n \in Nat : \E g : Runs(g, n)
  <2> DEFINE S == {n \in Nat : \E g : Runs(g, n)}
  <2>1. 0 \in S
    <3>1. Runs([k \in 0 .. 0 |-> x0], 0)
      OBVIOUS
    <3>2. QED
      BY <3>1
  <2>2. ASSUME NEW n \in Nat, n \in S PROVE n + 1 \in S
    <3>1. PICK g : Runs(g, n)
      BY <2>2
    <3> DEFINE e == [k \in 0 .. n + 1 |-> IF k = n + 1 THEN h[g[n]] ELSE g[k]]
    <3>2. g[n] \in X /\ h[g[n]] \in X
      BY <3>1
    <3>3. e \in [0 .. n + 1 -> X] /\ e[0] = x0
      BY <3>1, <3>2
    <3>4. ASSUME NEW k \in 0 .. n + 1, k # n + 1 PROVE e[k + 1] = h[e[k]]
      <4>1. k \in 0 .. n /\ e[k] = g[k]
        BY <3>4
      <4>2. CASE k = n
        BY <4>1, <4>2
      <4>3. CASE k # n
        <5>1. k + 1 \in 0 .. n + 1 /\ k + 1 # n + 1 /\ e[k + 1] = g[k + 1]
          BY <4>1, <4>3
        <5>2. QED
          BY <5>1, <4>1, <4>3, <3>1
      <4>4. QED
        BY <4>2, <4>3
    <3> HIDE DEF e
    <3>5. Runs(e, n + 1)
      BY <3>3, <3>4
    <3>6. QED
      BY <3>5
  <2> HIDE DEF S
  <2>3. Nat \subseteq S
    BY <2>1, <2>2, Induction
  <2>4. QED
    BY <2>3 DEF S
<1>2. ASSUME NEW n \in Nat, NEW m \in Nat, NEW g, NEW e, Runs(g, n), Runs(e, m)
      PROVE  \A k \in Nat : k <= n /\ k <= m => g[k] = e[k]
  <2> DEFINE S == {k \in Nat : k <= n /\ k <= m => g[k] = e[k]}
  <2>1. 0 \in S
    BY <1>2
  <2>2. ASSUME NEW k \in Nat, k \in S PROVE k + 1 \in S
    <3> SUFFICES ASSUME k + 1 <= n, k + 1 <= m PROVE g[k + 1] = e[k + 1]
      OBVIOUS
    <3>1. k \in 0 .. n /\ k # n /\ k \in 0 .. m /\ k # m /\ g[k] = e[k]
      BY <2>2
    <3>2. QED
      BY <3>1, <1>2
  <2> HIDE DEF S
  <2>3. Nat \subseteq S
    BY <2>1, <2>2, Induction
  <2>4. QED
    BY <2>3 DEF S
<1> DEFINE At(n) == CHOOSE g : Runs(g, n)
           f == [n \in Nat |-> At(n)[n]]
<1>3. \A n \in Nat : Runs(At(n), n)
  BY <1>1
<1> HIDE DEF At
<1>4. f \in [Nat -> X] /\ f[0] = x0
  BY <1>3
<1>5. ASSUME NEW n \in Nat PROVE f[n + 1] = h[f[n]]
  <2>1. Runs(At(n), n) /\ Runs(At(n + 1), n + 1)
    BY <1>3
  <2> HIDE DEF Runs
  <2>2. At(n)[n] = At(n + 1)[n]
    BY <1>2, <2>1
  <2>3. At(n + 1)[n + 1] = h[At(n + 1)[n]]
    BY <2>1 DEF Runs
  <2>4. QED
    BY <2>2, <2>3
<1>6. QED
  BY <1>4, <1>5

-----------------------------------------------------------------------------
(* Transcript files, line by line. *)

USE TranscriptAssumption

Placed(f, id) == \E i \in 1 .. Len(f) : IsMessage(f[i]) /\ f[i].id = id
Single(f) == \A i, j \in MessagesAt(f) : f[i].id = f[j].id => i = j

\* Which lines are messages.
LEMMA LinesAre ==
  /\ Torn \in Lines /\ Broken \in Lines /\ Note \in Lines /\ ~IsMessage(Torn) /\ ~IsMessage(Broken) /\ ~IsMessage(Note)
  /\ Torn # Broken
  /\ \A id \in Nat, parent \in Nat :
       /\ Line("message", id, parent) \in Lines /\ IsMessage(Line("message", id, parent))
       /\ Line("message", id, parent).id = id
  /\ \A id \in Nat : Line("boundary", id, 0) \in Lines /\ ~IsMessage(Line("boundary", id, 0))
  /\ Line("start", 0, 0) \in Lines /\ ~IsMessage(Line("start", 0, 0))
  /\ Line("fork", 0, 0) \in Lines /\ ~IsMessage(Line("fork", 0, 0))
BY DEF Torn, Broken, Note, Line, Lines, IsMessage

\* A file's messages, by place and by ID.
LEMMA IdsAre ==
  ASSUME NEW f \in Seq(Lines)
  PROVE  /\ Len(f) \in Nat /\ DOMAIN f = 1 .. Len(f) /\ \A i \in 1 .. Len(f) : f[i] \in Lines /\ f[i].id \in Nat
         /\ MessagesAt(f) = {i \in 1 .. Len(f) : IsMessage(f[i])}
         /\ Ids(f) \subseteq Nat
         /\ \A id : id \in Ids(f) <=> Placed(f, id)
<1>1. Len(f) \in Nat /\ DOMAIN f = 1 .. Len(f) /\ \A i \in 1 .. Len(f) : f[i] \in Lines
  OBVIOUS
<1>2. \A i \in 1 .. Len(f) : f[i].id \in Nat
  BY <1>1 DEF Lines
<1>3. MessagesAt(f) = {i \in 1 .. Len(f) : IsMessage(f[i])}
  BY <1>1 DEF MessagesAt
<1>4. \A id : id \in Ids(f) <=> Placed(f, id)
  BY <1>3 DEF Ids, Placed
<1>5. Ids(f) \subseteq Nat
  BY <1>2, <1>3 DEF Ids
<1>6. QED
  BY <1>1, <1>2, <1>3, <1>4, <1>5

\* The first lines of a file.
LEMMA PrefixIs ==
  ASSUME NEW f \in Seq(Lines), NEW n \in 0 .. Len(f)
  PROVE  /\ SubSeq(f, 1, n) \in Seq(Lines) /\ Len(SubSeq(f, 1, n)) = n
         /\ \A i \in 1 .. n : SubSeq(f, 1, n)[i] = f[i]
OBVIOUS

\* All but the last line.
LEMMA FrontIs ==
  ASSUME NEW f \in Seq(Lines), f # <<>>
  PROVE  /\ Len(f) \in Nat /\ Len(f) >= 1 /\ Last(f) = f[Len(f)]
         /\ Front(f) \in Seq(Lines) /\ Len(Front(f)) = Len(f) - 1
         /\ \A i \in 1 .. Len(f) - 1 : Front(f)[i] = f[i]
<1>1. Len(f) \in Nat /\ Len(f) >= 1
  OBVIOUS
<1>2. Len(f) - 1 \in 0 .. Len(f) /\ Front(f) = SubSeq(f, 1, Len(f) - 1)
  BY <1>1 DEF Front
<1>3. QED
  BY <1>1, <1>2, PrefixIs DEF Last

\* A line at the end of a file.
LEMMA AppendIs ==
  ASSUME NEW f \in Seq(Lines), NEW line \in Lines
  PROVE  /\ Append(f, line) \in Seq(Lines) /\ Len(Append(f, line)) = Len(f) + 1
         /\ \A i \in 1 .. Len(f) : Append(f, line)[i] = f[i]
         /\ Append(f, line)[Len(f) + 1] = line
OBVIOUS

\* What an append may do to a file: it adds the line, or turns a torn end into
\* a broken line.
Grown(f, g, line) ==
  /\ g \in Seq(Lines) /\ Len(g) >= Len(f) /\ g # <<>>
  /\ \A i \in 1 .. Len(f) : g[i] = f[i] \/ (g[i] = Broken /\ f[i] = Torn)
  /\ \/ Len(g) = Len(f) + 1 /\ g[Len(g)] = line /\ (Len(f) >= 1 => f[Len(f)] # Torn)
     \/ Len(g) = Len(f) /\ g[Len(g)] = Broken

LEMMA AppendedGrows ==
  ASSUME NEW f \in Seq(Lines), NEW line \in Lines
  PROVE  Grown(f, Appended(f, line), line)
<1>1. CASE f # <<>> /\ Last(f) = Torn
  <2>1. Len(f) \in Nat /\ Len(f) >= 1 /\ f[Len(f)] = Torn
    BY <1>1 DEF Last
  <2>2. Front(f) \in Seq(Lines) /\ Len(Front(f)) = Len(f) - 1 /\ \A i \in 1 .. Len(f) - 1 : Front(f)[i] = f[i]
    BY <1>1, FrontIs
  <2> DEFINE p == Front(f)
  <2> HIDE DEF p
  <2>4. p \in Seq(Lines) /\ Len(p) = Len(f) - 1 /\ \A i \in 1 .. Len(f) - 1 : p[i] = f[i]
    BY <2>2 DEF p
  <2>5. Appended(f, line) = Append(p, Broken)
    BY <1>1 DEF Appended, p
  <2> DEFINE g == Append(p, Broken)
  <2>6. g \in Seq(Lines) /\ Len(g) = Len(f) /\ g[Len(f)] = Broken /\ \A i \in 1 .. Len(f) - 1 : g[i] = f[i]
    <3>1. Broken \in Lines
      BY LinesAre
    <3>2. g \in Seq(Lines) /\ Len(g) = Len(p) + 1 /\ g[Len(p) + 1] = Broken /\ \A i \in 1 .. Len(p) : g[i] = p[i]
      BY <2>4, <3>1, AppendIs
    <3>3. Len(p) + 1 = Len(f)
      BY <2>1, <2>4
    <3> HIDE DEF g
    <3>4. QED
      BY <2>1, <2>4, <3>2, <3>3
  <2> HIDE DEF g
  <2>7. \A i \in 1 .. Len(f) : i = Len(f) \/ i \in 1 .. Len(f) - 1
    BY <2>1
  <2>8. Len(g) >= Len(f) /\ g # <<>>
    BY <2>1, <2>6
  <2>9. QED
    BY <2>1, <2>5, <2>6, <2>7, <2>8 DEF Grown, g
<1>2. CASE ~(f # <<>> /\ Last(f) = Torn)
  <2> DEFINE g == Append(f, line)
  <2>1. Appended(f, line) = g
    BY <1>2 DEF Appended
  <2>2. g \in Seq(Lines) /\ Len(g) = Len(f) + 1 /\ g[Len(f) + 1] = line /\ \A i \in 1 .. Len(f) : g[i] = f[i]
    BY AppendIs
  <2>3. Len(f) \in Nat /\ (Len(f) >= 1 => f[Len(f)] # Torn)
    BY <1>2 DEF Last
  <2> HIDE DEF g
  <2>4. Len(g) >= Len(f) /\ g # <<>>
    BY <2>2, <2>3
  <2>5. QED
    BY <2>1, <2>2, <2>3, <2>4 DEF Grown
<1>3. QED
  BY <1>1, <1>2

\* What such a file has of messages.
LEMMA GrownIds ==
  ASSUME NEW f \in Seq(Lines), NEW g, NEW line \in Lines, Grown(f, g, line)
  PROVE  /\ Ids(f) \subseteq Ids(g)
         /\ Ids(g) \subseteq Ids(f) \cup (IF IsMessage(line) THEN {line.id} ELSE {})
         /\ \A id \in Ids(g) : id \in Ids(f) \/ (IsMessage(line) /\ id = line.id)
         /\ Single(f) /\ (IsMessage(line) => line.id \notin Ids(f)) => Single(g)
         /\ IsMessage(line) => line.id \in Ids(g) \/ \E i \in 1 .. Len(g) : g[i] = Broken
<1>1. /\ Len(f) \in Nat /\ Len(g) \in Nat /\ g \in Seq(Lines) /\ Len(g) >= Len(f) /\ Len(g) >= 1
      /\ ~IsMessage(Torn) /\ ~IsMessage(Broken)
  BY LinesAre DEF Grown
<1>2. \A i \in 1 .. Len(f) : IsMessage(f[i]) => i \in 1 .. Len(g) /\ g[i] = f[i]
  BY <1>1 DEF Grown
<1>3. \A i \in 1 .. Len(g) : IsMessage(g[i]) =>
        \/ i \in 1 .. Len(f) /\ g[i] = f[i]
        \/ i = Len(f) + 1 /\ Len(g) = Len(f) + 1 /\ g[i] = line
  BY <1>1 DEF Grown
<1>4. Ids(f) \subseteq Ids(g)
  BY <1>1, <1>2, IdsAre DEF Placed
<1>5. \A id \in Ids(g) : id \in Ids(f) \/ (IsMessage(line) /\ id = line.id)
  <2> SUFFICES ASSUME NEW id \in Ids(g) PROVE id \in Ids(f) \/ (IsMessage(line) /\ id = line.id)
    OBVIOUS
  <2>1. PICK i \in 1 .. Len(g) : IsMessage(g[i]) /\ g[i].id = id
    BY <1>1, IdsAre DEF Placed
  <2>2. CASE i \in 1 .. Len(f) /\ g[i] = f[i]
    <3>1. Placed(f, id)
      BY <2>1, <2>2 DEF Placed
    <3>2. QED
      BY <3>1, IdsAre
  <2>3. CASE g[i] = line
    BY <2>1, <2>3
  <2>4. QED
    BY <2>1, <2>2, <2>3, <1>3
<1>6. ASSUME Single(f), IsMessage(line) => line.id \notin Ids(f) PROVE Single(g)
  <2> SUFFICES ASSUME NEW i \in 1 .. Len(g), NEW j \in 1 .. Len(g), IsMessage(g[i]), IsMessage(g[j]),
                      g[i].id = g[j].id
               PROVE  i = j
    <3>1. MessagesAt(g) = {i \in 1 .. Len(g) : IsMessage(g[i])}
      BY <1>1, IdsAre
    <3>2. QED
      BY <3>1 DEF Single
  <2>1. CASE i \in 1 .. Len(f) /\ j \in 1 .. Len(f)
    <3>1. g[i] = f[i] /\ g[j] = f[j]
      BY <1>1, <1>3, <2>1
    <3>2. i \in MessagesAt(f) /\ j \in MessagesAt(f)
      BY <2>1, <3>1, IdsAre
    <3>3. QED
      BY <3>1, <3>2, <1>6 DEF Single
  <2>2. ASSUME NEW k \in 1 .. Len(f), g[k] = f[k], IsMessage(f[k]), IsMessage(line), f[k].id = line.id PROVE FALSE
    <3>1. Placed(f, line.id)
      BY <2>2 DEF Placed
    <3>2. QED
      BY <3>1, <2>2, <1>6, IdsAre
  <2>3. CASE i = Len(f) + 1 /\ j \in 1 .. Len(f)
    BY <1>1, <1>3, <2>2, <2>3
  <2>4. CASE j = Len(f) + 1 /\ i \in 1 .. Len(f)
    BY <1>1, <1>3, <2>2, <2>4
  <2>5. QED
    BY <1>3, <2>1, <2>3, <2>4
<1>7. ASSUME IsMessage(line) PROVE line.id \in Ids(g) \/ \E i \in 1 .. Len(g) : g[i] = Broken
  <2>1. Len(g) \in 1 .. Len(g)
    BY <1>1
  <2>2. g[Len(g)] = line \/ g[Len(g)] = Broken
    BY DEF Grown
  <2>3. CASE g[Len(g)] = line
    <3>1. Placed(g, line.id)
      BY <1>7, <2>1, <2>3 DEF Placed
    <3>2. QED
      BY <1>1, <3>1, IdsAre
  <2>4. QED
    BY <2>1, <2>2, <2>3
<1>8. QED
  BY <1>4, <1>5, <1>6, <1>7

\* Some lines of a file kept, in place.
LEMMA CutIds ==
  ASSUME NEW f \in Seq(Lines), NEW g \in Seq(Lines), Len(g) <= Len(f) + 1,
         \A i \in 1 .. Len(g) : IsMessage(g[i]) => i \in 1 .. Len(f) /\ g[i] = f[i]
  PROVE  Ids(g) \subseteq Ids(f) /\ (Single(f) => Single(g))
<1>1. Ids(g) \subseteq Ids(f)
  <2> SUFFICES ASSUME NEW id \in Ids(g) PROVE id \in Ids(f)
    OBVIOUS
  <2>1. PICK i \in 1 .. Len(g) : IsMessage(g[i]) /\ g[i].id = id
    BY IdsAre DEF Placed
  <2>2. Placed(f, id)
    BY <2>1 DEF Placed
  <2>3. QED
    BY <2>2, IdsAre
<1>2. ASSUME Single(f) PROVE Single(g)
  <2> SUFFICES ASSUME NEW i \in 1 .. Len(g), NEW j \in 1 .. Len(g), IsMessage(g[i]), IsMessage(g[j]),
                      g[i].id = g[j].id
               PROVE  i = j
    <3>1. MessagesAt(g) = {i \in 1 .. Len(g) : IsMessage(g[i])}
      BY IdsAre
    <3>2. QED
      BY <3>1 DEF Single
  <2>1. i \in MessagesAt(f) /\ j \in MessagesAt(f) /\ f[i].id = f[j].id
    BY IdsAre
  <2>2. QED
    BY <2>1, <1>2 DEF Single
<1>3. QED
  BY <1>1, <1>2

\* The ID at the last of some messages is the ID of one.
LEMMA LastOfIs ==
  ASSUME NEW f \in Seq(Lines), NEW T \in SUBSET MessagesAt(f)
  PROVE  /\ T = {} => LastOf(f, T) = 0
         /\ T # {} => LastOf(f, T) \in Ids(f)
<1>1. Len(f) \in Nat /\ T \in SUBSET (1 .. Len(f))
  BY IdsAre
<1>2. ASSUME T # {} PROVE LastOf(f, T) \in Ids(f)
  <2>1. Max(T) \in T
    BY <1>1, <1>2, MaxIs
  <2>2. Max(T) \in 1 .. Len(f) /\ IsMessage(f[Max(T)]) /\ LastOf(f, T) = f[Max(T)].id
    BY <1>2, <2>1, IdsAre DEF LastOf
  <2>3. Placed(f, LastOf(f, T))
    BY <2>2 DEF Placed
  <2>4. QED
    BY <2>3, IdsAre
<1>3. QED
  BY <1>2 DEF LastOf

Chains(f) == Seq(Ids(f)) \ {<<>>}

\* A chain goes on with messages of its file.
LEMMA ExtendedIs ==
  ASSUME NEW f \in Seq(Lines), NEW c \in Chains(f)
  PROVE  Extended(f, c) \in Chains(f)
<1> DEFINE up == ParentOf(f, Head(c))
<1> HIDE DEF up
<1>1. Extended(f, c) = c \/ (up \in Ids(f) /\ Extended(f, c) = <<up>> \o c)
  BY DEF Extended, up
<1>2. CASE up \in Ids(f) /\ Extended(f, c) = <<up>> \o c
  <2>1. c \in Seq(Ids(f)) /\ <<up>> \in Seq(Ids(f)) /\ Len(<<up>>) = 1 /\ Len(c) \in Nat
    BY <1>2 DEF Chains
  <2>2. <<up>> \o c \in Seq(Ids(f)) /\ Len(<<up>> \o c) # 0
    BY <2>1
  <2>3. <<up>> \o c # <<>>
    BY <2>2
  <2>4. QED
    BY <1>2, <2>2, <2>3 DEF Chains
<1>3. QED
  BY <1>1, <1>2

SelfMaps(X) == [X -> X]
Orbits(X, x0, h) == {g \in [Nat -> X] : g[0] = x0 /\ \A n \in Nat : g[n + 1] = h[g[n]]}

\* Iteration once more, without naming the sets of functions.
LEMMA Iterates == \A X : \A x0 \in X : \A h \in SelfMaps(X) : Orbits(X, x0, h) # {}
<1> SUFFICES ASSUME NEW X, NEW x0 \in X, NEW h \in SelfMaps(X) PROVE Orbits(X, x0, h) # {}
  OBVIOUS
<1>1. h \in [X -> X]
  BY DEF SelfMaps
<1>2. \E g \in [Nat -> X] : g[0] = x0 /\ \A n \in Nat : g[n + 1] = h[g[n]]
  BY <1>1, Iteration
<1>3. QED
  BY <1>2 DEF Orbits

\* What is read back of a file are messages of the file.
LEMMA ProjectedIs ==
  ASSUME NEW f \in Seq(Lines)
  PROVE  Projected(f) \in Seq(Ids(f))
<1> DEFINE leaf == IF Childless(f) = {} THEN LastId(f) ELSE LastOf(f, Childless(f))
           chain == CHOOSE g : g = [k \in Nat |-> IF k = 0 THEN <<leaf>> ELSE Extended(f, g[k - 1])]
<1>1. CASE Ids(f) = {}
  <2>1. Projected(f) = <<>>
    BY <1>1 DEF Projected
  <2>2. QED
    BY <2>1
<1>2. CASE Ids(f) # {}
  <2>1. leaf \in Ids(f)
    <3>1. MessagesAt(f) # {}
      BY <1>2 DEF Ids
    <3>2. Childless(f) \in SUBSET MessagesAt(f)
      BY DEF Childless
    <3>3. QED
      BY <3>1, <3>2, LastOfIs DEF LastId
  <2>2. Projected(f) = chain[Cardinality(Ids(f))]
    BY <1>2 DEF Projected
  <2> HIDE DEF leaf, chain
  <2>3. <<leaf>> \in Chains(f)
    BY <2>1 DEF Chains
  <2> DEFINE h == [c \in Chains(f) |-> Extended(f, c)]
  <2>4. h \in [Chains(f) -> Chains(f)]
    BY ExtendedIs
  <2>5. PICK g \in [Nat -> Chains(f)] : g[0] = <<leaf>> /\ \A n \in Nat : g[n + 1] = h[g[n]]
    <3> HIDE DEF h
    <3> DEFINE X == Chains(f)
               x0 == <<leaf>>
    <3>1. x0 \in X /\ h \in SelfMaps(X)
      BY <2>3, <2>4 DEF SelfMaps
    <3> HIDE DEF X, x0
    <3>2. Orbits(X, x0, h) # {}
      BY <3>1, Iterates
    <3>3. QED
      BY <3>2 DEF X, x0, Orbits
  <2>6. g = [k \in Nat |-> IF k = 0 THEN <<leaf>> ELSE Extended(f, g[k - 1])]
    <3>1. \A k \in Nat : k # 0 => k - 1 \in Nat /\ (k - 1) + 1 = k
      OBVIOUS
    <3>2. \A k \in Nat : k # 0 => g[k] = Extended(f, g[k - 1])
      BY <3>1, <2>5
    <3>3. QED
      BY <3>2, <2>5
  <2>7. chain = [k \in Nat |-> IF k = 0 THEN <<leaf>> ELSE Extended(f, chain[k - 1])]
    BY <2>6 DEF chain
  <2> DEFINE S == {k \in Nat : chain[k] \in Chains(f)}
  <2>8. 0 \in S
    BY <2>3, <2>7
  <2>9. ASSUME NEW k \in Nat, k \in S PROVE k + 1 \in S
    <3>1. k + 1 \in Nat /\ k + 1 # 0 /\ (k + 1) - 1 = k
      OBVIOUS
    <3>2. chain[k + 1] = Extended(f, chain[k])
      BY <2>7, <3>1
    <3>3. QED
      BY <2>9, <3>1, <3>2, ExtendedIs
  <2> HIDE DEF S
  <2>10. Nat \subseteq S
    BY <2>8, <2>9, Induction
  <2>11. Cardinality(Ids(f)) \in Nat
    <3>1. IsFiniteSet(Ids(f))
      <4>1. Len(f) \in Nat /\ MessagesAt(f) \subseteq 1 .. Len(f)
        BY IdsAre
      <4>2. IsFiniteSet(1 .. Len(f))
        BY <4>1, FS_Interval
      <4>3. IsFiniteSet(MessagesAt(f))
        BY <4>1, <4>2, FS_Subset
      <4> DEFINE M == MessagesAt(f)
                 e == [i \in M |-> f[i].id]
      <4>4. e \in Surjection(M, Ids(f))
        BY DEF Surjection, Ids
      <4> HIDE DEF M, e
      <4>5. QED
        BY <4>3, <4>4, FS_Surjection DEF M
    <3>2. QED
      BY <3>1, FS_CardinalityType
  <2>12. QED
    BY <2>2, <2>10, <2>11 DEF S, Chains
<1>3. QED
  BY <1>1, <1>2

\* What a load reads of a file.
LEMMA ParsedIs ==
  ASSUME NEW f \in Seq(Lines), Loads(f)
  PROVE  /\ f # <<>> /\ Parsed(f) \in Seq(Lines) /\ Len(Parsed(f)) <= Len(f)
         /\ \A i \in 1 .. Len(Parsed(f)) : i \in 1 .. Len(f) /\ Parsed(f)[i] = f[i] /\ ~Malformed(Parsed(f)[i])
         /\ Ids(Parsed(f)) \subseteq Ids(f) /\ (Single(f) => Single(Parsed(f)))
<1>1. f # <<>> /\ \A i \in 1 .. Len(f) - 1 : ~Malformed(f[i])
  BY DEF Loads
<1>2. Len(f) \in Nat /\ Len(f) >= 1 /\ Last(f) = f[Len(f)]
  BY <1>1, FrontIs
<1>3. /\ Parsed(f) \in Seq(Lines) /\ Len(Parsed(f)) <= Len(f)
      /\ \A i \in 1 .. Len(Parsed(f)) : i \in 1 .. Len(f) /\ Parsed(f)[i] = f[i] /\ ~Malformed(Parsed(f)[i])
  <2>1. CASE Malformed(Last(f))
    <3> DEFINE p == Front(f)
    <3>1. p \in Seq(Lines) /\ Len(p) = Len(f) - 1 /\ \A i \in 1 .. Len(f) - 1 : p[i] = f[i]
      BY <1>1, FrontIs
    <3>2. Parsed(f) = p
      BY <2>1 DEF Parsed
    <3> HIDE DEF p
    <3>3. QED
      BY <3>1, <3>2, <1>1, <1>2
  <2>2. CASE ~Malformed(Last(f))
    <3>1. Parsed(f) = f
      BY <2>2 DEF Parsed
    <3>2. QED
      BY <3>1, <2>2, <1>1, <1>2
  <2>3. QED
    BY <2>1, <2>2
<1>4. Ids(Parsed(f)) \subseteq Ids(f) /\ (Single(f) => Single(Parsed(f)))
  <2> DEFINE p == Parsed(f)
  <2> HIDE DEF p
  <2>1. p \in Seq(Lines) /\ Len(p) <= Len(f) + 1 /\ \A i \in 1 .. Len(p) : i \in 1 .. Len(f) /\ p[i] = f[i]
    BY <1>2, <1>3 DEF p
  <2>2. QED
    BY <2>1, CutIds DEF p
<1>5. QED
  BY <1>1, <1>3, <1>4

-----------------------------------------------------------------------------
(* The transcripts: the inductive invariant. *)

FileType == file = [s \in Sessions |-> file[s]] /\ \A s \in Sessions : file[s] \in Seq(Lines)

HistType ==
  /\ used \in Nat /\ used <= BoundSessions /\ said \in Nat
  /\ kept = [s \in Sessions |-> kept[s]]

WriteType ==
  /\ writing # Nothing => writing \in Writes /\ writing.session <= used
  /\ writing # Nothing => writing.line.kind \in {"start", "message", "boundary"}

SavingType ==
  /\ saving \in [stage : {"none", "messages", "flush"}, of : 0 .. used, chat : Seq(0 .. 2 * said),
                 omit : BOOLEAN, sync : BOOLEAN]
  /\ saving.stage # "none" => saving.of # 0

PlaceType ==
  /\ session \in 0 .. used /\ recorder \in [session : 0 .. used, last : Nat] /\ marking \in Nat
  /\ agent = "recorded" \/ marking # 0 => recorder.session # 0
  /\ chat \in Seq(0 .. 2 * said)

IdInv == \A s \in Sessions : Ids(file[s]) \subseteq 0 .. 2 * said

\* Nothing is known of a session that was not begun.
FreshInv == \A s \in Sessions : s > used => file[s] = <<>> /\ ~cache[s].warmed /\ kept[s] = {}

Pending(s) ==
  IF writing # Nothing /\ writing.session = s /\ IsMessage(writing.line) THEN {writing.line.id} ELSE {}

CacheType == cache \in [Sessions -> [warmed : BOOLEAN, seen : SUBSET Nat, leaf : Nat]]

\* What is warmed knows of every message of the file but the one being written.
SeenInv == \A s \in Sessions : cache[s].warmed => Ids(file[s]) \subseteq cache[s].seen \cup Pending(s)

Holds(line, id) == line = Broken \/ (IsMessage(line) /\ line.id = id)
Stands(f, n, id) == \E i \in 1 .. n : Holds(f[i], id)

\* What is kept stands in the synced part, as itself or glued.
SyncInv ==
  /\ synced = [s \in Sessions |-> synced[s]]
  /\ \A s \in Sessions : synced[s] \in 0 .. Len(file[s]) /\ \A id \in kept[s] : Stands(file[s], synced[s], id)

PendInv ==
  writing # Nothing /\ IsMessage(writing.line) =>
    Stands(file[writing.session], Len(file[writing.session]), writing.line.id)

IndexInv ==
  /\ index \in SUBSET Sessions \/ index = Nothing
  /\ past \subseteq (SUBSET Sessions) \cup {Nothing}
  /\ listed \in SUBSET Sessions \/ listed = Nothing
  /\ staged \in BOOLEAN /\ begun \subseteq Sessions /\ (staged => listed # Nothing)

LineInv == FileType /\ IdInv /\ WrittenOnce /\ SyncInv
MemoInv == CacheType /\ SeenInv
TypeInv == HistType /\ WriteType /\ SavingType /\ PlaceType
TranscriptInv == TypeInv /\ LineInv /\ MemoInv /\ FreshInv /\ PendInv /\ IndexInv

-----------------------------------------------------------------------------
(* The index. *)

\* An index is a set of sessions, whichever way it came.
LEMMA LoadedIs ==
  ASSUME IndexInv
  PROVE  (Loaded \in SUBSET Sessions \/ Loaded = Nothing) /\ Rebuilt \in SUBSET Sessions
BY DEF IndexInv, Loaded, Rebuilt

\* Every way to write one leaves such a set.
LEMMA SaveIndexKeeps ==
  ASSUME IndexInv, NEW names \in SUBSET Sessions, begun' \subseteq Sessions, SaveIndex(names)
  PROVE  IndexInv'
<1>1. names # Nothing
  BY TranscriptAssumption
<1>2. index' = names /\ past' = past \cup {Nothing, names} /\ listed' = names /\ staged' = FALSE
  BY DEF SaveIndex, WriteIndex
<1>3. QED
  BY <1>1, <1>2 DEF IndexInv

LEMMA EntersKeeps ==
  ASSUME IndexInv, NEW s \in Sessions, Enters(s), begun' \subseteq Sessions
  PROVE  IndexInv'
<1> DEFINE names == (IF Loaded = Nothing THEN Rebuilt ELSE Loaded) \cup {s}
<1>1. names \in SUBSET Sessions
  BY LoadedIs
<1>2. SaveIndex(names)
  BY DEF Enters
<1> HIDE DEF names
<1>3. QED
  BY <1>1, <1>2, SaveIndexKeeps

LEMMA UpsertKeeps ==
  ASSUME IndexInv, NEW s \in Sessions, Upsert(s), begun' = begun
  PROVE  IndexInv'
<1> DEFINE names == (IF Loaded = Nothing THEN Rebuilt ELSE Loaded) \cup {s}
<1>1. names \in SUBSET Sessions
  BY LoadedIs
<1>5. names # Nothing
  BY <1>1, TranscriptAssumption
<1>2. listed' = names /\ staged' = TRUE
  BY DEF Upsert
<1>3. UNCHANGED <<index, past>> \/ (index' = Rebuilt /\ past' = past \cup {Nothing, Rebuilt})
  BY DEF Upsert, WriteIndex
<1> HIDE DEF names
<1>4. QED
  BY <1>1, <1>5, <1>2, <1>3, LoadedIs DEF IndexInv

LEMMA RefreshKeeps ==
  ASSUME IndexInv, NEW s \in Sessions, Refresh(s), begun' \subseteq Sessions
  PROVE  IndexInv'
<1> DEFINE names == (IF Loaded = Nothing THEN {} ELSE Loaded) \cup {s}
<1>1. names \in SUBSET Sessions
  BY LoadedIs
<1>2. CASE Loads(file'[s])
  <2>1. SaveIndex(names)
    BY <1>2 DEF Refresh
  <2> HIDE DEF names
  <2>2. QED
    BY <1>1, <2>1, SaveIndexKeeps
<1>3. CASE ~Loads(file'[s])
  <2>1. UNCHANGED indexes
    BY <1>3 DEF Refresh
  <2>2. QED
    BY <2>1 DEF IndexInv, indexes
<1>4. QED
  BY <1>2, <1>3

LEMMA IndexStays ==
  ASSUME IndexInv, UNCHANGED <<indexes, begun>>
  PROVE  IndexInv'
BY DEF IndexInv, indexes

LEMMA FlushKeeps ==
  ASSUME IndexInv, Flush, UNCHANGED begun
  PROVE  IndexInv'
<1>1. CASE staged
  <2>1. listed \in SUBSET Sessions /\ begun' \subseteq Sessions /\ SaveIndex(listed)
    BY <1>1 DEF IndexInv, Flush
  <2>2. QED
    BY <2>1, SaveIndexKeeps
<1>2. CASE ~staged
  BY <1>2, IndexStays DEF Flush, indexes
<1>3. QED
  BY <1>1, <1>2

-----------------------------------------------------------------------------
(* A line more, a file cut short. *)

\* s's file has a line more, or its torn end is broken.
Grows(s, line) ==
  /\ file' = [t \in Sessions |-> file'[t]]
  /\ Grown(file[s], file'[s], line)
  /\ \A t \in Sessions : t # s => file'[t] = file[t]

\* Both ways to write to a file are such a growth.
LEMMA WriteGrows ==
  ASSUME FileType, NEW s \in Sessions, NEW line \in Lines, Write(s, line)
  PROVE  Grows(s, line) /\ writing' = [session |-> s, line |-> line]
<1>1. file[s] \in Seq(Lines) /\ file' = [file EXCEPT ![s] = Appended(file[s], line)]
  BY DEF FileType, Write
<1>2. Grown(file[s], Appended(file[s], line), line)
  BY <1>1, AppendedGrows
<1>3. file' = [t \in Sessions |-> file'[t]] /\ file'[s] = Appended(file[s], line)
      /\ \A t \in Sessions : t # s => file'[t] = file[t]
  BY <1>1 DEF FileType
<1>4. QED
  BY <1>2, <1>3 DEF Grows, Write

LEMMA JotGrows ==
  ASSUME FileType, NEW s \in Sessions, Jot(s)
  PROVE  UNCHANGED file \/ Grows(s, Note)
<1>1. CASE Last(file[s]) = Torn
  <2>1. file[s] \in Seq(Lines) /\ file' = [file EXCEPT ![s] = Appended(file[s], Note)]
    BY <1>1 DEF FileType, Jot
  <2>2. Grown(file[s], Appended(file[s], Note), Note)
    BY <2>1, AppendedGrows, LinesAre
  <2>3. file' = [t \in Sessions |-> file'[t]] /\ file'[s] = Appended(file[s], Note)
        /\ \A t \in Sessions : t # s => file'[t] = file[t]
    BY <2>1 DEF FileType
  <2>4. QED
    BY <2>2, <2>3 DEF Grows
<1>2. CASE Last(file[s]) # Torn
  BY <1>2 DEF Jot
<1>3. QED
  BY <1>1, <1>2

\* What stands in the first lines of a file stands there when it has grown.
LEMMA StandsFurther ==
  ASSUME NEW f \in Seq(Lines), NEW n \in Nat, NEW m \in Nat, n <= m, NEW id, Stands(f, n, id)
  PROVE  Stands(f, m, id)
<1>1. PICK i \in 1 .. n : Holds(f[i], id)
  BY DEF Stands
<1>2. i \in 1 .. m
  OBVIOUS
<1>3. QED
  BY <1>1, <1>2 DEF Stands

LEMMA GrownStands ==
  ASSUME NEW f \in Seq(Lines), NEW g, NEW line, Grown(f, g, line), NEW n \in 0 .. Len(f), NEW id, Stands(f, n, id)
  PROVE  Stands(g, n, id)
<1>1. PICK i \in 1 .. n : Holds(f[i], id)
  BY DEF Stands
<1>2. i \in 1 .. Len(f)
  BY <1>1
<1>3. g[i] = f[i] \/ g[i] = Broken
  BY <1>2 DEF Grown
<1>4. Holds(g[i], id)
  BY <1>1, <1>3 DEF Holds
<1>5. QED
  BY <1>1, <1>4 DEF Stands

LEMMA GrownHolds ==
  ASSUME NEW f \in Seq(Lines), NEW g, NEW line, Grown(f, g, line), IsMessage(line)
  PROVE  Stands(g, Len(g), line.id)
<1>1. g \in Seq(Lines) /\ Len(g) \in 1 .. Len(g)
  BY DEF Grown
<1>2. g[Len(g)] = line \/ g[Len(g)] = Broken
  BY DEF Grown
<1>3. Holds(g[Len(g)], line.id)
  BY <1>2 DEF Holds
<1>4. QED
  BY <1>1, <1>3 DEF Stands

LEMMA Doubles ==
  ASSUME NEW m \in Nat, NEW n \in Nat, m <= n
  PROVE  0 .. 2 * m \subseteq 0 .. 2 * n
<1> SUFFICES ASSUME NEW id \in 0 .. 2 * m PROVE id \in 0 .. 2 * n
  OBVIOUS
<1>1. 2 * m <= 2 * n /\ 2 * m \in Nat /\ 2 * n \in Nat
  OBVIOUS
<1>2. QED
  BY <1>1

\* What a file's growth leaves true: the lines of each session.
LEMMA GrowsLines ==
  ASSUME LineInv, HistType, NEW s \in Sessions, NEW line \in Lines, Grows(s, line),
         UNCHANGED <<synced, kept>>, said' \in Nat, said <= said',
         IsMessage(line) => line.id \notin Ids(file[s]) /\ line.id \in 0 .. 2 * said'
  PROVE  LineInv'
<1>1. file[s] \in Seq(Lines) /\ Ids(file[s]) \subseteq 0 .. 2 * said /\ said \in Nat
      /\ \A t \in Sessions : file[t] \in Seq(Lines)
  BY DEF LineInv, FileType, IdInv, HistType
<1>2. file'[s] \in Seq(Lines) /\ Len(file'[s]) \in Nat /\ Len(file[s]) \in Nat /\ Len(file'[s]) >= Len(file[s])
  BY <1>1 DEF Grows, Grown
<1>3. FileType'
  BY <1>2 DEF LineInv, FileType, Grows
<1>4. IdInv'
  <2>1. \A id \in Ids(file'[s]) : id \in Ids(file[s]) \/ (IsMessage(line) /\ id = line.id)
    BY <1>1, GrownIds DEF Grows
  <2>2. Ids(file'[s]) \subseteq 0 .. 2 * said'
    BY <1>1, <2>1
  <2>3. \A t \in Sessions : t # s => Ids(file'[t]) \subseteq 0 .. 2 * said'
    <3> SUFFICES ASSUME NEW t \in Sessions, t # s PROVE Ids(file'[t]) \subseteq 0 .. 2 * said'
      OBVIOUS
    <3>1. file'[t] = file[t]
      BY DEF Grows
    <3>2. Ids(file[t]) \subseteq 0 .. 2 * said
      BY DEF LineInv, IdInv
    <3>3. said' \in Nat /\ said \in Nat /\ said <= said'
      BY <1>1
    <3>4. 0 .. 2 * said \subseteq 0 .. 2 * said'
      BY <3>3, Doubles
    <3>5. QED
      BY <3>1, <3>2, <3>4
  <2>4. QED
    BY <2>2, <2>3 DEF IdInv
<1>5. WrittenOnce'
  <2>1. \A t \in Sessions : Single(file[t])
    BY DEF LineInv, WrittenOnce, Single
  <2>2. Single(file'[s])
    BY <1>1, <2>1, GrownIds DEF Grows
  <2>3. \A t \in Sessions : Single(file'[t])
    BY <2>1, <2>2 DEF Grows
  <2>4. QED
    BY <2>3 DEF WrittenOnce, Single
<1>6. SyncInv'
  <2>1. synced' = [t \in Sessions |-> synced'[t]]
    BY DEF LineInv, SyncInv
  <2>2. ASSUME NEW t \in Sessions
        PROVE  synced[t] \in 0 .. Len(file'[t]) /\ \A id \in kept[t] : Stands(file'[t], synced[t], id)
    <3>1. synced[t] \in 0 .. Len(file[t]) /\ \A id \in kept[t] : Stands(file[t], synced[t], id)
      BY DEF LineInv, SyncInv
    <3>2. CASE t = s
      <4>1. synced[s] \in 0 .. Len(file'[s])
        BY <1>2, <3>1, <3>2
      <4>2. \A id \in kept[s] : Stands(file'[s], synced[s], id)
        BY <1>1, <3>1, <3>2, GrownStands DEF Grows
      <4>3. QED
        BY <3>2, <4>1, <4>2
    <3>3. CASE t # s
      BY <3>1, <3>3 DEF Grows
    <3>4. QED
      BY <3>2, <3>3
  <2>3. QED
    BY <2>1, <2>2 DEF SyncInv
<1>7. QED
  BY <1>3, <1>4, <1>5, <1>6 DEF LineInv

\* And what is known of them: the cache is warmed before a message is written.
LEMMA WarmIs ==
  ASSUME FileType, MemoInv, NEW s \in Sessions
  PROVE  /\ Warm(s) \in [warmed : BOOLEAN, seen : SUBSET Nat, leaf : Nat] /\ Warm(s).warmed
         /\ Ids(file[s]) \subseteq Warm(s).seen \cup Pending(s)
<1>1. file[s] \in Seq(Lines)
  BY DEF FileType
<1>2. Ids(file[s]) \subseteq Nat
  BY <1>1, IdsAre
<1>3. LastId(file[s]) \in Nat
  <2>1. MessagesAt(file[s]) \in SUBSET MessagesAt(file[s])
    OBVIOUS
  <2>2. LastId(file[s]) = 0 \/ LastId(file[s]) \in Ids(file[s])
    BY <1>1, <2>1, LastOfIs DEF LastId
  <2>3. QED
    BY <1>2, <2>2
<1>4. CASE cache[s].warmed
  BY <1>4 DEF Warm, MemoInv, CacheType, SeenInv
<1>5. CASE ~cache[s].warmed
  BY <1>2, <1>3, <1>5 DEF Warm
<1>6. QED
  BY <1>4, <1>5

\* And warming touches no other session.
LEMMA WarmedIs ==
  ASSUME MemoInv, NEW s \in Sessions, Warmed(s)
  PROVE  /\ cache'[s] = Warm(s) /\ \A t \in Sessions : t # s => cache'[t] = cache[t]
         /\ cache' = [t \in Sessions |-> cache'[t]]
BY DEF MemoInv, CacheType, Warmed

\* A warmed cache knows a file's messages before and after a write.
LEMMA GrowsMemo ==
  ASSUME LineInv, MemoInv, writing = Nothing, NEW s \in Sessions, NEW line \in Lines, Grows(s, line),
         UNCHANGED cache \/ Warmed(s),
         IsMessage(line) => writing' # Nothing /\ writing'.session = s /\ writing'.line = line
  PROVE  MemoInv'
<1>1. FileType /\ file[s] \in Seq(Lines)
  BY DEF LineInv, FileType
<1>2. CacheType'
  BY <1>1, WarmIs DEF MemoInv, CacheType, Warmed
<1>3. \A t \in Sessions : Pending(t) = {}
  BY DEF Pending
<1>4. ASSUME NEW t \in Sessions, cache'[t].warmed PROVE Ids(file'[t]) \subseteq cache'[t].seen \cup Pending(t)'
  <2>1. Ids(file[t]) \subseteq cache'[t].seen
    <3>1. CASE cache'[t] = cache[t]
      BY <3>1, <1>3, <1>4 DEF MemoInv, SeenInv
    <3>2. CASE t = s /\ cache'[t] = Warm(s)
      BY <3>2, <1>1, <1>3, WarmIs
    <3>3. QED
      BY <3>1, <3>2, WarmedIs
  <2>2. CASE t = s
    <3>1. \A id \in Ids(file'[s]) : id \in Ids(file[s]) \/ (IsMessage(line) /\ id = line.id)
      BY <1>1, GrownIds DEF Grows
    <3>2. IsMessage(line) => line.id \in Pending(s)'
      BY DEF Pending
    <3>3. QED
      BY <2>1, <2>2, <3>1, <3>2
  <2>3. CASE t # s
    BY <2>1, <2>3 DEF Grows
  <2>4. QED
    BY <2>2, <2>3
<1>5. QED
  BY <1>2, <1>4 DEF MemoInv, SeenInv

\* Nothing is written to a session that was not begun.
LEMMA GrowsFresh ==
  ASSUME FreshInv, MemoInv, NEW s \in Sessions, NEW line, Grows(s, line), UNCHANGED cache \/ Warmed(s), UNCHANGED kept,
         HistType, used' \in Nat, used <= used', s <= used'
  PROVE  FreshInv'
<1> SUFFICES ASSUME NEW t \in Sessions, t > used'
             PROVE  file'[t] = <<>> /\ ~cache'[t].warmed /\ kept'[t] = {}
  BY DEF FreshInv
<1>1. t # s /\ t > used /\ kept'[t] = kept[t]
  BY DEF Sessions, HistType
<1>2. file'[t] = file[t] /\ cache'[t] = cache[t]
  BY <1>1, WarmedIs DEF Grows
<1>3. QED
  BY <1>1, <1>2 DEF FreshInv

\* A record is written: with an ID its file does not have.
LEMMA WriteKeeps ==
  ASSUME TranscriptInv, NEW s \in Sessions, NEW line \in Lines, Write(s, line), writing = Nothing,
         line.kind \in {"start", "message", "boundary"}, s <= used', used' \in Nat, used <= used',
         UNCHANGED cache \/ Warmed(s), UNCHANGED <<synced, kept>>, said' \in Nat, said <= said',
         IsMessage(line) => line.id \notin Ids(file[s]) /\ line.id \in 0 .. 2 * said'
  PROVE  LineInv' /\ MemoInv' /\ FreshInv' /\ PendInv' /\ WriteType'
<1>1. Grows(s, line) /\ writing' = [session |-> s, line |-> line] /\ file[s] \in Seq(Lines)
  BY WriteGrows DEF TranscriptInv, LineInv, FileType
<1>2. writing' # Nothing /\ writing'.session = s /\ writing'.line = line /\ writing' \in Writes
  <2>1. writing' \in Writes
    BY <1>1 DEF Writes
  <2>2. QED
    BY <1>1, <2>1, TranscriptAssumption
<1>3. LineInv'
  BY <1>1, GrowsLines DEF TranscriptInv, TypeInv
<1>4. MemoInv'
  BY <1>1, <1>2, GrowsMemo DEF TranscriptInv
<1>5. FreshInv'
  BY <1>1, GrowsFresh DEF TranscriptInv, TypeInv
<1>6. PendInv'
  <2>1. IsMessage(line) => Stands(file'[s], Len(file'[s]), line.id)
    BY <1>1, GrownHolds DEF Grows
  <2>2. QED
    BY <1>2, <2>1 DEF PendInv
<1>7. WriteType'
  BY <1>2 DEF WriteType
<1>8. QED
  BY <1>3, <1>4, <1>5, <1>6, <1>7

\* A note is written, which only matters after half a record.
LEMMA JotKeeps ==
  ASSUME TranscriptInv, NEW s \in Sessions, Jot(s), writing = Nothing, s <= used,
         UNCHANGED cache \/ Warmed(s), UNCHANGED <<synced, kept, writing, used, said>>
  PROVE  LineInv' /\ MemoInv' /\ FreshInv' /\ PendInv' /\ WriteType'
<1>1. PendInv' /\ WriteType'
  BY DEF PendInv, WriteType
<1>2. CASE Grows(s, Note)
  <2>1. Note \in Lines /\ ~IsMessage(Note) /\ used' \in Nat /\ said' \in Nat /\ used <= used' /\ said <= said' /\ s <= used'
    BY LinesAre DEF TranscriptInv, TypeInv, HistType
  <2>2. LineInv'
    BY <1>2, <2>1, GrowsLines DEF TranscriptInv, TypeInv
  <2>3. MemoInv'
    BY <1>2, <2>1, GrowsMemo DEF TranscriptInv
  <2>4. FreshInv'
    BY <1>2, <2>1, GrowsFresh DEF TranscriptInv, TypeInv
  <2>5. QED
    BY <1>1, <2>2, <2>3, <2>4
<1>3. CASE UNCHANGED file
  <2>1. LineInv'
    BY <1>3 DEF TranscriptInv, LineInv, FileType, IdInv, WrittenOnce, SyncInv
  <2>2. MemoInv'
    <3>1. CacheType'
      BY WarmIs DEF TranscriptInv, LineInv, MemoInv, CacheType, Warmed
    <3>2. ASSUME NEW t \in Sessions, cache'[t].warmed PROVE Ids(file'[t]) \subseteq cache'[t].seen \cup Pending(t)'
      <4>1. Pending(t) = {} /\ Pending(t)' = {}
        BY DEF Pending
      <4>2. CASE cache'[t] = cache[t]
        BY <1>3, <4>1, <4>2, <3>2 DEF TranscriptInv, MemoInv, SeenInv
      <4>3. CASE t = s /\ cache'[t] = Warm(s)
        BY <1>3, <4>1, <4>3, WarmIs DEF TranscriptInv, LineInv
      <4>4. QED
        BY <4>2, <4>3, WarmedIs DEF TranscriptInv
    <3>3. QED
      BY <3>1, <3>2 DEF MemoInv, SeenInv
  <2>3. FreshInv'
    <3> SUFFICES ASSUME NEW t \in Sessions, t > used'
                 PROVE  file'[t] = <<>> /\ ~cache'[t].warmed /\ kept'[t] = {}
      BY DEF FreshInv
    <3>1. t # s /\ t > used /\ kept'[t] = kept[t]
      BY DEF Sessions, TranscriptInv, TypeInv, HistType
    <3>2. file'[t] = file[t] /\ cache'[t] = cache[t]
      BY <1>3, <3>1, WarmedIs DEF TranscriptInv
    <3>3. QED
      BY <3>1, <3>2 DEF TranscriptInv, FreshInv
  <2>4. QED
    BY <1>1, <2>1, <2>2, <2>3
<1>4. QED
  BY <1>2, <1>3, JotGrows DEF TranscriptInv, LineInv

-----------------------------------------------------------------------------
(* One lemma for each action. *)

\* Higher IDs are allowed as more is said.
LEMMA SeqGrows ==
  ASSUME NEW m \in Nat, NEW n \in Nat, m <= n, NEW c \in Seq(0 .. 2 * m)
  PROVE  c \in Seq(0 .. 2 * n)
<1>1. 0 .. 2 * m \subseteq 0 .. 2 * n
  BY Doubles
<1>2. QED
  BY <1>1

\* The record is synced, indexed and remembered: what is kept now stands in
\* the synced part.
LEMMA AccountKeeps ==
  ASSUME TranscriptInv, Account
  PROVE  TranscriptInv'
<1> DEFINE s == writing.session
           line == writing.line
<1>1. /\ writing # Nothing /\ writing' = Nothing /\ UNCHANGED file
      /\ s \in Sessions /\ line \in Lines /\ s <= used /\ line.kind \in {"start", "message", "boundary"}
  BY DEF Account, TranscriptInv, TypeInv, WriteType, Writes
<1>2. synced' = [synced EXCEPT ![s] = Len(file[s])]
  BY DEF Account, Syncs
<1>3. UNCHANGED <<session, chat, agent, recorder, marking, saving, used, said>>
  BY DEF Account, counters
<1>4. \/ line.kind = "start" /\ Enters(s) /\ UNCHANGED <<cache, kept>> /\ begun' = begun \cup {s}
      \/ /\ line.kind = "message" /\ Upsert(s) /\ begun' = begun
         /\ cache' = [cache EXCEPT ![s].seen = @ \cup {line.id}]
         /\ kept' = [kept EXCEPT ![s] = @ \cup {line.id}]
      \/ line.kind = "boundary" /\ Refresh(s) /\ UNCHANGED <<cache, kept>> /\ begun' = begun
  <2>1. CASE line.kind = "start"
    BY <2>1 DEF Account
  <2>2. CASE line.kind = "message"
    BY <2>2 DEF Account
  <2>3. CASE line.kind = "boundary"
    BY <2>3 DEF Account
  <2>4. QED
    BY <1>1, <2>1, <2>2, <2>3
<1>5. PendInv
  BY DEF TranscriptInv
<1>6. IsMessage(line) => Stands(file[s], Len(file[s]), line.id)
  BY <1>1, <1>5 DEF PendInv
<1>7. \A t \in Sessions : t # s => Pending(t) = {}
  BY DEF Pending
<1>8. Pending(s) \subseteq (IF IsMessage(line) THEN {line.id} ELSE {})
  BY DEF Pending
<1> HIDE DEF s, line
<1>9. IndexInv'
  <2>1. begun' \subseteq Sessions
    BY <1>1, <1>4 DEF TranscriptInv, IndexInv
  <2>2. QED
    BY <1>1, <1>4, <2>1, EntersKeeps, UpsertKeeps, RefreshKeeps DEF TranscriptInv
<1>10. line.id \in Nat /\ (IsMessage(line) <=> line.kind = "message")
  BY <1>1 DEF Lines, IsMessage
<1>11. kept' = [t \in Sessions |-> kept'[t]]
       /\ \A t \in Sessions : kept'[t] = kept[t] \/ (t = s /\ IsMessage(line) /\ kept'[t] = kept[t] \cup {line.id})
  BY <1>1, <1>4, <1>10 DEF TranscriptInv, TypeInv, HistType
<1>12. CacheType' /\ \A t \in Sessions :
         /\ cache'[t].warmed = cache[t].warmed
         /\ cache[t].seen \subseteq cache'[t].seen
         /\ t = s /\ IsMessage(line) => line.id \in cache'[t].seen
  BY <1>1, <1>4, <1>10 DEF TranscriptInv, MemoInv, CacheType
<1>13. TypeInv'
  BY <1>1, <1>3, <1>11 DEF TranscriptInv, TypeInv, HistType, WriteType, SavingType, PlaceType
<1>14. LineInv'
  <2>1. FileType' /\ IdInv' /\ WrittenOnce'
    BY <1>1, <1>3 DEF TranscriptInv, LineInv, FileType, IdInv, WrittenOnce
  <2>2. ASSUME NEW t \in Sessions
        PROVE  synced'[t] \in 0 .. Len(file[t]) /\ \A id \in kept'[t] : Stands(file[t], synced'[t], id)
    <3>1. /\ synced[t] \in 0 .. Len(file[t]) /\ \A id \in kept[t] : Stands(file[t], synced[t], id)
          /\ file[t] \in Seq(Lines) /\ Len(file[t]) \in Nat
      BY DEF TranscriptInv, LineInv, SyncInv, FileType
    <3>2. CASE t = s
      <4>1. synced'[t] = Len(file[t])
        BY <1>2, <3>2 DEF TranscriptInv, LineInv, SyncInv
      <4>2. \A id \in kept[t] : Stands(file[t], Len(file[t]), id)
        BY <3>1, StandsFurther
      <4>3. QED
        BY <1>6, <1>11, <3>1, <3>2, <4>1, <4>2
    <3>3. CASE t # s
      <4>1. synced'[t] = synced[t] /\ kept'[t] = kept[t]
        BY <1>2, <1>11, <3>3 DEF TranscriptInv, LineInv, SyncInv
      <4>2. QED
        BY <3>1, <4>1
    <3>4. QED
      BY <3>2, <3>3
  <2>3. synced' = [t \in Sessions |-> synced'[t]]
    BY <1>2 DEF TranscriptInv, LineInv, SyncInv
  <2>4. SyncInv'
    BY <1>1, <2>2, <2>3 DEF SyncInv
  <2>5. QED
    BY <2>1, <2>4 DEF LineInv
<1>15. MemoInv'
  <2>1. ASSUME NEW t \in Sessions, cache'[t].warmed PROVE Ids(file'[t]) \subseteq cache'[t].seen \cup Pending(t)'
    <3>1. Ids(file[t]) \subseteq cache[t].seen \cup Pending(t)
      BY <1>12, <2>1 DEF TranscriptInv, MemoInv, SeenInv
    <3>2. Pending(t) \subseteq cache'[t].seen
      BY <1>7, <1>8, <1>12
    <3>3. QED
      BY <1>1, <1>12, <3>1, <3>2
  <2>2. QED
    BY <1>12, <2>1 DEF MemoInv, SeenInv
<1>16. FreshInv'
  <2> SUFFICES ASSUME NEW t \in Sessions, t > used
               PROVE  file[t] = <<>> /\ ~cache'[t].warmed /\ kept'[t] = {}
    BY <1>1, <1>3 DEF FreshInv
  <2>1. file[t] = <<>> /\ ~cache[t].warmed /\ kept[t] = {}
    BY DEF TranscriptInv, FreshInv
  <2>2. t # s
    <3>1. t \in Nat /\ s \in Nat /\ used \in Nat
      BY <1>1 DEF Sessions, TranscriptInv, TypeInv, HistType
    <3>2. QED
      BY <1>1, <3>1
  <2>3. QED
    BY <1>11, <1>12, <2>1, <2>2
<1>17. PendInv'
  BY <1>1 DEF PendInv
<1>18. QED
  BY <1>9, <1>13, <1>14, <1>15, <1>16, <1>17 DEF TranscriptInv

\* The lines, the caches and the record being written are as they were.
LEMMA LinesStay ==
  ASSUME TranscriptInv, UNCHANGED <<file, synced, kept, cache, writing, used, said>>
  PROVE  LineInv' /\ MemoInv' /\ FreshInv' /\ PendInv' /\ WriteType' /\ HistType'
<1>1. LineInv' /\ HistType'
  BY DEF TranscriptInv, LineInv, FileType, IdInv, WrittenOnce, SyncInv, TypeInv, HistType
<1>2. MemoInv'
  BY DEF TranscriptInv, MemoInv, CacheType, SeenInv, Pending
<1>3. FreshInv' /\ PendInv' /\ WriteType'
  BY DEF TranscriptInv, FreshInv, PendInv, TypeInv, WriteType
<1>4. QED
  BY <1>1, <1>2, <1>3

\* The agent's next message: its ID is higher than those of the file.
LEMMA RecordKeeps ==
  ASSUME TranscriptInv, writing = Nothing, recorder.session # 0, Record(InChain(said + 1)), said' = said + 1,
         UNCHANGED <<synced, kept, used>>
  PROVE  /\ LineInv' /\ MemoInv' /\ FreshInv' /\ PendInv' /\ WriteType'
         /\ recorder' \in [session : 0 .. used, last : Nat] /\ recorder'.session = recorder.session
<1> DEFINE s == recorder.session
           id == InChain(said + 1)
           line == Line("message", id, recorder.last)
<1>1. /\ said \in Nat /\ used \in Nat /\ s \in Sessions /\ s <= used
      /\ recorder \in [session : 0 .. used, last : Nat] /\ recorder.last \in Nat
  BY TranscriptAssumption DEF TranscriptInv, TypeInv, HistType, PlaceType, Sessions
<1>2. id \in Nat /\ id \in 0 .. 2 * said' /\ id \notin 0 .. 2 * said
  BY <1>1 DEF InChain
<1>3. line \in Lines /\ IsMessage(line) /\ line.id = id /\ line.kind \in {"start", "message", "boundary"}
  BY <1>1, <1>2, LinesAre DEF IsMessage
<1>4. Write(s, line) /\ Warmed(s) /\ recorder' = [recorder EXCEPT !.last = id]
  BY DEF Record
<1>5. id \notin Ids(file[s])
  BY <1>1, <1>2 DEF TranscriptInv, LineInv, IdInv
<1> HIDE DEF line, id
<1>6. said' \in Nat /\ said <= said' /\ used' \in Nat /\ used <= used' /\ s <= used'
  BY <1>1
<1>7. LineInv' /\ MemoInv' /\ FreshInv' /\ PendInv' /\ WriteType'
  BY <1>1, <1>2, <1>3, <1>4, <1>5, <1>6, WriteKeeps
<1>8. QED
  BY <1>1, <1>2, <1>4, <1>7

\* A message on screen, with the agent's copy of it or without.
LEMMA SpokenKeeps ==
  ASSUME TranscriptInv, Quiet, agent # "none", said' = said + 1, chat' \in Seq(0 .. 2 * said'), marking' \in Nat,
         agent = "recorded" \/ marking' = 0,
         IF agent = "recorded" THEN Record(InChain(said + 1)) ELSE UNCHANGED <<file, writing, cache, recorder>>,
         UNCHANGED <<synced, indexes, session, agent, saving, used, exits, hist>>
  PROVE  TranscriptInv'
<1>1. /\ writing = Nothing /\ UNCHANGED <<kept, begun, used, synced>> /\ said \in Nat /\ said' \in Nat /\ said <= said'
      /\ agent = "recorded" => recorder.session # 0
  <2>1. said \in Nat /\ (agent = "recorded" => recorder.session # 0)
    BY DEF TranscriptInv, TypeInv, HistType, PlaceType
  <2>2. said' \in Nat /\ said <= said'
    BY <2>1
  <2>3. QED
    BY <2>1, <2>2 DEF Quiet, hist
<1>2. IndexInv'
  BY <1>1, IndexStays DEF TranscriptInv
<1>3. HistType'
  BY <1>1 DEF TranscriptInv, TypeInv, HistType
<1>4. SavingType'
  <2>1. saving.chat \in Seq(0 .. 2 * said)
    BY DEF TranscriptInv, TypeInv, SavingType
  <2>2. saving.chat \in Seq(0 .. 2 * said')
    BY <1>1, <2>1, SeqGrows
  <2>3. QED
    BY <1>1, <2>2 DEF TranscriptInv, TypeInv, SavingType
<1>5. /\ LineInv' /\ MemoInv' /\ FreshInv' /\ PendInv' /\ WriteType'
      /\ recorder' \in [session : 0 .. used, last : Nat] /\ recorder'.session = recorder.session
  <2>1. CASE agent = "recorded"
    BY <1>1, <2>1, RecordKeeps
  <2>2. CASE agent # "recorded"
    <3>1. UNCHANGED <<file, writing, cache, recorder>>
      BY <2>2
    <3>2. IdInv'
      <4> SUFFICES ASSUME NEW s \in Sessions PROVE Ids(file[s]) \subseteq 0 .. 2 * said'
        BY <3>1 DEF IdInv
      <4>1. Ids(file[s]) \subseteq 0 .. 2 * said
        BY DEF TranscriptInv, LineInv, IdInv
      <4>2. 0 .. 2 * said \subseteq 0 .. 2 * said'
        BY <1>1, Doubles
      <4>3. QED
        BY <4>1, <4>2
    <3>3. LineInv'
      BY <1>1, <3>1, <3>2 DEF TranscriptInv, LineInv, FileType, WrittenOnce, SyncInv
    <3>4. MemoInv' /\ FreshInv' /\ PendInv' /\ WriteType'
      BY <1>1, <3>1 DEF TranscriptInv, MemoInv, CacheType, SeenInv, Pending, FreshInv, PendInv, TypeInv, WriteType
    <3>5. QED
      BY <3>1, <3>3, <3>4 DEF TranscriptInv, TypeInv, PlaceType
  <2>3. QED
    BY <2>1, <2>2
<1>6. PlaceType'
  BY <1>1, <1>5 DEF TranscriptInv, TypeInv, PlaceType
<1>7. QED
  BY <1>2, <1>3, <1>4, <1>5, <1>6 DEF TranscriptInv, TypeInv

\* A message, a summary, its boundary, a note.
LEMMA SayKeeps ==
  ASSUME TranscriptInv, Say
  PROVE  TranscriptInv'
<1>1. said \in Nat /\ chat \in Seq(0 .. 2 * said) /\ said' = said + 1 /\ marking = 0
  BY DEF TranscriptInv, TypeInv, HistType, PlaceType, Say, Quiet
<1>2. chat' \in Seq(0 .. 2 * said')
  <2>1. chat \in Seq(0 .. 2 * said')
    BY <1>1, SeqGrows
  <2>2. InChat(said + 1) \in 0 .. 2 * said'
    BY <1>1 DEF InChat
  <2>3. chat' = Append(chat, InChat(said + 1))
    BY DEF Say
  <2>4. QED
    BY <2>1, <2>2, <2>3
<1>3. marking' = 0 /\ Quiet /\ agent # "none"
      /\ (IF agent = "recorded" THEN Record(InChain(said + 1)) ELSE UNCHANGED <<file, writing, cache, recorder>>)
      /\ UNCHANGED <<synced, indexes, session, agent, saving, used, exits, hist>>
  BY <1>1 DEF Say
<1>4. QED
  BY <1>1, <1>2, <1>3, SpokenKeeps

LEMMA CompactKeeps ==
  ASSUME TranscriptInv, Compact
  PROVE  TranscriptInv'
<1>1. said \in Nat /\ said' = said + 1 /\ marking = 0
  BY DEF TranscriptInv, TypeInv, HistType, Compact, Quiet
<1>2. chat' \in Seq(0 .. 2 * said')
  <2>1. InChat(said + 1) \in 0 .. 2 * said'
    BY <1>1 DEF InChat
  <2>2. QED
    BY <2>1 DEF Compact
<1>3. marking' \in Nat /\ (agent = "recorded" \/ marking' = 0)
  BY <1>1 DEF Compact, InChain
<1>4. Quiet /\ agent # "none"
      /\ (IF agent = "recorded" THEN Record(InChain(said + 1)) ELSE UNCHANGED <<file, writing, cache, recorder>>)
      /\ UNCHANGED <<synced, indexes, session, agent, saving, used, exits, hist>>
  BY DEF Compact
<1>5. QED
  BY <1>1, <1>2, <1>3, <1>4, SpokenKeeps

LEMMA MarkKeeps ==
  ASSUME TranscriptInv, Mark
  PROVE  TranscriptInv'
<1> DEFINE s == recorder.session
           line == Line("boundary", marking, 0)
<1>1. /\ said \in Nat /\ used \in Nat /\ s \in Sessions /\ s <= used /\ writing = Nothing /\ Write(s, line) /\ marking' = 0
      /\ UNCHANGED <<synced, indexes, cache, session, chat, agent, recorder, saving, used, said, kept, begun>>
  BY TranscriptAssumption DEF TranscriptInv, TypeInv, HistType, PlaceType, Sessions, Mark, counters, hist
<1>2. line \in Lines /\ ~IsMessage(line) /\ line.kind \in {"start", "message", "boundary"}
  BY LinesAre DEF TranscriptInv, TypeInv, PlaceType, Line
<1> HIDE DEF s, line
<1>3. LineInv' /\ MemoInv' /\ FreshInv' /\ PendInv' /\ WriteType'
  BY <1>1, <1>2, WriteKeeps
<1>4. IndexInv'
  BY <1>1, IndexStays DEF TranscriptInv
<1>5. HistType' /\ SavingType' /\ PlaceType'
  BY <1>1 DEF TranscriptInv, TypeInv, HistType, SavingType, PlaceType
<1>6. QED
  BY <1>3, <1>4, <1>5 DEF TranscriptInv, TypeInv

LEMMA AuditKeeps ==
  ASSUME TranscriptInv, Audit
  PROVE  TranscriptInv'
<1>1. /\ writing = Nothing /\ recorder.session \in Sessions /\ recorder.session <= used /\ Jot(recorder.session)
      /\ UNCHANGED <<synced, indexes, cache, session, chat, agent, recorder, writing, marking, saving, used, said, kept, begun>>
  BY TranscriptAssumption DEF TranscriptInv, TypeInv, HistType, PlaceType, Sessions, Audit, process, counters, hist
<1>2. LineInv' /\ MemoInv' /\ FreshInv' /\ PendInv' /\ WriteType'
  BY <1>1, JotKeeps
<1>3. IndexInv'
  BY <1>1, IndexStays DEF TranscriptInv
<1>4. HistType' /\ SavingType' /\ PlaceType'
  BY <1>1 DEF TranscriptInv, TypeInv, HistType, SavingType, PlaceType
<1>5. QED
  BY <1>2, <1>3, <1>4 DEF TranscriptInv, TypeInv

\* A cache may be warmed at any time.
LEMMA WarmKeeps ==
  ASSUME TranscriptInv, writing = Nothing, NEW s \in Sessions, s <= used, Warmed(s),
         UNCHANGED <<file, synced, kept, writing, used, said>>
  PROVE  LineInv' /\ MemoInv' /\ FreshInv' /\ PendInv' /\ WriteType' /\ HistType'
<1>1. LineInv' /\ HistType' /\ PendInv' /\ WriteType'
  BY DEF TranscriptInv, LineInv, FileType, IdInv, WrittenOnce, SyncInv, TypeInv, HistType, PendInv, WriteType
<1>2. MemoInv'
  <2>1. CacheType'
    BY WarmIs DEF TranscriptInv, LineInv, MemoInv, CacheType, Warmed
  <2>2. ASSUME NEW t \in Sessions, cache'[t].warmed PROVE Ids(file'[t]) \subseteq cache'[t].seen \cup Pending(t)'
    <3>1. Pending(t) = {} /\ Pending(t)' = {}
      BY DEF Pending
    <3>2. CASE cache'[t] = cache[t]
      BY <3>1, <3>2, <2>2 DEF TranscriptInv, MemoInv, SeenInv
    <3>3. CASE t = s /\ cache'[t] = Warm(s)
      BY <3>1, <3>3, WarmIs DEF TranscriptInv, LineInv
    <3>4. QED
      BY <3>2, <3>3, WarmedIs DEF TranscriptInv
  <2>3. QED
    BY <2>1, <2>2 DEF MemoInv, SeenInv
<1>3. FreshInv'
  <2> SUFFICES ASSUME NEW t \in Sessions, t > used
               PROVE  file[t] = <<>> /\ ~cache'[t].warmed /\ kept[t] = {}
    BY DEF FreshInv
  <2>1. t # s
    BY DEF Sessions, TranscriptInv, TypeInv, HistType
  <2>2. cache'[t] = cache[t]
    BY <2>1, WarmedIs DEF TranscriptInv
  <2>3. QED
    BY <2>2 DEF TranscriptInv, FreshInv
<1>4. QED
  BY <1>1, <1>2, <1>3

\* Start: a record for a session without a file, else nothing.
LEMMA StartKeeps ==
  ASSUME TranscriptInv, writing = Nothing, NEW s \in Sessions, Start(s), s <= used', used' \in Nat, used <= used',
         used' <= BoundSessions, file[s] = <<>> \/ used' = used,
         UNCHANGED cache \/ Warmed(s), UNCHANGED <<synced, kept, said>>
  PROVE  LineInv' /\ MemoInv' /\ FreshInv' /\ PendInv' /\ WriteType' /\ HistType'
<1> DEFINE line == Line("start", 0, 0)
<1>1. line \in Lines /\ ~IsMessage(line) /\ line.kind \in {"start", "message", "boundary"}
  BY LinesAre DEF Line
<1>2. said' \in Nat /\ said <= said' /\ HistType'
  BY DEF TranscriptInv, TypeInv, HistType
<1>3. CASE Write(s, line)
  <2> HIDE DEF line
  <2>1. QED
    BY <1>1, <1>2, <1>3, WriteKeeps
<1>4. CASE ~Write(s, line)
  <2>1. UNCHANGED <<file, writing, used>> /\ s <= used
    BY <1>4 DEF Start
  <2>2. QED
    BY <2>1, LinesStay, WarmKeeps
<1>5. QED
  BY <1>3, <1>4

\* The recorder goes on from a leaf the cache has, and starts its session.
LEMMA BuildKeeps ==
  ASSUME TranscriptInv, Build
  PROVE  TranscriptInv'
<1>1. /\ writing = Nothing /\ marking = 0 /\ agent' \in {"unrecorded", "recorded"}
      /\ agent' = "unrecorded" <=> session = 0
      /\ UNCHANGED <<synced, indexes, session, chat, marking, saving, used, said, kept, begun>>
  BY DEF Build, Quiet, counters
<1>2. IndexInv'
  BY <1>1, IndexStays DEF TranscriptInv
<1>3. SavingType'
  BY <1>1 DEF TranscriptInv, TypeInv, SavingType
<1>4. CASE session \in {0, recorder.session}
  <2>1. UNCHANGED <<file, writing, recorder, cache>>
    BY <1>4 DEF Build
  <2>2. PlaceType'
    BY <1>1, <1>4, <2>1 DEF TranscriptInv, TypeInv, PlaceType
  <2>3. LineInv' /\ MemoInv' /\ FreshInv' /\ PendInv' /\ WriteType' /\ HistType'
    BY <1>1, <2>1, LinesStay
  <2>4. QED
    BY <1>2, <1>3, <2>2, <2>3 DEF TranscriptInv, TypeInv
<1>5. CASE session \notin {0, recorder.session}
  <2>1. recorder' = [session |-> session, last |-> Warm(session).leaf] /\ Warmed(session) /\ Start(session)
    BY <1>5 DEF Build, Seed
  <2>2. session \in Sessions /\ session <= used /\ used \in Nat /\ used <= BoundSessions
    BY <1>5, TranscriptAssumption DEF TranscriptInv, TypeInv, HistType, PlaceType, Sessions
  <2>3. Warm(session).leaf \in Nat
    BY <2>2, WarmIs DEF TranscriptInv, LineInv
  <2>4. PlaceType'
    BY <1>1, <1>5, <2>1, <2>3 DEF TranscriptInv, TypeInv, PlaceType
  <2>5. LineInv' /\ MemoInv' /\ FreshInv' /\ PendInv' /\ WriteType' /\ HistType'
    BY <1>1, <2>1, <2>2, StartKeeps
  <2>6. QED
    BY <1>2, <1>3, <2>4, <2>5 DEF TranscriptInv, TypeInv
<1>6. QED
  BY <1>4, <1>5

LEMMA StopKeeps ==
  ASSUME TranscriptInv, Stop
  PROVE  TranscriptInv'
<1>1. /\ UNCHANGED <<file, synced, index, past, listed, staged, cache, session, chat, recorder, writing, marking, saving, used, said, kept, begun>>
      /\ agent' = "none"
  BY DEF Stop, stored, counters, hist
<1>2. IndexInv'
  BY <1>1, IndexStays DEF TranscriptInv, indexes
<1>3. LineInv' /\ MemoInv' /\ FreshInv' /\ PendInv' /\ WriteType' /\ HistType'
  BY <1>1, LinesStay
<1>4. SavingType' /\ PlaceType'
  BY <1>1 DEF TranscriptInv, TypeInv, SavingType, PlaceType
<1>5. QED
  BY <1>2, <1>3, <1>4 DEF TranscriptInv, TypeInv

\* A Save: its beginning, its messages, its patch and its flush.
LEMMA SaveBeginKeeps ==
  ASSUME TranscriptInv, SaveBegin
  PROVE  TranscriptInv'
<1>1. writing = Nothing
      /\ UNCHANGED <<synced, indexes, cache, chat, agent, recorder, marking, said, kept, begun>>
  BY DEF SaveBegin, hist
<1>2. IndexInv'
  BY <1>1, IndexStays DEF TranscriptInv
<1>3. used \in Nat /\ said \in Nat /\ chat \in Seq(0 .. 2 * said) /\ session \in 0 .. used /\ used <= BoundSessions
  BY DEF TranscriptInv, TypeInv, HistType, PlaceType
<1> DEFINE s == IF session = 0 THEN used + 1 ELSE session
<1>4. /\ s \in Sessions /\ session' = s /\ used' = (IF session = 0 THEN s ELSE used) /\ Start(s)
      /\ saving' = [stage |-> "messages", of |-> s, chat |-> chat, omit |-> HasRecorder,
                    sync |-> (agent = "none" \/ session = 0)]
  BY DEF SaveBegin
<1>5. s \in Nat /\ s # 0 /\ s <= used' /\ used' \in Nat /\ used <= used' /\ used' <= BoundSessions
  BY <1>3, <1>4, TranscriptAssumption DEF Sessions
<1>6. file[s] = <<>> \/ used' = used
  BY <1>3, <1>4 DEF TranscriptInv, FreshInv
<1> HIDE DEF s
<1>7. LineInv' /\ MemoInv' /\ FreshInv' /\ PendInv' /\ WriteType' /\ HistType'
  BY <1>1, <1>4, <1>5, <1>6, StartKeeps
<1>8. HasRecorder \in BOOLEAN /\ (agent = "none" \/ session = 0) \in BOOLEAN
  BY DEF HasRecorder
<1>9. SavingType'
  BY <1>1, <1>3, <1>4, <1>5, <1>8 DEF SavingType
<1>10. PlaceType'
  BY <1>1, <1>3, <1>4, <1>5 DEF TranscriptInv, TypeInv, PlaceType
<1>11. QED
  BY <1>2, <1>7, <1>9, <1>10 DEF TranscriptInv, TypeInv

\* What a Save still has to write is not in the file.
LEMMA UnsavedIs ==
  ASSUME TranscriptInv, saving.stage = "messages"
  PROVE  /\ saving.of \in Sessions /\ saving.of <= used /\ said \in Nat /\ used \in Nat
         /\ saving.chat \in Seq(0 .. 2 * said)
         /\ Unsaved \in SUBSET (1 .. Len(saving.chat))
         /\ \A i \in Unsaved : saving.chat[i] \in 0 .. 2 * said /\ saving.chat[i] \notin Warm(saving.of).seen
<1>1. said \in Nat /\ saving.chat \in Seq(0 .. 2 * said) /\ saving.of \in 1 .. used /\ used \in Nat /\ used <= BoundSessions
  BY DEF TranscriptInv, TypeInv, HistType, SavingType
<1>2. Len(saving.chat) \in Nat /\ DOMAIN saving.chat = 1 .. Len(saving.chat)
      /\ \A i \in 1 .. Len(saving.chat) : saving.chat[i] \in 0 .. 2 * said
  BY <1>1
<1>3. Unsaved \in SUBSET (1 .. Len(saving.chat)) /\ \A i \in Unsaved : saving.chat[i] \notin Warm(saving.of).seen
  BY <1>2 DEF Unsaved
<1>4. saving.of \in Sessions
  BY <1>1, TranscriptAssumption DEF Sessions
<1>5. saving.of <= used
  BY <1>1
<1>6. \A i \in Unsaved : saving.chat[i] \in 0 .. 2 * said
  BY <1>2, <1>3
<1>7. QED
  BY <1>1, <1>3, <1>4, <1>5, <1>6

\* The first of some places.
LEMMA FirstIs ==
  ASSUME NEW T \in SUBSET Nat, T # {}
  PROVE  \E j \in T : \A k \in T : j <= k
<1> DEFINE R == OpToRel(<, Nat)
<1>1. IsWellFoundedOn(R, Nat)
  BY NatLessThanWellFounded
<1>2. \A x, y \in Nat : <<x, y>> \in R <=> x < y
  BY DEF OpToRel
<1> HIDE DEF R
<1>3. PICK x \in T : \A y \in T : ~(<<y, x>> \in R)
  BY <1>1, WFMin
<1>4. ASSUME NEW y \in T PROVE x <= y
  <2>1. x \in Nat /\ y \in Nat
    OBVIOUS
  <2>2. ~(<<y, x>> \in R)
    BY <1>3
  <2>3. ~(y < x)
    BY <1>2, <2>1, <2>2
  <2>4. QED
    BY <2>1, <2>3
<1>5. QED
  BY <1>4

\* What it writes is a message.
LEMMA SaveMessageWrites ==
  ASSUME TranscriptInv, SaveMessage
  PROVE  saving.of \in Sessions /\ \E line \in Lines : line.kind = "message" /\ Write(saving.of, line)
<1> DEFINE i == CHOOSE j \in Unsaved : \A k \in Unsaved : j <= k
           line == Line("message", saving.chat[i], IF i = 1 THEN 0 ELSE saving.chat[i - 1])
<1>1. saving.of \in Sessions /\ said \in Nat /\ Unsaved \in SUBSET (1 .. Len(saving.chat)) /\ Unsaved # {}
      /\ saving.chat \in Seq(0 .. 2 * said) /\ Write(saving.of, line)
  BY UnsavedIs DEF SaveMessage
<1>2. i \in Unsaved
  <2>1. Unsaved \in SUBSET Nat
    BY <1>1
  <2>2. \E j \in Unsaved : \A k \in Unsaved : j <= k
    BY <1>1, <2>1, FirstIs
  <2>3. QED
    BY <2>2
<1> HIDE DEF i
<1>3. i \in 1 .. Len(saving.chat) /\ (i # 1 => i - 1 \in 1 .. Len(saving.chat))
  BY <1>1, <1>2
<1>4. saving.chat[i] \in Nat /\ (i # 1 => saving.chat[i - 1] \in Nat)
  BY <1>1, <1>3
<1>5. line \in Lines /\ line.kind = "message"
  BY <1>4, LinesAre DEF IsMessage
<1> HIDE DEF line
<1>6. QED
  BY <1>1, <1>5

LEMMA SaveMessageKeeps ==
  ASSUME TranscriptInv, SaveMessage
  PROVE  TranscriptInv'
<1> DEFINE s == saving.of
           i == CHOOSE j \in Unsaved : \A k \in Unsaved : j <= k
           line == Line("message", saving.chat[i], IF i = 1 THEN 0 ELSE saving.chat[i - 1])
<1>1. /\ writing = Nothing /\ saving.stage = "messages" /\ Unsaved # {} /\ Write(s, line) /\ Warmed(s)
      /\ UNCHANGED <<synced, indexes, session, chat, agent, recorder, marking, saving, used, said, kept, begun>>
  BY DEF SaveMessage, counters, hist
<1>2. /\ s \in Sessions /\ s <= used /\ said \in Nat /\ used \in Nat /\ Unsaved \in SUBSET (1 .. Len(saving.chat))
      /\ \A k \in Unsaved : saving.chat[k] \in 0 .. 2 * said /\ saving.chat[k] \notin Warm(s).seen
      /\ saving.chat \in Seq(0 .. 2 * said)
  BY <1>1, UnsavedIs
<1>3. i \in Unsaved
  <2>1. Unsaved \in SUBSET Nat
    BY <1>2
  <2>2. \E j \in Unsaved : \A k \in Unsaved : j <= k
    BY <1>1, <2>1, FirstIs
  <2>3. QED
    BY <2>2
<1> HIDE DEF i
<1>4. saving.chat[i] \in Nat /\ (i # 1 => saving.chat[i - 1] \in Nat)
  <2>1. i \in 1 .. Len(saving.chat) /\ Len(saving.chat) \in Nat
    BY <1>2, <1>3
  <2>2. i # 1 => i - 1 \in 1 .. Len(saving.chat)
    BY <2>1
  <2>3. QED
    BY <1>2, <2>1, <2>2
<1>5. line \in Lines /\ IsMessage(line) /\ line.id = saving.chat[i] /\ line.kind \in {"start", "message", "boundary"}
  BY <1>4, LinesAre DEF IsMessage
<1>6. saving.chat[i] \notin Ids(file[s])
  <2>1. Ids(file[s]) \subseteq Warm(s).seen \cup Pending(s)
    BY <1>2, WarmIs DEF TranscriptInv, LineInv
  <2>2. Pending(s) = {}
    BY <1>1 DEF Pending
  <2>3. QED
    BY <1>2, <1>3, <2>1, <2>2
<1> HIDE DEF s, line
<1>7. line.id \notin Ids(file[s]) /\ line.id \in 0 .. 2 * said'
  BY <1>1, <1>2, <1>3, <1>5, <1>6
<1>8. said' \in Nat /\ said <= said' /\ used' \in Nat /\ used <= used' /\ s <= used'
  BY <1>1, <1>2
<1>9. LineInv' /\ MemoInv' /\ FreshInv' /\ PendInv' /\ WriteType'
  BY <1>1, <1>2, <1>5, <1>7, <1>8, WriteKeeps
<1>10. IndexInv'
  BY <1>1, IndexStays DEF TranscriptInv
<1>11. HistType' /\ SavingType' /\ PlaceType'
  BY <1>1 DEF TranscriptInv, TypeInv, HistType, SavingType, PlaceType
<1>12. QED
  BY <1>9, <1>10, <1>11 DEF TranscriptInv, TypeInv

LEMMA SavePatchKeeps ==
  ASSUME TranscriptInv, SavePatch
  PROVE  TranscriptInv'
<1> DEFINE s == saving.of
<1>1. /\ writing = Nothing /\ saving.stage = "messages" /\ Jot(s) /\ Upsert(s) /\ Warmed(s)
      /\ saving' = [saving EXCEPT !.stage = "flush"]
      /\ UNCHANGED <<synced, session, chat, agent, recorder, writing, marking, used, said, kept, begun>>
  BY DEF SavePatch, counters, hist
<1>2. s \in Sessions /\ s <= used
  BY <1>1, UnsavedIs
<1>3. SavingType'
  BY <1>1, <1>2 DEF TranscriptInv, TypeInv, SavingType, Sessions
<1> HIDE DEF s
<1>4. LineInv' /\ MemoInv' /\ FreshInv' /\ PendInv' /\ WriteType'
  BY <1>1, <1>2, JotKeeps
<1>5. IndexInv'
  BY <1>1, <1>2, UpsertKeeps DEF TranscriptInv
<1>6. HistType' /\ PlaceType'
  BY <1>1 DEF TranscriptInv, TypeInv, HistType, PlaceType
<1>7. QED
  BY <1>3, <1>4, <1>5, <1>6 DEF TranscriptInv, TypeInv

LEMMA SaveFlushKeeps ==
  ASSUME TranscriptInv, SaveFlush
  PROVE  TranscriptInv'
<1>1. /\ Flush /\ saving' = NoSave
      /\ UNCHANGED <<file, synced, cache, session, chat, agent, recorder, writing, marking, used, said, kept, begun>>
  BY DEF SaveFlush, counters, hist
<1>2. used \in Nat /\ said \in Nat
  BY DEF TranscriptInv, TypeInv, HistType
<1>3. SavingType'
  <2>1. <<>> \in Seq(0 .. 2 * said) /\ 0 \in 0 .. used
    BY <1>2
  <2>2. QED
    BY <1>1, <2>1 DEF SavingType, NoSave
<1>4. LineInv' /\ MemoInv' /\ FreshInv' /\ PendInv' /\ WriteType' /\ HistType'
  BY <1>1, LinesStay
<1>5. IndexInv'
  BY <1>1, FlushKeeps DEF TranscriptInv
<1>6. PlaceType'
  BY <1>1 DEF TranscriptInv, TypeInv, PlaceType
<1>7. QED
  BY <1>3, <1>4, <1>5, <1>6 DEF TranscriptInv, TypeInv

\* From session to session: what is resumed are messages of the file.
LEMMA SeqWiden ==
  ASSUME NEW S, NEW T, S \subseteq T, NEW c \in Seq(S)
  PROVE  c \in Seq(T)
OBVIOUS

LEMMA ResumeKeeps ==
  ASSUME TranscriptInv, NEW s \in Sessions, Resume(s)
  PROVE  TranscriptInv'
<1>1. /\ UNCHANGED <<file, synced, index, past, listed, staged, cache, recorder, writing, marking, saving, used, said, kept, begun>>
      /\ session' \in {0, s} /\ agent' = "none" /\ marking = 0 /\ Loads(file[s]) /\ chat' = Projected(Parsed(file[s]))
  BY DEF Resume, Quiet, stored, counters, hist
<1>2. file[s] \in Seq(Lines) /\ Ids(file[s]) \subseteq 0 .. 2 * said /\ used \in Nat
  BY DEF TranscriptInv, LineInv, FileType, IdInv, TypeInv, HistType
<1>3. s <= used
  BY <1>1, <1>2 DEF TranscriptInv, FreshInv, Loads, Sessions
<1>4. chat' \in Seq(0 .. 2 * said)
  <2> DEFINE p == Parsed(file[s])
  <2>1. p \in Seq(Lines) /\ Ids(p) \subseteq Ids(file[s])
    BY <1>1, <1>2, ParsedIs
  <2> HIDE DEF p
  <2>2. Projected(p) \in Seq(Ids(p))
    BY <2>1, ProjectedIs
  <2>3. Ids(p) \subseteq 0 .. 2 * said
    BY <1>2, <2>1
  <2>5. Projected(p) \in Seq(0 .. 2 * said)
    BY <2>2, <2>3, SeqWiden
  <2>4. QED
    BY <1>1, <2>5 DEF p
<1>5. PlaceType'
  BY <1>1, <1>2, <1>3, <1>4 DEF TranscriptInv, TypeInv, PlaceType, Sessions
<1>6. LineInv' /\ MemoInv' /\ FreshInv' /\ PendInv' /\ WriteType' /\ HistType'
  BY <1>1, LinesStay
<1>7. IndexInv' /\ SavingType'
  BY <1>1, IndexStays DEF TranscriptInv, indexes, TypeInv, SavingType
<1>8. QED
  BY <1>5, <1>6, <1>7 DEF TranscriptInv, TypeInv

LEMMA NewSessionKeeps ==
  ASSUME TranscriptInv, NewSession
  PROVE  TranscriptInv'
<1>1. /\ UNCHANGED <<file, synced, index, past, listed, staged, cache, recorder, writing, marking, saving, used, said, kept, begun>>
      /\ session' = 0 /\ agent' = "none" /\ marking = 0 /\ chat' = <<>>
  BY DEF NewSession, Saved, stored, counters, hist
<1>2. used \in Nat /\ <<>> \in Seq(0 .. 2 * said)
  BY DEF TranscriptInv, TypeInv, HistType
<1>3. PlaceType'
  BY <1>1, <1>2 DEF TranscriptInv, TypeInv, PlaceType
<1>4. LineInv' /\ MemoInv' /\ FreshInv' /\ PendInv' /\ WriteType' /\ HistType'
  BY <1>1, LinesStay
<1>5. IndexInv' /\ SavingType'
  BY <1>1, IndexStays DEF TranscriptInv, indexes, TypeInv, SavingType
<1>6. QED
  BY <1>3, <1>4, <1>5 DEF TranscriptInv, TypeInv

\* The copy is of lines that load.
LEMMA ForkKeeps ==
  ASSUME TranscriptInv, Fork
  PROVE  TranscriptInv'
<1> DEFINE s == used + 1
           p == Parsed(file[session])
           g == Append(p, Line("fork", 0, 0))
<1>1. /\ s \in Sessions /\ used' = s /\ session' = s /\ agent' = "none" /\ Loads(file[session]) /\ p # <<>>
      /\ file' = [file EXCEPT ![s] = g] /\ Refresh(s) /\ begun' = begun \cup {s}
      /\ writing = Nothing /\ marking = 0 /\ saving = NoSave /\ session # 0
      /\ UNCHANGED <<synced, cache, chat, recorder, writing, marking, saving, said, kept>>
  BY DEF Fork, Saved
<1>2. used \in Nat /\ said \in Nat /\ session \in Sessions /\ session <= used /\ s <= BoundSessions
  BY <1>1, TranscriptAssumption DEF TranscriptInv, TypeInv, HistType, PlaceType, Sessions
<1>3. file[session] \in Seq(Lines) /\ Ids(file[session]) \subseteq 0 .. 2 * said /\ Single(file[session])
  BY <1>2 DEF TranscriptInv, LineInv, FileType, IdInv, WrittenOnce, Single
<1>4. p \in Seq(Lines) /\ Ids(p) \subseteq Ids(file[session]) /\ Single(p) /\ Len(p) \in Nat /\ Len(p) >= 1
      /\ \A i \in 1 .. Len(p) : ~Malformed(p[i])
  <2>1. p \in Seq(Lines) /\ Ids(p) \subseteq Ids(file[session]) /\ Single(p) /\ \A i \in 1 .. Len(p) : ~Malformed(p[i])
    BY <1>1, <1>3, ParsedIs
  <2>2. QED
    BY <1>1, <2>1
<1> HIDE DEF p
<1>5. g \in Seq(Lines) /\ Len(g) = Len(p) + 1 /\ (\A i \in 1 .. Len(p) : g[i] = p[i]) /\ ~IsMessage(g[Len(p) + 1])
  <2>1. Line("fork", 0, 0) \in Lines /\ ~IsMessage(Line("fork", 0, 0))
    BY LinesAre
  <2>2. QED
    BY <1>4, <2>1, AppendIs
<1> HIDE DEF g
<1>6. Ids(g) \subseteq Ids(p) /\ Single(g)
  <2>1. \A i \in 1 .. Len(g) : IsMessage(g[i]) => i \in 1 .. Len(p) /\ g[i] = p[i]
    BY <1>4, <1>5
  <2>2. Len(g) <= Len(p) + 1
    BY <1>5, <1>4
  <2>3. QED
    BY <1>4, <1>5, <2>1, <2>2, CutIds
<1>7. Loads(g)
  <2>1. \A i \in 1 .. Len(g) - 1 : i \in 1 .. Len(p)
    BY <1>4, <1>5
  <2>2. g # <<>>
    BY <1>4, <1>5
  <2>3. QED
    BY <1>4, <1>5, <2>1, <2>2 DEF Loads
<1>8. file'[s] = g /\ (\A t \in Sessions : t # s => file'[t] = file[t]) /\ file' = [t \in Sessions |-> file'[t]]
  BY <1>1 DEF TranscriptInv, LineInv, FileType
<1>9. IndexInv'
  <2>1. begun' \subseteq Sessions
    BY <1>1 DEF TranscriptInv, IndexInv
  <2>2. QED
    BY <1>1, <2>1, RefreshKeeps DEF TranscriptInv
<1>10. file[s] = <<>> /\ ~cache[s].warmed /\ kept[s] = {} /\ synced[s] = 0
  <2>1. s > used
    BY <1>2
  <2>2. file[s] = <<>> /\ ~cache[s].warmed /\ kept[s] = {}
    BY <1>1, <2>1 DEF TranscriptInv, FreshInv
  <2>3. synced[s] \in 0 .. Len(file[s])
    BY <1>1 DEF TranscriptInv, LineInv, SyncInv
  <2>4. QED
    BY <2>2, <2>3
<1> HIDE DEF s
<1>11. LineInv'
  <2>1. FileType'
    BY <1>1, <1>5, <1>8 DEF TranscriptInv, LineInv, FileType
  <2>2. IdInv'
    BY <1>1, <1>3, <1>4, <1>6, <1>8 DEF TranscriptInv, LineInv, IdInv
  <2>3. WrittenOnce'
    <3>1. \A t \in Sessions : Single(file'[t])
      BY <1>6, <1>8 DEF TranscriptInv, LineInv, WrittenOnce, Single
    <3>2. QED
      BY <3>1 DEF WrittenOnce, Single
  <2>4. SyncInv'
    <3>1. ASSUME NEW t \in Sessions
          PROVE  synced'[t] \in 0 .. Len(file'[t]) /\ \A id \in kept'[t] : Stands(file'[t], synced'[t], id)
      <4>1. CASE t = s
        <5>1. 0 \in 0 .. Len(g)
          BY <1>4, <1>5
        <5>2. QED
          BY <1>1, <1>8, <1>10, <4>1, <5>1
      <4>2. CASE t # s
        BY <1>1, <1>8, <4>2 DEF TranscriptInv, LineInv, SyncInv
      <4>3. QED
        BY <4>1, <4>2
    <3>2. QED
      BY <1>1, <3>1 DEF TranscriptInv, LineInv, SyncInv
  <2>5. QED
    BY <2>1, <2>2, <2>3, <2>4 DEF LineInv
<1>12. MemoInv'
  <2>1. CacheType'
    BY <1>1 DEF TranscriptInv, MemoInv, CacheType
  <2>2. ASSUME NEW t \in Sessions, cache[t].warmed PROVE Ids(file'[t]) \subseteq cache[t].seen \cup Pending(t)'
    <3>1. t # s
      BY <1>10, <2>2
    <3>2. file'[t] = file[t] /\ Pending(t)' = Pending(t)
      BY <1>1, <1>8, <3>1 DEF Pending
    <3>3. QED
      BY <2>2, <3>2 DEF TranscriptInv, MemoInv, SeenInv
  <2>3. QED
    BY <1>1, <2>1, <2>2 DEF MemoInv, SeenInv
<1>13. FreshInv'
  BY <1>1, <1>2, <1>8 DEF TranscriptInv, FreshInv, Sessions, s
<1>14. PendInv' /\ WriteType'
  BY <1>1 DEF PendInv, WriteType
<1>15. s \in Nat /\ s # 0 /\ used <= s
  BY <1>2 DEF s
<1>16. HistType'
  BY <1>1, <1>2, <1>15 DEF TranscriptInv, TypeInv, HistType
<1>17. PlaceType'
  BY <1>1, <1>2, <1>15 DEF TranscriptInv, TypeInv, PlaceType
<1>18. SavingType'
  BY <1>1, <1>2, <1>15 DEF TranscriptInv, TypeInv, SavingType, NoSave
<1>19. QED
  BY <1>9, <1>11, <1>12, <1>13, <1>14, <1>16, <1>17, <1>18 DEF TranscriptInv, TypeInv

\* The picker rebuilds an index it cannot read.
LEMMA ListKeeps ==
  ASSUME TranscriptInv, List
  PROVE  TranscriptInv'
<1>1. /\ Loaded = Nothing /\ SaveIndex(Rebuilt)
      /\ UNCHANGED <<file, synced, cache, session, chat, agent, recorder, writing, marking, saving, used, said, kept, begun>>
  BY DEF List, process, counters, hist
<1>2. IndexInv'
  <2>1. begun' \subseteq Sessions /\ Rebuilt \in SUBSET Sessions
    BY <1>1, LoadedIs DEF TranscriptInv, IndexInv
  <2>2. QED
    BY <1>1, <2>1, SaveIndexKeeps DEF TranscriptInv
<1>3. LineInv' /\ MemoInv' /\ FreshInv' /\ PendInv' /\ WriteType' /\ HistType'
  BY <1>1, LinesStay
<1>4. SavingType' /\ PlaceType'
  BY <1>1 DEF TranscriptInv, TypeInv, SavingType, PlaceType
<1>5. QED
  BY <1>2, <1>3, <1>4 DEF TranscriptInv, TypeInv

-----------------------------------------------------------------------------
(* The end of a process. *)

\* What is left of the process in the next one.
LEMMA NextProcessKeeps ==
  ASSUME TranscriptInv, NextProcess
  PROVE  /\ TypeInv' /\ CacheType' /\ PendInv' /\ SeenInv' /\ said' = said /\ UNCHANGED <<kept, begun>>
         /\ used \in Nat /\ used' = used + 1 /\ listed' = Nothing /\ staged' = FALSE
         /\ \A t \in Sessions : cache'[t] = Cold
<1>1. /\ listed' = Nothing /\ staged' = FALSE /\ cache' = [s \in Sessions |-> Cold]
      /\ session' = used + 1 /\ chat' = <<>> /\ agent' = "none" /\ recorder' = NoRecorder
      /\ writing' = Nothing /\ marking' = 0 /\ saving' = NoSave
      /\ used + 1 \in Sessions /\ used' = used + 1
      /\ UNCHANGED <<said, kept, begun>>
  BY DEF NextProcess
<1>2. used \in Nat /\ used' \in Nat /\ used' <= BoundSessions /\ said \in Nat
  BY <1>1, TranscriptAssumption DEF TranscriptInv, TypeInv, HistType, Sessions
<1>3. HistType'
  BY <1>1, <1>2 DEF TranscriptInv, TypeInv, HistType
<1>4. WriteType' /\ PendInv'
  BY <1>1 DEF WriteType, PendInv
<1>5. SavingType'
  <2>1. <<>> \in Seq(0 .. 2 * said) /\ 0 \in 0 .. used'
    BY <1>2
  <2>2. QED
    BY <1>1, <2>1 DEF SavingType, NoSave
<1>6. PlaceType'
  <2>1. <<>> \in Seq(0 .. 2 * said) /\ 0 \in 0 .. used' /\ used + 1 \in 0 .. used'
    BY <1>1, <1>2
  <2>2. QED
    BY <1>1, <2>1 DEF PlaceType, NoRecorder
<1>7. CacheType' /\ SeenInv'
  BY <1>1 DEF CacheType, SeenInv, Cold
<1>8. QED
  BY <1>1, <1>2, <1>3, <1>4, <1>5, <1>6, <1>7 DEF TypeInv

\* An orderly end writes the staged index.
LEMMA ExitKeeps ==
  ASSUME TranscriptInv, Exit
  PROVE  TranscriptInv'
<1>1. /\ NextProcess /\ UNCHANGED <<file, synced>>
      /\ (staged /\ index' = listed /\ past' = past \cup {Nothing, listed}) \/ UNCHANGED <<index, past>>
  BY DEF Exit, WriteIndex
<1>2. /\ TypeInv' /\ CacheType' /\ PendInv' /\ SeenInv' /\ said' = said /\ UNCHANGED <<kept, begun>>
      /\ used \in Nat /\ used' = used + 1 /\ listed' = Nothing /\ staged' = FALSE /\ \A t \in Sessions : cache'[t] = Cold
  BY <1>1, NextProcessKeeps
<1>3. LineInv'
  BY <1>1, <1>2 DEF TranscriptInv, LineInv, FileType, IdInv, WrittenOnce, SyncInv
<1>4. FreshInv'
  BY <1>1, <1>2 DEF TranscriptInv, FreshInv, Cold, Sessions
<1>5. IndexInv'
  BY <1>1, <1>2 DEF TranscriptInv, IndexInv
<1>6. QED
  BY <1>2, <1>3, <1>4, <1>5 DEF TranscriptInv, MemoInv

\* What a crash leaves of a file: its first lines, and half of the next.
Cut(f, rest, k) ==
  /\ rest \in Seq(Lines) /\ k \in 0 .. Len(f) /\ \A i \in 1 .. k : rest[i] = f[i]
  /\ Len(rest) = k \/ (Len(rest) = k + 1 /\ rest[k + 1] = Torn /\ (k = 0 \/ f[k] # Torn))

LEMMA RemainsAre ==
  ASSUME LineInv, NEW s \in Sessions, NEW rest \in Remains(s)
  PROVE  \E k \in 0 .. Len(file[s]) : synced[s] <= k /\ Cut(file[s], rest, k)
<1> DEFINE f == file[s]
<1>1. f \in Seq(Lines) /\ Len(f) \in Nat /\ synced[s] \in 0 .. Len(f)
  BY DEF LineInv, FileType, SyncInv
<1>2. PICK k \in synced[s] .. Len(f) :
        rest = SubSeq(f, 1, k) \/ (rest = Append(SubSeq(f, 1, k), Torn) /\ (k = 0 \/ f[k] # Torn))
  BY <1>1 DEF Remains
<1>3. k \in 0 .. Len(f) /\ synced[s] <= k
  BY <1>1, <1>2
<1> HIDE DEF f
<1> DEFINE p == SubSeq(f, 1, k)
<1>4. p \in Seq(Lines) /\ Len(p) = k /\ \A i \in 1 .. k : p[i] = f[i]
  BY <1>1, <1>3, PrefixIs
<1>5. rest = p \/ (rest = Append(p, Torn) /\ (k = 0 \/ f[k] # Torn))
  BY <1>2 DEF f
<1> HIDE DEF p
<1>6. CASE rest = p
  BY <1>3, <1>4, <1>6 DEF Cut, f
<1>7. CASE rest = Append(p, Torn) /\ (k = 0 \/ f[k] # Torn)
  <2>1. Torn \in Lines
    BY LinesAre
  <2>2. rest \in Seq(Lines) /\ Len(rest) = k + 1 /\ rest[k + 1] = Torn /\ \A i \in 1 .. k : rest[i] = p[i]
    BY <1>4, <1>7, <2>1, AppendIs
  <2>3. QED
    BY <1>3, <1>4, <1>7, <2>2 DEF Cut, f
<1>8. QED
  BY <1>5, <1>6, <1>7

\* Nothing appears where there is no file.
LEMMA NothingRemains ==
  ASSUME LineInv, NEW s \in Sessions, file[s] = <<>>, ~cache[s].warmed, NEW rest \in Remains(s)
  PROVE  rest = <<>>
<1>1. <<>> \in Seq(Lines) /\ Len(<<>>) = 0 /\ synced[s] \in 0 .. Len(<<>>)
  BY DEF LineInv, SyncInv
<1>2. {k \in synced[s] .. Len(file[s]) : k < Len(file[s]) \/ cache[s].warmed} = {}
  BY <1>1
<1>3. PICK k \in synced[s] .. Len(file[s]) : rest = SubSeq(file[s], 1, k)
  BY <1>2 DEF Remains
<1>4. k = 0 /\ 0 \in 0 .. Len(<<>>) /\ rest = SubSeq(<<>>, 1, 0)
  BY <1>1, <1>3
<1>5. rest \in Seq(Lines) /\ Len(rest) = 0
  BY <1>1, <1>4, PrefixIs
<1>6. QED
  BY <1>5

\* What is cut has no message twice and still has what stood before the cut.
LEMMA CutIs ==
  ASSUME NEW f \in Seq(Lines), NEW rest, NEW k, Cut(f, rest, k)
  PROVE  /\ rest \in Seq(Lines) /\ Len(rest) \in Nat /\ k <= Len(rest) /\ Ids(rest) \subseteq Ids(f) /\ (Single(f) => Single(rest))
         /\ \A n \in 0 .. k : \A id : Stands(f, n, id) => Stands(rest, n, id)
<1>1. rest \in Seq(Lines) /\ k \in Nat /\ k <= Len(f) /\ Len(f) \in Nat /\ Len(rest) \in Nat /\ k <= Len(rest)
  BY DEF Cut
<1>2. Len(rest) <= Len(f) + 1
  BY <1>1 DEF Cut
<1>3. \A i \in 1 .. Len(rest) : IsMessage(rest[i]) => i \in 1 .. Len(f) /\ rest[i] = f[i]
  <2> SUFFICES ASSUME NEW i \in 1 .. Len(rest), IsMessage(rest[i]) PROVE i \in 1 .. Len(f) /\ rest[i] = f[i]
    OBVIOUS
  <2>1. i \in 1 .. k \/ (i = k + 1 /\ rest[i] = Torn)
    BY <1>1 DEF Cut
  <2>2. i \in 1 .. k
    BY <2>1, LinesAre
  <2>3. QED
    BY <1>1, <2>2 DEF Cut
<1>4. Ids(rest) \subseteq Ids(f) /\ (Single(f) => Single(rest))
  BY <1>1, <1>2, <1>3, CutIds
<1>5. ASSUME NEW n \in 0 .. k, NEW id, Stands(f, n, id) PROVE Stands(rest, n, id)
  <2>1. PICK i \in 1 .. n : Holds(f[i], id)
    BY <1>5 DEF Stands
  <2>2. i \in 1 .. k
    BY <1>1, <2>1
  <2>3. QED
    BY <2>1, <2>2 DEF Cut, Stands
<1>6. QED
  BY <1>1, <1>4, <1>5

\* A crash cuts one file behind its synced part.
LEMMA CrashKeeps ==
  ASSUME TranscriptInv, MachineCrash
  PROVE  TranscriptInv'
<1>1. NextProcess /\ index' \in past /\ past' = {index'}
  BY DEF MachineCrash
<1>2. PICK s \in Sessions : \E rest \in Remains(s) :
        file' = [file EXCEPT ![s] = rest] /\ synced' = [t \in Sessions |-> Len(file'[t])]
  BY DEF MachineCrash
<1>3. PICK rest \in Remains(s) : file' = [file EXCEPT ![s] = rest] /\ synced' = [t \in Sessions |-> Len(file'[t])]
  BY <1>2
<1>4. PICK k \in 0 .. Len(file[s]) : synced[s] <= k /\ Cut(file[s], rest, k)
  BY RemainsAre DEF TranscriptInv
<1>5. /\ TypeInv' /\ CacheType' /\ PendInv' /\ SeenInv' /\ said' = said /\ UNCHANGED <<kept, begun>>
      /\ used \in Nat /\ used' = used + 1 /\ listed' = Nothing /\ staged' = FALSE /\ \A t \in Sessions : cache'[t] = Cold
  BY <1>1, NextProcessKeeps
<1>6. file'[s] = rest /\ (\A t \in Sessions : t # s => file'[t] = file[t]) /\ file' = [t \in Sessions |-> file'[t]]
  BY <1>3 DEF TranscriptInv, LineInv, FileType
<1>7. /\ \A t \in Sessions : file[t] \in Seq(Lines) /\ Single(file[t]) /\ Ids(file[t]) \subseteq 0 .. 2 * said
      /\ \A t \in Sessions : synced[t] \in 0 .. Len(file[t]) /\ \A id \in kept[t] : Stands(file[t], synced[t], id)
  BY DEF TranscriptInv, LineInv, FileType, WrittenOnce, Single, IdInv, SyncInv
<1>8. /\ rest \in Seq(Lines) /\ Len(rest) \in Nat /\ k <= Len(rest) /\ Ids(rest) \subseteq Ids(file[s]) /\ Single(rest)
      /\ \A n \in 0 .. k : \A id : Stands(file[s], n, id) => Stands(rest, n, id)
  BY <1>4, <1>7, CutIs
<1>9. FileType'
  BY <1>6, <1>7, <1>8 DEF FileType
<1>10. IdInv'
  BY <1>5, <1>6, <1>7, <1>8 DEF IdInv
<1>11. WrittenOnce'
  <2>1. \A t \in Sessions : Single(file'[t])
    BY <1>6, <1>7, <1>8
  <2>2. QED
    BY <2>1 DEF WrittenOnce, Single
<1>12. SyncInv'
  <2>1. ASSUME NEW t \in Sessions
        PROVE  synced'[t] \in 0 .. Len(file'[t]) /\ \A id \in kept'[t] : Stands(file'[t], synced'[t], id)
    <3>1. synced'[t] = Len(file'[t]) /\ file'[t] \in Seq(Lines) /\ kept'[t] = kept[t]
      BY <1>3, <1>5, <1>9 DEF FileType
    <3>2. Len(file'[t]) \in Nat
      BY <3>1
    <3>3. ASSUME NEW id \in kept[t] PROVE Stands(file'[t], Len(file'[t]), id)
      <4>1. CASE t = s
        <5>1. synced[s] \in 0 .. k /\ synced[s] \in Nat /\ synced[s] <= Len(rest)
          BY <1>4, <1>7, <1>8
        <5>2. Stands(rest, synced[s], id)
          BY <1>7, <1>8, <3>3, <4>1, <5>1
        <5>3. QED
          BY <1>6, <1>8, <4>1, <5>1, <5>2, StandsFurther
      <4>2. CASE t # s
        <5>1. synced[t] \in Nat /\ Len(file[t]) \in Nat /\ synced[t] <= Len(file[t])
          BY <1>7
        <5>2. Stands(file[t], synced[t], id)
          BY <1>7, <3>3
        <5>3. QED
          BY <1>6, <1>7, <4>2, <5>1, <5>2, StandsFurther
      <4>3. QED
        BY <4>1, <4>2
    <3>4. QED
      BY <3>1, <3>2, <3>3
  <2>2. QED
    BY <1>3, <2>1 DEF SyncInv
<1>13. LineInv'
  BY <1>9, <1>10, <1>11, <1>12 DEF LineInv
<1>14. IndexInv'
  BY <1>1, <1>5 DEF TranscriptInv, IndexInv
<1>15. FreshInv'
  <2> SUFFICES ASSUME NEW t \in Sessions, t > used
               PROVE  file'[t] = <<>> /\ ~cache'[t].warmed /\ kept'[t] = {}
    BY <1>5 DEF FreshInv, Sessions
  <2>1. file[t] = <<>> /\ ~cache[t].warmed /\ kept[t] = {}
    BY DEF TranscriptInv, FreshInv
  <2>2. ~cache'[t].warmed /\ kept'[t] = {}
    BY <1>5, <2>1 DEF Cold
  <2>3. CASE t # s
    BY <1>6, <2>1, <2>2, <2>3
  <2>4. CASE t = s
    BY <1>6, <2>1, <2>2, <2>4, NothingRemains DEF TranscriptInv
  <2>5. QED
    BY <2>3, <2>4
<1>16. QED
  BY <1>5, <1>13, <1>14, <1>15 DEF TranscriptInv, MemoInv

-----------------------------------------------------------------------------
(* What the transcripts keep. *)

\* The three facts of an inductive invariant.
LEMMA TranscriptStarts ==
  ASSUME TranscriptInit
  PROVE  TranscriptInv
<1>1. /\ file = [s \in Sessions |-> <<>>] /\ synced = [s \in Sessions |-> 0]
      /\ index = Nothing /\ past = {Nothing} /\ listed = Nothing /\ staged = FALSE /\ cache = [s \in Sessions |-> Cold]
      /\ session = 1 /\ chat = <<>> /\ agent = "none" /\ recorder = NoRecorder
      /\ writing = Nothing /\ marking = 0 /\ saving = NoSave /\ used = 1 /\ said = 0
      /\ kept = [s \in Sessions |-> {}] /\ begun = {}
  BY DEF TranscriptInit
<1>2. <<>> \in Seq(Lines) /\ <<>> \in Seq(0 .. 2 * said) /\ 0 \in 0 .. used /\ 1 \in 0 .. used /\ Len(<<>>) = 0
  BY <1>1
<1>3. \A s \in Sessions : file[s] = <<>> /\ synced[s] = 0 /\ kept[s] = {} /\ cache[s] = Cold
  BY <1>1
<1>4. MessagesAt(<<>>) = {} /\ Ids(<<>>) = {}
  <2>1. MessagesAt(<<>>) = {i \in 1 .. Len(<<>>) : IsMessage(<<>>[i])}
    BY <1>2, IdsAre
  <2>2. 1 .. Len(<<>>) = {}
    BY <1>2
  <2>3. MessagesAt(<<>>) = {}
    BY <2>1, <2>2
  <2>4. QED
    BY <2>3 DEF Ids
<1>5. TypeInv
  BY <1>1, <1>2, TranscriptAssumption
     DEF TypeInv, HistType, WriteType, SavingType, PlaceType, NoSave, NoRecorder
<1>6. FileType /\ IdInv /\ WrittenOnce
  BY <1>1, <1>2, <1>3, <1>4 DEF FileType, IdInv, WrittenOnce
<1>7. SyncInv
  BY <1>1, <1>2, <1>3 DEF SyncInv
<1>8. MemoInv
  BY <1>1, <1>3 DEF MemoInv, CacheType, SeenInv, Cold
<1>9. FreshInv /\ PendInv
  BY <1>1, <1>3 DEF FreshInv, PendInv, Cold
<1>10. IndexInv
  BY <1>1 DEF IndexInv
<1>11. QED
  BY <1>5, <1>6, <1>7, <1>8, <1>9, <1>10 DEF TranscriptInv, LineInv

LEMMA TranscriptStays ==
  ASSUME TranscriptInv, UNCHANGED transcriptVars
  PROVE  TranscriptInv'
<1>1. UNCHANGED <<file, synced, index, past, listed, staged, cache, session, chat, agent, recorder, writing, marking,
                  saving, used, said, kept, begun>>
  BY DEF transcriptVars, stored, process, counters, hist
<1>2. LineInv' /\ MemoInv' /\ FreshInv' /\ PendInv' /\ WriteType' /\ HistType'
  BY <1>1, LinesStay
<1>3. IndexInv' /\ SavingType' /\ PlaceType'
  BY <1>1, IndexStays DEF TranscriptInv, indexes, TypeInv, SavingType, PlaceType
<1>4. QED
  BY <1>2, <1>3 DEF TranscriptInv, TypeInv

LEMMA TranscriptSteps ==
  ASSUME TranscriptInv, TranscriptNext
  PROVE  TranscriptInv'
<1>1. CASE Account \/ Say \/ Compact \/ Mark \/ Audit \/ Build \/ Stop
  BY <1>1, AccountKeeps, SayKeeps, CompactKeeps, MarkKeeps, AuditKeeps, BuildKeeps, StopKeeps
<1>2. CASE SaveBegin \/ SaveMessage \/ SavePatch \/ SaveFlush
  BY <1>2, SaveBeginKeeps, SaveMessageKeeps, SavePatchKeeps, SaveFlushKeeps
<1>3. CASE \E s \in Sessions : Resume(s)
  BY <1>3, ResumeKeeps
<1>4. CASE NewSession \/ Fork \/ List \/ Exit \/ MachineCrash
  BY <1>4, NewSessionKeeps, ForkKeeps, ListKeeps, ExitKeeps, CrashKeeps
<1>5. QED
  BY <1>1, <1>2, <1>3, <1>4 DEF TranscriptNext

\* For any number of sessions, messages and restarts the invariant holds: what
\* is warmed knows the file, what is kept stands in its synced part, nothing is
\* known of a session without a name yet.
THEOREM TranscriptInvariant == TranscriptSpec => []TranscriptInv
<1>1. TranscriptInit => TranscriptInv
  BY TranscriptStarts
<1>2. TranscriptInv /\ [TranscriptNext]_transcriptVars => TranscriptInv'
  BY TranscriptSteps, TranscriptStays
<1>3. QED
  BY <1>1, <1>2, PTL DEF TranscriptSpec

\* For any number of sessions, messages and crashes: a message whose append
\* returned is in its file, or glued to half a record of an earlier crash.
THEOREM MessagesSurvive == TranscriptSpec => []SyncedSurvives
<1>1. TranscriptInv => SyncedSurvives
  <2> SUFFICES ASSUME TranscriptInv, NEW s \in Sessions, ~Glued(s), NEW id \in kept[s] PROVE id \in Ids(file[s])
    BY DEF SyncedSurvives
  <2>1. file[s] \in Seq(Lines) /\ synced[s] \in 0 .. Len(file[s]) /\ Stands(file[s], synced[s], id)
    BY DEF TranscriptInv, LineInv, FileType, SyncInv
  <2>2. PICK i \in 1 .. synced[s] : Holds(file[s][i], id)
    BY <2>1 DEF Stands
  <2>3. i \in 1 .. Len(file[s])
    BY <2>1, <2>2
  <2>4. file[s][i] # Broken
    BY <2>1, <2>3 DEF Glued, ToSet
  <2>5. Placed(file[s], id)
    BY <2>2, <2>3, <2>4 DEF Holds, Placed
  <2>6. QED
    BY <2>1, <2>5, IdsAre
<1>2. QED
  BY <1>1, TranscriptInvariant, PTL

\* For any number of sessions and messages: the two writers, a Save repeated
\* after a restart and a fork never write one message ID twice into a file.
THEOREM NoMessageTwice == TranscriptSpec => []WrittenOnce
<1>1. TranscriptInv => WrittenOnce
  BY DEF TranscriptInv, LineInv
<1>2. QED
  BY <1>1, TranscriptInvariant, PTL

-----------------------------------------------------------------------------
(* What the picker lists: an invariant of the index and of the files it can *)
(* be rebuilt from.                                                         *)

\* Half a record is the last line of its file, or one with what came after it.
EndsInv ==
  \A s \in Sessions : \A i \in 1 .. Len(file[s]) :
    Malformed(file[s][i]) => file[s][i] = Broken \/ (i = Len(file[s]) /\ file[s][i] = Torn)

WrittenInv == writing # Nothing => file[writing.session] # <<>>

\* What was begun and not lost has a file, and is in the index on disk and in
\* the one in memory, unless its file could not be read when they were rebuilt.
ListedInv ==
  \A s \in begun \ unlisted :
    /\ file[s] # <<>>
    /\ index # Nothing => s \in index \/ Glued(s)
    /\ listed # Nothing => s \in listed \/ Glued(s)

PickerInv == EndsInv /\ WrittenInv /\ ListedInv

\* What a step may do to the files: no file is emptied, nothing comes unglued.
GoesOn == \A s \in Sessions : (file[s] # <<>> => file'[s] # <<>>) /\ (Glued(s) => Glued(s)')
Goes == UNCHANGED file \/ \E s \in Sessions : \E line \in Lines : ~Malformed(line) /\ Grows(s, line)

LEMMA GluedIs ==
  ASSUME NEW f \in Seq(Lines)
  PROVE  Broken \in ToSet(f) <=> \E i \in 1 .. Len(f) : f[i] = Broken
BY DEF ToSet

\* A file can be read, or was glued.
LEMMA RebuiltHas ==
  ASSUME TranscriptInv, EndsInv, NEW s \in Sessions, file[s] # <<>>
  PROVE  s \in Rebuilt \/ Glued(s)
<1>1. file[s] \in Seq(Lines)
  BY DEF TranscriptInv, LineInv, FileType
<1>2. CASE Loads(file[s])
  BY <1>2 DEF Rebuilt
<1>3. CASE ~Loads(file[s])
  <2>1. PICK i \in 1 .. Len(file[s]) - 1 : Malformed(file[s][i])
    BY <1>3 DEF Loads
  <2>2. i \in 1 .. Len(file[s]) /\ i # Len(file[s])
    BY <1>1, <2>1
  <2>3. file[s][i] = Broken
    BY <2>1, <2>2 DEF EndsInv
  <2>4. QED
    BY <1>1, <2>2, <2>3, GluedIs DEF Glued
<1>4. QED
  BY <1>2, <1>3

\* So is what the store goes by, read or rebuilt.
LEMMA LoadedHas ==
  ASSUME TranscriptInv, PickerInv, NEW s \in begun \ unlisted
  PROVE  s \in Sessions /\ file[s] # <<>> /\ (s \in (IF Loaded = Nothing THEN Rebuilt ELSE Loaded) \/ Glued(s))
<1>1. s \in Sessions /\ file[s] # <<>>
  BY DEF TranscriptInv, IndexInv, PickerInv, ListedInv
<1>2. CASE Loaded = Nothing
  BY <1>1, <1>2, RebuiltHas DEF PickerInv
<1>3. CASE Loaded # Nothing
  BY <1>1, <1>3 DEF PickerInv, ListedInv, Loaded
<1>4. QED
  BY <1>2, <1>3

\* A file that grows.
LEMMA FilesGo ==
  ASSUME TranscriptInv, EndsInv, Goes
  PROVE  EndsInv' /\ GoesOn
<1>1. CASE UNCHANGED file
  BY <1>1 DEF EndsInv, GoesOn, Glued
<1>2. CASE ~UNCHANGED file
  <2>1. PICK s \in Sessions, line \in Lines : ~Malformed(line) /\ Grows(s, line)
    BY <1>2 DEF Goes
  <2> DEFINE f == file[s]
             g == file'[s]
  <2>2. /\ f \in Seq(Lines) /\ g \in Seq(Lines) /\ Len(g) >= Len(f) /\ g # <<>> /\ Len(f) \in Nat /\ Len(g) \in Nat
        /\ \A i \in 1 .. Len(f) : g[i] = f[i] \/ (g[i] = Broken /\ f[i] = Torn)
        /\ \/ Len(g) = Len(f) + 1 /\ g[Len(g)] = line /\ (Len(f) >= 1 => f[Len(f)] # Torn)
           \/ Len(g) = Len(f) /\ g[Len(g)] = Broken
    BY <2>1 DEF TranscriptInv, LineInv, FileType, Grows, Grown
  <2>3. \A i \in 1 .. Len(f) : Malformed(f[i]) => f[i] = Broken \/ (i = Len(f) /\ f[i] = Torn)
    BY DEF EndsInv
  <2>4. \A t \in Sessions : t # s => file'[t] = file[t]
    BY <2>1 DEF Grows
  <2>5. (Broken \in ToSet(f)) => (Broken \in ToSet(g))
    <3>1. ASSUME NEW i \in 1 .. Len(f), f[i] = Broken PROVE i \in 1 .. Len(g) /\ g[i] = Broken
      BY <2>2, <3>1, LinesAre
    <3>2. QED
      BY <2>2, <3>1, GluedIs
  <2>6. ASSUME NEW i \in 1 .. Len(g), Malformed(g[i]) PROVE g[i] = Broken \/ (i = Len(g) /\ g[i] = Torn)
    <3>1. CASE Len(g) = Len(f)
      <4>1. i \in 1 .. Len(f) /\ g[Len(g)] = Broken
        BY <2>2, <3>1
      <4>2. i # Len(f) => f[i] # Torn \/ ~Malformed(f[i])
        BY <2>3, <4>1, LinesAre
      <4>3. QED
        BY <2>2, <2>3, <2>6, <3>1, <4>1, <4>2
    <3>2. CASE Len(g) # Len(f)
      <4>1. Len(g) = Len(f) + 1 /\ g[Len(g)] = line /\ (Len(f) >= 1 => f[Len(f)] # Torn)
        BY <2>2, <3>2
      <4>2. i # Len(g) /\ i \in 1 .. Len(f)
        BY <2>1, <2>2, <2>6, <4>1
      <4>3. QED
        BY <2>2, <2>3, <2>6, <4>1, <4>2
    <3>3. QED
      BY <3>1, <3>2
  <2> HIDE DEF f, g
  <2>7. EndsInv'
    BY <2>4, <2>6 DEF EndsInv, g
  <2>8. GoesOn
    BY <2>2, <2>4, <2>5 DEF GoesOn, Glued, f, g
  <2>9. QED
    BY <2>7, <2>8
<1>3. QED
  BY <1>1, <1>2

\* The ways to write to a file, and not to.
LEMMA WriteGoes ==
  ASSUME TranscriptInv, NEW s \in Sessions, NEW line \in Lines, ~Malformed(line), Write(s, line)
  PROVE  Goes /\ WrittenInv'
<1>1. Grows(s, line) /\ writing' = [session |-> s, line |-> line]
  BY WriteGrows DEF TranscriptInv, LineInv
<1>2. file'[s] # <<>>
  BY <1>1 DEF Grows, Grown
<1>3. QED
  BY <1>1, <1>2 DEF Goes, WrittenInv

LEMMA NothingGoes ==
  ASSUME WrittenInv, UNCHANGED <<file, writing>>
  PROVE  Goes /\ WrittenInv'
BY DEF Goes, WrittenInv

LEMMA JotGoes ==
  ASSUME TranscriptInv, NEW s \in Sessions, Jot(s), writing = Nothing, UNCHANGED writing
  PROVE  Goes /\ WrittenInv'
<1>1. UNCHANGED file \/ Grows(s, Note)
  BY JotGrows DEF TranscriptInv, LineInv
<1>2. Note \in Lines /\ ~Malformed(Note)
  BY LinesAre DEF Note, Line, Malformed
<1>3. QED
  BY <1>1, <1>2 DEF Goes, WrittenInv

LEMMA StartGoes ==
  ASSUME TranscriptInv, WrittenInv, NEW s \in Sessions, Start(s)
  PROVE  Goes /\ WrittenInv'
<1> DEFINE line == Line("start", 0, 0)
<1>1. line \in Lines /\ ~Malformed(line)
  BY LinesAre DEF Line, Malformed
<1>2. Write(s, line) \/ UNCHANGED <<file, writing>>
  BY DEF Start
<1> HIDE DEF line
<1>3. QED
  BY <1>1, <1>2, WriteGoes, NothingGoes

LEMMA RecordGoes ==
  ASSUME TranscriptInv, agent = "recorded", Record(InChain(said + 1))
  PROVE  Goes /\ WrittenInv'
<1> DEFINE line == Line("message", InChain(said + 1), recorder.last)
<1>1. recorder.session \in Sessions /\ recorder.last \in Nat /\ InChain(said + 1) \in Nat
  BY TranscriptAssumption DEF TranscriptInv, TypeInv, HistType, PlaceType, Sessions, InChain
<1>2. line \in Lines /\ ~Malformed(line) /\ Write(recorder.session, line)
  BY <1>1, LinesAre DEF Line, Malformed, Record
<1> HIDE DEF line
<1>3. QED
  BY <1>1, <1>2, WriteGoes

\* The index is as it was, or what was loaded with a session more.
LEMMA ListedStays ==
  ASSUME TranscriptInv, ListedInv, GoesOn, UNCHANGED <<index, listed, begun, unlisted>>
  PROVE  ListedInv'
BY DEF TranscriptInv, IndexInv, ListedInv, GoesOn

LEMMA EntersLists ==
  ASSUME TranscriptInv, PickerInv, GoesOn, NEW s \in Sessions, Enters(s), file'[s] # <<>>,
         begun' = begun \cup {s}, UNCHANGED unlisted
  PROVE  ListedInv'
<1> DEFINE names == IF Loaded = Nothing THEN Rebuilt ELSE Loaded
<1>1. index' = names \cup {s} /\ listed' = names \cup {s}
  BY DEF Enters, SaveIndex, WriteIndex
<1>2. \A t \in begun \ unlisted : t \in Sessions /\ file[t] # <<>> /\ (t \in names \/ Glued(t))
  BY LoadedHas
<1> HIDE DEF names
<1>3. QED
  BY <1>1, <1>2 DEF ListedInv, GoesOn

LEMMA UpsertLists ==
  ASSUME TranscriptInv, PickerInv, GoesOn, NEW s \in Sessions, Upsert(s), UNCHANGED <<begun, unlisted>>
  PROVE  ListedInv'
<1> DEFINE names == IF Loaded = Nothing THEN Rebuilt ELSE Loaded
<1>1. listed' = names \cup {s} /\ (index' = index \/ index' = names)
  BY DEF Upsert, WriteIndex
<1>2. \A t \in begun \ unlisted : t \in Sessions /\ file[t] # <<>> /\ (t \in names \/ Glued(t))
  BY LoadedHas
<1> HIDE DEF names
<1>3. QED
  BY <1>1, <1>2 DEF PickerInv, ListedInv, GoesOn

LEMMA RefreshLists ==
  ASSUME TranscriptInv, PickerInv, GoesOn, NEW s \in Sessions, Refresh(s),
         begun' = begun \/ (begun' = begun \cup {s} /\ Loads(file'[s]))
  PROVE  ListedInv'
<1>1. CASE Loads(file'[s])
  <2> DEFINE names == IF Loaded = Nothing THEN {} ELSE Loaded
  <2>1. /\ index' = names \cup {s} /\ listed' = names \cup {s}
        /\ unlisted' = IF Loaded = Nothing THEN unlisted \cup (begun \ {s}) ELSE unlisted
    BY <1>1 DEF Refresh, SaveIndex, WriteIndex
  <2>2. \A t \in begun \ unlisted : t \in Sessions /\ file[t] # <<>> /\ (Loaded = Nothing \/ t \in names \/ Glued(t))
    BY LoadedHas
  <2>3. file'[s] # <<>>
    BY <1>1 DEF Loads
  <2> HIDE DEF names
  <2>4. QED
    BY <2>1, <2>2, <2>3 DEF ListedInv, GoesOn
<1>2. CASE ~Loads(file'[s])
  <2>1. UNCHANGED <<index, listed, begun, unlisted>>
    BY <1>2 DEF Refresh, indexes
  <2>2. QED
    BY <2>1, ListedStays DEF PickerInv
<1>3. QED
  BY <1>1, <1>2

\* The steps that leave the index alone.
LEMMA TalkLists ==
  ASSUME TranscriptInv, PickerInv,
         Say \/ Compact \/ Mark \/ Audit \/ Build \/ Stop \/ SaveBegin \/ SaveMessage
           \/ (\E s \in Sessions : Resume(s)) \/ NewSession
  PROVE  PickerInv'
<1>1. UNCHANGED <<index, listed, begun, unlisted>>
  BY DEF Say, Compact, Mark, Audit, Build, Stop, SaveBegin, SaveMessage, Resume, NewSession, indexes, stored, hist
<1>2. Goes /\ WrittenInv'
  <2>1. CASE Say \/ Compact
    <3>1. CASE agent = "recorded"
      BY <2>1, <3>1, RecordGoes DEF Say, Compact
    <3>2. CASE agent # "recorded"
      BY <2>1, <3>2, NothingGoes DEF Say, Compact, PickerInv
    <3>3. QED
      BY <3>1, <3>2
  <2>2. CASE Mark
    <3> DEFINE line == Line("boundary", marking, 0)
    <3>1. recorder.session \in Sessions /\ marking \in Nat
      BY <2>2, TranscriptAssumption DEF Mark, TranscriptInv, TypeInv, HistType, PlaceType, Sessions
    <3>2. line \in Lines /\ ~Malformed(line) /\ Write(recorder.session, line)
      BY <2>2, <3>1, LinesAre DEF Line, Malformed, Mark
    <3> HIDE DEF line
    <3>3. QED
      BY <3>1, <3>2, WriteGoes
  <2>3. CASE Audit
    <3>1. recorder.session \in Sessions /\ Jot(recorder.session) /\ writing = Nothing /\ UNCHANGED writing
      BY <2>3, TranscriptAssumption DEF Audit, process, TranscriptInv, TypeInv, HistType, PlaceType, Sessions
    <3>2. QED
      BY <3>1, JotGoes
  <2>4. CASE Build
    <3>1. CASE session \in {0, recorder.session}
      BY <2>4, <3>1, NothingGoes DEF Build, PickerInv
    <3>2. CASE session \notin {0, recorder.session}
      <4>1. session \in Sessions /\ Start(session)
        BY <2>4, <3>2, TranscriptAssumption DEF Build, TranscriptInv, TypeInv, HistType, PlaceType, Sessions
      <4>2. QED
        BY <4>1, StartGoes DEF PickerInv
    <3>3. QED
      BY <3>1, <3>2
  <2>5. CASE SaveBegin
    <3>1. PICK s \in Sessions : Start(s)
      BY <2>5 DEF SaveBegin
    <3>2. QED
      BY <3>1, StartGoes DEF PickerInv
  <2>6. CASE SaveMessage
    <3>1. PICK line \in Lines : saving.of \in Sessions /\ line.kind = "message" /\ Write(saving.of, line)
      BY <2>6, SaveMessageWrites
    <3>2. QED
      BY <3>1, WriteGoes DEF Malformed
  <2>7. CASE Stop \/ NewSession \/ \E s \in Sessions : Resume(s)
    BY <2>7, NothingGoes DEF Stop, NewSession, Resume, stored, PickerInv
  <2>8. QED
    BY <2>1, <2>2, <2>3, <2>4, <2>5, <2>6, <2>7
<1>3. EndsInv' /\ GoesOn
  BY <1>2, FilesGo DEF PickerInv
<1>4. QED
  BY <1>1, <1>2, <1>3, ListedStays DEF PickerInv

\* The steps that write it.
LEMMA AccountLists ==
  ASSUME TranscriptInv, PickerInv, Account
  PROVE  PickerInv'
<1> DEFINE s == writing.session
<1>1. writing # Nothing /\ writing' = Nothing /\ UNCHANGED file /\ s \in Sessions
      /\ writing.line.kind \in {"start", "message", "boundary"}
  BY DEF Account, TranscriptInv, TypeInv, WriteType, Writes
<1>2. file[s] # <<>> /\ EndsInv' /\ WrittenInv' /\ GoesOn
  BY <1>1 DEF PickerInv, WrittenInv, EndsInv, GoesOn, Glued
<1>3. \/ Enters(s) /\ begun' = begun \cup {s} /\ UNCHANGED unlisted
      \/ Upsert(s) /\ UNCHANGED <<begun, unlisted>>
      \/ Refresh(s) /\ UNCHANGED begun
  <2>1. CASE writing.line.kind = "start"
    BY <2>1 DEF Account
  <2>2. CASE writing.line.kind = "message"
    BY <2>2 DEF Account
  <2>3. CASE writing.line.kind = "boundary"
    BY <2>3 DEF Account
  <2>4. QED
    BY <1>1, <2>1, <2>2, <2>3
<1> HIDE DEF s
<1>4. ListedInv'
  BY <1>1, <1>2, <1>3, EntersLists, UpsertLists, RefreshLists
<1>5. QED
  BY <1>2, <1>4 DEF PickerInv

LEMMA SaveLists ==
  ASSUME TranscriptInv, PickerInv, SavePatch \/ SaveFlush \/ List
  PROVE  PickerInv'
<1>1. CASE SavePatch
  <2>1. /\ saving.of \in Sessions /\ Jot(saving.of) /\ Upsert(saving.of) /\ writing = Nothing
        /\ UNCHANGED <<writing, begun, unlisted>>
    BY <1>1, UnsavedIs DEF SavePatch, hist
  <2>2. Goes /\ WrittenInv'
    BY <2>1, JotGoes
  <2>3. EndsInv' /\ GoesOn
    BY <2>2, FilesGo DEF PickerInv
  <2>4. QED
    BY <2>1, <2>2, <2>3, UpsertLists DEF PickerInv
<1>2. CASE SaveFlush \/ List
  <2>1. UNCHANGED <<file, writing, begun, unlisted>>
    BY <1>2 DEF SaveFlush, List, process, hist
  <2>2. Goes /\ WrittenInv'
    BY <2>1, NothingGoes DEF PickerInv
  <2>3. EndsInv' /\ GoesOn
    BY <2>2, FilesGo DEF PickerInv
  <2>4. \/ UNCHANGED <<index, listed>>
        \/ listed # Nothing /\ index' = listed /\ listed' = listed
        \/ Loaded = Nothing /\ index' = Rebuilt /\ listed' = Rebuilt
    BY <1>2 DEF SaveFlush, Flush, List, SaveIndex, WriteIndex, indexes, TranscriptInv, IndexInv
  <2>5. ListedInv'
    <3>1. CASE UNCHANGED <<index, listed>>
      BY <2>1, <2>3, <3>1, ListedStays DEF PickerInv
    <3>2. CASE listed # Nothing /\ index' = listed /\ listed' = listed
      BY <2>1, <3>2 DEF PickerInv, ListedInv, Glued
    <3>3. CASE Loaded = Nothing /\ index' = Rebuilt /\ listed' = Rebuilt
      <4>1. \A t \in begun \ unlisted : file[t] # <<>> /\ (t \in Rebuilt \/ Glued(t))
        BY <3>3, LoadedHas
      <4> HIDE DEF Rebuilt
      <4>2. QED
        BY <2>1, <3>3, <4>1 DEF ListedInv, Glued
    <3>4. QED
      BY <2>4, <3>1, <3>2, <3>3
  <2>6. QED
    BY <2>2, <2>3, <2>5 DEF PickerInv
<1>3. QED
  BY <1>1, <1>2

LEMMA ForkLists ==
  ASSUME TranscriptInv, PickerInv, Fork
  PROVE  PickerInv'
<1> DEFINE s == used + 1
           p == Parsed(file[session])
           g == Append(p, Line("fork", 0, 0))
<1>1. /\ s \in Sessions /\ Loads(file[session]) /\ p # <<>> /\ file' = [file EXCEPT ![s] = g]
      /\ Refresh(s) /\ begun' = begun \cup {s} /\ writing = Nothing /\ UNCHANGED writing /\ session # 0
  BY DEF Fork, Saved
<1>2. session \in Sessions /\ used \in Nat
  BY <1>1, TranscriptAssumption DEF TranscriptInv, TypeInv, HistType, PlaceType, Sessions
<1>3. file[session] \in Seq(Lines)
  BY <1>2 DEF TranscriptInv, LineInv, FileType
<1>4. p \in Seq(Lines) /\ \A i \in 1 .. Len(p) : ~Malformed(p[i])
  BY <1>1, <1>3, ParsedIs
<1> HIDE DEF p
<1>5. g \in Seq(Lines) /\ Len(g) = Len(p) + 1 /\ Len(p) \in Nat /\ \A i \in 1 .. Len(g) : ~Malformed(g[i])
  <2>1. Line("fork", 0, 0) \in Lines /\ ~Malformed(Line("fork", 0, 0))
    BY LinesAre DEF Line, Malformed
  <2>2. /\ g \in Seq(Lines) /\ Len(g) = Len(p) + 1 /\ (\A i \in 1 .. Len(p) : g[i] = p[i])
        /\ g[Len(p) + 1] = Line("fork", 0, 0) /\ Len(p) \in Nat
    BY <1>4, <2>1, AppendIs
  <2>3. \A i \in 1 .. Len(g) : i \in 1 .. Len(p) \/ i = Len(p) + 1
    BY <2>2
  <2>4. QED
    BY <1>4, <2>1, <2>2, <2>3
<1> HIDE DEF g
<1>6. g # <<>> /\ Loads(g)
  <2>1. \A i \in 1 .. Len(g) - 1 : i \in 1 .. Len(g)
    BY <1>5
  <2>2. QED
    BY <1>5, <2>1 DEF Loads
<1>7. file'[s] = g /\ (\A t \in Sessions : t # s => file'[t] = file[t]) /\ file[s] = <<>>
  BY <1>1, <1>2 DEF TranscriptInv, LineInv, FileType, FreshInv
<1>8. ~Glued(s)
  BY <1>7 DEF Glued, ToSet
<1> HIDE DEF s
<1>9. GoesOn
  BY <1>7, <1>8 DEF GoesOn, Glued
<1>10. EndsInv'
  BY <1>5, <1>7 DEF EndsInv, PickerInv
<1>11. ListedInv'
  BY <1>1, <1>6, <1>7, <1>9, RefreshLists
<1>12. QED
  BY <1>1, <1>10, <1>11 DEF PickerInv, WrittenInv

LEMMA ExitLists ==
  ASSUME TranscriptInv, PickerInv, Exit
  PROVE  PickerInv'
<1>1. /\ writing' = Nothing /\ listed' = Nothing /\ UNCHANGED <<file, begun, unlisted>>
      /\ (listed # Nothing /\ index' = listed) \/ UNCHANGED index
  BY DEF Exit, NextProcess, WriteIndex, TranscriptInv, IndexInv
<1>2. EndsInv' /\ WrittenInv'
  BY <1>1 DEF PickerInv, EndsInv, WrittenInv
<1>3. ListedInv'
  BY <1>1 DEF PickerInv, ListedInv, Glued
<1>4. QED
  BY <1>2, <1>3 DEF PickerInv

\* A crash takes only what its history variable names.
LEMMA CrashLists ==
  ASSUME TranscriptInv, PickerInv, MachineCrash
  PROVE  PickerInv'
<1>1. /\ writing' = Nothing /\ listed' = Nothing /\ UNCHANGED begun
      /\ unlisted' = unlisted \cup {t \in begun : file'[t] = <<>> \/ (index' # Nothing /\ t \notin index')}
  BY DEF MachineCrash, NextProcess
<1>2. PICK s \in Sessions : \E rest \in Remains(s) : file' = [file EXCEPT ![s] = rest]
  BY DEF MachineCrash
<1>3. PICK rest \in Remains(s) : file' = [file EXCEPT ![s] = rest]
  BY <1>2
<1>4. PICK k \in 0 .. Len(file[s]) : Cut(file[s], rest, k)
  BY RemainsAre DEF TranscriptInv
<1>5. file'[s] = rest /\ (\A t \in Sessions : t # s => file'[t] = file[t])
  BY <1>3 DEF TranscriptInv, LineInv, FileType
<1>6. EndsInv'
  <2> DEFINE f == file[s]
  <2>1. f \in Seq(Lines) /\ Len(f) \in Nat
    BY DEF TranscriptInv, LineInv, FileType
  <2>2. \A i \in 1 .. Len(f) : Malformed(f[i]) => f[i] = Broken \/ (i = Len(f) /\ f[i] = Torn)
    BY DEF PickerInv, EndsInv
  <2>3. /\ rest \in Seq(Lines) /\ k \in 0 .. Len(f) /\ \A i \in 1 .. k : rest[i] = f[i]
        /\ Len(rest) = k \/ (Len(rest) = k + 1 /\ rest[k + 1] = Torn /\ (k = 0 \/ f[k] # Torn))
    BY <1>4 DEF Cut
  <2> HIDE DEF f
  <2>4. ASSUME NEW i \in 1 .. Len(rest), Malformed(rest[i])
        PROVE  rest[i] = Broken \/ (i = Len(rest) /\ rest[i] = Torn)
    <3>1. i \in 1 .. k \/ (i = k + 1 /\ i = Len(rest) /\ rest[i] = Torn)
      BY <2>1, <2>3
    <3>2. CASE i \in 1 .. k
      <4>1. i \in 1 .. Len(f) /\ rest[i] = f[i]
        BY <2>1, <2>3, <3>2
      <4>2. f[i] = Broken \/ (i = Len(f) /\ f[i] = Torn)
        BY <2>2, <2>4, <4>1
      <4>3. i = Len(f) /\ f[i] = Torn => i = k /\ k # 0 /\ Len(rest) = k
        BY <2>1, <2>3, <3>2
      <4>4. QED
        BY <4>1, <4>2, <4>3
    <3>3. QED
      BY <3>1, <3>2
  <2>5. QED
    BY <1>5, <2>4 DEF PickerInv, EndsInv
<1>7. ListedInv'
  BY <1>1 DEF ListedInv
<1>8. QED
  BY <1>1, <1>6, <1>7 DEF PickerInv, WrittenInv

\* For any number of sessions, messages and crashes: a session whose Start or
\* fork has returned is in what the next process lists, whoever writes the
\* index, whatever it has cached, and when a crash left no index a reader can
\* parse; but for what a crash took with an older index or an unsynced fork,
\* what a fork left out of a lost index, and what a crash made unreadable.
THEOREM PickerSeesAll == TranscriptSpec => []SessionsListed
<1>1. TranscriptInit => PickerInv
  <2>1. Len(<<>>) = 0 /\ 1 .. 0 = {}
    OBVIOUS
  <2>2. QED
    BY <2>1 DEF TranscriptInit, PickerInv, EndsInv, WrittenInv, ListedInv
<1>2. TranscriptInv /\ PickerInv /\ [TranscriptNext]_transcriptVars => PickerInv'
  <2>1. CASE TranscriptNext
    BY <2>1, TalkLists, AccountLists, SaveLists, ForkLists, ExitLists, CrashLists DEF TranscriptNext
  <2>2. CASE UNCHANGED transcriptVars
    BY <2>2 DEF transcriptVars, stored, process, hist, PickerInv, EndsInv, WrittenInv, ListedInv, Glued
  <2>3. QED
    BY <2>1, <2>2
<1>3. TranscriptInv /\ PickerInv => SessionsListed
  <2> SUFFICES ASSUME TranscriptInv, PickerInv, NEW s \in begun \ unlisted PROVE s \in Picker \/ Glued(s)
    BY DEF SessionsListed
  <2>1. s \in Sessions /\ file[s] # <<>>
    BY LoadedHas
  <2>2. s \in Rebuilt \/ Glued(s)
    BY <2>1, RebuiltHas DEF PickerInv
  <2>3. QED
    BY <2>2 DEF PickerInv, ListedInv, Picker
<1>4. QED
  BY <1>1, <1>2, <1>3, TranscriptInvariant, PTL DEF TranscriptSpec

-----------------------------------------------------------------------------
(* Chains of messages in a file, and what is read back of it. *)

\* A message stands in a file with this ID and this parent.
Follows(f, id, parent) == \E i \in 1 .. Len(f) : IsMessage(f[i]) /\ f[i].id = id /\ f[i].parent = parent

\* Every parent, and every message a boundary names, stands further up.
SoundAt(f, i) ==
  /\ IsMessage(f[i]) => f[i].id # 0 /\ (f[i].parent = 0 \/ Stands(f, i - 1, f[i].parent))
  /\ f[i].kind = "boundary" => Stands(f, i - 1, f[i].id)
Sound(f) == \A i \in 1 .. Len(f) : SoundAt(f, i)

Intact(f) == \A i \in 1 .. Len(f) : f[i] # Broken

\* A chain of messages, each the parent of the next, from a root or the
\* boundary on.
Distinct(c) == \A i, j \in 1 .. Len(c) : c[i] = c[j] => i = j
IsPath(f, c) ==
  /\ c \in Chains(f) /\ Distinct(c)
  /\ \A i \in 1 .. Len(c) - 1 : Follows(f, c[i + 1], c[i]) /\ c[i + 1] # Boundary(f)
  /\ c[1] = Boundary(f) \/ Follows(f, c[1], 0)

Good(f) == f \in Seq(Lines) /\ Single(f) /\ Sound(f) /\ Intact(f)

\* Two sequences of equal length and elements are equal.
LEMMA SameElements ==
  ASSUME NEW S, NEW c \in Seq(S), NEW d \in Seq(S), Len(c) = Len(d), \A i \in 1 .. Len(c) : c[i] = d[i]
  PROVE  c = d
OBVIOUS

\* The end of a sequence, and the end with one more.
LEMMA TailIs ==
  ASSUME NEW S, NEW c \in Seq(S), NEW a \in 1 .. Len(c)
  PROVE  /\ SubSeq(c, a, Len(c)) \in Seq(S) /\ Len(SubSeq(c, a, Len(c))) = Len(c) - a + 1
         /\ \A i \in 1 .. Len(c) - a + 1 : SubSeq(c, a, Len(c))[i] = c[a + i - 1]
         /\ SubSeq(c, a, Len(c)) # <<>> /\ Head(SubSeq(c, a, Len(c))) = c[a]
<1> DEFINE t == SubSeq(c, a, Len(c))
<1>1. /\ t \in Seq(S) /\ Len(t) = Len(c) - a + 1
      /\ \A i \in 1 .. Len(c) - a + 1 : t[i] = c[a + i - 1]
  OBVIOUS
<1> HIDE DEF t
<1>2. 1 \in 1 .. Len(c) - a + 1 /\ a + 1 - 1 = a /\ Len(t) # 0
  BY <1>1
<1>3. t # <<>> /\ Head(t) = t[1]
  BY <1>1, <1>2
<1>4. t[1] = c[a]
  BY <1>1, <1>2
<1>5. QED
  BY <1>1, <1>3, <1>4 DEF t

\* A part of a sequence, with the element before it.
LEMMA TailGrows ==
  ASSUME NEW S, NEW c \in Seq(S), NEW a \in 2 .. Len(c)
  PROVE  <<c[a - 1]>> \o SubSeq(c, a, Len(c)) = SubSeq(c, a - 1, Len(c))
<1> DEFINE b == a - 1
<1>1. /\ b \in 1 .. Len(c) + 1 /\ b \in b - 1 .. Len(c) /\ Len(c) \in b .. Len(c) /\ b + 1 = a
      /\ b \in 1 .. Len(c)
  OBVIOUS
<1> HIDE DEF b
<1>2. SubSeq(c, b, b) \o SubSeq(c, b + 1, Len(c)) = SubSeq(c, b, Len(c))
  BY <1>1, ConcatAdjacentSubSeq
<1>3. SubSeq(c, b, b) = <<c[b]>>
  <2> DEFINE t == SubSeq(c, b, b)
             x == c[b]
  <2>1. t \in Seq(S) /\ Len(t) = 1 /\ t[1] = x /\ x \in S
    BY <1>1
  <2> HIDE DEF t, x
  <2> DEFINE y == <<x>>
  <2>2. y \in Seq(S) /\ Len(y) = 1 /\ y[1] = x
    BY <2>1
  <2> HIDE DEF y
  <2>3. Len(t) = Len(y) /\ \A i \in 1 .. Len(t) : t[i] = y[i]
    BY <2>1, <2>2
  <2>4. t = y
    BY <2>1, <2>2, <2>3, SameElements
  <2>5. QED
    BY <2>4 DEF t, x, y
<1>4. QED
  BY <1>1, <1>2, <1>3 DEF b

\* The ID at a place no other is after.
LEMMA LastAt ==
  ASSUME NEW f \in Seq(Lines), NEW T \in SUBSET (1 .. Len(f)), NEW i \in T, \A j \in T : j <= i
  PROVE  LastOf(f, T) = f[i].id
<1>0. Len(f) \in Nat /\ T # {}
  OBVIOUS
<1>1. Max(T) \in T /\ \A y \in T : y <= Max(T)
  BY <1>0, MaxIs
<1>2. Max(T) \in 1 .. Len(f) /\ i \in 1 .. Len(f) /\ Max(T) <= i /\ i <= Max(T)
  BY <1>1
<1> DEFINE m == Max(T)
<1>3. m \in Nat /\ i \in Nat /\ m <= i /\ i <= m
  BY <1>0, <1>2
<1> HIDE DEF m
<1>4. m = i
  BY <1>3
<1>5. QED
  BY <1>0, <1>4 DEF LastOf, m

\* LastOf picks the highest of the positions it is given.
LEMMA LastThere ==
  ASSUME NEW f \in Seq(Lines), NEW T \in SUBSET (1 .. Len(f)), T # {}
  PROVE  \E i \in T : (\A j \in T : j <= i) /\ LastOf(f, T) = f[i].id
<1>0. Len(f) \in Nat
  OBVIOUS
<1>1. Max(T) \in T /\ \A y \in T : y <= Max(T)
  BY <1>0, MaxIs
<1>2. LastOf(f, T) = f[Max(T)].id
  BY DEF LastOf
<1>3. QED
  BY <1>1, <1>2

\* What stands in an intact file is a message of it.
LEMMA StandingIs ==
  ASSUME NEW f \in Seq(Lines), Intact(f), NEW n \in Nat, n <= Len(f), NEW id, Stands(f, n, id)
  PROVE  id \in Ids(f) /\ \E i \in 1 .. n : IsMessage(f[i]) /\ f[i].id = id
<1>1. PICK i \in 1 .. n : Holds(f[i], id)
  BY DEF Stands
<1>2. i \in 1 .. Len(f)
  OBVIOUS
<1>3. IsMessage(f[i]) /\ f[i].id = id
  BY <1>1, <1>2 DEF Holds, Intact
<1>4. Placed(f, id)
  BY <1>2, <1>3 DEF Placed
<1>5. QED
  BY <1>3, <1>4, IdsAre

\* The parent of a message.
LEMMA ParentIs ==
  ASSUME NEW f \in Seq(Lines), Single(f), NEW id, NEW parent, Follows(f, id, parent)
  PROVE  ParentOf(f, id) = parent /\ id \in Ids(f)
<1>1. PICK i \in 1 .. Len(f) : IsMessage(f[i]) /\ f[i].id = id /\ f[i].parent = parent
  BY DEF Follows
<1>2. MessagesAt(f) = {j \in 1 .. Len(f) : IsMessage(f[j])}
  BY IdsAre
<1>3. i \in MessagesAt(f)
  BY <1>1, <1>2
<1>4. \A j \in MessagesAt(f) : f[j].id = id => j = i
  BY <1>1, <1>3 DEF Single
<1>5. (CHOOSE j \in MessagesAt(f) : f[j].id = id) = i
  BY <1>1, <1>3, <1>4
<1>6. Placed(f, id)
  BY <1>1 DEF Placed
<1>7. id \in Ids(f)
  BY <1>6, IdsAre
<1>8. QED
  BY <1>1, <1>5, <1>7 DEF ParentOf

\* In a sound and intact file the last message is nobody's parent.
LEMMA LeafIs ==
  ASSUME NEW f, Good(f), Ids(f) # {}
  PROVE  /\ LastId(f) \in Ids(f)
         /\ (IF Childless(f) = {} THEN LastId(f) ELSE LastOf(f, Childless(f))) = LastId(f)
<1>1. f \in Seq(Lines) /\ Single(f) /\ Sound(f) /\ Intact(f) /\ Len(f) \in Nat
  BY DEF Good
<1>2. MessagesAt(f) = {i \in 1 .. Len(f) : IsMessage(f[i])} /\ MessagesAt(f) \in SUBSET (1 .. Len(f))
  BY <1>1, IdsAre
<1>3. MessagesAt(f) # {}
  BY DEF Ids
<1>4. PICK i \in MessagesAt(f) : (\A j \in MessagesAt(f) : j <= i) /\ LastOf(f, MessagesAt(f)) = f[i].id
  BY <1>1, <1>2, <1>3, LastThere
<1>5. i \in Childless(f)
  <2> SUFFICES ASSUME NEW j \in MessagesAt(f), f[j].parent = f[i].id PROVE FALSE
    BY DEF Childless
  <2>1. i \in 1 .. Len(f) /\ j \in 1 .. Len(f) /\ IsMessage(f[i]) /\ IsMessage(f[j]) /\ j <= i
    BY <1>2, <1>4
  <2>2. f[i].id # 0
    BY <1>1, <2>1 DEF Sound, SoundAt
  <2>3. Stands(f, j - 1, f[i].id)
    BY <1>1, <2>1, <2>2 DEF Sound, SoundAt
  <2>4. j - 1 \in Nat /\ j - 1 <= Len(f)
    BY <1>1, <2>1
  <2>5. PICK m \in 1 .. j - 1 : IsMessage(f[m]) /\ f[m].id = f[i].id
    BY <1>1, <2>3, <2>4, StandingIs
  <2>6. m \in MessagesAt(f) /\ m # i
    BY <1>1, <1>2, <2>1, <2>4, <2>5
  <2>7. QED
    BY <1>1, <2>5, <2>6 DEF Single
<1>6. Childless(f) \in SUBSET (1 .. Len(f)) /\ \A j \in Childless(f) : j <= i
  BY <1>2, <1>4 DEF Childless
<1>7. LastOf(f, Childless(f)) = f[i].id
  BY <1>1, <1>5, <1>6, LastAt
<1>8. f[i].id \in Ids(f)
  BY DEF Ids
<1>9. QED
  BY <1>4, <1>5, <1>7, <1>8 DEF LastId

\* How a file is read back: from the leaf up, once for each message.
LEMMA ReadBack ==
  ASSUME NEW f \in Seq(Lines), Ids(f) # {}
  PROVE  LET leaf == IF Childless(f) = {} THEN LastId(f) ELSE LastOf(f, Childless(f))
         IN  /\ leaf \in Ids(f)
             /\ \E chain \in [Nat -> Chains(f)] :
                  /\ chain[0] = <<leaf>> /\ \A k \in Nat : chain[k + 1] = Extended(f, chain[k])
                  /\ Projected(f) = chain[Cardinality(Ids(f))]
<1> DEFINE leaf == IF Childless(f) = {} THEN LastId(f) ELSE LastOf(f, Childless(f))
           chain == CHOOSE g : g = [k \in Nat |-> IF k = 0 THEN <<leaf>> ELSE Extended(f, g[k - 1])]
<1>1. leaf \in Ids(f)
  <2>1. MessagesAt(f) # {}
    BY DEF Ids
  <2>2. Childless(f) \in SUBSET MessagesAt(f)
    BY DEF Childless
  <2>3. QED
    BY <2>1, <2>2, LastOfIs DEF LastId
<1>2. Projected(f) = chain[Cardinality(Ids(f))]
  BY DEF Projected
<1> HIDE DEF leaf, chain
<1>3. <<leaf>> \in Chains(f)
  BY <1>1 DEF Chains
<1> DEFINE h == [c \in Chains(f) |-> Extended(f, c)]
<1>4. h \in [Chains(f) -> Chains(f)]
  BY ExtendedIs
<1>5. PICK g \in [Nat -> Chains(f)] : g[0] = <<leaf>> /\ \A n \in Nat : g[n + 1] = h[g[n]]
  <2> HIDE DEF h
  <2> DEFINE X == Chains(f)
             x0 == <<leaf>>
  <2>1. x0 \in X /\ h \in SelfMaps(X)
    BY <1>3, <1>4 DEF SelfMaps
  <2> HIDE DEF X, x0
  <2>2. Orbits(X, x0, h) # {}
    BY <2>1, Iterates
  <2>3. QED
    BY <2>2 DEF X, x0, Orbits
<1>6. g = [k \in Nat |-> IF k = 0 THEN <<leaf>> ELSE Extended(f, g[k - 1])]
  <2>1. \A k \in Nat : k # 0 => k - 1 \in Nat /\ (k - 1) + 1 = k
    OBVIOUS
  <2>2. \A k \in Nat : k # 0 => g[k] = Extended(f, g[k - 1])
    BY <2>1, <1>5
  <2>3. QED
    BY <2>2, <1>5
<1>7. chain = [k \in Nat |-> IF k = 0 THEN <<leaf>> ELSE Extended(f, chain[k - 1])]
  BY <1>6 DEF chain
<1>8. chain[0] = <<leaf>> /\ \A k \in Nat : chain[k + 1] = Extended(f, chain[k])
  <2>1. \A k \in Nat : k + 1 \in Nat /\ k + 1 # 0 /\ (k + 1) - 1 = k
    OBVIOUS
  <2>2. QED
    BY <1>7, <2>1
<1> DEFINE S == {k \in Nat : chain[k] \in Chains(f)}
<1>9. Nat \subseteq S
  <2>1. 0 \in S
    BY <1>3, <1>8
  <2>2. ASSUME NEW k \in Nat, k \in S PROVE k + 1 \in S
    <3>1. chain[k] \in Chains(f) /\ k + 1 \in Nat
      BY <2>2
    <3>2. Extended(f, chain[k]) \in Chains(f)
      BY <3>1, ExtendedIs
    <3>3. QED
      BY <1>8, <3>1, <3>2
  <2> HIDE DEF S
  <2>3. QED
    BY <2>1, <2>2, Induction
<1>10. chain \in [Nat -> Chains(f)]
  BY <1>7, <1>9
<1>11. QED
  BY <1>1, <1>2, <1>8, <1>10 DEF leaf

\* A file has finitely many messages.
LEMMA IdsFinite ==
  ASSUME NEW f \in Seq(Lines)
  PROVE  IsFiniteSet(Ids(f)) /\ Cardinality(Ids(f)) \in Nat
<1>1. Len(f) \in Nat /\ MessagesAt(f) \subseteq 1 .. Len(f)
  BY IdsAre
<1>2. IsFiniteSet(1 .. Len(f))
  BY <1>1, FS_Interval
<1>3. IsFiniteSet(MessagesAt(f))
  BY <1>1, <1>2, FS_Subset
<1> DEFINE M == MessagesAt(f)
           e == [i \in M |-> f[i].id]
<1>4. e \in Surjection(M, Ids(f))
  BY DEF Surjection, Ids
<1> HIDE DEF M, e
<1>5. IsFiniteSet(Ids(f))
  BY <1>3, <1>4, FS_Surjection DEF M
<1>6. QED
  BY <1>5, FS_CardinalityType

\* A sequence without repetitions is no longer than its messages are many.
LEMMA DistinctFits ==
  ASSUME NEW X, IsFiniteSet(X), NEW c \in Seq(X), Distinct(c)
  PROVE  Len(c) <= Cardinality(X)
<1>1. Len(c) \in Nat /\ \A i \in 1 .. Len(c) : c[i] \in X
  OBVIOUS
<1> DEFINE D == 1 .. Len(c)
           e == [i \in D |-> c[i]]
<1>2. e \in Injection(D, X)
  <2>1. e \in [D -> X] /\ \A i \in D : e[i] = c[i]
    BY <1>1
  <2>2. \A i, j \in D : e[i] = e[j] => i = j
    BY <2>1 DEF Distinct
  <2> HIDE DEF D, e
  <2>3. QED
    BY <2>1, <2>2 DEF Injection, IsInjective
<1>3. Cardinality(D) = Len(c)
  <2>1. Cardinality(1 .. Len(c)) = IF 1 > Len(c) THEN 0 ELSE Len(c) - 1 + 1
    BY <1>1, FS_Interval
  <2>2. QED
    BY <1>1, <2>1
<1> HIDE DEF D, e
<1>4. QED
  BY <1>2, <1>3, FS_Injection

\* What a path says of one step of reading back.
LEMMA PathStep ==
  ASSUME NEW f, Good(f), NEW c, IsPath(f, c), NEW a \in 1 .. Len(c)
  PROVE  Extended(f, SubSeq(c, a, Len(c))) = IF a = 1 THEN SubSeq(c, a, Len(c)) ELSE SubSeq(c, a - 1, Len(c))
<1>1. f \in Seq(Lines) /\ Single(f) /\ c \in Seq(Ids(f)) /\ Len(c) \in Nat /\ Distinct(c)
  BY DEF Good, IsPath, Chains
<1> DEFINE t == SubSeq(c, a, Len(c))
<1>2. /\ t \in Seq(Ids(f)) /\ Len(t) = Len(c) - a + 1 /\ \A i \in 1 .. Len(c) - a + 1 : t[i] = c[a + i - 1]
      /\ t # <<>> /\ Head(t) = c[a]
  BY <1>1, TailIs
<1>3. CASE a = 1
  <2>1. c[1] = Boundary(f) \/ Follows(f, c[1], 0)
    BY DEF IsPath
  <2>2. CASE c[1] = Boundary(f)
    BY <1>2, <1>3, <2>2 DEF Extended
  <2>3. CASE Follows(f, c[1], 0)
    <3>1. ParentOf(f, c[1]) = 0
      BY <1>1, <2>3, ParentIs
    <3>2. 0 \notin Ids(f)
      <4>1. Sound(f)
        BY DEF Good
      <4>2. \A i \in 1 .. Len(f) : IsMessage(f[i]) => f[i].id # 0
        BY <4>1 DEF Sound, SoundAt
      <4>3. QED
        BY <1>1, <4>2, IdsAre DEF Placed
    <3> HIDE DEF t
    <3>3. Extended(f, t) = t
      BY <1>2, <1>3, <3>1, <3>2 DEF Extended
    <3>4. QED
      BY <1>3, <3>3 DEF t
  <2>4. QED
    BY <2>1, <2>2, <2>3
<1>4. CASE a # 1
  <2>1. a - 1 \in 1 .. Len(c) - 1 /\ (a - 1) + 1 = a /\ a \in 2 .. Len(c) /\ a - 1 \in 1 .. Len(c)
    BY <1>1, <1>4
  <2>2. Follows(f, c[(a - 1) + 1], c[a - 1]) /\ c[(a - 1) + 1] # Boundary(f)
    BY <2>1 DEF IsPath
  <2>3. ParentOf(f, c[a]) = c[a - 1] /\ c[a] # Boundary(f)
    BY <1>1, <2>1, <2>2, ParentIs
  <2>4. c[a - 1] \in Ids(f)
    BY <1>1, <2>1
  <2>5. c[a - 1] \notin ToSet(t)
    <3>1. SUFFICES ASSUME NEW i \in 1 .. Len(c) - a + 1, t[i] = c[a - 1] PROVE FALSE
      <4> HIDE DEF t
      <4>1. DOMAIN t = 1 .. Len(c) - a + 1
        BY <1>1, <1>2
      <4>2. QED
        BY <4>1 DEF ToSet
    <3>2. a + i - 1 \in 1 .. Len(c) /\ a + i - 1 # a - 1
      BY <1>1, <2>1
    <3>3. c[a + i - 1] = c[a - 1]
      BY <1>2, <3>1
    <3>4. QED
      BY <1>1, <2>1, <3>2, <3>3 DEF Distinct
  <2>6. Extended(f, t) = <<c[a - 1]>> \o t
    <3> HIDE DEF t
    <3>1. QED
      BY <1>2, <2>3, <2>4, <2>5 DEF Extended
  <2>7. <<c[a - 1]>> \o t = SubSeq(c, a - 1, Len(c))
    BY <1>1, <2>1, TailGrows
  <2>8. QED
    BY <1>4, <2>6, <2>7
<1>5. QED
  BY <1>3, <1>4

\* A path to the last message of a file is what is read back of it.
LEMMA PathIsRead ==
  ASSUME NEW f, Good(f), NEW c, IsPath(f, c), c[Len(c)] = LastId(f)
  PROVE  Projected(f) = c
<1>1. f \in Seq(Lines) /\ c \in Seq(Ids(f)) /\ c # <<>> /\ Len(c) \in Nat /\ Distinct(c)
  BY DEF Good, IsPath, Chains
<1>2. Len(c) >= 1 /\ Len(c) \in 1 .. Len(c) /\ 1 \in 1 .. Len(c)
  BY <1>1
<1>3. Ids(f) # {}
  BY <1>1, <1>2
<1>4. (IF Childless(f) = {} THEN LastId(f) ELSE LastOf(f, Childless(f))) = LastId(f)
  BY <1>3, LeafIs
<1>5. PICK chain \in [Nat -> Chains(f)] :
        /\ chain[0] = <<LastId(f)>> /\ \A k \in Nat : chain[k + 1] = Extended(f, chain[k])
        /\ Projected(f) = chain[Cardinality(Ids(f))]
  BY <1>1, <1>3, <1>4, ReadBack
<1> DEFINE Place(k) == IF k < Len(c) THEN Len(c) - k ELSE 1
           S == {k \in Nat : chain[k] = SubSeq(c, Place(k), Len(c))}
<1>6. 0 \in S
  <2> DEFINE t == SubSeq(c, Len(c), Len(c))
             y == <<LastId(f)>>
  <2>1. t \in Seq(Ids(f)) /\ Len(t) = 1 /\ t[1] = c[Len(c)]
    <3>1. t \in Seq(Ids(f)) /\ Len(t) = Len(c) - Len(c) + 1 /\ \A i \in 1 .. Len(c) - Len(c) + 1 : t[i] = c[Len(c) + i - 1]
      BY <1>1, <1>2, TailIs
    <3>2. Len(c) - Len(c) + 1 = 1 /\ Len(c) + 1 - 1 = Len(c) /\ 1 \in 1 .. 1
      BY <1>1
    <3> HIDE DEF t
    <3>3. QED
      BY <3>1, <3>2
  <2>2. y \in Seq(Ids(f)) /\ Len(y) = 1 /\ y[1] = c[Len(c)]
    <3>1. LastId(f) \in Ids(f)
      BY <1>1, <1>2
    <3>2. QED
      BY <3>1
  <2> HIDE DEF t, y
  <2>3. Len(t) = Len(y) /\ \A i \in 1 .. Len(t) : t[i] = y[i]
    BY <2>1, <2>2
  <2>4. t = y
    BY <2>1, <2>2, <2>3, SameElements
  <2>5. Place(0) = Len(c)
    BY <1>1, <1>2
  <2>6. chain[0] = SubSeq(c, Place(0), Len(c))
    BY <1>5, <2>4, <2>5 DEF t, y
  <2>7. QED
    BY <2>6
<1>7. ASSUME NEW k \in Nat, k \in S PROVE k + 1 \in S
  <2>1. /\ Place(k) \in 1 .. Len(c) /\ k + 1 \in Nat
        /\ Place(k + 1) = (IF Place(k) = 1 THEN Place(k) ELSE Place(k) - 1)
    BY <1>1, <1>2
  <2>2. chain[k] = SubSeq(c, Place(k), Len(c))
    BY <1>7
  <2>3. chain[k + 1] = Extended(f, SubSeq(c, Place(k), Len(c)))
    BY <1>5, <2>2
  <2> HIDE DEF Place
  <2>4. Extended(f, SubSeq(c, Place(k), Len(c)))
          = IF Place(k) = 1 THEN SubSeq(c, Place(k), Len(c)) ELSE SubSeq(c, Place(k) - 1, Len(c))
    BY <2>1, PathStep
  <2>5. chain[k + 1] = SubSeq(c, Place(k + 1), Len(c))
    BY <2>1, <2>3, <2>4
  <2>6. QED
    BY <2>1, <2>5
<1>8. Nat \subseteq S
  <2> HIDE DEF S
  <2>1. QED
    BY <1>6, <1>7, Induction
<1> DEFINE n == Cardinality(Ids(f))
<1>9. n \in Nat /\ Len(c) <= n
  BY <1>1, IdsFinite, DistinctFits
<1>10. Place(n) = 1
  BY <1>1, <1>9
<1>11. chain[n] = SubSeq(c, Place(n), Len(c))
  BY <1>8, <1>9
<1>12. SubSeq(c, 1, Len(c)) = c
  <2> DEFINE t == SubSeq(c, 1, Len(c))
  <2>1. t \in Seq(Ids(f)) /\ Len(t) = Len(c) /\ \A i \in 1 .. Len(t) : t[i] = c[i]
    BY <1>1
  <2> HIDE DEF t
  <2>2. t = c
    BY <1>1, <2>1, SameElements
  <2>3. QED
    BY <2>2 DEF t
<1>13. QED
  BY <1>5, <1>10, <1>11, <1>12

-----------------------------------------------------------------------------
(* A file that grows or is cut, and its chains. *)

\* A file with one line more.
Longer(f, g, line) ==
  /\ g \in Seq(Lines) /\ Len(g) = Len(f) + 1 /\ g[Len(f) + 1] = line
  /\ \A i \in 1 .. Len(f) : g[i] = f[i]

Plain(line) == ~IsMessage(line) /\ line.kind # "boundary"

\* The first n lines of two files are equal, and what g has after them is
\* neither a message nor a boundary.
Cuts(f, g, n) ==
  /\ n \in Nat /\ n <= Len(f) /\ n <= Len(g) /\ \A i \in 1 .. n : g[i] = f[i]
  /\ \A i \in n + 1 .. Len(g) : Plain(g[i])

\* A file that has grown and is intact has its old lines and the line.
LEMMA GrownLonger ==
  ASSUME NEW f \in Seq(Lines), NEW g, NEW line \in Lines, Grown(f, g, line), Intact(g)
  PROVE  Longer(f, g, line) /\ Intact(f)
<1>1. /\ g \in Seq(Lines) /\ Len(f) \in Nat /\ Len(g) \in Nat /\ Len(g) >= Len(f) /\ g # <<>>
      /\ \A i \in 1 .. Len(f) : g[i] = f[i] \/ (g[i] = Broken /\ f[i] = Torn)
      /\ \/ Len(g) = Len(f) + 1 /\ g[Len(g)] = line
         \/ Len(g) = Len(f) /\ g[Len(g)] = Broken
  BY DEF Grown
<1>2. Len(g) \in 1 .. Len(g) /\ \A i \in 1 .. Len(f) : i \in 1 .. Len(g)
  BY <1>1
<1>3. g[Len(g)] # Broken /\ \A i \in 1 .. Len(f) : g[i] # Broken
  BY <1>2 DEF Intact
<1>4. QED
  BY <1>1, <1>3 DEF Longer, Intact

\* What stands in the lines two files share stands in both.
LEMMA PrefixStands ==
  ASSUME NEW f, NEW g, NEW n \in Nat, \A i \in 1 .. n : g[i] = f[i], NEW m \in Nat, m <= n, NEW id, Stands(f, m, id)
  PROVE  Stands(g, m, id)
<1>1. PICK i \in 1 .. m : Holds(f[i], id)
  BY DEF Stands
<1>2. g[i] = f[i]
  OBVIOUS
<1>3. QED
  BY <1>1, <1>2 DEF Stands

\* A sound file stays sound, whatever is added to it or cut off it.
LEMMA GrownSound ==
  ASSUME NEW f \in Seq(Lines), Sound(f), NEW g, NEW line \in Lines, Grown(f, g, line),
         IsMessage(line) => line.id # 0 /\ (line.parent = 0 \/ Stands(f, Len(f), line.parent)),
         line.kind = "boundary" => Stands(f, Len(f), line.id)
  PROVE  Sound(g)
<1>1. /\ g \in Seq(Lines) /\ Len(f) \in Nat /\ Len(g) \in Nat /\ Len(g) >= Len(f)
      /\ \A i \in 1 .. Len(f) : g[i] = f[i] \/ (g[i] = Broken /\ f[i] = Torn)
      /\ \/ Len(g) = Len(f) + 1 /\ g[Len(g)] = line
         \/ Len(g) = Len(f) /\ g[Len(g)] = Broken
  BY DEF Grown
<1>2. \A n \in 0 .. Len(f) : \A id : Stands(f, n, id) => Stands(g, n, id)
  BY <1>1, GrownStands
<1>3. ~IsMessage(Broken) /\ Broken.kind # "boundary"
  BY DEF Broken, Line, IsMessage
<1>4. SUFFICES ASSUME NEW i \in 1 .. Len(g) PROVE SoundAt(g, i)
  BY DEF Sound
<1>5. CASE i \in 1 .. Len(f) /\ g[i] = f[i]
  <2>1. SoundAt(f, i)
    BY <1>5 DEF Sound
  <2>2. i - 1 \in 0 .. Len(f)
    BY <1>1, <1>5
  <2>3. QED
    BY <1>2, <1>5, <2>1, <2>2 DEF SoundAt
<1>6. CASE g[i] = Broken
  BY <1>3, <1>6 DEF SoundAt
<1>7. CASE i = Len(f) + 1 /\ g[i] = line
  <2>1. i - 1 = Len(f) /\ Len(f) \in 0 .. Len(f)
    BY <1>1, <1>7
  <2>2. IsMessage(line) => line.id # 0 /\ (line.parent = 0 \/ Stands(g, i - 1, line.parent))
    BY <1>2, <2>1
  <2>3. line.kind = "boundary" => Stands(g, i - 1, line.id)
    BY <1>2, <2>1
  <2>4. QED
    BY <1>7, <2>2, <2>3 DEF SoundAt
<1>8. i \in 1 .. Len(f) \/ (i = Len(g) /\ (g[i] = Broken \/ (i = Len(f) + 1 /\ g[i] = line)))
  BY <1>1
<1>9. QED
  BY <1>1, <1>5, <1>6, <1>7, <1>8

\* A crash that cuts a file leaves every parent further up.
LEMMA CutSound ==
  ASSUME NEW f \in Seq(Lines), Sound(f), NEW g \in Seq(Lines), NEW n, Cuts(f, g, n)
  PROVE  Sound(g)
<1>1. n \in Nat /\ n <= Len(f) /\ n <= Len(g) /\ (\A i \in 1 .. n : g[i] = f[i]) /\ Len(f) \in Nat /\ Len(g) \in Nat
  BY DEF Cuts
<1>2. SUFFICES ASSUME NEW i \in 1 .. Len(g) PROVE SoundAt(g, i)
  BY DEF Sound
<1>3. CASE i \in 1 .. n
  <2>1. SoundAt(f, i) /\ g[i] = f[i]
    BY <1>1, <1>3 DEF Sound
  <2>2. i - 1 \in Nat /\ i - 1 <= n
    BY <1>1, <1>3
  <2>3. \A id : Stands(f, i - 1, id) => Stands(g, i - 1, id)
    BY <1>1, <2>2, PrefixStands
  <2>4. QED
    BY <2>1, <2>3 DEF SoundAt
<1>4. CASE i \notin 1 .. n
  <2>1. i \in n + 1 .. Len(g)
    BY <1>1, <1>4
  <2>2. Plain(g[i])
    BY <2>1 DEF Cuts
  <2>3. QED
    BY <2>2 DEF Plain, SoundAt
<1>5. QED
  BY <1>3, <1>4

\* The boundaries of a file, by place.
BoundariesAt(f) == {i \in 1 .. Len(f) : f[i].kind = "boundary"}

\* The boundary is that of the last boundary line, and in the file.
LEMMA BoundaryIs ==
  ASSUME NEW f \in Seq(Lines)
  PROVE  Boundary(f) = LastOf(f, BoundariesAt(f)) /\ (Good(f) => Boundary(f) = 0 \/ Boundary(f) \in Ids(f))
<1>1. DOMAIN f = 1 .. Len(f) /\ Len(f) \in Nat
  OBVIOUS
<1>2. Boundary(f) = LastOf(f, BoundariesAt(f))
  BY <1>1 DEF Boundary, BoundariesAt
<1>3. ASSUME Good(f), BoundariesAt(f) # {} PROVE Boundary(f) \in Ids(f)
  <2>1. BoundariesAt(f) \in SUBSET (1 .. Len(f))
    BY DEF BoundariesAt
  <2>2. PICK i \in BoundariesAt(f) : LastOf(f, BoundariesAt(f)) = f[i].id
    BY <1>3, <2>1, LastThere
  <2>3. i \in 1 .. Len(f) /\ f[i].kind = "boundary"
    BY DEF BoundariesAt
  <2>4. Stands(f, i - 1, f[i].id) /\ i - 1 \in Nat /\ i - 1 <= Len(f)
    BY <1>1, <1>3, <2>3 DEF Good, Sound, SoundAt
  <2>5. QED
    BY <1>2, <1>3, <2>2, <2>4, StandingIs DEF Good
<1>4. BoundariesAt(f) = {} => Boundary(f) = 0
  BY <1>2 DEF LastOf
<1>5. QED
  BY <1>2, <1>3, <1>4

\* The last of some places of a file that is a beginning of another.
LEMMA LastOfPrefix ==
  ASSUME NEW f \in Seq(Lines), NEW g \in Seq(Lines), NEW n \in Nat, n <= Len(f), n <= Len(g),
         \A i \in 1 .. n : g[i] = f[i], NEW T \in SUBSET (1 .. n)
  PROVE  LastOf(f, T) = LastOf(g, T)
<1>1. CASE T = {}
  BY <1>1 DEF LastOf
<1>2. CASE T # {}
  <2>1. Max(T) \in T
    BY <1>2, MaxIs
  <2>2. g[Max(T)] = f[Max(T)]
    BY <2>1
  <2>3. QED
    BY <1>2, <2>2 DEF LastOf
<1>3. QED
  BY <1>1, <1>2

\* Who follows whom stays so when a file grows.
LEMMA FollowsOn ==
  ASSUME NEW f \in Seq(Lines), NEW g, NEW line, Longer(f, g, line), NEW id, NEW parent, Follows(f, id, parent)
  PROVE  Follows(g, id, parent)
<1>1. PICK i \in 1 .. Len(f) : IsMessage(f[i]) /\ f[i].id = id /\ f[i].parent = parent
  BY DEF Follows
<1>2. i \in 1 .. Len(g) /\ g[i] = f[i]
  BY DEF Longer
<1>3. QED
  BY <1>1, <1>2 DEF Follows

\* A message more: the last one now; all paths go on.
LEMMA LongerMessage ==
  ASSUME NEW f \in Seq(Lines), NEW g, NEW line \in Lines, Longer(f, g, line), IsMessage(line)
  PROVE  /\ Ids(g) = Ids(f) \cup {line.id} /\ LastId(g) = line.id /\ Boundary(g) = Boundary(f)
         /\ Follows(g, line.id, line.parent)
         /\ \A c : IsPath(f, c) => IsPath(g, c)
<1>1. /\ g \in Seq(Lines) /\ Len(f) \in Nat /\ Len(g) = Len(f) + 1 /\ g[Len(g)] = line
      /\ (\A i \in 1 .. Len(f) : g[i] = f[i]) /\ Len(g) \in 1 .. Len(g)
  BY DEF Longer
<1>2. Ids(g) = Ids(f) \cup {line.id}
  <2>1. \A id : Placed(g, id) <=> Placed(f, id) \/ id = line.id
    <3>1. ASSUME NEW id, Placed(g, id) PROVE Placed(f, id) \/ id = line.id
      <4>1. PICK i \in 1 .. Len(g) : IsMessage(g[i]) /\ g[i].id = id
        BY <3>1 DEF Placed
      <4>2. i = Len(g) \/ (i \in 1 .. Len(f) /\ g[i] = f[i])
        BY <1>1
      <4>3. QED
        BY <1>1, <4>1, <4>2 DEF Placed
    <3>2. ASSUME NEW id, Placed(f, id) PROVE Placed(g, id)
      <4>1. PICK i \in 1 .. Len(f) : IsMessage(f[i]) /\ f[i].id = id
        BY <3>2 DEF Placed
      <4>2. i \in 1 .. Len(g) /\ g[i] = f[i]
        BY <1>1
      <4>3. QED
        BY <4>1, <4>2 DEF Placed
    <3>3. Placed(g, line.id)
      BY <1>1 DEF Placed
    <3>4. QED
      BY <3>1, <3>2, <3>3
  <2>2. QED
    BY <1>1, <2>1, IdsAre
<1>3. LastId(g) = line.id
  <2>1. MessagesAt(g) = {i \in 1 .. Len(g) : IsMessage(g[i])}
    BY <1>1, IdsAre
  <2>2. MessagesAt(g) \in SUBSET (1 .. Len(g)) /\ Len(g) \in MessagesAt(g) /\ \A j \in MessagesAt(g) : j <= Len(g)
    BY <1>1, <2>1
  <2>3. LastOf(g, MessagesAt(g)) = g[Len(g)].id
    BY <1>1, <2>2, LastAt
  <2>4. QED
    BY <1>1, <2>3 DEF LastId
<1>4. Boundary(g) = Boundary(f)
  <2>1. line.kind # "boundary"
    BY DEF IsMessage
  <2>2. BoundariesAt(g) = BoundariesAt(f)
    <3>1. \A i : i \in 1 .. Len(g) <=> i \in 1 .. Len(f) \/ i = Len(g)
      BY <1>1
    <3>2. Len(g) \notin 1 .. Len(f)
      BY <1>1
    <3>3. QED
      BY <1>1, <2>1, <3>1, <3>2 DEF BoundariesAt
  <2>3. BoundariesAt(f) \in SUBSET (1 .. Len(f)) /\ Len(f) <= Len(g) /\ Len(f) <= Len(f)
    BY <1>1 DEF BoundariesAt
  <2>4. LastOf(f, BoundariesAt(f)) = LastOf(g, BoundariesAt(f))
    BY <1>1, <2>3, LastOfPrefix
  <2>5. QED
    BY <1>1, <2>2, <2>4, BoundaryIs
<1>5. Follows(g, line.id, line.parent)
  BY <1>1 DEF Follows
<1>6. ASSUME NEW c, IsPath(f, c) PROVE IsPath(g, c)
  <2>1. c \in Chains(g)
    <3>1. c \in Seq(Ids(f)) /\ c # <<>>
      BY <1>6 DEF IsPath, Chains
    <3>2. c \in Seq(Ids(g))
      BY <1>2, <3>1, SeqWiden
    <3>3. QED
      BY <3>1, <3>2 DEF Chains
  <2>2. QED
    BY <1>4, <1>6, <2>1, FollowsOn DEF IsPath
<1>7. QED
  BY <1>2, <1>3, <1>4, <1>5, <1>6

\* A chain of one.
LEMMA OneIsPath ==
  ASSUME NEW f \in Seq(Lines), NEW id \in Ids(f), id = Boundary(f) \/ Follows(f, id, 0)
  PROVE  IsPath(f, <<id>>)
<1> DEFINE c == <<id>>
<1>1. c \in Seq(Ids(f)) /\ Len(c) = 1 /\ c[1] = id /\ c # <<>>
  OBVIOUS
<1> HIDE DEF c
<1>2. Distinct(c)
  BY <1>1 DEF Distinct
<1>3. \A i \in 1 .. Len(c) - 1 : FALSE
  BY <1>1
<1>4. IsPath(f, c)
  BY <1>1, <1>2, <1>3 DEF IsPath, Chains
<1>5. QED
  BY <1>4 DEF c

\* Append, element by element.
LEMMA AppendedSeq ==
  ASSUME NEW S, NEW c \in Seq(S), NEW x \in S
  PROVE  /\ Append(c, x) \in Seq(S) /\ Len(Append(c, x)) = Len(c) + 1 /\ Append(c, x) # <<>> /\ Len(c) \in Nat
         /\ Append(c, x)[Len(c) + 1] = x /\ \A i \in 1 .. Len(c) : Append(c, x)[i] = c[i]
OBVIOUS

\* A path and one more message after it.
LEMMA PathGoesOn ==
  ASSUME NEW f, NEW c, IsPath(f, c), NEW id \in Ids(f), Follows(f, id, c[Len(c)]), id # Boundary(f),
         \A i \in 1 .. Len(c) : c[i] # id
  PROVE  IsPath(f, Append(c, id))
<1>1. c \in Seq(Ids(f)) /\ c # <<>> /\ Len(c) \in Nat
  BY DEF IsPath, Chains
<1>2. Len(c) >= 1
  BY <1>1
<1> DEFINE d == Append(c, id)
<1>3. d \in Seq(Ids(f)) /\ Len(d) = Len(c) + 1 /\ d[Len(c) + 1] = id /\ d # <<>> /\ \A i \in 1 .. Len(c) : d[i] = c[i]
  BY <1>1, AppendedSeq
<1> HIDE DEF d
<1>4. Distinct(d)
  <2> SUFFICES ASSUME NEW i \in 1 .. Len(d), NEW j \in 1 .. Len(d), d[i] = d[j] PROVE i = j
    BY DEF Distinct
  <2>1. (i \in 1 .. Len(c) \/ i = Len(c) + 1) /\ (j \in 1 .. Len(c) \/ j = Len(c) + 1)
    BY <1>1, <1>3
  <2>2. i \in 1 .. Len(c) /\ j \in 1 .. Len(c) => i = j
    BY <1>3 DEF IsPath, Distinct
  <2>3. QED
    BY <1>3, <2>1, <2>2
<1>5. ASSUME NEW i \in 1 .. Len(d) - 1 PROVE Follows(f, d[i + 1], d[i]) /\ d[i + 1] # Boundary(f)
  <2>1. CASE i = Len(c)
    <3>1. d[i + 1] = id /\ d[i] = c[Len(c)]
      BY <1>2, <1>3, <2>1
    <3>2. QED
      BY <3>1
  <2>2. CASE i # Len(c)
    <3>1. i \in 1 .. Len(c) - 1 /\ i \in 1 .. Len(c) /\ i + 1 \in 1 .. Len(c)
      BY <1>1, <1>3, <2>2
    <3>2. d[i + 1] = c[i + 1] /\ d[i] = c[i]
      BY <1>3, <3>1
    <3>3. QED
      BY <3>1, <3>2 DEF IsPath
  <2>3. QED
    BY <2>1, <2>2
<1>6. d[1] = c[1]
  BY <1>2, <1>3
<1>7. IsPath(f, d)
  BY <1>3, <1>4, <1>5, <1>6 DEF IsPath, Chains
<1>8. QED
  BY <1>7 DEF d

\* A boundary more: what is read back begins at the message it names.
LEMMA LongerBoundary ==
  ASSUME NEW f \in Seq(Lines), NEW g, NEW line \in Lines, Longer(f, g, line), line.kind = "boundary",
         line.id \in Ids(f)
  PROVE  Ids(g) = Ids(f) /\ LastId(g) = LastId(f) /\ IsPath(g, <<line.id>>)
<1>1. /\ g \in Seq(Lines) /\ Len(f) \in Nat /\ Len(g) = Len(f) + 1 /\ g[Len(g)] = line
      /\ (\A i \in 1 .. Len(f) : g[i] = f[i]) /\ Len(g) \in 1 .. Len(g)
  BY DEF Longer
<1>2. ~IsMessage(line)
  BY DEF IsMessage
<1>3. MessagesAt(g) = MessagesAt(f) /\ MessagesAt(f) \in SUBSET (1 .. Len(f))
  <2>1. MessagesAt(g) = {i \in 1 .. Len(g) : IsMessage(g[i])} /\ MessagesAt(f) = {i \in 1 .. Len(f) : IsMessage(f[i])}
    BY <1>1, IdsAre
  <2>2. \A i : i \in 1 .. Len(g) <=> i \in 1 .. Len(f) \/ i = Len(g)
    BY <1>1
  <2>3. QED
    BY <1>1, <1>2, <2>1, <2>2
<1>4. Ids(g) = Ids(f)
  BY <1>1, <1>3 DEF Ids
<1>5. LastId(g) = LastId(f)
  <2>1. Len(f) <= Len(f) /\ Len(f) <= Len(g)
    BY <1>1
  <2>2. LastOf(f, MessagesAt(f)) = LastOf(g, MessagesAt(f))
    BY <1>1, <1>3, <2>1, LastOfPrefix
  <2>3. QED
    BY <1>3, <2>2 DEF LastId
<1>6. Boundary(g) = line.id
  <2>1. BoundariesAt(g) \in SUBSET (1 .. Len(g)) /\ Len(g) \in BoundariesAt(g) /\ \A j \in BoundariesAt(g) : j <= Len(g)
    BY <1>1 DEF BoundariesAt
  <2>2. LastOf(g, BoundariesAt(g)) = g[Len(g)].id
    BY <1>1, <2>1, LastAt
  <2>3. QED
    BY <1>1, <2>2, BoundaryIs
<1>7. line.id \in Ids(g)
  BY <1>4
<1>8. IsPath(g, <<line.id>>)
  BY <1>1, <1>6, <1>7, OneIsPath
<1>9. QED
  BY <1>4, <1>5, <1>8

\* Two files with the same messages and boundaries in the same places.
Alike(f, g, n) == Cuts(f, g, n) /\ Cuts(g, f, n)

\* Files that differ in lines without messages have the same chains.
LEMMA AlikeIs ==
  ASSUME NEW f \in Seq(Lines), NEW g \in Seq(Lines), NEW n, Alike(f, g, n)
  PROVE  /\ Ids(g) = Ids(f) /\ LastId(g) = LastId(f) /\ Boundary(g) = Boundary(f)
         /\ \A c : IsPath(f, c) => IsPath(g, c)
<1>1. /\ n \in Nat /\ n <= Len(f) /\ n <= Len(g) /\ Len(f) \in Nat /\ Len(g) \in Nat /\ \A i \in 1 .. n : g[i] = f[i]
      /\ \A i \in n + 1 .. Len(f) : Plain(f[i])
      /\ \A i \in n + 1 .. Len(g) : Plain(g[i])
  BY DEF Alike, Cuts
<1>2. /\ \A i \in 1 .. Len(f) : ~Plain(f[i]) => i \in 1 .. n /\ i \in 1 .. Len(g) /\ g[i] = f[i]
      /\ \A i \in 1 .. Len(g) : ~Plain(g[i]) => i \in 1 .. n /\ i \in 1 .. Len(f) /\ g[i] = f[i]
  <2>1. \A i \in 1 .. Len(f) : i \in 1 .. n \/ i \in n + 1 .. Len(f)
    BY <1>1
  <2>2. \A i \in 1 .. Len(g) : i \in 1 .. n \/ i \in n + 1 .. Len(g)
    BY <1>1
  <2>3. \A i \in 1 .. n : i \in 1 .. Len(f) /\ i \in 1 .. Len(g)
    BY <1>1
  <2>4. QED
    BY <1>1, <2>1, <2>2, <2>3
<1>3. MessagesAt(g) = MessagesAt(f) /\ MessagesAt(f) \in SUBSET (1 .. n) /\ \A i \in MessagesAt(f) : g[i] = f[i]
  <2>1. MessagesAt(g) = {i \in 1 .. Len(g) : IsMessage(g[i])} /\ MessagesAt(f) = {i \in 1 .. Len(f) : IsMessage(f[i])}
    BY IdsAre
  <2>2. QED
    BY <1>2, <2>1 DEF Plain
<1>4. BoundariesAt(g) = BoundariesAt(f) /\ BoundariesAt(f) \in SUBSET (1 .. n)
  <2>1. \A x : x.kind = "boundary" => ~Plain(x)
    BY DEF Plain
  <2>2. QED
    BY <1>2, <2>1 DEF BoundariesAt
<1>5. Ids(g) = Ids(f)
  BY <1>3 DEF Ids
<1>6. LastOf(f, MessagesAt(f)) = LastOf(g, MessagesAt(f)) /\ LastOf(f, BoundariesAt(f)) = LastOf(g, BoundariesAt(f))
  BY <1>1, <1>3, <1>4, LastOfPrefix
<1>7. LastId(g) = LastId(f) /\ Boundary(g) = Boundary(f)
  BY <1>3, <1>4, <1>6, BoundaryIs DEF LastId
<1>8. \A id, parent : Follows(f, id, parent) => Follows(g, id, parent)
  <2> SUFFICES ASSUME NEW id, NEW parent, Follows(f, id, parent) PROVE Follows(g, id, parent)
    OBVIOUS
  <2>1. PICK i \in 1 .. Len(f) : IsMessage(f[i]) /\ f[i].id = id /\ f[i].parent = parent
    BY DEF Follows
  <2>2. i \in 1 .. Len(g) /\ g[i] = f[i]
    BY <1>2, <2>1 DEF Plain
  <2>3. QED
    BY <2>1, <2>2 DEF Follows
<1>9. ASSUME NEW c, IsPath(f, c) PROVE IsPath(g, c)
  BY <1>5, <1>7, <1>8, <1>9 DEF IsPath, Chains
<1>10. QED
  BY <1>5, <1>7, <1>9

\* Every message of a sound and intact file ends a path, of messages that
\* stand no further down.
Ends(f, c, i) == IsPath(f, c) /\ c[Len(c)] = f[i].id /\ \A m \in 1 .. Len(c) : Stands(f, i, c[m])

\* The chain that ends at a message, given those of all messages above it.
LEMMA PathThere ==
  ASSUME NEW f, Good(f), NEW i \in 1 .. Len(f), IsMessage(f[i]),
         \A j \in 1 .. i - 1 : IsMessage(f[j]) => \E c : Ends(f, c, j)
  PROVE  \E c : Ends(f, c, i)
<1>1. f \in Seq(Lines) /\ Single(f) /\ Intact(f) /\ Len(f) \in Nat /\ SoundAt(f, i)
  BY DEF Good, Sound
<1> DEFINE id == f[i].id
<1>2. id \in Ids(f) /\ Follows(f, id, f[i].parent) /\ Stands(f, i, id)
  <2>1. i \in 1 .. i
    BY <1>1
  <2>2. Stands(f, i, id)
    BY <2>1 DEF Stands, Holds
  <2>3. Placed(f, id)
    BY DEF Placed
  <2>4. QED
    BY <1>1, <2>2, <2>3, IdsAre DEF Follows
<1>3. CASE id = Boundary(f) \/ f[i].parent = 0
  <2> DEFINE c == <<id>>
  <2>1. IsPath(f, c)
    BY <1>1, <1>2, <1>3, OneIsPath
  <2>2. Len(c) = 1 /\ c[1] = id
    OBVIOUS
  <2> HIDE DEF c
  <2>3. c[Len(c)] = id /\ \A m \in 1 .. Len(c) : Stands(f, i, c[m])
    BY <1>2, <2>2
  <2>4. Ends(f, c, i)
    BY <2>1, <2>3 DEF Ends
  <2>5. QED
    BY <2>4
<1>4. CASE id # Boundary(f) /\ f[i].parent # 0
  <2>1. Stands(f, i - 1, f[i].parent) /\ i - 1 \in Nat /\ i - 1 <= Len(f)
    BY <1>1, <1>4 DEF SoundAt
  <2>2. PICK j \in 1 .. i - 1 : IsMessage(f[j]) /\ f[j].id = f[i].parent
    BY <1>1, <2>1, StandingIs
  <2>3. PICK c : Ends(f, c, j)
    BY <2>2
  <2>4. c \in Seq(Ids(f)) /\ IsPath(f, c) /\ c[Len(c)] = f[i].parent /\ \A m \in 1 .. Len(c) : Stands(f, j, c[m])
    BY <2>2, <2>3 DEF Ends, IsPath, Chains
  <2>5. j \in Nat /\ j <= i - 1 /\ j <= Len(f) /\ i \in Nat /\ j <= i
    BY <1>1
  <2>6. \A m \in 1 .. Len(c) : c[m] # id
    <3> SUFFICES ASSUME NEW m \in 1 .. Len(c), c[m] = id PROVE FALSE
      OBVIOUS
    <3>1. Stands(f, j, id)
      BY <2>4
    <3>2. PICK k \in 1 .. j : IsMessage(f[k]) /\ f[k].id = id
      BY <1>1, <2>5, <3>1, StandingIs
    <3>3. k \in 1 .. Len(f) /\ k # i
      BY <2>5
    <3>4. MessagesAt(f) = {n \in 1 .. Len(f) : IsMessage(f[n])}
      BY <1>1, IdsAre
    <3>5. k \in MessagesAt(f) /\ i \in MessagesAt(f)
      BY <3>2, <3>3, <3>4
    <3>6. QED
      BY <1>1, <3>2, <3>3, <3>5 DEF Single
  <2> DEFINE d == Append(c, id)
  <2> HIDE DEF id
  <2>7. IsPath(f, d)
    BY <1>2, <1>4, <2>4, <2>6, PathGoesOn
  <2>8. Len(d) = Len(c) + 1 /\ d[Len(c) + 1] = id /\ Len(c) \in Nat /\ \A m \in 1 .. Len(c) : d[m] = c[m]
    BY <1>2, <2>4, AppendedSeq
  <2> HIDE DEF d
  <2>9. ASSUME NEW m \in 1 .. Len(d) PROVE Stands(f, i, d[m])
    <3>1. CASE m = Len(c) + 1
      BY <1>2, <2>8, <3>1
    <3>2. CASE m # Len(c) + 1
      <4>1. m \in 1 .. Len(c)
        BY <2>8, <3>2
      <4>2. d[m] = c[m] /\ Stands(f, j, c[m])
        BY <2>4, <2>8, <4>1
      <4>3. QED
        BY <1>1, <2>5, <4>2, StandsFurther
    <3>3. QED
      BY <3>1, <3>2
  <2>10. Ends(f, d, i)
    BY <2>7, <2>8, <2>9 DEF Ends, id
  <2>11. QED
    BY <2>10
<1>5. QED
  BY <1>3, <1>4

\* Every message of a sound file ends a chain.
LEMMA PathsExist ==
  ASSUME NEW f, Good(f), NEW i \in 1 .. Len(f), IsMessage(f[i])
  PROVE  \E c : Ends(f, c, i)
<1>1. Len(f) \in Nat
  BY DEF Good
<1> DEFINE S == {n \in Nat : \A j \in 1 .. n : j \in 1 .. Len(f) /\ IsMessage(f[j]) => \E c : Ends(f, c, j)}
<1>2. 0 \in S
  OBVIOUS
<1>3. ASSUME NEW n \in Nat, n \in S PROVE n + 1 \in S
  <2>1. \A j \in 1 .. n : j \in 1 .. Len(f) /\ IsMessage(f[j]) => \E c : Ends(f, c, j)
    BY <1>3
  <2>2. SUFFICES ASSUME NEW j \in 1 .. n + 1, j \in 1 .. Len(f), IsMessage(f[j]) PROVE \E c : Ends(f, c, j)
    OBVIOUS
  <2>3. \A k \in 1 .. j - 1 : k \in 1 .. n /\ k \in 1 .. Len(f)
    BY <1>1, <2>2
  <2>4. \A k \in 1 .. j - 1 : IsMessage(f[k]) => \E c : Ends(f, c, k)
    BY <2>1, <2>3
  <2>5. QED
    BY <2>2, <2>4, PathThere
<1> HIDE DEF S
<1>4. Nat \subseteq S
  BY <1>2, <1>3, Induction
<1>5. Len(f) \in S
  BY <1>1, <1>4
<1>6. QED
  BY <1>5 DEF S

\* What is read back of a sound and intact file is the path to its last message.
LEMMA ReadIsPath ==
  ASSUME NEW f, Good(f), Ids(f) # {}
  PROVE  IsPath(f, Projected(f)) /\ Projected(f)[Len(Projected(f))] = LastId(f)
<1>1. f \in Seq(Lines)
  BY DEF Good
<1>2. MessagesAt(f) \in SUBSET (1 .. Len(f)) /\ MessagesAt(f) # {} /\ MessagesAt(f) = {j \in 1 .. Len(f) : IsMessage(f[j])}
  BY <1>1, IdsAre DEF Ids
<1>3. PICK i \in MessagesAt(f) : LastOf(f, MessagesAt(f)) = f[i].id
  BY <1>1, <1>2, LastThere
<1>4. PICK c : Ends(f, c, i)
  BY <1>2, PathsExist
<1>5. IsPath(f, c) /\ c[Len(c)] = LastId(f)
  BY <1>3, <1>4 DEF Ends, LastId
<1>6. Projected(f) = c
  BY <1>5, PathIsRead
<1>7. QED
  BY <1>5, <1>6

\* Files with the same messages read the same.
LEMMA AlikeReads ==
  ASSUME NEW f, Good(f), NEW g, Good(g), NEW n, Alike(f, g, n)
  PROVE  Projected(g) = Projected(f)
<1>1. f \in Seq(Lines) /\ g \in Seq(Lines)
  BY DEF Good
<1>2. Ids(g) = Ids(f) /\ LastId(g) = LastId(f) /\ \A c : IsPath(f, c) => IsPath(g, c)
  BY <1>1, AlikeIs
<1>3. CASE Ids(f) = {}
  BY <1>2, <1>3 DEF Projected
<1>4. CASE Ids(f) # {}
  <2> DEFINE c == Projected(f)
  <2>1. IsPath(f, c) /\ c[Len(c)] = LastId(f)
    BY <1>4, ReadIsPath
  <2> HIDE DEF c
  <2>2. IsPath(g, c) /\ c[Len(c)] = LastId(g)
    BY <1>2, <2>1
  <2>3. Projected(g) = c
    BY <2>2, PathIsRead
  <2>4. QED
    BY <2>3 DEF c
<1>5. QED
  BY <1>3, <1>4

-----------------------------------------------------------------------------
(* Whose message follows whose: an invariant over every parent ever written. *)

SoundInv == \A s \in Sessions : Sound(file[s])

\* The cache of an intact file knows messages of it only.
LeafInv ==
  \A s \in Sessions : cache[s].warmed /\ Intact(file[s]) =>
    cache[s].seen \subseteq Ids(file[s]) /\ cache[s].leaf \in Ids(file[s]) \cup {0}

\* Who writes: the recorder of the session, or the Saves; and what for.
RoleInv ==
  /\ agent \in {"none", "recorded", "unrecorded"}
  /\ agent = "recorded" => HasRecorder
  /\ agent = "unrecorded" => ~HasRecorder
  /\ marking # 0 => agent = "recorded" /\ recorder.last = marking
  /\ saving.stage # "none" => saving.of = session

\* What the recorder goes on from stands in its file.
OriginInv ==
  recorder.session # 0 =>
    recorder.last = 0 \/ Stands(file[recorder.session], Len(file[recorder.session]), recorder.last)

NonzeroInv ==
  /\ \A i \in 1 .. Len(chat) : chat[i] # 0
  /\ \A i \in 1 .. Len(saving.chat) : saving.chat[i] # 0

GroundInv == SoundInv /\ LeafInv /\ RoleInv /\ OriginInv /\ NonzeroInv

\* The sessions a process names exist, and its counters are numbers.
LEMMA PlacesAre ==
  ASSUME TranscriptInv
  PROVE  /\ session = 0 \/ session \in Sessions
         /\ recorder.session = 0 \/ recorder.session \in Sessions
         /\ session \in Nat /\ session <= used /\ recorder.session \in Nat /\ recorder.session <= used
         /\ recorder.last \in Nat /\ used \in Nat /\ said \in Nat /\ marking \in Nat
         /\ 0 \notin Sessions /\ \A s \in Sessions : s \in Nat
         /\ chat \in Seq(0 .. 2 * said)
<1>1. /\ session \in 0 .. used /\ recorder \in [session : 0 .. used, last : Nat] /\ used \in Nat /\ said \in Nat
      /\ used <= BoundSessions /\ BoundSessions \in Nat /\ marking \in Nat
  BY TranscriptAssumption DEF TranscriptInv, TypeInv, HistType, PlaceType
<1>2. recorder.session \in 0 .. used /\ recorder.last \in Nat
  BY <1>1
<1>3. chat \in Seq(0 .. 2 * said)
  BY DEF TranscriptInv, TypeInv, PlaceType
<1>4. QED
  BY <1>1, <1>2, <1>3 DEF Sessions

\* Files are sequences of lines, each message in one of them.
LEMMA FilesAre ==
  ASSUME TranscriptInv
  PROVE  FileType /\ \A s \in Sessions : file[s] \in Seq(Lines) /\ Len(file[s]) \in Nat /\ Single(file[s])
BY DEF TranscriptInv, LineInv, FileType, WrittenOnce, Single

\* A message that stands in a file, and what a broken one may hold.
LEMMA IdStands ==
  ASSUME NEW f \in Seq(Lines), NEW id, id \in Ids(f) \/ ~Intact(f)
  PROVE  Stands(f, Len(f), id)
<1>1. CASE id \in Ids(f)
  <2>1. PICK i \in 1 .. Len(f) : IsMessage(f[i]) /\ f[i].id = id
    BY <1>1, IdsAre DEF Placed
  <2>2. QED
    BY <2>1 DEF Stands, Holds
<1>2. CASE ~Intact(f)
  BY <1>2 DEF Intact, Stands, Holds
<1>3. QED
  BY <1>1, <1>2

\* What a warmed cache knows of an intact file.
LEMMA WarmLeaf ==
  ASSUME FileType, LeafInv, NEW s \in Sessions, Intact(file[s])
  PROVE  Warm(s).seen \subseteq Ids(file[s]) /\ Warm(s).leaf \in Ids(file[s]) \cup {0}
<1>1. file[s] \in Seq(Lines)
  BY DEF FileType
<1>2. LastId(file[s]) \in Ids(file[s]) \cup {0}
  <2>1. MessagesAt(file[s]) \in SUBSET MessagesAt(file[s])
    OBVIOUS
  <2>2. QED
    BY <1>1, <2>1, LastOfIs DEF LastId
<1>3. CASE cache[s].warmed
  BY <1>3 DEF Warm, LeafInv
<1>4. CASE ~cache[s].warmed
  BY <1>2, <1>4 DEF Warm
<1>5. QED
  BY <1>3, <1>4

\* A line more in one file.
LEMMA GrowsGround ==
  ASSUME TranscriptInv, GroundInv, NEW s \in Sessions, NEW line \in Lines, Grows(s, line),
         IsMessage(line) => line.id # 0 /\ (line.parent = 0 \/ Stands(file[s], Len(file[s]), line.parent)),
         line.kind = "boundary" => Stands(file[s], Len(file[s]), line.id),
         UNCHANGED cache \/ Warmed(s)
  PROVE  SoundInv' /\ LeafInv' /\ (UNCHANGED recorder => OriginInv')
<1>1. FileType /\ file[s] \in Seq(Lines) /\ Grown(file[s], file'[s], line) /\ \A t \in Sessions : t # s => file'[t] = file[t]
  BY FilesAre DEF Grows
<1>2. SoundInv'
  <2>1. Sound(file'[s])
    BY <1>1, GrownSound DEF GroundInv, SoundInv
  <2>2. QED
    BY <1>1, <2>1 DEF GroundInv, SoundInv
<1>3. LeafInv'
  <2> SUFFICES ASSUME NEW t \in Sessions, cache'[t].warmed, Intact(file'[t])
               PROVE  cache'[t].seen \subseteq Ids(file'[t]) /\ cache'[t].leaf \in Ids(file'[t]) \cup {0}
    BY DEF LeafInv
  <2>1. Intact(file[t]) /\ Ids(file[t]) \subseteq Ids(file'[t])
    <3>1. CASE t = s
      BY <1>1, <3>1, GrownLonger, GrownIds
    <3>2. CASE t # s
      BY <1>1, <3>2
    <3>3. QED
      BY <3>1, <3>2
  <2>2. CASE cache'[t] = cache[t]
    BY <2>1, <2>2 DEF GroundInv, LeafInv
  <2>3. CASE t = s /\ cache'[t] = Warm(s)
    <3>1. Warm(s).seen \subseteq Ids(file[s]) /\ Warm(s).leaf \in Ids(file[s]) \cup {0}
      BY <1>1, <2>1, <2>3, WarmLeaf DEF GroundInv
    <3>2. QED
      BY <2>1, <2>3, <3>1
  <2>4. QED
    BY <2>2, <2>3, WarmedIs DEF TranscriptInv
<1>4. ASSUME UNCHANGED recorder PROVE OriginInv'
  <2> DEFINE r == recorder.session
  <2>1. r = 0 \/ r \in Sessions
    BY PlacesAre
  <2>2. CASE r # s \/ r = 0
    BY <1>1, <1>4, <2>1, <2>2 DEF GroundInv, OriginInv
  <2>3. CASE r = s /\ r # 0
    <3>1. CASE recorder.last = 0
      BY <1>4, <3>1 DEF OriginInv
    <3>2. CASE recorder.last # 0
      <4>1. Stands(file[s], Len(file[s]), recorder.last)
        BY <2>3, <3>2 DEF GroundInv, OriginInv
      <4>2. Len(file[s]) \in 0 .. Len(file[s]) /\ Len(file[s]) \in Nat
        BY <1>1
      <4>3. Stands(file'[s], Len(file[s]), recorder.last)
        BY <1>1, <4>1, <4>2, GrownStands
      <4>4. file'[s] \in Seq(Lines) /\ Len(file'[s]) \in Nat /\ Len(file[s]) <= Len(file'[s])
        BY <1>1, <4>2 DEF Grown
      <4>5. Stands(file'[s], Len(file'[s]), recorder.last)
        BY <4>2, <4>3, <4>4, StandsFurther
      <4>6. QED
        BY <1>4, <2>3, <4>5 DEF OriginInv
    <3>3. QED
      BY <3>1, <3>2
  <2>4. QED
    BY <2>2, <2>3
<1>5. QED
  BY <1>2, <1>3, <1>4

\* The files are as they were.
LEMMA FilesStay ==
  ASSUME TranscriptInv, GroundInv, UNCHANGED file,
         UNCHANGED cache \/ \E s \in Sessions : Warmed(s)
  PROVE  SoundInv' /\ LeafInv' /\ (UNCHANGED recorder => OriginInv')
<1>1. FileType
  BY FilesAre
<1>2. SoundInv' /\ (UNCHANGED recorder => OriginInv')
  BY DEF GroundInv, SoundInv, OriginInv
<1>3. LeafInv'
  <2> SUFFICES ASSUME NEW t \in Sessions, cache'[t].warmed, Intact(file[t])
               PROVE  cache'[t].seen \subseteq Ids(file[t]) /\ cache'[t].leaf \in Ids(file[t]) \cup {0}
    BY DEF LeafInv
  <2>1. CASE cache'[t] = cache[t]
    BY <2>1 DEF GroundInv, LeafInv
  <2>2. CASE cache'[t] = Warm(t)
    BY <1>1, <2>2, WarmLeaf DEF GroundInv
  <2>3. cache'[t] = cache[t] \/ cache'[t] = Warm(t)
    <3>1. CASE UNCHANGED cache
      BY <3>1
    <3>2. CASE \E s \in Sessions : Warmed(s)
      BY <3>2, WarmedIs DEF TranscriptInv
    <3>3. QED
      BY <3>1, <3>2
  <2>4. QED
    BY <2>1, <2>2, <2>3
<1>4. QED
  BY <1>2, <1>3

\* A line that is no message, jotted down beside a conversation.
LEMMA JotGround ==
  ASSUME TranscriptInv, GroundInv, NEW s \in Sessions, Jot(s), UNCHANGED cache \/ Warmed(s), UNCHANGED recorder
  PROVE  SoundInv' /\ LeafInv' /\ OriginInv'
<1>1. CASE UNCHANGED file
  BY <1>1, FilesStay
<1>2. CASE Grows(s, Note)
  <2>1. Note \in Lines /\ ~IsMessage(Note) /\ Note.kind # "boundary"
    BY LinesAre DEF Note, Line
  <2>2. QED
    BY <1>2, <2>1, GrowsGround
<1>3. QED
  BY <1>1, <1>2, FilesAre, JotGrows

\* A session that has no file is started.
LEMMA StartGround ==
  ASSUME TranscriptInv, GroundInv, NEW s \in Sessions, Start(s), UNCHANGED cache \/ Warmed(s)
  PROVE  /\ SoundInv' /\ LeafInv' /\ (UNCHANGED recorder => OriginInv')
         /\ \A id : Stands(file[s], Len(file[s]), id) => Stands(file'[s], Len(file'[s]), id)
<1>1. CASE file[s] # <<>>
  <2>1. UNCHANGED file
    BY <1>1 DEF Start
  <2>2. QED
    BY <2>1, FilesStay
<1>2. CASE file[s] = <<>>
  <2> DEFINE line == Line("start", 0, 0)
  <2>1. line \in Lines /\ ~IsMessage(line) /\ line.kind # "boundary" /\ Write(s, line)
    BY <1>2, LinesAre DEF Line, Start
  <2> HIDE DEF line
  <2>2. Grows(s, line)
    BY <2>1, FilesAre, WriteGrows
  <2>3. ASSUME NEW id, Stands(file[s], Len(file[s]), id) PROVE Stands(file'[s], Len(file'[s]), id)
    <3>1. file[s] \in Seq(Lines) /\ Grown(file[s], file'[s], line) /\ Len(file[s]) \in 0 .. Len(file[s])
      BY <2>2, FilesAre DEF Grows
    <3>2. Stands(file'[s], Len(file[s]), id)
      BY <2>1, <2>3, <3>1, GrownStands
    <3>3. file'[s] \in Seq(Lines) /\ Len(file'[s]) \in Nat /\ Len(file[s]) \in Nat /\ Len(file[s]) <= Len(file'[s])
      BY <3>1 DEF Grown
    <3>4. QED
      BY <3>2, <3>3, StandsFurther
  <2>4. QED
    BY <2>1, <2>2, <2>3, GrowsGround
<1>3. QED
  BY <1>1, <1>2

\* The agent's message goes on from what the recorder wrote last.
LEMMA RecordGround ==
  ASSUME TranscriptInv, GroundInv, NEW id \in Nat, id # 0, recorder.session # 0, Record(id)
  PROVE  /\ SoundInv' /\ LeafInv' /\ OriginInv' /\ recorder' = [recorder EXCEPT !.last = id]
         /\ Grows(recorder.session, Line("message", id, recorder.last)) /\ Line("message", id, recorder.last) \in Lines
         /\ recorder.session \in Sessions /\ Warmed(recorder.session)
<1> DEFINE s == recorder.session
           line == Line("message", id, recorder.last)
<1>1. s \in Sessions /\ recorder.last \in Nat
  BY PlacesAre
<1>2. line \in Lines /\ IsMessage(line) /\ line.id = id /\ line.parent = recorder.last /\ line.kind # "boundary"
  BY <1>1, LinesAre DEF Line
<1>3. Write(s, line) /\ Warmed(s) /\ recorder' = [recorder EXCEPT !.last = id]
  BY DEF Record
<1>4. line.parent = 0 \/ Stands(file[s], Len(file[s]), line.parent)
  BY <1>2 DEF GroundInv, OriginInv
<1> HIDE DEF line
<1>5. Grows(s, line)
  BY <1>1, <1>2, <1>3, FilesAre, WriteGrows
<1>6. SoundInv' /\ LeafInv'
  BY <1>1, <1>2, <1>3, <1>4, <1>5, GrowsGround
<1>7. OriginInv'
  <2>1. file[s] \in Seq(Lines) /\ Grown(file[s], file'[s], line)
    BY <1>1, <1>5, FilesAre DEF Grows
  <2>2. Stands(file'[s], Len(file'[s]), id)
    BY <1>2, <2>1, GrownHolds
  <2>3. recorder'.session = s /\ recorder'.last = id
    BY <1>3 DEF TranscriptInv, TypeInv, PlaceType
  <2>4. QED
    BY <2>2, <2>3 DEF OriginInv
<1>8. QED
  BY <1>1, <1>2, <1>3, <1>5, <1>6, <1>7 DEF line

\* No message of a sound file has ID 0.
LEMMA IdsNotZero ==
  ASSUME NEW f \in Seq(Lines), Sound(f)
  PROVE  0 \notin Ids(f)
<1> SUFFICES ASSUME 0 \in Ids(f) PROVE FALSE
  OBVIOUS
<1>1. PICK i \in 1 .. Len(f) : IsMessage(f[i]) /\ f[i].id = 0
  BY IdsAre DEF Placed
<1>2. QED
  BY <1>1 DEF Sound, SoundAt

\* What a crash leaves, what a reader keeps of a file and a copy of that are
\* the file's messages, and nothing else that counts.
LEMMA CutCuts ==
  ASSUME NEW f \in Seq(Lines), NEW rest, NEW k, Cut(f, rest, k)
  PROVE  rest \in Seq(Lines) /\ Cuts(f, rest, k)
<1>1. rest \in Seq(Lines) /\ k \in Nat /\ k <= Len(f) /\ Len(rest) \in Nat /\ k <= Len(rest)
      /\ (Len(rest) = k \/ (Len(rest) = k + 1 /\ rest[k + 1] = Torn)) /\ \A i \in 1 .. k : rest[i] = f[i]
  BY DEF Cut
<1>2. Plain(Torn)
  BY LinesAre DEF Plain, Torn, Line
<1>3. \A i \in k + 1 .. Len(rest) : Plain(rest[i])
  BY <1>1, <1>2
<1>4. QED
  BY <1>1, <1>3 DEF Cuts

\* A line that does not parse is no message and no boundary.
LEMMA MalformedPlain ==
  ASSUME NEW line, Malformed(line)
  PROVE  Plain(line)
BY DEF Malformed, Plain, IsMessage

\* Dropping a last line that does not parse leaves the messages and their chains.
LEMMA ParsedAlike ==
  ASSUME NEW f \in Seq(Lines), Loads(f)
  PROVE  /\ Parsed(f) \in Seq(Lines) /\ Alike(f, Parsed(f), Len(Parsed(f))) /\ Intact(Parsed(f))
<1> DEFINE p == Parsed(f)
<1>1. p \in Seq(Lines) /\ \A i \in 1 .. Len(p) : ~Malformed(p[i])
  BY ParsedIs
<1>2. f # <<>> /\ Len(f) \in Nat /\ Len(f) >= 1 /\ Last(f) = f[Len(f)]
  BY FrontIs DEF Loads
<1>3. ASSUME Malformed(Last(f)) PROVE Alike(f, p, Len(p))
  <2>1. p = Front(f) /\ Len(p) = Len(f) - 1 /\ \A i \in 1 .. Len(f) - 1 : p[i] = f[i]
    BY <1>2, <1>3, FrontIs DEF Parsed
  <2> HIDE DEF p
  <2>2. Plain(f[Len(f)])
    BY <1>2, <1>3, MalformedPlain
  <2>3. Len(p) \in Nat /\ Len(p) <= Len(f) /\ \A i \in 1 .. Len(p) : p[i] = f[i]
    BY <1>2, <2>1
  <2>4. \A i \in Len(p) + 1 .. Len(f) : Plain(f[i])
    BY <1>2, <2>1, <2>2
  <2>5. QED
    BY <1>1, <1>2, <2>3, <2>4 DEF Alike, Cuts
<1>4. ASSUME ~Malformed(Last(f)) PROVE Alike(f, p, Len(p))
  <2>1. p = f
    BY <1>4 DEF Parsed
  <2> HIDE DEF p
  <2>2. QED
    BY <1>2, <2>1 DEF Alike, Cuts
<1>5. Alike(f, p, Len(p))
  BY <1>3, <1>4
<1>6. Intact(p)
  <2> SUFFICES ASSUME NEW i \in 1 .. Len(p), p[i] = Broken PROVE FALSE
    BY DEF Intact
  <2>1. QED
    BY <1>1 DEF Malformed, Broken, Line
<1>7. QED
  BY <1>1, <1>5, <1>6

\* So does the line a fork adds to its copy.
LEMMA ForkAlike ==
  ASSUME NEW f \in Seq(Lines), Loads(f), Parsed(f) # <<>>
  PROVE  LET g == Append(Parsed(f), Line("fork", 0, 0))
         IN  g \in Seq(Lines) /\ Alike(f, g, Len(Parsed(f))) /\ Intact(g)
<1> DEFINE p == Parsed(f)
           line == Line("fork", 0, 0)
           g == Append(p, line)
<1>1. p \in Seq(Lines) /\ Alike(f, p, Len(p)) /\ Intact(p)
  BY ParsedAlike
<1>2. line \in Lines /\ Plain(line) /\ line # Broken
  BY LinesAre DEF Plain, Line, Broken
<1> HIDE DEF p, line
<1>3. g \in Seq(Lines) /\ Len(g) = Len(p) + 1 /\ g[Len(p) + 1] = line /\ \A i \in 1 .. Len(p) : g[i] = p[i]
  BY <1>1, <1>2, AppendIs
<1> HIDE DEF g
<1>4. Len(p) \in Nat
  BY <1>1
<1>5. \A i \in Len(p) + 1 .. Len(g) : Plain(g[i])
  BY <1>2, <1>3, <1>4
<1>6. Alike(f, g, Len(p))
  BY <1>1, <1>3, <1>4, <1>5 DEF Alike, Cuts
<1>7. Intact(g)
  <2> SUFFICES ASSUME NEW i \in 1 .. Len(g) PROVE g[i] # Broken
    BY DEF Intact
  <2>1. i \in 1 .. Len(p) \/ i = Len(p) + 1
    BY <1>3, <1>4
  <2>2. QED
    BY <1>1, <1>2, <1>3, <2>1 DEF Intact
<1>8. QED
  BY <1>3, <1>6, <1>7 DEF g, p, line

\* One lemma for each action.
LEMMA AccountGround ==
  ASSUME TranscriptInv, GroundInv, Account
  PROVE  GroundInv'
<1> DEFINE s == writing.session
           line == writing.line
<1>1. /\ writing # Nothing /\ UNCHANGED <<file, session, chat, agent, recorder, marking, saving>>
      /\ s \in Sessions /\ line \in Lines /\ line.kind \in {"start", "message", "boundary"}
  BY DEF Account, TranscriptInv, TypeInv, WriteType, Writes
<1>2. UNCHANGED cache \/ (IsMessage(line) /\ cache' = [cache EXCEPT ![s].seen = @ \cup {line.id}])
  <2>1. CASE line.kind = "start"
    BY <2>1 DEF Account
  <2>2. CASE line.kind = "message"
    BY <2>2 DEF Account, IsMessage
  <2>3. CASE line.kind = "boundary"
    BY <2>3 DEF Account
  <2>4. QED
    BY <1>1, <2>1, <2>2, <2>3
<1>3. IsMessage(line) => Stands(file[s], Len(file[s]), line.id)
  BY <1>1 DEF TranscriptInv, PendInv
<1> HIDE DEF s, line
<1>4. SoundInv' /\ RoleInv' /\ OriginInv' /\ NonzeroInv'
  BY <1>1 DEF GroundInv, SoundInv, RoleInv, HasRecorder, OriginInv, NonzeroInv
<1>5. LeafInv'
  <2> SUFFICES ASSUME NEW t \in Sessions, cache'[t].warmed, Intact(file[t])
               PROVE  cache'[t].seen \subseteq Ids(file[t]) /\ cache'[t].leaf \in Ids(file[t]) \cup {0}
    BY <1>1 DEF LeafInv
  <2>1. CASE cache'[t] = cache[t]
    BY <2>1 DEF GroundInv, LeafInv
  <2>2. CASE cache'[t] # cache[t]
    <3>1. t = s /\ IsMessage(line) /\ cache'[t] = [cache[t] EXCEPT !.seen = @ \cup {line.id}]
      BY <1>1, <1>2, <2>2 DEF TranscriptInv, MemoInv, CacheType
    <3>2. /\ cache[t] \in [warmed : BOOLEAN, seen : SUBSET Nat, leaf : Nat]
      BY DEF TranscriptInv, MemoInv, CacheType
    <3>3. cache[t].warmed /\ cache'[t].seen = cache[t].seen \cup {line.id} /\ cache'[t].leaf = cache[t].leaf
      BY <3>1, <3>2
    <3>4. file[t] \in Seq(Lines) /\ Len(file[t]) \in Nat /\ Len(file[t]) <= Len(file[t])
      BY FilesAre
    <3>5. line.id \in Ids(file[t])
      BY <1>3, <3>1, <3>4, StandingIs
    <3>6. QED
      BY <3>3, <3>5 DEF GroundInv, LeafInv
  <2>3. QED
    BY <2>1, <2>2
<1>6. QED
  BY <1>4, <1>5 DEF GroundInv

\* A message on screen, and its copy.
LEMMA SpokenGround ==
  ASSUME TranscriptInv, GroundInv, agent # "none",
         IF agent = "recorded" THEN Record(InChain(said + 1)) ELSE UNCHANGED <<file, writing, cache, recorder>>,
         UNCHANGED <<session, agent, saving>>, \A i \in 1 .. Len(chat') : chat'[i] # 0,
         marking' = 0 \/ (agent = "recorded" /\ marking' = InChain(said + 1))
  PROVE  GroundInv'
<1>1. said \in Nat /\ InChain(said + 1) \in Nat /\ InChain(said + 1) # 0
  BY PlacesAre DEF InChain
<1>2. NonzeroInv'
  BY DEF GroundInv, NonzeroInv
<1>3. CASE agent = "recorded"
  <2>1. recorder.session # 0 /\ session = recorder.session
    BY <1>3 DEF GroundInv, RoleInv, HasRecorder
  <2>2. SoundInv' /\ LeafInv' /\ OriginInv' /\ recorder' = [recorder EXCEPT !.last = InChain(said + 1)]
    BY <1>1, <1>3, <2>1, RecordGround
  <2>3. recorder'.session = recorder.session /\ recorder'.last = InChain(said + 1)
    BY <2>2 DEF TranscriptInv, TypeInv, PlaceType
  <2>4. RoleInv'
    BY <1>3, <2>1, <2>3 DEF GroundInv, RoleInv, HasRecorder
  <2>5. QED
    BY <1>2, <2>2, <2>4 DEF GroundInv
<1>4. CASE agent # "recorded"
  <2>1. UNCHANGED <<file, cache, recorder>> /\ marking' = 0
    BY <1>4
  <2>2. RoleInv'
    BY <2>1 DEF GroundInv, RoleInv, HasRecorder
  <2>3. QED
    BY <1>2, <2>1, <2>2, FilesStay DEF GroundInv
<1>5. QED
  BY <1>3, <1>4

LEMMA SayGround ==
  ASSUME TranscriptInv, GroundInv, Say
  PROVE  GroundInv'
<1>1. said \in Nat /\ chat \in Seq(0 .. 2 * said) /\ InChat(said + 1) \in Nat /\ InChat(said + 1) # 0
  BY PlacesAre DEF InChat
<1>2. chat' = Append(chat, InChat(said + 1)) /\ UNCHANGED <<session, agent, marking, saving>> /\ marking = 0
  BY DEF Say, Quiet
<1>3. \A i \in 1 .. Len(chat') : chat'[i] # 0
  <2> DEFINE x == InChat(said + 1)
  <2>1. chat \in Seq(Nat) /\ x \in Nat /\ x # 0 /\ chat' = Append(chat, x)
    BY <1>1, <1>2, SeqWiden
  <2> HIDE DEF x
  <2>2. \A i \in 1 .. Len(chat') : (i \in 1 .. Len(chat) /\ chat'[i] = chat[i]) \/ chat'[i] = x
    BY <2>1
  <2>3. QED
    BY <2>1, <2>2 DEF GroundInv, NonzeroInv
<1>4. agent # "none" /\ (IF agent = "recorded" THEN Record(InChain(said + 1)) ELSE UNCHANGED <<file, writing, cache, recorder>>)
  BY DEF Say
<1>5. QED
  BY <1>2, <1>3, <1>4, SpokenGround

LEMMA CompactGround ==
  ASSUME TranscriptInv, GroundInv, Compact
  PROVE  GroundInv'
<1>1. InChat(said + 1) # 0
  BY PlacesAre DEF InChat
<1>2. chat' = <<InChat(said + 1)>> /\ UNCHANGED <<session, agent, saving>> /\ marking = 0
  BY DEF Compact, Quiet
<1>3. \A i \in 1 .. Len(chat') : chat'[i] # 0
  BY <1>1, <1>2
<1>4. agent # "none" /\ (IF agent = "recorded" THEN Record(InChain(said + 1)) ELSE UNCHANGED <<file, writing, cache, recorder>>)
      /\ (marking' = 0 \/ (agent = "recorded" /\ marking' = InChain(said + 1)))
  BY <1>2 DEF Compact
<1>5. QED
  BY <1>2, <1>3, <1>4, SpokenGround

LEMMA MarkGround ==
  ASSUME TranscriptInv, GroundInv, Mark
  PROVE  GroundInv'
<1> DEFINE s == recorder.session
           line == Line("boundary", marking, 0)
<1>1. /\ Write(s, line) /\ marking # 0 /\ marking' = 0
      /\ UNCHANGED <<cache, session, chat, agent, recorder, saving>>
  BY DEF Mark
<1>2. agent = "recorded" /\ recorder.last = marking /\ s # 0 /\ s \in Sessions /\ marking \in Nat
  BY <1>1, PlacesAre DEF GroundInv, RoleInv, TranscriptInv, TypeInv, PlaceType
<1>3. line \in Lines /\ ~IsMessage(line) /\ line.id = marking
  BY <1>2, LinesAre DEF Line
<1>4. Stands(file[s], Len(file[s]), marking)
  BY <1>1, <1>2 DEF GroundInv, OriginInv
<1> HIDE DEF line
<1>5. Grows(s, line)
  BY <1>1, <1>2, <1>3, FilesAre, WriteGrows
<1>6. SoundInv' /\ LeafInv' /\ OriginInv'
  BY <1>1, <1>2, <1>3, <1>4, <1>5, GrowsGround
<1>7. RoleInv' /\ NonzeroInv'
  BY <1>1 DEF GroundInv, RoleInv, HasRecorder, NonzeroInv
<1>8. QED
  BY <1>6, <1>7 DEF GroundInv

LEMMA AuditGround ==
  ASSUME TranscriptInv, GroundInv, Audit
  PROVE  GroundInv'
<1>1. agent = "recorded" /\ Jot(recorder.session)
      /\ UNCHANGED <<cache, session, chat, agent, recorder, marking, saving>>
  BY DEF Audit, process
<1>2. recorder.session \in Sessions
  BY <1>1, PlacesAre DEF GroundInv, RoleInv, HasRecorder
<1>3. SoundInv' /\ LeafInv' /\ OriginInv'
  BY <1>1, <1>2, JotGround
<1>4. RoleInv' /\ NonzeroInv'
  BY <1>1 DEF GroundInv, RoleInv, HasRecorder, NonzeroInv
<1>5. QED
  BY <1>3, <1>4 DEF GroundInv

LEMMA BuildGround ==
  ASSUME TranscriptInv, GroundInv, Build
  PROVE  GroundInv'
<1>1. agent = "none" /\ marking = 0 /\ UNCHANGED <<session, chat, marking, saving>>
  BY DEF Build, Quiet
<1>2. NonzeroInv'
  BY <1>1 DEF GroundInv, NonzeroInv
<1>3. CASE session = 0
  <2>1. agent' = "unrecorded" /\ UNCHANGED <<file, recorder, cache>>
    BY <1>3 DEF Build
  <2>2. RoleInv'
    BY <1>1, <1>3, <2>1 DEF GroundInv, RoleInv, HasRecorder
  <2>3. QED
    BY <1>1, <1>2, <2>1, <2>2, FilesStay DEF GroundInv
<1>4. CASE session # 0 /\ recorder.session = session
  <2>1. agent' = "recorded" /\ UNCHANGED <<file, recorder, cache>>
    BY <1>4 DEF Build
  <2>2. RoleInv'
    BY <1>1, <1>4, <2>1 DEF GroundInv, RoleInv, HasRecorder
  <2>3. QED
    BY <1>1, <1>2, <2>1, <2>2, FilesStay DEF GroundInv
<1>5. CASE session # 0 /\ recorder.session # session
  <2>1. agent' = "recorded" /\ recorder' = [session |-> session, last |-> Warm(session).leaf] /\ Warmed(session) /\ Start(session)
    BY <1>5 DEF Build, Seed
  <2>2. session \in Sessions
    BY <1>5, PlacesAre
  <2>3. RoleInv'
    BY <1>1, <1>5, <2>1 DEF GroundInv, RoleInv, HasRecorder
  <2>4. SoundInv' /\ LeafInv'
    BY <1>1, <2>1, <2>2, StartGround
  <2>5. OriginInv'
    <3>1. file[session] \in Seq(Lines) /\ FileType
      BY <2>2, FilesAre
    <3>2. Warm(session).leaf = 0 \/ Stands(file[session], Len(file[session]), Warm(session).leaf)
      <4>1. CASE Intact(file[session])
        <5>1. Warm(session).leaf \in Ids(file[session]) \cup {0}
          BY <2>2, <3>1, <4>1, WarmLeaf DEF GroundInv
        <5>2. QED
          BY <3>1, <5>1, IdStands
      <4>2. CASE ~Intact(file[session])
        BY <3>1, <4>2, IdStands
      <4>3. QED
        BY <4>1, <4>2
    <3>3. Warm(session).leaf = 0 \/ Stands(file'[session], Len(file'[session]), Warm(session).leaf)
      BY <2>1, <2>2, <3>2, StartGround
    <3>4. recorder'.session = session /\ recorder'.last = Warm(session).leaf
      BY <2>1
    <3>5. QED
      BY <1>1, <3>3, <3>4 DEF OriginInv
  <2>6. QED
    BY <1>2, <2>3, <2>4, <2>5 DEF GroundInv
<1>6. QED
  BY <1>3, <1>4, <1>5

LEMMA StopGround ==
  ASSUME TranscriptInv, GroundInv, Stop
  PROVE  GroundInv'
<1>1. UNCHANGED <<file, cache, session, chat, recorder, marking, saving>> /\ agent' = "none" /\ marking = 0
  BY DEF Stop, Quiet, stored
<1>2. RoleInv' /\ NonzeroInv'
  BY <1>1 DEF GroundInv, RoleInv, NonzeroInv
<1>3. QED
  BY <1>1, <1>2, FilesStay DEF GroundInv

LEMMA SaveBeginGround ==
  ASSUME TranscriptInv, GroundInv, SaveBegin
  PROVE  GroundInv'
<1> DEFINE s == IF session = 0 THEN used + 1 ELSE session
<1>1. /\ UNCHANGED <<cache, chat, agent, recorder, marking>> /\ chat # <<>>
      /\ s \in Sessions /\ session' = s /\ saving'.of = s /\ saving'.chat = chat /\ Start(s)
  BY DEF SaveBegin
<1>2. SoundInv' /\ LeafInv' /\ OriginInv'
  BY <1>1, StartGround
<1>3. RoleInv'
  <2>1. CASE session # 0
    BY <1>1, <2>1 DEF GroundInv, RoleInv, HasRecorder
  <2>2. CASE session = 0
    <3>1. s = used + 1
      BY <2>2
    <3> HIDE DEF s
    <3>2. recorder.session # s
      BY <3>1, PlacesAre
    <3>3. agent # "recorded" /\ marking = 0
      BY <2>2 DEF GroundInv, RoleInv, HasRecorder
    <3>4. QED
      BY <1>1, <3>2, <3>3 DEF GroundInv, RoleInv, HasRecorder
  <2>3. QED
    BY <2>1, <2>2
<1>4. NonzeroInv'
  BY <1>1 DEF GroundInv, NonzeroInv
<1>5. QED
  BY <1>2, <1>3, <1>4 DEF GroundInv

\* The first message that a Save still has to write.
First == CHOOSE j \in Unsaved : \A k \in Unsaved : j <= k
Copied == Line("message", saving.chat[First], IF First = 1 THEN 0 ELSE saving.chat[First - 1])

\* It follows one that the file has.
LEMMA CopiedIs ==
  ASSUME TranscriptInv, GroundInv, SaveMessage
  PROVE  /\ saving.of \in Sessions /\ saving.of = session /\ saving.chat \in Seq(Nat) /\ Len(saving.chat) \in Nat
         /\ First \in 1 .. Len(saving.chat) /\ First \in Nat
         /\ saving.chat[First] \in Nat /\ saving.chat[First] # 0 /\ saving.chat[First] \notin Warm(session).seen
         /\ \A k \in 1 .. Len(saving.chat) : k < First => saving.chat[k] \in Warm(session).seen
         /\ First > 1 => First - 1 \in 1 .. Len(saving.chat) /\ saving.chat[First - 1] \in Nat
         /\ Copied \in Lines /\ IsMessage(Copied) /\ Copied.kind # "boundary" /\ Copied.id = saving.chat[First]
         /\ Copied.parent = (IF First = 1 THEN 0 ELSE saving.chat[First - 1])
         /\ Warmed(session) /\ Write(session, Copied) /\ Grows(session, Copied)
<1> DEFINE s == saving.of
           i == First
<1>1. writing = Nothing /\ saving.stage = "messages" /\ Unsaved # {} /\ Write(s, Copied) /\ Warmed(s)
  BY DEF SaveMessage, Copied, First
<1>2. /\ s \in Sessions /\ said \in Nat /\ Unsaved \in SUBSET (1 .. Len(saving.chat))
      /\ \A k \in Unsaved : saving.chat[k] \notin Warm(s).seen
      /\ saving.chat \in Seq(0 .. 2 * said)
  BY <1>1, UnsavedIs
<1>3. s = session
  BY <1>1 DEF GroundInv, RoleInv
<1>4. saving.chat \in Seq(Nat) /\ Len(saving.chat) \in Nat
  BY <1>2, SeqWiden
<1>5. i \in Unsaved /\ \A k \in Unsaved : i <= k
  <2>1. Unsaved \in SUBSET Nat
    BY <1>2
  <2>2. \E j \in Unsaved : \A k \in Unsaved : j <= k
    BY <1>1, <2>1, FirstIs
  <2>3. QED
    BY <2>2 DEF First
<1>6. i \in 1 .. Len(saving.chat) /\ i \in Nat
  BY <1>2, <1>4, <1>5
<1>7. \A k \in 1 .. Len(saving.chat) : k < i => saving.chat[k] \in Warm(s).seen
  <2> SUFFICES ASSUME NEW k \in 1 .. Len(saving.chat), k < i PROVE saving.chat[k] \in Warm(s).seen
    OBVIOUS
  <2>1. k \notin Unsaved
    BY <1>4, <1>5, <1>6
  <2>2. k \in DOMAIN saving.chat /\ ~saving.omit
    BY <1>4, <1>5 DEF Unsaved
  <2>3. QED
    BY <2>1, <2>2 DEF Unsaved
<1> HIDE DEF i
<1>8. saving.chat[i] \in Nat /\ saving.chat[i] # 0 /\ saving.chat[i] \notin Warm(s).seen
  BY <1>2, <1>4, <1>5, <1>6 DEF GroundInv, NonzeroInv
<1>9. i > 1 => i - 1 \in 1 .. Len(saving.chat) /\ saving.chat[i - 1] \in Nat
  BY <1>4, <1>6
<1> DEFINE x == saving.chat[i]
           y == IF i = 1 THEN 0 ELSE saving.chat[i - 1]
<1>10. Copied = Line("message", x, y)
  BY DEF Copied, i
<1>11. x \in Nat /\ y \in Nat
  BY <1>6, <1>8, <1>9
<1> HIDE DEF x, y
<1>12. Copied \in Lines /\ IsMessage(Copied) /\ Copied.kind # "boundary" /\ Copied.id = x /\ Copied.parent = y
  BY <1>10, <1>11, LinesAre DEF Line
<1>13. Grows(s, Copied)
  BY <1>1, <1>2, <1>12, FilesAre, WriteGrows
<1>14. QED
  BY <1>1, <1>2, <1>3, <1>4, <1>6, <1>7, <1>8, <1>9, <1>12, <1>13 DEF x, y, i

LEMMA SaveMessageGround ==
  ASSUME TranscriptInv, GroundInv, SaveMessage
  PROVE  GroundInv'
<1>1. UNCHANGED <<session, chat, agent, recorder, marking, saving>>
  BY DEF SaveMessage
<1>2. RoleInv' /\ NonzeroInv'
  BY <1>1 DEF GroundInv, RoleInv, HasRecorder, NonzeroInv
<1>3. Copied.parent = 0 \/ Stands(file[session], Len(file[session]), Copied.parent)
  <2>1. CASE First = 1
    BY <2>1, CopiedIs
  <2>2. CASE First # 1
    <3>1. First - 1 \in 1 .. Len(saving.chat) /\ First - 1 < First
      BY <2>2, CopiedIs
    <3>2. Copied.parent = saving.chat[First - 1] /\ saving.chat[First - 1] \in Warm(session).seen
      BY <2>2, <3>1, CopiedIs
    <3>3. session \in Sessions /\ FileType /\ file[session] \in Seq(Lines)
      BY CopiedIs, FilesAre
    <3>4. Copied.parent \in Ids(file[session]) \/ ~Intact(file[session])
      BY <3>2, <3>3, WarmLeaf DEF GroundInv
    <3>5. QED
      BY <3>3, <3>4, IdStands
  <2>3. QED
    BY <2>1, <2>2
<1>4. /\ session \in Sessions /\ Copied \in Lines /\ Copied.kind # "boundary" /\ Copied.id # 0
      /\ Warmed(session) /\ Grows(session, Copied)
  BY CopiedIs
<1>5. SoundInv' /\ LeafInv' /\ OriginInv'
  BY <1>1, <1>3, <1>4, GrowsGround
<1>6. QED
  BY <1>2, <1>5 DEF GroundInv

LEMMA SavePatchGround ==
  ASSUME TranscriptInv, GroundInv, SavePatch
  PROVE  GroundInv'
<1>1. /\ saving.stage = "messages" /\ Jot(saving.of) /\ Warmed(saving.of) /\ saving' = [saving EXCEPT !.stage = "flush"]
      /\ UNCHANGED <<session, chat, agent, recorder, marking>>
  BY DEF SavePatch
<1>2. saving.of \in Sessions
  BY <1>1, UnsavedIs
<1>3. saving'.of = saving.of /\ saving'.chat = saving.chat
  BY <1>1 DEF TranscriptInv, TypeInv, SavingType
<1>4. SoundInv' /\ LeafInv' /\ OriginInv'
  BY <1>1, <1>2, JotGround
<1>5. RoleInv' /\ NonzeroInv'
  BY <1>1, <1>3 DEF GroundInv, RoleInv, HasRecorder, NonzeroInv
<1>6. QED
  BY <1>4, <1>5 DEF GroundInv

LEMMA SaveFlushGround ==
  ASSUME TranscriptInv, GroundInv, SaveFlush
  PROVE  GroundInv'
<1>1. UNCHANGED <<file, cache, session, chat, agent, recorder, marking>> /\ saving' = NoSave
  BY DEF SaveFlush
<1>2. saving'.stage = "none" /\ Len(saving'.chat) = 0
  BY <1>1 DEF NoSave
<1>3. RoleInv' /\ NonzeroInv'
  BY <1>1, <1>2 DEF GroundInv, RoleInv, HasRecorder, NonzeroInv
<1>4. QED
  BY <1>1, <1>3, FilesStay DEF GroundInv

\* What a reader makes of a sound file are messages of it.
LEMMA ReadIs ==
  ASSUME NEW f \in Seq(Lines), Sound(f), Loads(f)
  PROVE  Projected(Parsed(f)) \in Seq(Ids(f)) /\ \A i \in 1 .. Len(Projected(Parsed(f))) : Projected(Parsed(f))[i] # 0
<1> DEFINE p == Parsed(f)
           c == Projected(p)
<1>1. p \in Seq(Lines) /\ Ids(p) \subseteq Ids(f)
  BY ParsedIs
<1> HIDE DEF p
<1>2. c \in Seq(Ids(p))
  BY <1>1, ProjectedIs
<1> HIDE DEF c
<1>3. c \in Seq(Ids(f))
  BY <1>1, <1>2, SeqWiden
<1>4. \A i \in 1 .. Len(c) : c[i] # 0
  BY <1>3, IdsNotZero
<1>5. QED
  BY <1>3, <1>4 DEF c, p

LEMMA ResumeGround ==
  ASSUME TranscriptInv, GroundInv, NEW s \in Sessions, Resume(s)
  PROVE  GroundInv'
<1>1. /\ UNCHANGED <<file, cache, recorder, marking, saving>> /\ marking = 0 /\ saving = NoSave
      /\ agent' = "none" /\ Loads(file[s]) /\ chat' = Projected(Parsed(file[s]))
  BY DEF Resume, Quiet, stored
<1>2. file[s] \in Seq(Lines) /\ Sound(file[s])
  BY FilesAre DEF GroundInv, SoundInv
<1>3. \A i \in 1 .. Len(chat') : chat'[i] # 0
  BY <1>1, <1>2, ReadIs
<1>4. saving'.stage = "none"
  BY <1>1 DEF NoSave
<1>5. RoleInv' /\ NonzeroInv'
  BY <1>1, <1>3, <1>4 DEF GroundInv, RoleInv, NonzeroInv
<1>6. QED
  BY <1>1, <1>5, FilesStay DEF GroundInv

LEMMA NewSessionGround ==
  ASSUME TranscriptInv, GroundInv, NewSession
  PROVE  GroundInv'
<1>1. /\ UNCHANGED <<file, cache, recorder, marking, saving>> /\ marking = 0 /\ saving = NoSave
      /\ session' = 0 /\ agent' = "none" /\ chat' = <<>>
  BY DEF NewSession, Saved, stored
<1>2. RoleInv' /\ NonzeroInv'
  BY <1>1 DEF GroundInv, RoleInv, NonzeroInv, NoSave
<1>3. QED
  BY <1>1, <1>2, FilesStay DEF GroundInv

LEMMA ForkGround ==
  ASSUME TranscriptInv, GroundInv, Fork
  PROVE  GroundInv'
<1> DEFINE s == used + 1
           g == Append(Parsed(file[session]), Line("fork", 0, 0))
<1>1. /\ s \in Sessions /\ session' = s /\ agent' = "none" /\ Loads(file[session]) /\ Parsed(file[session]) # <<>>
      /\ file' = [file EXCEPT ![s] = g] /\ marking = 0 /\ saving = NoSave /\ session # 0
      /\ UNCHANGED <<cache, chat, recorder, marking, saving>>
  BY DEF Fork, Saved
<1>2. session \in Sessions /\ used \in Nat /\ recorder.session \in Nat /\ recorder.session <= used
  BY <1>1, PlacesAre
<1>3. file[session] \in Seq(Lines) /\ Sound(file[session])
  BY <1>2, FilesAre DEF GroundInv, SoundInv
<1>4. g \in Seq(Lines) /\ Alike(file[session], g, Len(Parsed(file[session])))
  BY <1>1, <1>3, ForkAlike
<1> HIDE DEF g
<1>5. Sound(g)
  BY <1>3, <1>4, CutSound DEF Alike
<1>6. file'[s] = g /\ \A t \in Sessions : t # s => file'[t] = file[t]
  BY <1>1, FilesAre DEF FileType
<1>7. s > used /\ recorder.session # s
  BY <1>2
<1>8. ~cache[s].warmed
  BY <1>1, <1>7 DEF TranscriptInv, FreshInv
<1> HIDE DEF s
<1>9. SoundInv'
  BY <1>5, <1>6 DEF GroundInv, SoundInv
<1>10. LeafInv'
  BY <1>1, <1>6, <1>8 DEF GroundInv, LeafInv
<1>11. OriginInv'
  <2>1. recorder.session = 0 \/ recorder.session \in Sessions
    BY PlacesAre
  <2>2. QED
    BY <1>1, <1>6, <1>7, <2>1 DEF GroundInv, OriginInv
<1>12. RoleInv' /\ NonzeroInv'
  BY <1>1 DEF GroundInv, RoleInv, NonzeroInv, NoSave
<1>13. QED
  BY <1>9, <1>10, <1>11, <1>12 DEF GroundInv

LEMMA ListGround ==
  ASSUME TranscriptInv, GroundInv, List
  PROVE  GroundInv'
<1>1. UNCHANGED <<file, cache, session, chat, agent, recorder, marking, saving>>
  BY DEF List, process
<1>2. RoleInv' /\ NonzeroInv'
  BY <1>1 DEF GroundInv, RoleInv, HasRecorder, NonzeroInv
<1>3. QED
  BY <1>1, <1>2, FilesStay DEF GroundInv

LEMMA NextProcessGround ==
  ASSUME NextProcess
  PROVE  LeafInv' /\ RoleInv' /\ OriginInv' /\ NonzeroInv'
<1>1. /\ cache' = [s \in Sessions |-> Cold]
      /\ chat' = <<>> /\ agent' = "none" /\ recorder' = NoRecorder /\ marking' = 0 /\ saving' = NoSave
  BY DEF NextProcess
<1>2. QED
  BY <1>1 DEF LeafInv, RoleInv, OriginInv, NonzeroInv, NoSave, NoRecorder, Cold

LEMMA ExitGround ==
  ASSUME TranscriptInv, GroundInv, Exit
  PROVE  GroundInv'
<1>1. NextProcess /\ UNCHANGED file
  BY DEF Exit
<1>2. SoundInv'
  BY <1>1 DEF GroundInv, SoundInv
<1>3. QED
  BY <1>1, <1>2, NextProcessGround DEF GroundInv

LEMMA CrashGround ==
  ASSUME TranscriptInv, GroundInv, MachineCrash
  PROVE  GroundInv'
<1>1. NextProcess
  BY DEF MachineCrash
<1>2. PICK s \in Sessions : \E rest \in Remains(s) : file' = [file EXCEPT ![s] = rest]
  BY DEF MachineCrash
<1>3. PICK rest \in Remains(s) : file' = [file EXCEPT ![s] = rest]
  BY <1>2
<1>4. PICK k \in 0 .. Len(file[s]) : Cut(file[s], rest, k)
  BY RemainsAre DEF TranscriptInv
<1>5. file[s] \in Seq(Lines) /\ Sound(file[s])
  BY FilesAre DEF GroundInv, SoundInv
<1>6. rest \in Seq(Lines) /\ Cuts(file[s], rest, k)
  BY <1>4, <1>5, CutCuts
<1>7. Sound(rest)
  BY <1>5, <1>6, CutSound
<1>8. file'[s] = rest /\ \A t \in Sessions : t # s => file'[t] = file[t]
  BY <1>3, FilesAre DEF FileType
<1>9. SoundInv'
  BY <1>7, <1>8 DEF GroundInv, SoundInv
<1>10. QED
  BY <1>1, <1>9, NextProcessGround DEF GroundInv

-----------------------------------------------------------------------------
\* The three facts of it.
LEMMA GroundStarts ==
  ASSUME TranscriptInit
  PROVE  GroundInv
<1>1. /\ file = [s \in Sessions |-> <<>>] /\ cache = [s \in Sessions |-> Cold]
      /\ chat = <<>> /\ agent = "none" /\ recorder = NoRecorder /\ marking = 0 /\ saving = NoSave
  BY DEF TranscriptInit
<1>2. SoundInv
  BY <1>1 DEF SoundInv, Sound
<1>3. LeafInv /\ RoleInv /\ OriginInv /\ NonzeroInv
  BY <1>1 DEF LeafInv, RoleInv, OriginInv, NonzeroInv, NoSave, NoRecorder, Cold
<1>4. QED
  BY <1>2, <1>3 DEF GroundInv

\* A stutter keeps the invariant.
LEMMA GroundStays ==
  ASSUME TranscriptInv, GroundInv, UNCHANGED transcriptVars
  PROVE  GroundInv'
<1>1. UNCHANGED <<file, cache, session, chat, agent, recorder, marking, saving>>
  BY DEF transcriptVars, stored, process
<1>2. RoleInv' /\ NonzeroInv'
  BY <1>1 DEF GroundInv, RoleInv, HasRecorder, NonzeroInv
<1>3. QED
  BY <1>1, <1>2, FilesStay DEF GroundInv

LEMMA GroundSteps ==
  ASSUME TranscriptInv, GroundInv, TranscriptNext
  PROVE  GroundInv'
<1>1. CASE Account \/ Say \/ Compact \/ Mark \/ Audit \/ Build \/ Stop
  BY <1>1, AccountGround, SayGround, CompactGround, MarkGround, AuditGround, BuildGround, StopGround
<1>2. CASE SaveBegin \/ SaveMessage \/ SavePatch \/ SaveFlush
  BY <1>2, SaveBeginGround, SaveMessageGround, SavePatchGround, SaveFlushGround
<1>3. CASE \E s \in Sessions : Resume(s)
  BY <1>3, ResumeGround
<1>4. CASE NewSession \/ Fork \/ List \/ Exit \/ MachineCrash
  BY <1>4, NewSessionGround, ForkGround, ListGround, ExitGround, CrashGround
<1>5. QED
  BY <1>1, <1>2, <1>3, <1>4 DEF TranscriptNext

\* For any number of sessions, messages and crashes: the parent of a record and
\* the message a compaction's boundary names stand further up in their file, or
\* in a line a crash broke; one of the recorder and the Saves writes a session.
THEOREM ParentsStand == TranscriptSpec => []GroundInv
<1>1. TranscriptInit => TranscriptInv /\ GroundInv
  BY TranscriptStarts, GroundStarts
<1>2. TranscriptInv /\ GroundInv /\ [TranscriptNext]_transcriptVars => GroundInv'
  BY GroundSteps, GroundStays
<1>3. QED
  BY <1>1, <1>2, TranscriptInvariant, PTL DEF TranscriptSpec

-----------------------------------------------------------------------------
(* What is on screen and what its file shows: the inductive invariant. *)

\* A file that no crash broke, of a session whose recorder went on from its
\* last message.
Fine(s) == s \in Sessions /\ s \notin misled /\ Intact(file[s])

Mirrors == Texts(Projected(file[session])) = Texts(chat)

\* A cached leaf that a Save left behind; a first Save that has copied nothing
\* yet.  A recorder that starts now is misled, or has to wait.
Lagging(s) == cache[s].warmed /\ cache[s].leaf # LastId(file[s])
Copying == saving.stage = "messages" /\ ~saving.omit
Starting == Copying /\ saving.sync /\ saving.chat # <<>> /\ Ids(file[session]) = {}
Behind == Lagging(session) \/ Starting
Missing == \E i \in 1 .. Len(chat) : chat[i] \notin Ids(file[session])

\* A file has the first k messages of a conversation, as a chain, and no other.
HeldTo(f, c, k) ==
  /\ k = 0 \/ IsPath(f, SubSeq(c, 1, k))
  /\ \A i \in k + 1 .. Len(c) : c[i] \notin Ids(f)

Apart(c, d) == \A i \in 1 .. Len(c), j \in 1 .. Len(d) : c[i] # d[j]
Begins(c, d) == Len(c) <= Len(d) /\ \A i \in 1 .. Len(c) : c[i] = d[i]

\* The recorder's last message is the file's.
HeadInv == Fine(recorder.session) => recorder.last = LastId(file[recorder.session])

\* A summary whose boundary is not written yet is all there is on screen.
SummaryInv ==
  marking # 0 /\ Fine(session) =>
    Len(chat) = 1 /\ Text(chat[1]) = Text(marking) /\ chat[1] \notin Ids(file[session])

\* A Save that copies goes on with what is on screen, or with what was there
\* before a compaction.
CopyInv ==
  Copying /\ Fine(session) =>
    /\ ~HasRecorder /\ (saving.sync \/ Lagging(session))
    /\ \/ Begins(saving.chat, chat)
       \/ Apart(saving.chat, chat) /\ chat # <<>> /\ chat[1] \notin Ids(file[session])

ScreenInv == session = 0 \/ Fine(session) => Distinct(chat)

HeldInv == Fine(session) => \E k \in 0 .. Len(chat) : HeldTo(file[session], chat, k)

MirrorInv ==
  Fine(session) =>
    /\ HasRecorder /\ marking = 0 => Mirrors
    /\ ~HasRecorder => Mirrors \/ (Behind /\ Missing)
    /\ agent = "unrecorded" => Behind

WholeInv == HeadInv /\ SummaryInv /\ CopyInv /\ ScreenInv /\ HeldInv /\ MirrorInv

\* What was proved of every state and is relied on here.
Grounded == TranscriptInv /\ GroundInv

\* Such a file is read back by its chain.
LEMMA FineGood ==
  ASSUME Grounded, NEW s \in Sessions, Intact(file[s])
  PROVE  Good(file[s])
BY FilesAre DEF Grounded, GroundInv, SoundInv, Good

\* The same after a step.
LEMMA FineGoodNext ==
  ASSUME Grounded', NEW s \in Sessions, Intact(file'[s])
  PROVE  Good(file'[s])
BY DEF Grounded, TranscriptInv, LineInv, FileType, WrittenOnce, Single, GroundInv, SoundInv, Good

\* A file that has grown and is intact has just the line more.
LEMMA GrowsFine ==
  ASSUME Grounded, Grounded', NEW s \in Sessions, NEW line \in Lines, Grows(s, line), Intact(file'[s])
  PROVE  /\ Longer(file[s], file'[s], line) /\ Intact(file[s]) /\ Good(file[s]) /\ Good(file'[s])
         /\ file[s] \in Seq(Lines) /\ file'[s] \in Seq(Lines)
<1>1. file[s] \in Seq(Lines)
  BY FilesAre DEF Grounded
<1>2. Longer(file[s], file'[s], line) /\ Intact(file[s])
  BY <1>1, GrownLonger DEF Grows
<1>3. Good(file[s]) /\ Good(file'[s])
  BY <1>2, FineGood, FineGoodNext
<1>4. QED
  BY <1>1, <1>2, <1>3 DEF Good

\* The last ID of a file without messages, and with some.
LEMMA LastIdIs ==
  ASSUME NEW f \in Seq(Lines)
  PROVE  LastId(f) \in Ids(f) \cup {0} /\ (Ids(f) = {} => LastId(f) = 0 /\ Projected(f) = <<>>)
<1>1. LastId(f) \in Ids(f) \cup {0}
  <2>1. MessagesAt(f) \in SUBSET MessagesAt(f)
    OBVIOUS
  <2>2. QED
    BY <2>1, LastOfIs DEF LastId
<1>2. QED
  BY <1>1 DEF Projected

\* A message chained to the last one is read back behind it.
LEMMA MessageRead ==
  ASSUME NEW f, Good(f), NEW g, Good(g), NEW line \in Lines, Longer(f, g, line), IsMessage(line),
         line.id \notin Ids(f), line.parent = LastId(f)
  PROVE  Projected(g) = Append(Projected(f), line.id)
<1> DEFINE id == line.id
<1>1. f \in Seq(Lines) /\ g \in Seq(Lines)
  BY DEF Good
<1>2. /\ Ids(g) = Ids(f) \cup {id} /\ LastId(g) = id /\ Boundary(g) = Boundary(f)
      /\ Follows(g, id, LastId(f)) /\ \A c : IsPath(f, c) => IsPath(g, c)
  BY <1>1, LongerMessage
<1> HIDE DEF id
<1>3. CASE Ids(f) = {}
  <2>1. LastId(f) = 0 /\ Projected(f) = <<>>
    BY <1>1, <1>3, LastIdIs
  <2> DEFINE c == <<id>>
  <2>2. IsPath(g, c)
    BY <1>1, <1>2, <2>1, OneIsPath
  <2>3. Len(c) = 1 /\ c[Len(c)] = id /\ c = Append(<<>>, id)
    OBVIOUS
  <2> HIDE DEF c
  <2>4. Projected(g) = c
    BY <1>2, <2>2, <2>3, PathIsRead
  <2>5. QED
    BY <2>1, <2>3, <2>4 DEF id
<1>4. CASE Ids(f) # {}
  <2> DEFINE c == Projected(f)
             d == Append(c, id)
  <2>1. IsPath(f, c) /\ c[Len(c)] = LastId(f)
    BY <1>4, ReadIsPath
  <2> HIDE DEF c
  <2>2. IsPath(g, c) /\ c \in Seq(Ids(f)) /\ id \in Ids(g) /\ c \in Seq(Ids(g))
    <3>1. IsPath(g, c)
      BY <1>2, <2>1
    <3>2. c \in Seq(Ids(f)) /\ c \in Seq(Ids(g))
      BY <2>1, <3>1 DEF IsPath, Chains
    <3>3. QED
      BY <1>2, <3>1, <3>2
  <2>3. \A i \in 1 .. Len(c) : c[i] # id
    <3>1. \A i \in 1 .. Len(c) : c[i] \in Ids(f)
      BY <2>2
    <3>2. QED
      BY <3>1 DEF id
  <2>4. Boundary(f) \in Ids(f) \cup {0} /\ id # Boundary(f)
    <3>1. Boundary(f) = 0 \/ Boundary(f) \in Ids(f)
      BY <1>1, BoundaryIs
    <3>2. 0 \notin Ids(g)
      BY <1>1, IdsNotZero DEF Good
    <3>3. QED
      BY <2>2, <3>1, <3>2 DEF id
  <2>5. IsPath(g, d)
    BY <1>2, <2>1, <2>2, <2>3, <2>4, PathGoesOn
  <2>6. d \in Seq(Ids(g)) /\ Len(d) = Len(c) + 1 /\ d[Len(c) + 1] = id
    BY <2>2, AppendedSeq
  <2> HIDE DEF d
  <2>7. d[Len(d)] = LastId(g)
    BY <1>2, <2>6
  <2>8. Projected(g) = d
    BY <2>5, <2>7, PathIsRead
  <2>9. QED
    BY <2>8 DEF d, c, id
<1>5. QED
  BY <1>3, <1>4

\* Two conversations with the same texts.
LEMMA TextsAre ==
  ASSUME NEW c \in Seq(Nat), NEW d \in Seq(Nat)
  PROVE  Texts(c) = Texts(d) <=> Len(c) = Len(d) /\ \A i \in 1 .. Len(c) : Text(c[i]) = Text(d[i])
<1>1. Len(c) \in Nat /\ Len(d) \in Nat /\ DOMAIN c = 1 .. Len(c) /\ DOMAIN d = 1 .. Len(d)
  OBVIOUS
<1>2. Texts(c) = [i \in 1 .. Len(c) |-> Text(c[i])] /\ Texts(d) = [i \in 1 .. Len(d) |-> Text(d[i])]
  BY <1>1 DEF Texts
<1>3. ASSUME Texts(c) = Texts(d) PROVE Len(c) = Len(d)
  <2>1. DOMAIN Texts(c) = 1 .. Len(c) /\ DOMAIN Texts(d) = 1 .. Len(d)
    BY <1>2
  <2>2. 1 .. Len(c) = 1 .. Len(d)
    BY <1>3, <2>1
  <2> DEFINE m == Len(c)
             n == Len(d)
  <2>3. m \in Nat /\ n \in Nat /\ 1 .. m = 1 .. n
    BY <1>1, <2>2
  <2> HIDE DEF m, n
  <2>4. ~(m < n)
    <3>1. n \in 1 .. n => n \in 1 .. m
      BY <2>3
    <3>2. QED
      BY <2>3, <3>1
  <2>5. ~(n < m)
    <3>1. m \in 1 .. m => m \in 1 .. n
      BY <2>3
    <3>2. QED
      BY <2>3, <3>1
  <2>6. m = n
    BY <2>3, <2>4, <2>5
  <2>7. QED
    BY <2>6 DEF m, n
<1>4. ASSUME Len(c) = Len(d), \A i \in 1 .. Len(c) : Text(c[i]) = Text(d[i]) PROVE Texts(c) = Texts(d)
  BY <1>2, <1>4
<1>5. ASSUME Texts(c) = Texts(d), NEW i \in 1 .. Len(c) PROVE Text(c[i]) = Text(d[i])
  <2>1. Texts(c)[i] = Text(c[i]) /\ i \in 1 .. Len(d)
    BY <1>2, <1>3, <1>5
  <2>2. Texts(d)[i] = Text(d[i])
    BY <1>2, <2>1
  <2>3. QED
    BY <1>5, <2>1, <2>2
<1>6. QED
  BY <1>3, <1>4, <1>5

\* Conversations of equal texts stay so when both get one more.
LEMMA TextsGoOn ==
  ASSUME NEW c \in Seq(Nat), NEW d \in Seq(Nat), NEW x \in Nat, NEW y \in Nat,
         Texts(c) = Texts(d), Text(x) = Text(y)
  PROVE  Texts(Append(c, x)) = Texts(Append(d, y))
<1>1. Len(c) = Len(d) /\ \A i \in 1 .. Len(c) : Text(c[i]) = Text(d[i])
  BY TextsAre
<1> DEFINE cc == Append(c, x)
           dd == Append(d, y)
<1>2. /\ cc \in Seq(Nat) /\ Len(cc) = Len(c) + 1 /\ cc[Len(c) + 1] = x /\ (\A i \in 1 .. Len(c) : cc[i] = c[i])
      /\ Len(c) \in Nat
  BY AppendedSeq
<1>3. dd \in Seq(Nat) /\ Len(dd) = Len(d) + 1 /\ dd[Len(d) + 1] = y /\ \A i \in 1 .. Len(d) : dd[i] = d[i]
  BY AppendedSeq
<1> HIDE DEF cc, dd
<1>4. \A i \in 1 .. Len(cc) : Text(cc[i]) = Text(dd[i])
  <2> SUFFICES ASSUME NEW i \in 1 .. Len(cc) PROVE Text(cc[i]) = Text(dd[i])
    OBVIOUS
  <2>1. CASE i \in 1 .. Len(c)
    BY <1>1, <1>2, <1>3, <2>1
  <2>2. CASE i = Len(c) + 1
    BY <1>1, <1>2, <1>3, <2>2
  <2>3. QED
    BY <1>2, <2>1, <2>2
<1>5. Len(cc) = Len(dd)
  BY <1>1, <1>2, <1>3
<1>6. Texts(cc) = Texts(dd)
  BY <1>2, <1>3, <1>4, <1>5, TextsAre
<1>7. QED
  BY <1>6 DEF cc, dd

\* The two IDs of a message.
LEMMA TwoIds ==
  ASSUME NEW m \in Nat, NEW n, n = m + 1
  PROVE  /\ InChat(n) \in Nat /\ InChain(n) \in Nat /\ InChat(n) # InChain(n) /\ InChain(n) # 0 /\ InChat(n) # 0
         /\ InChat(n) \notin 0 .. 2 * m /\ InChain(n) \notin 0 .. 2 * m
         /\ Text(InChat(n)) = Text(InChain(n))
<1>1. InChat(n) = 2 * m + 1 /\ InChain(n) = 2 * m + 2
  BY DEF InChat, InChain
<1>2. Text(InChat(n)) = m + 1 /\ Text(InChain(n)) = m + 1
  BY <1>1 DEF Text
<1>3. QED
  BY <1>1, <1>2

\* The files are as good as they were: the same messages, read back alike.
LikeFiles ==
  /\ UNCHANGED misled
  /\ \A t \in Sessions : Intact(file'[t]) => Intact(file[t]) /\ \E n \in Nat : Alike(file[t], file'[t], n)

\* Files that are alike are read back alike.
LEMMA LikeFile ==
  ASSUME Grounded, Grounded', LikeFiles, NEW s \in Sessions, Fine(s)'
  PROVE  /\ Fine(s) /\ Ids(file'[s]) = Ids(file[s]) /\ LastId(file'[s]) = LastId(file[s])
         /\ Projected(file'[s]) = Projected(file[s]) /\ \A c : IsPath(file[s], c) => IsPath(file'[s], c)
<1>1. Intact(file'[s]) /\ Intact(file[s]) /\ Fine(s)
  BY DEF LikeFiles, Fine
<1>2. PICK n \in Nat : Alike(file[s], file'[s], n)
  BY <1>1 DEF LikeFiles
<1>3. Good(file[s]) /\ Good(file'[s]) /\ file[s] \in Seq(Lines) /\ file'[s] \in Seq(Lines)
  BY <1>1, FineGood, FineGoodNext DEF Good
<1>4. QED
  BY <1>1, <1>2, <1>3, AlikeIs, AlikeReads

\* An unchanged file is alike.
LEMMA SameFiles ==
  ASSUME Grounded, UNCHANGED <<file, misled>>
  PROVE  LikeFiles
<1> SUFFICES ASSUME NEW t \in Sessions PROVE \E n \in Nat : Alike(file[t], file[t], n)
  BY DEF LikeFiles
<1>1. Len(file[t]) \in Nat
  BY FilesAre DEF Grounded
<1>2. Alike(file[t], file[t], Len(file[t]))
  BY <1>1 DEF Alike, Cuts
<1>3. QED
  BY <1>1, <1>2

\* A line that is neither a message nor a boundary changes nothing of that in a
\* file that stays intact.
LEMMA PlainLike ==
  ASSUME Grounded, NEW s \in Sessions, NEW line \in Lines, Plain(line), Grows(s, line), UNCHANGED misled
  PROVE  LikeFiles
<1>1. FileType
  BY FilesAre DEF Grounded
<1> SUFFICES ASSUME NEW t \in Sessions, Intact(file'[t])
             PROVE  Intact(file[t]) /\ \E n \in Nat : Alike(file[t], file'[t], n)
  BY DEF LikeFiles
<1>2. file[t] \in Seq(Lines) /\ Len(file[t]) \in Nat
  BY <1>1 DEF FileType
<1>3. CASE t # s
  <2>1. file'[t] = file[t]
    BY <1>3 DEF Grows
  <2>2. Alike(file[t], file'[t], Len(file[t]))
    BY <1>2, <2>1 DEF Alike, Cuts
  <2>3. QED
    BY <1>2, <2>1, <2>2
<1>4. CASE t = s
  <2> DEFINE f == file[t]
             g == file'[t]
  <2>1. Longer(f, g, line) /\ Intact(f)
    BY <1>2, <1>4, GrownLonger DEF Grows
  <2> HIDE DEF f, g
  <2>2. Len(f) \in Nat /\ Len(g) = Len(f) + 1 /\ g[Len(f) + 1] = line /\ \A i \in 1 .. Len(f) : g[i] = f[i]
    BY <1>2, <2>1 DEF Longer, f
  <2>3. Alike(f, g, Len(f))
    BY <2>2 DEF Alike, Cuts
  <2>4. QED
    BY <2>1, <2>2, <2>3 DEF f, g
<1>5. QED
  BY <1>3, <1>4

\* A note, and the first line of a new file.
LEMMA JotLike ==
  ASSUME Grounded, NEW s \in Sessions, Jot(s), UNCHANGED misled
  PROVE  LikeFiles
<1>1. UNCHANGED file \/ Grows(s, Note)
  BY FilesAre, JotGrows DEF Grounded
<1>2. Note \in Lines /\ Plain(Note)
  BY LinesAre DEF Plain, Note, Line
<1>3. QED
  BY <1>1, <1>2, SameFiles, PlainLike

LEMMA StartLike ==
  ASSUME Grounded, NEW s \in Sessions, Start(s), UNCHANGED misled
  PROVE  LikeFiles
<1> DEFINE line == Line("start", 0, 0)
<1>1. UNCHANGED file \/ Write(s, line)
  BY DEF Start
<1>2. line \in Lines /\ Plain(line)
  BY LinesAre DEF Plain, Line
<1> HIDE DEF line
<1>3. QED
  BY <1>1, <1>2, FilesAre, WriteGrows, SameFiles, PlainLike DEF Grounded

\* A recorder that is there goes on from the last message still.
LEMMA HeadStays ==
  ASSUME Grounded, Grounded', HeadInv, LikeFiles, UNCHANGED recorder
  PROVE  HeadInv'
<1> SUFFICES ASSUME Fine(recorder.session)' PROVE recorder.last = LastId(file'[recorder.session])
  BY DEF HeadInv
<1>1. recorder.session \in Sessions
  BY DEF Fine
<1>2. Fine(recorder.session) /\ LastId(file'[recorder.session]) = LastId(file[recorder.session])
  <2> DEFINE r == recorder.session
  <2>1. Fine(r)'
    OBVIOUS
  <2>2. r \in Sessions /\ UNCHANGED r
    BY <1>1
  <2>3. QED
    BY <2>1, <2>2, LikeFile DEF Fine
<1>3. QED
  BY <1>2 DEF HeadInv

\* Neither screen nor file changes.
LEMMA ScreenStays ==
  ASSUME Grounded, Grounded', WholeInv, LikeFiles, UNCHANGED <<session, chat, marking, recorder>>,
         agent' = "unrecorded" => agent = "unrecorded",
         Fine(session)' /\ Behind => Behind'
  PROVE  HeadInv' /\ SummaryInv' /\ ScreenInv' /\ HeldInv' /\ MirrorInv'
<1>1. HeadInv'
  BY HeadStays DEF WholeInv
<1>2. CASE ~Fine(session)'
  BY <1>1, <1>2 DEF WholeInv, SummaryInv, ScreenInv, HeldInv, MirrorInv
<1>3. CASE Fine(session)'
  <2> DEFINE f == file[session]
             g == file'[session]
  <2>1. session \in Sessions
    BY <1>3 DEF Fine
  <2>2. /\ Fine(session) /\ Ids(g) = Ids(f) /\ LastId(g) = LastId(f)
        /\ Projected(g) = Projected(f) /\ \A c : IsPath(f, c) => IsPath(g, c)
    BY <1>3, <2>1, LikeFile DEF Fine
  <2>3. SummaryInv' /\ ScreenInv'
    BY <2>2 DEF WholeInv, SummaryInv, ScreenInv
  <2>4. HeldInv'
    <3>1. PICK k \in 0 .. Len(chat) : HeldTo(f, chat, k)
      BY <2>2 DEF WholeInv, HeldInv
    <3>2. HeldTo(g, chat, k)
      BY <2>2, <3>1 DEF HeldTo
    <3>3. QED
      BY <3>1, <3>2 DEF HeldInv
  <2>5. MirrorInv'
    <3>1. Mirrors' = Mirrors /\ Missing' = Missing /\ HasRecorder' = HasRecorder
      BY <2>2 DEF Mirrors, Missing, HasRecorder
    <3>2. QED
      BY <1>3, <2>2, <3>1 DEF WholeInv, MirrorInv
  <2>6. QED
    BY <1>1, <2>3, <2>4, <2>5
<1>4. QED
  BY <1>2, <1>3

\* A Save that copies still does, or no longer.
LEMMA CopyStays ==
  ASSUME Grounded, Grounded', WholeInv, LikeFiles, UNCHANGED <<session, chat, recorder>>,
         UNCHANGED saving \/ ~Copying', Fine(session)' /\ Lagging(session) => Lagging(session)'
  PROVE  CopyInv'
<1> SUFFICES ASSUME Copying', Fine(session)', UNCHANGED saving
             PROVE  /\ ~HasRecorder' /\ (saving.sync \/ Lagging(session)')
                    /\ \/ Begins(saving.chat, chat)
                       \/ Apart(saving.chat, chat) /\ chat # <<>> /\ chat[1] \notin Ids(file'[session])
  BY DEF CopyInv
<1>1. session \in Sessions
  BY DEF Fine
<1>2. Fine(session) /\ Ids(file'[session]) = Ids(file[session])
  BY <1>1, LikeFile DEF Fine
<1>3. Copying /\ HasRecorder' = HasRecorder
  BY DEF Copying, HasRecorder
<1>4. QED
  BY <1>2, <1>3 DEF WholeInv, CopyInv

\* What is behind stays so while the cached leaf does.
LEMMA BehindStays ==
  ASSUME Grounded, Grounded', LikeFiles, UNCHANGED session, Fine(session)',
         cache[session].warmed => cache'[session].warmed /\ cache'[session].leaf = cache[session].leaf
  PROVE  /\ Lagging(session) => Lagging(session)'
         /\ UNCHANGED saving /\ Behind => Behind'
<1>1. session \in Sessions
  BY DEF Fine
<1>2. LastId(file'[session]) = LastId(file[session]) /\ Ids(file'[session]) = Ids(file[session])
  BY <1>1, LikeFile DEF Fine
<1>3. Lagging(session) => Lagging(session)'
  BY <1>2 DEF Lagging
<1>4. UNCHANGED saving /\ Starting => Starting'
  BY <1>2 DEF Starting, Copying
<1>5. QED
  BY <1>3, <1>4 DEF Behind

\* What follows an append, its sync and the index, changes no conversation.
LEMMA AccountWhole ==
  ASSUME Grounded, Grounded', WholeInv, Account
  PROVE  WholeInv'
<1> DEFINE s == writing.session
           line == writing.line
<1>1. writing # Nothing /\ UNCHANGED <<file, misled, session, chat, agent, recorder, marking, saving>>
  BY DEF Account
<1>2. s \in Sessions /\ line.kind \in {"start", "message", "boundary"}
  BY <1>1 DEF Grounded, TranscriptInv, TypeInv, WriteType, Writes
<1>3. UNCHANGED cache \/ cache' = [cache EXCEPT ![s].seen = @ \cup {line.id}]
  <2>1. CASE line.kind = "start"
    BY <2>1 DEF Account
  <2>2. CASE line.kind = "message"
    BY <2>2 DEF Account
  <2>3. CASE line.kind = "boundary"
    BY <2>3 DEF Account
  <2>4. QED
    BY <1>2, <2>1, <2>2, <2>3
<1> HIDE DEF s, line
<1>4. \A t \in Sessions : cache'[t].warmed = cache[t].warmed /\ cache'[t].leaf = cache[t].leaf
  BY <1>2, <1>3 DEF Grounded, TranscriptInv, MemoInv, CacheType
<1>5. LikeFiles
  BY <1>1, SameFiles
<1>6. ASSUME Fine(session)' PROVE (Lagging(session) => Lagging(session)') /\ (Behind => Behind')
  <2>1. session \in Sessions
    BY <1>1, <1>6 DEF Fine
  <2>2. QED
    BY <1>1, <1>4, <1>5, <1>6, <2>1, BehindStays
<1>7. QED
  BY <1>1, <1>5, <1>6, ScreenStays, CopyStays DEF WholeInv

LEMMA AuditWhole ==
  ASSUME Grounded, Grounded', WholeInv, Audit
  PROVE  WholeInv'
<1>1. agent = "recorded" /\ Jot(recorder.session)
      /\ UNCHANGED <<cache, misled, session, chat, agent, recorder, marking, saving>>
  BY DEF Audit, process, hist
<1>2. recorder.session \in Sessions
  BY <1>1, PlacesAre DEF Grounded, GroundInv, RoleInv, HasRecorder
<1>3. LikeFiles
  BY <1>1, <1>2, JotLike
<1>4. Fine(session)' => (Lagging(session) => Lagging(session)') /\ (Behind => Behind')
  BY <1>1, <1>3, BehindStays
<1>5. QED
  BY <1>1, <1>3, <1>4, ScreenStays, CopyStays DEF WholeInv

LEMMA StopWhole ==
  ASSUME Grounded, Grounded', WholeInv, Stop
  PROVE  WholeInv'
<1>1. UNCHANGED <<file, cache, misled, session, chat, recorder, marking, saving>> /\ agent' = "none"
  BY DEF Stop, stored, hist
<1>2. LikeFiles
  BY <1>1, SameFiles
<1>3. Fine(session)' => (Lagging(session) => Lagging(session)') /\ (Behind => Behind')
  BY <1>1, <1>2, BehindStays
<1>4. QED
  BY <1>1, <1>2, <1>3, ScreenStays, CopyStays DEF WholeInv

LEMMA ListWhole ==
  ASSUME Grounded, Grounded', WholeInv, List
  PROVE  WholeInv'
<1>1. UNCHANGED <<file, cache, misled, session, chat, agent, recorder, marking, saving>>
  BY DEF List, process, hist
<1>2. LikeFiles
  BY <1>1, SameFiles
<1>3. Fine(session)' => (Lagging(session) => Lagging(session)') /\ (Behind => Behind')
  BY <1>1, <1>2, BehindStays
<1>4. QED
  BY <1>1, <1>2, <1>3, ScreenStays, CopyStays DEF WholeInv

LEMMA WholeStays ==
  ASSUME Grounded, Grounded', WholeInv, UNCHANGED transcriptVars
  PROVE  WholeInv'
<1>1. UNCHANGED <<file, cache, misled, session, chat, agent, recorder, marking, saving>>
  BY DEF transcriptVars, stored, process, hist
<1>2. LikeFiles
  BY <1>1, SameFiles
<1>3. Fine(session)' => (Lagging(session) => Lagging(session)') /\ (Behind => Behind')
  BY <1>1, <1>2, BehindStays
<1>4. QED
  BY <1>1, <1>2, <1>3, ScreenStays, CopyStays DEF WholeInv

\* A Save that has nothing to write for a conversation has its messages.
LEMMA NothingToStart ==
  ASSUME Grounded, Fine(session), Unsaved = {}
  PROVE  ~Starting
<1> SUFFICES ASSUME Starting PROVE FALSE
  OBVIOUS
<1>1. saving.stage = "messages" /\ ~saving.omit /\ saving.chat # <<>> /\ Ids(file[session]) = {} /\ session \in Sessions
  BY DEF Starting, Copying, Fine
<1>2. saving.of = session /\ saving.chat \in Seq(0 .. 2 * said)
  BY <1>1, UnsavedIs DEF Grounded, GroundInv, RoleInv
<1>3. 1 \in DOMAIN saving.chat
  BY <1>1, <1>2
<1>4. saving.chat[1] \in Warm(session).seen
  BY <1>1, <1>2, <1>3 DEF Unsaved
<1>5. Warm(session).seen \subseteq Ids(file[session])
  BY <1>1, FilesAre, WarmLeaf DEF Grounded, GroundInv, Fine
<1>6. QED
  BY <1>1, <1>4, <1>5

LEMMA SavePatchWhole ==
  ASSUME Grounded, Grounded', WholeInv, SavePatch
  PROVE  WholeInv'
<1>1. /\ saving.stage = "messages" /\ Unsaved = {} /\ Jot(saving.of) /\ Warmed(saving.of) /\ saving' = [saving EXCEPT !.stage = "flush"]
      /\ UNCHANGED <<misled, session, chat, agent, recorder, marking>>
  BY DEF SavePatch, hist
<1>2. saving.of \in Sessions /\ saving.of = session
  BY <1>1, UnsavedIs DEF Grounded, GroundInv, RoleInv
<1>3. ~Copying'
  BY <1>1 DEF Grounded, TranscriptInv, TypeInv, SavingType, Copying
<1>4. LikeFiles
  BY <1>1, <1>2, JotLike
<1>5. cache[session].warmed => cache'[session].warmed /\ cache'[session].leaf = cache[session].leaf
  <2>1. cache'[session] = Warm(session)
    BY <1>1, <1>2, WarmedIs DEF Grounded, TranscriptInv
  <2>2. QED
    BY <2>1 DEF Warm
<1>6. ASSUME Fine(session)' PROVE (Lagging(session) => Lagging(session)') /\ (Behind => Behind')
  <2>1. Lagging(session) => Lagging(session)'
    BY <1>1, <1>4, <1>5, <1>6, BehindStays
  <2>2. Fine(session)
    BY <1>1, <1>2, <1>4, <1>6, LikeFile
  <2>3. ~Starting
    BY <1>1, <2>2, NothingToStart
  <2>4. QED
    BY <2>1, <2>3 DEF Behind
<1>7. QED
  BY <1>1, <1>3, <1>4, <1>6, ScreenStays, CopyStays DEF WholeInv

LEMMA SaveFlushWhole ==
  ASSUME Grounded, Grounded', WholeInv, SaveFlush
  PROVE  WholeInv'
<1>1. /\ saving.stage = "flush" \/ Unsaved = {}
      /\ saving' = NoSave /\ UNCHANGED <<file, cache, misled, session, chat, agent, recorder, marking>>
  BY DEF SaveFlush, hist
<1>2. LikeFiles /\ ~Copying'
  BY <1>1, SameFiles DEF Copying, NoSave
<1>3. ASSUME Fine(session)' PROVE (Lagging(session) => Lagging(session)') /\ (Behind => Behind')
  <2>1. Lagging(session) => Lagging(session)'
    BY <1>1, <1>2, <1>3, BehindStays
  <2>2. Fine(session)
    BY <1>1, <1>3 DEF Fine
  <2>3. ~Starting
    BY <1>1, <2>2, NothingToStart DEF Starting, Copying
  <2>4. QED
    BY <2>1, <2>3 DEF Behind
<1>4. QED
  BY <1>1, <1>2, <1>3, ScreenStays, CopyStays DEF WholeInv

LEMMA SaveBeginWhole ==
  ASSUME Grounded, Grounded', WholeInv, SaveBegin
  PROVE  WholeInv'
<1>1. saving = NoSave /\ UNCHANGED <<cache, chat, agent, recorder, marking, misled>> /\ chat # <<>>
  BY DEF SaveBegin, hist
<1>2. ~Starting
  BY <1>1 DEF Starting, Copying, NoSave
<1>3. CASE session # 0
  <2>1. /\ UNCHANGED session /\ session \in Sessions /\ Start(session)
        /\ saving' = [stage |-> "messages", of |-> session, chat |-> chat, omit |-> HasRecorder, sync |-> agent = "none"]
    BY <1>3 DEF SaveBegin
  <2>2. LikeFiles
    BY <1>1, <2>1, StartLike
  <2>3. ASSUME Fine(session)' PROVE (Lagging(session) => Lagging(session)') /\ (Behind => Behind')
    <3>1. Lagging(session) => Lagging(session)'
      BY <1>1, <2>1, <2>2, <2>3, BehindStays
    <3>2. QED
      BY <1>2, <3>1 DEF Behind
  <2>4. CopyInv'
    <3> SUFFICES ASSUME Copying', Fine(session)'
                 PROVE  ~HasRecorder' /\ (saving'.sync \/ Lagging(session)') /\ Begins(saving'.chat, chat)
      BY <1>1 DEF CopyInv
    <3>1. Fine(session)
      BY <2>1, <2>2, LikeFile DEF Fine
    <3>2. saving'.omit = HasRecorder /\ saving'.sync = (agent = "none") /\ saving'.chat = chat
      BY <2>1
    <3>3. ~HasRecorder /\ ~HasRecorder'
      BY <1>1, <2>1, <3>2 DEF Copying, HasRecorder
    <3>4. agent # "none" => Lagging(session)'
      <4>1. agent # "none" => agent = "unrecorded"
        BY <3>3 DEF Grounded, GroundInv, RoleInv
      <4>2. agent = "unrecorded" => Lagging(session)
        BY <1>2, <3>1 DEF WholeInv, MirrorInv, Behind
      <4>3. QED
        BY <2>3, <4>1, <4>2
    <3>5. Begins(chat, chat)
      <4>1. Len(chat) \in Nat
        BY PlacesAre DEF Grounded
      <4>2. QED
        BY <4>1 DEF Begins
    <3>6. QED
      BY <3>2, <3>3, <3>4, <3>5
  <2>5. QED
    BY <1>1, <2>1, <2>2, <2>3, <2>4, ScreenStays DEF WholeInv
<1>4. CASE session = 0
  <2> DEFINE s == used + 1
             line == Line("start", 0, 0)
  <2>1. /\ s \in Sessions /\ session' = s /\ Start(s)
        /\ saving' = [stage |-> "messages", of |-> s, chat |-> chat, omit |-> FALSE, sync |-> TRUE]
    BY <1>4 DEF SaveBegin, HasRecorder
  <2>2. line \in Lines /\ ~IsMessage(line)
    BY LinesAre DEF Line
  <2>3. used \in Nat /\ recorder.session \in Nat /\ recorder.session <= used /\ s # recorder.session /\ s > used
    BY PlacesAre DEF Grounded
  <2>4. file[s] = <<>> /\ file[s] \in Seq(Lines)
    BY <2>1, <2>3, FilesAre DEF Grounded, TranscriptInv, FreshInv
  <2>5. Write(s, line)
    BY <2>1, <2>4 DEF Start
  <2> HIDE DEF line
  <2>6. Grows(s, line)
    BY <2>1, <2>2, <2>5, FilesAre, WriteGrows DEF Grounded
  <2>7. Ids(file'[s]) = {}
    <3>1. \A id \in Ids(file'[s]) : id \in Ids(file[s])
      <4>1. file[s] \in Seq(Lines) /\ Grown(file[s], file'[s], line)
        BY <2>4, <2>6 DEF Grows
      <4>2. QED
        BY <2>2, <4>1, GrownIds
    <3>2. Ids(file[s]) = {}
      <4>1. Len(file[s]) = 0 /\ file[s] \in Seq(Lines)
        BY <2>4
      <4>2. 1 .. Len(file[s]) = {}
        BY <4>1
      <4>3. QED
        BY <4>1, <4>2, IdsAre DEF Placed
    <3>3. QED
      BY <3>1, <3>2
  <2> HIDE DEF s
  <2>8. marking = 0
    BY <1>4 DEF Grounded, GroundInv, RoleInv, HasRecorder
  <2>9. ~HasRecorder'
    BY <1>1, <2>1, <2>3 DEF HasRecorder
  <2>10. HeadInv'
    <3>1. \A t \in Sessions : t # s => file'[t] = file[t]
      BY <2>6 DEF Grows
    <3>2. QED
      BY <1>1, <2>3, <3>1 DEF WholeInv, HeadInv, Fine
  <2>11. Len(chat) \in Nat /\ Len(chat) >= 1 /\ 1 \in 1 .. Len(chat)
    BY <1>1, PlacesAre DEF Grounded
  <2>12. SummaryInv' /\ ScreenInv'
    BY <1>1, <1>4, <2>8 DEF SummaryInv, WholeInv, ScreenInv
  <2>13. HeldInv'
    <3>1. HeldTo(file'[s], chat, 0)
      BY <2>7 DEF HeldTo
    <3>2. QED
      BY <1>1, <2>1, <2>11, <3>1 DEF HeldInv
  <2>14. CopyInv'
    <3>1. Begins(chat, chat)
      BY <2>11 DEF Begins
    <3>2. QED
      BY <1>1, <2>1, <2>9, <3>1 DEF CopyInv
  <2>15. MirrorInv'
    <3>1. Missing'
      BY <1>1, <2>1, <2>7, <2>11 DEF Missing
    <3>2. Starting'
      BY <1>1, <2>1, <2>7 DEF Starting, Copying
    <3>3. QED
      BY <2>9, <3>1, <3>2 DEF MirrorInv, Behind
  <2>16. QED
    BY <2>10, <2>12, <2>13, <2>14, <2>15 DEF WholeInv
<1>5. QED
  BY <1>3, <1>4

\* A recorder that starts from the file's last message finds all of the
\* conversation there: nothing lags behind, and no first Save is under way.
LEMMA BuildWhole ==
  ASSUME Grounded, Grounded', WholeInv, Build
  PROVE  WholeInv'
<1>1. marking = 0 /\ ~saving.sync /\ UNCHANGED <<session, chat, marking, saving>>
  BY DEF Build, Quiet
<1>2. CASE session = 0
  <2>1. agent' = "unrecorded" /\ UNCHANGED <<file, recorder, cache, misled>>
    BY <1>2 DEF Build
  <2>2. ~Fine(session)'
    BY <1>1, <1>2, PlacesAre DEF Fine, Grounded
  <2>3. LikeFiles
    BY <1>1, <2>1, SameFiles
  <2>4. HeadInv'
    BY <2>1, <2>3, HeadStays DEF WholeInv
  <2>5. QED
    BY <1>1, <1>2, <2>2, <2>4 DEF WholeInv, SummaryInv, CopyInv, ScreenInv, HeldInv, MirrorInv
<1>3. CASE session # 0 /\ recorder.session = session
  <2>1. agent' = "recorded" /\ UNCHANGED <<file, recorder, cache, misled>>
    BY <1>3 DEF Build
  <2>2. LikeFiles
    BY <1>1, <2>1, SameFiles
  <2>3. Fine(session)' => (Lagging(session) => Lagging(session)') /\ (Behind => Behind')
    BY <1>1, <2>1, <2>2, BehindStays
  <2>4. QED
    BY <1>1, <2>1, <2>2, <2>3, ScreenStays, CopyStays DEF WholeInv
<1>4. CASE session # 0 /\ recorder.session # session
  <2> DEFINE leaf == Warm(session).leaf
  <2>1. /\ agent' = "recorded" /\ recorder' = [session |-> session, last |-> leaf] /\ Start(session)
        /\ misled' = IF leaf = LastId(file[session]) THEN misled ELSE misled \cup {session}
    BY <1>4 DEF Build, Seed
  <2>2. recorder'.session = session /\ recorder'.last = leaf
    BY <2>1
  <2> HIDE DEF leaf
  <2>3. CASE ~Fine(session)'
    <3>1. ~Fine(recorder.session)'
      <4>1. ~(session \in Sessions /\ session \notin misled' /\ Intact(file'[session]))
        BY <1>1, <2>3 DEF Fine
      <4>2. QED
        BY <2>2, <4>1 DEF Fine
    <3>2. QED
      BY <1>1, <1>4, <2>3, <3>1 DEF WholeInv, HeadInv, SummaryInv, CopyInv, ScreenInv, HeldInv, MirrorInv
  <2>4. CASE Fine(session)'
    <3>1. session \notin misled' /\ session \in Sessions
      BY <1>1, <2>4 DEF Fine
    <3>2. leaf = LastId(file[session]) /\ UNCHANGED misled
      BY <2>1, <3>1
    <3>3. /\ Fine(session) /\ Ids(file'[session]) = Ids(file[session]) /\ LastId(file'[session]) = LastId(file[session])
          /\ Projected(file'[session]) = Projected(file[session])
          /\ \A c : IsPath(file[session], c) => IsPath(file'[session], c)
      <4>1. LikeFiles
        BY <2>1, <3>1, <3>2, StartLike
      <4>2. Fine(session)' => session \in Sessions /\ session \notin misled' /\ Intact(file'[session])
        BY <1>1 DEF Fine
      <4>3. QED
        BY <1>1, <2>4, <3>1, <4>1, LikeFile DEF Fine
    <3>4. ~Lagging(session) /\ ~Behind
      <4>1. ~Lagging(session)
        BY <3>2 DEF Lagging, Warm, leaf
      <4>2. QED
        BY <1>1, <4>1 DEF Behind, Starting
    <3>5. Mirrors
      BY <1>4, <3>3, <3>4 DEF WholeInv, MirrorInv, HasRecorder
    <3>6. ~Copying
      BY <1>1, <3>3, <3>4 DEF WholeInv, CopyInv
    <3>7. HeadInv'
      BY <1>1, <2>2, <3>2, <3>3 DEF HeadInv
    <3>8. CopyInv' /\ SummaryInv' /\ ScreenInv' /\ HeldInv'
      <4>1. CopyInv' /\ SummaryInv' /\ ScreenInv'
        BY <1>1, <3>3, <3>6 DEF WholeInv, CopyInv, Copying, SummaryInv, ScreenInv
      <4>2. PICK k \in 0 .. Len(chat) : HeldTo(file[session], chat, k)
        BY <3>3 DEF WholeInv, HeldInv
      <4>3. HeldTo(file'[session], chat, k)
        BY <3>3, <4>2 DEF HeldTo
      <4>4. QED
        BY <1>1, <4>1, <4>2, <4>3 DEF HeldInv
    <3>9. MirrorInv'
      <4>1. HasRecorder' /\ Mirrors'
        BY <1>1, <1>4, <2>2, <3>3, <3>5 DEF HasRecorder, Mirrors
      <4>2. QED
        BY <2>1, <4>1 DEF MirrorInv
    <3>10. QED
      BY <3>7, <3>8, <3>9 DEF WholeInv
  <2>5. QED
    BY <2>3, <2>4
<1>5. QED
  BY <1>2, <1>3, <1>4

\* There is no conversation.
LEMMA NoneWhole ==
  ASSUME Grounded', HeadInv', session' = 0, chat' = <<>>
  PROVE  WholeInv'
<1>1. ~Fine(session)'
  BY DEF Fine, Sessions
<1>2. Distinct(chat')
  BY DEF Distinct
<1>3. QED
  BY <1>1, <1>2 DEF WholeInv, SummaryInv, CopyInv, ScreenInv, HeldInv, MirrorInv

LEMMA NewSessionWhole ==
  ASSUME Grounded, Grounded', WholeInv, NewSession
  PROVE  WholeInv'
<1>1. UNCHANGED <<file, recorder, misled>> /\ session' = 0 /\ chat' = <<>>
  BY DEF NewSession, stored, hist
<1>2. HeadInv'
  BY <1>1, SameFiles, HeadStays DEF WholeInv
<1>3. QED
  BY <1>1, <1>2, NoneWhole

\* A process has just started, in a session without a file.
Fresh ==
  /\ chat = <<>> /\ recorder = NoRecorder /\ agent = "none" /\ marking = 0 /\ saving = NoSave
  /\ session \in Sessions /\ file[session] = <<>>

LEMMA FreshWhole == Fresh => WholeInv
<1> SUFFICES ASSUME Fresh PROVE WholeInv
  OBVIOUS
<1>1. /\ chat = <<>> /\ recorder = NoRecorder /\ agent = "none" /\ marking = 0 /\ saving = NoSave
      /\ file[session] = <<>>
  BY DEF Fresh
<1>2. HeadInv /\ SummaryInv /\ CopyInv
  BY <1>1 DEF HeadInv, Fine, Sessions, NoRecorder, SummaryInv, CopyInv, Copying, NoSave
<1>3. ScreenInv
  BY <1>1 DEF ScreenInv, Distinct
<1>4. <<>> \in Seq(Lines)
  OBVIOUS
<1>5. Projected(<<>>) = <<>>
  <2>1. Ids(<<>>) = {}
    BY DEF Ids, MessagesAt
  <2>2. QED
    BY <1>4, <2>1, LastIdIs
<1>6. HeldInv
  <2>1. Len(chat) = 0 /\ HeldTo(file[session], chat, 0)
    BY <1>1 DEF HeldTo
  <2>2. QED
    BY <2>1 DEF HeldInv
<1>7. MirrorInv
  BY <1>1, <1>5 DEF MirrorInv, Mirrors
<1>8. QED
  BY <1>2, <1>3, <1>6, <1>7 DEF WholeInv

LEMMA NextProcessWhole ==
  ASSUME NextProcess, file'[used + 1] = <<>>
  PROVE  WholeInv'
<1>1. Fresh'
  BY DEF Fresh, NextProcess, NoRecorder, NoSave, Sessions
<1>2. Fresh' => WholeInv'
  BY FreshWhole, PTL
<1>3. QED
  BY <1>1, <1>2

LEMMA ExitWhole ==
  ASSUME Grounded, Exit
  PROVE  WholeInv'
<1>1. NextProcess /\ UNCHANGED file /\ used + 1 \in Sessions
  BY DEF Exit, NextProcess
<1>2. file[used + 1] = <<>>
  BY <1>1, PlacesAre DEF Grounded, TranscriptInv, FreshInv
<1>3. QED
  BY <1>1, <1>2, NextProcessWhole

LEMMA CrashWhole ==
  ASSUME Grounded, MachineCrash
  PROVE  WholeInv'
<1> DEFINE t == used + 1
<1>1. NextProcess /\ t \in Sessions
  BY DEF MachineCrash, NextProcess
<1>2. PICK s \in Sessions : \E rest \in Remains(s) : file' = [file EXCEPT ![s] = rest]
  BY DEF MachineCrash
<1>3. PICK rest \in Remains(s) : file' = [file EXCEPT ![s] = rest]
  BY <1>2
<1>4. t > used
  BY PlacesAre DEF Grounded
<1>5. file[t] = <<>> /\ ~cache[t].warmed
  BY <1>1, <1>4 DEF Grounded, TranscriptInv, FreshInv
<1> HIDE DEF t
<1>6. t = s => rest = <<>>
  BY <1>5, NothingRemains DEF Grounded, TranscriptInv
<1>7. file'[t] = <<>>
  BY <1>1, <1>3, <1>5, <1>6, FilesAre DEF FileType, Grounded
<1>8. QED
  BY <1>1, <1>7, NextProcessWhole DEF t

LEMMA WholeStarts ==
  ASSUME TranscriptInit
  PROVE  WholeInv
<1>1. Fresh
  BY TranscriptAssumption DEF Fresh, TranscriptInit, Sessions
<1>2. QED
  BY <1>1, FreshWhole

\* What is resumed is on screen as the file has it.
LEMMA ResumeWhole ==
  ASSUME Grounded, Grounded', WholeInv, NEW s \in Sessions, Resume(s)
  PROVE  WholeInv'
<1>1. /\ UNCHANGED <<file, cache, recorder, marking, saving, misled>> /\ marking = 0 /\ saving = NoSave
      /\ session' = (IF Parsed(file[s]) = <<>> THEN 0 ELSE s) /\ agent' = "none"
      /\ Loads(file[s]) /\ chat' = Projected(Parsed(file[s]))
  BY DEF Resume, Quiet, stored, hist
<1> DEFINE f == file[s]
           p == Parsed(f)
<1>2. HeadInv'
  BY <1>1, SameFiles, HeadStays DEF WholeInv
<1>3. SummaryInv' /\ CopyInv'
  BY <1>1 DEF SummaryInv, CopyInv, Copying, NoSave
<1>4. s # 0
  BY DEF Sessions
<1>5. CASE p = <<>>
  <2>1. <<>> \in Seq(Lines) /\ Ids(<<>>) = {}
    BY DEF Ids, MessagesAt
  <2>2. chat' = <<>> /\ session' = 0
    BY <1>1, <1>5, <2>1, LastIdIs
  <2>3. QED
    BY <1>2, <2>2, NoneWhole
<1>6. CASE p # <<>> /\ ~Fine(s)
  <2>1. ~Fine(session)' /\ session' = s
    BY <1>1, <1>6 DEF Fine
  <2>2. QED
    BY <1>1, <1>2, <1>3, <1>4, <2>1 DEF WholeInv, ScreenInv, HeldInv, MirrorInv
<1>7. CASE p # <<>> /\ Fine(s)
  <2>0. session' = s
    BY <1>1, <1>7
  <2>1. Good(f) /\ f \in Seq(Lines) /\ Single(f) /\ Sound(f)
    BY <1>7, FineGood DEF Fine, Good
  <2>2. p \in Seq(Lines) /\ Alike(f, p, Len(p)) /\ Intact(p) /\ Single(p)
    BY <1>1, <2>1, ParsedAlike, ParsedIs
  <2> HIDE DEF p
  <2>3. Good(p)
    <3>1. Sound(p)
      BY <2>1, <2>2, CutSound DEF Alike
    <3>2. QED
      BY <2>2, <3>1 DEF Good
  <2> HIDE DEF f
  <2>4. Projected(p) = Projected(f)
    BY <2>1, <2>2, <2>3, AlikeReads
  <2> DEFINE c == Projected(f)
  <2>5. chat' = c
    BY <1>1, <2>4 DEF p, f
  <2>6. Distinct(c) /\ Len(c) \in Nat /\ HeldTo(f, c, Len(c))
    <3>1. CASE Ids(f) = {}
      <4>1. Len(c) = 0
        BY <2>1, <3>1, LastIdIs
      <4> HIDE DEF c
      <4>2. Distinct(c) /\ HeldTo(f, c, 0)
        BY <4>1 DEF Distinct, HeldTo
      <4>3. QED
        BY <4>1, <4>2
    <3>2. CASE Ids(f) # {}
      <4>1. IsPath(f, c)
        BY <2>1, <3>2, ReadIsPath
      <4> HIDE DEF c
      <4>2. c \in Seq(Ids(f)) /\ Distinct(c)
        BY <4>1 DEF IsPath, Chains
      <4>3. Len(c) \in Nat /\ SubSeq(c, 1, Len(c)) = c
        BY <4>2
      <4>4. IsPath(f, SubSeq(c, 1, Len(c)))
        BY <4>1, <4>3
      <4>5. \A i \in Len(c) + 1 .. Len(c) : c[i] \notin Ids(f)
        BY <4>3
      <4>6. QED
        BY <4>2, <4>3, <4>4, <4>5 DEF HeldTo
    <3>3. QED
      BY <3>1, <3>2
  <2> HIDE DEF c
  <2>7. ScreenInv'
    BY <2>5, <2>6 DEF ScreenInv
  <2>8. HeldInv'
    <3>1. Len(c) \in 0 .. Len(c)
      BY <2>6
    <3>2. QED
      BY <1>1, <2>0, <2>5, <2>6, <3>1 DEF HeldInv, f
  <2>9. MirrorInv'
    <3>1. Mirrors'
      BY <1>1, <2>0, <2>5 DEF Mirrors, c, f
    <3>2. QED
      BY <1>1, <3>1 DEF MirrorInv
  <2>10. QED
    BY <1>2, <1>3, <2>7, <2>8, <2>9 DEF WholeInv
<1>8. QED
  BY <1>5, <1>6, <1>7

\* Once all is saved, the file shows what is on screen.
LEMMA SavedMirrors ==
  ASSUME Grounded, WholeInv, Saved, Fine(session)
  PROVE  Mirrors
<1>1. marking = 0 /\ session \in Sessions
  BY DEF Saved, Fine
<1>2. CASE HasRecorder
  BY <1>1, <1>2 DEF WholeInv, MirrorInv
<1>3. CASE ~HasRecorder
  <2>1. ToSet(chat) \subseteq Warm(session).seen
    BY <1>3 DEF Saved
  <2>2. Warm(session).seen \subseteq Ids(file[session])
    BY <1>1, FilesAre, WarmLeaf DEF Grounded, GroundInv, Fine
  <2>3. \A i \in 1 .. Len(chat) : chat[i] \in ToSet(chat)
    <3>1. DOMAIN chat = 1 .. Len(chat)
      BY PlacesAre DEF Grounded
    <3>2. QED
      BY <3>1 DEF ToSet
  <2>4. ~Missing
    BY <2>1, <2>2, <2>3 DEF Missing
  <2>5. QED
    BY <1>3, <2>4 DEF WholeInv, MirrorInv
<1>4. QED
  BY <1>2, <1>3

LEMMA ForkWhole ==
  ASSUME Grounded, Grounded', WholeInv, Fork
  PROVE  WholeInv'
<1> DEFINE s == used + 1
           f == file[session]
           g == Append(Parsed(f), Line("fork", 0, 0))
<1>1. /\ s \in Sessions /\ session' = s /\ agent' = "none" /\ Loads(f) /\ Parsed(f) # <<>>
      /\ file' = [file EXCEPT ![s] = g] /\ marking = 0 /\ saving = NoSave /\ session # 0 /\ Saved
      /\ misled' = IF session \in misled \/ Broken \in ToSet(f) THEN misled \cup {s} ELSE misled
      /\ UNCHANGED <<cache, chat, recorder, marking, saving>>
  BY DEF Fork, Saved
<1>2. session \in Sessions /\ used \in Nat /\ recorder.session \in Nat /\ recorder.session <= used /\ recorder.session # s
      /\ s # 0 /\ Len(chat) \in Nat
  BY <1>1, PlacesAre DEF Grounded
<1>3. f \in Seq(Lines)
  BY <1>2, FilesAre DEF Grounded
<1>4. g \in Seq(Lines) /\ Alike(f, g, Len(Parsed(f)))
  BY <1>1, <1>3, ForkAlike
<1> HIDE DEF g
<1>5. file'[s] = g /\ \A t \in Sessions : t # s => file'[t] = file[t]
  BY <1>1, FilesAre DEF FileType, Grounded
<1> HIDE DEF s
<1>6. HeadInv'
  BY <1>1, <1>2, <1>5 DEF WholeInv, HeadInv, Fine
<1>7. SummaryInv' /\ CopyInv' /\ ~HasRecorder'
  BY <1>1, <1>2 DEF SummaryInv, CopyInv, Copying, NoSave, HasRecorder
<1>8. CASE ~Fine(session)'
  BY <1>1, <1>2, <1>6, <1>7, <1>8 DEF WholeInv, ScreenInv, HeldInv, MirrorInv
<1>9. CASE Fine(session)'
  <2>1. s \notin misled' /\ Intact(g)
    BY <1>1, <1>5, <1>9 DEF Fine
  <2>2. session \notin misled /\ Broken \notin ToSet(f)
    BY <1>1, <2>1
  <2>3. Intact(f)
    <3>1. DOMAIN f = 1 .. Len(f)
      BY <1>3
    <3>2. QED
      BY <2>2, <3>1 DEF Intact, ToSet
  <2>4. Fine(session) /\ Good(f)
    BY <1>2, <2>2, <2>3, FineGood DEF Fine
  <2>5. Good(g)
    <3>1. Good(file'[s])
      BY <1>1, <1>5, <2>1, FineGoodNext
    <3>2. QED
      BY <1>5, <3>1
  <2> HIDE DEF f
  <2>6. Projected(g) = Projected(f) /\ Ids(g) = Ids(f) /\ \A c : IsPath(f, c) => IsPath(g, c)
    BY <1>3, <1>4, <2>4, <2>5, AlikeIs, AlikeReads
  <2>7. ScreenInv'
    BY <1>1, <2>4 DEF WholeInv, ScreenInv
  <2>8. HeldInv'
    <3>1. PICK k \in 0 .. Len(chat) : HeldTo(f, chat, k)
      BY <2>4 DEF WholeInv, HeldInv, f
    <3>2. HeldTo(g, chat, k)
      BY <2>6, <3>1 DEF HeldTo
    <3>3. QED
      BY <1>1, <1>5, <3>1, <3>2 DEF HeldInv
  <2>9. MirrorInv'
    <3>1. Mirrors
      BY <1>1, <2>4, SavedMirrors
    <3>2. Mirrors'
      BY <1>1, <1>5, <2>6, <3>1 DEF Mirrors, f
    <3>3. QED
      BY <1>1, <1>7, <3>2 DEF MirrorInv
  <2>10. QED
    BY <1>6, <1>7, <2>7, <2>8, <2>9 DEF WholeInv
<1>10. QED
  BY <1>8, <1>9

\* The conversation on screen, and the next message's IDs.
LEMMA NextSaid ==
  ASSUME Grounded
  PROVE  LET x == InChat(said + 1)
             y == InChain(said + 1)
         IN  /\ x \in Nat /\ y \in Nat /\ x # y /\ x # 0 /\ y # 0 /\ Text(x) = Text(y)
             /\ \A i \in 1 .. Len(chat) : chat[i] # x /\ chat[i] # y
             /\ \A i \in 1 .. Len(saving.chat) : saving.chat[i] # x /\ saving.chat[i] # y
             /\ \A s \in Sessions : x \notin Ids(file[s]) /\ y \notin Ids(file[s])
             /\ chat \in Seq(Nat) /\ Len(chat) \in Nat
<1> DEFINE x == InChat(said + 1)
           y == InChain(said + 1)
<1>1. said \in Nat /\ chat \in Seq(0 .. 2 * said) /\ saving.chat \in Seq(0 .. 2 * said)
      /\ \A s \in Sessions : Ids(file[s]) \subseteq 0 .. 2 * said
  BY PlacesAre DEF Grounded, TranscriptInv, TypeInv, SavingType, LineInv, IdInv
<1>2. x \in Nat /\ y \in Nat /\ x # y /\ x # 0 /\ y # 0 /\ Text(x) = Text(y) /\ x \notin 0 .. 2 * said /\ y \notin 0 .. 2 * said
  BY <1>1, TwoIds
<1> HIDE DEF x, y
<1>3. \A i \in 1 .. Len(chat) : chat[i] # x /\ chat[i] # y
  BY <1>1, <1>2
<1>4. \A i \in 1 .. Len(saving.chat) : saving.chat[i] # x /\ saving.chat[i] # y
  BY <1>1, <1>2
<1>5. \A s \in Sessions : x \notin Ids(file[s]) /\ y \notin Ids(file[s])
  BY <1>1, <1>2
<1>6. chat \in Seq(Nat) /\ Len(chat) \in Nat
  BY <1>1, SeqWiden
<1>7. QED
  BY <1>2, <1>3, <1>4, <1>5, <1>6 DEF x, y

\* The agent's message is read back behind the others.
LEMMA RecordedIs ==
  ASSUME Grounded, Grounded', WholeInv, agent = "recorded", Record(InChain(said + 1)),
         UNCHANGED <<session, misled>>, Fine(session)'
  PROVE  LET id == InChain(said + 1)
             f == file[session]
             g == file'[session]
         IN  /\ Fine(session) /\ recorder'.last = id
             /\ Ids(g) = Ids(f) \cup {id} /\ LastId(g) = id /\ \A c : IsPath(f, c) => IsPath(g, c)
             /\ Projected(g) = Append(Projected(f), id) /\ Projected(f) \in Seq(Nat)
<1> DEFINE id == InChain(said + 1)
           f == file[session]
           g == file'[session]
           line == Line("message", id, recorder.last)
<1>1. session \in Sessions /\ recorder.session = session /\ session # 0 /\ recorder.last \in Nat
  BY PlacesAre DEF Grounded, GroundInv, RoleInv, HasRecorder
<1>2. id \in Nat /\ id # 0 /\ id \notin Ids(f)
  BY <1>1, NextSaid
<1>3. Grows(session, line) /\ line \in Lines /\ recorder' = [recorder EXCEPT !.last = id]
  BY <1>1, <1>2, RecordGround DEF Grounded
<1>4. IsMessage(line) /\ line.id = id /\ line.parent = recorder.last
  BY <1>1, <1>2, LinesAre DEF Line
<1> HIDE DEF line, id
<1>5. Intact(g)
  BY DEF Fine
<1>6. Longer(f, g, line) /\ Intact(f) /\ Good(f) /\ Good(g) /\ f \in Seq(Lines) /\ g \in Seq(Lines)
  BY <1>1, <1>3, <1>5, GrowsFine
<1>7. Fine(session)
  BY <1>6 DEF Fine
<1>8. recorder.last = LastId(f)
  BY <1>1, <1>7 DEF WholeInv, HeadInv
<1>9. recorder'.last = id
  BY <1>3 DEF Grounded, TranscriptInv, TypeInv, PlaceType
<1>10. Ids(g) = Ids(f) \cup {id} /\ LastId(g) = id /\ \A c : IsPath(f, c) => IsPath(g, c)
  BY <1>3, <1>4, <1>6, LongerMessage
<1>11. Projected(g) = Append(Projected(f), id)
  BY <1>2, <1>3, <1>4, <1>6, <1>8, MessageRead
<1>12. Projected(f) \in Seq(Nat)
  <2>1. Projected(f) \in Seq(Ids(f)) /\ Ids(f) \subseteq Nat
    BY <1>6, ProjectedIs, IdsAre
  <2>2. QED
    BY <2>1, SeqWiden
<1>13. QED
  BY <1>7, <1>9, <1>10, <1>11, <1>12 DEF id

\* Its recorder has it last.
LEMMA RecordedHead ==
  ASSUME Grounded, Grounded', WholeInv, agent = "recorded", Record(InChain(said + 1)), UNCHANGED <<session, misled>>
  PROVE  HeadInv' /\ HasRecorder /\ HasRecorder'
<1>1. HasRecorder /\ recorder.session = session /\ session # 0
  BY DEF Grounded, GroundInv, RoleInv, HasRecorder
<1>2. recorder'.session = session
  BY <1>1 DEF Record, Grounded, TranscriptInv, TypeInv, PlaceType
<1>3. Fine(recorder.session)' => Fine(session)'
  BY <1>2 DEF Fine
<1>4. HeadInv'
  BY <1>2, <1>3, RecordedIs DEF HeadInv
<1>5. QED
  BY <1>1, <1>2, <1>4 DEF HasRecorder

\* A message more on screen.
LEMMA SaidIs ==
  ASSUME Grounded, chat' = Append(chat, InChat(said + 1))
  PROVE  /\ Distinct(chat) => Distinct(chat')
         /\ Len(chat') = Len(chat) + 1 /\ Len(chat) \in Nat /\ chat'[Len(chat) + 1] = InChat(said + 1)
         /\ \A i \in 1 .. Len(chat) : chat'[i] = chat[i]
         /\ chat' # <<>> /\ chat' \in Seq(Nat)
         /\ \A k \in 0 .. Len(chat) : SubSeq(chat', 1, k) = SubSeq(chat, 1, k)
<1> DEFINE x == InChat(said + 1)
           d == Append(chat, x)
<1>1. x \in Nat /\ chat \in Seq(Nat) /\ Len(chat) \in Nat /\ \A i \in 1 .. Len(chat) : chat[i] # x
  BY NextSaid
<1> HIDE DEF x
<1>2. d \in Seq(Nat) /\ Len(d) = Len(chat) + 1 /\ d[Len(chat) + 1] = x /\ d # <<>> /\ \A i \in 1 .. Len(chat) : d[i] = chat[i]
  BY <1>1, AppendedSeq
<1> HIDE DEF d
<1>3. ASSUME Distinct(chat) PROVE Distinct(d)
  <2> SUFFICES ASSUME NEW i \in 1 .. Len(d), NEW j \in 1 .. Len(d), d[i] = d[j] PROVE i = j
    BY DEF Distinct
  <2>1. (i \in 1 .. Len(chat) \/ i = Len(chat) + 1) /\ (j \in 1 .. Len(chat) \/ j = Len(chat) + 1)
    BY <1>1, <1>2
  <2>2. QED
    BY <1>1, <1>2, <1>3, <2>1 DEF Distinct
<1>4. ASSUME NEW k \in 0 .. Len(chat) PROVE SubSeq(d, 1, k) = SubSeq(chat, 1, k)
  <2> DEFINE p == SubSeq(d, 1, k)
             q == SubSeq(chat, 1, k)
  <2>1. k \in Nat /\ k <= Len(chat) /\ k <= Len(d)
    BY <1>1, <1>2
  <2>2. q \in Seq(Nat) /\ Len(q) = k /\ \A i \in 1 .. k : q[i] = chat[i]
    BY <1>1, <2>1
  <2>3. p \in Seq(Nat) /\ Len(p) = k /\ \A i \in 1 .. k : p[i] = d[i]
    BY <1>2, <2>1
  <2> HIDE DEF p, q
  <2>4. Len(p) = Len(q) /\ \A i \in 1 .. Len(p) : p[i] = q[i]
    <3>1. \A i \in 1 .. k : i \in 1 .. Len(chat)
      BY <1>1, <2>1
    <3>2. \A i \in 1 .. k : p[i] = q[i]
      BY <1>2, <2>2, <2>3, <3>1
    <3>3. QED
      BY <2>2, <2>3, <3>2
  <2>5. p = q
    BY <2>2, <2>3, <2>4, SameElements
  <2>6. QED
    BY <2>5 DEF p, q
<1>5. chat' = d
  BY DEF d, x
<1>6. QED
  BY <1>1, <1>2, <1>3, <1>4, <1>5 DEF x

\* The recorder writes it: the file shows the screen still.
LEMMA SayRecorded ==
  ASSUME Grounded, Grounded', WholeInv, Say, agent = "recorded"
  PROVE  WholeInv'
<1> DEFINE f == file[session]
           g == file'[session]
           id == InChain(said + 1)
<1>1. /\ chat' = Append(chat, InChat(said + 1)) /\ marking = 0 /\ UNCHANGED <<session, agent, marking, saving, misled>>
      /\ Record(InChain(said + 1))
  BY DEF Say, Quiet, hist
<1>2. HeadInv' /\ HasRecorder /\ HasRecorder' /\ session # 0
  BY <1>1, RecordedHead DEF HasRecorder
<1>3. SummaryInv'
  BY <1>1 DEF SummaryInv
<1>4. CASE ~Fine(session)'
  BY <1>1, <1>2, <1>3, <1>4 DEF WholeInv, CopyInv, ScreenInv, HeldInv, MirrorInv
<1>5. CASE Fine(session)'
  <2>1. /\ Fine(session) /\ Ids(g) = Ids(f) \cup {id} /\ \A c : IsPath(f, c) => IsPath(g, c)
        /\ Projected(g) = Append(Projected(f), id) /\ Projected(f) \in Seq(Nat)
    BY <1>1, <1>5, RecordedIs
  <2>2. CopyInv'
    BY <1>1, <1>2, <2>1 DEF WholeInv, CopyInv, Copying
  <2>3. ScreenInv'
    BY <1>1, <2>1, SaidIs DEF WholeInv, ScreenInv
  <2>4. HeldInv'
    <3>1. PICK k \in 0 .. Len(chat) : HeldTo(f, chat, k)
      BY <2>1 DEF WholeInv, HeldInv
    <3>2. k = 0 \/ IsPath(g, SubSeq(chat', 1, k))
      <4>1. SubSeq(chat', 1, k) = SubSeq(chat, 1, k)
        BY <1>1, SaidIs
      <4>2. QED
        BY <2>1, <3>1, <4>1 DEF HeldTo
    <3>3. ASSUME NEW i \in k + 1 .. Len(chat') PROVE chat'[i] \notin Ids(g)
      <4>1. Len(chat') = Len(chat) + 1 /\ Len(chat) \in Nat
        BY <1>1, SaidIs
      <4>2. CASE i \in k + 1 .. Len(chat)
        <5>1. i \in 1 .. Len(chat)
          BY <4>1, <4>2
        <5>2. chat'[i] = chat[i] /\ chat[i] # id
          BY <1>1, <5>1, SaidIs, NextSaid
        <5>3. QED
          BY <2>1, <3>1, <4>2, <5>2 DEF HeldTo
      <4>3. CASE i = Len(chat) + 1
        <5>1. session \in Sessions
          BY <2>1 DEF Fine
        <5>2. chat'[i] = InChat(said + 1) /\ InChat(said + 1) # id /\ InChat(said + 1) \notin Ids(f)
          BY <1>1, <4>3, <5>1, SaidIs, NextSaid
        <5>3. QED
          BY <2>1, <5>2
      <4>4. QED
        BY <4>1, <4>2, <4>3
    <3>4. k \in 0 .. Len(chat')
      BY <1>1, SaidIs
    <3>5. HeldTo(g, chat', k)
      BY <3>2, <3>3 DEF HeldTo
    <3>6. QED
      BY <1>1, <3>4, <3>5 DEF HeldInv
  <2>5. MirrorInv'
    <3>1. Texts(Projected(f)) = Texts(chat)
      BY <1>1, <1>2, <2>1 DEF WholeInv, MirrorInv, Mirrors
    <3>2. Texts(Append(Projected(f), id)) = Texts(Append(chat, InChat(said + 1)))
      BY <2>1, <3>1, NextSaid, TextsGoOn
    <3>3. Mirrors'
      BY <1>1, <2>1, <3>2 DEF Mirrors
    <3>4. QED
      BY <1>1, <1>2, <3>3 DEF MirrorInv
  <2>6. QED
    BY <1>2, <1>3, <2>2, <2>3, <2>4, <2>5 DEF WholeInv
<1>6. QED
  BY <1>4, <1>5

\* An agent without a recorder speaks: the cached leaf lags behind.
LEMMA Unrecorded ==
  ASSUME Grounded, Grounded', WholeInv, Quiet, agent = "unrecorded", UNCHANGED <<file, cache, recorder, session, misled, agent>>
  PROVE  /\ HeadInv' /\ marking = 0 /\ ~HasRecorder /\ ~HasRecorder'
         /\ Fine(session)' => Fine(session) /\ Lagging(session) /\ Lagging(session)'
<1>1. ~HasRecorder /\ ~HasRecorder'
  BY DEF Grounded, GroundInv, RoleInv, HasRecorder
<1>2. HeadInv'
  BY SameFiles, HeadStays DEF WholeInv
<1>3. ASSUME Fine(session)' PROVE Fine(session) /\ Lagging(session) /\ Lagging(session)'
  <2>1. Fine(session)
    BY <1>3 DEF Fine
  <2>2. Lagging(session)
    BY <2>1 DEF WholeInv, MirrorInv, Behind, Starting, Quiet
  <2>3. QED
    BY <2>1, <2>2 DEF Lagging
<1>4. QED
  BY <1>1, <1>2, <1>3 DEF Quiet

LEMMA SayUnrecorded ==
  ASSUME Grounded, Grounded', WholeInv, Say, agent # "recorded"
  PROVE  WholeInv'
<1>1. /\ chat' = Append(chat, InChat(said + 1)) /\ UNCHANGED <<session, agent, marking, saving, misled, file, cache, recorder>>
      /\ Quiet /\ agent = "unrecorded"
  <2>1. agent \in {"none", "recorded", "unrecorded"}
    BY DEF Grounded, GroundInv, RoleInv
  <2>2. QED
    BY <2>1 DEF Say, hist
<1>2. /\ HeadInv' /\ marking = 0 /\ ~HasRecorder /\ ~HasRecorder'
      /\ Fine(session)' => Fine(session) /\ Lagging(session) /\ Lagging(session)'
  BY <1>1, Unrecorded
<1>3. SummaryInv'
  BY <1>1, <1>2 DEF SummaryInv
<1>4. ScreenInv'
  <2>1. session' = 0 \/ Fine(session)' => Distinct(chat)
    BY <1>1, <1>2 DEF WholeInv, ScreenInv
  <2>2. QED
    BY <1>1, <2>1, SaidIs DEF ScreenInv
<1>5. CASE ~Fine(session)'
  BY <1>2, <1>3, <1>4, <1>5 DEF WholeInv, CopyInv, HeldInv, MirrorInv
<1>6. CASE Fine(session)'
  <2> DEFINE f == file[session]
             x == InChat(said + 1)
  <2>1. Fine(session) /\ Lagging(session)' /\ session \in Sessions
    BY <1>2, <1>6 DEF Fine
  <2>2. x \notin Ids(f) /\ \A i \in 1 .. Len(saving.chat) : saving.chat[i] # x
    BY <2>1, NextSaid
  <2>3. /\ Len(chat') = Len(chat) + 1 /\ Len(chat) \in Nat /\ chat'[Len(chat) + 1] = x /\ chat' # <<>>
        /\ \A i \in 1 .. Len(chat) : chat'[i] = chat[i]
        /\ \A k \in 0 .. Len(chat) : SubSeq(chat', 1, k) = SubSeq(chat, 1, k)
    BY <1>1, SaidIs
  <2> HIDE DEF x
  <2>4. CopyInv'
    <3> SUFFICES ASSUME Copying
                 PROVE  \/ Begins(saving.chat, chat')
                        \/ Apart(saving.chat, chat') /\ chat'[1] \notin Ids(f)
      BY <1>1, <1>2, <2>1, <2>3 DEF CopyInv, Copying
    <3>1. CASE Begins(saving.chat, chat)
      <4>1. Len(saving.chat) \in Nat
        BY DEF Grounded, TranscriptInv, TypeInv, SavingType
      <4>2. QED
        BY <2>3, <3>1, <4>1 DEF Begins
    <3>2. CASE Apart(saving.chat, chat) /\ chat # <<>> /\ chat[1] \notin Ids(f)
      <4>1. 1 \in 1 .. Len(chat)
        BY <3>2, PlacesAre DEF Grounded
      <4>2. chat'[1] \notin Ids(f)
        BY <2>3, <3>2, <4>1
      <4>3. Apart(saving.chat, chat')
        <5> SUFFICES ASSUME NEW i \in 1 .. Len(saving.chat), NEW j \in 1 .. Len(chat') PROVE saving.chat[i] # chat'[j]
          BY DEF Apart
        <5>1. j \in 1 .. Len(chat) \/ j = Len(chat) + 1
          BY <2>3
        <5>2. QED
          BY <2>2, <2>3, <3>2, <5>1 DEF Apart
      <4>4. QED
        BY <4>2, <4>3
    <3>3. QED
      BY <2>1, <3>1, <3>2 DEF WholeInv, CopyInv
  <2>5. HeldInv'
    <3>1. PICK k \in 0 .. Len(chat) : HeldTo(f, chat, k)
      BY <2>1 DEF WholeInv, HeldInv
    <3>2. k = 0 \/ IsPath(f, SubSeq(chat', 1, k))
      BY <2>3, <3>1 DEF HeldTo
    <3>3. ASSUME NEW i \in k + 1 .. Len(chat') PROVE chat'[i] \notin Ids(f)
      <4>1. i \in k + 1 .. Len(chat) \/ i = Len(chat) + 1
        BY <2>3
      <4>2. i \in k + 1 .. Len(chat) => i \in 1 .. Len(chat)
        BY <2>3
      <4>3. QED
        BY <2>2, <2>3, <3>1, <4>1, <4>2 DEF HeldTo
    <3>4. k \in 0 .. Len(chat')
      BY <2>3
    <3>5. HeldTo(f, chat', k)
      BY <3>2, <3>3 DEF HeldTo
    <3>6. QED
      BY <1>1, <3>4, <3>5 DEF HeldInv
  <2>6. MirrorInv'
    <3>1. Len(chat) + 1 \in 1 .. Len(chat')
      BY <2>3
    <3>2. Missing'
      BY <1>1, <2>2, <2>3, <3>1 DEF Missing
    <3>3. QED
      BY <1>2, <2>1, <3>2 DEF MirrorInv, Behind
  <2>7. QED
    BY <1>2, <1>3, <1>4, <2>4, <2>5, <2>6 DEF WholeInv
<1>7. QED
  BY <1>5, <1>6

\* A summary takes the screen, and its boundary has to follow.
LEMMA CompactRecorded ==
  ASSUME Grounded, Grounded', WholeInv, Compact, agent = "recorded"
  PROVE  WholeInv'
<1> DEFINE x == InChat(said + 1)
           y == InChain(said + 1)
<1>1. /\ chat' = <<x>> /\ marking' = y /\ UNCHANGED <<session, agent, saving, misled>>
      /\ Record(InChain(said + 1))
  BY DEF Compact, hist
<1>2. HeadInv' /\ HasRecorder /\ HasRecorder' /\ session # 0
  BY <1>1, RecordedHead DEF HasRecorder
<1>3. y # 0 /\ x # y /\ Text(x) = Text(y) /\ \A s \in Sessions : x \notin Ids(file[s])
  BY NextSaid
<1>4. Fine(session)' => Fine(session) /\ x \notin Ids(file'[session])
  <2> SUFFICES ASSUME Fine(session)' PROVE Fine(session) /\ x \notin Ids(file'[session])
    OBVIOUS
  <2>1. Fine(session) /\ Ids(file'[session]) = Ids(file[session]) \cup {y}
    BY <1>1, RecordedIs
  <2>2. x \notin Ids(file[session])
    BY <1>3, <2>1 DEF Fine
  <2>3. QED
    BY <1>3, <2>1, <2>2
<1> HIDE DEF x, y
<1>5. Len(chat') = 1 /\ chat'[1] = x /\ \A i \in 1 .. Len(chat') : i = 1
  BY <1>1
<1>6. SummaryInv'
  BY <1>1, <1>3, <1>4, <1>5 DEF SummaryInv
<1>7. CopyInv'
  BY <1>1, <1>2, <1>4 DEF WholeInv, CopyInv, Copying
<1>8. ScreenInv'
  BY <1>5 DEF ScreenInv, Distinct
<1>9. HeldInv'
  <2>1. ASSUME Fine(session)' PROVE HeldTo(file'[session], chat', 0)
    BY <1>4, <1>5, <2>1 DEF HeldTo
  <2>2. 0 \in 0 .. Len(chat')
    BY <1>5
  <2>3. QED
    BY <1>1, <2>1, <2>2 DEF HeldInv
<1>10. MirrorInv'
  BY <1>1, <1>2, <1>3 DEF MirrorInv, Grounded, GroundInv, RoleInv
<1>11. QED
  BY <1>2, <1>6, <1>7, <1>8, <1>9, <1>10 DEF WholeInv

LEMMA CompactUnrecorded ==
  ASSUME Grounded, Grounded', WholeInv, Compact, agent # "recorded"
  PROVE  WholeInv'
<1> DEFINE x == InChat(said + 1)
<1>1. /\ chat' = <<x>> /\ UNCHANGED <<session, agent, marking, saving, misled, file, cache, recorder>>
      /\ Quiet /\ agent = "unrecorded"
  <2>1. agent \in {"none", "recorded", "unrecorded"}
    BY DEF Grounded, GroundInv, RoleInv
  <2>2. QED
    BY <2>1 DEF Compact, hist
<1>2. /\ HeadInv' /\ marking = 0 /\ ~HasRecorder /\ ~HasRecorder'
      /\ Fine(session)' => Fine(session) /\ Lagging(session) /\ Lagging(session)'
  BY <1>1, Unrecorded
<1>3. (\A s \in Sessions : x \notin Ids(file[s])) /\ \A i \in 1 .. Len(saving.chat) : saving.chat[i] # x
  BY NextSaid
<1> HIDE DEF x
<1>4. Len(chat') = 1 /\ chat'[1] = x /\ chat' # <<>> /\ \A i \in 1 .. Len(chat') : i = 1
  BY <1>1
<1>5. Fine(session)' => x \notin Ids(file'[session])
  BY <1>1, <1>3 DEF Fine
<1>6. SummaryInv'
  BY <1>1, <1>2 DEF SummaryInv
<1>7. CopyInv'
  <2>1. Apart(saving.chat, chat')
    BY <1>3, <1>4 DEF Apart
  <2>2. QED
    BY <1>1, <1>2, <1>4, <1>5, <2>1 DEF CopyInv
<1>8. ScreenInv'
  BY <1>4 DEF ScreenInv, Distinct
<1>9. HeldInv'
  <2>1. ASSUME Fine(session)' PROVE HeldTo(file'[session], chat', 0)
    BY <1>4, <1>5, <2>1 DEF HeldTo
  <2>2. 0 \in 0 .. Len(chat')
    BY <1>4
  <2>3. QED
    BY <1>1, <2>1, <2>2 DEF HeldInv
<1>10. MirrorInv'
  <2>1. 1 \in 1 .. Len(chat')
    BY <1>4
  <2>2. Fine(session)' => Missing'
    BY <1>1, <1>4, <1>5, <2>1 DEF Missing
  <2>3. QED
    BY <1>2, <2>2 DEF MirrorInv, Behind
<1>11. QED
  BY <1>2, <1>6, <1>7, <1>8, <1>9, <1>10 DEF WholeInv

\* The boundary is written: the file is read back from the summary on.
LEMMA MarkWhole ==
  ASSUME Grounded, Grounded', WholeInv, Mark
  PROVE  WholeInv'
<1> DEFINE f == file[session]
           g == file'[session]
           line == Line("boundary", marking, 0)
<1>1. /\ Write(recorder.session, line) /\ marking # 0 /\ marking' = 0
      /\ UNCHANGED <<cache, session, chat, agent, recorder, saving, misled>>
  BY DEF Mark, hist
<1>2. agent = "recorded" /\ recorder.last = marking /\ HasRecorder /\ HasRecorder'
      /\ recorder.session = session /\ session # 0
  BY <1>1 DEF Grounded, GroundInv, RoleInv, HasRecorder
<1>3. session \in Sessions /\ marking \in Nat
  BY <1>2, PlacesAre DEF Grounded
<1>4. line \in Lines /\ ~IsMessage(line) /\ line.id = marking /\ line.kind = "boundary"
  BY <1>3, LinesAre DEF Line
<1> HIDE DEF line
<1>5. Grows(session, line)
  BY <1>1, <1>2, <1>3, <1>4, FilesAre, WriteGrows DEF Grounded
<1>6. ASSUME Fine(session)'
      PROVE  /\ Fine(session) /\ Ids(g) = Ids(f) /\ LastId(g) = LastId(f) /\ LastId(f) = marking
             /\ Projected(g) = <<marking>>
  <2>1. Intact(g) /\ session \notin misled
    BY <1>1, <1>6 DEF Fine
  <2>2. Longer(f, g, line) /\ Intact(f) /\ Good(f) /\ Good(g) /\ f \in Seq(Lines) /\ g \in Seq(Lines)
    BY <1>3, <1>4, <1>5, <2>1, GrowsFine
  <2>3. Fine(session)
    BY <1>3, <2>1, <2>2 DEF Fine
  <2>4. LastId(f) = marking
    BY <1>2, <2>3 DEF WholeInv, HeadInv
  <2>5. marking \in Ids(f)
    BY <1>1, <2>2, <2>4, LastIdIs
  <2> HIDE DEF f, g
  <2>6. Ids(g) = Ids(f) /\ LastId(g) = LastId(f) /\ IsPath(g, <<marking>>)
    BY <1>4, <2>2, <2>5, LongerBoundary
  <2> DEFINE c == <<marking>>
  <2>7. IsPath(g, c) /\ Len(c) = 1 /\ c[Len(c)] = marking
    BY <2>6
  <2> HIDE DEF c
  <2>8. Projected(g) = c
    BY <2>2, <2>4, <2>6, <2>7, PathIsRead
  <2>9. QED
    BY <2>3, <2>4, <2>6, <2>8 DEF c
<1>7. HeadInv'
  <2>1. Fine(recorder.session)' => Fine(session)'
    BY <1>1, <1>2 DEF Fine
  <2>2. QED
    BY <1>1, <1>2, <1>6, <2>1 DEF HeadInv
<1>8. SummaryInv'
  BY <1>1 DEF SummaryInv
<1>9. CASE ~Fine(session)'
  BY <1>1, <1>2, <1>7, <1>8, <1>9 DEF WholeInv, CopyInv, ScreenInv, HeldInv, MirrorInv
<1>10. CASE Fine(session)'
  <2>1. Len(chat) = 1 /\ Text(chat[1]) = Text(marking) /\ chat[1] \notin Ids(g)
    BY <1>1, <1>6, <1>10 DEF WholeInv, SummaryInv
  <2>2. CopyInv'
    BY <1>1, <1>2, <1>6, <1>10 DEF WholeInv, CopyInv, Copying
  <2>3. ScreenInv'
    BY <1>1, <1>6, <1>10 DEF WholeInv, ScreenInv
  <2>4. HeldInv'
    <3>1. \A i \in 0 + 1 .. Len(chat) : chat[i] \notin Ids(g)
      BY <2>1
    <3>2. HeldTo(g, chat, 0)
      BY <3>1 DEF HeldTo
    <3>3. 0 \in 0 .. Len(chat)
      BY <2>1
    <3>4. QED
      BY <1>1, <3>2, <3>3 DEF HeldInv
  <2>5. MirrorInv'
    <3>1. chat \in Seq(Nat)
      BY NextSaid
    <3> DEFINE c == <<marking>>
    <3>2. c \in Seq(Nat) /\ Len(c) = 1 /\ c[1] = marking /\ \A i \in 1 .. Len(c) : i = 1
      BY <1>3
    <3> HIDE DEF c
    <3>3. Texts(c) = Texts(chat)
      BY <2>1, <3>1, <3>2, TextsAre
    <3>4. Mirrors'
      BY <1>1, <1>6, <1>10, <3>3 DEF Mirrors, c
    <3>5. QED
      BY <1>1, <1>2, <3>4 DEF MirrorInv
  <2>6. QED
    BY <1>7, <1>8, <2>2, <2>3, <2>4, <2>5 DEF WholeInv
<1>11. QED
  BY <1>9, <1>10

\* What the next message of a Save is, in a file that stays intact: the one
\* that file knows all of up to it.
LEMMA CopiedNext ==
  ASSUME Grounded, Grounded', WholeInv, SaveMessage, Fine(session)'
  PROVE  LET f == file[session]
             g == file'[session]
             x == saving.chat[First]
         IN  /\ Fine(session) /\ Good(f) /\ Good(g) /\ ~HasRecorder /\ Copying
             /\ x \notin Ids(f) /\ x # 0 /\ Ids(g) = Ids(f) \cup {x} /\ LastId(g) = x
             /\ Boundary(g) = Boundary(f) /\ Follows(g, x, IF First = 1 THEN 0 ELSE saving.chat[First - 1])
             /\ \A c : IsPath(f, c) => IsPath(g, c)
             /\ \A k \in 1 .. Len(saving.chat) : k < First => saving.chat[k] \in Ids(f)
             /\ First \in 1 .. Len(saving.chat) /\ First \in Nat /\ Len(saving.chat) \in Nat
             /\ Lagging(session)'
<1> DEFINE f == file[session]
           g == file'[session]
           x == saving.chat[First]
<1>1. /\ saving.of \in Sessions /\ saving.of = session /\ Len(saving.chat) \in Nat
      /\ First \in 1 .. Len(saving.chat) /\ First \in Nat
      /\ x # 0 /\ x \notin Warm(session).seen
      /\ \A k \in 1 .. Len(saving.chat) : k < First => saving.chat[k] \in Warm(session).seen
      /\ Copied \in Lines /\ IsMessage(Copied) /\ Copied.id = x
      /\ Copied.parent = (IF First = 1 THEN 0 ELSE saving.chat[First - 1])
      /\ Warmed(session) /\ Grows(session, Copied)
  BY CopiedIs DEF Grounded
<1>2. session \in Sessions /\ UNCHANGED <<session, misled>> /\ writing = Nothing /\ Unsaved # {} /\ saving.stage = "messages"
  BY <1>1 DEF SaveMessage, hist
<1>3. Intact(g) /\ session \notin misled
  BY <1>2 DEF Fine
<1>4. Longer(f, g, Copied) /\ Intact(f) /\ Good(f) /\ Good(g) /\ f \in Seq(Lines) /\ g \in Seq(Lines)
  BY <1>1, <1>2, <1>3, GrowsFine
<1>5. Fine(session)
  BY <1>2, <1>3, <1>4 DEF Fine
<1>6. Warm(session).seen \subseteq Ids(f) /\ Warm(session).leaf \in Ids(f) \cup {0}
  BY <1>2, <1>4, FilesAre, WarmLeaf DEF Grounded, GroundInv
<1>7. x \notin Ids(f)
  <2>1. Ids(f) \subseteq Warm(session).seen \cup Pending(session)
    BY <1>2, WarmIs DEF Grounded, TranscriptInv, LineInv
  <2>2. Pending(session) = {}
    BY <1>2 DEF Pending
  <2>3. QED
    BY <1>1, <2>1, <2>2
<1>8. /\ Ids(g) = Ids(f) \cup {x} /\ LastId(g) = x /\ Boundary(g) = Boundary(f)
      /\ Follows(g, x, Copied.parent) /\ \A c : IsPath(f, c) => IsPath(g, c)
  BY <1>1, <1>4, LongerMessage
<1>9. Copying
  BY <1>2 DEF Copying, Unsaved
<1>10. ~HasRecorder
  BY <1>5, <1>9 DEF WholeInv, CopyInv
<1>11. \A k \in 1 .. Len(saving.chat) : k < First => saving.chat[k] \in Ids(f)
  BY <1>1, <1>6
<1>12. Lagging(session)'
  <2>1. cache'[session] = Warm(session) /\ Warm(session).warmed
    BY <1>1, <1>2, WarmedIs, WarmIs DEF Grounded, TranscriptInv, LineInv
  <2>2. Warm(session).leaf # x
    BY <1>1, <1>6, <1>7
  <2>3. QED
    BY <1>2, <1>8, <2>1, <2>2 DEF Lagging
<1>13. QED
  BY <1>1, <1>4, <1>5, <1>7, <1>8, <1>9, <1>10, <1>11, <1>12

\* The chain of the conversation goes on with the message copied.
LEMMA CopiedGoesOn ==
  ASSUME NEW f, Good(f), NEW g, Good(g), NEW c \in Seq(Nat), NEW i \in 1 .. Len(c), NEW k \in 0 .. Len(c), HeldTo(f, c, k),
         Distinct(c), c[i] \notin Ids(f), \A j \in 1 .. i - 1 : c[j] \in Ids(f),
         Ids(g) = Ids(f) \cup {c[i]}, Boundary(g) = Boundary(f), Follows(g, c[i], IF i = 1 THEN 0 ELSE c[i - 1]),
         \A p : IsPath(f, p) => IsPath(g, p)
  PROVE  i = k + 1 /\ HeldTo(g, c, i)
<1>1. Len(c) \in Nat /\ k \in Nat /\ i \in Nat /\ f \in Seq(Lines) /\ g \in Seq(Lines) /\ c[i] \in Nat
  BY DEF Good
<1> DEFINE p == SubSeq(c, 1, k)
           x == c[i]
<1>2. p \in Seq(Nat) /\ Len(p) = k /\ \A j \in 1 .. k : p[j] = c[j]
  BY <1>1
<1> HIDE DEF p
<1>3. k # 0 => IsPath(f, p) /\ p \in Seq(Ids(f))
  BY DEF HeldTo, p, IsPath, Chains
<1>4. \A j \in 1 .. k : c[j] \in Ids(f)
  <2> SUFFICES ASSUME NEW j \in 1 .. k PROVE c[j] \in Ids(f)
    OBVIOUS
  <2>1. k # 0 /\ j \in 1 .. Len(p) /\ c[j] = p[j]
    BY <1>1, <1>2
  <2>2. p \in Seq(Ids(f))
    BY <1>3, <2>1
  <2>3. QED
    BY <2>1, <2>2
<1>5. i = k + 1
  <2>1. ~(i <= k)
    <3>1. i <= k => i \in 1 .. k
      BY <1>1
    <3>2. QED
      BY <1>4, <3>1
  <2>2. ~(i > k + 1)
    <3> SUFFICES ASSUME i > k + 1 PROVE FALSE
      OBVIOUS
    <3>1. k + 1 \in 1 .. i - 1 /\ k + 1 \in k + 1 .. Len(c)
      BY <1>1
    <3>2. c[k + 1] \in Ids(f) /\ c[k + 1] \notin Ids(f)
      BY <3>1 DEF HeldTo
    <3>3. QED
      BY <3>2
  <2>3. QED
    BY <1>1, <2>1, <2>2
<1>6. IsPath(g, SubSeq(c, 1, i))
  <2> DEFINE q == SubSeq(c, 1, i)
  <2>1. q \in Seq(Nat) /\ Len(q) = i /\ \A j \in 1 .. i : q[j] = c[j]
    BY <1>1
  <2> HIDE DEF q
  <2>2. x \in Ids(g) /\ x \in Nat
    BY <1>1
  <2>3. CASE k = 0
    <3> DEFINE d == <<x>>
    <3>1. i = 1 /\ d \in Seq(Nat) /\ Len(d) = 1 /\ d[1] = x
      BY <1>5, <2>2, <2>3
    <3>2. IsPath(g, d)
      BY <1>1, <2>2, <3>1, OneIsPath
    <3> HIDE DEF d
    <3>3. Len(d) = Len(q) /\ \A j \in 1 .. Len(d) : d[j] = q[j]
      BY <2>1, <3>1
    <3>4. d = q
      BY <2>1, <3>1, <3>3, SameElements
    <3>5. QED
      BY <3>2, <3>4 DEF q
  <2>4. CASE k # 0
    <3>1. IsPath(f, p) /\ IsPath(g, p) /\ p \in Seq(Ids(f))
      BY <1>3, <2>4
    <3>2. \A j \in 1 .. Len(p) : p[j] # x
      BY <3>1
    <3>3. i # 1 /\ i - 1 = k /\ p[Len(p)] = c[i - 1] /\ Follows(g, x, p[Len(p)])
      BY <1>1, <1>2, <1>5, <2>4
    <3>4. x # Boundary(g)
      <4>1. Boundary(f) = 0 \/ Boundary(f) \in Ids(f)
        BY <1>1, BoundaryIs
      <4>2. 0 \notin Ids(g)
        BY <1>1, IdsNotZero DEF Good
      <4>3. QED
        BY <2>2, <4>1, <4>2
    <3> DEFINE d == Append(p, x)
    <3>5. IsPath(g, d)
      BY <2>2, <3>1, <3>2, <3>3, <3>4, PathGoesOn
    <3>6. d \in Seq(Nat) /\ Len(d) = k + 1 /\ d[k + 1] = x /\ \A j \in 1 .. k : d[j] = p[j]
      BY <1>2, <2>2, AppendedSeq
    <3> HIDE DEF d
    <3>7. Len(d) = Len(q) /\ \A j \in 1 .. Len(d) : d[j] = q[j]
      <4>1. \A j \in 1 .. k + 1 : j \in 1 .. k \/ j = k + 1
        BY <1>1
      <4>2. QED
        BY <1>1, <1>2, <1>5, <2>1, <3>6, <4>1
    <3>8. d = q
      BY <2>1, <3>6, <3>7, SameElements
    <3>9. QED
      BY <3>5, <3>8 DEF q
  <2>5. QED
    BY <2>3, <2>4
<1>7. ASSUME NEW j \in i + 1 .. Len(c) PROVE c[j] \notin Ids(g)
  <2>1. j \in k + 1 .. Len(c) /\ j \in 1 .. Len(c) /\ j # i
    BY <1>1, <1>5
  <2>2. c[j] \notin Ids(f)
    BY <2>1 DEF HeldTo
  <2>3. c[j] # c[i]
    BY <2>1 DEF Distinct
  <2>4. QED
    BY <2>2, <2>3
<1>8. QED
  BY <1>5, <1>6, <1>7 DEF HeldTo

\* A Save copies a message: the conversation is read back when it was the last.
LEMMA SaveMessageWhole ==
  ASSUME Grounded, Grounded', WholeInv, SaveMessage
  PROVE  WholeInv'
<1>1. /\ UNCHANGED <<session, chat, agent, recorder, marking, saving, misled>>
      /\ session \in Sessions /\ Grows(session, Copied)
  BY CopiedIs DEF SaveMessage, hist, Grounded
<1>2. CASE ~Fine(session)'
  <2>1. HeadInv'
    <3> SUFFICES ASSUME Fine(recorder.session)' PROVE recorder.last = LastId(file'[recorder.session])
      BY <1>1 DEF HeadInv
    <3>1. recorder.session # session
      BY <1>1, <1>2 DEF Fine
    <3>2. recorder.session \in Sessions /\ file'[recorder.session] = file[recorder.session]
      BY <1>1, <3>1 DEF Fine, Grows
    <3>3. QED
      BY <1>1, <3>2 DEF WholeInv, HeadInv, Fine
  <2>2. session # 0
    BY <1>1 DEF Sessions
  <2>3. QED
    BY <1>1, <1>2, <2>1, <2>2 DEF WholeInv, SummaryInv, CopyInv, ScreenInv, HeldInv, MirrorInv
<1>3. CASE Fine(session)'
  <2> DEFINE f == file[session]
             g == file'[session]
             i == First
             sc == saving.chat
             x == sc[i]
  <2>1. /\ Fine(session) /\ Good(f) /\ Good(g) /\ ~HasRecorder /\ Copying
        /\ x \notin Ids(f) /\ x # 0 /\ Ids(g) = Ids(f) \cup {x} /\ LastId(g) = x
        /\ Boundary(g) = Boundary(f) /\ Follows(g, x, IF i = 1 THEN 0 ELSE sc[i - 1])
        /\ \A c : IsPath(f, c) => IsPath(g, c)
        /\ \A k \in 1 .. Len(sc) : k < i => sc[k] \in Ids(f)
        /\ i \in 1 .. Len(sc) /\ i \in Nat /\ Len(sc) \in Nat
        /\ Lagging(session)'
    BY <1>3, CopiedNext
  <2> HIDE DEF f, g, i, sc
  <2>2. session # 0 /\ HasRecorder' = HasRecorder /\ Behind' /\ recorder.session # session
    <3>1. HasRecorder' = HasRecorder /\ session # 0
      BY <1>1 DEF HasRecorder, Sessions
    <3>2. QED
      BY <2>1, <3>1 DEF HasRecorder, Behind
  <2>3. HeadInv'
    <3> SUFFICES ASSUME Fine(recorder.session)' PROVE recorder.last = LastId(file'[recorder.session])
      BY <1>1 DEF HeadInv
    <3>1. recorder.session \in Sessions /\ file'[recorder.session] = file[recorder.session]
      BY <1>1, <2>2 DEF Fine, Grows
    <3>2. QED
      BY <1>1, <3>1 DEF WholeInv, HeadInv, Fine
  <2>4. marking = 0
    BY <2>1, <2>2 DEF Grounded, GroundInv, RoleInv
  <2>5. SummaryInv'
    BY <1>1, <2>4 DEF SummaryInv
  <2>6. Distinct(chat) /\ ScreenInv' /\ chat \in Seq(Nat) /\ Len(chat) \in Nat
    BY <1>1, <2>1, NextSaid DEF WholeInv, ScreenInv
  <2>7. PICK k \in 0 .. Len(chat) : HeldTo(f, chat, k)
    BY <2>1 DEF WholeInv, HeldInv, f
  <2>8. \/ Begins(sc, chat)
        \/ Apart(sc, chat) /\ chat # <<>> /\ chat[1] \notin Ids(f)
    BY <2>1 DEF WholeInv, CopyInv, sc, f
  <2>9. CASE Begins(sc, chat)
    <3>1. CopyInv'
      BY <1>1, <2>1, <2>2, <2>9 DEF CopyInv, sc
    <3>2. /\ i \in 1 .. Len(chat) /\ chat[i] = x
          /\ \A j \in 1 .. i - 1 : chat[j] \in Ids(f)
          /\ Follows(g, chat[i], IF i = 1 THEN 0 ELSE chat[i - 1])
      <4>1. i \in 1 .. Len(chat) /\ chat[i] = x
        BY <2>1, <2>6, <2>9 DEF Begins
      <4>2. ASSUME NEW j \in 1 .. i - 1 PROVE chat[j] \in Ids(f) /\ sc[j] = chat[j]
        <5>1. j \in 1 .. Len(sc) /\ j < i
          BY <2>1
        <5>2. sc[j] = chat[j]
          BY <2>9, <5>1 DEF Begins
        <5>3. QED
          BY <2>1, <5>1, <5>2
      <4>3. i # 1 => i - 1 \in 1 .. i - 1
        BY <2>1
      <4>4. i # 1 => sc[i - 1] = chat[i - 1]
        BY <4>2, <4>3
      <4>5. QED
        BY <2>1, <4>1, <4>2, <4>4
    <3>3. i = k + 1 /\ HeldTo(g, chat, i)
      BY <2>1, <2>6, <2>7, <3>2, CopiedGoesOn
    <3>4. HeldInv'
      <4>1. i \in 0 .. Len(chat)
        BY <2>6, <3>2
      <4>2. QED
        BY <1>1, <3>3, <4>1 DEF HeldInv, g
    <3>5. MirrorInv'
      <4>1. CASE i = Len(chat)
        <5>1. IsPath(g, SubSeq(chat, 1, i)) /\ SubSeq(chat, 1, i) = chat
          <6>1. i # 0
            BY <2>1
          <6>2. SubSeq(chat, 1, Len(chat)) = chat
            BY <2>6
          <6>3. QED
            BY <3>3, <4>1, <6>1, <6>2 DEF HeldTo
        <5>2. chat[Len(chat)] = LastId(g)
          BY <2>1, <3>2, <4>1
        <5>3. Projected(g) = chat
          BY <2>1, <5>1, <5>2, PathIsRead
        <5>4. Mirrors'
          BY <1>1, <5>3 DEF Mirrors, g
        <5>5. QED
          BY <1>1, <2>1, <2>2, <5>4 DEF MirrorInv
      <4>2. CASE i # Len(chat)
        <5>1. Len(chat) \in i + 1 .. Len(chat) /\ Len(chat) \in 1 .. Len(chat)
          BY <2>1, <2>6, <3>2, <4>2
        <5>2. chat[Len(chat)] \notin Ids(g)
          BY <3>3, <5>1 DEF HeldTo
        <5>3. Missing'
          BY <1>1, <5>1, <5>2 DEF Missing, g
        <5>4. QED
          BY <1>1, <2>1, <2>2, <5>3 DEF MirrorInv
      <4>3. QED
        BY <4>1, <4>2
    <3>6. QED
      BY <2>3, <2>5, <2>6, <3>1, <3>4, <3>5 DEF WholeInv
  <2>10. CASE Apart(sc, chat) /\ chat # <<>> /\ chat[1] \notin Ids(f)
    <3>1. 1 \in 1 .. Len(chat)
      BY <2>6, <2>10
    <3>2. \A j \in 1 .. Len(chat) : chat[j] # x
      BY <2>1, <2>10 DEF Apart
    <3>3. chat[1] \notin Ids(g)
      BY <2>1, <2>10, <3>1, <3>2
    <3>4. CopyInv'
      BY <1>1, <2>1, <2>2, <2>10, <3>3 DEF CopyInv, sc, g
    <3>5. HeldInv'
      <4>1. HeldTo(g, chat, k)
        <5>1. k = 0 \/ IsPath(g, SubSeq(chat, 1, k))
          BY <2>1, <2>7 DEF HeldTo
        <5>2. ASSUME NEW j \in k + 1 .. Len(chat) PROVE chat[j] \notin Ids(g)
          <6>1. j \in 1 .. Len(chat)
            BY <2>6
          <6>2. chat[j] \notin Ids(f)
            BY <2>7 DEF HeldTo
          <6>3. QED
            BY <2>1, <3>2, <6>1, <6>2
        <5>3. QED
          BY <5>1, <5>2 DEF HeldTo
      <4>2. QED
        BY <1>1, <2>7, <4>1 DEF HeldInv, g
    <3>6. MirrorInv'
      <4>1. Missing'
        BY <1>1, <3>1, <3>3 DEF Missing, g
      <4>2. QED
        BY <1>1, <2>1, <2>2, <4>1 DEF MirrorInv
    <3>7. QED
      BY <2>3, <2>5, <2>6, <3>4, <3>5, <3>6 DEF WholeInv
  <2>11. QED
    BY <2>8, <2>9, <2>10
<1>4. QED
  BY <1>2, <1>3

LEMMA WholeSteps ==
  ASSUME Grounded, Grounded', WholeInv, TranscriptNext
  PROVE  WholeInv'
<1>1. CASE Account \/ Mark \/ Audit \/ Build \/ Stop
  BY <1>1, AccountWhole, MarkWhole, AuditWhole, BuildWhole, StopWhole
<1>2. CASE Say \/ Compact
  BY <1>2, SayRecorded, SayUnrecorded, CompactRecorded, CompactUnrecorded
<1>3. CASE SaveBegin \/ SaveMessage \/ SavePatch \/ SaveFlush
  BY <1>3, SaveBeginWhole, SaveMessageWhole, SavePatchWhole, SaveFlushWhole
<1>4. CASE \E s \in Sessions : Resume(s)
  BY <1>4, ResumeWhole
<1>5. CASE NewSession \/ Fork \/ List
  BY <1>5, NewSessionWhole, ForkWhole, ListWhole
<1>6. CASE Exit \/ MachineCrash
  BY <1>6, ExitWhole, CrashWhole
<1>7. QED
  BY <1>1, <1>2, <1>3, <1>4, <1>5, <1>6 DEF TranscriptNext

\* For any number of sessions, messages, exits and crashes: once all is saved, a
\* later resume of the session shows what the screen shows now, through
\* compactions, forks, restarts and both writers, wherever the recorder was
\* seeded with the file's last message and no crash broke a line.
THEOREM HistoryHolds == TranscriptSpec => []HistoryIsWhole
<1>1. TranscriptInit => WholeInv
  BY WholeStarts
<1>2. Grounded /\ Grounded' /\ WholeInv /\ [TranscriptNext]_transcriptVars => WholeInv'
  BY WholeSteps, WholeStays
<1>3. Grounded /\ WholeInv => HistoryIsWhole
  <2> SUFFICES ASSUME Grounded, WholeInv, session \notin misled, Saved, ~Glued(session)
               PROVE  Texts(Projected(file[session])) = Texts(chat)
    BY DEF HistoryIsWhole, Resumable
  <2>1. session \in Sessions
    BY PlacesAre DEF Saved, Grounded
  <2>2. Intact(file[session])
    <3>1. DOMAIN file[session] = 1 .. Len(file[session])
      BY <2>1, FilesAre DEF Grounded
    <3>2. QED
      BY <3>1 DEF Intact, Glued, ToSet
  <2>3. Fine(session)
    BY <2>1, <2>2 DEF Fine
  <2>4. QED
    BY <2>3, SavedMirrors DEF Mirrors
<1>4. TranscriptSpec => []Grounded
  <2>1. TranscriptInv /\ GroundInv => Grounded
    BY DEF Grounded
  <2>2. QED
    BY <2>1, TranscriptInvariant, ParentsStand, PTL
<1>5. QED
  BY <1>1, <1>2, <1>3, <1>4, PTL DEF TranscriptSpec
=============================================================================
