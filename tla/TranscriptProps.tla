-------------------------- MODULE TranscriptProps --------------------------
(* The properties of Transcript. *)
EXTENDS Transcript

Glued(s) == Broken \in ToSet(file[s])

\* appendRecord's durability classes: a message whose append returned is in
\* its file after any crash, unless it was appended to half a record that an
\* earlier crash left.
SyncedSurvives == \A s \in Sessions : kept[s] \subseteq Ids(file[s]) \/ Glued(s)

\* The two writers, a Save again after a restart and a fork never write one
\* message ID twice: persistedIDs stands in for reading the file each time.
WrittenOnce ==
  \A s \in Sessions : \A i, j \in MessagesAt(file[s]) :
    file[s][i].id = file[s][j].id => i = j

Texts(ids) == [i \in DOMAIN ids |-> Text(ids[i])]

\* What a later resume of the current session shows, once all is saved, is
\* what the screen shows now.
Resumable ==
  Saved /\ ~Glued(session) => Texts(Projected(file[session])) = Texts(chat)

\* That is so through compactions, forks, restarts, crashes and both writers
\* wherever the recorder was seeded with the file's last message.
HistoryIsWhole == session \notin misled => Resumable

\* What the picker of a process that starts now lists: List rebuilds an index it
\* cannot read.
Picker == IF index = Nothing THEN Rebuilt ELSE index

\* Start: the picker "sees the session immediately": from then on no save of the
\* index, by whichever writer and however stale what it had cached, no rebuild and
\* no restart drops it, and a crash that leaves no readable index does not either.
\* Three losses are left out: a crash that leaves an older readable index or takes
\* a fork's file, and a fork after a crash that left none (SeenAfterACrash,
\* LostIndexIsRebuilt); a session whose file a crash made unreadable
\* (CrashLeavesItLoadable).
SessionsListed == \A s \in begun \ unlisted : s \in Picker \/ Glued(s)

-----------------------------------------------------------------------------
(* What the code says of itself and does not keep. *)

\* seedLastMessageID: the first new turn chains off the loaded history
\* "instead of starting a fresh root and orphaning everything before it": a
\* message of the recorder's is a root only where it is the file's first.
NothingIsOrphaned ==
  \A s \in Sessions : \A i \in MessagesAt(file[s]) :
    file[s][i].id = InChain(Text(file[s][i].id)) /\ file[s][i].parent = 0
      => i = Min(MessagesAt(file[s]))

\* Start: its eager index write is for the picker to see the session "even after a
\* crash mid-first-turn": so it is when the process dies; the write is not
\* fsynced, and when the machine does the index may be one of before it.
SeenAfterACrash == \A s \in begun : file[s] # <<>> => s \in Picker \/ Glued(s)

\* upsertIndexEntryLocked: "Rebuild from the transcripts on disk before giving up
\* on them"; refreshIndexLocked, the other way to an entry, writes a lone one.
LostIndexIsRebuilt ==
  [][index = Nothing /\ index' # Nothing => Rebuilt \subseteq index']_transcriptVars

\* loadRecordsLocked: a malformed line that is not the last "is not a crash".
CrashLeavesItLoadable == \A s \in Sessions : file[s] # <<>> => Loads(file[s])
=============================================================================
