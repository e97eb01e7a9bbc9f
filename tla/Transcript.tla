----------------------------- MODULE Transcript -----------------------------
(***************************************************************************)
(* Saved sessions (internal/session): append-only transcript files and the *)
(* index of them (transcript/fs_store.go), how a file is read back as a    *)
(* conversation (projector.go), and its two writers: Save at a turn's end  *)
(* (store.go) and the Recorder on the agent's events (recorder.go,         *)
(* setup.go), which the app uses one instead of the other.                 *)
(*                                                                         *)
(* One process at a time; each mints the name of a new session before it   *)
(* does anything else.  A crash is one of the machine: what was not fsynced*)
(* may be lost, the last line that remains may be half a record, and the   *)
(* index, renamed into place and never fsynced, may be any it has been     *)
(* since the last crash, or none a reader can parse.                       *)
(* The conversation on screen and the agent's chain give one message two   *)
(* IDs; a session of the index is its name, an empty file is no file.      *)
(* Records without a message (state patches, telemetry: the notes) are not *)
(* lines: one matters where it is glued to half a record, and as what a    *)
(* crash may cut at the end of a file the process has worked on.           *)
(* A definition named ...Fault is the one after it with a defect; no       *)
(* action uses it.                                                         *)
(***************************************************************************)
EXTENDS Naturals, FiniteSets, Sequences, SequencesExt

CONSTANTS
  Nothing,
  BoundSessions,   \* bound: sessions ever named
  BoundMessages,   \* bound: messages of all sessions
  BoundExits       \* bound: ends of a process, crashes included

Sessions == 1 .. BoundSessions
Lines == [kind : {"start", "message", "boundary", "fork", "note", "torn", "broken"}, id : Nat, parent : Nat]
Writes == [session : Sessions, line : Lines]

ASSUME TranscriptAssumption ==
  /\ BoundSessions \in Nat \ {0} /\ BoundMessages \in Nat /\ BoundExits \in Nat
  /\ Nothing \notin Writes /\ \A S \in SUBSET Sessions : Nothing # S

InChat(n) == 2 * n - 1          \* message n as the screen numbers it
InChain(n) == 2 * n             \* and as the agent does
Text(id) == (id + 1) \div 2     \* the message an ID stands for

VARIABLES
  file,        \* the transcript files
  synced,      \* how many lines of each the disk has for sure
  index,       \* transcripts-index.json: the sessions it lists, Nothing if no
               \* reader can parse one
  past,        \* what a crash may leave of it
  listed, staged,   \* cachedIndex, Nothing before it is loaded, and indexDirty
  cache,       \* sessionCache of each session
  session,     \* the current session's ID, 0 for none
  chat,        \* m.conv.Messages, by ID
  agent,       \* "none", or live and "recorded" or "unrecorded"
  recorder,    \* Setup.recorder: its session, and lastMessageID
  writing,     \* the record that is written and not yet accounted for
  marking,     \* the summary whose boundary is still to be written
  saving,      \* the Save that is under way
  used, said, exits,
  kept,        \* history: messages whose append has returned
  begun,       \* history: sessions whose Start or fork has returned
  misled,      \* history: sessions whose recorder started from a stale leaf, and
               \* copies of one of these or of one with a broken line
  unlisted     \* history: sessions begun that a crash took from the index, by an
               \* older index or with their file, or that a fork left out of one
               \* it could not read

stored == <<file, synced, index, past>>
indexes == <<index, past, listed, staged>>
process == <<session, chat, agent, recorder, writing, marking, saving>>
counters == <<used, said, exits>>
hist == <<kept, begun, misled, unlisted>>
transcriptVars == <<stored, listed, staged, cache, process, counters, hist>>

Cold == [warmed |-> FALSE, seen |-> {}, leaf |-> 0]
NoRecorder == [session |-> 0, last |-> 0]
NoSave == [stage |-> "none", of |-> 0, chat |-> <<>>, omit |-> FALSE, sync |-> FALSE]

\* session.Initialize has named the first session; it has no file yet.
TranscriptInit ==
  /\ file = [s \in Sessions |-> <<>>] /\ synced = [s \in Sessions |-> 0]
  /\ index = Nothing /\ past = {Nothing} /\ listed = Nothing /\ staged = FALSE
  /\ cache = [s \in Sessions |-> Cold]
  /\ session = 1 /\ chat = <<>> /\ agent = "none" /\ recorder = NoRecorder
  /\ writing = Nothing /\ marking = 0 /\ saving = NoSave
  /\ used = 1 /\ said = 0 /\ exits = 0
  /\ kept = [s \in Sessions |-> {}] /\ begun = {} /\ misled = {} /\ unlisted = {}

-----------------------------------------------------------------------------
\* Lines of a transcript, and what a reader makes of them.

Line(kind, id, parent) == [kind |-> kind, id |-> id, parent |-> parent]
Torn == Line("torn", 0, 0)       \* half a record, no newline
Broken == Line("broken", 0, 0)   \* half a record and the one appended to it
Note == Line("note", 0, 0)

IsMessage(line) == line.kind = "message"
MessagesAt(f) == {i \in DOMAIN f : IsMessage(f[i])}
Ids(f) == {f[i].id : i \in MessagesAt(f)}

\* The ID in the last of some lines.
LastOf(f, places) == IF places = {} THEN 0 ELSE f[Max(places)].id
LastId(f) == LastOf(f, MessagesAt(f))

Malformed(line) == line.kind \in {"torn", "broken"}

\* loadRecordsLocked: a malformed line is dropped at the end, refused elsewhere.
Loads(f) == f # <<>> /\ \A i \in 1 .. Len(f) - 1 : ~Malformed(f[i])
Parsed(f) == IF Malformed(Last(f)) THEN Front(f) ELSE f

Boundary(f) == LastOf(f, {i \in DOMAIN f : f[i].kind = "boundary"})

ParentOf(f, id) == f[CHOOSE i \in MessagesAt(f) : f[i].id = id].parent

Childless(f) == {i \in MessagesAt(f) : \A j \in MessagesAt(f) : f[j].parent # f[i].id}

\* materializeActiveChain: from the last message without a child up to the
\* boundary, or to a parent that is not there.
Extended(f, chain) ==
  LET up == ParentOf(f, Head(chain))
  IN IF Head(chain) = Boundary(f) \/ up \notin Ids(f) \ ToSet(chain) THEN chain ELSE <<up>> \o chain

Projected(f) ==
  LET leaf == IF Childless(f) = {} THEN LastId(f) ELSE LastOf(f, Childless(f))
      chain[k \in Nat] == IF k = 0 THEN <<leaf>> ELSE Extended(f, chain[k - 1])
  IN IF Ids(f) = {} THEN <<>> ELSE chain[Cardinality(Ids(f))]

-----------------------------------------------------------------------------
\* The file store.

\* O_APPEND goes on with a line that a crash left without its newline.
Appended(f, line) ==
  IF f # <<>> /\ Last(f) = Torn THEN Append(Front(f), Broken) ELSE Append(f, line)

Write(s, line) ==
  /\ file' = [file EXCEPT ![s] = Appended(@, line)]
  /\ writing' = [session |-> s, line |-> line]

\* Start: nothing for a session that has a file.
Start(s) ==
  IF file[s] = <<>> THEN Write(s, Line("start", 0, 0)) ELSE UNCHANGED <<file, writing>>

\* A note.
Jot(s) == file' = IF Last(file[s]) = Torn THEN [file EXCEPT ![s] = Appended(@, Note)] ELSE file

SyncsFault(line) == line.kind # "message"

\* appendRecord's sync flag.
Syncs(line) == TRUE

WarmFault(s) == IF cache[s].warmed THEN cache[s] ELSE [warmed |-> TRUE, seen |-> {}, leaf |-> LastId(file[s])]

\* warmupCachesLocked: once per process and session.
Warm(s) ==
  IF cache[s].warmed THEN cache[s]
  ELSE [warmed |-> TRUE, seen |-> Ids(file[s]), leaf |-> LastId(file[s])]

Warmed(s) == cache' = [cache EXCEPT ![s] = Warm(s)]

Loaded == IF listed = Nothing THEN index ELSE listed

\* rebuildIndexLocked: what is on disk and loads.
Rebuilt == {s \in Sessions : Loads(file[s])}

\* atomicfile.Write: a rename, no fsync.
WriteIndex(names) == index' = names /\ past' = past \cup {Nothing, names}

SaveIndex(names) == WriteIndex(names) /\ listed' = names /\ staged' = FALSE

\* upsertIndexEntryLocked; a rebuild is saved, the entry only staged.
Upsert(s) ==
  /\ listed' = (IF Loaded = Nothing THEN Rebuilt ELSE Loaded) \cup {s} /\ staged' = TRUE
  /\ IF Loaded = Nothing THEN WriteIndex(Rebuilt) ELSE UNCHANGED <<index, past>>

\* refreshIndexLocked: without a rebuild.
Refresh(s) ==
  IF Loads(file'[s])
  THEN /\ SaveIndex((IF Loaded = Nothing THEN {} ELSE Loaded) \cup {s})
       /\ unlisted' = IF Loaded = Nothing THEN unlisted \cup (begun \ {s}) ELSE unlisted
  ELSE UNCHANGED <<indexes, unlisted>>

\* flushIndexLocked.
Flush == IF staged THEN SaveIndex(listed) ELSE UNCHANGED indexes

EntersFault(s) == Upsert(s)

\* Start: a new session's entry reaches the disk at once.
Enters(s) == SaveIndex((IF Loaded = Nothing THEN Rebuilt ELSE Loaded) \cup {s})

\* The rest of a store operation once its record is written.
Account ==
  LET s == writing.session
      line == writing.line
  IN
  /\ writing # Nothing /\ writing' = Nothing
  /\ IF Syncs(line) THEN synced' = [synced EXCEPT ![s] = Len(file[s])] ELSE UNCHANGED synced
  /\ UNCHANGED file
  /\ CASE line.kind = "start" -> Enters(s) /\ UNCHANGED <<cache, kept, unlisted>>
       [] line.kind = "message" ->
            /\ Upsert(s) /\ cache' = [cache EXCEPT ![s].seen = @ \cup {line.id}]
            /\ kept' = [kept EXCEPT ![s] = @ \cup {line.id}] /\ UNCHANGED unlisted
       [] line.kind = "boundary" -> Refresh(s) /\ UNCHANGED <<cache, kept>>
  /\ begun' = IF line.kind = "start" THEN begun \cup {s} ELSE begun
  /\ UNCHANGED <<session, chat, agent, recorder, marking, saving, counters, misled>>

-----------------------------------------------------------------------------
\* The conversation.

Quiet == writing = Nothing /\ marking = 0 /\ ~saving.sync

\* The agent's message reaches the recorder, which chains it to the last one.
Record(id) ==
  /\ Write(recorder.session, Line("message", id, recorder.last))
  /\ Warmed(recorder.session) /\ recorder' = [recorder EXCEPT !.last = id]

\* A message on screen; the recorder writes the agent's copy.
Say ==
  /\ Quiet /\ agent # "none" /\ said < BoundMessages /\ said' = said + 1
  /\ chat' = Append(chat, InChat(said + 1))
  /\ IF agent = "recorded" THEN Record(InChain(said + 1))
                           ELSE UNCHANGED <<file, writing, cache, recorder>>
  /\ UNCHANGED <<synced, indexes, session, agent, marking, saving, used, exits, hist>>

\* A summary takes the conversation's place (OnCompacted, onCompact).
Compact ==
  /\ Quiet /\ agent # "none" /\ chat # <<>> /\ said < BoundMessages /\ said' = said + 1
  /\ chat' = <<InChat(said + 1)>>
  /\ IF agent = "recorded" THEN Record(InChain(said + 1)) /\ marking' = InChain(said + 1)
                           ELSE UNCHANGED <<file, writing, cache, recorder, marking>>
  /\ UNCHANGED <<synced, indexes, session, agent, saving, used, exits, hist>>

Mark ==
  /\ marking # 0 /\ writing = Nothing
  /\ Write(recorder.session, Line("boundary", marking, 0)) /\ marking' = 0
  /\ UNCHANGED <<synced, indexes, cache, session, chat, agent, recorder, saving, counters, hist>>

\* Tool, prompt, hook, permission, skill and inference records.
Audit ==
  /\ writing = Nothing /\ agent = "recorded" /\ Jot(recorder.session)
  /\ UNCHANGED <<synced, indexes, cache, process, counters, hist>>

SeedFault(leaf) == 0

\* seedLastMessageID: the recorder's first message goes on from the leaf.
Seed(leaf) == leaf

\* ensureAgentSession: no recorder without a session, the cached one if it is
\* this session's, else a new one, which starts a session that has no file.
Build ==
  LET leaf == Warm(session).leaf IN
  /\ Quiet /\ agent = "none"
  /\ agent' = IF session = 0 THEN "unrecorded" ELSE "recorded"
  /\ IF session \in {0, recorder.session} THEN UNCHANGED <<file, writing, recorder, cache, misled>>
     ELSE /\ recorder' = [session |-> session, last |-> Seed(leaf)]
          /\ Warmed(session) /\ Start(session)
          /\ misled' = IF leaf = LastId(file[session]) THEN misled ELSE misled \cup {session}
  /\ UNCHANGED <<synced, indexes, session, chat, marking, saving, counters, kept, begun, unlisted>>

\* StopAgentSession: the turn failed, or the agent's tools or model changed.
Stop ==
  /\ Quiet /\ agent # "none" /\ agent' = "none"
  /\ UNCHANGED <<stored, listed, staged, cache, session, chat, recorder, writing, marking,
                 saving, counters, hist>>

-----------------------------------------------------------------------------
\* Save.

HasRecorder == session # 0 /\ recorder.session = session

\* The snapshot, and Start.  At a turn's end it is saved while the rest goes on;
\* /name, /new, /fork and the first save of a conversation without a name, which
\* it is given, wait.
SaveBegin ==
  LET s == IF session = 0 THEN used + 1 ELSE session IN
  /\ writing = Nothing /\ saving = NoSave /\ chat # <<>> /\ s \in Sessions
  /\ session' = s /\ used' = (IF session = 0 THEN s ELSE used)
  /\ saving' = [stage |-> "messages", of |-> s, chat |-> chat, omit |-> HasRecorder,
                sync |-> agent = "none" \/ session = 0]
  /\ Start(s)
  /\ UNCHANGED <<synced, indexes, cache, chat, agent, recorder, marking, said, exits, hist>>

Unsaved == IF saving.omit THEN {} ELSE {i \in DOMAIN saving.chat : saving.chat[i] \notin Warm(saving.of).seen}

\* AppendMessage of the first message the file does not have.
SaveMessage ==
  LET i == CHOOSE j \in Unsaved : \A k \in Unsaved : j <= k IN
  /\ writing = Nothing /\ saving.stage = "messages" /\ Unsaved # {}
  /\ Write(saving.of, Line("message", saving.chat[i], IF i = 1 THEN 0 ELSE saving.chat[i - 1]))
  /\ Warmed(saving.of)
  /\ UNCHANGED <<synced, indexes, session, chat, agent, recorder, marking, saving, counters, hist>>

\* PatchState, if something of the state changed.
SavePatch ==
  LET s == saving.of IN
  /\ writing = Nothing /\ saving.stage = "messages" /\ Unsaved = {}
  /\ Jot(s) /\ Upsert(s) /\ Warmed(s) /\ saving' = [saving EXCEPT !.stage = "flush"]
  /\ UNCHANGED <<synced, session, chat, agent, recorder, writing, marking, counters, hist>>

SaveFlush ==
  /\ writing = Nothing
  /\ saving.stage = "flush" \/ (saving.stage = "messages" /\ Unsaved = {})
  /\ Flush /\ saving' = NoSave
  /\ UNCHANGED <<file, synced, cache, session, chat, agent, recorder, writing, marking, counters, hist>>

-----------------------------------------------------------------------------
\* From session to session.

\* Nothing is under way, and a Save would add no message.
Saved ==
  /\ writing = Nothing /\ marking = 0 /\ saving = NoSave /\ session # 0
  /\ HasRecorder \/ ToSet(chat) \subseteq Warm(session).seen

\* loadSessionByID; a file without a record gives the session no name.
Resume(s) ==
  /\ Quiet /\ saving = NoSave /\ Loads(file[s])
  /\ session' = (IF Parsed(file[s]) = <<>> THEN 0 ELSE s) /\ chat' = Projected(Parsed(file[s])) /\ agent' = "none"
  /\ UNCHANGED <<stored, listed, staged, cache, recorder, writing, marking, saving, counters, hist>>

\* /new, after its Save: the next conversation has no name until it is saved.
NewSession ==
  /\ Saved /\ session' = 0 /\ chat' = <<>> /\ agent' = "none"
  /\ UNCHANGED <<stored, listed, staged, cache, recorder, writing, marking, saving, counters, hist>>

\* /fork, after its Save: a copy under a new name, renamed into place unsynced.
Fork ==
  LET s == used + 1 IN
  /\ Saved /\ s \in Sessions /\ used' = s
  /\ Loads(file[session]) /\ Parsed(file[session]) # <<>>
  /\ file' = [file EXCEPT ![s] = Append(Parsed(file[session]), Line("fork", 0, 0))]
  /\ Refresh(s) /\ session' = s /\ agent' = "none"
  /\ begun' = begun \cup {s}
  /\ misled' = IF session \in misled \/ Broken \in ToSet(file[session]) THEN misled \cup {s} ELSE misled
  /\ UNCHANGED <<synced, cache, chat, recorder, writing, marking, saving, said, exits, kept>>

\* listIndexEntries: rebuilds what it cannot read.
List ==
  /\ writing = Nothing /\ Loaded = Nothing /\ SaveIndex(Rebuilt)
  /\ UNCHANGED <<file, synced, cache, process, counters, hist>>

-----------------------------------------------------------------------------
\* The end of a process.

\* The next process starts, with a session of its own.
NextProcess ==
  /\ exits < BoundExits /\ exits' = exits + 1
  /\ used + 1 \in Sessions /\ used' = used + 1 /\ session' = used + 1
  /\ listed' = Nothing /\ staged' = FALSE /\ cache' = [s \in Sessions |-> Cold]
  /\ chat' = <<>> /\ agent' = "none" /\ recorder' = NoRecorder
  /\ writing' = Nothing /\ marking' = 0 /\ saving' = NoSave
  /\ UNCHANGED <<said, kept, begun, misled>>

\* FlushIndex at shutdown.
Exit ==
  /\ Quiet /\ saving = NoSave /\ NextProcess
  /\ IF staged THEN WriteIndex(listed) ELSE UNCHANGED <<index, past>>
  /\ UNCHANGED <<file, synced, unlisted>>

\* What may be left of s's file: all that is synced, then some, then half a record.
Remains(s) ==
  LET f == file[s]
      ends == {k \in synced[s] .. Len(f) : k < Len(f) \/ cache[s].warmed}
  IN {SubSeq(f, 1, k) : k \in synced[s] .. Len(f)} \cup
     {Append(SubSeq(f, 1, k), Torn) : k \in {e \in ends : e = 0 \/ f[e] # Torn}}

\* One file is cut, or none, and the index is any it has lately been.
MachineCrash ==
  /\ NextProcess
  /\ index' \in past /\ past' = {index'}
  /\ \E s \in Sessions : \E rest \in Remains(s) :
       /\ file' = [file EXCEPT ![s] = rest]
       /\ synced' = [t \in Sessions |-> Len(file'[t])]
  /\ unlisted' = unlisted \cup
       {s \in begun : file'[s] = <<>> \/ (index' # Nothing /\ s \notin index')}

TranscriptNext ==
  \/ Account \/ Say \/ Compact \/ Mark \/ Audit \/ Build \/ Stop
  \/ SaveBegin \/ SaveMessage \/ SavePatch \/ SaveFlush
  \/ \E s \in Sessions : Resume(s)
  \/ NewSession \/ Fork \/ List \/ Exit \/ MachineCrash

TranscriptSpec == TranscriptInit /\ [][TranscriptNext]_transcriptVars
=============================================================================
