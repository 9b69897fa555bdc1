---------------------------- MODULE DetectorCatalog ----------------------------
(***************************************************************************)
(* The catalog of detectors of the manager (class DetectorCatalog of       *)
(* manager/app.py): the TOML files of a directory, the copy of them that   *)
(* the catalog keeps with the stamp it was loaded under, and the handler   *)
(* threads that ask for it (insert_events, list_detectors and summary      *)
(* call list). A thread holds the lock of the catalog while it looks at    *)
(* the directory, file after file, and reads it again when a name, a       *)
(* modification time or a size has changed. Nothing keeps the operator     *)
(* from changing files meanwhile. An error leaves refresh and the request  *)
(* fails.                                                                  *)
(*                                                                         *)
(* A file is in the middle of being written when it holds a content that   *)
(* is not Readable. clock is the clock of the file system, in its own      *)
(* granularity: two edits may get one modification time. A file stands for *)
(* its rank in the order of the names.                                     *)
(*                                                                         *)
(* former, ambiguous and since are history variables: the states a file    *)
(* has shown to stat; whether a file ever came back to one of them; what   *)
(* a file has held since a thread began its call.                          *)
(***************************************************************************)
EXTENDS Integers, FiniteSets

CONSTANTS Files,      \* the numbers of the files
          Contents,
          Size,       \* the bytes of a content
          Readable,   \* the contents that are TOML
          Stated,     \* the [count, window] a readable content states
          NoFile,
          Shipped,    \* what the files hold at the start
          Callers,    \* handler threads
          MaxEdits    \* bound on the changes of the directory

ASSUME CatalogAssumption ==
  /\ Files \subseteq Nat /\ IsFiniteSet(Files)
  /\ Size \in [Contents -> Nat]
  /\ Readable \subseteq Contents
  /\ Stated \in [Readable -> [count : Int, window : Int]]
  /\ NoFile \notin Contents
  /\ Shipped \in [Files -> Contents \cup {NoFile}]
  /\ MaxEdits \in Nat

VARIABLES disk,      \* what a file holds and its modification time
          clock, edits,
          stamp,     \* _stamp: the state of each file when it was looked at
          loaded,    \* _detectors, by file
          pc,        \* where a thread is in its call of list
          todo, taken, parsed,   \* of the thread that has the lock
          former, ambiguous, since

vars == <<disk, clock, edits, stamp, loaded, pc, todo, taken, parsed, former,
          ambiguous, since>>

catalogVars == <<stamp, loaded, pc, todo, taken, parsed>>
fileVars == <<disk, clock, edits, former, ambiguous>>

Points == {"idle", "waiting", "looking", "reading", "copying"}

Nothing == [f \in {} |-> NoFile]

Present == {f \in Files : disk[f].content # NoFile}

\* Entry of a file in the stamp.
Entry(file) == [mtime |-> file.mtime, size |-> Size[file.content]]

\* The directory as _snapshot would find it, were it to stand still.
Snapshot == [f \in Present |-> Entry(disk[f])]

\* Mutant of Parse: the values are taken as they stand.
ParseAsStated(x) == Stated[x]

\* from_toml: at least one match, and no negative window.
Parse(x) ==
  LET AtLeast(least, n) == IF n < least THEN least ELSE n
  IN [count |-> AtLeast(1, Stated[x].count), window |-> AtLeast(0, Stated[x].window)]

\* The detectors in files that hold what contents says.
DetectorsOf(contents) ==
  [f \in {f \in DOMAIN contents : contents[f] \in Readable} |-> Parse(contents[f])]

OnDisk == [f \in Present |-> disk[f].content]

Init ==
  /\ disk = [f \in Files |-> [content |-> Shipped[f], mtime |-> 0]]
  /\ clock = 0
  /\ edits = 0
  /\ stamp = Nothing /\ loaded = Nothing
  /\ pc = [c \in Callers |-> "idle"]
  /\ todo = {} /\ taken = Nothing /\ parsed = Nothing
  /\ former = [f \in Files |-> IF f \in Present THEN {Entry(disk[f])} ELSE {}]
  /\ ambiguous = FALSE
  /\ since = [c \in Callers |-> [f \in Files |-> {}]]

Go(c, point) == pc' = [pc EXCEPT ![c] = point]

\* The call ends, with an answer or with an error.
Return(c) ==
  /\ Go(c, "idle")
  /\ since' = [since EXCEPT ![c] = [f \in Files |-> {}]]

\* The operator writes, replaces or removes a file.
Edit(f, x) ==
  /\ edits < MaxEdits
  /\ edits' = edits + 1
  /\ x # disk[f].content
  /\ clock' \in {clock, clock + 1}
  /\ disk' = [disk EXCEPT ![f] = [content |-> x, mtime |-> clock']]
  /\ IF x = NoFile
       THEN UNCHANGED <<former, ambiguous>>
       ELSE /\ ambiguous' = (ambiguous \/ Entry(disk'[f]) \in former[f])
            /\ former' = [former EXCEPT ![f] = @ \cup {Entry(disk'[f])}]
  /\ since' = [c \in Callers |->
                 IF pc[c] = "idle" THEN since[c]
                 ELSE [since[c] EXCEPT ![f] = @ \cup {x}]]
  /\ UNCHANGED catalogVars

\* A thread calls list.
Call(c) ==
  /\ pc[c] = "idle"
  /\ Go(c, "waiting")
  /\ since' = [since EXCEPT ![c] = [f \in Files |-> {disk[f].content}]]
  /\ UNCHANGED <<fileVars, stamp, loaded, todo, taken, parsed>>

LockFree == \A c \in Callers : pc[c] \notin {"looking", "reading"}

\* Mutant of Lock: a thread does not wait for another one's refresh.
LockOrSkip(c) ==
  /\ pc[c] = "waiting"
  /\ IF LockFree THEN Go(c, "looking") /\ todo' = Present /\ taken' = Nothing
                 ELSE Go(c, "copying") /\ UNCHANGED <<todo, taken>>
  /\ UNCHANGED <<fileVars, stamp, loaded, parsed, since>>

\* refresh: the lock, and the names in the directory.
Lock(c) ==
  /\ pc[c] = "waiting"
  /\ LockFree
  /\ Go(c, "looking")
  /\ todo' = Present
  /\ taken' = Nothing
  /\ UNCHANGED <<fileVars, stamp, loaded, parsed, since>>

With(function, f, x) == [g \in DOMAIN function \cup {f} |-> IF g = f THEN x ELSE function[g]]

\* The file to look at or to read next.
IsNext(f) == f \in todo /\ \A g \in todo : f <= g

LookAt(c, f) ==
  /\ pc[c] = "looking"
  /\ IsNext(f) /\ f \in Present
  /\ todo' = todo \ {f}
  /\ taken' = With(taken, f, Entry(disk[f]))
  /\ UNCHANGED <<fileVars, stamp, loaded, pc, parsed, since>>

\* Mutant of FileGone: the lock is not released.
FileGoneLocked(c, f) == FALSE

\* A file is removed between glob and stat: refresh raises, the lock is
\* released and nothing has changed.
FileGone(c, f) ==
  /\ pc[c] = "looking"
  /\ IsNext(f) /\ f \notin Present
  /\ Return(c)
  /\ todo' = {} /\ taken' = Nothing
  /\ UNCHANGED <<fileVars, stamp, loaded, parsed>>

\* All files are looked at. Without a change the copy stands.
Compare(c) ==
  /\ pc[c] = "looking"
  /\ todo = {}
  /\ IF taken = stamp
       THEN Go(c, "copying") /\ taken' = Nothing /\ UNCHANGED todo
       ELSE Go(c, "reading") /\ todo' = DOMAIN taken /\ UNCHANGED taken
  /\ UNCHANGED <<fileVars, stamp, loaded, parsed, since>>

\* A file that cannot be read by now, or is no TOML, is left out.
ReadFile(c, f) ==
  /\ pc[c] = "reading"
  /\ IsNext(f)
  /\ todo' = todo \ {f}
  /\ parsed' = IF disk[f].content \in Readable
                 THEN With(parsed, f, Parse(disk[f].content)) ELSE parsed
  /\ UNCHANGED <<fileVars, stamp, loaded, pc, taken, since>>

\* Mutant of Publish: the stamp is taken when the files have been read.
PublishLateStamp(c) ==
  /\ pc[c] = "reading"
  /\ todo = {}
  /\ loaded' = parsed /\ stamp' = Snapshot
  /\ parsed' = Nothing /\ taken' = Nothing
  /\ Go(c, "copying")
  /\ UNCHANGED <<fileVars, todo, since>>

Publish(c) ==
  /\ pc[c] = "reading"
  /\ todo = {}
  /\ loaded' = parsed /\ stamp' = taken
  /\ parsed' = Nothing /\ taken' = Nothing
  /\ Go(c, "copying")
  /\ UNCHANGED <<fileVars, todo, since>>

\* list takes the lock a second time and copies what is loaded by then.
Copy(c) ==
  /\ pc[c] = "copying"
  /\ LockFree
  /\ Return(c)
  /\ UNCHANGED <<fileVars, stamp, loaded, todo, taken, parsed>>

CallerStep(c) ==
  \/ Call(c) \/ Lock(c) \/ Compare(c) \/ Publish(c) \/ Copy(c)
  \/ \E f \in Files : LookAt(c, f) \/ FileGone(c, f) \/ ReadFile(c, f)

Next ==
  \/ \E c \in Callers : CallerStep(c)
  \/ \E f \in Files, x \in Contents \cup {NoFile} : Edit(f, x)

\* Handler threads are scheduled, the lock goes to a thread that waits, and the
\* dashboard asks for the detectors every four seconds.
Fairness == \A c \in Callers : WF_vars(CallerStep(c))

Spec == Init /\ [][Next]_vars /\ Fairness

-------------------------------------------------------------------------------

Settings == [count : Nat \ {0}, window : Nat]

\* The shape of the state; every detector has a threshold that the engine can
\* count to (DetectionAssumption), whatever its file states.
TypeOK ==
  /\ disk \in [Files -> [content : Contents \cup {NoFile}, mtime : 0 .. MaxEdits]]
  /\ clock \in 0 .. MaxEdits /\ edits \in 0 .. MaxEdits
  /\ \A function \in {stamp, taken, loaded, parsed} : DOMAIN function \subseteq Files
  /\ \A function \in {loaded, parsed} :
       \A f \in DOMAIN function : function[f] \in Settings
  /\ pc \in [Callers -> Points]
  /\ Cardinality({c \in Callers : pc[c] \in {"looking", "reading"}}) <= 1
  /\ todo \subseteq Files
  /\ ambiguous \in BOOLEAN
  /\ since \in [Callers -> [Files -> SUBSET (Contents \cup {NoFile})]]

\* When the stamp agrees with the directory, so that no call would read it
\* again, the detectors are those of the files: an edit during a refresh, after
\* a file was looked at or after it was read, is never taken for loaded. It
\* takes a file that returns to a modification time and a size it had before
\* to break this.
StampMeansLoaded ==
  ~ambiguous /\ stamp = Snapshot => loaded = DetectorsOf(OnDisk)

\* What list answers about a file is what the file held at some moment of the
\* call: no batch of events is matched against detectors that were already
\* replaced when it arrived, also when another thread was refreshing then.
AnswersAreFresh ==
  [][\A c \in Callers : pc[c] = "copying" /\ pc'[c] = "idle" /\ ~ambiguous =>
       \A f \in Files : \E x \in since[c][f] :
         LET alone == DetectorsOf([g \in {f} |-> x])
         IN /\ f \in DOMAIN loaded <=> f \in DOMAIN alone
            /\ f \in DOMAIN loaded => loaded[f] = alone[f]]_vars

\* docs/architecture.md:70: the manager reloads the definitions when the
\* directory changes. Once nobody changes files any more the catalog has what
\* they hold, also after refreshes that found a file removed or half written.
CatchesUp == <>[](ambiguous \/ loaded = DetectorsOf(OnDisk))
===============================================================================
