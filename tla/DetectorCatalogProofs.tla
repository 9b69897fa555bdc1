------------------------- MODULE DetectorCatalogProofs -------------------------
(***************************************************************************)
(* Proofs about DetectorCatalog, for any files, contents, handler threads  *)
(* and bounds that satisfy CatalogAssumption.                              *)
(*                                                                         *)
(* Two invariants are behind the theorems. RefreshInv says what the thread *)
(* that has the lock has gathered so far; its heart is Agree: a file whose *)
(* modification time and size are still those that were looked at holds    *)
(* what was read of it, because a change would have given it an entry it   *)
(* never had. FreshInv says that the same thread, and every thread that    *)
(* waits for its copy, has seen what was gathered in its own call.         *)
(***************************************************************************)
EXTENDS DetectorCatalog, FiniteSetTheorems, TLAPS

Holds(c) == pc[c] \in {"looking", "reading"}

OneHolds == \A c, d \in Callers : Holds(c) /\ Holds(d) => c = d

\* The shape of the state, with what it takes to keep it.
TInv ==
  /\ disk \in [Files -> [content : Contents \cup {NoFile}, mtime : 0 .. MaxEdits]]
  /\ clock \in 0 .. edits /\ edits \in 0 .. MaxEdits
  /\ DOMAIN stamp \subseteq Files /\ DOMAIN taken \subseteq Files
  /\ DOMAIN loaded \subseteq Files /\ DOMAIN parsed \subseteq Files
  /\ loaded \in [DOMAIN loaded -> Settings]
  /\ parsed \in [DOMAIN parsed -> Settings]
  /\ pc \in [Callers -> Points]
  /\ OneHolds
  /\ todo \subseteq Files
  /\ ambiguous \in BOOLEAN
  /\ since \in [Callers -> [Files -> SUBSET (Contents \cup {NoFile})]]

\* What detectors have of a file is what its content x gives.
Matches(detectors, f, x) ==
  /\ f \in DOMAIN detectors <=> x \in Readable
  /\ f \in DOMAIN detectors => detectors[f] = Parse(x)

\* The detectors of these files are those on disk, if their entries are.
Agree(entries, detectors, files) ==
  ~ambiguous =>
    \A f \in files : f \in Present /\ entries[f] = Entry(disk[f]) =>
      Matches(detectors, f, disk[f].content)

\* An entry is one that the file has had.
EntriesAreFormer ==
  /\ DOMAIN former = Files
  /\ \A f \in Present : Entry(disk[f]) \in former[f]
  /\ \A f \in DOMAIN stamp : stamp[f] \in former[f]
  /\ \A f \in DOMAIN taken : taken[f] \in former[f]

LoadedInv == DOMAIN loaded \subseteq DOMAIN stamp /\ Agree(stamp, loaded, DOMAIN stamp)

ReadingInv ==
  \A c \in Callers : pc[c] = "reading" =>
    /\ todo \subseteq DOMAIN taken
    /\ DOMAIN parsed \subseteq DOMAIN taken \ todo
    /\ Agree(taken, parsed, DOMAIN taken \ todo)

ParsedInv == (\A c \in Callers : pc[c] # "reading") => parsed = Nothing

RefreshInv == TInv /\ EntriesAreFormer /\ LoadedInv /\ ReadingInv /\ ParsedInv

\* A thread that has begun its refresh, or has it behind it, in this call.
Witness(c) == pc[c] \in {"looking", "reading", "copying"}

FreshOf(c, detectors, f) == \E x \in since[c][f] : Matches(detectors, f, x)

FreshInv ==
  /\ \A c \in Callers, f \in Files : pc[c] # "idle" => disk[f].content \in since[c][f]
  /\ \A c \in Callers, f \in Files :
       pc[c] = "copying" /\ ~ambiguous => FreshOf(c, loaded, f)
  /\ \A c, d \in Callers, f \in Files : Witness(c) /\ pc[d] = "looking" =>
       /\ f \notin todo \cup DOMAIN taken => NoFile \in since[c][f]
       /\ f \in DOMAIN taken \cap DOMAIN stamp /\ taken[f] = stamp[f] /\ ~ambiguous =>
            FreshOf(c, loaded, f)
  /\ \A c, d \in Callers, f \in Files : Witness(c) /\ pc[d] = "reading" =>
       /\ f \notin DOMAIN taken => NoFile \in since[c][f]
       /\ f \in DOMAIN taken \ todo => FreshOf(c, parsed, f)

-------------------------------------------------------------------------------

LEMMA NothingIs == DOMAIN Nothing = {} /\ \A T : Nothing \in [{} -> T]
BY DEF Nothing

LEMMA MaxEditsType == MaxEdits \in Nat
BY CatalogAssumption

LEMMA ParseType ==
  ASSUME NEW x \in Readable
  PROVE  Parse(x) \in Settings
BY CatalogAssumption DEF Parse, Settings

\* A file that is absent gives no detector.
LEMMA NoFileUnreadable == NoFile \notin Readable
BY CatalogAssumption

LEMMA InitTInv == Init => TInv
<1>1. SUFFICES ASSUME Init PROVE TInv
  OBVIOUS
<1>2. disk \in [Files -> [content : Contents \cup {NoFile}, mtime : 0 .. MaxEdits]]
  BY <1>1, CatalogAssumption DEF Init
<1>3. since \in [Callers -> [Files -> SUBSET (Contents \cup {NoFile})]]
  BY <1>1 DEF Init
<1>4. pc \in [Callers -> Points] /\ OneHolds
  BY <1>1 DEF Init, OneHolds, Holds, Points
<1>5. /\ DOMAIN stamp = {} /\ DOMAIN loaded = {} /\ DOMAIN taken = {} /\ DOMAIN parsed = {}
      /\ loaded \in [{} -> Settings] /\ parsed \in [{} -> Settings]
  BY <1>1, NothingIs DEF Init
<1>6. clock \in 0 .. edits /\ edits \in 0 .. MaxEdits
  BY <1>1, MaxEditsType DEF Init
<1>7. todo \subseteq Files /\ ambiguous \in BOOLEAN
  BY <1>1 DEF Init
<1>8. QED BY <1>2, <1>3, <1>4, <1>5, <1>6, <1>7 DEF TInv

\* Each step of a thread, and each change of a file, keeps the shape.
LEMMA EditType ==
  ASSUME TInv, NEW f \in Files, NEW x \in Contents \cup {NoFile}, Edit(f, x)
  PROVE  TInv'
<1> USE CatalogAssumption DEF TInv
<1>1. edits' \in 0 .. MaxEdits /\ clock' \in 0 .. edits'
  BY DEF Edit
<1>2. disk' \in [Files -> [content : Contents \cup {NoFile}, mtime : 0 .. MaxEdits]]
  BY <1>1 DEF Edit
<1>3. ambiguous' \in BOOLEAN
  BY DEF Edit
<1>4. since' \in [Callers -> [Files -> SUBSET (Contents \cup {NoFile})]]
  BY DEF Edit
<1>5. UNCHANGED catalogVars
  BY DEF Edit
<1>6. QED BY <1>1, <1>2, <1>3, <1>4, <1>5 DEF catalogVars, OneHolds, Holds

LEMMA ReturnType ==
  ASSUME TInv, NEW c \in Callers, Return(c)
  PROVE  /\ pc' \in [Callers -> Points] /\ OneHolds'
         /\ since' \in [Callers -> [Files -> SUBSET (Contents \cup {NoFile})]]
BY DEF TInv, Return, Go, Points, OneHolds, Holds

LEMMA CallerType ==
  ASSUME TInv, NEW c \in Callers, CallerStep(c)
  PROVE  TInv'
<1> USE DEF TInv
<1>1. CASE Call(c)
  <2>1. since' \in [Callers -> [Files -> SUBSET (Contents \cup {NoFile})]]
    BY <1>1 DEF Call
  <2>2. QED BY <1>1, <2>1 DEF Call, fileVars, Go, Points, OneHolds, Holds
<1>2. CASE Lock(c)
  BY <1>2, NothingIs DEF Lock, LockFree, Present, fileVars, Go, Points, OneHolds, Holds
<1>3. CASE Compare(c)
  <2>1. DOMAIN taken' \subseteq Files /\ todo' \subseteq Files
    BY <1>3, NothingIs DEF Compare
  <2>2. pc' \in [Callers -> Points] /\ OneHolds'
    BY <1>3 DEF Compare, Go, Points, OneHolds, Holds
  <2>3. QED BY <1>3, <2>1, <2>2 DEF Compare, fileVars
<1>4. CASE Publish(c)
  BY <1>4, NothingIs DEF Publish, fileVars, Go, Points, OneHolds, Holds
<1>5. CASE Copy(c)
  BY <1>5, ReturnType DEF Copy, fileVars
<1>6. ASSUME NEW f \in Files, LookAt(c, f)
      PROVE  TInv'
  <2>1. DOMAIN taken' = DOMAIN taken \cup {f}
    BY <1>6 DEF LookAt, With
  <2>2. QED BY <1>6, <2>1 DEF LookAt, fileVars, OneHolds, Holds
<1>7. ASSUME NEW f \in Files, FileGone(c, f)
      PROVE  TInv'
  BY <1>7, ReturnType, NothingIs DEF FileGone, fileVars
<1>8. ASSUME NEW f \in Files, ReadFile(c, f)
      PROVE  TInv'
  <2>1. CASE disk[f].content \in Readable
    <3>1. Parse(disk[f].content) \in Settings
      BY <2>1, ParseType
    <3>2. parsed' = [g \in DOMAIN parsed \cup {f} |-> IF g = f THEN Parse(disk[f].content) ELSE parsed[g]]
      BY <1>8, <2>1 DEF ReadFile, With
    <3>3. DOMAIN parsed' = DOMAIN parsed \cup {f}
      BY <3>2
    <3>4. parsed' \in [DOMAIN parsed' -> Settings]
      BY <3>1, <3>2, <3>3
    <3>5. QED BY <1>8, <3>3, <3>4 DEF ReadFile, fileVars, OneHolds, Holds
  <2>2. CASE disk[f].content \notin Readable
    BY <1>8, <2>2 DEF ReadFile, fileVars, OneHolds, Holds
  <2>3. QED BY <2>1, <2>2
<1>9. QED
  BY <1>1, <1>2, <1>3, <1>4, <1>5, <1>6, <1>7, <1>8 DEF CallerStep

LEMMA NextTInv == TInv /\ [Next]_vars => TInv'
<1>1. TInv /\ UNCHANGED vars => TInv'
  BY DEF vars, TInv, OneHolds, Holds
<1>2. QED BY <1>1, CallerType, EditType DEF Next

\* At most one thread has the lock.
LEMMA OneHoldsCount ==
  ASSUME OneHolds
  PROVE  Cardinality({c \in Callers : pc[c] \in {"looking", "reading"}}) <= 1
<1> DEFINE holders == {c \in Callers : pc[c] \in {"looking", "reading"}}
<1>1. CASE holders = {}
  BY <1>1, FS_EmptySet
<1>2. CASE holders # {}
  <2>1. PICK c : holders = {c}
    BY <1>2 DEF OneHolds, Holds
  <2>2. QED BY <2>1, FS_Singleton
<1>3. QED BY <1>1, <1>2

\* The state keeps its shape: one thread at a time refreshes, and every detector
\* has a threshold the engine can count to.
THEOREM TypeCorrect == Spec => []TypeOK
<1>1. Spec => []TInv
  BY InitTInv, NextTInv, PTL DEF Spec
<1>2. TInv => TypeOK
  BY OneHoldsCount, CatalogAssumption DEF TInv, TypeOK
<1>3. QED BY <1>1, <1>2, PTL

-------------------------------------------------------------------------------

LEMMA InitRefreshInv == Init => RefreshInv
<1>1. SUFFICES ASSUME Init PROVE RefreshInv
  OBVIOUS
<1>2. TInv
  BY <1>1, InitTInv
<1>3. stamp = Nothing /\ loaded = Nothing /\ taken = Nothing /\ parsed = Nothing
  BY <1>1 DEF Init
<1>4. EntriesAreFormer
  BY <1>1, <1>3, NothingIs DEF Init, EntriesAreFormer, Present
<1>5. LoadedInv
  BY <1>3, NothingIs DEF LoadedInv, Agree
<1>6. ReadingInv /\ ParsedInv
  BY <1>1 DEF Init, ReadingInv, ParsedInv
<1>7. QED BY <1>2, <1>4, <1>5, <1>6 DEF RefreshInv

\* A change gives a file an entry that nobody has looked at, or sets ambiguous.
LEMMA EditEntries ==
  ASSUME TInv, EntriesAreFormer,
         NEW f \in Files, NEW x \in Contents \cup {NoFile}, Edit(f, x)
  PROVE  /\ EntriesAreFormer'
         /\ \A g \in Files \ {f} : disk'[g] = disk[g]
         /\ ~ambiguous' /\ disk'[f].content # NoFile => Entry(disk'[f]) \notin former[f]
         /\ ~ambiguous' => ~ambiguous
<1>1. /\ disk' = [disk EXCEPT ![f] = [content |-> x, mtime |-> clock']]
      /\ UNCHANGED <<stamp, taken>>
  BY DEF Edit, catalogVars
<1>2. disk'[f].content = x /\ \A g \in Files \ {f} : disk'[g] = disk[g]
  BY <1>1 DEF TInv
<1>3. CASE x = NoFile
  <2>1. former' = former /\ ambiguous' = ambiguous
    BY <1>3 DEF Edit
  <2>2. QED BY <1>1, <1>2, <1>3, <2>1 DEF EntriesAreFormer, Present
<1>4. CASE x # NoFile
  <2>1. /\ ambiguous' <=> (ambiguous \/ Entry(disk'[f]) \in former[f])
        /\ former' = [former EXCEPT ![f] = @ \cup {Entry(disk'[f])}]
    BY <1>4 DEF Edit
  <2>2. /\ DOMAIN former' = Files /\ Entry(disk'[f]) \in former'[f]
        /\ \A g \in Files : former[g] \subseteq former'[g]
    BY <2>1 DEF EntriesAreFormer
  <2>3. \A g \in Present' : Entry(disk'[g]) \in former'[g]
    BY <1>2, <2>2 DEF EntriesAreFormer, Present
  <2>4. EntriesAreFormer'
    BY <1>1, <2>2, <2>3 DEF EntriesAreFormer, TInv
  <2>5. QED BY <1>2, <2>1, <2>4
<1>5. QED BY <1>3, <1>4

\* So what agreed with the disk still does.
LEMMA EditKeepsAgree ==
  ASSUME TInv, EntriesAreFormer,
         NEW f \in Files, NEW x \in Contents \cup {NoFile}, Edit(f, x),
         NEW entries, NEW detectors, NEW files \in SUBSET Files,
         \A g \in files : entries[g] \in former[g],
         Agree(entries, detectors, files)
  PROVE  ~ambiguous' =>
           \A g \in files : g \in Present' /\ entries[g] = Entry(disk'[g]) =>
             Matches(detectors, g, disk'[g].content)
<1>1. SUFFICES ASSUME ~ambiguous', NEW g \in files,
                      g \in Present', entries[g] = Entry(disk'[g])
               PROVE  Matches(detectors, g, disk'[g].content)
  OBVIOUS
<1>2. g # f
  BY <1>1, EditEntries DEF Present
<1>3. disk'[g] = disk[g] /\ ~ambiguous
  BY <1>1, <1>2, EditEntries
<1>4. g \in Present /\ entries[g] = Entry(disk[g])
  BY <1>1, <1>3 DEF Present
<1>5. QED BY <1>1, <1>3, <1>4 DEF Agree

LEMMA EditRefresh ==
  ASSUME RefreshInv, NEW f \in Files, NEW x \in Contents \cup {NoFile}, Edit(f, x)
  PROVE  RefreshInv'
<1> USE DEF RefreshInv
<1>1. UNCHANGED <<stamp, loaded, pc, todo, taken, parsed>>
  BY DEF Edit, catalogVars
<1>2. LoadedInv'
  <2>1. DOMAIN stamp \in SUBSET Files /\ \A g \in DOMAIN stamp : stamp[g] \in former[g]
    BY DEF TInv, EntriesAreFormer
  <2>2. Agree(stamp, loaded, DOMAIN stamp)
    BY DEF LoadedInv
  <2>3. ~ambiguous' =>
           \A g \in DOMAIN stamp : g \in Present' /\ stamp[g] = Entry(disk'[g]) =>
             Matches(loaded, g, disk'[g].content)
    BY <2>1, <2>2, EditKeepsAgree
  <2>4. QED BY <1>1, <2>3 DEF LoadedInv, Agree, Matches, Entry
<1>3. ReadingInv'
  <2>1. SUFFICES ASSUME NEW c \in Callers, pc[c] = "reading"
                 PROVE  Agree(taken, parsed, DOMAIN taken \ todo)'
    BY <1>1 DEF ReadingInv
  <2>2. /\ DOMAIN taken \ todo \in SUBSET Files
        /\ \A g \in DOMAIN taken \ todo : taken[g] \in former[g]
    BY DEF TInv, EntriesAreFormer
  <2>3. Agree(taken, parsed, DOMAIN taken \ todo)
    BY <2>1 DEF ReadingInv
  <2>4. ~ambiguous' =>
           \A g \in DOMAIN taken \ todo : g \in Present' /\ taken[g] = Entry(disk'[g]) =>
             Matches(parsed, g, disk'[g].content)
    BY <2>2, <2>3, EditKeepsAgree
  <2>5. QED BY <1>1, <2>4 DEF Agree, Matches, Entry
<1>4. QED BY <1>1, <1>2, <1>3, EditType, EditEntries DEF ParsedInv

\* Steps of one thread that leave the files alone.
LEMMA AgreeUnchanged ==
  ASSUME UNCHANGED fileVars, NEW entries, NEW detectors, NEW files,
         Agree(entries, detectors, files)
  PROVE  ~ambiguous' =>
           \A g \in files : g \in Present' /\ entries[g] = Entry(disk'[g]) =>
             Matches(detectors, g, disk'[g].content)
BY DEF fileVars, Agree, Present

LEMMA CallerFormer ==
  ASSUME RefreshInv, NEW c \in Callers, CallerStep(c)
  PROVE  EntriesAreFormer'
<1> USE DEF RefreshInv
<1>1. UNCHANGED fileVars
  BY DEF CallerStep, Call, Lock, Compare, Publish, Copy, LookAt, FileGone, ReadFile
<1>2. (\A g \in Present : Entry(disk[g]) \in former[g])' /\ DOMAIN former' = Files
  BY <1>1 DEF EntriesAreFormer, fileVars, Present
<1>3. CASE \E f \in Files : LookAt(c, f)
  <2>1. PICK f \in Files : LookAt(c, f)
    BY <1>3
  <2>2. f \in Present /\ taken' = With(taken, f, Entry(disk[f])) /\ stamp' = stamp
    BY <2>1 DEF LookAt
  <2>3. \A g \in DOMAIN taken' : taken'[g] \in former[g]
    <3>1. DOMAIN taken' = DOMAIN taken \cup {f} /\ taken'[f] = Entry(disk[f])
      BY <2>2 DEF With
    <3>2. \A g \in DOMAIN taken : g # f => taken'[g] = taken[g]
      BY <2>2 DEF With
    <3>3. QED BY <2>2, <3>1, <3>2 DEF EntriesAreFormer
  <2>4. QED BY <1>1, <1>2, <2>2, <2>3 DEF EntriesAreFormer, fileVars
<1>4. CASE Publish(c)
  <2>1. stamp' = taken /\ DOMAIN taken' = {}
    BY <1>4, NothingIs DEF Publish
  <2>2. QED BY <1>1, <1>2, <2>1 DEF EntriesAreFormer, fileVars
<1>5. CASE ~Publish(c) /\ ~(\E f \in Files : LookAt(c, f))
  <2>1. stamp' = stamp /\ (taken' = taken \/ DOMAIN taken' = {})
    BY <1>5, NothingIs DEF CallerStep, Call, Lock, Compare, Copy, FileGone, ReadFile
  <2>2. QED BY <1>1, <1>2, <2>1 DEF EntriesAreFormer, fileVars
<1>6. QED BY <1>3, <1>4, <1>5

LEMMA CallerLoaded ==
  ASSUME RefreshInv, NEW c \in Callers, CallerStep(c)
  PROVE  LoadedInv'
<1> USE DEF RefreshInv
<1>1. UNCHANGED fileVars
  BY DEF CallerStep, Call, Lock, Compare, Publish, Copy, LookAt, FileGone, ReadFile
<1>2. CASE Publish(c)
  <2>1. stamp' = taken /\ loaded' = parsed /\ todo = {} /\ pc[c] = "reading"
    BY <1>2 DEF Publish
  <2>2. DOMAIN parsed \subseteq DOMAIN taken /\ Agree(taken, parsed, DOMAIN taken \ todo)
    BY <2>1 DEF ReadingInv
  <2>3. DOMAIN taken \ todo = DOMAIN taken
    BY <2>1
  <2>4. ~ambiguous' =>
           \A g \in DOMAIN taken : g \in Present' /\ taken[g] = Entry(disk'[g]) =>
             Matches(parsed, g, disk'[g].content)
    BY <1>1, <2>2, <2>3, AgreeUnchanged
  <2>5. QED BY <2>1, <2>2, <2>4 DEF LoadedInv, Agree, Matches, Entry
<1>3. CASE ~Publish(c)
  <2>1. stamp' = stamp /\ loaded' = loaded
    BY <1>3 DEF CallerStep, Call, Lock, Compare, Copy, LookAt, FileGone, ReadFile
  <2>2. ~ambiguous' =>
           \A g \in DOMAIN stamp : g \in Present' /\ stamp[g] = Entry(disk'[g]) =>
             Matches(loaded, g, disk'[g].content)
    BY <1>1, AgreeUnchanged DEF LoadedInv
  <2>3. QED BY <2>1, <2>2 DEF LoadedInv, Agree, Matches, Entry
<1>4. QED BY <1>2, <1>3

\* A file that is read agrees with the disk at that moment.
LEMMA ReadFileMatches ==
  ASSUME TInv, NEW c \in Callers, NEW f \in Files, ReadFile(c, f), f \notin DOMAIN parsed
  PROVE  /\ Matches(parsed', f, disk[f].content)
         /\ DOMAIN parsed' \subseteq DOMAIN parsed \cup {f} /\ DOMAIN parsed \subseteq DOMAIN parsed'
         /\ \A g \in DOMAIN parsed : parsed'[g] = parsed[g]
<1>1. CASE disk[f].content \in Readable
  <2>1. parsed' = With(parsed, f, Parse(disk[f].content))
    BY <1>1 DEF ReadFile
  <2>2. DOMAIN parsed' = DOMAIN parsed \cup {f} /\ parsed'[f] = Parse(disk[f].content)
    BY <2>1 DEF With
  <2>3. \A g \in DOMAIN parsed : parsed'[g] = parsed[g]
    BY <2>1 DEF With
  <2>4. QED BY <1>1, <2>2, <2>3 DEF Matches
<1>2. CASE disk[f].content \notin Readable
  BY <1>2 DEF ReadFile, Matches
<1>3. QED BY <1>1, <1>2

LEMMA CallerReading ==
  ASSUME RefreshInv, NEW c \in Callers, CallerStep(c)
  PROVE  ReadingInv' /\ ParsedInv'
<1> USE DEF RefreshInv
<1>1. UNCHANGED fileVars
  BY DEF CallerStep, Call, Lock, Compare, Publish, Copy, LookAt, FileGone, ReadFile
<1>2. pc \in [Callers -> Points]
  BY DEF TInv
<1>3. CASE Compare(c) /\ taken # stamp
  <2>1. /\ pc' = [pc EXCEPT ![c] = "reading"] /\ todo' = DOMAIN taken
        /\ taken' = taken /\ parsed' = parsed
    BY <1>3 DEF Compare, Go
  <2>2. parsed = Nothing
    BY <1>3 DEF Compare, TInv, OneHolds, Holds, ParsedInv
  <2>3. QED BY <1>2, <2>1, <2>2, NothingIs DEF ReadingInv, Agree, ParsedInv
<1>4. CASE \E f \in Files : ReadFile(c, f)
  <2>1. PICK f \in Files : ReadFile(c, f)
    BY <1>4
  <2>2. /\ pc[c] = "reading" /\ f \in todo /\ todo' = todo \ {f}
        /\ UNCHANGED <<pc, taken>>
    BY <2>1 DEF ReadFile, IsNext
  <2>3. /\ todo \subseteq DOMAIN taken
        /\ DOMAIN parsed \subseteq DOMAIN taken \ todo
        /\ Agree(taken, parsed, DOMAIN taken \ todo)
    BY <2>2 DEF ReadingInv
  <2>4. /\ Matches(parsed', f, disk[f].content)
        /\ DOMAIN parsed' \subseteq DOMAIN parsed \cup {f} /\ DOMAIN parsed \subseteq DOMAIN parsed'
        /\ \A g \in DOMAIN parsed : parsed'[g] = parsed[g]
    BY <2>1, <2>2, <2>3, ReadFileMatches
  <2>5. \A g \in DOMAIN taken' \ todo' : g = f \/ (g \in DOMAIN taken \ todo /\ g # f)
    BY <2>2
  <2>6. Agree(taken, parsed, DOMAIN taken \ todo)'
    <3>1. \A g \in DOMAIN taken \ todo : g # f =>
            (Matches(parsed, g, disk[g].content) => Matches(parsed', g, disk[g].content))
      BY <2>4 DEF Matches
    <3>2. QED BY <1>1, <2>2, <2>3, <2>4, <2>5, <3>1 DEF fileVars, Agree, Present, Matches
  <2>7. QED BY <2>2, <2>3, <2>4, <2>6 DEF ReadingInv, ParsedInv
<1>5. CASE Publish(c)
  <2>1. pc' = [pc EXCEPT ![c] = "copying"] /\ parsed' = Nothing /\ pc[c] = "reading"
    BY <1>5 DEF Publish, Go
  <2>2. \A d \in Callers : pc'[d] # "reading"
    BY <1>2, <2>1 DEF TInv, OneHolds, Holds
  <2>3. QED BY <2>1, <2>2 DEF ReadingInv, ParsedInv
<1>6. CASE Call(c) \/ Copy(c)
  <2>1. \A d \in Callers : pc'[d] = "reading" <=> pc[d] = "reading"
    BY <1>2, <1>6 DEF Call, Copy, Return, Go
  <2>2. UNCHANGED <<todo, taken, parsed>>
    BY <1>6 DEF Call, Copy
  <2>3. QED BY <1>1, <2>1, <2>2 DEF ReadingInv, ParsedInv, fileVars, Agree, Present, Matches
<1>7. CASE Lock(c) \/ (\E f \in Files : LookAt(c, f) \/ FileGone(c, f)) \/ (Compare(c) /\ taken = stamp)
  <2>1. \A d \in Callers : pc[d] # "reading" /\ pc'[d] # "reading"
    BY <1>2, <1>7 DEF Lock, LockFree, LookAt, FileGone, Compare, Return, Go, TInv, OneHolds, Holds
  <2>2. parsed' = parsed
    BY <1>7 DEF Lock, LookAt, FileGone, Compare
  <2>3. QED BY <2>1, <2>2 DEF ReadingInv, ParsedInv
<1>8. QED BY <1>3, <1>4, <1>5, <1>6, <1>7 DEF CallerStep

LEMMA NextRefreshInv == RefreshInv /\ [Next]_vars => RefreshInv'
<1>1. RefreshInv /\ UNCHANGED vars => RefreshInv'
  BY NextTInv DEF vars, RefreshInv, EntriesAreFormer, LoadedInv, ReadingInv, ParsedInv, Agree, Present,
     Matches
<1>2. ASSUME RefreshInv, NEW c \in Callers, CallerStep(c) PROVE RefreshInv'
  BY <1>2, CallerType, CallerFormer, CallerLoaded, CallerReading DEF RefreshInv
<1>3. QED BY <1>1, <1>2, EditRefresh DEF Next

LEMMA RefreshInvHolds == Spec => []RefreshInv
BY InitRefreshInv, NextRefreshInv, PTL DEF Spec

\* When the stamp agrees with the directory, the detectors are those of the
\* files, however edits and refreshes were interleaved.
THEOREM StampMeansLoadedHolds == Spec => []StampMeansLoaded
<1>1. ASSUME RefreshInv PROVE StampMeansLoaded
  <2>1. SUFFICES ASSUME ~ambiguous, stamp = Snapshot
                 PROVE  loaded = DetectorsOf(OnDisk)
    BY DEF StampMeansLoaded
  <2>2. DOMAIN stamp = Present /\ \A f \in Present : stamp[f] = Entry(disk[f])
    BY <2>1 DEF Snapshot
  <2>3. \A f \in Present : Matches(loaded, f, disk[f].content)
    BY <1>1, <2>1, <2>2 DEF RefreshInv, LoadedInv, Agree
  <2>4. DOMAIN loaded = {f \in Present : disk[f].content \in Readable}
    BY <1>1, <2>2, <2>3 DEF RefreshInv, LoadedInv, Matches
  <2>5. loaded = [f \in DOMAIN loaded |-> loaded[f]]
    BY <1>1 DEF RefreshInv, TInv
  <2>6. \A f \in DOMAIN loaded : loaded[f] = Parse(disk[f].content)
    BY <2>3, <2>4 DEF Matches
  <2>7. DetectorsOf(OnDisk) =
          [f \in {f \in Present : disk[f].content \in Readable} |-> Parse(disk[f].content)]
    BY DEF DetectorsOf, OnDisk
  <2>8. QED BY <2>4, <2>5, <2>6, <2>7
<1>2. RefreshInv => StampMeansLoaded
  BY <1>1
<1>3. QED BY <1>2, RefreshInvHolds, PTL

-------------------------------------------------------------------------------

LEMMA InitFreshInv == Init => FreshInv
BY DEF Init, FreshInv, Witness

\* The threads in a call remember the change.
LEMMA EditFresh ==
  ASSUME TInv, FreshInv, NEW f \in Files, NEW x \in Contents \cup {NoFile}, Edit(f, x)
  PROVE  FreshInv'
<1>1. /\ UNCHANGED <<stamp, loaded, pc, todo, taken, parsed>>
      /\ ~ambiguous' => ~ambiguous
      /\ disk' = [disk EXCEPT ![f] = [content |-> x, mtime |-> clock']]
  BY DEF Edit, catalogVars
<1>2. \A c \in Callers, g \in Files : pc[c] # "idle" =>
        /\ since[c][g] \subseteq since'[c][g]
        /\ g = f => x \in since'[c][g]
  BY DEF Edit, TInv
<1>3. \A g \in Files : disk'[g].content = IF g = f THEN x ELSE disk[g].content
  BY <1>1 DEF TInv
<1>4. \A c \in Callers, detectors \in {loaded, parsed}, g \in Files :
        pc[c] # "idle" /\ FreshOf(c, detectors, g) =>
          \E y \in since'[c][g] : Matches(detectors, g, y)
  BY <1>2 DEF FreshOf
<1>5. \A c \in Callers, g \in Files :
        pc[c] # "idle" /\ FreshOf(c, loaded, g) => FreshOf(c, loaded, g)'
  BY <1>1, <1>4 DEF FreshOf, Matches
<1>6. \A c \in Callers, g \in Files :
        pc[c] # "idle" /\ FreshOf(c, parsed, g) => FreshOf(c, parsed, g)'
  BY <1>1, <1>4 DEF FreshOf, Matches
<1>7. \A c \in Callers : Witness(c) <=> Witness(c)'
  BY <1>1 DEF Witness
<1>8. \A c \in Callers : Witness(c) => pc[c] # "idle"
  BY DEF Witness
<1>9. QED BY <1>1, <1>2, <1>3, <1>5, <1>6, <1>7, <1>8 DEF FreshInv

\* Steps of a thread that do not touch what is loaded or gathered keep what the
\* other threads know.
LEMMA CallerFresh ==
  ASSUME RefreshInv, FreshInv, NEW c \in Callers, CallerStep(c)
  PROVE  FreshInv'
<1> USE DEF RefreshInv
<1>1. UNCHANGED fileVars
  BY DEF CallerStep, Call, Lock, Compare, Publish, Copy, LookAt, FileGone, ReadFile
<1>2. pc \in [Callers -> Points] /\ since \in [Callers -> [Files -> SUBSET (Contents \cup {NoFile})]]
  BY DEF TInv
<1>3. CASE Call(c)
  <2>1. /\ pc' = [pc EXCEPT ![c] = "waiting"] /\ pc[c] = "idle"
        /\ since' = [since EXCEPT ![c] = [f \in Files |-> {disk[f].content}]]
        /\ UNCHANGED <<fileVars, stamp, loaded, todo, taken, parsed>>
    BY <1>3 DEF Call, Go
  <2>2. \A d \in Callers : Witness(d)' => Witness(d) /\ d # c /\ since'[d] = since[d] /\ pc'[d] = pc[d]
    BY <1>2, <2>1 DEF Witness
  <2>3. \A d \in Callers, f \in Files : pc'[d] # "idle" => disk'[f].content \in since'[d][f]
    BY <1>2, <2>1 DEF FreshInv, fileVars
  <2>4. QED BY <2>1, <2>2, <2>3 DEF FreshInv, FreshOf, Matches, Witness, fileVars
<1>4. CASE Lock(c)
  <2>1. /\ pc' = [pc EXCEPT ![c] = "looking"] /\ pc[c] = "waiting"
        /\ todo' = Present /\ DOMAIN taken' = {}
        /\ UNCHANGED <<fileVars, stamp, loaded, parsed, since>>
    BY <1>4, NothingIs DEF Lock, Go
  <2>2. \A d \in Callers : pc'[d] # "reading"
    BY <1>2, <1>4, <2>1 DEF Lock, LockFree
  <2>3. \A d \in Callers : Witness(d)' => pc[d] # "idle"
    BY <1>2, <2>1 DEF Witness
  <2>4. \A f \in Files : f \notin Present => disk[f].content = NoFile
    BY DEF Present
  <2>5. \A d \in Callers : pc'[d] # "idle" => pc[d] # "idle"
    BY <1>2, <2>1
  <2>6. \A d \in Callers : pc'[d] = "copying" => pc[d] = "copying"
    BY <1>2, <2>1
  <2>7. QED BY <2>1, <2>2, <2>3, <2>4, <2>5, <2>6 DEF FreshInv, FreshOf, Matches, fileVars
<1>5. ASSUME NEW g \in Files, LookAt(c, g) PROVE FreshInv'
  <2>1. /\ pc[c] = "looking" /\ g \in Present /\ g \in todo /\ todo' = todo \ {g}
        /\ UNCHANGED <<fileVars, stamp, loaded, pc, parsed, since>>
    BY <1>5 DEF LookAt, IsNext
  <2>2. /\ DOMAIN taken' = DOMAIN taken \cup {g} /\ taken'[g] = Entry(disk[g])
        /\ \A f \in DOMAIN taken : f # g => taken'[f] = taken[f]
    BY <1>5 DEF LookAt, With
  <2>3. \A d \in Callers : pc[d] # "reading"
    BY <2>1 DEF TInv, OneHolds, Holds
  <2>4. g \in DOMAIN stamp /\ taken'[g] = stamp[g] /\ ~ambiguous => Matches(loaded, g, disk[g].content)
    BY <2>1, <2>2 DEF LoadedInv, Agree
  <2>5. \A d \in Callers : Witness(d) => disk[g].content \in since[d][g]
    BY DEF FreshInv, Witness
  <2>6. ASSUME NEW d \in Callers, NEW f \in Files, Witness(d)
        PROVE  /\ f \notin todo' \cup DOMAIN taken' => NoFile \in since[d][f]
               /\ f \in DOMAIN taken' \cap DOMAIN stamp /\ taken'[f] = stamp[f] /\ ~ambiguous =>
                    FreshOf(d, loaded, f)
    <3>1. CASE f = g
      BY <2>2, <2>4, <2>5, <2>6, <3>1 DEF FreshOf
    <3>2. CASE f # g
      BY <2>1, <2>2, <2>6, <3>2 DEF FreshInv
    <3>3. QED BY <3>1, <3>2
  <2>7. QED BY <2>1, <2>3, <2>6 DEF FreshInv, FreshOf, Matches, Witness, fileVars
<1>6. ASSUME \/ Copy(c)
             \/ \E f \in Files : FileGone(c, f)
      PROVE  FreshInv'
  <2>1. /\ pc' = [pc EXCEPT ![c] = "idle"]
        /\ since' = [since EXCEPT ![c] = [f \in Files |-> {}]]
        /\ UNCHANGED <<fileVars, stamp, loaded, parsed>>
    BY <1>6 DEF Copy, FileGone, Return, Go
  <2>2. \A d \in Callers : pc'[d] \notin {"looking", "reading"}
    BY <1>2, <1>6, <2>1 DEF Copy, FileGone, LockFree, TInv, OneHolds, Holds
  <2>3. \A d \in Callers : pc'[d] # "idle" => pc'[d] = pc[d] /\ since'[d] = since[d]
    BY <1>2, <2>1
  <2>4. QED BY <2>1, <2>2, <2>3 DEF FreshInv, FreshOf, Matches, fileVars
<1>7. CASE Compare(c)
  <2>1. /\ pc[c] = "looking" /\ todo = {} /\ UNCHANGED <<fileVars, stamp, loaded, parsed, since>>
    BY <1>7 DEF Compare
  <2>2. \A d \in Callers, f \in Files : Witness(d) /\ f \notin DOMAIN taken => NoFile \in since[d][f]
    BY <2>1 DEF FreshInv
  <2>3. CASE taken = stamp
    <3>1. pc' = [pc EXCEPT ![c] = "copying"]
      BY <1>7, <2>3 DEF Compare, Go
    <3>2. \A d \in Callers : pc'[d] \notin {"looking", "reading"}
      BY <1>2, <2>1, <3>1 DEF TInv, OneHolds, Holds
    <3>3. ASSUME NEW f \in Files, ~ambiguous PROVE FreshOf(c, loaded, f)
      <4>1. CASE f \in DOMAIN taken
        BY <2>1, <2>3, <3>3, <4>1 DEF FreshInv, Witness
      <4>2. CASE f \notin DOMAIN taken
        <5>1. NoFile \in since[c][f] /\ f \notin DOMAIN loaded
          BY <2>1, <2>2, <2>3, <4>2 DEF Witness, LoadedInv
        <5>2. QED BY <5>1, NoFileUnreadable DEF FreshOf, Matches
      <4>3. QED BY <4>1, <4>2
    <3>4. \A d \in Callers : d # c => pc'[d] = pc[d]
      BY <1>2, <3>1
    <3>5. QED BY <2>1, <3>2, <3>3, <3>4 DEF FreshInv, FreshOf, Matches, fileVars
  <2>4. CASE taken # stamp
    <3>1. pc' = [pc EXCEPT ![c] = "reading"] /\ todo' = DOMAIN taken /\ taken' = taken
      BY <1>7, <2>4 DEF Compare, Go
    <3>2. \A d \in Callers : pc'[d] # "looking" /\ (Witness(d)' <=> Witness(d))
                             /\ (pc'[d] = "copying" <=> pc[d] = "copying")
                             /\ (pc'[d] = "idle" <=> pc[d] = "idle")
      BY <1>2, <2>1, <3>1 DEF TInv, OneHolds, Holds, Witness
    <3>3. QED BY <2>1, <2>2, <3>1, <3>2 DEF FreshInv, FreshOf, Matches, fileVars
  <2>5. QED BY <2>3, <2>4
<1>8. ASSUME NEW g \in Files, ReadFile(c, g) PROVE FreshInv'
  <2>1. /\ pc[c] = "reading" /\ g \in todo /\ todo' = todo \ {g}
        /\ UNCHANGED <<fileVars, stamp, loaded, pc, taken, since>>
    BY <1>8 DEF ReadFile, IsNext
  <2>2. g \notin DOMAIN parsed
    BY <2>1 DEF ReadingInv
  <2>3. /\ Matches(parsed', g, disk[g].content)
        /\ DOMAIN parsed' \subseteq DOMAIN parsed \cup {g} /\ DOMAIN parsed \subseteq DOMAIN parsed'
        /\ \A f \in DOMAIN parsed : parsed'[f] = parsed[f]
    BY <1>8, <2>2, ReadFileMatches
  <2>4. \A d \in Callers : pc[d] # "looking"
    BY <2>1 DEF TInv, OneHolds, Holds
  <2>5. ASSUME NEW d \in Callers, NEW f \in Files, Witness(d), f \in DOMAIN taken \ todo'
        PROVE  \E x \in since[d][f] : Matches(parsed', f, x)
    <3>1. CASE f = g
      <4>1. disk[g].content \in since[d][g]
        BY <2>5 DEF FreshInv, Witness
      <4>2. QED BY <2>3, <3>1, <4>1
    <3>2. CASE f # g
      <4>1. FreshOf(d, parsed, f)
        BY <2>1, <2>5, <3>2 DEF FreshInv
      <4>2. \A x : Matches(parsed, f, x) => Matches(parsed', f, x)
        BY <2>3, <3>2 DEF Matches
      <4>3. QED BY <4>1, <4>2 DEF FreshOf
    <3>3. QED BY <3>1, <3>2
  <2>6. \A d \in Callers, f \in Files :
          Witness(d) /\ f \in DOMAIN taken' \ todo' => FreshOf(d, parsed, f)'
    BY <2>1, <2>5 DEF FreshOf, Matches
  <2>7. QED BY <2>1, <2>4, <2>6 DEF FreshInv, FreshOf, Matches, Witness, fileVars
<1>9. CASE Publish(c)
  <2>1. /\ pc[c] = "reading" /\ todo = {} /\ loaded' = parsed
        /\ pc' = [pc EXCEPT ![c] = "copying"] /\ UNCHANGED <<fileVars, since>>
    BY <1>9 DEF Publish, Go
  <2>2. \A d \in Callers : pc'[d] \notin {"looking", "reading"}
    BY <1>2, <2>1 DEF TInv, OneHolds, Holds
  <2>3. ASSUME NEW d \in Callers, NEW f \in Files, Witness(d) PROVE FreshOf(d, parsed, f)
    <3>1. CASE f \in DOMAIN taken
      BY <2>1, <2>3, <3>1 DEF FreshInv
    <3>2. CASE f \notin DOMAIN taken
      <4>1. NoFile \in since[d][f] /\ f \notin DOMAIN parsed
        BY <2>1, <2>3, <3>2 DEF FreshInv, ReadingInv
      <4>2. QED BY <4>1, NoFileUnreadable DEF FreshOf, Matches
    <3>3. QED BY <3>1, <3>2
  <2>4. \A d \in Callers : /\ pc'[d] = "copying" => Witness(d)
                           /\ pc'[d] # "idle" => pc[d] # "idle"
    BY <1>2, <2>1 DEF Witness
  <2>5. \A d \in Callers, f \in Files : pc'[d] = "copying" => FreshOf(d, loaded, f)'
    BY <2>1, <2>3, <2>4 DEF FreshOf, Matches
  <2>6. QED BY <2>1, <2>2, <2>4, <2>5 DEF FreshInv, fileVars
<1>10. QED BY <1>3, <1>4, <1>5, <1>6, <1>7, <1>8, <1>9 DEF CallerStep

LEMMA NextFreshInv == RefreshInv /\ FreshInv /\ [Next]_vars => FreshInv'
<1>1. FreshInv /\ UNCHANGED vars => FreshInv'
  BY DEF vars, FreshInv, FreshOf, Matches, Witness
<1>2. QED BY <1>1, CallerFresh, EditFresh DEF Next, RefreshInv

\* What list answers about a file is what the file held at some moment of the
\* call, also when another thread refreshed in its place.
THEOREM AnswersAreFreshHolds == Spec => AnswersAreFresh
<1>1. ASSUME RefreshInv, FreshInv, NEW c \in Callers,
             pc[c] = "copying", ~ambiguous, NEW f \in Files
      PROVE  \E x \in since[c][f] :
               LET alone == DetectorsOf([g \in {f} |-> x])
               IN /\ f \in DOMAIN loaded <=> f \in DOMAIN alone
                  /\ f \in DOMAIN loaded => loaded[f] = alone[f]
  <2>1. PICK x \in since[c][f] : Matches(loaded, f, x)
    BY <1>1 DEF FreshInv, FreshOf
  <2>2. DOMAIN DetectorsOf([g \in {f} |-> x]) = {g \in {f} : x \in Readable}
    BY DEF DetectorsOf
  <2>3. x \in Readable => DetectorsOf([g \in {f} |-> x])[f] = Parse(x)
    BY DEF DetectorsOf
  <2>4. WITNESS x \in since[c][f]
  <2>5. QED BY <2>1, <2>2, <2>3 DEF Matches
<1>2. RefreshInv /\ FreshInv =>
        [\A c \in Callers : pc[c] = "copying" /\ pc'[c] = "idle" /\ ~ambiguous =>
           \A f \in Files : \E x \in since[c][f] :
             LET alone == DetectorsOf([g \in {f} |-> x])
             IN /\ f \in DOMAIN loaded <=> f \in DOMAIN alone
                /\ f \in DOMAIN loaded => loaded[f] = alone[f]]_vars
  BY <1>1
<1>3. QED
  BY <1>2, InitFreshInv, NextFreshInv, RefreshInvHolds, PTL DEF Spec, AnswersAreFresh
===============================================================================
