-------------------------- MODULE SummaryLogProofs --------------------------
(***************************************************************************)
(* What the files of the summary log hold, for any number of files, any    *)
(* size, any lines, and any faults, kills and restarts.                    *)
(*                                                                         *)
(* The invariant has a part for the writes and one for the shutdown.  The  *)
(* lines in the files and those still queued are in order (Ordered,        *)
(* Pending), and unless a rename failed, a rotation finds the place free   *)
(* to which it moves a file, but for that of the oldest (Rotation).  The   *)
(* line of a handler that submitted one is queued, in a file, lost by its  *)
(* append, or older than every line in the files (Accounted).  After the   *)
(* drain nobody is connected, so nobody else is answered; whoever was, has *)
(* submitted its line, or was detached (Flushed).                          *)
(*                                                                         *)
(* A write changes one file or two neighbouring ones.  What is read from   *)
(* all files is their contents joined (Rejoined), so a move takes what the *)
(* overwritten file held out of it (TakenOut), and by Rotation that is     *)
(* nothing, or the oldest lines, or a rename has failed (RotatedLines).    *)
(***************************************************************************)
EXTENDS SummaryLog, SequenceTheorems, TLAPS

\* Of these facts, only those on numbers and sequences are used: no limit of the store matters.
F == INSTANCE Facts WITH MaxEntries <- 0, MaxTotalBytes <- 0, MaxEntryBytes <- 0, Window <- 0

Pending ==
  \A i \in DOMAIN queue :
    /\ queue[i] > written
    /\ \A j \in DOMAIN queue : i < j => queue[i] < queue[j]

Ordered ==
  \A i \in 0..MaxRotated : \A k \in DOMAIN Content(i) :
    /\ Content(i)[k] <= written
    /\ \A j \in 0..MaxRotated : \A l \in DOMAIN Content(j) :
         i > j \/ (i = j /\ k < l) => Content(i)[k] < Content(j)[l]

Rotation ==
  at = "rotate" =>
    /\ Content(0) # <<>>
    /\ damaged \/ index >= MaxRotated - 1 \/ Content(index + 1) = <<>>

Queued(line) == \E k \in DOMAIN queue : queue[k] = line

Inside(line) == \E i \in 0..MaxRotated : \E k \in DOMAIN Content(i) : Content(i)[k] = line

Older(line) ==
  /\ \E i \in 0..MaxRotated : Content(i) # <<>>
  /\ \A i \in 0..MaxRotated : \A k \in DOMAIN Content(i) : line < Content(i)[k]

IsAccounted(line) == Queued(line) \/ line \in lost \/ damaged \/ Inside(line) \/ Older(line)

HasLine == {"logging", "done", "captured"}

Accounted ==
  \A r \in Requests : handler[r] \in HasLine => lineOf[r] >= 1 /\ IsAccounted(lineOf[r])

Flushed ==
  /\ \A r \in answered : handler[r] \in {"done", "detached", "captured"}
  /\ process \in {"flushing", "exited"} =>
       open = {} /\ \A r \in answered : handler[r] = "done" => lineOf[r] <= tail
  /\ process = "exited" => \A line \in 1..tail : ~Queued(line)

FilesTyped == files \in [0..MaxRotated -> Seq(1..MaxLines) \cup {None}]

LinesTyped ==
  /\ submitted \in 0..MaxLines /\ queue \in Seq(1..submitted) /\ written \in 0..submitted
  /\ lost \subseteq 1..submitted /\ lineOf \in [Requests -> 0..submitted] /\ tail \in 0..submitted

WriteTyped ==
  /\ at \in {"stat", "rotate", "append"} /\ index \in 0..MaxRotated
  /\ damaged \in BOOLEAN /\ faults \in 0..MaxFaults

HandlersTyped ==
  /\ open \subseteq Requests /\ answered \subseteq Requests
  /\ handler \in [Requests -> Places] /\ process \in Running \cup Over

Typed == FilesTyped /\ LinesTyped /\ WriteTyped /\ HandlersTyped

WritesInv == Typed /\ Pending /\ Ordered /\ Rotation

LogInv == WritesInv /\ Accounted /\ Flushed

-----------------------------------------------------------------------------
(* Types *)

LEMMA Weaker ==
  ASSUME NEW S, NEW T, S \subseteq T, NEW s \in Seq(S)
  PROVE  s \in Seq(T)
OBVIOUS

LEMMA Moves ==
  ASSUME NEW S, NEW n \in Nat, NEW f \in [0..n -> S], NEW none \in S, NEW i \in 0..n - 1
  PROVE  [f EXCEPT ![i] = none, ![i + 1] = f[i]] \in [0..n -> S]
OBVIOUS

LEMMA TypedIsTypeOK == Typed => TypeOK
BY Zenon DEF TypeOK, Typed, FilesTyped, LinesTyped, WriteTyped, HandlersTyped

LEMMA InitTypes == Init => Typed
<1> SUFFICES ASSUME Init PROVE Typed
    OBVIOUS
<1>1. files \in [0..MaxRotated -> Seq(1..FoundLines) \cup {None}]
      BY FoundAssumption DEF Init
<1>2. \A s \in Seq(1..FoundLines) : s \in Seq(1..MaxLines)
  <2>1. 1..FoundLines \subseteq 1..MaxLines
        BY LogAssumption
  <2> QED  BY <2>1, Weaker
<1>3. FilesTyped
      BY <1>1, <1>2 DEF FilesTyped
<1>4. LinesTyped
  <2>1. queue \in Seq(1..submitted)
        BY DEF Init
  <2> QED  BY <2>1, LogAssumption DEF Init, AllIdle, LinesTyped
<1>5. WriteTyped
  <2>1. at = "stat" /\ index = 0 /\ faults = 0 /\ damaged = FALSE
        BY DEF Init
  <2>2. index \in 0..MaxRotated /\ faults \in 0..MaxFaults
        BY <2>1, LogAssumption
  <2> QED  BY <2>1, <2>2, Zenon DEF WriteTyped
<1>6. HandlersTyped
      BY DEF Init, AllIdle, HandlersTyped, Places, Running
<1> QED  BY <1>3, <1>4, <1>5, <1>6 DEF Typed

LEMMA WriteTypes == Typed /\ Write => Typed'
<1> SUFFICES ASSUME Typed, Write PROVE Typed'
    OBVIOUS
<1> USE LogAssumption
<1>1. FilesTyped /\ LinesTyped /\ WriteTyped /\ HandlersTyped
      BY DEF Typed
<1>2. HandlersTyped'
      BY <1>1 DEF HandlersTyped, Write, handlerVars
<1>3. WriteTyped'
  <2>1. CASE Stat
        BY <1>1, <2>1 DEF WriteTyped, Stat, Fault, FirstIndex
  <2>2. CASE Unlink
        BY <1>1, <2>2 DEF WriteTyped, Unlink, Rotating, Fault
  <2>3. CASE Rename
    <3>1. PICK i \in 0..MaxRotated - 1 : Rotating(i)
          BY <2>3 DEF Rename
    <3>2. at' \in {"stat", "rotate", "append"} /\ index' \in 0..MaxRotated
          BY <1>1, <3>1 DEF WriteTyped, Rotating
    <3>3. damaged' \in BOOLEAN
          BY <1>1, <2>3, Zenon DEF Rename, WriteTyped
    <3>4. faults' \in 0..MaxFaults
          BY <1>1, <2>3 DEF Rename, WriteTyped, Fault
    <3> QED  BY <3>2, <3>3, <3>4, Zenon DEF WriteTyped
  <2>4. CASE AppendFile
        BY <1>1, <2>4 DEF WriteTyped, AppendFile, Fault
  <2> QED  BY <2>1, <2>2, <2>3, <2>4 DEF Write
<1>4. LinesTyped'
  <2>1. UNCHANGED <<submitted, lineOf, tail>>
        BY DEF Write, handlerVars
  <2>2. CASE UNCHANGED <<queue, written, lost>>
        BY <1>1, <2>1, <2>2 DEF LinesTyped
  <2>3. CASE AppendFile
    <3>1. Head(queue) \in 1..submitted /\ Tail(queue) \in Seq(1..submitted)
          BY <1>1, <2>3 DEF LinesTyped, AppendFile, Writing
    <3>2. /\ written' \in {written, Head(queue)} /\ lost' \in {lost, lost \cup {Head(queue)}}
          /\ queue' = Tail(queue)
          BY <2>3, Zenon DEF AppendFile
    <3>3. written' \in 0..submitted /\ lost' \subseteq 1..submitted
          BY <1>1, <3>1, <3>2 DEF LinesTyped
    <3> QED  BY <1>1, <2>1, <3>1, <3>2, <3>3 DEF LinesTyped
  <2> QED  BY <2>2, <2>3 DEF Write, Stat, Unlink, Rename, Rotating
<1>5. FilesTyped'
  <2> DEFINE File == Seq(1..MaxLines) \cup {None}
  <2>1. files \in [0..MaxRotated -> File] /\ None \in File /\ MaxRotated \in Nat
        BY <1>1 DEF FilesTyped
  <2>2. CASE Stat \/ Unlink
        BY <2>1, <2>2 DEF FilesTyped, Stat, Unlink
  <2>3. CASE Rename
    <3>1. CASE UNCHANGED files
          BY <2>1, <3>1 DEF FilesTyped
    <3>2. CASE \E i \in 0..MaxRotated - 1 : files' = [files EXCEPT ![i] = None, ![i + 1] = files[i]]
      <4> HIDE DEF File
      <4>1. files' \in [0..MaxRotated -> File]
            BY <2>1, <3>2, Moves
      <4> QED  BY <4>1 DEF FilesTyped, File
    <3> QED  BY <2>3, <3>1, <3>2, Zenon DEF Rename
  <2>4. CASE AppendFile
    <3>1. CASE UNCHANGED files
          BY <2>1, <3>1 DEF FilesTyped
    <3>2. CASE files' = [files EXCEPT ![0] = Append(IF @ = None THEN <<>> ELSE @, Head(queue))]
      <4>1. Head(queue) \in 1..MaxLines
            BY <1>1, <2>4 DEF LinesTyped, AppendFile, Writing
      <4>2. \A s \in Seq(1..MaxLines) : Append(s, Head(queue)) \in Seq(1..MaxLines)
            BY <4>1
      <4>3. (IF files[0] = None THEN <<>> ELSE files[0]) \in Seq(1..MaxLines)
        <5>1. 0 \in 0..MaxRotated /\ <<>> \in Seq(1..MaxLines)
              OBVIOUS
        <5>2. files[0] \in Seq(1..MaxLines) \cup {None}
              BY <2>1, <5>1, Zenon
        <5> QED  BY <5>1, <5>2, Zenon
      <4>4. PICK x \in Seq(1..MaxLines) : files' = [files EXCEPT ![0] = x]
            BY <3>2, <4>2, <4>3
      <4> QED  BY <2>1, <4>4 DEF FilesTyped
    <3> QED  BY <2>4, <3>1, <3>2 DEF AppendFile
  <2> QED  BY <2>2, <2>3, <2>4 DEF Write
<1> QED  BY <1>2, <1>3, <1>4, <1>5 DEF Typed

LEMMA SubmitTypes ==
  ASSUME Typed, NEW r \in Requests, Submit(r)
  PROVE  /\ submitted' \in 0..MaxLines /\ submitted' = submitted + 1 /\ queue' \in Seq(1..submitted')
         /\ lineOf' \in [Requests -> 0..submitted']
<1>1. submitted \in Nat /\ submitted' = submitted + 1 /\ submitted' \in 0..MaxLines
      BY LogAssumption DEF Typed, LinesTyped, Submit
<1>2. queue \in Seq(1..submitted')
  <2>1. 1..submitted \subseteq 1..submitted'
        BY <1>1
  <2> QED  BY <2>1, Weaker DEF Typed, LinesTyped
<1>3. queue' \in Seq(1..submitted')
      BY <1>1, <1>2 DEF Submit
<1> QED  BY <1>1, <1>3 DEF Typed, LinesTyped, Submit

Submits(r) == Logs(r) \/ StreamEnds(r) \/ LogsOrphan(r)

AnyStep(r) == Connects(r) \/ Closes(r) \/ Sends(r) \/ Detaches(r) \/ Submits(r)

LEMMA HandlerTypes ==
  ASSUME Typed, NEW r \in Requests,
         AnyStep(r)
  PROVE  Typed'
<1>1. FilesTyped /\ LinesTyped /\ WriteTyped /\ HandlersTyped
      BY DEF Typed
<1>2. FilesTyped' /\ WriteTyped'
      BY <1>1 DEF FilesTyped, WriteTyped, AnyStep, Submits, Connects, Closes, Logs, Sends, StreamEnds, Detaches, LogsOrphan, writeVars
<1>3. HandlersTyped'
      BY <1>1 DEF HandlersTyped, Places, AnyStep, Submits, Connects, Closes, Logs, Sends, StreamEnds, Detaches, LogsOrphan
<1>4. LinesTyped'
  <2>1. CASE Connects(r) \/ Closes(r) \/ Sends(r) \/ Detaches(r)
        BY <1>1, <2>1 DEF LinesTyped, Connects, Closes, Sends, Detaches, writeVars
  <2>2. CASE Submits(r)
    <3>1. /\ submitted' \in 0..MaxLines /\ submitted' = submitted + 1 /\ queue' \in Seq(1..submitted')
          /\ lineOf' \in [Requests -> 0..submitted']
          BY <2>2, SubmitTypes DEF Submits, Logs, StreamEnds, LogsOrphan
    <3>2. 0..submitted \subseteq 0..submitted' /\ 1..submitted \subseteq 1..submitted'
          BY <1>1, <3>1 DEF LinesTyped
    <3>3. written' \in 0..submitted' /\ lost' \subseteq 1..submitted' /\ tail' \in 0..submitted'
          BY <1>1, <2>2, <3>2, Zenon DEF LinesTyped, Submits, Logs, StreamEnds, LogsOrphan, writeVars
    <3> QED  BY <3>1, <3>3, Zenon DEF LinesTyped
  <2> QED  BY <2>1, <2>2 DEF AnyStep
<1> QED  BY <1>2, <1>3, <1>4 DEF Typed

ProcessStep == Signal \/ Drained \/ Exits \/ DrainTimesOut \/ Killed

LEMMA ProcessTypes ==
  ASSUME Typed, ProcessStep \/ Restarts \/ UNCHANGED vars
  PROVE  Typed'
<1>1. FilesTyped /\ LinesTyped /\ WriteTyped /\ HandlersTyped
      BY DEF Typed
<1>2. CASE ProcessStep
  <2>1. UNCHANGED <<writeVars, handlerVars, submitted, queue>> /\ tail' \in {tail, submitted}
        BY <1>2 DEF ProcessStep, Signal, Drained, Exits, DrainTimesOut, Killed
  <2>2. process' \in Running \cup Over
        BY <1>2 DEF ProcessStep, Signal, Drained, Exits, DrainTimesOut, Killed, Running, Over
  <2>3. tail' \in 0..submitted
        BY <1>1, <2>1 DEF LinesTyped
  <2>4. FilesTyped' /\ WriteTyped' /\ HandlersTyped' /\ LinesTyped'
        BY <1>1, <2>1, <2>2, <2>3
        DEF FilesTyped, WriteTyped, HandlersTyped, LinesTyped, writeVars, handlerVars
  <2> QED  BY <2>4 DEF Typed
<1>3. CASE Restarts
  <2>1. FilesTyped' /\ WriteTyped' /\ HandlersTyped'
        BY <1>1, <1>3, LogAssumption
        DEF FilesTyped, WriteTyped, HandlersTyped, Restarts, AllIdle, Places, Running
  <2>2. queue' \in Seq(1..submitted) /\ lineOf' \in [Requests -> 0..submitted]
        BY <1>1, <1>3 DEF LinesTyped, Restarts, AllIdle
  <2>3. LinesTyped'
        BY <1>1, <1>3, <2>2 DEF LinesTyped, Restarts
  <2> QED  BY <2>1, <2>3 DEF Typed
<1>4. CASE UNCHANGED vars
      BY <1>1, <1>4 DEF Typed, FilesTyped, LinesTyped, WriteTyped, HandlersTyped, vars, writeVars,
         handlerVars
<1> QED  BY <1>2, <1>3, <1>4

LEMMA TypeStep == Typed /\ [Next]_vars => Typed'
BY WriteTypes, HandlerTypes, ProcessTypes DEF Next, AnyStep, Submits, ProcessStep

-----------------------------------------------------------------------------
(* The writes *)

LEMMA ContentIs ==
  ASSUME FilesTyped, NEW i \in 0..MaxRotated
  PROVE  /\ Content(i) \in Seq(1..MaxLines)
         /\ files[i] = None => Content(i) = <<>>
         /\ files[i] # None => Content(i) = files[i]
<1>1. <<>> \in Seq(1..MaxLines)
      OBVIOUS
<1>2. files[i] \in Seq(1..MaxLines) \cup {None}
      BY Zenon DEF FilesTyped
<1> QED  BY <1>1, <1>2, Zenon DEF Content

\* What a step does to the files.
Same == \A j \in 0..MaxRotated : Content(j)' = Content(j)

Removed ==
  /\ Content(MaxRotated)' = <<>>
  /\ \A j \in 0..MaxRotated - 1 : Content(j)' = Content(j)

Moved(i) ==
  /\ Content(i)' = <<>> /\ Content(i + 1)' = Content(i)
  /\ \A j \in (0..MaxRotated) \ {i, i + 1} : Content(j)' = Content(j)

Grown(x) ==
  /\ Content(0)' = Append(Content(0), x)
  /\ \A j \in 1..MaxRotated : Content(j)' = Content(j)

Keeps == queue' = queue /\ written' = written /\ lost' = lost

Rotates ==
  \/ Same
  \/ Removed /\ Content(0) # <<>>
  \/ \E i \in 0..MaxRotated - 1 :
       /\ Moved(i) /\ Content(0) # <<>>
       /\ damaged \/ i = MaxRotated - 1 \/ Content(i + 1) = <<>>

Appends ==
  /\ queue # <<>> /\ queue' = Tail(queue)
  /\ \/ Grown(Head(queue)) /\ written' = Head(queue) /\ lost' = lost
     \/ Same /\ written' = written /\ lost' = lost \cup {Head(queue)}

LEMMA StatEffect ==
  ASSUME Typed, Rotation, Stat
  PROVE  Keeps /\ Same /\ Rotation' /\ UNCHANGED damaged
<1>1. Keeps /\ Same /\ damaged' = damaged
      BY DEF Stat, Keeps, Same, Content
<1>2. CASE at' = "rotate"
  <2>1. Full /\ index' = MaxRotated
        BY <1>2 DEF Stat, FirstIndex
  <2>2. files[0] # None /\ Len(files[0]) >= 1
        BY <2>1, LogAssumption DEF Full
  <2>3. 0 \in 0..MaxRotated /\ MaxRotated \in Nat
        BY LogAssumption
  <2>4. Content(0) = files[0] /\ Content(0)' = Content(0)
        BY <1>1, <2>2, <2>3, ContentIs DEF Typed, Same
  <2>5. Content(0)' # <<>>
        BY <2>2, <2>4
  <2> QED  BY <1>1, <2>1, <2>3, <2>5 DEF Rotation
<1> QED  BY <1>1, <1>2 DEF Rotation

LEMMA UnlinkEffect ==
  ASSUME Typed, Rotation, Unlink
  PROVE  Keeps /\ Rotates /\ Rotation' /\ UNCHANGED damaged
<1>1. Keeps /\ damaged' = damaged /\ at = "rotate" /\ index = MaxRotated /\ MaxRotated \in Nat \ {0}
      BY LogAssumption DEF Unlink, Rotating, Keeps
<1>2. index' = MaxRotated - 1
      BY <1>1 DEF Unlink, Rotating
<1>3. Content(0) # <<>>
      BY <1>1 DEF Rotation
<1>4. CASE files' = files
  <2>1. Same
        BY <1>4 DEF Same, Content
  <2> QED  BY <1>1, <1>2, <1>3, <2>1 DEF Rotation, Rotates, Same
<1>5. CASE files' = [files EXCEPT ![MaxRotated] = None]
  <2>1. files'[MaxRotated] = None /\ \A j \in 0..MaxRotated - 1 : files'[j] = files[j]
        BY <1>1, <1>5 DEF Typed, FilesTyped
  <2>2. Removed
        BY <2>1 DEF Removed, Content
  <2>3. Content(0)' = Content(0)
        BY <1>1, <2>2 DEF Removed
  <2> QED  BY <1>1, <1>2, <1>3, <2>2, <2>3 DEF Rotation, Rotates
<1> QED  BY <1>4, <1>5 DEF Unlink

LEMMA RenameEffect ==
  ASSUME Typed, Rotation, Rename
  PROVE  Keeps /\ Rotates /\ Rotation' /\ (damaged' = damaged \/ (Same /\ damaged' = TRUE))
<1>1. PICK i \in 0..MaxRotated - 1 :
        /\ Rotating(i)
        /\ \/ /\ files' = IF files[i] = None THEN files
                          ELSE [files EXCEPT ![i] = None, ![i + 1] = files[i]]
              /\ damaged' = damaged
           \/ damaged' = TRUE /\ files' = files
      BY Zenon DEF Rename
<1>2. /\ Keeps /\ at = "rotate" /\ index = i /\ MaxRotated \in Nat \ {0}
      /\ i \in 0..MaxRotated /\ i + 1 \in 0..MaxRotated
      BY <1>1, LogAssumption DEF Rotating, Keeps
<1>3. at' = "rotate" => i > 0 /\ index' = i - 1
      BY <1>1 DEF Rotating
<1>4. /\ Content(0) # <<>>
      /\ damaged \/ i = MaxRotated - 1 \/ Content(i + 1) = <<>>
  <2>1. /\ Content(0) # <<>>
        /\ damaged \/ i >= MaxRotated - 1 \/ Content(i + 1) = <<>>
        BY <1>2, Zenon DEF Rotation
  <2>2. i >= MaxRotated - 1 => i = MaxRotated - 1
        BY <1>2
  <2> QED  BY <2>1, <2>2, Zenon
<1>5. CASE files' = files /\ (damaged' = TRUE \/ (files[i] = None /\ damaged' = damaged))
  <2>1. Same
        BY <1>5 DEF Same, Content
  <2>2. damaged' \/ files[i] = None
        BY <1>5
  <2>3. damaged' \/ Content(i)' = <<>>
        BY <2>1, <2>2, <1>2, ContentIs DEF Typed, Same
  <2>4. Content(0)' = Content(0)
        BY <2>1, <1>2 DEF Same
  <2>5. Rotation'
        BY <1>2, <1>3, <1>4, <2>3, <2>4 DEF Rotation
  <2> QED  BY <1>2, <1>5, <2>1, <2>5 DEF Rotates
<1>6. CASE files[i] # None /\ damaged' = damaged /\ files' = [files EXCEPT ![i] = None, ![i + 1] = files[i]]
  <2>1. /\ files'[i] = None /\ files'[i + 1] = files[i]
        /\ \A j \in (0..MaxRotated) \ {i, i + 1} : files'[j] = files[j]
        BY <1>2, <1>6 DEF Typed, FilesTyped
  <2>2. Moved(i)
        BY <2>1 DEF Moved, Content
  <2>3. i > 0 => Content(0)' = Content(0)
        BY <1>2, <2>2 DEF Moved
  <2>4. Rotation'
        BY <1>2, <1>3, <1>4, <2>2, <2>3 DEF Rotation, Moved
  <2> QED  BY <1>2, <1>4, <1>6, <2>2, <2>4 DEF Rotates
<1> QED  BY <1>1, <1>5, <1>6, Zenon

LEMMA AppendEffect ==
  ASSUME Typed, AppendFile
  PROVE  Appends /\ Rotation' /\ UNCHANGED damaged
<1>1. queue # <<>> /\ queue' = Tail(queue) /\ at' = "stat" /\ damaged' = damaged
      BY DEF AppendFile, Writing
<1>2. Rotation'
      BY <1>1 DEF Rotation
<1>3. CASE files' = files /\ written' = written /\ lost' = lost \cup {Head(queue)}
      BY <1>1, <1>2, <1>3 DEF Appends, Same, Content
<1>4. CASE /\ files' = [files EXCEPT ![0] = Append(IF @ = None THEN <<>> ELSE @, Head(queue))]
           /\ written' = Head(queue) /\ lost' = lost
  <2>1. 0 \in 0..MaxRotated /\ Head(queue) \in 1..MaxLines
        BY <1>1, LogAssumption DEF Typed, LinesTyped
  <2>2. /\ files'[0] = Append(Content(0), Head(queue))
        /\ \A j \in 1..MaxRotated : files'[j] = files[j]
        BY <1>4, <2>1 DEF Typed, FilesTyped, Content
  <2>3. Append(Content(0), Head(queue)) \in Seq(1..MaxLines)
        BY <2>1, ContentIs DEF Typed
  <2>4. files'[0] # None
        BY <2>2, <2>3, FoundAssumption
  <2>5. Grown(Head(queue))
        BY <2>2, <2>4 DEF Grown, Content
  <2> QED  BY <1>1, <1>2, <1>4, <2>5 DEF Appends
<1> QED  BY <1>3, <1>4, Zenon DEF AppendFile

-----------------------------------------------------------------------------
(* The order of the lines *)

LEMMA LineIsNat ==
  ASSUME FilesTyped, NEW i \in 0..MaxRotated, NEW k \in DOMAIN Content(i)
  PROVE  Content(i)[k] \in Nat /\ k \in Nat /\ DOMAIN Content(i) = 1..Len(Content(i))
<1>1. Content(i) \in Seq(1..MaxLines)
      BY ContentIs
<1>2. MaxLines \in Nat
      BY LogAssumption
<1> QED  BY <1>1, <1>2

\* Each file comes from a place before the rotation, and none passes another.
CameFrom(from) ==
  /\ \A i \in 0..MaxRotated : Content(i)' = <<>> \/ Content(i)' = Content(from[i])
  /\ \A i, j \in 0..MaxRotated :
       i > j /\ Content(i)' # <<>> /\ Content(j)' # <<>> => from[i] > from[j]

LEMMA RotatedFrom ==
  ASSUME Typed, Rotates
  PROVE  \E from \in [0..MaxRotated -> 0..MaxRotated] : CameFrom(from)
<1>1. CASE Same \/ Removed
  <2> DEFINE same == [i \in 0..MaxRotated |-> i]
  <2>1. \A i \in 0..MaxRotated : Content(i)' = <<>> \/ Content(i)' = Content(i)
        BY <1>1, LogAssumption DEF Same, Removed
  <2>2. CameFrom(same) /\ same \in [0..MaxRotated -> 0..MaxRotated]
        BY <2>1 DEF CameFrom
  <2> HIDE DEF same
  <2> QED  BY <2>2
<1>2. CASE \E m \in 0..MaxRotated - 1 : Moved(m)
  <2>0. PICK m \in 0..MaxRotated - 1 : Moved(m)
        BY <1>2
  <2> DEFINE from == [i \in 0..MaxRotated |-> IF i = m + 1 THEN m ELSE i]
  <2>1. m \in 0..MaxRotated /\ m + 1 \in 0..MaxRotated
        BY LogAssumption
  <2>2. \A i \in 0..MaxRotated : Content(i)' = <<>> \/ Content(i)' = Content(from[i])
        BY <2>0, <2>1 DEF Moved
  <2>3. \A i, j \in 0..MaxRotated :
          i > j /\ Content(i)' # <<>> /\ Content(j)' # <<>> => from[i] > from[j]
        BY <2>0, <2>1 DEF Moved
  <2>4. from \in [0..MaxRotated -> 0..MaxRotated]
        BY <2>1
  <2> HIDE DEF from
  <2>5. CameFrom(from)
        BY <2>2, <2>3 DEF CameFrom
  <2> QED  BY <2>4, <2>5
<1> QED  BY <1>1, <1>2, Zenon DEF Rotates

LEMMA RotatesOrder ==
  ASSUME Typed, Ordered, Rotates, written' = written
  PROVE  Ordered'
<1>1. PICK from \in [0..MaxRotated -> 0..MaxRotated] : CameFrom(from)
      BY RotatedFrom
<1>2. ASSUME NEW i \in 0..MaxRotated, NEW k \in DOMAIN Content(i)'
      PROVE  Content(i)'[k] <= written
  <2>1. Content(i)' = Content(from[i]) /\ from[i] \in 0..MaxRotated
        BY <1>1, <1>2 DEF CameFrom
  <2> QED  BY <2>1, <1>2 DEF Ordered
<1>3. ASSUME NEW i \in 0..MaxRotated, NEW k \in DOMAIN Content(i)',
             NEW j \in 0..MaxRotated, NEW l \in DOMAIN Content(j)',
             i > j \/ (i = j /\ k < l)
      PROVE  Content(i)'[k] < Content(j)'[l]
  <2>1. Content(i)' = Content(from[i]) /\ from[i] \in 0..MaxRotated
        BY <1>1, <1>3 DEF CameFrom
  <2>2. Content(j)' = Content(from[j]) /\ from[j] \in 0..MaxRotated
        BY <1>1, <1>3 DEF CameFrom
  <2>3. from[i] > from[j] \/ (from[i] = from[j] /\ k < l)
        BY <1>1, <1>3 DEF CameFrom
  <2> QED  BY <2>1, <2>2, <2>3, <1>3 DEF Ordered
<1> QED  BY <1>2, <1>3 DEF Ordered

LEMMA AppendsOrder ==
  ASSUME Typed, Ordered, Pending, Appends
  PROVE  Ordered' /\ Pending'
<1>1. /\ queue \in Seq(Nat) /\ queue # <<>> /\ queue' = Tail(queue) /\ written \in Nat
      /\ Head(queue) = queue[1] /\ 1 \in DOMAIN queue /\ queue[1] \in Nat /\ queue[1] > written
  <2>1. queue \in Seq(Nat) /\ written \in Nat
    <3>1. 1..submitted \subseteq Nat
          OBVIOUS
    <3> QED  BY <3>1, Weaker DEF Typed, LinesTyped
  <2> QED  BY <2>1 DEF Appends, Pending
<1>2. written' \in {written, queue[1]}
      BY <1>1 DEF Appends
<1>3. Pending'
  <2>1. \A i \in DOMAIN Tail(queue) : i + 1 \in DOMAIN queue /\ Tail(queue)[i] = queue[i + 1] /\ i \in Nat
        BY <1>1
  <2>2. \A i \in DOMAIN queue : queue[i] \in Nat
        BY <1>1
  <2>3. ASSUME NEW i \in DOMAIN Tail(queue)
        PROVE  Tail(queue)[i] > queue[1] /\ Tail(queue)[i] > written
        BY <1>1, <2>1, <2>2 DEF Pending
  <2>4. ASSUME NEW i \in DOMAIN Tail(queue), NEW j \in DOMAIN Tail(queue), i < j
        PROVE  Tail(queue)[i] < Tail(queue)[j]
        BY <2>1, <2>4 DEF Pending
  <2> QED  BY <1>1, <1>2, <2>3, <2>4 DEF Pending
<1>4. CASE Same
  <2>1. \A i \in 0..MaxRotated : Content(i)' = Content(i)
        BY <1>4 DEF Same
  <2>2. ASSUME NEW i \in 0..MaxRotated, NEW k \in DOMAIN Content(i) PROVE Content(i)[k] <= written'
        BY <1>1, <1>2, LineIsNat DEF Ordered, Typed
  <2> QED  BY <1>3, <2>1, <2>2 DEF Ordered
<1>5. CASE Grown(Head(queue)) /\ written' = Head(queue)
  <2> DEFINE x == queue[1]
             c == Content(0)
             d == Append(c, x)
  <2>1. /\ 0 \in 0..MaxRotated /\ Content(0)' = d /\ \A i \in 1..MaxRotated : Content(i)' = Content(i)
        /\ written' = x
        BY <1>1, <1>5, LogAssumption DEF Grown
  <2>2. /\ c \in Seq(Nat) /\ DOMAIN d = 1..Len(c) + 1 /\ DOMAIN c = 1..Len(c) /\ Len(c) \in Nat
        /\ d[Len(c) + 1] = x /\ \A k \in 1..Len(c) : d[k] = c[k]
    <3>1. c \in Seq(1..MaxLines) /\ 1..MaxLines \subseteq Nat
          BY <2>1, ContentIs DEF Typed
    <3>2. c \in Seq(Nat)
      <4> HIDE DEF c
      <4> QED  BY <3>1, Weaker
    <3> HIDE DEF c
    <3> QED  BY <1>1, <3>2
  <2> HIDE DEF d, c
  <2>3. ASSUME NEW i \in 0..MaxRotated, NEW k \in DOMAIN Content(i) PROVE Content(i)[k] < x
        BY <1>1, LineIsNat DEF Ordered, Typed
  <2>4. ASSUME NEW i \in 0..MaxRotated, NEW k \in DOMAIN Content(i)'
        PROVE  \/ i = 0 /\ k = Len(c) + 1 /\ Content(i)'[k] = x
               \/ k \in DOMAIN Content(i) /\ Content(i)'[k] = Content(i)[k]
    <3>1. CASE i = 0
          BY <2>1, <2>2, <2>4, <3>1 DEF c
    <3>2. CASE i # 0
          BY <2>1, <2>4, <3>2
    <3> QED  BY <3>1, <3>2
  <2>5. ASSUME NEW i \in 0..MaxRotated, NEW k \in DOMAIN Content(i)' PROVE Content(i)'[k] <= x
        BY <1>1, <2>3, <2>4, <2>5, LineIsNat DEF Typed
  <2>6. ASSUME NEW i \in 0..MaxRotated, NEW k \in DOMAIN Content(i)',
               NEW j \in 0..MaxRotated, NEW l \in DOMAIN Content(j)',
               i > j \/ (i = j /\ k < l)
        PROVE  Content(i)'[k] < Content(j)'[l]
    <3>1. CASE i = 0 /\ k = Len(c) + 1 /\ Content(i)'[k] = x
      <4>1. j = 0 /\ k < l
            BY <2>6, <3>1
      <4>2. l \in 1..Len(c) + 1
            BY <2>1, <2>2, <2>6, <4>1
      <4> QED  BY <3>1, <4>1, <4>2, <2>2
    <3>2. CASE k \in DOMAIN Content(i) /\ Content(i)'[k] = Content(i)[k]
      <4>1. CASE Content(j)'[l] = x
            BY <2>3, <3>2, <4>1
      <4>2. CASE l \in DOMAIN Content(j) /\ Content(j)'[l] = Content(j)[l]
            BY <2>6, <3>2, <4>2 DEF Ordered
      <4> QED  BY <2>4, <2>6, <4>1, <4>2
    <3> QED  BY <2>4, <2>6, <3>1, <3>2
  <2>7. Ordered'
        BY <2>1, <2>5, <2>6 DEF Ordered
  <2> QED  BY <1>3, <2>7
<1> QED  BY <1>4, <1>5 DEF Appends

-----------------------------------------------------------------------------
(* What becomes of a line *)

LEMMA RotatesAccounts ==
  ASSUME Typed, Ordered, Rotates, Keeps, damaged => damaged', NEW line \in Nat, IsAccounted(line)
  PROVE  IsAccounted(line)'
<1>0. MaxRotated \in Nat \ {0}
      BY LogAssumption
<1>1. CASE Queued(line) \/ line \in lost \/ damaged
      BY <1>1 DEF IsAccounted, Queued, Keeps
<1>2. CASE Same /\ (Inside(line) \/ Older(line))
      BY <1>2 DEF IsAccounted, Inside, Older, Same
<1>3. CASE Inside(line) /\ Removed /\ Content(0) # <<>>
  <2>1. PICK i \in 0..MaxRotated : \E k \in DOMAIN Content(i) : Content(i)[k] = line
        BY <1>3 DEF Inside
  <2>2. CASE i = MaxRotated
    <3>1. ASSUME NEW j \in 0..MaxRotated, NEW l \in DOMAIN Content(j)' PROVE line < Content(j)'[l]
      <4>1. j # MaxRotated /\ Content(j)' = Content(j)
            BY <1>0, <1>3, <3>1 DEF Removed
      <4> QED  BY <1>0, <2>1, <2>2, <3>1, <4>1 DEF Ordered
    <3>2. Content(0)' # <<>> /\ 0 \in 0..MaxRotated
          BY <1>0, <1>3 DEF Removed
    <3> QED  BY <3>1, <3>2 DEF IsAccounted, Older
  <2>3. CASE i # MaxRotated
    <3>1. Content(i)' = Content(i)
          BY <1>0, <1>3, <2>3 DEF Removed
    <3> QED  BY <2>1, <3>1 DEF IsAccounted, Inside
  <2> QED  BY <2>2, <2>3
<1>4. CASE Older(line) /\ Removed /\ Content(0) # <<>>
  <2>1. Content(0)' # <<>> /\ 0 \in 0..MaxRotated
        BY <1>0, <1>4 DEF Removed
  <2>2. \A i \in 0..MaxRotated : Content(i)' = <<>> \/ Content(i)' = Content(i)
        BY <1>0, <1>4 DEF Removed
  <2> QED  BY <1>4, <2>1, <2>2 DEF IsAccounted, Older
<1>5. ASSUME ~damaged, Inside(line) \/ Older(line), NEW m \in 0..MaxRotated - 1, Moved(m),
             Content(0) # <<>>, m = MaxRotated - 1 \/ Content(m + 1) = <<>>
      PROVE  IsAccounted(line)'
  <2>1. m \in 0..MaxRotated /\ m + 1 \in 0..MaxRotated
        BY <1>0
  <2>2. \E i \in 0..MaxRotated : Content(i)' # <<>>
    <3>1. CASE m = 0
          BY <1>5, <2>1, <3>1 DEF Moved
    <3>2. CASE m # 0
          BY <1>0, <1>5, <2>1, <3>2 DEF Moved
    <3> QED  BY <3>1, <3>2
  <2>3. ASSUME NEW i \in 0..MaxRotated
        PROVE  \/ Content(i)' = <<>>
               \/ i = m + 1 /\ Content(i)' = Content(m)
               \/ i # m + 1 /\ Content(i)' = Content(i)
        BY <1>5, <2>1 DEF Moved
  <2>4. CASE Older(line)
    <3>1. ASSUME NEW j \in 0..MaxRotated, NEW l \in DOMAIN Content(j)' PROVE line < Content(j)'[l]
          BY <2>1, <2>3, <2>4, <3>1 DEF Older
    <3> QED  BY <2>2, <3>1 DEF IsAccounted, Older
  <2>5. CASE Inside(line)
    <3>1. PICK i \in 0..MaxRotated : \E k \in DOMAIN Content(i) : Content(i)[k] = line
          BY <2>5 DEF Inside
    <3>2. CASE i = m
      <4>1. Content(m + 1)' = Content(i)
            BY <1>5, <3>2 DEF Moved
      <4> QED  BY <2>1, <3>1, <4>1 DEF IsAccounted, Inside
    <3>3. CASE i # m /\ i # m + 1
      <4>1. Content(i)' = Content(i)
            BY <1>5, <3>3 DEF Moved
      <4> QED  BY <3>1, <4>1 DEF IsAccounted, Inside
    <3>4. CASE i = m + 1
      <4>1. i = MaxRotated /\ m = MaxRotated - 1
            BY <1>0, <1>5, <3>1, <3>4
      <4>2. ASSUME NEW j \in 0..MaxRotated, NEW l \in DOMAIN Content(j)' PROVE line < Content(j)'[l]
        <5>1. \E n \in 0..MaxRotated : n < i /\ Content(j)' = Content(n)
              BY <1>0, <2>1, <2>3, <4>1, <4>2
        <5> QED  BY <3>1, <4>2, <5>1 DEF Ordered
      <4> QED  BY <2>2, <4>2 DEF IsAccounted, Older
    <3> QED  BY <3>2, <3>3, <3>4
  <2> QED  BY <1>5, <2>4, <2>5
<1> QED  BY <1>1, <1>2, <1>3, <1>4, <1>5 DEF IsAccounted, Rotates

LEMMA AppendsAccounts ==
  ASSUME Typed, Ordered, Pending, Appends, damaged' = damaged, NEW line \in Nat, IsAccounted(line)
  PROVE  IsAccounted(line)'
<1>0. 0 \in 0..MaxRotated /\ MaxRotated \in Nat
      BY LogAssumption
<1>1. /\ queue \in Seq(Nat) /\ queue # <<>> /\ queue' = Tail(queue) /\ written \in Nat
      /\ Head(queue) = queue[1] /\ queue[1] \in Nat /\ queue[1] > written
  <2>1. queue \in Seq(Nat) /\ written \in Nat
    <3>1. 1..submitted \subseteq Nat
          OBVIOUS
    <3> QED  BY <3>1, Weaker DEF Typed, LinesTyped
  <2> QED  BY <2>1 DEF Appends, Pending
<1>2. ASSUME Grown(queue[1])
      PROVE  /\ \E k \in DOMAIN Content(0)' : Content(0)'[k] = queue[1]
             /\ \A k \in DOMAIN Content(0) : k \in DOMAIN Content(0)' /\ Content(0)'[k] = Content(0)[k]
             /\ \A k \in DOMAIN Content(0)' :
                  Content(0)'[k] = queue[1] \/ (k \in DOMAIN Content(0) /\ Content(0)'[k] = Content(0)[k])
             /\ \A j \in 0..MaxRotated : j = 0 \/ Content(j)' = Content(j)
  <2> DEFINE x == queue[1]
             c == Content(0)
             d == Append(c, x)
  <2>1. /\ Content(0)' = d /\ \A j \in 0..MaxRotated : j = 0 \/ Content(j)' = Content(j)
        BY <1>0, <1>2 DEF Grown
  <2>2. /\ DOMAIN d = 1..Len(c) + 1 /\ DOMAIN c = 1..Len(c) /\ Len(c) \in Nat
        /\ d[Len(c) + 1] = x /\ \A k \in 1..Len(c) : d[k] = c[k]
    <3>1. c \in Seq(1..MaxLines)
          BY <1>0, ContentIs DEF Typed
    <3>2. c \in Seq(Nat)
      <4>1. 1..MaxLines \subseteq Nat
            OBVIOUS
      <4> HIDE DEF c
      <4> QED  BY <3>1, <4>1, Weaker
    <3> HIDE DEF c
    <3> QED  BY <1>1, <3>2
  <2> HIDE DEF d, c
  <2> QED  BY <2>1, <2>2 DEF c
<1>3. (Grown(queue[1]) /\ lost' = lost) \/ (Same /\ lost' = lost \cup {queue[1]})
      BY <1>1 DEF Appends
<1>4. CASE Queued(line)
  <2>1. PICK k \in DOMAIN queue : queue[k] = line
        BY <1>4 DEF Queued
  <2>2. CASE k = 1
    <3>1. CASE Same /\ lost' = lost \cup {queue[1]}
          BY <2>1, <2>2, <3>1 DEF IsAccounted
    <3>2. CASE Grown(queue[1])
          BY <1>0, <1>2, <2>1, <2>2, <3>2 DEF IsAccounted, Inside
    <3> QED  BY <1>3, <3>1, <3>2
  <2>3. CASE k # 1
    <3>1. k - 1 \in DOMAIN Tail(queue) /\ Tail(queue)[k - 1] = line
          BY <1>1, <2>1, <2>3
    <3> QED  BY <1>1, <3>1 DEF IsAccounted, Queued
  <2> QED  BY <2>2, <2>3
<1>5. CASE line \in lost \/ damaged
      BY <1>3, <1>5 DEF IsAccounted
<1>6. CASE Same /\ (Inside(line) \/ Older(line))
      BY <1>6 DEF IsAccounted, Inside, Older, Same
<1>7. CASE Grown(queue[1]) /\ Inside(line)
  <2>1. PICK i \in 0..MaxRotated : \E k \in DOMAIN Content(i) : Content(i)[k] = line
        BY <1>7 DEF Inside
  <2>2. \E k \in DOMAIN Content(i)' : Content(i)'[k] = line
        BY <1>2, <1>7, <2>1
  <2> QED  BY <2>2 DEF IsAccounted, Inside
<1>8. CASE Grown(queue[1]) /\ Older(line)
  <2>1. Content(0)' # <<>>
        BY <1>2, <1>8
  <2>2. line < queue[1]
    <3>1. PICK i \in 0..MaxRotated : Content(i) # <<>>
          BY <1>8 DEF Older
    <3>2. 1 \in DOMAIN Content(i)
      <4>1. Content(i) \in Seq(1..MaxLines)
            BY ContentIs DEF Typed
      <4> QED  BY <3>1, <4>1
    <3>3. line < Content(i)[1] /\ Content(i)[1] <= written /\ Content(i)[1] \in Nat
          BY <1>8, <3>2, LineIsNat DEF Older, Ordered, Typed
    <3> QED  BY <1>1, <3>3
  <2>3. ASSUME NEW j \in 0..MaxRotated, NEW l \in DOMAIN Content(j)' PROVE line < Content(j)'[l]
        BY <1>2, <1>8, <2>2, <2>3 DEF Older
  <2> QED  BY <1>0, <2>1, <2>3 DEF IsAccounted, Older
<1> QED  BY <1>3, <1>4, <1>5, <1>6, <1>7, <1>8 DEF IsAccounted

-----------------------------------------------------------------------------
(* The invariant *)

LEMMA InitLog == Init => LogInv
<1> SUFFICES ASSUME Init PROVE LogInv
    OBVIOUS
<1>1. Typed
      BY InitTypes
<1>2. /\ queue = <<>> /\ at = "stat" /\ written = FoundLines /\ process = "up" /\ answered = {}
      /\ \A r \in Requests : handler[r] = "none"
      /\ files \in [0..MaxRotated -> Seq(1..FoundLines) \cup {None}] /\ InOrder(files)
      BY FoundAssumption DEF Init, AllIdle
<1>3. Pending /\ Rotation /\ Accounted /\ Flushed
      BY <1>2 DEF Pending, Rotation, Accounted, HasLine, Flushed
<1>4. ASSUME NEW i \in 0..MaxRotated, NEW k \in DOMAIN Content(i)
      PROVE  files[i] # None /\ Content(i) = files[i]
  <2>1. CASE files[i] = None
    <3>1. Content(i) = <<>>
          BY <2>1 DEF Content
    <3> QED  BY <1>4, <3>1
  <2>2. CASE files[i] # None
        BY <2>2 DEF Content
  <2> QED  BY <2>1, <2>2
<1>5. ASSUME NEW i \in 0..MaxRotated, NEW k \in DOMAIN Content(i) PROVE Content(i)[k] <= written
  <2>1. Content(i) \in Seq(1..FoundLines)
    <3>1. files[i] \in Seq(1..FoundLines) \cup {None}
          BY <1>2, Zenon
    <3> QED  BY <1>4, <1>5, <3>1
  <2> QED  BY <1>2, <1>5, <2>1, LogAssumption
<1>6. ASSUME NEW i \in 0..MaxRotated, NEW k \in DOMAIN Content(i),
             NEW j \in 0..MaxRotated, NEW l \in DOMAIN Content(j),
             i > j \/ (i = j /\ k < l)
      PROVE  Content(i)[k] < Content(j)[l]
  <2>1. i \in DOMAIN files /\ j \in DOMAIN files
        BY <1>2
  <2>2. files[i] # None /\ files[j] # None /\ Content(i) = files[i] /\ Content(j) = files[j]
        BY <1>4, <1>6
  <2> QED  BY <1>2, <1>6, <2>1, <2>2 DEF InOrder
<1>7. Ordered
      BY <1>5, <1>6 DEF Ordered
<1> QED  BY <1>1, <1>3, <1>7 DEF LogInv, WritesInv

LEMMA LineOfIsNat == ASSUME Typed, NEW r \in Requests PROVE lineOf[r] \in Nat /\ lineOf[r] <= submitted
BY DEF Typed, LinesTyped

LEMMA WriteStep == LogInv /\ Write => LogInv'
<1> SUFFICES ASSUME LogInv, Write PROVE LogInv'
    OBVIOUS
<1>0. Typed /\ Ordered /\ Pending /\ Rotation /\ Accounted /\ Flushed
      BY DEF LogInv, WritesInv
<1>1. Typed'
      BY <1>0, WriteTypes
<1>2. /\ handler' = handler /\ lineOf' = lineOf /\ answered' = answered /\ open' = open
      /\ process' = process /\ tail' = tail
      BY DEF Write, handlerVars
<1>3. process \in Running
      BY DEF Write, Stat, Unlink, Rename, Rotating, AppendFile, Writing
<1>4. Flushed'
      BY <1>0, <1>2, <1>3 DEF Flushed, Running
<1>5. \/ Keeps /\ Rotates /\ Rotation' /\ (damaged => damaged')
      \/ Appends /\ Rotation' /\ damaged' = damaged
      BY <1>0, StatEffect, UnlinkEffect, RenameEffect, AppendEffect DEF Write, Rotates
<1>6. /\ Rotation' /\ Ordered' /\ Pending'
      /\ \A line \in Nat : IsAccounted(line) => IsAccounted(line)'
  <2>1. CASE Keeps /\ Rotates /\ Rotation' /\ (damaged => damaged')
    <3>1. Ordered' /\ Pending'
          BY <1>0, <2>1, RotatesOrder DEF Keeps, Pending
    <3> QED  BY <1>0, <2>1, <3>1, RotatesAccounts
  <2>2. CASE Appends /\ Rotation' /\ damaged' = damaged
        BY <1>0, <2>2, AppendsOrder, AppendsAccounts
  <2> QED  BY <1>5, <2>1, <2>2
<1>7. Accounted'
  <2> SUFFICES ASSUME NEW r \in Requests, handler'[r] \in HasLine
               PROVE  lineOf'[r] >= 1 /\ IsAccounted(lineOf[r])'
      BY <1>2 DEF Accounted
  <2>1. lineOf[r] \in Nat
        BY <1>0, LineOfIsNat
  <2>2. lineOf[r] >= 1 /\ IsAccounted(lineOf[r])
        BY <1>0, <1>2 DEF Accounted
  <2>3. PICK line \in Nat : line = lineOf[r]
        BY <2>1
  <2>4. IsAccounted(line)'
        BY <1>6, <2>2, <2>3
  <2> QED  BY <1>2, <2>2, <2>3, <2>4
<1> QED  BY <1>1, <1>4, <1>6, <1>7 DEF LogInv, WritesInv

\* A step that leaves the writes alone.
Quiet == UNCHANGED <<files, written, at, index, damaged, lost>>

LEMMA QuietKeeps ==
  ASSUME WritesInv, Quiet, \A line : Queued(line) => Queued(line)'
  PROVE  Ordered' /\ Rotation' /\ \A line : IsAccounted(line) => IsAccounted(line)'
<1>1. \A i : Content(i)' = Content(i)
      BY DEF Quiet, Content
<1>2. Ordered' /\ Rotation'
      BY <1>1 DEF WritesInv, Quiet, Ordered, Rotation
<1>3. ASSUME NEW line, IsAccounted(line) PROVE IsAccounted(line)'
  <2>1. lost' = lost /\ damaged' = damaged
        BY DEF Quiet
  <2>2. Inside(line) => Inside(line)'
        BY <1>1 DEF Inside
  <2>3. Older(line) => Older(line)'
        BY <1>1 DEF Older
  <2> QED  BY <1>3, <2>1, <2>2, <2>3 DEF IsAccounted
<1> QED  BY <1>2, <1>3

LEMMA SubmitKeeps ==
  ASSUME WritesInv, NEW r \in Requests, Submit(r), Quiet
  PROVE  /\ Pending' /\ Ordered' /\ Rotation'
         /\ \A line : IsAccounted(line) => IsAccounted(line)'
         /\ IsAccounted(submitted)' /\ submitted' = submitted + 1 /\ submitted' \in Nat \ {0}
<1>1. /\ queue \in Seq(Nat) /\ submitted \in Nat /\ written \in 0..submitted
      /\ \A i \in DOMAIN queue : queue[i] \in 1..submitted
  <2>1. 1..submitted \subseteq Nat
        OBVIOUS
  <2> QED  BY <2>1, Weaker DEF WritesInv, Typed, LinesTyped
<1>2. queue' = Append(queue, submitted + 1) /\ submitted + 1 \in Nat /\ submitted' = submitted + 1
      BY <1>1 DEF Submit
<1>3. /\ DOMAIN queue = 1..Len(queue) /\ Len(queue) \in Nat /\ DOMAIN queue' = 1..Len(queue) + 1
      /\ queue'[Len(queue) + 1] = submitted + 1 /\ \A i \in 1..Len(queue) : queue'[i] = queue[i]
      BY <1>1, <1>2
<1>4. \A line : Queued(line) => Queued(line)'
      BY <1>3 DEF Queued
<1>5. Pending'
  <2>1. written' = written
        BY DEF Quiet
  <2>2. ASSUME NEW i \in DOMAIN queue' PROVE queue'[i] > written
    <3>1. CASE i = Len(queue) + 1
          BY <1>1, <1>3, <3>1
    <3>2. CASE i \in DOMAIN queue
          BY <1>3, <3>2 DEF WritesInv, Pending
    <3> QED  BY <1>3, <3>1, <3>2
  <2>3. ASSUME NEW i \in DOMAIN queue', NEW j \in DOMAIN queue', i < j PROVE queue'[i] < queue'[j]
    <3>1. i \in DOMAIN queue
          BY <1>3, <2>3
    <3>2. CASE j = Len(queue) + 1
          BY <1>1, <1>3, <3>1, <3>2
    <3>3. CASE j \in DOMAIN queue
          BY <1>3, <2>3, <3>1, <3>3 DEF WritesInv, Pending
    <3> QED  BY <1>3, <3>2, <3>3
  <2> QED  BY <2>1, <2>2, <2>3 DEF Pending
<1>6. IsAccounted(submitted)'
  <2>1. Queued(submitted)'
        BY <1>2, <1>3 DEF Queued
  <2> QED  BY <2>1 DEF IsAccounted
<1>7. submitted' = submitted + 1 /\ submitted' \in Nat \ {0}
      BY <1>1, <1>2
<1> QED  BY <1>4, <1>5, <1>6, <1>7, QuietKeeps

LEMMA HandlerStep ==
  ASSUME LogInv, NEW r \in Requests,
         AnyStep(r)
  PROVE  LogInv'
<1>0. WritesInv /\ Typed /\ Accounted /\ Flushed /\ Typed'
      BY HandlerTypes DEF LogInv, WritesInv
<1>1. Quiet
      BY DEF Quiet, AnyStep, Submits, Connects, Closes, Logs, Sends, StreamEnds, Detaches, LogsOrphan, writeVars
<1>2. handler \in [Requests -> Places] /\ lineOf \in [Requests -> 0..submitted]
      BY <1>0 DEF Typed, HandlersTyped, LinesTyped
<1>3. CASE Connects(r) \/ Closes(r) \/ Sends(r) \/ Detaches(r)
  <2>1. UNCHANGED <<queue, written, lineOf, process, tail>>
        BY <1>3 DEF Connects, Closes, Sends, Detaches, writeVars
  <2>2. Pending' /\ \A line : Queued(line) => Queued(line)'
        BY <1>0, <2>1 DEF WritesInv, Pending, Queued
  <2>3. Ordered' /\ Rotation' /\ \A line : IsAccounted(line) => IsAccounted(line)'
        BY <1>0, <1>1, <2>2, QuietKeeps
  <2>4. \A q \in Requests : handler'[q] \in HasLine => handler[q] \in HasLine
        BY <1>2, <1>3 DEF HasLine, Connects, Closes, Sends, Detaches
  <2>5. Accounted'
        BY <1>0, <2>1, <2>3, <2>4 DEF Accounted
  <2>6. /\ \A q \in answered' : handler'[q] \in {"done", "detached", "captured"}
        /\ process \in {"flushing", "exited"} =>
             /\ open' = {} /\ answered' = answered
             /\ \A q \in answered : handler'[q] = handler[q]
        BY <1>0, <1>2, <1>3 DEF Flushed, Connects, Closes, Sends, Detaches, Typed, HandlersTyped
  <2>7. Flushed'
        BY <1>0, <2>1, <2>6 DEF Flushed, Queued
  <2> QED  BY <1>0, <2>2, <2>3, <2>5, <2>7 DEF LogInv, WritesInv
<1>4. CASE Submits(r)
  <2>1. Submit(r) /\ process \in Running /\ UNCHANGED <<open, process, tail>>
        BY <1>4 DEF Submits, Logs, StreamEnds, LogsOrphan
  <2>2. /\ Pending' /\ Ordered' /\ Rotation'
        /\ \A line : IsAccounted(line) => IsAccounted(line)'
        /\ IsAccounted(submitted)' /\ submitted' = submitted + 1 /\ submitted' \in Nat \ {0}
        BY <1>0, <1>1, <2>1, SubmitKeeps
  <2>3. lineOf' = [lineOf EXCEPT ![r] = submitted + 1]
        BY <2>1 DEF Submit
  <2>4. Accounted'
    <3> SUFFICES ASSUME NEW q \in Requests, handler'[q] \in HasLine
                 PROVE  lineOf'[q] >= 1 /\ IsAccounted(lineOf[q])'
        BY DEF Accounted
    <3>1. CASE q = r
      <4>1. lineOf'[q] = submitted'
            BY <1>2, <2>2, <2>3, <3>1
      <4>2. IsAccounted(lineOf[q])'
            BY <2>2, <4>1 DEF IsAccounted, Queued, Inside, Older
      <4> QED  BY <2>2, <4>1, <4>2
    <3>2. CASE q # r
      <4>1. lineOf'[q] = lineOf[q] /\ handler'[q] = handler[q]
            BY <1>2, <1>4, <2>3, <3>2 DEF Submits, Logs, StreamEnds, LogsOrphan
      <4>2. lineOf[q] >= 1 /\ IsAccounted(lineOf[q])
            BY <1>0, <4>1 DEF Accounted
      <4>3. PICK line : line = lineOf[q]
            OBVIOUS
      <4>4. IsAccounted(line)'
            BY <2>2, <4>2, <4>3
      <4>5. IsAccounted(lineOf[q])'
            BY <4>1, <4>3, <4>4 DEF IsAccounted, Queued, Inside, Older
      <4> QED  BY <4>1, <4>2, <4>5
    <3> QED  BY <3>1, <3>2
  <2>5. \A q \in answered' : handler'[q] \in {"done", "detached", "captured"}
        BY <1>0, <1>2, <1>4 DEF Flushed, Submits, Logs, StreamEnds, LogsOrphan, Typed, HandlersTyped
  <2>6. ASSUME process \in {"flushing", "exited"}
        PROVE  open' = {} /\ \A q \in answered' : handler'[q] = "done" => lineOf'[q] <= tail'
    <3>1. open = {} /\ \A q \in answered : handler[q] = "done" => lineOf[q] <= tail
          BY <1>0, <2>6 DEF Flushed
    <3>2. answered' = answered /\ handler'[r] # "done"
          BY <1>2, <1>4, <3>1 DEF Submits, Logs, StreamEnds, LogsOrphan
    <3>3. \A q \in Requests \ {r} : lineOf'[q] = lineOf[q] /\ handler'[q] = handler[q]
          BY <1>2, <1>4, <2>3 DEF Submits, Logs, StreamEnds, LogsOrphan
    <3>4. answered \subseteq Requests
          BY <1>0 DEF Typed, HandlersTyped
    <3> QED  BY <2>1, <3>1, <3>2, <3>3, <3>4
  <2>7. Flushed'
        BY <2>1, <2>5, <2>6 DEF Flushed, Running
  <2> QED  BY <1>0, <2>2, <2>4, <2>7 DEF LogInv, WritesInv
<1> QED  BY <1>3, <1>4 DEF AnyStep

LEMMA ShutdownStep ==
  ASSUME LogInv, ProcessStep \/ Restarts \/ UNCHANGED vars
  PROVE  LogInv'
<1>0. WritesInv /\ Typed /\ Accounted /\ Flushed /\ Typed'
      BY ProcessTypes DEF LogInv, WritesInv
<1>1. CASE ProcessStep \/ UNCHANGED vars
  <2>1. UNCHANGED <<queue, written, lineOf, handler, answered, open>> /\ Quiet
        BY <1>1 DEF ProcessStep, Signal, Drained, Exits, DrainTimesOut, Killed, vars, writeVars, handlerVars,
           Quiet
  <2>2. Pending' /\ \A line : Queued(line) <=> Queued(line)'
        BY <1>0, <2>1 DEF WritesInv, Pending, Queued
  <2>3. Ordered' /\ Rotation' /\ \A line : IsAccounted(line) => IsAccounted(line)'
        BY <1>0, <2>1, <2>2, QuietKeeps
  <2>4. Accounted'
        BY <1>0, <2>1, <2>3 DEF Accounted
  <2>5. CASE Drained
    <3>1. \A r \in answered : lineOf[r] <= submitted
          BY <1>0, LineOfIsNat DEF Typed, HandlersTyped
    <3> QED  BY <1>0, <2>1, <2>2, <2>3, <2>4, <2>5, <3>1 DEF LogInv, WritesInv, Flushed, Drained
  <2>6. CASE Exits
    <3>1. \A line \in 1..tail : ~Queued(line)
          BY <2>6 DEF Exits, IsWritten, Queued, ToSet
    <3>2. Flushed'
          BY <1>0, <2>1, <2>2, <2>6, <3>1 DEF Flushed, Exits
    <3> QED  BY <1>0, <2>2, <2>3, <2>4, <3>2 DEF LogInv, WritesInv
  <2>7. CASE Signal \/ DrainTimesOut \/ Killed
    <3>1. process' \notin {"flushing", "exited"}
          BY <2>7 DEF Signal, DrainTimesOut, Killed
    <3>2. Flushed'
          BY <1>0, <2>1, <3>1 DEF Flushed
    <3> QED  BY <1>0, <2>2, <2>3, <2>4, <3>2 DEF LogInv, WritesInv
  <2>8. CASE UNCHANGED vars
    <3>1. process' = process /\ tail' = tail
          BY <2>8 DEF vars
    <3>2. Flushed'
          BY <1>0, <2>1, <2>2, <3>1 DEF Flushed
    <3> QED  BY <1>0, <2>2, <2>3, <2>4, <3>2 DEF LogInv, WritesInv
  <2> QED  BY <1>1, <2>5, <2>6, <2>7, <2>8 DEF ProcessStep
<1>2. CASE Restarts
  <2>1. /\ queue' = <<>> /\ at' = "stat" /\ process' = "up" /\ answered' = {}
        /\ \A r \in Requests : handler'[r] = "none"
        /\ files' = files /\ written' = written
        BY <1>2 DEF Restarts, AllIdle
  <2>2. \A i : Content(i)' = Content(i)
        BY <2>1 DEF Content
  <2>3. Ordered'
        BY <1>0, <2>1, <2>2 DEF WritesInv, Ordered
  <2>4. Pending' /\ Rotation' /\ Accounted' /\ Flushed'
        BY <2>1 DEF Pending, Rotation, Accounted, HasLine, Flushed
  <2> QED  BY <1>0, <2>3, <2>4 DEF LogInv, WritesInv
<1> QED  BY <1>1, <1>2

LEMMA LogHolds == Spec => []LogInv
<1>1. LogInv /\ [Next]_vars => LogInv'
      BY WriteStep, HandlerStep, ShutdownStep DEF Next, AnyStep, Submits, ProcessStep
<1> QED  BY <1>1, InitLog, PTL DEF Spec

-----------------------------------------------------------------------------
(* Sequences joined into one *)

Joins(g, c, n) == g[0] = <<>> /\ \A k \in 1..n : g[k] = g[k - 1] \o c[k]

LEMMA FlattenIsJoin ==
  ASSUME NEW S, NEW n \in Nat \ {0}, NEW c \in [1..n -> Seq(S)]
  PROVE  \E g \in [0..n -> Seq(S)] : Joins(g, c, n) /\ FlattenSeq(c) = g[n]
<1> DEFINE X == Seq(S)
           step == [i \in 1..n |-> [x \in X |-> x \o c[i]]]
           Def(f) == [i \in 1..Len(c) |-> IF i = 1 THEN c[i] ELSE f[i - 1] \o c[i]]
           flatten == CHOOSE f : f = Def(f)
<1>1. /\ n \in Nat /\ <<>> \in X /\ step \in [1..n -> [X -> X]] /\ Len(c) = n
      /\ \A i \in 1..n : c[i] \in X
  <2>1. ASSUME NEW i \in 1..n, NEW x \in X PROVE x \o c[i] \in X
    <3>1. c[i] \in Seq(S)
          OBVIOUS
    <3> QED  BY <3>1, F!ConcatAt
  <2>2. Len(c) = n
    <3>1. DOMAIN c = 1..n
          OBVIOUS
    <3> QED  BY <3>1
  <2> QED  BY <2>1, <2>2
<1>2. PICK f \in [0..n -> X] : F!Recurs(f, n, <<>>, step)
  <2> HIDE DEF X, step
  <2> QED  BY <1>1, F!RecursionExists
<1>3. f[0] = <<>> /\ \A i \in 1..n : f[i] = f[i - 1] \o c[i]
  <2>1. ASSUME NEW i \in 1..n PROVE f[i] = f[i - 1] \o c[i]
    <3>1. i \in 0..n /\ i # 0 /\ i - 1 \in 0..n
          OBVIOUS
    <3>2. f[i] = step[i][f[i - 1]] /\ f[i - 1] \in X
      <4> HIDE DEF step, X
      <4> QED  BY <1>2, <3>1 DEF F!Recurs
    <3>3. \A x \in X : step[i][x] = x \o c[i]
          OBVIOUS
    <3> HIDE DEF step, X
    <3> QED  BY <3>2, <3>3
  <2>2. f[0] = <<>>
    <3> HIDE DEF step, X
    <3> QED  BY <1>1, <1>2 DEF F!Recurs
  <2> QED  BY <2>1, <2>2
<1>4. \E e : e = Def(e)
  <2> DEFINE e == [i \in 1..n |-> f[i]]
  <2>1. ASSUME NEW i \in 1..n PROVE e[i] = IF i = 1 THEN c[i] ELSE e[i - 1] \o c[i]
    <3>1. CASE i = 1
      <4>1. f[1] = <<>> \o c[1] /\ c[1] \in Seq(S)
        <5>1. 1 \in 1..n /\ 1 - 1 = 0
              OBVIOUS
        <5> HIDE DEF step, X
        <5> QED  BY <1>3, <5>1
      <4>2. f[1] = c[1]
            BY <4>1
      <4> HIDE DEF step, X
      <4> QED  BY <3>1, <4>2
    <3>2. CASE i # 1
      <4>1. i - 1 \in 1..n
            BY <3>2
      <4> HIDE DEF step, X
      <4> QED  BY <1>3, <3>2, <4>1
    <3> QED  BY <3>1, <3>2
  <2>2. e = Def(e)
    <3> HIDE DEF step, X
    <3> QED  BY <1>1, <2>1
  <2> HIDE DEF e, Def
  <2> QED  BY <2>2
<1>5. flatten = Def(flatten)
  <2> HIDE DEF Def
  <2> QED  BY <1>4, Zenon
<1>6. FlattenSeq(c) = flatten[n]
  <2>1. Len(c) # 0
        BY <1>1
  <2>2. FlattenSeq(c) = flatten[Len(c)]
        BY <2>1, Zenon DEF FlattenSeq
  <2> HIDE DEF flatten
  <2> QED  BY <1>1, <2>2
<1> HIDE DEF flatten
<1>7. \A i \in 1..n : flatten[i] = IF i = 1 THEN c[i] ELSE flatten[i - 1] \o c[i]
  <2> HIDE DEF step, X
  <2> QED  BY <1>1, <1>5
<1> DEFINE g == [i \in 0..n |-> IF i = 0 THEN <<>> ELSE flatten[i]]
           T == {i \in 0..n : g[i] \in X}
<1> HIDE DEF step, Def
<1>8. ASSUME NEW i \in 0..n - 1, g[i] \in Seq(S) PROVE g[i + 1] = g[i] \o c[i + 1] /\ g[i + 1] \in Seq(S)
  <2>1. /\ i + 1 \in 1..n /\ (i + 1) - 1 = i /\ i \in 0..n /\ i + 1 \in 0..n /\ c[i + 1] \in Seq(S)
        /\ (i # 0 => i + 1 # 1) /\ i + 1 # 0
        OBVIOUS
  <2>2. g[i] \o c[i + 1] \in Seq(S)
    <3> HIDE DEF g
    <3> QED  BY <1>8, <2>1, F!ConcatAt
  <2>3. CASE i = 0
    <3>1. g[i] = <<>> /\ g[i + 1] = flatten[i + 1]
          BY <2>1, <2>3
    <3>2. flatten[i + 1] = c[i + 1]
          BY <1>7, <2>1, <2>3
    <3>3. <<>> \o c[i + 1] = c[i + 1]
          BY <2>1
    <3> HIDE DEF g
    <3> QED  BY <2>2, <3>1, <3>2, <3>3
  <2>4. CASE i # 0
    <3>1. g[i] = flatten[i] /\ g[i + 1] = flatten[i + 1]
          BY <2>1, <2>4
    <3>2. flatten[i + 1] = flatten[i] \o c[i + 1]
          BY <1>7, <2>1, <2>4
    <3> HIDE DEF g
    <3> QED  BY <2>2, <3>1, <3>2
  <2> QED  BY <2>3, <2>4
<1>9. 0..n \subseteq T
  <2>1. 0 \in T
        BY <1>1
  <2>2. ASSUME NEW i \in 0..(n - 1), i \in T PROVE i + 1 \in T
    <3>1. i + 1 \in 0..n /\ g[i] \in Seq(S)
          BY <2>2
    <3>2. g[i + 1] \in Seq(S)
      <4> HIDE DEF g
      <4> QED  BY <1>8, <3>1
    <3> HIDE DEF g
    <3> QED  BY <3>1, <3>2
  <2> HIDE DEF T, X
  <2> QED  BY <1>1, <2>1, <2>2, F!Induction
<1>10. Joins(g, c, n)
  <2>1. g[0] = <<>>
        OBVIOUS
  <2>2. ASSUME NEW k \in 1..n PROVE g[k] = g[k - 1] \o c[k]
    <3>1. k - 1 \in 0..n - 1 /\ (k - 1) + 1 = k /\ k - 1 \in 0..n
          OBVIOUS
    <3>2. g[k - 1] \in Seq(S)
      <4> HIDE DEF g
      <4> QED  BY <1>9, <3>1
    <3>3. g[(k - 1) + 1] = g[k - 1] \o c[(k - 1) + 1]
      <4> HIDE DEF g
      <4> QED  BY <1>8, <3>1, <3>2
    <3> HIDE DEF g
    <3> QED  BY <3>1, <3>3
  <2> HIDE DEF g
  <2> QED  BY <2>1, <2>2 DEF Joins
<1>11. g \in [0..n -> Seq(S)] /\ g[n] = flatten[n]
  <2>1. \A i \in 0..n : g[i] \in Seq(S)
        BY <1>9
  <2>2. n \in 0..n /\ n # 0
        OBVIOUS
  <2> QED  BY <2>1, <2>2
<1> HIDE DEF g
<1> QED  BY <1>6, <1>10, <1>11

\* g and h join what agrees up to a place, or after it.
AgreeUpTo(g, h, c, d, n, j) == Joins(g, c, n) /\ Joins(h, d, n) /\ \A k \in 1..j : c[k] = d[k]

AgreeAfter(g, h, c, d, n, i) == Joins(g, c, n) /\ Joins(h, d, n) /\ \A k \in i + 1..n : c[k] = d[k]

SameAt(g, h, k) == g[k] = h[k]

Regroups(a, x, y) == (a \o x) \o y = a \o (x \o y)

LEMMA Regroup ==
  ASSUME NEW S, NEW a \in Seq(S), NEW x \in Seq(S), NEW y \in Seq(S)
  PROVE  Regroups(a, x, y)
BY ConcatAssociative DEF Regroups

LEMMA SamePrefix ==
  ASSUME NEW n \in Nat, NEW c, NEW d, NEW g, NEW h, NEW k \in 0..n, AgreeUpTo(g, h, c, d, n, k)
  PROVE  SameAt(g, h, k)
<1> DEFINE T == {i \in 0..k : g[i] = h[i]}
<1>1. 0 \in T
      BY DEF AgreeUpTo, Joins
<1>2. ASSUME NEW i \in 0..(k - 1), i \in T PROVE i + 1 \in T
  <2>1. i + 1 \in 1..n /\ i + 1 \in 1..k /\ (i + 1) - 1 = i
        OBVIOUS
  <2>2. g[i + 1] = g[i] \o c[i + 1] /\ h[i + 1] = h[i] \o d[i + 1]
        BY <2>1 DEF AgreeUpTo, Joins
  <2>3. c[i + 1] = d[i + 1]
        BY <2>1 DEF AgreeUpTo
  <2>4. g[i] = h[i] /\ i + 1 \in 0..k
        BY <1>2
  <2>5. g[i + 1] = h[i + 1]
        BY <2>2, <2>3, <2>4, Zenon
  <2> QED  BY <2>4, <2>5
<1>3. k \in Nat
      OBVIOUS
<1>4. 0..k \subseteq T
  <2> HIDE DEF T
  <2> QED  BY <1>1, <1>2, <1>3, F!Induction
<1> QED  BY <1>3, <1>4 DEF SameAt

\* t follows both of them.
FollowsBoth(t, g, h, k, j) == g[k + j] = g[k] \o t /\ h[k + j] = h[k] \o t

HaveSuffix(S, g, h, k, n) == \E t \in Seq(S) : g[n] = g[k] \o t /\ h[n] = h[k] \o t

LEMMA SameSuffix ==
  ASSUME NEW S, NEW n \in Nat, NEW c \in [1..n -> Seq(S)], NEW d \in [1..n -> Seq(S)],
         NEW g \in [0..n -> Seq(S)], NEW h \in [0..n -> Seq(S)],
         NEW k \in 0..n, AgreeAfter(g, h, c, d, n, k)
  PROVE  HaveSuffix(S, g, h, k, n)
<1> DEFINE m == n - k
           T == {j \in 0..m : \E t \in Seq(S) : FollowsBoth(t, g, h, k, j)}
<1>1. 0 \in T
  <2>1. g[k] = g[k] \o <<>> /\ h[k] = h[k] \o <<>> /\ k + 0 = k /\ <<>> \in Seq(S) /\ 0 \in 0..m
        OBVIOUS
  <2>2. FollowsBoth(<<>>, g, h, k, 0)
        BY <2>1, Zenon DEF FollowsBoth
  <2> QED  BY <2>1, <2>2
<1>2. ASSUME NEW j \in 0..(m - 1), j \in T PROVE j + 1 \in T
  <2>1. PICK t \in Seq(S) : FollowsBoth(t, g, h, k, j)
        BY <1>2
  <2>2. /\ k + (j + 1) \in 1..n /\ k + (j + 1) \in k + 1..n /\ (k + (j + 1)) - 1 = k + j
        /\ j + 1 \in 0..m /\ k + j \in 0..n
        OBVIOUS
  <2> DEFINE e == c[k + (j + 1)]
  <2>3. e \in Seq(S) /\ e = d[k + (j + 1)]
        BY <2>2 DEF AgreeAfter
  <2>4. g[k + (j + 1)] = g[k + j] \o e /\ h[k + (j + 1)] = h[k + j] \o e
        BY <2>2, <2>3, Zenon DEF AgreeAfter, Joins
  <2> HIDE DEF e
  <2>5. t \o e \in Seq(S)
        BY <2>3, F!ConcatAt
  <2>6. (g[k] \o t) \o e = g[k] \o (t \o e) /\ (h[k] \o t) \o e = h[k] \o (t \o e)
    <3>1. g[k] \in Seq(S) /\ h[k] \in Seq(S)
          OBVIOUS
    <3>2. Regroups(g[k], t, e) /\ Regroups(h[k], t, e)
          BY <2>3, <3>1, Regroup
    <3> QED  BY <3>2 DEF Regroups
  <2>7. FollowsBoth(t \o e, g, h, k, j + 1)
        BY <2>1, <2>4, <2>6, Zenon DEF FollowsBoth
  <2> QED  BY <2>2, <2>5, <2>7
<1>3. m \in Nat /\ k + m = n
      OBVIOUS
<1>4. 0..m \subseteq T
  <2> HIDE DEF T, m
  <2> QED  BY <1>1, <1>2, <1>3, F!Induction
<1>5. PICK t \in Seq(S) : FollowsBoth(t, g, h, k, m)
      BY <1>3, <1>4
<1> HIDE DEF m
<1> QED  BY <1>3, <1>5 DEF FollowsBoth, HaveSuffix

\* Where c and d differ in two places side by side, so do the joined sequences.
Around(a, t, c, d, m) ==
  /\ FlattenSeq(c) = (a \o (c[m] \o c[m + 1])) \o t
  /\ FlattenSeq(d) = (a \o (d[m] \o d[m + 1])) \o t

AgreeBeside(c, d, m, n) == \A i \in (1..n) \ {m, m + 1} : c[i] = d[i]

Splits(S, c, d, m, n) ==
  \E a, t \in Seq(S) : /\ Around(a, t, c, d, m)
                       /\ m = 1 => a = <<>>
                       /\ m + 1 = n => t = <<>>

LEMMA Rejoined ==
  ASSUME NEW S, NEW n \in Nat, NEW c \in [1..n -> Seq(S)], NEW d \in [1..n -> Seq(S)],
         NEW m \in 1..n - 1, AgreeBeside(c, d, m, n)
  PROVE  Splits(S, c, d, m, n)
<1>1. n \in Nat \ {0} /\ m - 1 \in 0..n /\ m + 1 \in 0..n /\ m + 1 \in 1..n /\ m \in 1..n
      OBVIOUS
<1>2. PICK g \in [0..n -> Seq(S)] : Joins(g, c, n) /\ FlattenSeq(c) = g[n]
      BY <1>1, FlattenIsJoin
<1>3. PICK h \in [0..n -> Seq(S)] : Joins(h, d, n) /\ FlattenSeq(d) = h[n]
      BY <1>1, FlattenIsJoin
<1>4. PICK p \in 0..n, q \in 0..n : p = m - 1 /\ q = m + 1
      BY <1>1
<1>5. g[p] = h[p]
  <2>1. AgreeUpTo(g, h, c, d, n, p)
        BY <1>2, <1>3, <1>4 DEF AgreeUpTo, AgreeBeside
  <2>2. SameAt(g, h, p)
        BY <2>1, SamePrefix
  <2> QED  BY <2>2 DEF SameAt
<1>6. PICK t \in Seq(S) : g[n] = g[q] \o t /\ h[n] = h[q] \o t
  <2>1. AgreeAfter(g, h, c, d, n, q)
        BY <1>2, <1>3, <1>4 DEF AgreeAfter, AgreeBeside
  <2>2. HaveSuffix(S, g, h, q, n)
        BY <2>1, SameSuffix
  <2> QED  BY <2>2 DEF HaveSuffix
<1> DEFINE a == g[p]
           x == c[m]
           y == c[m + 1]
           u == d[m]
           v == d[m + 1]
<1>7. a \in Seq(S) /\ x \in Seq(S) /\ y \in Seq(S) /\ u \in Seq(S) /\ v \in Seq(S)
      BY <1>1
<1>8. g[q] = (a \o x) \o y /\ h[q] = (a \o u) \o v
  <2>1. (m + 1) - 1 = m
        OBVIOUS
  <2> QED  BY <1>1, <1>2, <1>3, <1>4, <1>5, <2>1 DEF Joins
<1>9. Around(a, t, c, d, m)
  <2>1. (a \o x) \o y = a \o (x \o y) /\ (a \o u) \o v = a \o (u \o v)
    <3>1. Regroups(a, x, y) /\ Regroups(a, u, v)
      <4> HIDE DEF a, x, y, u, v
      <4> QED  BY <1>7, Regroup
    <3> HIDE DEF a, x, y, u, v
    <3> QED  BY <3>1, Zenon DEF Regroups
  <2> QED  BY <1>2, <1>3, <1>6, <1>8, <2>1, Zenon DEF Around
<1>10. m = 1 => a = <<>>
      BY <1>2, <1>4 DEF Joins
<1>11. m + 1 = n => t = <<>>
  <2>1. g[n] \in Seq(S)
        BY <1>1
  <2>2. g[n] = g[n] \o t => t = <<>>
        BY <2>1, ConcatEqualIffEmpty
  <2> QED  BY <1>4, <1>6, <2>2
<1> HIDE DEF a
<1> QED  BY <1>6, <1>7, <1>9, <1>10, <1>11 DEF Splits

In(x, s) == \E k \in DOMAIN s : s[k] = x

LEMMA InConcat ==
  ASSUME NEW S, NEW s \in Seq(S), NEW u \in Seq(S), NEW x
  PROVE  In(x, s \o u) <=> In(x, s) \/ In(x, u)
<1> DEFINE t == s \o u
<1>1. /\ DOMAIN s = 1..Len(s) /\ DOMAIN u = 1..Len(u) /\ DOMAIN t = 1..(Len(s) + Len(u))
      /\ Len(s) \in Nat /\ Len(u) \in Nat
      /\ \A i \in 1..Len(s) : t[i] = s[i]
      /\ \A i \in 1..Len(u) : t[Len(s) + i] = u[i]
      BY F!ConcatAt
<1> HIDE DEF t
<1>2. ASSUME NEW i \in DOMAIN t PROVE In(t[i], s) \/ In(t[i], u)
  <2>1. CASE i <= Len(s)
        BY <1>1, <1>2, <2>1 DEF In
  <2>2. CASE i > Len(s)
    <3>1. i - Len(s) \in 1..Len(u) /\ Len(s) + (i - Len(s)) = i
          BY <1>1, <1>2, <2>2
    <3>2. t[i] = u[i - Len(s)] /\ i - Len(s) \in DOMAIN u
          BY <1>1, <3>1
    <3> QED  BY <3>2 DEF In
  <2> QED  BY <1>1, <2>1, <2>2
<1>3. ASSUME NEW i \in DOMAIN s PROVE In(s[i], t)
  <2>1. i \in DOMAIN t /\ t[i] = s[i]
        BY <1>1
  <2> QED  BY <2>1 DEF In
<1>4. ASSUME NEW i \in DOMAIN u PROVE In(u[i], t)
  <2>1. Len(s) + i \in DOMAIN t /\ t[Len(s) + i] = u[i]
        BY <1>1
  <2> QED  BY <2>1 DEF In
<1>5. In(x, t) <=> In(x, s) \/ In(x, u)
      BY <1>2, <1>3, <1>4 DEF In
<1> QED  BY <1>5 DEF t

LEMMA FlattenMembers ==
  ASSUME NEW S, NEW n \in Nat \ {0}, NEW c \in [1..n -> Seq(S)]
  PROVE  /\ FlattenSeq(c) \in Seq(S)
         /\ \A x : In(x, FlattenSeq(c)) <=> \E i \in 1..n : In(x, c[i])
<1>1. PICK g \in [0..n -> Seq(S)] : Joins(g, c, n) /\ FlattenSeq(c) = g[n]
      BY FlattenIsJoin
<1> DEFINE T == {i \in 0..n : \A x : In(x, g[i]) <=> \E j \in 1..i : In(x, c[j])}
<1>2. 0 \in T
  <2>1. g[0] = <<>> /\ 0 \in 0..n /\ 1..0 = {}
        BY <1>1 DEF Joins
  <2>2. \A x : ~In(x, <<>>)
        BY DEF In
  <2> QED  BY <2>1, <2>2
<1>3. ASSUME NEW i \in 0..(n - 1), i \in T PROVE i + 1 \in T
  <2>1. i + 1 \in 0..n /\ i + 1 \in 1..n /\ i \in 0..n /\ (i + 1) - 1 = i
        OBVIOUS
  <2>2. g[i + 1] = g[i] \o c[i + 1] /\ g[i] \in Seq(S) /\ c[i + 1] \in Seq(S)
        BY <1>1, <2>1 DEF Joins
  <2>3. \A x : In(x, g[i] \o c[i + 1]) <=> In(x, g[i]) \/ In(x, c[i + 1])
        BY <2>2, InConcat
  <2>4. \A j : j \in 1..i + 1 <=> j \in 1..i \/ j = i + 1
        BY <2>1
  <2>5. \A x : In(x, g[i]) <=> \E j \in 1..i : In(x, c[j])
        BY <1>3
  <2>6. \A x : In(x, g[i + 1]) <=> \E j \in 1..i + 1 : In(x, c[j])
        BY <2>2, <2>3, <2>4, <2>5, Zenon
  <2> QED  BY <2>1, <2>6
<1>4. 0..n \subseteq T
  <2>1. n \in Nat
        OBVIOUS
  <2> HIDE DEF T
  <2> QED  BY <1>2, <1>3, <2>1, F!Induction
<1>5. n \in T /\ g[n] \in Seq(S)
      BY <1>4
<1> QED  BY <1>1, <1>5

-----------------------------------------------------------------------------
(* What is read from the files *)

\* The contents of the files from the oldest on; file i is the part MaxRotated + 1 - i.
Parts == [k \in 1..MaxRotated + 1 |-> Content(MaxRotated + 1 - k)]

Contents == [1..MaxRotated + 1 -> Seq(1..MaxLines)]

LEMMA LinesAreJoined == Lines = FlattenSeq(Parts)
BY Zenon DEF Lines, Parts

LEMMA PartsAre ==
  ASSUME FilesTyped
  PROVE  Parts \in Contents /\ \A i \in 0..MaxRotated : Parts[MaxRotated + 1 - i] = Content(i)
<1>1. MaxRotated \in Nat
      BY LogAssumption
<1>2. ASSUME NEW k \in 1..MaxRotated + 1 PROVE Content(MaxRotated + 1 - k) \in Seq(1..MaxLines)
  <2>1. PICK i \in 0..MaxRotated : i = MaxRotated + 1 - k
        BY <1>1
  <2> QED  BY <2>1, ContentIs
<1>3. Parts \in Contents
  <2> HIDE DEF Content
  <2> QED  BY <1>2 DEF Parts, Contents
<1>4. ASSUME NEW i \in 0..MaxRotated PROVE Parts[MaxRotated + 1 - i] = Content(i)
  <2>1. MaxRotated + 1 - i \in 1..MaxRotated + 1 /\ MaxRotated + 1 - (MaxRotated + 1 - i) = i
        BY <1>1
  <2> QED  BY <2>1 DEF Parts
<1> QED  BY <1>3, <1>4

LEMMA LinesMembers ==
  ASSUME FilesTyped
  PROVE  /\ Lines \in Seq(1..MaxLines)
         /\ \A line : In(line, Lines) <=> \E i \in 0..MaxRotated : In(line, Content(i))
<1>1. MaxRotated + 1 \in Nat \ {0} /\ MaxRotated \in Nat
      BY LogAssumption
<1>2. /\ Parts \in [1..MaxRotated + 1 -> Seq(1..MaxLines)]
      /\ \A i \in 0..MaxRotated : Parts[MaxRotated + 1 - i] = Content(i)
      BY PartsAre DEF Contents
<1>3. PICK c \in [1..MaxRotated + 1 -> Seq(1..MaxLines)] : c = Parts
      BY <1>2
<1>4. /\ FlattenSeq(c) \in Seq(1..MaxLines)
      /\ \A line : In(line, FlattenSeq(c)) <=> \E k \in 1..MaxRotated + 1 : In(line, c[k])
      BY <1>1, FlattenMembers
<1>5. /\ \A i \in 0..MaxRotated : MaxRotated + 1 - i \in 1..MaxRotated + 1
      /\ \A k \in 1..MaxRotated + 1 :
           MaxRotated + 1 - k \in 0..MaxRotated /\ MaxRotated + 1 - (MaxRotated + 1 - k) = k
      BY <1>1
<1>6. /\ \A i \in 0..MaxRotated : c[MaxRotated + 1 - i] = Content(i)
      /\ \A k \in 1..MaxRotated + 1 : c[k] = Content(MaxRotated + 1 - k)
      BY <1>2, <1>3, <1>5
<1>7. Lines = FlattenSeq(c)
      BY <1>3, LinesAreJoined
<1>8. ASSUME NEW line
      PROVE  In(line, Lines) <=> \E i \in 0..MaxRotated : In(line, Content(i))
  <2>1. In(line, Lines) <=> \E k \in 1..MaxRotated + 1 : In(line, c[k])
        BY <1>4, <1>7, Zenon
  <2>2. ASSUME NEW k \in 1..MaxRotated + 1, In(line, c[k])
        PROVE  \E i \in 0..MaxRotated : In(line, Content(i))
        BY <1>5, <1>6, <2>2, Zenon
  <2>3. ASSUME NEW i \in 0..MaxRotated, In(line, Content(i))
        PROVE  \E k \in 1..MaxRotated + 1 : In(line, c[k])
        BY <1>5, <1>6, <2>3, Zenon
  <2> QED  BY <2>1, <2>2, <2>3, Zenon
<1> QED  BY <1>4, <1>7, <1>8

LEMMA Survives == LogInv => AnsweredLinesSurvive
<1> SUFFICES ASSUME LogInv, process = "exited", NEW r \in answered,
                    ~OutlivesItsClient(r)
             PROVE  LineIsKept(r)
    BY DEF AnsweredLinesSurvive
<1>0. Typed /\ FilesTyped /\ Accounted /\ Flushed
      BY DEF LogInv, WritesInv, Typed
<1>1. /\ r \in Requests /\ handler[r] \in {"done", "captured"} /\ handler[r] \in HasLine
      /\ handler[r] = "done" => lineOf[r] <= tail
      /\ \A line \in 1..tail : ~Queued(line)
      BY <1>0 DEF Flushed, Typed, HandlersTyped, OutlivesItsClient, HasLine
<1>2. PICK line \in Nat : line = lineOf[r] /\ line >= 1 /\ line \in 1..tail
  <2>1. lineOf[r] \in Nat /\ lineOf[r] >= 1 /\ tail \in Nat
        BY <1>0, <1>1, LineOfIsNat DEF Accounted, Typed, LinesTyped
  <2> QED  BY <1>1, <2>1 DEF OutlivesItsClient
<1>3. IsAccounted(line)
      BY <1>0, <1>1, <1>2 DEF Accounted
<1>4. line \in lost \/ damaged \/ Inside(line) \/ Older(line)
      BY <1>1, <1>2, <1>3 DEF IsAccounted
<1>5. /\ Lines \in Seq(1..MaxLines)
      /\ \A x : In(x, Lines) <=> \E i \in 0..MaxRotated : In(x, Content(i))
      BY <1>0, LinesMembers
<1>6. CASE Inside(line)
  <2>1. In(line, Lines)
        BY <1>5, <1>6 DEF Inside, In
  <2>2. line \in ToSet(Lines)
        BY <2>1 DEF In, ToSet
  <2> QED  BY <1>2, <2>2 DEF LineIsKept
<1>7. CASE Older(line)
  <2>1. PICK i \in 0..MaxRotated : Content(i) # <<>>
        BY <1>7 DEF Older
  <2>2. 1 \in DOMAIN Content(i)
    <3>1. Content(i) \in Seq(1..MaxLines)
          BY <1>0, ContentIs
    <3> QED  BY <2>1, <3>1
  <2>3. In(Content(i)[1], Lines)
        BY <1>5, <2>2 DEF In
  <2>4. Lines # <<>>
        BY <2>3 DEF In
  <2>5. In(Head(Lines), Lines)
    <3>1. 1 \in DOMAIN Lines /\ Head(Lines) = Lines[1]
          BY <1>5, <2>4
    <3> QED  BY <3>1 DEF In
  <2>6. PICK j \in 0..MaxRotated : In(Head(Lines), Content(j))
        BY <1>5, <2>5
  <2>7. line < Head(Lines)
        BY <1>7, <2>6 DEF In, Older
  <2> QED  BY <1>2, <2>4, <2>7 DEF LineIsKept
<1> QED  BY <1>2, <1>4, <1>6, <1>7 DEF LineIsKept

-----------------------------------------------------------------------------
(* The steps of the abstract log *)

LEMMA PrefixAndSuffix ==
  ASSUME NEW S, NEW s \in Seq(S), NEW u \in Seq(S)
  PROVE  SubSeq(s \o u, 1, Len(s)) = s /\ SubSeq(s \o u, Len(s) + 1, Len(s \o u)) = u
<1> DEFINE t == s \o u
<1>1. /\ t \in Seq(S) /\ Len(t) = Len(s) + Len(u) /\ Len(s) \in Nat /\ Len(u) \in Nat
      /\ \A i \in 1..Len(s) : t[i] = s[i]
      /\ \A i \in 1..Len(u) : t[Len(s) + i] = u[i]
      BY F!ConcatAt
<1> HIDE DEF t
<1>2. SubSeq(t, 1, Len(s)) = s
      BY <1>1
<1>3. SubSeq(t, Len(s) + 1, Len(t)) = u
      BY <1>1
<1> QED  BY <1>2, <1>3 DEF t

IsDropped(s, u) == \E n \in 1..Len(s) : u = SubSeq(s, n + 1, Len(s))

IsCut(s, u) ==
  \E j \in 1..Len(s) : \E i \in 1..j : u = SubSeq(s, 1, i - 1) \o SubSeq(s, j + 1, Len(s))

\* What becomes of s if x is taken out of it after a.
Without(a, x, s, u) ==
  /\ x = <<>> => u = s
  /\ x # <<>> => IsCut(s, u) /\ (a = <<>> => IsDropped(s, u))

LEMMA TakenOut ==
  ASSUME NEW S, NEW a \in Seq(S), NEW x \in Seq(S), NEW y \in Seq(S), NEW t \in Seq(S)
  PROVE  Without(a, x, (a \o (x \o y)) \o t, (a \o y) \o t)
<1>1. PICK r \in Seq(S) : r = y \o t
      BY F!ConcatAt
<1>2. PICK b \in Seq(S) : b = a \o x
      BY F!ConcatAt
<1>3. PICK s \in Seq(S) : s = b \o r
      BY F!ConcatAt
<1>4. PICK z \in Seq(S) : z = x \o r
      BY F!ConcatAt
<1>5. Regroups(a, x, y) /\ Regroups(b, y, t) /\ Regroups(a, y, t) /\ Regroups(a, x, r)
      BY Regroup
<1>6. (a \o (x \o y)) \o t = s /\ (a \o y) \o t = a \o r /\ s = a \o z
      BY <1>1, <1>2, <1>3, <1>4, <1>5, Zenon DEF Regroups
<1>7. /\ Len(b) = Len(a) + Len(x) /\ Len(s) = Len(b) + Len(r)
      /\ Len(a) \in Nat /\ Len(x) \in Nat /\ Len(r) \in Nat
      /\ x # <<>> => Len(x) >= 1
      BY <1>2, <1>3
<1>8. SubSeq(s, 1, Len(a)) = a
      BY <1>6, PrefixAndSuffix
<1>9. SubSeq(s, Len(b) + 1, Len(s)) = r
      BY <1>3, PrefixAndSuffix
<1>10. x = <<>> => a \o r = s
      BY <1>2, <1>3
<1>11. ASSUME x # <<>> PROVE IsCut(s, a \o r)
  <2>1. PICK j \in 1..Len(s) : j = Len(b)
        BY <1>7, <1>11
  <2>2. PICK i \in 1..j : i - 1 = Len(a)
    <3>1. Len(a) + 1 \in 1..j /\ (Len(a) + 1) - 1 = Len(a)
          BY <1>7, <1>11, <2>1
    <3> QED  BY <3>1
  <2> QED  BY <1>8, <1>9, <2>1, <2>2, Zenon DEF IsCut
<1>12. ASSUME x # <<>>, a = <<>> PROVE IsDropped(s, a \o r)
  <2>1. Len(b) \in 1..Len(s) /\ a \o r = r
        BY <1>7, <1>12
  <2> QED  BY <1>9, <2>1, Zenon DEF IsDropped
<1> QED  BY <1>6, <1>10, <1>11, <1>12, Zenon DEF Without

LEMMA SameLines ==
  ASSUME Same
  PROVE  Lines' = Lines
<1>1. \A k \in 1..MaxRotated + 1 : MaxRotated + 1 - k \in 0..MaxRotated
      BY LogAssumption
<1>2. Parts' = Parts
      BY <1>1 DEF Same, Parts
<1>3. Lines' = FlattenSeq(Parts')
      BY Zenon DEF Lines, Parts
<1> QED  BY <1>2, <1>3, LinesAreJoined

LEMMA PartsAreAfter ==
  FilesTyped' =>
    (Parts \in Contents /\ \A i \in 0..MaxRotated : Parts[MaxRotated + 1 - i] = Content(i))'
<1>1. FilesTyped =>
        (Parts \in Contents /\ \A i \in 0..MaxRotated : Parts[MaxRotated + 1 - i] = Content(i))
      BY PartsAre
<1> QED  BY <1>1, PTL

\* Only file i and file i + 1 change: what comes before them is a, what comes after them t.
Beside(i, a, t, s, u) ==
  /\ s = (a \o (Content(i + 1) \o Content(i))) \o t
  /\ u = (a \o (Content(i + 1)' \o Content(i)')) \o t
  /\ i + 1 = MaxRotated => a = <<>>
  /\ i = 0 => t = <<>>

LEMMA LinesBeside ==
  ASSUME FilesTyped, FilesTyped', NEW i \in 0..MaxRotated - 1,
         \A j \in (0..MaxRotated) \ {i, i + 1} : Content(j)' = Content(j)
  PROVE  \E a, t \in Seq(1..MaxLines) : Beside(i, a, t, Lines, Lines')
<1>0. MaxRotated \in Nat \ {0} /\ i \in 0..MaxRotated /\ i + 1 \in 0..MaxRotated
      BY LogAssumption
<1>1. PICK n \in Nat : n = MaxRotated + 1
      BY <1>0
<1>2. PICK m \in 1..n - 1 : m = MaxRotated - i
      BY <1>0, <1>1
<1>3. PICK c \in [1..n -> Seq(1..MaxLines)] :
        c = Parts /\ \A j \in 0..MaxRotated : c[n - j] = Content(j)
  <2>1. Parts \in Contents /\ \A j \in 0..MaxRotated : Parts[MaxRotated + 1 - j] = Content(j)
        BY PartsAre, Zenon
  <2>2. Contents = [1..n -> Seq(1..MaxLines)]
        BY <1>1 DEF Contents
  <2>3. \A j \in 0..MaxRotated : Parts[n - j] = Content(j)
        BY <1>0, <1>1, <2>1
  <2> QED  BY <2>1, <2>2, <2>3, Zenon
<1>4. PICK d \in [1..n -> Seq(1..MaxLines)] :
        d = Parts' /\ \A j \in 0..MaxRotated : d[n - j] = Content(j)'
  <2>1. Parts' \in Contents /\ \A j \in 0..MaxRotated : Parts'[MaxRotated + 1 - j] = Content(j)'
        BY PartsAreAfter, Zenon
  <2>2. Contents = [1..n -> Seq(1..MaxLines)]
        BY <1>1 DEF Contents
  <2>3. \A j \in 0..MaxRotated : Parts'[n - j] = Content(j)'
        BY <1>0, <1>1, <2>1
  <2> QED  BY <2>1, <2>2, <2>3, Zenon
<1>5. AgreeBeside(c, d, m, n)
  <2> SUFFICES ASSUME NEW k \in (1..n) \ {m, m + 1} PROVE c[k] = d[k]
      BY DEF AgreeBeside
  <2>1. PICK j \in (0..MaxRotated) \ {i, i + 1} : k = n - j
    <3>1. n - k \in (0..MaxRotated) \ {i, i + 1} /\ k = n - (n - k)
          BY <1>0, <1>1, <1>2
    <3> QED  BY <3>1
  <2> QED  BY <1>3, <1>4, <2>1
<1>6. PICK a \in Seq(1..MaxLines), t \in Seq(1..MaxLines) :
        Around(a, t, c, d, m) /\ (m = 1 => a = <<>>) /\ (m + 1 = n => t = <<>>)
  <2>1. Splits(1..MaxLines, c, d, m, n)
    <3>1. PICK S : S = 1..MaxLines
          OBVIOUS
    <3>2. Splits(S, c, d, m, n)
          BY <1>5, <3>1, Rejoined
    <3> QED  BY <3>1, <3>2
  <2> QED  BY <2>1, Zenon DEF Splits
<1>7. /\ c[m] = Content(i + 1) /\ c[m + 1] = Content(i)
      /\ d[m] = Content(i + 1)' /\ d[m + 1] = Content(i)'
  <2>1. m = n - (i + 1) /\ m + 1 = n - i
        BY <1>0, <1>1, <1>2
  <2> QED  BY <1>0, <1>3, <1>4, <2>1
<1>8. Lines = FlattenSeq(c) /\ Lines' = FlattenSeq(d)
  <2>1. Lines' = FlattenSeq(Parts')
        BY Zenon DEF Lines, Parts
  <2> QED  BY <1>3, <1>4, <2>1, LinesAreJoined
<1>9. (i + 1 = MaxRotated => m = 1) /\ (i = 0 => m + 1 = n)
      BY <1>0, <1>1, <1>2
<1>10. Beside(i, a, t, Lines, Lines')
      BY <1>6, <1>7, <1>8, <1>9, Zenon DEF Beside, Around
<1> QED  BY <1>10

\* A rotation takes the lines of one file out, those of the oldest unless a rename failed.
LEMMA RotatedLines ==
  ASSUME FilesTyped, FilesTyped', Rotates
  PROVE  Lines' = Lines \/ IsDropped(Lines, Lines') \/ (damaged /\ IsCut(Lines, Lines'))
<1>0. MaxRotated \in Nat \ {0}
      BY LogAssumption
<1>1. CASE Same
      BY <1>1, SameLines
<1>2. CASE Removed
  <2>1. PICK i \in 0..MaxRotated - 1 : i + 1 = MaxRotated /\ i \in 0..MaxRotated
        BY <1>0
  <2>2. /\ Content(i + 1)' = <<>> /\ Content(i)' = Content(i)
        /\ \A j \in (0..MaxRotated) \ {i, i + 1} : Content(j)' = Content(j)
        BY <1>0, <1>2, <2>1 DEF Removed
  <2>3. PICK a \in Seq(1..MaxLines), t \in Seq(1..MaxLines) : Beside(i, a, t, Lines, Lines')
        BY <2>2, LinesBeside
  <2>4. Content(i + 1) \in Seq(1..MaxLines) /\ Content(i) \in Seq(1..MaxLines)
        BY <1>0, <2>1, ContentIs
  <2>5. <<>> \o Content(i) = Content(i)
        BY <2>4
  <2>6. Without(a, Content(i + 1), Lines, Lines') /\ a = <<>>
    <3>1. Without(a, Content(i + 1), (a \o (Content(i + 1) \o Content(i))) \o t, (a \o Content(i)) \o t)
          BY <2>4, TakenOut
    <3> QED  BY <2>1, <2>2, <2>3, <2>5, <3>1, Zenon DEF Beside
  <2> QED  BY <2>6, Zenon DEF Without
<1>3. CASE \E i \in 0..MaxRotated - 1 :
             Moved(i) /\ (damaged \/ i = MaxRotated - 1 \/ Content(i + 1) = <<>>)
  <2>1. PICK i \in 0..MaxRotated - 1 :
               Moved(i) /\ (damaged \/ i = MaxRotated - 1 \/ Content(i + 1) = <<>>)
        BY <1>3
  <2>2. i \in 0..MaxRotated /\ i + 1 \in 0..MaxRotated /\ (i = MaxRotated - 1 => i + 1 = MaxRotated)
        BY <1>0
  <2>3. PICK a \in Seq(1..MaxLines), t \in Seq(1..MaxLines) : Beside(i, a, t, Lines, Lines')
        BY <2>1, LinesBeside DEF Moved
  <2>4. Content(i + 1) \in Seq(1..MaxLines) /\ Content(i) \in Seq(1..MaxLines)
        BY <2>2, ContentIs
  <2>5. Content(i) \o <<>> = Content(i)
        BY <2>4
  <2>6. Without(a, Content(i + 1), Lines, Lines')
    <3>1. Without(a, Content(i + 1), (a \o (Content(i + 1) \o Content(i))) \o t, (a \o Content(i)) \o t)
          BY <2>4, TakenOut
    <3>2. Content(i)' = <<>> /\ Content(i + 1)' = Content(i)
          BY <2>1 DEF Moved
    <3> QED  BY <2>3, <2>5, <3>1, <3>2, Zenon DEF Beside
  <2>7. i + 1 = MaxRotated => a = <<>>
        BY <2>3 DEF Beside
  <2> QED  BY <2>1, <2>2, <2>6, <2>7, Zenon DEF Without
<1> QED  BY <1>1, <1>2, <1>3, Zenon DEF Rotates

LEMMA GrownLines ==
  ASSUME FilesTyped, FilesTyped', NEW x \in 1..MaxLines, Grown(x)
  PROVE  Lines' = Append(Lines, x)
<1>1. PICK i \in 0..MaxRotated - 1 : i = 0 /\ 0 \in 0..MaxRotated /\ 1 \in 0..MaxRotated
      BY LogAssumption
<1>2. \A j \in 1..MaxRotated : Content(j)' = Content(j)
      BY DEF Grown
<1>3. Content(i + 1)' = Content(i + 1) /\ Content(i)' = Append(Content(i), x)
      BY <1>1, <1>2, LogAssumption DEF Grown
<1>4. PICK a \in Seq(1..MaxLines), t \in Seq(1..MaxLines) : Beside(i, a, t, Lines, Lines')
  <2>1. \A j \in (0..MaxRotated) \ {i, i + 1} : j \in 1..MaxRotated
        BY <1>1
  <2> QED  BY <1>2, <2>1, LinesBeside
<1>5. PICK y \in Seq(1..MaxLines), z \in Seq(1..MaxLines) : y = Content(i + 1) /\ z = Content(i)
      BY <1>1, ContentIs
<1>6. Lines = (a \o (y \o z)) \o <<>> /\ Lines' = (a \o (y \o Append(z, x))) \o <<>>
      BY <1>1, <1>3, <1>4, <1>5, Zenon DEF Beside
<1>7. PICK b \in Seq(1..MaxLines) : b = y \o z /\ y \o Append(z, x) = Append(b, x)
  <2>1. y \o z \in Seq(1..MaxLines) /\ y \o Append(z, x) = Append(y \o z, x)
        OBVIOUS
  <2> QED  BY <2>1
<1>8. PICK e \in Seq(1..MaxLines) : e = a \o b /\ a \o Append(b, x) = Append(e, x)
  <2>1. a \o b \in Seq(1..MaxLines) /\ a \o Append(b, x) = Append(a \o b, x)
        OBVIOUS
  <2> QED  BY <2>1
<1>9. e \o <<>> = e /\ Append(e, x) \o <<>> = Append(e, x)
      OBVIOUS
<1> QED  BY <1>6, <1>7, <1>8, <1>9, Zenon

LEMMA LogStep == LogInv /\ [Next]_vars => [Log!LogNext]_(Log!logVars)
<1> SUFFICES ASSUME LogInv, [Next]_vars PROVE [Log!LogNext]_(Log!logVars)
    OBVIOUS
<1>0. Typed /\ Rotation /\ Pending /\ FilesTyped
      BY DEF LogInv, WritesInv, Typed
<1>1. FilesTyped'
      BY <1>0, TypeStep DEF Typed
<1>2. CASE UNCHANGED <<files, written, damaged>>
  <2>1. Lines' = Lines
        BY <1>2, SameLines DEF Same, Content
  <2> QED  BY <1>2, <2>1 DEF Log!logVars
<1>3. CASE Keeps /\ Rotates /\ damaged' = damaged
  <2>1. written' = written /\ damaged' = damaged
        BY <1>3 DEF Keeps
  <2>2. CASE Lines' = Lines
        BY <2>1, <2>2 DEF Log!logVars
  <2>3. CASE IsDropped(Lines, Lines')
        BY <2>1, <2>3 DEF IsDropped, Log!LogNext, Log!DropOldest
  <2>4. CASE damaged /\ IsCut(Lines, Lines')
        BY <2>1, <2>4 DEF IsCut, Log!LogNext, Log!LoseInTheMiddle
  <2> QED  BY <1>0, <1>1, <1>3, <2>2, <2>3, <2>4, RotatedLines
<1>4. CASE Keeps /\ Same /\ damaged' = TRUE
  <2>1. Lines' = Lines
        BY <1>4, SameLines
  <2> QED  BY <1>4, <2>1 DEF Keeps, Log!LogNext, Log!Damage
<1>5. CASE Appends /\ damaged' = damaged
  <2>1. CASE Same /\ written' = written
    <3>1. Lines' = Lines
          BY <2>1, SameLines
    <3> QED  BY <1>5, <2>1, <3>1 DEF Log!logVars
  <2>2. CASE Grown(Head(queue)) /\ written' = Head(queue)
    <3>1. Head(queue) \in 1..MaxLines /\ Head(queue) > written
      <4>1. /\ queue \in Seq(1..submitted) /\ queue # <<>> /\ submitted \in 0..MaxLines
            /\ \A k \in DOMAIN queue : queue[k] > written
            BY <1>0, <1>5 DEF Typed, LinesTyped, Appends, Pending
      <4>2. Head(queue) = queue[1] /\ 1 \in DOMAIN queue /\ queue[1] \in 1..submitted
            BY <4>1
      <4> QED  BY <4>1, <4>2, LogAssumption
    <3>2. Lines' = Append(Lines, Head(queue))
          BY <1>0, <1>1, <2>2, <3>1, GrownLines
    <3> QED  BY <1>5, <2>2, <3>1, <3>2 DEF Log!LogNext, Log!AppendLine
  <2> QED  BY <1>5, <2>1, <2>2 DEF Appends
<1>6. Write => \/ Keeps /\ Rotates /\ damaged' = damaged
               \/ Keeps /\ Same /\ damaged' = TRUE
               \/ Appends /\ damaged' = damaged
      BY <1>0, StatEffect, UnlinkEffect, RenameEffect, AppendEffect DEF Write, Rotates
<1>7. Write \/ UNCHANGED <<files, written, damaged>>
  <2>1. ASSUME NEW r \in Requests, AnyStep(r)
        PROVE  UNCHANGED <<files, written, damaged>>
        BY <2>1 DEF AnyStep, Submits, Connects, Closes, Logs, Sends, StreamEnds, Detaches, LogsOrphan, writeVars
  <2>2. ASSUME Signal \/ Drained \/ Exits \/ DrainTimesOut \/ Killed \/ Restarts \/ UNCHANGED vars
        PROVE  UNCHANGED <<files, written, damaged>>
        BY <2>2 DEF Signal, Drained, Exits, DrainTimesOut, Killed, Restarts, vars, writeVars
  <2> QED  BY <2>1, <2>2 DEF Next, AnyStep, Submits
<1> QED  BY <1>2, <1>3, <1>4, <1>5, <1>6, <1>7

-----------------------------------------------------------------------------
(* What the summary log guarantees *)

\* The state of the log, of its writes and of the shutdown keeps its type (appendSummaryLog,
\* rotateLogFileIfNeeded, gracefulShutdown).
THEOREM LogTypes == Spec => []TypeOK
<1>1. LogInv => TypeOK
      BY TypedIsTypeOK DEF LogInv, WritesInv
<1> QED  BY <1>1, LogHolds, PTL

\* After a clean exit the line of every request that was answered is in the files, unless its
\* append failed, it was among the oldest, a rename failed, or the request was detached and its
\* work outlived the last connection (gracefulShutdown waits for the writes that are queued once
\* the connections are gone).
THEOREM ExitKeepsLines == Spec => []AnsweredLinesSurvive
BY LogHolds, Survives, PTL

\* Read as one, the files are a log in the order of submission that loses its oldest lines only,
\* until a rename fails (summaryLogQueue, rotateLogFileIfNeeded): every step on the files is a
\* step of the abstract log or none.
THEOREM FilesAreALineLog == Spec => ImplementsLineLog
<1>1. Init => Log!LogInit
      BY DEF Init, Log!LogInit
<1> QED  BY <1>1, InitLog, LogHolds, LogStep, PTL DEF Spec, ImplementsLineLog, Log!LogSpec
=============================================================================
