----------------------------- MODULE SummaryLog -----------------------------
(***************************************************************************)
(* The summary log of src/index.js and the shutdown that flushes it:       *)
(* appendSummaryLog chains every write to the one before; a write rotates  *)
(* the files if need be and appends its line.  gracefulShutdown waits for  *)
(* the connections, then for the writes queued at that moment.             *)
(*                                                                         *)
(* A line is known by its number in the order of submission, a connection  *)
(* by its request.  Sizes are counted in lines.  The process may be killed *)
(* at any moment and be started again over the files it left.              *)
(***************************************************************************)
EXTENDS Integers, SequencesExt

CONSTANTS Requests,
          MaxSize,     \* LOG_MAX_FILE_SIZE_BYTES
          MaxRotated,  \* LOG_MAX_ROTATED_FILES
          Found,       \* the files a first start may find, functions from 0..MaxRotated
          FoundLines,  \* the number of lines in them
          MaxLines,    \* the bound on lines
          MaxFaults,   \* the bound on failing file operations
          None

ASSUME LogAssumption ==
  /\ MaxSize \in Nat \ {0} /\ MaxRotated \in Nat \ {0}
  /\ MaxLines \in Nat /\ FoundLines \in 0..MaxLines /\ MaxFaults \in Nat

\* The lines stand in the order of their numbers, and those of an older file come first.
InOrder(f) ==
  \A i, j \in DOMAIN f : f[i] # None /\ f[j] # None =>
    \A k \in DOMAIN f[i], l \in DOMAIN f[j] : i > j \/ (i = j /\ k < l) => f[i][k] < f[j][l]

\* A first start finds what an earlier process wrote: its lines are numbered as they stand.
ASSUME FoundAssumption ==
  /\ Found \subseteq [0..MaxRotated -> Seq(1..FoundLines) \cup {None}]
  /\ \A f \in Found : InOrder(f)
  /\ None \notin Seq(1..MaxLines)

VARIABLES files,      \* 0 is the log, i is .i; None: missing
          submitted,  \* how many lines were submitted
          queue,      \* the lines whose write is not over, the first one is being written
          at, index,  \* where that write stands, and which file it rotates next
          written,    \* the last line that was appended
          lost,       \* history: lines whose append failed
          damaged,    \* history: a rename has failed
          faults,
          open,       \* activeConnections
          handler, lineOf,
          answered,   \* history: requests answered by this process
          process,    \* "up", "draining", "flushing", "exited" (code 0), "forced" (code 1), "killed"
          tail        \* what flushSummaryLogs waits for

writeVars == <<files, at, index, written, lost, damaged, faults>>
handlerVars == <<open, handler, lineOf, answered>>
vars == <<writeVars, handlerVars, submitted, queue, process, tail>>

Places == {"none", "running",
           "logging",   \* its line is submitted, its answer waits for it
           "done",
           "detached",  \* answered at its deadline, the upstream still works
           "captured"}  \* the same, and the line of that work is submitted
Running == {"up", "draining", "flushing"}
Over == {"exited", "forced", "killed"}

TypeOK ==
  /\ files \in [0..MaxRotated -> Seq(1..MaxLines) \cup {None}]
  /\ submitted \in 0..MaxLines /\ queue \in Seq(1..submitted) /\ written \in 0..submitted
  /\ at \in {"stat", "rotate", "append"} /\ index \in 0..MaxRotated
  /\ lost \subseteq 1..submitted /\ damaged \in BOOLEAN /\ faults \in 0..MaxFaults
  /\ open \subseteq Requests /\ answered \subseteq Requests
  /\ handler \in [Requests -> Places] /\ lineOf \in [Requests -> 0..submitted]
  /\ process \in Running \cup Over /\ tail \in 0..submitted

AllIdle == [handler |-> [r \in Requests |-> "none"], lineOf |-> [r \in Requests |-> 0]]

Init ==
  /\ queue = <<>> /\ at = "stat" /\ index = 0
  /\ open = {} /\ answered = {} /\ handler = AllIdle.handler /\ lineOf = AllIdle.lineOf
  /\ process = "up" /\ tail = 0
  /\ files \in Found /\ submitted = FoundLines /\ written = FoundLines
  /\ lost = {} /\ damaged = FALSE /\ faults = 0

-----------------------------------------------------------------------------
(* appendSummaryLog and rotateLogFileIfNeeded *)

Submit(r) ==
  /\ submitted < MaxLines
  /\ submitted' = submitted + 1
  /\ queue' = Append(queue, submitted + 1)
  /\ lineOf' = [lineOf EXCEPT ![r] = submitted + 1]

IsWritten(line) == line \notin ToSet(queue)

Writing == process \in Running /\ queue # <<>>

\* An operation fails.
Fault == faults < MaxFaults /\ faults' = faults + 1

\* A mistake: the log is renamed, the rotated files are not.
FirstIndexOnlyLog == 0

FirstIndex == MaxRotated

Full == files[0] # None /\ Len(files[0]) >= MaxSize

\* A missing file and one that cannot be looked at are not rotated.
Stat ==
  /\ Writing /\ at = "stat"
  /\ \/ /\ Full
        /\ at' = "rotate" /\ index' = FirstIndex
        /\ UNCHANGED faults
     \/ /\ IF Full THEN Fault ELSE UNCHANGED faults
        /\ at' = "append" /\ UNCHANGED index
  /\ UNCHANGED <<files, written, lost, damaged, queue>>

Rotating(i) ==
  /\ Writing /\ at = "rotate" /\ index = i
  /\ IF i = 0 THEN at' = "append" /\ UNCHANGED index ELSE index' = i - 1 /\ UNCHANGED at
  /\ UNCHANGED <<written, lost, queue>>

\* A mistake: the oldest file is renamed as well.
UnlinkRenames ==
  /\ Rotating(MaxRotated)
  /\ files' = (MaxRotated + 1 :> files[MaxRotated]) @@ [files EXCEPT ![MaxRotated] = None]
  /\ UNCHANGED <<damaged, faults>>

\* The oldest file goes; that it cannot be removed is ignored.
Unlink ==
  /\ Rotating(MaxRotated)
  /\ \/ files' = [files EXCEPT ![MaxRotated] = None] /\ UNCHANGED faults
     \/ Fault /\ UNCHANGED files
  /\ UNCHANGED damaged

\* The others move up by one, the log itself last; a missing file, or a rename that fails, is
\* ignored.
Rename ==
  \E i \in 0..MaxRotated - 1 :
    /\ Rotating(i)
    /\ \/ /\ files' = IF files[i] = None THEN files
                      ELSE [files EXCEPT ![i] = None, ![i + 1] = files[i]]
          /\ UNCHANGED <<damaged, faults>>
       \/ Fault /\ damaged' = TRUE /\ UNCHANGED files

\* The write ends, and with it its promise, whether the line was appended or not.
AppendFile ==
  /\ Writing /\ at = "append"
  /\ at' = "stat" /\ queue' = Tail(queue) /\ UNCHANGED index
  /\ \/ /\ files' = [files EXCEPT ![0] = Append(IF @ = None THEN <<>> ELSE @, Head(queue))]
        /\ written' = Head(queue)
        /\ UNCHANGED <<lost, faults>>
     \/ Fault /\ lost' = lost \cup {Head(queue)} /\ UNCHANGED <<files, written>>
  /\ UNCHANGED damaged

Write ==
  /\ Stat \/ Unlink \/ Rename \/ AppendFile
  /\ UNCHANGED <<handlerVars, submitted, process, tail>>

-----------------------------------------------------------------------------
(* The connections and the handlers *)

\* trackConnection; after server.close nobody can connect.
Connects(r) ==
  /\ process = "up" /\ handler[r] = "none" /\ r \notin open
  /\ submitted < MaxLines
  /\ open' = open \cup {r} /\ handler' = [handler EXCEPT ![r] = "running"]
  /\ UNCHANGED <<writeVars, submitted, queue, lineOf, answered, process, tail>>

\* The connection closes, before the answer or after it.
Closes(r) ==
  /\ process \in Running /\ r \in open
  /\ open' = open \ {r}
  /\ UNCHANGED <<writeVars, submitted, queue, handler, lineOf, answered, process, tail>>

\* A buffered answer: the handler waits for its line and then sends, if somebody is there.
Logs(r) ==
  /\ process \in Running /\ handler[r] = "running"
  /\ Submit(r)
  /\ handler' = [handler EXCEPT ![r] = "logging"]
  /\ UNCHANGED <<writeVars, open, answered, process, tail>>

Sends(r) ==
  /\ process \in Running /\ handler[r] = "logging" /\ IsWritten(lineOf[r])
  /\ handler' = [handler EXCEPT ![r] = "done"]
  /\ answered' = IF r \in open THEN answered \cup {r} ELSE answered
  /\ UNCHANGED <<writeVars, submitted, queue, open, lineOf, process, tail>>

\* A streamed answer: the response has ended before the line is submitted, in the same turn,
\* so before the close of the connection is seen.
StreamEnds(r) ==
  /\ process \in Running /\ handler[r] = "running" /\ r \in open
  /\ Submit(r)
  /\ handler' = [handler EXCEPT ![r] = "done"]
  /\ answered' = answered \cup {r}
  /\ UNCHANGED <<writeVars, open, process, tail>>

\* An unsafe call is answered at its deadline.  Its line waits for the end of its work, which
\* needs no connection.
Detaches(r) ==
  /\ process \in Running /\ handler[r] = "running"
  /\ handler' = [handler EXCEPT ![r] = "detached"]
  /\ answered' = IF r \in open THEN answered \cup {r} ELSE answered
  /\ UNCHANGED <<writeVars, submitted, queue, open, lineOf, process, tail>>

LogsOrphan(r) ==
  /\ process \in Running /\ handler[r] = "detached"
  /\ Submit(r)
  /\ handler' = [handler EXCEPT ![r] = "captured"]
  /\ UNCHANGED <<writeVars, open, answered, process, tail>>

-----------------------------------------------------------------------------
(* gracefulShutdown *)

\* A second signal returns at once.
Signal ==
  /\ process = "up"
  /\ process' = "draining"
  /\ UNCHANGED <<writeVars, handlerVars, submitted, queue, tail>>

\* A mistake: the process exits with the last connection.
DrainedExits ==
  /\ process = "draining" /\ open = {}
  /\ process' = "flushing" /\ tail' = 0
  /\ UNCHANGED <<writeVars, handlerVars, submitted, queue>>

\* The interval finds no connection left.  Handlers whose clients left may still be running.
Drained ==
  /\ process = "draining" /\ open = {}
  /\ process' = "flushing" /\ tail' = submitted
  /\ UNCHANGED <<writeVars, handlerVars, submitted, queue>>

\* A mistake: the exit also waits for the handlers whose clients left.
ExitsAfterHandlers ==
  /\ process = "flushing" /\ \A r \in Requests : handler[r] \in {"none", "done", "captured"}
  /\ \A line \in 1..tail : IsWritten(line)
  /\ process' = "exited"
  /\ UNCHANGED <<writeVars, handlerVars, submitted, queue, tail>>

Exits ==
  /\ process = "flushing" /\ \A line \in 1..tail : IsWritten(line)
  /\ process' = "exited"
  /\ UNCHANGED <<writeVars, handlerVars, submitted, queue, tail>>

\* The drain deadline passes with connections left: exit without a flush.
DrainTimesOut ==
  /\ process = "draining" /\ open # {}
  /\ process' = "forced"
  /\ UNCHANGED <<writeVars, handlerVars, submitted, queue, tail>>

Killed ==
  /\ process \in Running
  /\ process' = "killed"
  /\ UNCHANGED <<writeVars, handlerVars, submitted, queue, tail>>

Restarts ==
  /\ process \in Over /\ submitted < MaxLines
  /\ queue' = <<>> /\ at' = "stat" /\ index' = 0
  /\ open' = {} /\ answered' = {} /\ handler' = AllIdle.handler /\ lineOf' = AllIdle.lineOf
  /\ process' = "up" /\ tail' = 0
  /\ UNCHANGED <<files, written, lost, damaged, faults, submitted>>

-----------------------------------------------------------------------------

Next ==
  \/ Write \/ Signal \/ Drained \/ Exits \/ DrainTimesOut \/ Killed \/ Restarts
  \/ \E r \in Requests : \/ Connects(r) \/ Closes(r) \/ Logs(r) \/ Sends(r) \/ StreamEnds(r)
                         \/ Detaches(r) \/ LogsOrphan(r)

\* An operation on a file ends, the interval of the shutdown fires, and so do its two ends.
Fairness == WF_vars(Write) /\ WF_vars(Drained) /\ WF_vars(Exits) /\ WF_vars(DrainTimesOut)

Spec == Init /\ [][Next]_vars /\ Fairness

-----------------------------------------------------------------------------
(* Properties *)

Content(i) == IF files[i] = None THEN <<>> ELSE files[i]

\* The rotated files from the oldest to the log itself, read as one.
Lines == FlattenSeq([k \in 1..MaxRotated + 1 |-> Content(MaxRotated + 1 - k)])

Log == INSTANCE LineLog WITH lines <- Lines, last <- written

\* However requests interleave, and whatever fails or is restarted in between, the files
\* together are a log in the order of submission that loses its oldest lines only, unless a
\* rename failed (comments at summaryLogQueue and rotateLogFileIfNeeded).
ImplementsLineLog == Log!LogSpec

\* The line of r was submitted, and unless its append failed, rotation made it go as the oldest,
\* or a rename failed, it can be read.
LineIsKept(r) ==
  /\ lineOf[r] > 0
  /\ \/ lineOf[r] \in ToSet(Lines) \cup lost
     \/ damaged \/ (Lines # <<>> /\ lineOf[r] < Head(Lines))

\* r was answered at its deadline, and its work ended after the last connection was gone, if at all.
OutlivesItsClient(r) == handler[r] = "detached" \/ (handler[r] = "captured" /\ lineOf[r] > tail)

\* A clean exit leaves the line of every answered request in the files, unless the work of a
\* detached call went on beyond the last connection (comment in gracefulShutdown: "or the last
\* request's line is lost on every restart").
AnsweredLinesSurvive ==
  process = "exited" => \A r \in answered : LineIsKept(r) \/ OutlivesItsClient(r)

\* A shutdown comes to its end, whether its clients leave or not, also when file operations
\* fail on the way and requests of clients that left still submit lines (gracefulShutdown).
ShutdownEnds == (process = "draining") ~> (process \in Over)
=============================================================================
