--------------------------------- MODULE Wal ---------------------------------
(***************************************************************************)
(* The write-ahead log as a file (crates/storage/src/wal.rs): one line of  *)
(* JSON for each operation, appended with two writes - the text and its    *)
(* newline - and a sync, and read back line by line when the daemon starts.*)
(*                                                                         *)
(* The process can be killed between any two writes, the machine can lose  *)
(* what was not synced, and a write can fail or be cut short.  A line      *)
(* matters here only for what a reader makes of it: an entry, or garbage   *)
(* that does not parse.                                                    *)
(***************************************************************************)
EXTENDS Naturals, Sequences

CONSTANTS
  Op,          \* operations
  Garbage,     \* stands for text that is no entry
  None,        \* no operation is being appended
  MaxAppends,  \* bound: appends begun
  MaxFaults,   \* bound: writes and syncs that fail
  MaxCrashes   \* bound: kills and power losses

ASSUME WalAssumption ==
  /\ MaxAppends \in Nat /\ MaxFaults \in Nat /\ MaxCrashes \in Nat
  /\ None \notin Op
  /\ Garbage \notin [seq : Nat, op : Op]

VARIABLES
  file,      \* the lines of the file, as a reader finds them
  disk,      \* the part of it that would survive a power loss
  sequence,  \* Wal.sequence
  pc,        \* "down", "idle", or the step an append is at
  current,   \* the operation being appended
  memory,    \* the operations the daemon has applied
  acked,     \* history: the line each append that returned Ok ended on
  appends, faults, crashes

logVars == <<file, disk, acked>>
boundVars == <<appends, faults, crashes>>
vars == <<logVars, sequence, pc, current, memory, boundVars>>

Entry == [seq : Nat, op : Op]

Line == [text : Entry \cup {Garbage}, ended : BOOLEAN]

TypeOK ==
  /\ file \in Seq(Line) /\ disk \in Seq(Line)
  /\ sequence \in Nat
  /\ pc \in {"down", "idle", "text", "newline", "sync", "apply"}
  /\ current \in Op \cup {None}
  /\ memory \in Seq(Op)
  /\ acked \subseteq [line : Nat, op : Op]
  /\ appends \in Nat /\ faults \in Nat /\ crashes \in Nat

Init ==
  /\ file = <<>> /\ disk = <<>>
  /\ sequence = 0 /\ pc = "down" /\ current = None /\ memory = <<>>
  /\ acked = {}
  /\ appends = 0 /\ faults = 0 /\ crashes = 0

-----------------------------------------------------------------------------
(* The file.                                                               *)

Last(f) == f[Len(f)]

(* The last line has no newline, so that the next text continues it.       *)
Unterminated(f) == f # <<>> /\ ~Last(f).ended

(* Text is written: on a line of its own if the last one was ended.  Two   *)
(* texts on one line do not parse, whatever they were.                     *)
WithText(f, text) ==
  IF Unterminated(f)
  THEN [f EXCEPT ![Len(f)] = [text |-> Garbage, ended |-> FALSE]]
  ELSE Append(f, [text |-> text, ended |-> FALSE])

WithNewline(f) ==
  [f EXCEPT ![Len(f)] = [text |-> Last(f).text, ended |-> TRUE]]

(* Wal::replay: every line must parse.                                     *)
Readable(f) == \A i \in DOMAIN f : f[i].text # Garbage

Replay(f) == [i \in DOMAIN f |-> f[i].text.op]

(* What a power loss can leave of a line that was not on disk.             *)
Remains(line) ==
  { line, [text |-> line.text, ended |-> FALSE],
    [text |-> Garbage, ended |-> FALSE] }

(* What it can leave of the file: a part of it, no less than what was      *)
(* synced.                                                                 *)
Cuts ==
  {disk} \cup UNION { {Append(SubSeq(file, 1, n - 1), line) :
                         line \in Remains(file[n])} :
                      n \in {m \in DOMAIN file :
                               m > Len(disk) \/ ~disk[m].ended} }

-----------------------------------------------------------------------------
(* Mutant: the sequence starts again at 0 with each process.               *)
OpenFromZero ==
  /\ pc = "down" /\ Readable(file)
  /\ pc' = "idle" /\ sequence' = 0 /\ memory' = Replay(file)
  /\ UNCHANGED <<logVars, current, boundVars>>

(* Mutant: a last line without a newline is counted and not replayed.      *)
OpenEndedOnly ==
  /\ pc = "down" /\ Readable(file)
  /\ pc' = "idle" /\ sequence' = Len(file)
  /\ memory' = Replay(IF Unterminated(file)
                      THEN SubSeq(file, 1, Len(file) - 1) ELSE file)
  /\ UNCHANGED <<logVars, current, boundVars>>

(* Mutant: a line that does not parse is taken for an operation.           *)
OpenUnchecked ==
  /\ pc = "down"
  /\ pc' = "idle" /\ sequence' = Len(file)
  /\ memory' = [i \in DOMAIN file |->
                  IF file[i].text = Garbage THEN None ELSE file[i].text.op]
  /\ UNCHANGED <<logVars, current, boundVars>>

(* Wal::open counts the lines and startup replays them; a line that does   *)
(* not parse is an error, and the daemon does not start.                   *)
Open ==
  /\ pc = "down" /\ Readable(file)
  /\ pc' = "idle" /\ sequence' = Len(file) /\ memory' = Replay(file)
  /\ UNCHANGED <<logVars, current, boundVars>>

(* Wal::append.  The number is taken before anything is written.           *)
Begin(op) ==
  /\ pc = "idle" /\ appends < MaxAppends
  /\ appends' = appends + 1
  /\ sequence' = sequence + 1
  /\ current' = op
  /\ pc' = "text"
  /\ UNCHANGED <<logVars, memory, faults, crashes>>

WriteText ==
  /\ pc = "text"
  /\ file' = WithText(file, [seq |-> sequence, op |-> current])
  /\ pc' = "newline"
  /\ UNCHANGED <<disk, acked, sequence, current, memory, boundVars>>

WriteNewline ==
  /\ pc = "newline"
  /\ file' = WithNewline(file)
  /\ pc' = "sync"
  /\ UNCHANGED <<disk, acked, sequence, current, memory, boundVars>>

(* Mutant: append returns without a sync.                                  *)
SyncSkipped ==
  /\ pc = "sync"
  /\ acked' = acked \cup {[line |-> Len(file), op |-> current]}
  /\ pc' = "apply"
  /\ UNCHANGED <<file, disk, sequence, current, memory, boundVars>>

(* The sync, after which append returns Ok.                                *)
Sync ==
  /\ pc = "sync"
  /\ disk' = file
  /\ acked' = acked \cup {[line |-> Len(file), op |-> current]}
  /\ pc' = "apply"
  /\ UNCHANGED <<file, sequence, current, memory, boundVars>>

(* Executor, Persist: the operation is applied once it is in the log.      *)
ApplyOp ==
  /\ pc = "apply"
  /\ memory' = Append(memory, current)
  /\ current' = None
  /\ pc' = "idle"
  /\ UNCHANGED <<logVars, sequence, boundVars>>

(* A write or the sync fails and append returns the error; the daemon goes *)
(* on.  The text may have been written in part.                            *)
AppendFails ==
  /\ pc \in {"text", "newline", "sync"} /\ faults < MaxFaults
  /\ \/ UNCHANGED file
     \/ pc = "text" /\ file' = WithText(file, Garbage)
  /\ faults' = faults + 1
  /\ current' = None
  /\ pc' = "idle"
  /\ UNCHANGED <<disk, acked, sequence, memory, appends, crashes>>

Die ==
  /\ pc # "down" /\ crashes < MaxCrashes
  /\ crashes' = crashes + 1
  /\ pc' = "down" /\ current' = None /\ memory' = <<>> /\ sequence' = 0
  /\ UNCHANGED <<acked, appends, faults>>

(* The process is killed; what it wrote stays.                             *)
Kill == Die /\ UNCHANGED <<file, disk>>

(* The machine stops; what the disk holds is the file from now on.         *)
PowerLoss ==
  /\ Die
  /\ \E rest \in Cuts : file' = rest /\ disk' = rest

Next ==
  \/ Open \/ \E op \in Op : Begin(op)
  \/ WriteText \/ WriteNewline \/ Sync \/ ApplyOp
  \/ AppendFails \/ Kill \/ PowerLoss

Spec == Init /\ [][Next]_vars

-----------------------------------------------------------------------------
(* A log that can be read at all has lost nothing: each append that        *)
(* returned Ok is found, with its operation, on the line it was written to,*)
(* whatever crashes and failed appends came before and after it.           *)
ReadableLogIsComplete ==
  Readable(file) =>
    \A a \in acked : a.line \in DOMAIN file /\ file[a.line].text.op = a.op

(* As long as no append failed the entries of a readable log are numbered  *)
(* from 1 without a gap, through any number of restarts.                   *)
SequenceCountsLines ==
  faults = 0 /\ Readable(file) =>
    \A i \in DOMAIN file : file[i].text.seq = i

(* As long as no append failed a daemon at rest holds what a replay of its *)
(* log would give, entries found after a crash that nobody was told about  *)
(* included.                                                               *)
MemoryIsLog ==
  faults = 0 /\ Readable(file) /\ pc = "idle" => memory = Replay(file)

-----------------------------------------------------------------------------
(* What the documents promise and the code does not do.                    *)

(* An operation whose append returned Ok can be read back.                 *)
AckedIsReadable == acked # {} => Readable(file)
=============================================================================
