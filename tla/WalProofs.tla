------------------------------- MODULE WalProofs -------------------------------
(***************************************************************************)
(* Theorems about the log file, for any operations and any number of       *)
(* appends, faults and crashes.                                            *)
(***************************************************************************)
EXTENDS Wal, SequenceTheorems, TLAPS

(* A line holds the operation, or has become garbage.                      *)
Holds(line, op) == line.text # Garbage => line.text.op = op

(* Only the last line of a file may lack its newline.                      *)
EndedUpToLast(f) == \A i \in DOMAIN f : i < Len(f) => f[i].ended

(* The file agrees with the disk on every line that was ended there.       *)
DiskBelowFile ==
  /\ Len(disk) <= Len(file)
  /\ \A i \in DOMAIN disk : disk[i].ended => file[i] = disk[i]

(* An acknowledged line is on disk, with its newline.                      *)
AckedOnDisk ==
  \A a \in acked :
    a.line \in DOMAIN disk /\ disk[a.line].ended /\ Holds(disk[a.line], a.op)

(* The append at hand owns the last line until it returns.                 *)
LastIsCurrent ==
  /\ pc \in {"newline", "sync"} => file # <<>> /\ Holds(Last(file), current)
  /\ pc = "sync" => Last(file).ended
  /\ pc = "newline" => ~Last(file).ended
  /\ pc \in {"text", "newline", "sync", "apply"} => current \in Op

CompleteInv ==
  TypeOK /\ EndedUpToLast(file) /\ EndedUpToLast(disk) /\ DiskBelowFile
    /\ AckedOnDisk /\ LastIsCurrent

(* What a sequence of lines is, as the provers need it.                    *)
LEMMA LinesType ==
  ASSUME NEW f \in Seq(Line)
  PROVE  /\ Len(f) \in Nat /\ DOMAIN f = 1..Len(f)
         /\ \A i \in DOMAIN f : f[i] \in Line
         /\ f # <<>> => Len(f) \in DOMAIN f /\ Last(f) \in Line
BY DEF Last

(* Writing text: where it goes, and that it leaves every ended line alone. *)
LEMMA WithTextProperties ==
  ASSUME NEW f \in Seq(Line), NEW text \in Entry \cup {Garbage}
  PROVE  LET g == WithText(f, text)
         IN  /\ g \in Seq(Line) /\ g # <<>> /\ ~Last(g).ended
             /\ Last(g).text \in {text, Garbage}
             /\ Len(g) = IF Unterminated(f) THEN Len(f) ELSE Len(f) + 1
             /\ \A i \in DOMAIN f : i < Len(f) \/ f[i].ended => g[i] = f[i]
             /\ Unterminated(f) => Last(g).text = Garbage
             /\ ~Unterminated(f) => Last(g).text = text
<1>1. CASE Unterminated(f)
  <2> DEFINE line == [text |-> Garbage, ended |-> FALSE]
             g    == [f EXCEPT ![Len(f)] = line]
  <2>1. f # <<>> /\ ~f[Len(f)].ended
    BY <1>1 DEF Unterminated, Last
  <2>2. Len(f) \in 1..Len(f) /\ line \in Line
    BY <2>1, LinesType DEF Line
  <2>3. /\ g \in Seq(Line) /\ Len(g) = Len(f)
        /\ \A j \in 1..Len(f) : g[j] = IF j = Len(f) THEN line ELSE f[j]
    BY <2>2, ExceptSeq
  <2>4. WithText(f, text) = g
    BY <1>1 DEF WithText
  <2>5. Last(g) = line
    BY <2>2, <2>3 DEF Last
  <2> HIDE DEF g
  <2>6. g # <<>>
    BY <2>2, <2>3
  <2>7. \A i \in DOMAIN f : i < Len(f) \/ f[i].ended => g[i] = f[i]
    BY <2>1, <2>3, LinesType
  <2> QED BY <1>1, <2>3, <2>4, <2>5, <2>6, <2>7
<1>2. CASE ~Unterminated(f)
  <2> DEFINE line == [text |-> text, ended |-> FALSE]
             g    == Append(f, line)
  <2>1. line \in Line
    BY DEF Line
  <2>2. /\ g \in Seq(Line) /\ Len(g) = Len(f) + 1
        /\ \A j \in 1..Len(f) : g[j] = f[j]
        /\ g[Len(f) + 1] = line
    BY <2>1
  <2>3. WithText(f, text) = g
    BY <1>2 DEF WithText
  <2>4. Last(g) = line
    BY <2>2 DEF Last
  <2> HIDE DEF g
  <2>5. g # <<>>
    BY <2>2, LinesType
  <2>6. \A i \in DOMAIN f : g[i] = f[i]
    BY <2>2, LinesType
  <2> QED BY <1>2, <2>2, <2>3, <2>4, <2>5, <2>6
<1> QED BY <1>1, <1>2

(* Ending a line changes nothing else of it.                               *)
LEMMA EndedLine ==
  ASSUME NEW r \in Line
  PROVE  /\ [text |-> r.text, ended |-> TRUE] \in Line
         /\ r.ended => [text |-> r.text, ended |-> TRUE] = r
BY DEF Line

(* Writing the newline: it ends the last line and does nothing else.       *)
LEMMA WithNewlineProperties ==
  ASSUME NEW f \in Seq(Line), f # <<>>
  PROVE  LET g == WithNewline(f)
         IN  /\ g \in Seq(Line) /\ Len(g) = Len(f) /\ g # <<>>
             /\ Last(g) = [text |-> Last(f).text, ended |-> TRUE]
             /\ \A i \in DOMAIN f : i < Len(f) \/ f[i].ended => g[i] = f[i]
             /\ \A i \in DOMAIN f : g[i].text = f[i].text
<1> DEFINE line == [text |-> f[Len(f)].text, ended |-> TRUE]
           g    == [f EXCEPT ![Len(f)] = line]
<1>1. Len(f) \in 1..Len(f) /\ f[Len(f)] \in Line
  BY LinesType
<1>2. line \in Line /\ (f[Len(f)].ended => line = f[Len(f)])
  BY <1>1, EndedLine
<1>3. WithNewline(f) = g
  BY DEF WithNewline, Last
<1>4. line.text = f[Len(f)].text
  OBVIOUS
<1> HIDE DEF line
<1>5. /\ g \in Seq(Line) /\ Len(g) = Len(f)
      /\ \A j \in 1..Len(f) : g[j] = IF j = Len(f) THEN line ELSE f[j]
  BY <1>1, <1>2, ExceptSeq
<1> HIDE DEF g
<1>6. g # <<>> /\ Last(g) = line
  BY <1>1, <1>5 DEF Last
<1>7. \A i \in DOMAIN f : i < Len(f) \/ f[i].ended => g[i] = f[i]
  BY <1>2, <1>5, LinesType
<1>8. \A i \in DOMAIN f : g[i].text = f[i].text
  BY <1>4, <1>5, LinesType
<1> QED BY <1>3, <1>5, <1>6, <1>7, <1>8 DEF line, Last

(* A replay gives operations.                                              *)
LEMMA ReplayType ==
  ASSUME NEW f \in Seq(Line), Readable(f)
  PROVE  Replay(f) \in Seq(Op)
<1>1. \A i \in 1..Len(f) : f[i].text.op \in Op
  BY LinesType DEF Readable, Line, Entry
<1> QED BY <1>1, LinesType DEF Replay

(* A file cut short after a power loss: the lines before the cut are       *)
(* unchanged and something remains of the line that was cut.               *)
LEMMA CutProperties ==
  ASSUME NEW f \in Seq(Line), NEW n \in DOMAIN f, NEW line \in Remains(f[n])
  PROVE  LET g == Append(SubSeq(f, 1, n - 1), line)
         IN  /\ g \in Seq(Line) /\ Len(g) = n
             /\ \A i \in 1..(n - 1) : g[i] = f[i]
<1>1. n \in Nat /\ n >= 1 /\ n <= Len(f) /\ Len(f) \in Nat /\ f[n] \in Line
  BY LinesType
<1>2. line \in Line
  <2>1. f[n].text \in Entry \cup {Garbage}
    BY <1>1 DEF Line
  <2>2. \A t \in Entry \cup {Garbage} : [text |-> t, ended |-> FALSE] \in Line
    BY DEF Line
  <2> QED BY <1>1, <2>1, <2>2 DEF Remains
<1>3. /\ SubSeq(f, 1, n - 1) \in Seq(Line) /\ Len(SubSeq(f, 1, n - 1)) = n - 1
      /\ \A i \in 1..(n - 1) : SubSeq(f, 1, n - 1)[i] = f[i]
  BY <1>1
<1> QED BY <1>1, <1>2, <1>3
-----------------------------------------------------------------------------
(* The invariant is inductive.                                             *)

LEMMA CompleteInit == Init => CompleteInv
<1> SUFFICES ASSUME Init PROVE CompleteInv
  OBVIOUS
<1>1. /\ file = <<>> /\ disk = <<>> /\ acked = {} /\ pc = "down"
      /\ Len(<<>>) = 0 /\ DOMAIN <<>> = {}
  BY DEF Init
<1>2. TypeOK
  <2>1. <<>> \in Seq(Line) /\ <<>> \in Seq(Op)
    OBVIOUS
  <2>2. sequence \in Nat /\ appends \in Nat /\ faults \in Nat /\ crashes \in Nat
    BY DEF Init
  <2> QED BY <1>1, <2>1, <2>2 DEF Init, TypeOK
<1>3. EndedUpToLast(file) /\ EndedUpToLast(disk) /\ DiskBelowFile
  BY <1>1 DEF EndedUpToLast, DiskBelowFile
<1>4. AckedOnDisk /\ LastIsCurrent
  BY <1>1 DEF AckedOnDisk, LastIsCurrent
<1> QED BY <1>2, <1>3, <1>4 DEF CompleteInv

(* Starting, and taking the next number: the log is not touched.           *)
LEMMA OpenStep == CompleteInv /\ Open => CompleteInv'
<1> SUFFICES ASSUME CompleteInv, Open PROVE CompleteInv'
  OBVIOUS
<1>1. TypeOK'
  <2>1. Len(file) \in Nat
    BY LinesType DEF CompleteInv, TypeOK
  <2>2. Readable(file) => Replay(file) \in Seq(Op)
    BY ReplayType DEF CompleteInv, TypeOK
  <2> QED BY <2>1, <2>2 DEF CompleteInv, TypeOK, Open, logVars, boundVars
<1>2. file' = file /\ disk' = disk /\ acked' = acked /\ pc' \in {"idle", "down"}
  BY DEF Open, logVars
<1>3. (EndedUpToLast(file) /\ EndedUpToLast(disk) /\ DiskBelowFile /\ AckedOnDisk)'
  BY <1>2 DEF CompleteInv, EndedUpToLast, DiskBelowFile, AckedOnDisk
<1>4. LastIsCurrent'
  BY <1>2 DEF LastIsCurrent
<1> QED BY <1>1, <1>3, <1>4 DEF CompleteInv

LEMMA BeginStep ==
  ASSUME NEW op \in Op
  PROVE  CompleteInv /\ Begin(op) => CompleteInv'
<1> SUFFICES ASSUME CompleteInv, Begin(op) PROVE CompleteInv'
  OBVIOUS
<1>1. TypeOK'
  BY DEF CompleteInv, TypeOK, Begin, logVars
<1>2. file' = file /\ disk' = disk /\ acked' = acked
  BY DEF Begin, logVars
<1>3. (EndedUpToLast(file) /\ EndedUpToLast(disk) /\ DiskBelowFile /\ AckedOnDisk)'
  BY <1>2 DEF CompleteInv, EndedUpToLast, DiskBelowFile, AckedOnDisk
<1>4. LastIsCurrent'
  BY DEF LastIsCurrent, Begin
<1> QED BY <1>1, <1>3, <1>4 DEF CompleteInv

(* Text is written, whole or in part: every ended line stays what it was.  *)
LEMMA TextKeepsDisk ==
  ASSUME CompleteInv, NEW text \in Entry \cup {Garbage},
         file' = WithText(file, text), disk' = disk, acked' = acked
  PROVE  /\ file' \in Seq(Line) /\ file' # <<>> /\ ~Last(file').ended
         /\ Last(file').text \in {text, Garbage}
         /\ (EndedUpToLast(file) /\ EndedUpToLast(disk) /\ DiskBelowFile
               /\ AckedOnDisk)'
<1>1. file \in Seq(Line) /\ disk \in Seq(Line)
  BY DEF CompleteInv, TypeOK
<1>2. /\ file' \in Seq(Line) /\ file' # <<>> /\ ~Last(file').ended
      /\ Last(file').text \in {text, Garbage}
      /\ Len(file') = IF Unterminated(file) THEN Len(file) ELSE Len(file) + 1
      /\ \A i \in DOMAIN file :
           i < Len(file) \/ file[i].ended => file'[i] = file[i]
  BY <1>1, WithTextProperties
<1>3. /\ Len(file) \in Nat /\ DOMAIN file = 1..Len(file)
      /\ Len(file') \in Nat /\ DOMAIN file' = 1..Len(file')
      /\ Len(disk) \in Nat /\ DOMAIN disk = 1..Len(disk)
  BY <1>1, <1>2, LinesType
<1>4. \A i \in DOMAIN file : i < Len(file) => file[i].ended
  BY DEF CompleteInv, EndedUpToLast
<1>5. \A i \in DOMAIN file : i < Len(file') => file[i].ended
  <2> SUFFICES ASSUME NEW i \in DOMAIN file, i < Len(file'), i = Len(file)
               PROVE  file[i].ended
    BY <1>3, <1>4
  <2>1. ~Unterminated(file)
    BY <1>2, <1>3
  <2>2. file # <<>>
    BY <1>3
  <2> QED BY <2>1, <2>2 DEF Unterminated, Last
<1>6. EndedUpToLast(file)'
  BY <1>2, <1>3, <1>4, <1>5 DEF EndedUpToLast
<1>7. EndedUpToLast(disk)' /\ AckedOnDisk'
  BY DEF CompleteInv, EndedUpToLast, AckedOnDisk
<1>8. DiskBelowFile'
  BY <1>2, <1>3 DEF CompleteInv, DiskBelowFile
<1> QED BY <1>2, <1>6, <1>7, <1>8

LEMMA WriteTextStep == CompleteInv /\ WriteText => CompleteInv'
<1> SUFFICES ASSUME CompleteInv, WriteText PROVE CompleteInv'
  OBVIOUS
<1> DEFINE entry == [seq |-> sequence, op |-> current]
<1>1. pc = "text" /\ current \in Op /\ current' = current /\ pc' = "newline"
  BY DEF WriteText, CompleteInv, LastIsCurrent
<1>2. entry \in Entry /\ entry.op = current
  BY <1>1 DEF CompleteInv, TypeOK, Entry
<1>3. file' = WithText(file, entry) /\ disk' = disk /\ acked' = acked
  BY DEF WriteText
<1> HIDE DEF entry
<1>4. /\ file' \in Seq(Line) /\ file' # <<>> /\ ~Last(file').ended
      /\ Last(file').text \in {entry, Garbage}
      /\ (EndedUpToLast(file) /\ EndedUpToLast(disk) /\ DiskBelowFile
            /\ AckedOnDisk)'
  BY <1>2, <1>3, TextKeepsDisk
<1>5. TypeOK'
  BY <1>4 DEF CompleteInv, TypeOK, WriteText, boundVars
<1>6. LastIsCurrent'
  BY <1>1, <1>2, <1>4 DEF LastIsCurrent, Holds
<1> QED BY <1>4, <1>5, <1>6 DEF CompleteInv

LEMMA WriteNewlineStep == CompleteInv /\ WriteNewline => CompleteInv'
<1> SUFFICES ASSUME CompleteInv, WriteNewline PROVE CompleteInv'
  OBVIOUS
<1>1. /\ pc = "newline" /\ pc' = "sync" /\ current' = current
      /\ file' = WithNewline(file) /\ disk' = disk /\ acked' = acked
  BY DEF WriteNewline
<1>2. /\ file \in Seq(Line) /\ disk \in Seq(Line)
      /\ file # <<>> /\ Holds(Last(file), current) /\ current \in Op
  BY <1>1 DEF CompleteInv, TypeOK, LastIsCurrent
<1>3. /\ file' \in Seq(Line) /\ Len(file') = Len(file) /\ file' # <<>>
      /\ Last(file') = [text |-> Last(file).text, ended |-> TRUE]
      /\ \A i \in DOMAIN file :
           i < Len(file) \/ file[i].ended => file'[i] = file[i]
  BY <1>1, <1>2, WithNewlineProperties
<1>4. /\ Len(file) \in Nat /\ DOMAIN file = 1..Len(file)
      /\ DOMAIN file' = 1..Len(file)
      /\ Len(disk) \in Nat /\ DOMAIN disk = 1..Len(disk)
  BY <1>2, <1>3, LinesType
<1>5. EndedUpToLast(file)'
  BY <1>3, <1>4 DEF CompleteInv, EndedUpToLast
<1>6. DiskBelowFile'
  BY <1>1, <1>3, <1>4 DEF CompleteInv, DiskBelowFile
<1>7. EndedUpToLast(disk)' /\ AckedOnDisk'
  BY <1>1 DEF CompleteInv, EndedUpToLast, AckedOnDisk
<1>8. LastIsCurrent'
  <2>1. Last(file').text = Last(file).text /\ Last(file').ended
    BY <1>3
  <2> QED BY <1>1, <1>2, <1>3, <2>1 DEF LastIsCurrent, Holds
<1>9. TypeOK'
  BY <1>1, <1>3 DEF CompleteInv, TypeOK, WriteNewline, boundVars
<1> QED BY <1>5, <1>6, <1>7, <1>8, <1>9 DEF CompleteInv

(* The sync makes the disk the file; what it acknowledges is the last line,*)
(* which is ended and is the append's own.                                 *)
LEMMA SyncStep == CompleteInv /\ Sync => CompleteInv'
<1> SUFFICES ASSUME CompleteInv, Sync PROVE CompleteInv'
  OBVIOUS
<1> DEFINE ack == [line |-> Len(file), op |-> current]
<1>1. /\ pc = "sync" /\ pc' = "apply" /\ current' = current
      /\ file' = file /\ disk' = file /\ acked' = acked \cup {ack}
  BY DEF Sync
<1>2. /\ file \in Seq(Line) /\ disk \in Seq(Line) /\ current \in Op
      /\ file # <<>> /\ Holds(Last(file), current) /\ Last(file).ended
  BY <1>1 DEF CompleteInv, TypeOK, LastIsCurrent
<1>3. /\ Len(file) \in Nat /\ DOMAIN file = 1..Len(file)
      /\ Len(disk) \in Nat /\ DOMAIN disk = 1..Len(disk)
      /\ Len(file) \in DOMAIN file
  BY <1>2, LinesType
<1>4. EndedUpToLast(file)' /\ EndedUpToLast(disk)' /\ DiskBelowFile'
  BY <1>1, <1>3 DEF CompleteInv, EndedUpToLast, DiskBelowFile
<1>5. AckedOnDisk'
  <2> SUFFICES ASSUME NEW a \in acked'
               PROVE  a.line \in DOMAIN file /\ file[a.line].ended
                        /\ Holds(file[a.line], a.op)
    BY <1>1 DEF AckedOnDisk
  <2>1. CASE a = ack
    BY <1>2, <1>3, <2>1 DEF Last
  <2>2. CASE a \in acked
    <3>1. a.line \in DOMAIN disk /\ disk[a.line].ended /\ Holds(disk[a.line], a.op)
      BY <2>2 DEF CompleteInv, AckedOnDisk
    <3>2. Len(disk) <= Len(file) /\ file[a.line] = disk[a.line]
      BY <3>1 DEF CompleteInv, DiskBelowFile
    <3> QED BY <1>3, <3>1, <3>2
  <2> QED BY <1>1, <2>1, <2>2
<1>6. LastIsCurrent'
  BY <1>1, <1>2 DEF LastIsCurrent
<1>7. TypeOK'
  <2>1. ack \in [line : Nat, op : Op]
    BY <1>2, <1>3
  <2> QED BY <1>1, <2>1 DEF CompleteInv, TypeOK, Sync, boundVars
<1> QED BY <1>4, <1>5, <1>6, <1>7 DEF CompleteInv

LEMMA ApplyStep == CompleteInv /\ ApplyOp => CompleteInv'
<1> SUFFICES ASSUME CompleteInv, ApplyOp PROVE CompleteInv'
  OBVIOUS
<1>1. /\ pc = "apply" /\ pc' = "idle" /\ current' = None
      /\ file' = file /\ disk' = disk /\ acked' = acked
  BY DEF ApplyOp, logVars
<1>2. memory' \in Seq(Op)
  <2>1. current \in Op
    BY <1>1 DEF CompleteInv, LastIsCurrent
  <2> QED BY <2>1 DEF CompleteInv, TypeOK, ApplyOp
<1>3. TypeOK'
  BY <1>1, <1>2 DEF CompleteInv, TypeOK, ApplyOp, boundVars
<1>4. (EndedUpToLast(file) /\ EndedUpToLast(disk) /\ DiskBelowFile /\ AckedOnDisk)'
  BY <1>1 DEF CompleteInv, EndedUpToLast, DiskBelowFile, AckedOnDisk
<1>5. LastIsCurrent'
  BY <1>1 DEF LastIsCurrent
<1> QED BY <1>3, <1>4, <1>5 DEF CompleteInv

LEMMA AppendFailsStep == CompleteInv /\ AppendFails => CompleteInv'
<1> SUFFICES ASSUME CompleteInv, AppendFails PROVE CompleteInv'
  OBVIOUS
<1>1. pc' = "idle" /\ current' = None /\ disk' = disk /\ acked' = acked
  BY DEF AppendFails
<1>2. /\ file' \in Seq(Line)
      /\ (EndedUpToLast(file) /\ EndedUpToLast(disk) /\ DiskBelowFile
            /\ AckedOnDisk)'
  <2>1. CASE UNCHANGED file
    BY <1>1, <2>1 DEF CompleteInv, TypeOK, EndedUpToLast, DiskBelowFile, AckedOnDisk
  <2>2. CASE file' = WithText(file, Garbage)
    BY <1>1, <2>2, TextKeepsDisk
  <2> QED BY <2>1, <2>2 DEF AppendFails
<1>3. TypeOK'
  BY <1>1, <1>2 DEF CompleteInv, TypeOK, AppendFails
<1>4. LastIsCurrent'
  BY <1>1 DEF LastIsCurrent
<1> QED BY <1>2, <1>3, <1>4 DEF CompleteInv

LEMMA KillStep == CompleteInv /\ Kill => CompleteInv'
<1> SUFFICES ASSUME CompleteInv, Kill PROVE CompleteInv'
  OBVIOUS
<1>1. /\ pc' = "down" /\ current' = None
      /\ file' = file /\ disk' = disk /\ acked' = acked
  BY DEF Kill, Die
<1>2. TypeOK'
  BY <1>1 DEF CompleteInv, TypeOK, Kill, Die
<1>3. (EndedUpToLast(file) /\ EndedUpToLast(disk) /\ DiskBelowFile /\ AckedOnDisk)'
  BY <1>1 DEF CompleteInv, EndedUpToLast, DiskBelowFile, AckedOnDisk
<1>4. LastIsCurrent'
  BY <1>1 DEF LastIsCurrent
<1> QED BY <1>2, <1>3, <1>4 DEF CompleteInv

(* A power loss cuts the file no earlier than the end of what is on disk   *)
(* with its newline, and there every acknowledged line lies.               *)
LEMMA PowerLossStep == CompleteInv /\ PowerLoss => CompleteInv'
<1> SUFFICES ASSUME CompleteInv, PowerLoss PROVE CompleteInv'
  OBVIOUS
<1>1. pc' = "down" /\ current' = None /\ acked' = acked /\ file' = disk'
  BY DEF PowerLoss, Die
<1>2. file' \in Cuts
  BY DEF PowerLoss
<1>3. /\ file \in Seq(Line) /\ disk \in Seq(Line)
      /\ Len(file) \in Nat /\ DOMAIN file = 1..Len(file)
      /\ Len(disk) \in Nat /\ DOMAIN disk = 1..Len(disk)
  BY LinesType DEF CompleteInv, TypeOK
<1>4. /\ file' \in Seq(Line) /\ EndedUpToLast(file')
      /\ \A i \in DOMAIN disk : disk[i].ended =>
           i \in DOMAIN file' /\ file'[i] = disk[i]
  <2>1. CASE file' = disk
    BY <1>3, <2>1 DEF CompleteInv, EndedUpToLast
  <2>2. ASSUME NEW n \in DOMAIN file, n > Len(disk) \/ ~disk[n].ended,
               NEW line \in Remains(file[n]),
               file' = Append(SubSeq(file, 1, n - 1), line)
        PROVE  /\ file' \in Seq(Line) /\ EndedUpToLast(file')
               /\ \A i \in DOMAIN disk : disk[i].ended =>
                    i \in DOMAIN file' /\ file'[i] = disk[i]
    <3>1. /\ file' \in Seq(Line) /\ Len(file') = n /\ n \in Nat
          /\ \A i \in 1..(n - 1) : file'[i] = file[i]
      BY <1>3, <2>2, CutProperties
    <3>2. DOMAIN file' = 1..n
      BY <3>1, LinesType
    <3>3. \A i \in DOMAIN file' : i < n => file'[i].ended
      BY <1>3, <2>2, <3>1, <3>2 DEF CompleteInv, EndedUpToLast
    <3>4. \A i \in DOMAIN disk : disk[i].ended => i < n
      BY <1>3, <2>2 DEF CompleteInv, EndedUpToLast
    <3>5. \A i \in DOMAIN disk : disk[i].ended => file[i] = disk[i]
      BY DEF CompleteInv, DiskBelowFile
    <3>6. EndedUpToLast(file')
      BY <3>1, <3>3 DEF EndedUpToLast
    <3> QED BY <1>3, <3>1, <3>2, <3>4, <3>5, <3>6
  <2> QED BY <1>2, <2>1, <2>2 DEF Cuts
<1>5. TypeOK'
  BY <1>1, <1>4 DEF CompleteInv, TypeOK, PowerLoss, Die
<1>6. EndedUpToLast(file)' /\ EndedUpToLast(disk)' /\ DiskBelowFile'
  <2>1. Len(file') \in Nat
    BY <1>4, LinesType
  <2> QED BY <1>1, <1>4, <2>1 DEF EndedUpToLast, DiskBelowFile
<1>7. AckedOnDisk'
  BY <1>1, <1>4 DEF CompleteInv, AckedOnDisk
<1>8. LastIsCurrent'
  BY <1>1 DEF LastIsCurrent
<1> QED BY <1>5, <1>6, <1>7, <1>8 DEF CompleteInv

LEMMA CompleteStep == CompleteInv /\ [Next]_vars => CompleteInv'
<1> SUFFICES ASSUME CompleteInv, [Next]_vars PROVE CompleteInv'
  OBVIOUS
<1>1. CASE Open
  BY <1>1, OpenStep
<1>2. CASE \E op \in Op : Begin(op)
  BY <1>2, BeginStep
<1>3. CASE WriteText
  BY <1>3, WriteTextStep
<1>4. CASE WriteNewline
  BY <1>4, WriteNewlineStep
<1>5. CASE Sync
  BY <1>5, SyncStep
<1>6. CASE ApplyOp
  BY <1>6, ApplyStep
<1>7. CASE AppendFails
  BY <1>7, AppendFailsStep
<1>8. CASE Kill
  BY <1>8, KillStep
<1>9. CASE PowerLoss
  BY <1>9, PowerLossStep
<1>10. CASE UNCHANGED vars
  BY <1>10 DEF vars, logVars, boundVars, CompleteInv, TypeOK, EndedUpToLast,
    DiskBelowFile, AckedOnDisk, LastIsCurrent
<1> QED BY <1>1, <1>2, <1>3, <1>4, <1>5, <1>6, <1>7, <1>8, <1>9, <1>10 DEF Next

LEMMA CompleteInvariant == Spec => []CompleteInv
BY CompleteInit, CompleteStep, PTL DEF Spec

(* Every variable of the log has its type in every reachable state; in     *)
(* particular what a daemon replays are operations, never garbage.         *)
THEOREM WalTypeOK == Spec => []TypeOK
<1>1. CompleteInv => TypeOK
  BY DEF CompleteInv
<1> QED BY <1>1, CompleteInvariant, PTL

(* A log that Wal::replay can read at all holds every operation whose      *)
(* append returned Ok, on the line it was written to, after any number of  *)
(* kills, power losses and failed appends.                                 *)
THEOREM WalReadableComplete == Spec => []ReadableLogIsComplete
<1>1. ASSUME CompleteInv, Readable(file), NEW a \in acked
      PROVE  a.line \in DOMAIN file /\ file[a.line].text.op = a.op
  <2>1. a.line \in DOMAIN disk /\ disk[a.line].ended /\ Holds(disk[a.line], a.op)
    BY <1>1 DEF CompleteInv, AckedOnDisk
  <2>2. Len(disk) <= Len(file) /\ file[a.line] = disk[a.line]
    BY <1>1, <2>1 DEF CompleteInv, DiskBelowFile
  <2>3. /\ Len(file) \in Nat /\ DOMAIN file = 1..Len(file)
        /\ Len(disk) \in Nat /\ DOMAIN disk = 1..Len(disk)
    BY <1>1, LinesType DEF CompleteInv, TypeOK
  <2>4. a.line \in DOMAIN file
    BY <2>1, <2>2, <2>3
  <2> QED BY <1>1, <2>1, <2>2, <2>4 DEF Readable, Holds
<1>2. CompleteInv => ReadableLogIsComplete
  BY <1>1 DEF ReadableLogIsComplete
<1> QED BY <1>2, CompleteInvariant, PTL

-----------------------------------------------------------------------------
(* Numbers and memory, as long as no append failed.                        *)

(* Up to the first line that does not parse, line i holds entry i.  It says *)
(* more than SequenceCountsLines does: a power loss may take away a line   *)
(* that does not parse, and the ones before it are then all there is.      *)
NumberedUpTo(f, i) == (\A j \in 1..i : f[j].text # Garbage) => f[i].text.seq = i

Numbered(f) == \A i \in DOMAIN f : NumberedUpTo(f, i)

(* What the process knows of a readable file: how many lines it has, the   *)
(* one it is about to write apart, and the operations on them.             *)
KnowsFile ==
  Readable(file) =>
    /\ pc \in {"idle", "newline", "sync", "apply"} => sequence = Len(file)
    /\ pc = "text" => sequence = Len(file) + 1
    /\ pc \in {"idle", "text"} => memory = Replay(file)
    /\ pc \in {"newline", "sync", "apply"} => Replay(file) = Append(memory, current)

NumberInv == faults = 0 => Numbered(file) /\ Numbered(disk) /\ KnowsFile

(* A file that was numbered and gets one more line, or has its last line   *)
(* spoilt, is numbered if the line it gets is.                             *)
LEMMA NumberedText ==
  ASSUME NEW f \in Seq(Line), NEW text \in Entry \cup {Garbage}, Numbered(f),
         Readable(f) => text = Garbage \/ text.seq = Len(f) + 1
  PROVE  Numbered(WithText(f, text))
<1> DEFINE g == WithText(f, text)
<1>1. /\ g \in Seq(Line) /\ g # <<>> /\ Last(g).text \in {text, Garbage}
      /\ Len(g) = IF Unterminated(f) THEN Len(f) ELSE Len(f) + 1
      /\ \A i \in DOMAIN f : i < Len(f) \/ f[i].ended => g[i] = f[i]
      /\ Unterminated(f) => Last(g).text = Garbage
      /\ ~Unterminated(f) => Last(g).text = text
  BY WithTextProperties
<1>2. /\ Len(f) \in Nat /\ DOMAIN f = 1..Len(f)
      /\ Len(g) \in Nat /\ DOMAIN g = 1..Len(g)
  BY <1>1, LinesType
<1> HIDE DEF g
<1>3. \A i \in DOMAIN g : i < Len(g) => i \in DOMAIN f /\ g[i] = f[i]
  <2>1. CASE Unterminated(f)
    BY <1>1, <1>2, <2>1
  <2>2. CASE ~Unterminated(f)
    <3>1. f # <<>> => f[Len(f)].ended
      BY <2>2 DEF Unterminated, Last
    <3> QED BY <1>1, <1>2, <2>2, <3>1
  <2> QED BY <2>1, <2>2
<1> SUFFICES ASSUME NEW i \in DOMAIN g PROVE NumberedUpTo(g, i)
  BY DEF Numbered, g
<1>4. CASE i < Len(g)
  <2>1. i \in DOMAIN f /\ \A j \in 1..i : g[j] = f[j]
    BY <1>2, <1>3, <1>4
  <2>2. NumberedUpTo(f, i)
    BY <2>1 DEF Numbered
  <2>3. i \in 1..i
    BY <1>2
  <2> QED BY <2>1, <2>2, <2>3 DEF NumberedUpTo
<1>5. CASE i = Len(g)
  <2> SUFFICES ASSUME \A j \in 1..i : g[j].text # Garbage PROVE g[i].text.seq = i
    BY DEF NumberedUpTo
  <2>1. g[i].text # Garbage /\ g[i] = Last(g)
    BY <1>2, <1>5 DEF Last
  <2>2. ~Unterminated(f) /\ text # Garbage /\ g[i].text = text /\ i = Len(f) + 1
    BY <1>1, <1>5, <2>1
  <2>3. Readable(f)
    BY <1>2, <1>3, <1>5, <2>2 DEF Readable
  <2> QED BY <2>2, <2>3
<1> QED BY <1>2, <1>4, <1>5

(* What a reader makes of a file depends on the texts of its lines alone.  *)
LEMMA SameTexts ==
  ASSUME NEW f \in Seq(Line), NEW g \in Seq(Line), Len(f) = Len(g),
         \A i \in DOMAIN f : g[i].text = f[i].text
  PROVE  /\ Numbered(f) => Numbered(g)
         /\ Readable(f) <=> Readable(g)
         /\ Replay(f) = Replay(g)
<1>1. Len(f) \in Nat /\ DOMAIN f = 1..Len(f) /\ DOMAIN g = DOMAIN f
  BY LinesType
<1>2. ASSUME Numbered(f), NEW i \in DOMAIN g PROVE NumberedUpTo(g, i)
  <2>1. NumberedUpTo(f, i) /\ \A j \in 1..i : g[j].text = f[j].text
    BY <1>1, <1>2 DEF Numbered
  <2>2. i \in 1..i
    BY <1>1
  <2> QED BY <2>1, <2>2 DEF NumberedUpTo
<1> QED BY <1>1, <1>2 DEF Numbered, Readable, Replay

(* What a replay gives once a readable file has got another entry.         *)
LEMMA ReplayOfAppended ==
  ASSUME NEW f \in Seq(Line), NEW entry \in Entry, Readable(WithText(f, entry))
  PROVE  /\ Readable(f) /\ Len(WithText(f, entry)) = Len(f) + 1
         /\ Replay(WithText(f, entry)) = Append(Replay(f), entry.op)
<1> DEFINE g == WithText(f, entry)
<1>1. /\ g \in Seq(Line) /\ g # <<>>
      /\ Len(g) = IF Unterminated(f) THEN Len(f) ELSE Len(f) + 1
      /\ \A i \in DOMAIN f : i < Len(f) \/ f[i].ended => g[i] = f[i]
      /\ Unterminated(f) => Last(g).text = Garbage
      /\ ~Unterminated(f) => Last(g).text = entry
  BY WithTextProperties
<1>2. /\ Len(f) \in Nat /\ DOMAIN f = 1..Len(f)
      /\ Len(g) \in Nat /\ DOMAIN g = 1..Len(g) /\ Len(g) \in DOMAIN g
  BY <1>1, LinesType
<1>3. Readable(g)
  OBVIOUS
<1> HIDE DEF g
<1>4. ~Unterminated(f)
  BY <1>1, <1>2, <1>3 DEF Readable, Last
<1>5. f # <<>> => f[Len(f)].ended
  BY <1>4 DEF Unterminated, Last
<1>6. Len(g) = Len(f) + 1 /\ \A i \in DOMAIN f : g[i] = f[i]
  BY <1>1, <1>2, <1>4, <1>5
<1>7. g[Len(f) + 1].text = entry
  BY <1>1, <1>4, <1>6 DEF Last
<1>8. Readable(f)
  BY <1>2, <1>3, <1>6 DEF Readable
<1>9. Replay(g) = Append(Replay(f), entry.op)
  <2>1. Replay(f) \in Seq(Op) /\ Replay(g) \in Seq(Op) /\ entry.op \in Op
    BY <1>1, <1>3, <1>8, ReplayType DEF Entry
  <2>2. Len(Replay(f)) = Len(f) /\ Len(Replay(g)) = Len(f) + 1
    BY <1>2, <1>6, <2>1, LenProperties DEF Replay
  <2>3. /\ Append(Replay(f), entry.op) \in Seq(Op)
        /\ Len(Append(Replay(f), entry.op)) = Len(f) + 1
        /\ Append(Replay(f), entry.op)[Len(f) + 1] = entry.op
        /\ \A i \in 1..Len(f) : Append(Replay(f), entry.op)[i] = Replay(f)[i]
    BY <2>1, <2>2
  <2>4. \A i \in 1..Len(f) : Replay(g)[i] = Replay(f)[i]
    BY <1>2, <1>6 DEF Replay
  <2>5. Replay(g)[Len(f) + 1] = entry.op
    BY <1>2, <1>6, <1>7 DEF Replay
  <2>6. \A i \in 1..(Len(f) + 1) : Replay(g)[i] = Append(Replay(f), entry.op)[i]
    BY <1>2, <2>3, <2>4, <2>5
  <2> QED BY <2>1, <2>2, <2>3, <2>6, SeqEqual
<1> QED BY <1>6, <1>8, <1>9 DEF g

LEMMA NumberInit == Init => NumberInv
<1> SUFFICES ASSUME Init PROVE NumberInv
  OBVIOUS
<1>1. file = <<>> /\ disk = <<>> /\ pc = "down"
  BY DEF Init
<1> QED BY <1>1 DEF NumberInv, Numbered, KnowsFile

(* A step on a run without faults that leaves the files alone keeps them   *)
(* numbered.                                                               *)
LEMMA FilesUnchanged ==
  ASSUME NumberInv, faults = 0, file' = file, disk' = disk
  PROVE  Numbered(file') /\ Numbered(disk')
BY DEF NumberInv

LEMMA OpenNumbers == CompleteInv /\ NumberInv /\ Open => NumberInv'
<1> SUFFICES ASSUME CompleteInv, NumberInv, Open, faults' = 0 PROVE NumberInv'
  BY DEF NumberInv
<1>1. /\ faults = 0 /\ file' = file /\ disk' = disk
      /\ pc' = "idle" /\ sequence' = Len(file) /\ memory' = Replay(file)
  BY DEF Open, logVars, boundVars
<1>2. KnowsFile'
  BY <1>1 DEF KnowsFile
<1> QED BY <1>1, <1>2, FilesUnchanged DEF NumberInv

LEMMA BeginNumbers ==
  ASSUME NEW op \in Op
  PROVE  CompleteInv /\ NumberInv /\ Begin(op) => NumberInv'
<1> SUFFICES ASSUME CompleteInv, NumberInv, Begin(op), faults' = 0 PROVE NumberInv'
  BY DEF NumberInv
<1>1. /\ faults = 0 /\ file' = file /\ disk' = disk /\ memory' = memory
      /\ pc = "idle" /\ pc' = "text" /\ sequence' = sequence + 1
  BY DEF Begin, logVars
<1>2. KnowsFile'
  BY <1>1 DEF KnowsFile, NumberInv
<1> QED BY <1>1, <1>2, FilesUnchanged DEF NumberInv

(* The entry is numbered by its place, if the file it goes to is readable. *)
LEMMA WriteTextNumbers == CompleteInv /\ NumberInv /\ WriteText => NumberInv'
<1> SUFFICES ASSUME CompleteInv, NumberInv, WriteText, faults' = 0 PROVE NumberInv'
  BY DEF NumberInv
<1> DEFINE entry == [seq |-> sequence, op |-> current]
<1>1. /\ faults = 0 /\ disk' = disk /\ memory' = memory /\ current' = current
      /\ pc = "text" /\ pc' = "newline" /\ sequence' = sequence
      /\ file' = WithText(file, entry)
  BY DEF WriteText, boundVars
<1>2. file \in Seq(Line) /\ current \in Op /\ sequence \in Nat
  BY <1>1 DEF CompleteInv, TypeOK, LastIsCurrent
<1>3. entry \in Entry /\ entry.op = current /\ entry.seq = sequence
  BY <1>2 DEF Entry
<1> HIDE DEF entry
<1>4. Numbered(file) /\ Numbered(disk) /\ KnowsFile
  BY <1>1 DEF NumberInv
<1>5. Numbered(file')
  BY <1>1, <1>2, <1>3, <1>4, NumberedText DEF KnowsFile
<1>6. ASSUME Readable(file')
      PROVE  /\ Readable(file) /\ Len(file') = Len(file) + 1
             /\ Replay(file') = Append(Replay(file), current)
  BY <1>1, <1>2, <1>3, <1>6, ReplayOfAppended
<1>7. KnowsFile'
  BY <1>1, <1>4, <1>6 DEF KnowsFile
<1> QED BY <1>1, <1>4, <1>5, <1>7 DEF NumberInv

LEMMA WriteNewlineNumbers == CompleteInv /\ NumberInv /\ WriteNewline => NumberInv'
<1> SUFFICES ASSUME CompleteInv, NumberInv, WriteNewline, faults' = 0 PROVE NumberInv'
  BY DEF NumberInv
<1>1. /\ faults = 0 /\ disk' = disk /\ memory' = memory /\ current' = current
      /\ pc = "newline" /\ pc' = "sync" /\ sequence' = sequence
      /\ file' = WithNewline(file)
  BY DEF WriteNewline, boundVars
<1>2. file \in Seq(Line) /\ file # <<>>
  BY <1>1 DEF CompleteInv, TypeOK, LastIsCurrent
<1>3. /\ file' \in Seq(Line) /\ Len(file') = Len(file)
      /\ \A i \in DOMAIN file : file'[i].text = file[i].text
  BY <1>1, <1>2, WithNewlineProperties
<1>4. Numbered(file) /\ Numbered(disk) /\ KnowsFile
  BY <1>1 DEF NumberInv
<1>5. /\ Numbered(file') /\ Replay(file') = Replay(file)
      /\ Readable(file') <=> Readable(file)
  BY <1>2, <1>3, <1>4, SameTexts
<1>6. KnowsFile'
  BY <1>1, <1>3, <1>4, <1>5 DEF KnowsFile
<1> QED BY <1>1, <1>4, <1>5, <1>6 DEF NumberInv

LEMMA SyncNumbers == CompleteInv /\ NumberInv /\ Sync => NumberInv'
<1> SUFFICES ASSUME CompleteInv, NumberInv, Sync, faults' = 0 PROVE NumberInv'
  BY DEF NumberInv
<1>1. /\ faults = 0 /\ file' = file /\ disk' = file
      /\ pc = "sync" /\ pc' = "apply"
      /\ UNCHANGED <<sequence, current, memory>>
  BY DEF Sync, boundVars
<1> QED BY <1>1 DEF NumberInv, KnowsFile

LEMMA ApplyNumbers == CompleteInv /\ NumberInv /\ ApplyOp => NumberInv'
<1> SUFFICES ASSUME CompleteInv, NumberInv, ApplyOp, faults' = 0 PROVE NumberInv'
  BY DEF NumberInv
<1>1. /\ faults = 0 /\ file' = file /\ disk' = disk
      /\ pc = "apply" /\ pc' = "idle" /\ sequence' = sequence
      /\ memory' = Append(memory, current)
  BY DEF ApplyOp, logVars, boundVars
<1>2. KnowsFile'
  BY <1>1 DEF KnowsFile, NumberInv
<1> QED BY <1>1, <1>2, FilesUnchanged DEF NumberInv

(* What is left after a power loss is a part of a file that was numbered,  *)
(* with its last line as it was or spoilt.                                 *)
LEMMA DeathNumbers == CompleteInv /\ NumberInv /\ (Kill \/ PowerLoss) => NumberInv'
<1> SUFFICES ASSUME CompleteInv, NumberInv, Kill \/ PowerLoss, faults' = 0
             PROVE  NumberInv'
  BY DEF NumberInv
<1>1. pc' = "down" /\ faults = 0
  BY DEF Kill, PowerLoss, Die
<1>2. KnowsFile'
  BY <1>1 DEF KnowsFile
<1>3. Numbered(file) /\ Numbered(disk)
  BY <1>1 DEF NumberInv
<1>4. CASE Kill
  BY <1>1, <1>2, <1>3, <1>4 DEF Kill, NumberInv
<1>5. CASE PowerLoss
  <2>1. file' \in Cuts /\ disk' = file'
    BY <1>5 DEF PowerLoss
  <2>2. file \in Seq(Line)
    BY DEF CompleteInv, TypeOK
  <2>3. ASSUME NEW n \in DOMAIN file, NEW line \in Remains(file[n]),
               file' = Append(SubSeq(file, 1, n - 1), line)
        PROVE  Numbered(file')
    <3>1. /\ file' \in Seq(Line) /\ Len(file') = n
          /\ \A i \in 1..(n - 1) : file'[i] = file[i]
      BY <2>2, <2>3, CutProperties
    <3>2. DOMAIN file' = 1..n /\ n \in Nat /\ DOMAIN file = 1..Len(file)
          /\ n <= Len(file) /\ Len(file) \in Nat
      BY <2>2, <3>1, LinesType
    <3>3. file'[n] = line
      BY <2>2, <2>3, <3>2
    <3>4. line.text \in {file[n].text, Garbage}
      BY <2>3 DEF Remains
    <3> SUFFICES ASSUME NEW i \in DOMAIN file', \A j \in 1..i : file'[j].text # Garbage
                 PROVE  file'[i].text.seq = i
      BY DEF Numbered, NumberedUpTo
    <3>5. i \in DOMAIN file /\ i \in 1..i
      BY <3>2
    <3>6. \A j \in 1..i : file'[j].text = file[j].text
      BY <3>1, <3>2, <3>3, <3>4
    <3> QED BY <1>3, <3>5, <3>6 DEF Numbered, NumberedUpTo
  <2>4. Numbered(file')
    BY <1>3, <2>1, <2>3 DEF Cuts
  <2> QED BY <1>2, <2>1, <2>4 DEF NumberInv
<1> QED BY <1>4, <1>5

LEMMA NumberStep == CompleteInv /\ NumberInv /\ [Next]_vars => NumberInv'
<1> SUFFICES ASSUME CompleteInv, NumberInv, [Next]_vars PROVE NumberInv'
  OBVIOUS
<1>1. CASE Open \/ WriteText \/ WriteNewline
  BY <1>1, OpenNumbers, WriteTextNumbers, WriteNewlineNumbers
<1>2. CASE \E op \in Op : Begin(op)
  BY <1>2, BeginNumbers
<1>3. CASE Sync \/ ApplyOp
  BY <1>3, SyncNumbers, ApplyNumbers
<1>4. CASE AppendFails
  <2>1. faults' = faults + 1 /\ faults \in Nat
    BY <1>4 DEF AppendFails, CompleteInv, TypeOK
  <2> QED BY <2>1 DEF NumberInv
<1>5. CASE Kill \/ PowerLoss
  BY <1>5, DeathNumbers
<1>6. CASE UNCHANGED vars
  BY <1>6 DEF vars, logVars, boundVars, NumberInv, KnowsFile
<1> QED BY <1>1, <1>2, <1>3, <1>4, <1>5, <1>6 DEF Next

LEMMA NumberInvariant == Spec => []NumberInv
BY NumberInit, NumberStep, CompleteInvariant, PTL DEF Spec

(* As long as no append failed, the number that Wal::append gives an entry *)
(* is the number of the line it is on, through any number of restarts,     *)
(* kills and power losses, those that leave a last line without a newline  *)
(* included.                                                               *)
THEOREM WalSequenceCounts == Spec => []SequenceCountsLines
<1>1. ASSUME NumberInv, faults = 0, Readable(file), NEW i \in DOMAIN file, TypeOK
      PROVE  file[i].text.seq = i
  <2>1. NumberedUpTo(file, i)
    BY <1>1 DEF NumberInv, Numbered
  <2>2. \A j \in 1..i : j \in DOMAIN file
    BY <1>1, LinesType DEF TypeOK
  <2> QED BY <1>1, <2>1, <2>2 DEF NumberedUpTo, Readable
<1>2. TypeOK /\ NumberInv => SequenceCountsLines
  BY <1>1 DEF SequenceCountsLines
<1> QED BY <1>2, NumberInvariant, WalTypeOK, PTL

(* As long as no append failed, a daemon at rest holds in memory just what *)
(* its successor will replay.                                              *)
THEOREM WalMemoryIsLog == Spec => []MemoryIsLog
<1>1. NumberInv => MemoryIsLog
  BY DEF NumberInv, KnowsFile, MemoryIsLog
<1> QED BY <1>1, NumberInvariant, PTL
=============================================================================
