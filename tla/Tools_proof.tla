---------------------------- MODULE Tools_proof ----------------------------
(* Theorems of LifecycleJournal, for any number of writers, requests and    *)
(* lines: a returned record is kept, a key is recorded once, and damage has *)
(* a cause.  Of the incident reports of MCTools, for any reporters,         *)
(* failures, issues and bounds: a failure is reported once.  Of the tools   *)
(* of a candidate, for any setting: what a request rests on.  Of the panel  *)
(* of workers, for any panel: what it shows is what is known.  And of the   *)
(* footer, for any sessions, runs and bounds: the heartbeat of the only     *)
(* command of a process shows the run of that command.                      *)
EXTENDS MCTools, SequenceTheorems, FiniteSetTheorems, WellFoundedInduction, TLAPS

USE JournalAssumption DEF JournalAssumption

(* The first n lines can be read: what a failure of power may leave of a    *)
(* file is as good as its damaged whole is not.                             *)
ReadableTo(lines, n) ==
  \A i \in 1 .. n : lines[i].shape # "broken" /\ lines[i].seq = i

OnceIn(lines) ==
  \A j \in 1 .. Len(lines) : ReadableTo(lines, j) =>
    \A i \in 1 .. j - 1 : ~(lines[i].req \in Keyed /\ lines[i].req = lines[j].req)

KeptIn(lines, a) ==
  Readable(lines) => a.seq \in 1 .. Len(lines) /\ lines[a.seq].req = a.req

About(w) == run[w].step \in {"open", "write"}

(* The file continues the disk; at most a glued line is broken since.       *)
DiskBehind ==
  /\ Len(disk) <= Len(file)
  /\ \A i \in 1 .. Len(disk) :
       /\ file[i].req = disk[i].req
       /\ file[i].seq = disk[i].seq
       /\ file[i].shape = disk[i].shape \/ file[i].shape = "broken"

(* What is returned is on disk, what is written and not yet returned is in  *)
(* the file.                                                                *)
Kept ==
  /\ \A a \in returned : KeptIn(disk, a)
  /\ \A w \in Writer : run[w].step = "sync" => KeptIn(file, run[w])

(* The lines a writer has read are there, none with its key.                *)
LookedUp ==
  \A w \in Writer : About(w) =>
    /\ run[w].seq <= Len(file) + 1
    /\ \A i \in 1 .. run[w].seq - 1 :
         ~(run[w].req \in Keyed /\ file[i].req = run[w].req)

(* Without overlap and torn lines a writer has the number its line gets.    *)
Undamaged ==
  /\ ~overlapped => \A w \in Writer : About(w) => run[w].seq = Len(file) + 1
  /\ ~overlapped /\ ~torn =>
       \A i \in 1 .. Len(file) : file[i].shape = "whole" /\ file[i].seq = i

Inv ==
  /\ TypeOK
  /\ DiskBehind
  /\ Kept
  /\ OnceIn(file) /\ OnceIn(disk)
  /\ LookedUp
  /\ Undamaged

-----------------------------------------------------------------------------
(* What a write does to the lines.                                          *)
LEMMA WrittenLines ==
  ASSUME NEW lines \in Seq(Line), NEW line \in Line
  PROVE  LET new == Written(lines, line)
             glued == lines # <<>> /\ lines[Len(lines)].shape = "unended"
         IN  /\ new \in Seq(Line)
             /\ glued => /\ Len(new) = Len(lines) /\ Len(lines) > 0
                         /\ \A i \in 1 .. Len(lines) - 1 : new[i] = lines[i]
                         /\ new[Len(lines)].req = lines[Len(lines)].req
                         /\ new[Len(lines)].seq = lines[Len(lines)].seq
                         /\ new[Len(lines)].shape = "broken"
             /\ ~glued => /\ Len(new) = Len(lines) + 1
                          /\ \A i \in 1 .. Len(lines) : new[i] = lines[i]
                          /\ new[Len(lines) + 1] = line
<1>1. CASE lines # <<>> /\ lines[Len(lines)].shape = "unended"
  <2>1. Len(lines) \in 1 .. Len(lines)
    BY <1>1
  <2>2. DEFINE e == [lines[Len(lines)] EXCEPT !.shape = "broken"]
  <2>3. lines[Len(lines)] \in Line
    BY <2>1
  <2>4. e \in Line /\ e.req = lines[Len(lines)].req /\ e.seq = lines[Len(lines)].seq
                   /\ e.shape = "broken"
    BY <2>3 DEF Line
  <2>5. Written(lines, line) = [lines EXCEPT ![Len(lines)] = e]
    BY <1>1 DEF Written
  <2>6. /\ [lines EXCEPT ![Len(lines)] = e] \in Seq(Line)
        /\ Len([lines EXCEPT ![Len(lines)] = e]) = Len(lines)
        /\ \A j \in 1 .. Len(lines) :
             [lines EXCEPT ![Len(lines)] = e][j] = IF j = Len(lines) THEN e ELSE lines[j]
    BY <2>1, <2>4, ExceptSeq
  <2> HIDE DEF e
  <2>7. Len(lines) \in Nat /\ Len(lines) > 0
    BY <2>1
  <2> DEFINE new == Written(lines, line)
  <2>8. /\ new \in Seq(Line)
        /\ Len(new) = Len(lines)
        /\ \A i \in 1 .. Len(lines) - 1 : new[i] = lines[i]
        /\ new[Len(lines)] = e
    BY <2>1, <2>5, <2>6, <2>7
  <2> HIDE DEF new
  <2>9. QED
    BY <1>1, <2>4, <2>7, <2>8 DEF new
<1>2. CASE ~(lines # <<>> /\ lines[Len(lines)].shape = "unended")
  <2>1. Written(lines, line) = Append(lines, line)
    BY <1>2 DEF Written
  <2>2. QED
    BY <1>2, <2>1
<1>3. QED
  BY <1>1, <1>2

(* What a failure of power leaves of the lines.                             *)
LEMMA CutOffLines ==
  ASSUME NEW lines \in Seq(Line), NEW n \in 1 .. Len(lines),
         NEW s \in {"whole", "unended", "broken"}
  PROVE  LET cut == CutOff(lines, n, s)
         IN  /\ cut \in Seq(Line)
             /\ Len(cut) = n
             /\ \A i \in 1 .. n - 1 : cut[i] = lines[i]
             /\ cut[n].req = lines[n].req
             /\ cut[n].seq = lines[n].seq
             /\ cut[n].shape = IF lines[n].shape = "broken" THEN "broken" ELSE s
<1> DEFINE sub == SubSeq(lines, 1, n)
           e == [sub[n] EXCEPT !.shape = IF @ = "broken" THEN @ ELSE s]
<1>1. \A i \in 1 .. n : lines[i] \in Line
  OBVIOUS
<1>2. /\ sub \in Seq(Line)
      /\ Len(sub) = n
      /\ \A i \in 1 .. n : sub[i] = lines[i]
  BY <1>1, SubSeqProperties
<1>3. sub[n] = lines[n] /\ lines[n] \in Line
  BY <1>1, <1>2
<1>4. e \in Line /\ e.req = lines[n].req /\ e.seq = lines[n].seq
      /\ e.shape = IF lines[n].shape = "broken" THEN "broken" ELSE s
  BY <1>3 DEF Line
<1>5. CutOff(lines, n, s) = [sub EXCEPT ![n] = e]
  BY DEF CutOff
<1>6. /\ [sub EXCEPT ![n] = e] \in Seq(Line)
      /\ Len([sub EXCEPT ![n] = e]) = n
      /\ \A j \in 1 .. n : [sub EXCEPT ![n] = e][j] = IF j = n THEN e ELSE sub[j]
  <2>1. n \in 1 .. Len(sub)
    BY <1>2
  <2> HIDE DEF sub, e
  <2>2. QED
    BY <1>2, <1>4, <2>1, ExceptSeq
<1>7. QED
  <2> HIDE DEF sub, e
  <2>1. QED
    BY <1>2, <1>4, <1>5, <1>6

(* A writer's place in its append, as TypeOK has it.                        *)
Place(place) ==
  /\ place \in [step : Step, req : Request \cup {NoEntry}, next : Request \cup {NoEntry},
                seq : Nat \ {0}]
  /\ (place.step = "idle") <=> (place.req = NoEntry)
  /\ place.next # NoEntry => place.req = Baseline

LEMMA PlaceKeepsTypes ==
  ASSUME TypeOK, NEW w \in Writer, NEW place, Place(place),
         run' = [run EXCEPT ![w] = place]
  PROVE  /\ run' \in [Writer -> [step : Step, req : Request \cup {NoEntry},
                               next : Request \cup {NoEntry}, seq : Nat \ {0}]]
         /\ \A v \in Writer :
              /\ (run'[v].step = "idle") <=> (run'[v].req = NoEntry)
              /\ run'[v].next # NoEntry => run'[v].req = Baseline
  BY DEF TypeOK, Place

LEMMA IdleIsAPlace == Place(Idle)
  BY DEF Place, Idle, Step

LEMMA ContinueIsAPlace ==
  ASSUME TypeOK, NEW w \in Writer, Continue(w)
  PROVE  \E place : Place(place) /\ run' = [run EXCEPT ![w] = place]
<1>1. CASE run[w].next = NoEntry
  BY <1>1, IdleIsAPlace DEF Continue
<1>2. CASE run[w].next # NoEntry
  <2>1. run[w].next \in Request
    BY <1>2 DEF TypeOK
  <2>2. Place(Reading(run[w].next, NoEntry))
    BY <2>1 DEF Place, Reading, Step
  <2>3. QED
    BY <1>2, <2>2 DEF Continue
<1>3. QED
  BY <1>1, <1>2

(* Types are kept by a step of a writer.                                    *)
LEMMA StepKeepsTypes ==
  ASSUME TypeOK, NEW w \in Writer,
         \/ \E r \in Request \ {Baseline} : Begin(w, r)
         \/ Refuse(w) \/ FindDuplicate(w) \/ Number(w)
         \/ Open(w) \/ Write(w) \/ Sync(w) \/ Kill(w)
  PROVE  TypeOK'
<1>1. CASE \E r \in Request \ {Baseline} : Begin(w, r)
  <2>1. PICK r \in Request \ {Baseline} : Begin(w, r)
    BY <1>1
  <2>2. Place(Reading(Baseline, r)) /\ Place(Reading(r, NoEntry))
    BY DEF Place, Reading, Step
  <2>3. \E place : Place(place) /\ run' = [run EXCEPT ![w] = place]
    BY <2>1, <2>2 DEF Begin
  <2>4. QED
    BY <2>1, <2>3, PlaceKeepsTypes DEF Begin, TypeOK
<1>2. CASE Refuse(w)
  BY <1>2, IdleIsAPlace, PlaceKeepsTypes DEF Refuse, TypeOK
<1>3. CASE FindDuplicate(w)
  BY <1>3, ContinueIsAPlace, PlaceKeepsTypes DEF FindDuplicate, TypeOK
<1>4. CASE Number(w)
  <2>1. Place([run[w] EXCEPT !.step = "open", !.seq = NextSequence(file)])
    <3>1. NextSequence(file) \in Nat \ {0}
      BY DEF NextSequence, TypeOK
    <3>2. QED
      BY <1>4, <3>1 DEF Place, Number, TypeOK, Step
  <2>2. run' = [run EXCEPT ![w] = [run[w] EXCEPT !.step = "open", !.seq = NextSequence(file)]]
    BY <1>4 DEF Number
  <2>3. QED
    BY <1>4, <2>1, <2>2, PlaceKeepsTypes DEF Number, TypeOK
<1>5. CASE Open(w)
  <2>1. Place([run[w] EXCEPT !.step = "write"])
    BY <1>5 DEF Place, Open, TypeOK, Step
  <2>2. QED
    BY <1>5, <2>1, PlaceKeepsTypes DEF Open, TypeOK
<1>6. CASE Write(w)
  <2>1. [seq |-> run[w].seq, req |-> run[w].req, shape |-> "whole"] \in Line
    BY <1>6 DEF TypeOK, Write, Line
  <2>2. file' \in Seq(Line)
    BY <1>6, <2>1, WrittenLines DEF TypeOK, Write
  <2>3. Place([run[w] EXCEPT !.step = "sync"])
    BY <1>6 DEF Place, Write, TypeOK, Step
  <2>4. overlapped' \in BOOLEAN
    BY <1>6 DEF Write
  <2>5. QED
    BY <1>6, <2>2, <2>3, <2>4, PlaceKeepsTypes DEF Write, TypeOK
<1>7. CASE Sync(w)
  <2>1. returned' \subseteq [seq : Nat \ {0}, req : Request]
    BY <1>7 DEF Sync, TypeOK
  <2>2. QED
    BY <1>7, <2>1, ContinueIsAPlace, PlaceKeepsTypes DEF Sync, TypeOK
<1>8. CASE Kill(w)
  BY <1>8, IdleIsAPlace, PlaceKeepsTypes DEF Kill, TypeOK
<1>9. QED
  BY <1>1, <1>2, <1>3, <1>4, <1>5, <1>6, <1>7, <1>8

(* What a failure of power leaves is the disk, or lines that continue it.   *)
LEMMA AfterPowerFailure ==
  ASSUME TypeOK, PowerFails
  PROVE  /\ TypeOK'
         /\ disk' = file'
         /\ \A w \in Writer : run'[w] = Idle
         /\ \/ file' = disk /\ torn' = torn
            \/ /\ file' \in Seq(Line)
               /\ Len(file') \in Len(disk) + 1 .. Len(file)
               /\ \A i \in 1 .. Len(file') - 1 : file'[i] = file[i]
               /\ file'[Len(file')].req = file[Len(file')].req
               /\ file'[Len(file')].seq = file[Len(file')].seq
               /\ file[Len(file')].shape = "broken" => file'[Len(file')].shape = "broken"
               /\ torn' \/ /\ file[Len(file')].shape # "broken" => file'[Len(file')].shape = "whole"
                           /\ ~torn
<1>1. disk' = file' /\ run' = [v \in Writer |-> Idle] /\ UNCHANGED <<returned, overlapped>>
  BY DEF PowerFails
<1>2. CASE /\ file' = disk
           /\ exists' \in {exists, disk # <<>>}
           /\ torn' = torn
  <2>1. exists' \in BOOLEAN
    <3>1. exists \in BOOLEAN
      BY DEF TypeOK
    <3>2. QED
      BY <1>2, <3>1, Zenon
  <2>2. TypeOK'
    BY <1>1, <1>2, <2>1 DEF TypeOK, Idle, Step
  <2>3. QED
    BY <1>1, <1>2, <2>2
<1>3. ASSUME NEW n \in Len(disk) + 1 .. Len(file), NEW s \in {"whole", "unended", "broken"},
             file' = CutOff(file, n, s), exists' = exists, torn' = (torn \/ s # "whole")
      PROVE  /\ TypeOK'
             /\ Len(file') = n
             /\ \A i \in 1 .. n - 1 : file'[i] = file[i]
             /\ file'[n].req = file[n].req
             /\ file'[n].seq = file[n].seq
             /\ file'[n].shape = IF file[n].shape = "broken" THEN "broken" ELSE s
  <2>1. file \in Seq(Line) /\ n \in 1 .. Len(file)
    BY <1>3 DEF TypeOK
  <2>2. /\ file' \in Seq(Line)
        /\ Len(file') = n
        /\ \A i \in 1 .. n - 1 : file'[i] = file[i]
        /\ file'[n].req = file[n].req
        /\ file'[n].seq = file[n].seq
        /\ file'[n].shape = IF file[n].shape = "broken" THEN "broken" ELSE s
    BY <1>3, <2>1, CutOffLines
  <2>3. TypeOK'
    BY <1>1, <1>3, <2>2 DEF TypeOK, Idle, Step
  <2>4. QED
    BY <2>2, <2>3
<1>4. QED
  BY <1>1, <1>2, <1>3 DEF PowerFails, TypeOK

-----------------------------------------------------------------------------
(* Steps that leave the lines alone and start no number.                    *)
LEMMA QuietStep ==
  ASSUME Inv, TypeOK', UNCHANGED <<file, disk, returned, overlapped, torn>>,
         NEW w \in Writer, NEW place, run' = [run EXCEPT ![w] = place],
         place.step # "sync",
         \/ place.step \notin {"open", "write"}
         \/ About(w) /\ place.seq = run[w].seq /\ place.req = run[w].req
  PROVE  Inv'
<1>1. \A v \in Writer \ {w} : run'[v] = run[v]
  BY DEF Inv, TypeOK
<1>2. run'[w] = place
  BY DEF Inv, TypeOK
<1>3. Kept'
  BY <1>1, <1>2 DEF Inv, Kept, KeptIn, Readable
<1>4. LookedUp'
  BY <1>1, <1>2 DEF Inv, LookedUp, About
<1>5. Undamaged'
  BY <1>1, <1>2 DEF Inv, Undamaged, About
<1>6. QED
  BY <1>3, <1>4, <1>5 DEF Inv, DiskBehind, OnceIn, ReadableTo

LEMMA ContinuesQuietly ==
  ASSUME NEW w \in Writer, Continue(w)
  PROVE  \E place : /\ run' = [run EXCEPT ![w] = place]
                    /\ place.step \in {"idle", "read"}
<1>1. CASE run[w].next = NoEntry
  <2>1. run' = [run EXCEPT ![w] = Idle]
    BY <1>1 DEF Continue
  <2>2. Idle.step = "idle"
    BY DEF Idle
  <2>3. QED
    BY <2>1, <2>2
<1>2. CASE run[w].next # NoEntry
  <2>1. run' = [run EXCEPT ![w] = Reading(run[w].next, NoEntry)]
    BY <1>2 DEF Continue
  <2>2. Reading(run[w].next, NoEntry).step = "read"
    BY DEF Reading
  <2>3. QED
    BY <2>1, <2>2
<1>3. QED
  BY <1>1, <1>2

(* The number of a record is the first free one, and its key is new.        *)
LEMMA NumberKeepsInv ==
  ASSUME Inv, TypeOK', NEW w \in Writer, Number(w)
  PROVE  Inv'
<1>1. UNCHANGED <<file, disk, returned, overlapped, torn>>
  BY DEF Number
<1>2. \A v \in Writer \ {w} : run'[v] = run[v]
  BY DEF Inv, TypeOK, Number
<1>3. /\ run'[w].step = "open"
      /\ run'[w].seq = Len(file) + 1
      /\ run'[w].req = run[w].req
  BY DEF Inv, TypeOK, Number, NextSequence
<1>4. \A i \in 1 .. Len(file) : ~(run[w].req \in Keyed /\ file[i].req = run[w].req)
  BY DEF Number, Recorded, Inv, TypeOK
<1>5. Kept'
  BY <1>1, <1>2, <1>3 DEF Inv, Kept, KeptIn, Readable
<1>6. LookedUp'
  <2>1. run'[w].seq - 1 = Len(file)
    BY <1>3 DEF Inv, TypeOK
  <2>2. QED
    BY <1>1, <1>2, <1>3, <1>4, <2>1 DEF Inv, LookedUp, About
<1>7. Undamaged'
  BY <1>1, <1>2, <1>3 DEF Inv, Undamaged, About
<1>8. QED
  BY <1>1, <1>5, <1>6, <1>7 DEF Inv, DiskBehind, OnceIn, ReadableTo

(* What is returned can be found in every file that continues the disk.     *)
LEMMA DiskIsFound ==
  ASSUME Inv, NEW a \in returned
  PROVE  KeptIn(file, a)
<1> SUFFICES ASSUME Readable(file)
             PROVE  a.seq \in 1 .. Len(file) /\ file[a.seq].req = a.req
  BY DEF KeptIn
<1>1. Len(disk) \in Nat /\ Len(file) \in Nat /\ DOMAIN disk = 1 .. Len(disk)
      /\ DOMAIN file = 1 .. Len(file)
  BY DEF Inv, TypeOK
<1>2. Readable(disk)
  BY <1>1 DEF Inv, DiskBehind, Readable
<1>3. a.seq \in 1 .. Len(disk) /\ disk[a.seq].req = a.req
  BY <1>2 DEF Inv, Kept, KeptIn
<1>4. QED
  BY <1>1, <1>3 DEF Inv, DiskBehind

LEMMA BelowLast ==
  \A n \in Nat : \A k \in 1 .. n : k # n => k \in 1 .. n - 1
OBVIOUS

(* A write has the next number, or damages the file.                        *)
LEMMA WriteKeepsInv ==
  ASSUME Inv, TypeOK', NEW w \in Writer, Write(w)
  PROVE  Inv'
<1> DEFINE line == [seq |-> run[w].seq, req |-> run[w].req, shape |-> "whole"]
           glued == file # <<>> /\ file[Len(file)].shape = "unended"
<1>1. /\ file' = Written(file, line)
      /\ UNCHANGED <<disk, returned, torn>>
      /\ overlapped' = (overlapped \/ \E v \in Writer \ {w} : About(v))
      /\ About(w)
  BY DEF Write, About
<1>2. line \in Line /\ line.seq = run[w].seq /\ line.req = run[w].req /\ line.shape = "whole"
  BY DEF Inv, TypeOK, Write, Line
<1>3. /\ \A v \in Writer \ {w} : run'[v] = run[v]
      /\ run'[w].step = "sync" /\ run'[w].seq = run[w].seq /\ run'[w].req = run[w].req
  BY DEF Inv, TypeOK, Write
<1>4. /\ Len(file) \in Nat /\ DOMAIN file = 1 .. Len(file)
      /\ Len(disk) \in Nat /\ DOMAIN disk = 1 .. Len(disk)
      /\ run[w].seq \in Nat \ {0}
  BY DEF Inv, TypeOK
<1>5. CASE glued
  <2>1. /\ Len(file') = Len(file) /\ Len(file) > 0
        /\ DOMAIN file' = 1 .. Len(file)
        /\ \A i \in 1 .. Len(file) - 1 : file'[i] = file[i]
        /\ file'[Len(file)].req = file[Len(file)].req
        /\ file'[Len(file)].seq = file[Len(file)].seq
        /\ file'[Len(file)].shape = "broken"
    <3> HIDE DEF line
    <3>1. file \in Seq(Line) /\ line \in Line
      BY <1>2 DEF Inv, TypeOK
    <3> DEFINE new == Written(file, line)
    <3>2. new \in Seq(Line)
      BY <3>1, WrittenLines
    <3>3. file' = new
      BY <1>1
    <3>4. /\ Len(new) = Len(file) /\ Len(file) > 0
          /\ \A i \in 1 .. Len(file) - 1 : new[i] = file[i]
          /\ new[Len(file)].req = file[Len(file)].req
          /\ new[Len(file)].seq = file[Len(file)].seq
          /\ new[Len(file)].shape = "broken"
      BY <3>1, <1>5, WrittenLines
    <3> HIDE DEF new
    <3>5. QED
      BY <1>4, <3>2, <3>3, <3>4
  <2>2. ~Readable(file')
    BY <1>4, <2>1 DEF Readable
  <2>3. \A i \in 1 .. Len(file) : file'[i].req = file[i].req /\ file'[i].seq = file[i].seq
    BY <1>4, <2>1
  <2>4. DiskBehind'
    <3>1. \A i \in 1 .. Len(disk) :
            file'[i].shape = disk[i].shape \/ file'[i].shape = "broken"
      BY <1>4, <2>1 DEF Inv, DiskBehind
    <3>2. QED
      BY <1>1, <1>4, <2>1, <2>3, <3>1 DEF Inv, DiskBehind
  <2>5. Kept'
    BY <1>1, <2>2 DEF Inv, Kept, KeptIn, Readable
  <2>6. OnceIn(file)'
    <3> SUFFICES ASSUME NEW j \in 1 .. Len(file'), ReadableTo(file', j),
                        NEW i \in 1 .. j - 1
                 PROVE  ~(file'[i].req \in Keyed /\ file'[i].req = file'[j].req)
      BY DEF OnceIn, ReadableTo
    <3>1. j # Len(file)
      BY <1>4, <2>1 DEF ReadableTo
    <3>2. ReadableTo(file, j)
      <4>1. j \in 1 .. Len(file) /\ j < Len(file)
        <5>1. Len(file') = Len(file)
          BY <2>1
        <5>2. Len(file) \in Nat
          BY <1>4
        <5>3. \A n \in Nat : \A k \in 1 .. n : k # n => k < n
          OBVIOUS
        <5>4. QED
          BY <3>1, <5>1, <5>2, <5>3, Zenon
      <4>2. SUFFICES ASSUME NEW k \in 1 .. j
                     PROVE  file[k].shape # "broken" /\ file[k].seq = k
        BY DEF ReadableTo
      <4>3. /\ Len(file) \in Nat
            /\ k \in 1 .. Len(file)
            /\ k # Len(file)
        <5>1. Len(file) \in Nat
          BY <1>4
        <5>2. \A n \in Nat : j \in 1 .. n /\ j < n => k \in 1 .. n /\ k # n
          OBVIOUS
        <5>3. QED
          BY <4>1, <5>1, <5>2, Zenon
      <4>4. k \in 1 .. Len(file) - 1
        BY <4>3, BelowLast, Zenon
      <4>5. file'[k] = file[k]
        BY <2>1, <4>4
      <4>6. QED
        BY <4>5 DEF ReadableTo
    <3>3. QED
      BY <1>4, <2>1, <2>3, <3>2 DEF Inv, OnceIn
  <2>7. LookedUp'
    <3> SUFFICES ASSUME NEW v \in Writer, About(v)'
                 PROVE  /\ run'[v].seq <= Len(file') + 1
                        /\ \A i \in 1 .. run'[v].seq - 1 :
                             ~(run'[v].req \in Keyed /\ file'[i].req = run'[v].req)
      BY DEF LookedUp
    <3>1. v # w /\ run'[v] = run[v] /\ About(v) /\ run[v].seq \in Nat \ {0}
      BY <1>3 DEF About, Inv, TypeOK
    <3>2. \A i \in 1 .. run[v].seq - 1 : i \in 1 .. Len(file)
      BY <1>4, <3>1 DEF Inv, LookedUp
    <3>3. QED
      BY <2>1, <2>3, <3>1, <3>2 DEF Inv, LookedUp
  <2>8. Undamaged'
    <3>1. overlapped \/ torn
      BY <1>4, <1>5, <2>1 DEF Inv, Undamaged
    <3>2. ~overlapped' => \A v \in Writer : ~About(v)'
      BY <1>1, <1>3 DEF About
    <3>3. QED
      BY <1>1, <3>1, <3>2 DEF Undamaged
  <2>9. OnceIn(disk)'
    BY <1>1 DEF Inv, OnceIn, ReadableTo
  <2>10. QED
    BY <2>4, <2>5, <2>6, <2>7, <2>8, <2>9 DEF Inv
<1>6. CASE ~glued
  <2>1. /\ Len(file') = Len(file) + 1
        /\ DOMAIN file' = 1 .. Len(file) + 1
        /\ \A i \in 1 .. Len(file) : file'[i] = file[i]
        /\ file'[Len(file) + 1] = line
    <3> HIDE DEF line
    <3>1. file \in Seq(Line) /\ line \in Line
      BY <1>2 DEF Inv, TypeOK
    <3> DEFINE new == Written(file, line)
    <3>2. new \in Seq(Line)
      BY <3>1, WrittenLines
    <3>3. file' = new
      BY <1>1
    <3>4. /\ Len(new) = Len(file) + 1
          /\ \A i \in 1 .. Len(file) : new[i] = file[i]
          /\ new[Len(file) + 1] = line
      BY <3>1, <1>6, WrittenLines
    <3> HIDE DEF new
    <3>5. QED
      BY <1>4, <3>2, <3>3, <3>4
  <2>2. /\ file'[Len(file) + 1].seq = run[w].seq
        /\ file'[Len(file) + 1].req = run[w].req
        /\ file'[Len(file) + 1].shape = "whole"
    BY <1>2, <2>1
  <2> HIDE DEF line
  <2>3. Readable(file') => Readable(file) /\ run[w].seq = Len(file) + 1
    BY <1>4, <2>1, <2>2 DEF Readable
  <2>4. DiskBehind'
    BY <1>1, <1>4, <2>1 DEF Inv, DiskBehind
  <2>5. Kept'
    <3>1. \A v \in Writer \ {w} : run[v].step = "sync" => KeptIn(file', run[v])
      BY <1>4, <2>1, <2>3 DEF Inv, Kept, KeptIn
    <3>2. KeptIn(file', run'[w])
      BY <1>3, <1>4, <2>1, <2>2, <2>3 DEF KeptIn
    <3>3. QED
      BY <1>1, <1>3, <3>1, <3>2 DEF Inv, Kept, KeptIn, Readable
  <2>6. OnceIn(file)'
    <3> SUFFICES ASSUME NEW j \in 1 .. Len(file'), ReadableTo(file', j),
                        NEW i \in 1 .. j - 1
                 PROVE  ~(file'[i].req \in Keyed /\ file'[i].req = file'[j].req)
      BY DEF OnceIn, ReadableTo
    <3>1. CASE j \in 1 .. Len(file)
      <4>1. ReadableTo(file, j)
        BY <1>4, <2>1, <3>1 DEF ReadableTo
      <4>2. QED
        BY <1>4, <2>1, <3>1, <4>1 DEF Inv, OnceIn
    <3>2. CASE j = Len(file) + 1
      <4>1. run[w].seq = j
        BY <1>4, <2>2, <3>2 DEF ReadableTo
      <4>2. QED
        BY <1>1, <1>4, <2>1, <2>2, <3>2, <4>1 DEF Inv, LookedUp
    <3>3. QED
      BY <1>4, <2>1, <3>1, <3>2
  <2>7. LookedUp'
    <3> SUFFICES ASSUME NEW v \in Writer, About(v)'
                 PROVE  /\ run'[v].seq <= Len(file') + 1
                        /\ \A i \in 1 .. run'[v].seq - 1 :
                             ~(run'[v].req \in Keyed /\ file'[i].req = run'[v].req)
      BY DEF LookedUp
    <3>1. v # w /\ run'[v] = run[v] /\ About(v) /\ run[v].seq \in Nat \ {0}
      BY <1>3 DEF About, Inv, TypeOK
    <3>2. QED
      BY <1>4, <2>1, <3>1 DEF Inv, LookedUp
  <2>8. Undamaged'
    <3>1. ~overlapped' => ~overlapped /\ \A v \in Writer : ~About(v)'
      BY <1>1, <1>3 DEF About
    <3>2. ~overlapped => run[w].seq = Len(file) + 1
      BY <1>1 DEF Inv, Undamaged
    <3>3. QED
      BY <1>1, <1>4, <2>1, <2>2, <3>1, <3>2 DEF Inv, Undamaged
  <2>9. OnceIn(disk)'
    BY <1>1 DEF Inv, OnceIn, ReadableTo
  <2>10. QED
    BY <2>4, <2>5, <2>6, <2>7, <2>8, <2>9 DEF Inv
<1>7. QED
  BY <1>5, <1>6

(* Forcing the file to disk makes what is returned last.                    *)
LEMMA SyncKeepsInv ==
  ASSUME Inv, TypeOK', NEW w \in Writer, Sync(w)
  PROVE  Inv'
<1>1. /\ disk' = file
      /\ UNCHANGED <<file, overlapped, torn>>
      /\ returned' = returned \cup {[seq |-> run[w].seq, req |-> run[w].req]}
      /\ run[w].step = "sync"
  BY DEF Sync
<1>2. PICK place : run' = [run EXCEPT ![w] = place] /\ place.step \in {"idle", "read"}
  BY ContinuesQuietly DEF Sync
<1>3. /\ \A v \in Writer \ {w} : run'[v] = run[v]
      /\ run'[w].step \in {"idle", "read"}
  BY <1>2 DEF Inv, TypeOK
<1>4. DiskBehind'
  BY <1>1 DEF DiskBehind, Inv, TypeOK
<1>5. Kept'
  <2>1. \A a \in returned : KeptIn(file, a)
    BY DiskIsFound
  <2>2. KeptIn(file, [seq |-> run[w].seq, req |-> run[w].req])
    BY <1>1 DEF Inv, Kept, KeptIn
  <2>3. \A a \in returned' : KeptIn(disk', a)
    BY <1>1, <2>1, <2>2
  <2>4. \A v \in Writer : run'[v].step = "sync" => KeptIn(file', run'[v])
    BY <1>1, <1>3 DEF Inv, Kept
  <2>5. QED
    BY <2>3, <2>4 DEF Kept, KeptIn, Readable
<1>6. LookedUp'
  BY <1>1, <1>3 DEF Inv, LookedUp, About
<1>7. Undamaged'
  BY <1>1, <1>3 DEF Inv, Undamaged, About
<1>8. QED
  BY <1>1, <1>4, <1>5, <1>6, <1>7 DEF Inv, OnceIn, ReadableTo

(* Whatever a failure of power leaves, nobody is about to write.            *)
LEMMA PowerKeepsInv ==
  ASSUME Inv, PowerFails
  PROVE  Inv'
<1>1. /\ TypeOK'
      /\ disk' = file'
      /\ \A w \in Writer : run'[w].step = "idle"
      /\ UNCHANGED <<returned, overlapped>>
  BY AfterPowerFailure DEF Inv, PowerFails, Idle
<1>2. DiskBehind' /\ LookedUp'
  BY <1>1 DEF DiskBehind, LookedUp, About, TypeOK
<1>3. \A w \in Writer : ~(run'[w].step = "sync") /\ ~About(w)'
  BY <1>1 DEF About
<1>4. /\ Len(disk) \in Nat /\ DOMAIN disk = 1 .. Len(disk)
      /\ Len(file) \in Nat /\ DOMAIN file = 1 .. Len(file)
      /\ Len(file') \in Nat /\ DOMAIN file' = 1 .. Len(file')
  BY <1>1 DEF Inv, TypeOK
<1>5. CASE file' = disk /\ torn' = torn
  <2>1. Kept'
    BY <1>1, <1>3, <1>5 DEF Inv, Kept, KeptIn, Readable
  <2>2. Undamaged'
    BY <1>1, <1>3, <1>4, <1>5 DEF Inv, Undamaged, DiskBehind
  <2>3. QED
    BY <1>1, <1>2, <1>5, <2>1, <2>2 DEF Inv, OnceIn, ReadableTo
<1>6. CASE /\ Len(file') \in Len(disk) + 1 .. Len(file)
           /\ \A i \in 1 .. Len(file') - 1 : file'[i] = file[i]
           /\ file'[Len(file')].req = file[Len(file')].req
           /\ file'[Len(file')].seq = file[Len(file')].seq
           /\ file[Len(file')].shape = "broken" => file'[Len(file')].shape = "broken"
           /\ torn' \/ /\ file[Len(file')].shape # "broken" => file'[Len(file')].shape = "whole"
                       /\ ~torn
  <2>1. \A i \in 1 .. Len(file') :
          /\ i \in 1 .. Len(file)
          /\ file'[i].req = file[i].req /\ file'[i].seq = file[i].seq
          /\ file[i].shape = "broken" => file'[i].shape = "broken"
    BY <1>4, <1>6
  <2>2. Kept'
    <3>1. Readable(file') => Readable(disk)
      <4>1. \A i \in 1 .. Len(disk) : i \in 1 .. Len(file') - 1
        BY <1>4, <1>6
      <4>2. QED
        BY <1>4, <1>6, <2>1, <4>1 DEF Inv, DiskBehind, Readable
    <3>2. \A a \in returned : KeptIn(file', a)
      <4>1. \A i \in 1 .. Len(disk) : i \in 1 .. Len(file') /\ file'[i].req = disk[i].req
        BY <1>4, <1>6, <2>1 DEF Inv, DiskBehind
      <4>2. QED
        BY <3>1, <4>1 DEF Inv, Kept, KeptIn
    <3>3. QED
      BY <1>1, <1>3, <3>2 DEF Kept, KeptIn, Readable
  <2>3. OnceIn(file)'
    <3> SUFFICES ASSUME NEW j \in 1 .. Len(file'), ReadableTo(file', j),
                        NEW i \in 1 .. j - 1
                 PROVE  ~(file'[i].req \in Keyed /\ file'[i].req = file'[j].req)
      BY DEF OnceIn, ReadableTo
    <3>1. ReadableTo(file, j)
      BY <1>4, <2>1 DEF ReadableTo
    <3>2. i \in 1 .. Len(file') /\ j \in 1 .. Len(file)
      BY <1>4, <2>1
    <3>3. QED
      BY <2>1, <3>1, <3>2 DEF Inv, OnceIn
  <2>4. Undamaged'
    <3> SUFFICES ASSUME ~overlapped, ~torn', NEW i \in 1 .. Len(file')
                 PROVE  file'[i].shape = "whole" /\ file'[i].seq = i
      BY <1>1, <1>3 DEF Undamaged
    <3>1. \A k \in 1 .. Len(file) : file[k].shape = "whole" /\ file[k].seq = k
      BY <1>6 DEF Inv, Undamaged
    <3>2. QED
      BY <1>4, <1>6, <2>1, <3>1
  <2>5. QED
    BY <1>1, <1>2, <2>2, <2>3, <2>4 DEF Inv, OnceIn, ReadableTo
<1>7. QED
  BY <1>5, <1>6, AfterPowerFailure DEF Inv

-----------------------------------------------------------------------------
(* The inductive invariant, in every reachable state.                       *)
THEOREM JournalInvariant == Spec => []Inv
<1>1. ASSUME Init
      PROVE  Inv
  <2>1. /\ file = <<>> /\ disk = <<>> /\ returned = {}
        /\ Len(file) = 0 /\ Len(disk) = 0
        /\ file \in Seq(Line) /\ disk \in Seq(Line)
    BY <1>1 DEF Init
  <2>2. \A w \in Writer : run[w] = Idle
    BY <1>1 DEF Init
  <2>3. TypeOK
    <3>1. run = [w \in Writer |-> Idle] /\ exists = FALSE /\ overlapped = FALSE /\ torn = FALSE
      BY <1>1 DEF Init
    <3>2. Place(Idle)
      BY IdleIsAPlace
    <3>3. QED
      BY <2>1, <3>1, <3>2 DEF TypeOK, Place
  <2>4. DiskBehind /\ OnceIn(file) /\ OnceIn(disk)
    BY <2>1 DEF DiskBehind, OnceIn
  <2>5. Kept /\ LookedUp /\ Undamaged
    BY <2>1, <2>2 DEF Kept, LookedUp, Undamaged, About, Idle
  <2>6. QED
    BY <2>3, <2>4, <2>5 DEF Inv
<1>2. ASSUME Inv, [Next]_vars
      PROVE  Inv'
  <2>1. CASE UNCHANGED vars
    BY <1>2, <2>1 DEF vars, Inv, TypeOK, DiskBehind, Kept, KeptIn, OnceIn, LookedUp,
                      Undamaged, About, Readable, ReadableTo
  <2>2. CASE PowerFails
    BY <1>2, <2>2, PowerKeepsInv
  <2>3. ASSUME NEW w \in Writer,
               \/ \E r \in Request \ {Baseline} : Begin(w, r)
               \/ Refuse(w) \/ FindDuplicate(w) \/ Number(w)
               \/ Open(w) \/ Write(w) \/ Sync(w) \/ Kill(w)
        PROVE  Inv'
    <3>1. TypeOK'
      BY <1>2, <2>3, StepKeepsTypes DEF Inv
    <3>2. CASE \E r \in Request \ {Baseline} : Begin(w, r)
      <4>1. PICK r \in Request \ {Baseline} : Begin(w, r)
        BY <3>2
      <4>2. PICK place : place.step = "read" /\ run' = [run EXCEPT ![w] = place]
        <5>1. Reading(Baseline, r).step = "read" /\ Reading(r, NoEntry).step = "read"
          BY DEF Reading
        <5>2. QED
          BY <4>1, <5>1 DEF Begin
      <4>3. QED
        BY <1>2, <3>1, <4>1, <4>2, QuietStep DEF Begin
    <3>3. CASE Refuse(w) \/ Kill(w)
      <4>1. run' = [run EXCEPT ![w] = Idle] /\ Idle.step = "idle"
        BY <3>3 DEF Refuse, Kill, Idle
      <4>2. QED
        BY <1>2, <3>1, <3>3, <4>1, QuietStep DEF Refuse, Kill
    <3>4. CASE FindDuplicate(w)
      BY <1>2, <3>1, <3>4, ContinuesQuietly, QuietStep DEF FindDuplicate
    <3>5. CASE Number(w)
      BY <1>2, <3>1, <3>5, NumberKeepsInv
    <3>6. CASE Open(w)
      <4>1. run' = [run EXCEPT ![w] = [run[w] EXCEPT !.step = "write"]] /\ About(w)
        BY <3>6 DEF Open, About
      <4>2. /\ [run[w] EXCEPT !.step = "write"].step = "write"
            /\ [run[w] EXCEPT !.step = "write"].seq = run[w].seq
            /\ [run[w] EXCEPT !.step = "write"].req = run[w].req
        BY <1>2 DEF Inv, TypeOK
      <4>3. QED
        BY <1>2, <3>1, <3>6, <4>1, <4>2, QuietStep DEF Open
    <3>7. CASE Write(w)
      BY <1>2, <3>1, <3>7, WriteKeepsInv
    <3>8. CASE Sync(w)
      BY <1>2, <3>1, <3>8, SyncKeepsInv
    <3>9. QED
      BY <2>3, <3>2, <3>3, <3>4, <3>5, <3>6, <3>7, <3>8
  <2>4. QED
    BY <1>2, <2>1, <2>2, <2>3 DEF Next
<1>3. QED
  BY <1>1, <1>2, PTL DEF Spec

(* The variables keep their types, and only the import of a baseline has    *)
(* another request behind it.                                               *)
THEOREM TypeCorrect == Spec => []TypeOK
<1>1. Inv => TypeOK
  BY DEF Inv
<1>2. QED
  BY <1>1, JournalInvariant, PTL

(* A record whose append returned is in every history that can be read.     *)
THEOREM Durable == Spec => []ReturnedIsKept
<1>1. Inv => ReturnedIsKept
  <2> SUFFICES ASSUME Inv, Readable(file), NEW a \in returned
               PROVE  a.seq \in DOMAIN file /\ file[a.seq].req = a.req
    BY DEF ReturnedIsKept
  <2>1. a.seq \in 1 .. Len(file) /\ file[a.seq].req = a.req
    BY DiskIsFound DEF KeptIn
  <2>2. QED
    BY <2>1 DEF Inv, TypeOK
<1>2. QED
  BY <1>1, JournalInvariant, PTL

(* A history that can be read has each idempotency key once.                *)
THEOREM Idempotent == Spec => []KeysOnce
<1>1. Inv => KeysOnce
  <2> SUFFICES ASSUME Inv, Readable(file), NEW i \in DOMAIN file, NEW j \in DOMAIN file,
                      file[i].req \in Keyed, file[i].req = file[j].req, i # j
               PROVE  FALSE
    BY DEF KeysOnce
  <2>1. Len(file) \in Nat /\ DOMAIN file = 1 .. Len(file)
    BY DEF Inv, TypeOK
  <2>2. \A k \in 1 .. Len(file) : ReadableTo(file, k)
    BY <2>1 DEF Readable, ReadableTo
  <2>3. \A m, k \in 1 .. Len(file) :
          m < k => ~(file[m].req \in Keyed /\ file[m].req = file[k].req)
    BY <2>1, <2>2 DEF Inv, OnceIn
  <2>4. i < j \/ j < i
    BY <2>1
  <2>5. QED
    BY <2>1, <2>3, <2>4
<1>2. QED
  BY <1>1, JournalInvariant, PTL

(* The journal is damaged by overlapping appends or by a torn line only.    *)
THEOREM DamageExplained == Spec => []DamageHasACause
<1>1. Inv => DamageHasACause
  BY DEF Inv, TypeOK, Undamaged, DamageHasACause, Readable
<1>2. QED
  BY <1>1, JournalInvariant, PTL

-----------------------------------------------------------------------------
(* The incident reports of MCTools.                                         *)

(* Every set of numbers that is not empty has a least one.                  *)
LEMMA Least ==
  ASSUME NEW T \in SUBSET Nat, T # {}
  PROVE  \E n \in T : \A m \in T : n <= m
<1> DEFINE Less == {pair \in Nat \X Nat : pair[1] < pair[2]}
<1>1. IsWellFoundedOn(Less, Nat)
  BY NatLessThanWellFounded DEF OpToRel
<1>2. PICK n \in T : \A m \in T : ~ (<<m, n>> \in Less)
  <2> HIDE DEF Less
  <2>1. QED
    BY <1>1, WFMin
<1>3. \A m \in T : ~ (m < n) /\ m \in Nat /\ n \in Nat
  BY <1>2
<1> HIDE DEF Less
<1>4. QED
  BY <1>3

(* The module that is instantiated counts as this one does.                 *)
LEMMA Counts == ASSUME NEW X PROVE I!Cardinality(X) = Cardinality(X)
  BY DEF I!Cardinality, Cardinality, I!IsFiniteSet, IsFiniteSet

(* A set of positions has at most one element if no two differ.             *)
LEMMA AtMostOne ==
  ASSUME NEW n \in Nat, NEW X \in SUBSET (1 .. n), \A j, k \in X : j = k
  PROVE  Cardinality(X) <= 1
<1>1. IsFiniteSet(X)
  <2>1. 1 \in Int /\ n \in Int
    OBVIOUS
  <2>2. IsFiniteSet(1 .. n)
    BY <2>1, FS_Interval
  <2>3. QED
    BY <2>2, FS_Subset
<1>2. CASE X = {}
  BY <1>2, FS_EmptySet
<1>3. ASSUME NEW k \in X PROVE Cardinality(X) <= 1
  <2>1. X = {k}
    OBVIOUS
  <2>2. Cardinality({k}) = 1
    BY FS_Singleton
  <2>3. QED
    BY <2>1, <2>2
<1>4. QED
  BY <1>2, <1>3

(* A step of the system is one of the reporters, or does not touch them.    *)
LEMMA IncidentSteps == [EitherNext]_allVars => [I!Next]_incident
  BY DEF EitherNext, allVars, incident

AnyBundle == [failure : I!Fingerprint, issue : Issue \cup {0}, seen : Seen \cup {0, 1}]

ReportState ==
  [at : {"idle", "looking", "writing", "marking", "searching", "posting", "dead"},
   bundle : AnyBundle, github : BOOLEAN, matches : SUBSET Nat]

IncidentState == [failure : I!Fingerprint, open : BOOLEAN, indexed : BOOLEAN, comments : Nat]

ReportsTyped ==
  /\ files \in Seq(AnyBundle) /\ last \in AnyBundle
  /\ incidents \in Seq(IncidentState)
  /\ flight \subseteq I!Fingerprint
  /\ reports \in [Reporter -> ReportState]
  /\ count \in [reports : Nat, faults : Nat, closed : Nat]

Posting(p, f) == reports[p].at = "posting" /\ reports[p].bundle.failure = f
Of(f) == {k \in 1 .. Len(incidents) : incidents[k].failure = f}

(* Upstream, a failure that is not excused has one open incident at most;   *)
(* who posts it is alone and knows all its incidents; while a creation is   *)
(* under way there is none that is open and nobody posts.                   *)
OneIncident(f) ==
  /\ \A j, k \in Of(f) : incidents[j].open /\ incidents[k].open => j = k
  /\ \A p, q \in Reporter : Posting(p, f) /\ Posting(q, f) => p = q
  /\ \A p \in Reporter : Posting(p, f) => reports[p].matches = Of(f) /\ f \notin flight
  /\ f \in flight => \A k \in Of(f) : ~ incidents[k].open

Writing(p, f, i) ==
  /\ reports[p].at = "writing" /\ reports[p].bundle # I!Torn
  /\ reports[p].bundle.failure = f /\ reports[p].bundle.issue = i
Filed(f, i) == {k \in 1 .. Len(files) : files[k] # I!Torn /\ files[k].failure = f /\ files[k].issue = i}

(* Of a failure of an issue that is not excused there is one file at most;  *)
(* who writes it is alone and finds none.                                   *)
OneFile(f, i) ==
  /\ \A j, k \in Filed(f, i) : j = k
  /\ \A p, q \in Reporter : Writing(p, f, i) /\ Writing(q, f, i) => p = q
  /\ \A p \in Reporter : Writing(p, f, i) => Filed(f, i) = {}

ReportsInv ==
  /\ ReportsTyped
  /\ \A f \in I!Fingerprint : <<f, 0>> \notin excused => OneIncident(f)
  /\ \A f \in I!Fingerprint, i \in Issue : <<f, i>> \notin excused => OneFile(f, i)

USE ToolsAssumption DEF I!IncidentAssumption

(* Every behaviour of the reporters begins with the invariant.              *)
LEMMA ReportsBegin == I!Init => ReportsInv
<1> SUFFICES ASSUME I!Init PROVE ReportsInv
  OBVIOUS
<1>1. I!Idle \in ReportState /\ I!Idle.at = "idle" /\ I!Blank \in AnyBundle
  BY DEF I!Idle, I!Blank, ReportState, AnyBundle, I!Fingerprint
<1>2. ReportsTyped
  BY <1>1 DEF I!Init, ReportsTyped
<1>3. \A p \in Reporter : reports[p].at = "idle"
  BY <1>1 DEF I!Init
<1>4. Len(incidents) = 0 /\ Len(files) = 0 /\ flight = {}
  BY DEF I!Init
<1>5. QED
  BY <1>2, <1>3, <1>4 DEF ReportsInv, OneIncident, OneFile, Of, Filed, Posting, Writing

(* What leaves the incidents of a failure, and who posts it, as they are or *)
(* fewer.                                                                   *)
Quieter(f) ==
  /\ Of(f)' = Of(f) /\ \A k \in Of(f) : incidents'[k].open => incidents[k].open
  /\ f \in flight' => f \in flight
  /\ \A p \in Reporter : Posting(p, f)' => Posting(p, f) /\ reports'[p].matches = reports[p].matches

(* It keeps one incident.                                                   *)
LEMMA QuieterKeeps ==
  ASSUME NEW f, OneIncident(f), Quieter(f)
  PROVE  OneIncident(f)'
  BY DEF OneIncident, Quieter

(* What leaves the files of a failure, and who writes them, as they are.    *)
Still(f, i) == Filed(f, i)' = Filed(f, i) /\ \A p \in Reporter : Writing(p, f, i)' => Writing(p, f, i)

(* It keeps one file.                                                       *)
LEMMA StillKeeps ==
  ASSUME NEW f, NEW i, OneFile(f, i), Still(f, i)
  PROVE  OneFile(f, i)'
  BY DEF OneFile, Still

(* A step keeps the invariant if it is quiet and still but for what is      *)
(* excused, or shown apart.                                                 *)
LEMMA StepKeeps ==
  ASSUME ReportsInv, ReportsTyped', excused \subseteq excused',
         \A f \in I!Fingerprint : <<f, 0>> \notin excused' /\ OneIncident(f) => Quieter(f) \/ OneIncident(f)',
         \A f \in I!Fingerprint, i \in Issue : <<f, i>> \notin excused' /\ OneFile(f, i) => Still(f, i) \/ OneFile(f, i)'
  PROVE  ReportsInv'
  BY QuieterKeeps, StillKeeps DEF ReportsInv, I!Fingerprint

(* What one reporter's move changes of who posts and who writes.            *)
LEMMA OneMoves ==
  ASSUME ReportsTyped, NEW p \in Reporter, NEW r \in ReportState, reports' = [reports EXCEPT ![p] = r]
  PROVE  /\ reports' \in [Reporter -> ReportState]
         /\ \A f : r.at # "posting" \/ r.bundle.failure # f =>
              \A q \in Reporter : Posting(q, f)' => Posting(q, f) /\ reports'[q].matches = reports[q].matches
         /\ \A f, i : r.at # "writing" =>
              \A q \in Reporter : Writing(q, f, i)' => Writing(q, f, i)
<1>1. reports' \in [Reporter -> ReportState] /\ reports'[p] = r /\ \A q \in Reporter \ {p} : reports'[q] = reports[q]
  BY DEF ReportsTyped
<1>2. QED
  BY <1>1 DEF Posting, Writing

(* A step of one reporter that neither posts nor writes next.               *)
LEMMA QuietMove ==
  ASSUME ReportsInv, NEW p \in Reporter, NEW r \in ReportState, reports' = [reports EXCEPT ![p] = r],
         r.at \notin {"posting", "writing"},
         UNCHANGED <<files, incidents, excused>>, flight' = flight,
         last' \in AnyBundle, count' \in [reports : Nat, faults : Nat, closed : Nat]
  PROVE  ReportsInv'
<1>1. ReportsTyped'
  BY OneMoves DEF ReportsInv, ReportsTyped
<1>2. \A f : Quieter(f)
  BY OneMoves DEF Quieter, Of, ReportsInv
<1>3. \A f, i : Still(f, i)
  BY OneMoves DEF Still, Filed, ReportsInv
<1>4. QED
  BY <1>1, <1>2, <1>3, StepKeeps

(* What the reporters are, and what idle ones are.                          *)
LEMMA ReporterTyped ==
  ASSUME ReportsInv, NEW p \in Reporter
  PROVE  /\ reports[p] \in ReportState /\ I!Idle \in ReportState /\ I!Idle.at = "idle"
         /\ reports[p].bundle \in AnyBundle /\ I!Torn \in AnyBundle
<1>1. I!Blank \in AnyBundle /\ I!Torn \in AnyBundle
  BY DEF I!Blank, I!Torn, AnyBundle, I!Fingerprint
<1>2. QED
  BY <1>1 DEF ReportsInv, ReportsTyped, ReportState, I!Idle

(* A report is begun.                                                       *)
LEMMA BeginKeeps ==
  ASSUME ReportsInv, NEW p \in Reporter, NEW b \in AnyBundle, I!Begin(p, b)
  PROVE  ReportsInv'
<1>1. PICK github \in BOOLEAN :
        reports' = [reports EXCEPT ![p] = [I!Idle EXCEPT !.at = "looking", !.bundle = b, !.github = github]]
  BY DEF I!Begin
<1> DEFINE r == [I!Idle EXCEPT !.at = "looking", !.bundle = b, !.github = github]
<1>2. r \in ReportState /\ r.at = "looking"
  BY ReporterTyped DEF ReportState
<1> HIDE DEF r
<1>3. count' \in [reports : Nat, faults : Nat, closed : Nat]
  <2>1. count \in [reports : Nat, faults : Nat, closed : Nat]
    BY DEF ReportsInv, ReportsTyped
  <2>2. count' = [count EXCEPT !.reports = @ + 1]
    BY DEF I!Begin
  <2>3. QED
    BY <2>1, <2>2
<1>4. last' \in AnyBundle /\ UNCHANGED <<files, incidents, excused>> /\ flight' = flight
  BY DEF I!Begin, ReportsInv, ReportsTyped
<1>5. QED
  BY <1>1, <1>2, <1>3, <1>4, QuietMove DEF r

(* What a report says next, once it is kept.                                *)
LEMMA PublishedNext ==
  ASSUME NEW r \in ReportState
  PROVE  I!Published(r) \in ReportState /\ I!Published(r).at \notin {"posting", "writing"}
  BY DEF I!Published, I!Idle, I!Blank, ReportState, AnyBundle, I!Fingerprint

(* persistIncidentBundle looks for the file of the failure.                 *)
LEMMA LookKeeps ==
  ASSUME ReportsInv, NEW p \in Reporter, I!Look(p)
  PROVE  ReportsInv'
<1> DEFINE b == reports[p].bundle
<1>1. reports[p].at = "looking" /\ UNCHANGED <<files, incidents, flight, count>>
  BY DEF I!Look
<1>2. CASE I!Equivalent(b) # {}
  <2>1. /\ reports' = [reports EXCEPT ![p] = I!Published(reports[p])] /\ excused' = excused
        /\ last' = IF last = I!Blank
                   THEN files[CHOOSE k \in I!Equivalent(b) : \A j \in I!Equivalent(b) : k <= j] ELSE last
    BY <1>2 DEF I!Look, ReportsInv, ReportsTyped
  <2>2. \E k \in I!Equivalent(b) : \A j \in I!Equivalent(b) : k <= j
    <3>1. I!Equivalent(b) \in SUBSET Nat
      BY DEF I!Equivalent
    <3>2. QED
      BY <1>2, <3>1, Least
  <2>3. \A k \in I!Equivalent(b) : files[k] \in AnyBundle
    BY DEF I!Equivalent, ReportsInv, ReportsTyped
  <2>4. last' \in AnyBundle
    BY <2>1, <2>2, <2>3 DEF ReportsInv, ReportsTyped
  <2>5. I!Published(reports[p]) \in ReportState /\ I!Published(reports[p]).at \notin {"posting", "writing"}
    BY ReporterTyped, PublishedNext
  <2>6. QED
    BY <1>1, <2>1, <2>4, <2>5, QuietMove DEF ReportsInv, ReportsTyped
<1>3. CASE I!Equivalent(b) = {}
  <2> DEFINE r == [reports[p] EXCEPT !.at = "writing"]
             others == {q \in Reporter : reports[q].at = "writing" /\ I!Same(reports[q].bundle, b)}
  <2>1. /\ reports' = [reports EXCEPT ![p] = r] /\ last' = last
        /\ excused' = IF others = {} THEN excused ELSE excused \cup {<<b.failure, b.issue>>}
    BY <1>3 DEF I!Look, ReportsInv, ReportsTyped
  <2>2. r \in ReportState /\ r.at = "writing" /\ r.bundle = b
    BY ReporterTyped DEF ReportState
  <2> HIDE DEF r
  <2>3. ReportsTyped'
    BY <1>1, <2>1, <2>2, OneMoves DEF ReportsInv, ReportsTyped
  <2>4. \A f : Quieter(f)
    BY <1>1, <2>1, <2>2, OneMoves DEF Quieter, Of, ReportsInv
  <2>5. /\ reports'[p] = r /\ \A q \in Reporter \ {p} : reports'[q] = reports[q]
    BY <2>1 DEF ReportsInv, ReportsTyped
  <2>6. ASSUME NEW f \in I!Fingerprint, NEW i \in Issue, <<f, i>> \notin excused', OneFile(f, i)
        PROVE  Still(f, i) \/ OneFile(f, i)'
    <3>1. CASE ~ (b # I!Torn /\ b.failure = f /\ b.issue = i)
      BY <1>1, <2>2, <2>5, <3>1 DEF Still, Filed, Writing
    <3>2. CASE b # I!Torn /\ b.failure = f /\ b.issue = i
      <4>1. others = {}
        BY <2>1, <2>6, <3>2
      <4>2. \A q \in Reporter : ~ Writing(q, f, i)
        BY <3>2, <4>1 DEF Writing, I!Same
      <4>3. Filed(f, i)' = {}
        BY <1>1, <1>3, <3>2 DEF Filed, I!Equivalent, I!Same
      <4>4. \A q \in Reporter : Writing(q, f, i)' => q = p
        BY <2>5, <4>2 DEF Writing
      <4>5. QED
        BY <4>3, <4>4 DEF OneFile
    <3>3. QED
      BY <3>1, <3>2
  <2>7. QED
    BY <2>1, <2>3, <2>4, <2>6, StepKeeps
<1>4. QED
  BY <1>2, <1>3

(* A file is added: by who writes it, or a torn one.                        *)
LEMMA FileAdded ==
  ASSUME ReportsInv, NEW b \in AnyBundle, files' = Append(files, b)
  PROVE  /\ files' \in Seq(AnyBundle)
         /\ \A f, i : ~ (b # I!Torn /\ b.failure = f /\ b.issue = i) => Filed(f, i)' = Filed(f, i)
         /\ \A f, i : Filed(f, i)' \subseteq Filed(f, i) \cup {Len(files) + 1}
<1>1. files \in Seq(AnyBundle)
  BY DEF ReportsInv, ReportsTyped
<1>2. /\ files' \in Seq(AnyBundle) /\ Len(files') = Len(files) + 1 /\ Len(files) \in Nat
      /\ files'[Len(files) + 1] = b /\ \A k \in 1 .. Len(files) : files'[k] = files[k]
  BY <1>1
<1>3. \A k : k \in 1 .. Len(files') <=> k \in 1 .. Len(files) \/ k = Len(files) + 1
  BY <1>2
<1>4. QED
  BY <1>2, <1>3 DEF Filed

(* The file is written.                                                     *)
LEMMA WriteFileKeeps ==
  ASSUME ReportsInv, NEW p \in Reporter, I!WriteFile(p)
  PROVE  ReportsInv'
<1> DEFINE b == reports[p].bundle
           r == [reports[p] EXCEPT !.at = "marking"]
<1>1. /\ reports[p].at = "writing" /\ files' = Append(files, b) /\ reports' = [reports EXCEPT ![p] = r]
      /\ UNCHANGED <<last, incidents, count, excused>> /\ flight' = flight
  BY DEF I!WriteFile, ReportsInv, ReportsTyped
<1>2. r \in ReportState /\ r.at = "marking"
  BY ReporterTyped DEF ReportState
<1> HIDE DEF r
<1>3. b \in AnyBundle
  BY ReporterTyped
<1>4. ReportsTyped'
  BY <1>1, <1>2, <1>3, OneMoves, FileAdded DEF ReportsInv, ReportsTyped
<1>5. \A f : Quieter(f)
  BY <1>1, <1>2, OneMoves DEF Quieter, Of, ReportsInv
<1>6. /\ reports'[p] = r /\ \A q \in Reporter \ {p} : reports'[q] = reports[q]
  BY <1>1 DEF ReportsInv, ReportsTyped
<1>7. ASSUME NEW f \in I!Fingerprint, NEW i \in Issue, OneFile(f, i)
      PROVE  Still(f, i) \/ OneFile(f, i)'
  <2>1. CASE ~ (b # I!Torn /\ b.failure = f /\ b.issue = i)
    BY <1>1, <1>2, <1>3, <2>1, FileAdded, OneMoves DEF Still, ReportsInv
  <2>2. CASE b # I!Torn /\ b.failure = f /\ b.issue = i
    <3>1. Writing(p, f, i)
      BY <1>1, <2>2 DEF Writing
    <3>2. \A q \in Reporter : ~ Writing(q, f, i)'
      BY <1>2, <1>6, <1>7, <3>1 DEF OneFile, Writing
    <3>3. Filed(f, i) = {}
      BY <1>7, <3>1 DEF OneFile
    <3>4. \A j, k \in Filed(f, i)' : j = k
      BY <1>1, <1>3, <3>3, FileAdded
    <3>5. QED
      BY <3>2, <3>4 DEF OneFile
  <2>3. QED
    BY <2>1, <2>2
<1>8. QED
  BY <1>1, <1>4, <1>5, <1>7, StepKeeps

(* last.json is written.                                                    *)
LEMMA WriteLastKeeps ==
  ASSUME ReportsInv, NEW p \in Reporter, I!WriteLast(p)
  PROVE  ReportsInv'
<1>1. /\ reports' = [reports EXCEPT ![p] = I!Published(reports[p])] /\ last' = reports[p].bundle
      /\ UNCHANGED <<files, incidents, count, excused>> /\ flight' = flight
  BY DEF I!WriteLast, ReportsInv, ReportsTyped
<1>2. I!Published(reports[p]) \in ReportState /\ I!Published(reports[p]).at \notin {"posting", "writing"}
  BY ReporterTyped, PublishedNext
<1>3. QED
  BY <1>1, <1>2, ReporterTyped, QuietMove DEF ReportsInv, ReportsTyped

(* A reporter is killed.                                                    *)
LEMMA DieKeeps ==
  ASSUME ReportsInv, NEW p \in Reporter, I!Die(p)
  PROVE  ReportsInv'
<1> DEFINE r == [I!Idle EXCEPT !.at = "dead"]
<1>1. /\ reports' = [reports EXCEPT ![p] = r] /\ UNCHANGED <<incidents, count, excused>> /\ flight' = flight
      /\ \/ files' = Append(files, I!Torn) /\ last' = last
         \/ last' = I!Torn /\ files' = files
         \/ files' = files /\ last' = last
  BY DEF I!Die
<1>2. r \in ReportState /\ r.at = "dead" /\ I!Torn \in AnyBundle
  BY ReporterTyped DEF ReportState
<1> HIDE DEF r
<1>3. CASE files' = Append(files, I!Torn) /\ last' = last
  <2>1. ReportsTyped'
    BY <1>1, <1>2, <1>3, OneMoves, FileAdded DEF ReportsInv, ReportsTyped
  <2>2. \A f : Quieter(f)
    BY <1>1, <1>2, OneMoves DEF Quieter, Of, ReportsInv
  <2>3. \A f, i : Still(f, i)
    BY <1>1, <1>2, <1>3, OneMoves, FileAdded DEF Still, ReportsInv
  <2>4. QED
    BY <1>1, <2>1, <2>2, <2>3, StepKeeps
<1>4. CASE files' = files /\ last' \in {last, I!Torn}
  BY <1>1, <1>2, <1>4, QuietMove DEF ReportsInv, ReportsTyped
<1>5. QED
  BY <1>1, <1>3, <1>4

(* A lifecycle ended blocked, a mismatch was noticed, a report was asked    *)
(* for.                                                                     *)
LEMMA ReportKeeps ==
  ASSUME ReportsInv, NEW p \in Reporter, I!Blocked(p) \/ I!Noticed(p) \/ I!Asked(p)
  PROVE  ReportsInv'
<1>1. CASE I!Blocked(p)
  <2>1. PICK f \in Failure, i \in Issue : I!Begin(p, [failure |-> f, issue |-> i, seen |-> 0])
    BY <1>1 DEF I!Blocked
  <2>2. [failure |-> f, issue |-> i, seen |-> 0] \in AnyBundle
    BY DEF AnyBundle, I!Fingerprint
  <2>3. QED
    BY <2>1, <2>2, BeginKeeps
<1>2. CASE I!Noticed(p)
  <2>1. PICK i \in Issue, s \in Seen : I!Begin(p, [failure |-> Mismatch, issue |-> i, seen |-> s])
    BY <1>2 DEF I!Noticed
  <2>2. [failure |-> Mismatch, issue |-> i, seen |-> s] \in AnyBundle
    BY DEF AnyBundle, I!Fingerprint
  <2>3. QED
    BY <2>1, <2>2, BeginKeeps
<1>3. CASE last \in I!Bundle /\ I!Begin(p, last)
  BY <1>3, BeginKeeps DEF ReportsInv, ReportsTyped
<1>4. CASE \E i \in Issue : \E k \in I!Newest(i) : I!Begin(p, files[k])
  <2>1. PICK i \in Issue : \E k \in I!Newest(i) : I!Begin(p, files[k])
    BY <1>4
  <2>2. PICK k \in I!Newest(i) : I!Begin(p, files[k])
    BY <2>1
  <2>3. files[k] \in AnyBundle
    BY DEF I!Newest, ReportsInv, ReportsTyped
  <2>4. QED
    BY <2>2, <2>3, BeginKeeps
<1>5. QED
  BY <1>1, <1>2, <1>3, <1>4 DEF I!Asked

(* searchFingerprint finds all there are, or is excused.                    *)
LEMMA SearchKeeps ==
  ASSUME ReportsInv, NEW p \in Reporter, I!Search(p)
  PROVE  ReportsInv'
<1>0. PICK f \in I!Fingerprint : f = reports[p].bundle.failure
  BY ReporterTyped DEF AnyBundle
<1> DEFINE found == {k \in 1 .. Len(incidents) : incidents[k].failure = f /\ incidents[k].indexed}
           r == [reports[p] EXCEPT !.at = "posting", !.matches = found]
<1>1. /\ reports[p].at = "searching" /\ UNCHANGED <<files, last, incidents, count>> /\ flight' = flight
      /\ excused' = IF I!Hidden(p, f) THEN excused \cup {<<f, 0>>} ELSE excused
  BY <1>0 DEF I!Search
<1>2. reports' = [reports EXCEPT ![p] = r]
  BY <1>0 DEF I!Search, ReportsInv, ReportsTyped
<1>3. r \in ReportState /\ r.at = "posting" /\ r.bundle.failure = f /\ r.matches = found
  <2>1. found \in SUBSET Nat
    BY DEF ReportsInv, ReportsTyped
  <2>2. QED
    BY <1>0, <2>1, ReporterTyped DEF ReportState
<1> HIDE DEF r
<1>4. ReportsTyped'
  BY <1>1, <1>2, <1>3, OneMoves DEF ReportsInv, ReportsTyped
<1>5. /\ reports'[p] = r /\ \A q \in Reporter \ {p} : reports'[q] = reports[q]
  BY <1>2 DEF ReportsInv, ReportsTyped
<1>6. \A g, i : Still(g, i)
  BY <1>1, <1>2, <1>3, OneMoves DEF Still, Filed, ReportsInv
<1>7. ASSUME NEW g \in I!Fingerprint, <<g, 0>> \notin excused', OneIncident(g)
      PROVE  Quieter(g) \/ OneIncident(g)'
  <2>1. CASE g # f
    BY <1>1, <1>2, <1>3, <2>1, OneMoves DEF Quieter, Of, ReportsInv
  <2>2. CASE g = f
    <3>1. ~ I!Hidden(p, f)
      BY <1>1, <1>7, <2>2
    <3>2. found = Of(f) /\ f \notin flight
      BY <3>1 DEF I!Hidden, Of
    <3>3. \A q \in Reporter \ {p} : ~ Posting(q, f)
      BY <3>1 DEF I!Hidden, Posting
    <3>4. Of(f)' = Of(f)
      BY <1>1 DEF Of
    <3>5. \A q \in Reporter : Posting(q, f)' => q = p
      BY <1>5, <3>3 DEF Posting
    <3>6. reports'[p].matches = Of(f)
      BY <1>3, <1>5, <3>2
    <3>7. \A j, k \in Of(f) : incidents[j].open /\ incidents[k].open => j = k
      BY <1>7, <2>2 DEF OneIncident
    <3>8. QED
      BY <1>1, <2>2, <3>2, <3>4, <3>5, <3>6, <3>7 DEF OneIncident
  <2>3. QED
    BY <2>1, <2>2
<1>8. QED
  BY <1>1, <1>4, <1>6, <1>7, StepKeeps

(* The search fails, or what is posted is nothing.                          *)
LEMMA GivesUpKeeps ==
  ASSUME ReportsInv, NEW p \in Reporter, reports' = [reports EXCEPT ![p] = I!Idle],
         UNCHANGED <<files, last, incidents, excused>>, flight' = flight,
         count' \in [reports : Nat, faults : Nat, closed : Nat]
  PROVE  ReportsInv'
<1>1. last' \in AnyBundle
  BY DEF ReportsInv, ReportsTyped
<1>2. QED
  BY <1>1, ReporterTyped, QuietMove

(* An incident is edited: commented, indexed or closed.                     *)
LEMMA EditedKeeps ==
  ASSUME ReportsInv, NEW k \in 1 .. Len(incidents), NEW s \in IncidentState,
         s.failure = incidents[k].failure, s.open => incidents[k].open,
         incidents' = [incidents EXCEPT ![k] = s]
  PROVE  /\ incidents' \in Seq(IncidentState)
         /\ \A f : Of(f)' = Of(f) /\ \A j \in Of(f) : incidents'[j].open => incidents[j].open
<1>1. incidents \in Seq(IncidentState)
  BY DEF ReportsInv, ReportsTyped
<1>2. /\ incidents' \in Seq(IncidentState) /\ Len(incidents') = Len(incidents)
      /\ incidents'[k] = s /\ \A j \in 1 .. Len(incidents) \ {k} : incidents'[j] = incidents[j]
  BY <1>1
<1>3. QED
  BY <1>2 DEF Of

(* An incident is created.                                                  *)
LEMMA CreatedAdds ==
  ASSUME ReportsInv, NEW f \in I!Fingerprint, I!Created(f)
  PROVE  /\ incidents' \in Seq(IncidentState)
         /\ \A g : g # f => Of(g)' = Of(g) /\ \A j \in Of(g) : incidents'[j] = incidents[j]
         /\ Of(f)' = Of(f) \cup {Len(incidents) + 1} /\ \A j \in Of(f) : incidents'[j] = incidents[j]
<1>1. PICK indexed \in BOOLEAN :
        incidents' = Append(incidents, [failure |-> f, open |-> TRUE, indexed |-> indexed, comments |-> 0])
  BY DEF I!Created
<1> DEFINE s == [failure |-> f, open |-> TRUE, indexed |-> indexed, comments |-> 0]
<1>2. incidents \in Seq(IncidentState) /\ s \in IncidentState /\ s.failure = f
  BY DEF ReportsInv, ReportsTyped, IncidentState
<1>3. incidents' = Append(incidents, s)
  BY <1>1
<1> HIDE DEF s
<1>4. /\ incidents' \in Seq(IncidentState) /\ Len(incidents') = Len(incidents) + 1 /\ Len(incidents) \in Nat
      /\ incidents'[Len(incidents) + 1] = s /\ \A k \in 1 .. Len(incidents) : incidents'[k] = incidents[k]
  BY <1>2, <1>3
<1>5. \A k : k \in 1 .. Len(incidents') <=> k \in 1 .. Len(incidents) \/ k = Len(incidents) + 1
  BY <1>4
<1>6. QED
  BY <1>2, <1>4, <1>5 DEF Of

(* appendOccurrence or createIssue.                                         *)
LEMMA PostKeeps ==
  ASSUME ReportsInv, NEW p \in Reporter, I!Post(p)
  PROVE  ReportsInv'
<1>0. PICK f \in I!Fingerprint : f = reports[p].bundle.failure
  BY ReporterTyped DEF AnyBundle
<1> DEFINE found == reports[p].matches
           open == I!Open(reports[p].matches)
<1>1. /\ reports[p].at = "posting" /\ reports' = [reports EXCEPT ![p] = I!Idle]
      /\ UNCHANGED <<files, last, excused>>
  BY DEF I!Post
<1>2. I!Idle \in ReportState /\ I!Idle.at = "idle"
  BY ReporterTyped
<1>3. \A g, i : Still(g, i)
  BY <1>1, <1>2, OneMoves DEF Still, Filed, ReportsInv
<1>4. \A g : \A q \in Reporter : Posting(q, g)' => Posting(q, g) /\ reports'[q].matches = reports[q].matches
  BY <1>1, <1>2, OneMoves DEF ReportsInv
<1>5. reports' \in [Reporter -> ReportState]
  BY <1>1, <1>2, OneMoves DEF ReportsInv
<1>6. /\ Posting(p, f) /\ ~ Posting(p, f)' /\ reports'[p] = I!Idle
      /\ \A q \in Reporter \ {p} : reports'[q] = reports[q]
  BY <1>0, <1>1, <1>2 DEF Posting, ReportsInv, ReportsTyped
<1>7. ASSUME <<f, 0>> \notin excused
      PROVE  /\ found = Of(f) /\ f \notin flight /\ \A q \in Reporter : ~ Posting(q, f)'
             /\ open = {} => \A k \in Of(f) : ~ incidents[k].open
  <2>1. OneIncident(f)
    BY <1>2, <1>7 DEF ReportsInv
  <2>2. found = Of(f) /\ f \notin flight /\ \A q \in Reporter : Posting(q, f) => q = p
    BY <1>6, <2>1 DEF OneIncident
  <2>3. \A q \in Reporter : ~ Posting(q, f)'
    BY <1>4, <1>6, <2>2
  <2>4. QED
    BY <2>2, <2>3 DEF I!Open
<1>8. CASE I!Mutates(p) /\ open # {} /\ (\E k \in open : I!Commented(k)) /\ UNCHANGED <<flight, count>>
  <2>1. PICK k \in open : I!Commented(k)
    BY <1>8
  <2>2. CASE k \in 1 .. Len(incidents)
    <3> DEFINE s == [incidents[k] EXCEPT !.comments = @ + 1]
    <3>1. incidents[k] \in IncidentState
      BY <2>2 DEF ReportsInv, ReportsTyped
    <3>2. /\ s \in IncidentState /\ s.failure = incidents[k].failure /\ s.open = incidents[k].open
      BY <3>1 DEF IncidentState
    <3>3. incidents' = [incidents EXCEPT ![k] = s]
      BY <2>1 DEF I!Commented
    <3> HIDE DEF s
    <3>4. /\ incidents' \in Seq(IncidentState)
          /\ \A g : Of(g)' = Of(g) /\ \A j \in Of(g) : incidents'[j].open => incidents[j].open
      BY <2>2, <3>2, <3>3, EditedKeeps
    <3>5. ReportsTyped'
      BY <1>1, <1>5, <1>8, <3>4 DEF ReportsInv, ReportsTyped
    <3>6. \A g : Quieter(g)
      BY <1>4, <1>8, <3>4 DEF Quieter
    <3>7. QED
      BY <1>1, <1>3, <3>5, <3>6, StepKeeps
  <2>3. CASE k \notin 1 .. Len(incidents)
    <3>1. incidents' = incidents
      BY <2>1, <2>3 DEF I!Commented, ReportsInv, ReportsTyped
    <3>2. QED
      BY <1>1, <1>8, <3>1, GivesUpKeeps DEF ReportsInv, ReportsTyped
  <2>4. QED
    BY <2>2, <2>3
<1>9. CASE I!Mutates(p) /\ open = {} /\ I!Created(f) /\ UNCHANGED <<flight, count>>
  <2>1. /\ incidents' \in Seq(IncidentState)
        /\ \A g : g # f => Of(g)' = Of(g) /\ \A j \in Of(g) : incidents'[j] = incidents[j]
        /\ Of(f)' = Of(f) \cup {Len(incidents) + 1} /\ \A j \in Of(f) : incidents'[j] = incidents[j]
    BY <1>2, <1>9, CreatedAdds
  <2>2. ReportsTyped'
    BY <1>1, <1>5, <1>9, <2>1 DEF ReportsInv, ReportsTyped
  <2>3. \A g : g # f => Quieter(g)
    BY <1>4, <1>9, <2>1 DEF Quieter
  <2>4. ASSUME <<f, 0>> \notin excused
        PROVE  OneIncident(f)'
    BY <1>7, <1>9, <2>1, <2>4 DEF OneIncident
  <2>5. QED
    BY <1>1, <1>3, <2>2, <2>3, <2>4, StepKeeps
<1>10. CASE ~ I!Mutates(p) /\ UNCHANGED <<incidents, flight, count>>
  BY <1>1, <1>10, GivesUpKeeps DEF ReportsInv, ReportsTyped
<1>11. CASE /\ count' = [count EXCEPT !.faults = @ + 1] /\ incidents' = incidents
            /\ flight' = IF open = {} THEN flight \cup {f} ELSE flight
  <2>1. ReportsTyped'
    BY <1>1, <1>2, <1>5, <1>11 DEF ReportsInv, ReportsTyped
  <2>2. \A g : Of(g)' = Of(g)
    BY <1>11 DEF Of
  <2>3. \A g : g # f => Quieter(g)
    BY <1>4, <1>11, <2>2 DEF Quieter
  <2>4. ASSUME <<f, 0>> \notin excused, OneIncident(f)
        PROVE  OneIncident(f)'
    <3>1. f \in flight' => \A k \in Of(f) : ~ incidents[k].open
      BY <1>7, <1>11, <2>4
    <3>2. \A j, k \in Of(f) : incidents[j].open /\ incidents[k].open => j = k
      BY <2>4 DEF OneIncident
    <3>3. QED
      BY <1>7, <1>11, <2>2, <2>4, <3>1, <3>2 DEF OneIncident
  <2>5. QED
    BY <1>1, <1>3, <2>1, <2>3, <2>4, StepKeeps
<1>12. QED
  BY <1>0, <1>1, <1>8, <1>9, <1>10, <1>11 DEF I!Post

(* A creation that timed out comes through, or never does.                  *)
LEMMA LandKeeps ==
  ASSUME ReportsInv, NEW f \in I!Fingerprint, I!Land(f)
  PROVE  ReportsInv'
<1>1. /\ f \in flight /\ flight' = flight \ {f} /\ (I!Created(f) \/ incidents' = incidents)
      /\ UNCHANGED <<files, last, reports, count, excused>>
  BY DEF I!Land
<1>2. \A g, i : Still(g, i)
  BY <1>1 DEF Still, Filed, Writing
<1>3. \A g : \A q \in Reporter : Posting(q, g)' => Posting(q, g) /\ reports'[q].matches = reports[q].matches
  BY <1>1 DEF Posting
<1>4. CASE incidents' = incidents
  <2>1. ReportsTyped'
    BY <1>1, <1>4 DEF ReportsInv, ReportsTyped
  <2>2. \A g : Quieter(g)
    BY <1>1, <1>3, <1>4 DEF Quieter, Of
  <2>3. QED
    BY <1>1, <1>2, <2>1, <2>2, StepKeeps
<1>5. CASE I!Created(f)
  <2>1. /\ incidents' \in Seq(IncidentState)
        /\ \A g : g # f => Of(g)' = Of(g) /\ \A j \in Of(g) : incidents'[j] = incidents[j]
        /\ Of(f)' = Of(f) \cup {Len(incidents) + 1} /\ \A j \in Of(f) : incidents'[j] = incidents[j]
    BY <1>5, CreatedAdds
  <2>2. ReportsTyped'
    BY <1>1, <2>1 DEF ReportsInv, ReportsTyped
  <2>3. \A g : g # f => Quieter(g)
    BY <1>1, <1>3, <2>1 DEF Quieter
  <2>4. ASSUME OneIncident(f)
        PROVE  OneIncident(f)'
    <3>1. (\A k \in Of(f) : ~ incidents[k].open) /\ \A q \in Reporter : ~ Posting(q, f)
      BY <1>1, <2>4 DEF OneIncident
    <3>2. \A q \in Reporter : ~ Posting(q, f)'
      BY <1>3, <3>1
    <3>3. f \notin flight'
      BY <1>1
    <3>4. QED
      BY <2>1, <3>1, <3>2, <3>3 DEF OneIncident
  <2>5. QED
    BY <1>1, <1>2, <2>2, <2>3, <2>4, StepKeeps
<1>6. QED
  BY <1>1, <1>4, <1>5

(* An incident is indexed, or an operator closes it.                        *)
LEMMA EditKeeps ==
  ASSUME ReportsInv, NEW k \in 1 .. Len(incidents), I!Index(k) \/ I!CloseIncident(k)
  PROVE  ReportsInv'
<1>1. incidents[k] \in IncidentState
  BY DEF ReportsInv, ReportsTyped
<1>2. PICK s \in IncidentState :
        /\ s.failure = incidents[k].failure /\ (s.open => incidents[k].open)
        /\ incidents' = [incidents EXCEPT ![k] = s]
  <2>1. CASE I!Index(k)
    <3>1. [incidents[k] EXCEPT !.indexed = TRUE] \in IncidentState
      BY <1>1 DEF IncidentState
    <3>2. QED
      BY <1>1, <2>1, <3>1 DEF I!Index, IncidentState
  <2>2. CASE I!CloseIncident(k)
    <3>1. [incidents[k] EXCEPT !.open = FALSE] \in IncidentState
      BY <1>1 DEF IncidentState
    <3>2. QED
      BY <1>1, <2>2, <3>1 DEF I!CloseIncident, IncidentState
  <2>3. QED
    BY <2>1, <2>2
<1>3. /\ UNCHANGED <<files, last, reports, excused>> /\ flight' = flight
      /\ count' \in [reports : Nat, faults : Nat, closed : Nat]
  BY DEF I!Index, I!CloseIncident, ReportsInv, ReportsTyped
<1>4. /\ incidents' \in Seq(IncidentState)
      /\ \A f : Of(f)' = Of(f) /\ \A j \in Of(f) : incidents'[j].open => incidents[j].open
  BY <1>2, EditedKeeps
<1>5. ReportsTyped'
  BY <1>3, <1>4 DEF ReportsInv, ReportsTyped
<1>6. (\A f : Quieter(f)) /\ \A f, i : Still(f, i)
  BY <1>3, <1>4 DEF Quieter, Posting, Still, Filed, Writing
<1>7. QED
  BY <1>3, <1>5, <1>6, StepKeeps

(* Every step keeps the invariant.                                          *)
LEMMA ReportsStep == ReportsInv /\ [I!Next]_incident => ReportsInv'
<1> SUFFICES ASSUME ReportsInv, [I!Next]_incident PROVE ReportsInv'
  OBVIOUS
<1>1. CASE UNCHANGED incident
  BY <1>1 DEF incident, ReportsInv, ReportsTyped, OneIncident, OneFile, Of, Filed, Posting, Writing
<1>2. ASSUME NEW p \in Reporter, I!SearchFails(p) PROVE ReportsInv'
  <2>1. count' \in [reports : Nat, faults : Nat, closed : Nat]
    BY <1>2 DEF I!SearchFails, ReportsInv, ReportsTyped
  <2>2. QED
    BY <1>2, <2>1, GivesUpKeeps DEF I!SearchFails
<1>3. CASE I!Next
  BY <1>2, <1>3, ReportKeeps, LookKeeps, WriteFileKeeps, WriteLastKeeps, DieKeeps, SearchKeeps, PostKeeps,
     LandKeeps, EditKeeps DEF I!Next
<1>4. QED
  BY <1>1, <1>3

(* The invariant says what the property says.                               *)
LEMMA ReportsOnce == ReportsInv => DuplicatesExplained
<1> SUFFICES ASSUME ReportsInv, NEW f \in I!Fingerprint
    PROVE  /\ <<f, 0>> \notin excused =>
                Cardinality({k \in 1 .. Len(incidents) : incidents[k].failure = f /\ incidents[k].open}) <= 1
           /\ \A i \in Issue : <<f, i>> \notin excused =>
                Cardinality({k \in 1 .. Len(files) : files[k] # I!Torn /\ files[k].failure = f /\ files[k].issue = i}) <= 1
  BY Counts DEF DuplicatesExplained, I!DuplicatesExplained
<1>1. Len(incidents) \in Nat /\ Len(files) \in Nat
  BY DEF ReportsInv, ReportsTyped
<1>2. ASSUME <<f, 0>> \notin excused
      PROVE  Cardinality({k \in 1 .. Len(incidents) : incidents[k].failure = f /\ incidents[k].open}) <= 1
  <2> DEFINE X == {k \in 1 .. Len(incidents) : incidents[k].failure = f /\ incidents[k].open}
  <2>1. \A j, k \in X : j = k
    BY <1>2 DEF ReportsInv, OneIncident, Of
  <2>2. X \in SUBSET (1 .. Len(incidents))
    OBVIOUS
  <2> HIDE DEF X
  <2>3. Cardinality(X) <= 1
    BY <1>1, <2>1, <2>2, AtMostOne
  <2>4. QED
    BY <2>3 DEF X
<1>3. ASSUME NEW i \in Issue, <<f, i>> \notin excused
      PROVE  Cardinality({k \in 1 .. Len(files) : files[k] # I!Torn /\ files[k].failure = f /\ files[k].issue = i}) <= 1
  <2>1. \A j, k \in Filed(f, i) : j = k
    BY <1>3 DEF ReportsInv, OneFile
  <2>2. Filed(f, i) \in SUBSET (1 .. Len(files))
    BY DEF Filed
  <2>3. Cardinality(Filed(f, i)) <= 1
    BY <1>1, <2>1, <2>2, AtMostOne
  <2>4. QED
    BY <2>3 DEF Filed
<1>4. QED
  BY <1>2, <1>3

(* A failure has one open incident upstream and one file for each issue it  *)
(* struck, unless reports of it were at the same step at once or a search   *)
(* came too early: persistIncidentBundle and publishIncidentToGithub, for   *)
(* any reporters, failures and issues, whatever calls fail or are cut short *)
(* and whoever closes incidents.                                            *)
THEOREM ReportedOnce == EitherSpec => []DuplicatesExplained
<1>1. EitherInit => ReportsInv
  BY ReportsBegin DEF EitherInit
<1>2. ReportsInv /\ [EitherNext]_allVars => ReportsInv'
  BY ReportsStep, IncidentSteps
<1>3. QED
  BY <1>1, <1>2, ReportsOnce, PTL DEF EitherSpec

-----------------------------------------------------------------------------
(* The tools of a candidate.                                                *)

USE DEF G!Content, G!Criterion, G!Mechanical, G!External, G!Level, G!HighRisk, G!Limit, G!MaxEdits, G!MaxCommits, G!MaxKills

Key == {"authority_reconciliation", "terminal_transition"} \X Nat

CommitCall ==
  [at : {"commit", "record"}, paths : SUBSET (G!Workflow \cup {"src"}), bookkeeping : BOOLEAN, keys : SUBSET Key,
   archive : BOOLEAN, auth : Nat]

ToolsTyped ==
  /\ setting \in Setting
  /\ issue \in [fp : Nat, criteria : SUBSET G!Criterion]
  /\ work \in G!Content /\ tip \in [number : Nat, sources : G!Content]
  /\ report # G!None => report.auth \in Nat
  /\ quality # G!None => "fresh" \in DOMAIN quality
  /\ tool.at \in {"commit", "record"} => tool \in CommitCall
  /\ telemetry \in [count : Nat, keys : SUBSET Key]
  /\ ghost \in [met : SUBSET (G!Content \X Nat), gated : SUBSET G!Content, reviewed : SUBSET G!Content,
                spent : Nat, keys : SUBSET Key, killed : Nat]

(* What a request of these sources, verified for this state of the issue,   *)
(* rests on.                                                                *)
Met(sources, auth) ==
  <<sources, auth>> \in ghost.met /\ (G!HighRisk => sources \in ghost.reviewed)
Gated(evidence) ==
  evidence # G!None /\ "full" \in evidence.fresh => evidence.fp[2] \in ghost.gated

(* Evidence is of the contents it names; the call that takes it finds the   *)
(* sources as they were; an archive that is being committed has passed the  *)
(* gates and adds no sources.                                               *)
ToolsGated ==
  /\ Gated(quality)
  /\ tool.at = "quality" => tool.before = G!Fingerprint /\ Gated(tool.prior)
  /\ tool.at = "verify" /\ tool.live # G!None =>
       tool.live.fp \in Nat /\ (G!HighRisk => tip.sources \in ghost.reviewed)
  /\ report.status = "PASS" =>
       <<report.fp[2], report.auth>> \in ghost.met /\ (G!HighRisk => report.fp[1] \in ghost.reviewed)
  /\ tool.at \in {"commit", "record"} /\ tool.archive =>
       "src" \notin tool.paths /\ Met(tip.sources, tool.auth) /\ tip.sources \in ghost.gated
  /\ tool.at = "request" => Met(tip.sources, tool.auth) /\ tip.sources \in ghost.gated
  /\ request # G!NoRequest =>
       Met(request.sources, request.auth) /\ (request.archive => request.sources \in ghost.gated)

(* A commit is made under the budget and counted later, unless it is killed *)
(* before.                                                                  *)
Uncounted == IF tool.at = "record" /\ tool.bookkeeping THEN 1 ELSE 0

Budgeted ==
  /\ IsFiniteSet(ghost.keys) /\ telemetry.keys \subseteq ghost.keys
  /\ telemetry.count <= G!Limit + Cardinality(telemetry.keys)
  /\ ghost.spent <= telemetry.count + ghost.killed + Uncounted
  /\ tool.at \in {"commit", "record"} =>
       IsFiniteSet(tool.keys) /\ (tool.bookkeeping => G!Allowed(tool.keys))
  /\ tool.at = "record" /\ tool.bookkeeping => tool.keys \subseteq ghost.keys

ToolsInv == ToolsTyped /\ ToolsGated /\ Budgeted

(* A step of the system is one of a candidate's tools, or does not touch it.*)
LEMMA CandidateSteps == [EitherNext]_allVars => [G!Next]_candidate
  BY DEF EitherNext, allVars, candidate

(* What the setting is.                                                     *)
LEMMA SettingTyped ==
  ASSUME setting \in Setting
  PROVE  /\ G!Limit \in Nat /\ G!MaxEdits \in Nat /\ G!MaxCommits \in Nat /\ G!MaxKills \in Nat
         /\ G!Content # {} /\ G!HighRisk \in BOOLEAN /\ G!Unverified \in Nat
         /\ G!Mechanical \cap G!External = {}
  BY ToolsAssumption DEF G!CandidateAssumption, G!SettingOK, G!Unverified

(* Every candidate begins with the invariant.                               *)
LEMMA ToolsBegin == G!Init => ToolsInv
<1> SUFFICES ASSUME G!Init PROVE ToolsInv
  OBVIOUS
<1>1. work \in G!Content
  BY SettingTyped DEF G!Init
<1>2. IsFiniteSet({}) /\ Cardinality({}) = 0
  BY FS_EmptySet
<1>3. /\ tool.at = "idle" /\ report = G!None /\ quality = G!None /\ request = G!NoRequest /\ report.status = "none"
      /\ telemetry = [count |-> 0, keys |-> {}]
      /\ ghost = [met |-> {}, gated |-> {}, reviewed |-> {}, spent |-> 0, keys |-> {}, killed |-> 0]
  BY DEF G!Init, G!Idle, G!None
<1>4. ToolsTyped
  BY <1>1, <1>3 DEF G!Init, ToolsTyped
<1>5. ToolsGated
  BY <1>3 DEF ToolsGated, Gated
<1>6. Budgeted
  BY <1>2, <1>3, <1>4, SettingTyped DEF Budgeted, Uncounted, ToolsTyped
<1>7. QED
  BY <1>4, <1>5, <1>6 DEF ToolsInv

(* What the quality gate leaves: evidence of what it names.                 *)
LEMMA QualityKeeps ==
  ASSUME ToolsInv, G!QualityEnds, UNCHANGED setting
  PROVE  ToolsInv'
<1>1. /\ tool.at = "quality" /\ tool' = G!Idle /\ G!Idle.at = "idle" /\ UNCHANGED <<issue, tip, report, telemetry, request>>
      /\ tool.before = <<tip.sources, work>> /\ Gated(tool.prior)
  BY DEF G!QualityEnds, G!Idle, ToolsInv, ToolsGated, G!Fingerprint, G!FingerprintOf
<1>2. PICK passed \in BOOLEAN, c \in G!Content :
        /\ work' = c /\ quality' = G!Evidence(passed, <<tip.sources, c>>)
        /\ \/ ghost' = ghost /\ passed = TRUE /\ c = work /\ G!Reusable(tool.prior, tool.before, tool.level)
           \/ ghost' = IF passed /\ tool.level = "full" /\ c = work
                       THEN [ghost EXCEPT !.gated = @ \cup {c}] ELSE ghost
  <2>1. CASE G!Reusable(tool.prior, tool.before, tool.level)
    BY <2>1 DEF G!QualityEnds, G!Fingerprint, G!FingerprintOf, ToolsInv, ToolsTyped
  <2>2. CASE ~ G!Reusable(tool.prior, tool.before, tool.level)
    BY <2>2 DEF G!QualityEnds, G!FingerprintOf
  <2>3. QED
    BY <2>1, <2>2
<1>3. /\ ghost'.met = ghost.met /\ ghost'.reviewed = ghost.reviewed /\ ghost'.keys = ghost.keys
      /\ ghost'.spent = ghost.spent /\ ghost'.killed = ghost.killed /\ ghost.gated \subseteq ghost'.gated
      /\ passed /\ tool.level = "full" /\ c = work => c \in ghost'.gated \/ G!Reusable(tool.prior, tool.before, "full")
  BY <1>2 DEF ToolsInv, ToolsTyped
<1>4. ToolsTyped'
  BY <1>1, <1>2 DEF ToolsInv, ToolsTyped, G!Evidence
<1>5. Gated(quality)'
  <2> DEFINE e == G!Evidence(passed, <<tip.sources, c>>)
  <2>1. e # G!None /\ e.fp = <<tip.sources, c>>
    BY DEF G!Evidence, G!None
  <2>2. ASSUME "full" \in e.fresh PROVE c \in ghost'.gated
    <3>1. c = work
      BY <1>1, <2>2 DEF G!Evidence
    <3>2. \/ passed /\ tool.level = "full"
          \/ tool.prior # G!None /\ tool.prior.fp = tool.before /\ "full" \in tool.prior.fresh
      BY <2>2 DEF G!Evidence, G!Kept
    <3>3. QED
      BY <1>1, <1>3, <3>1, <3>2 DEF G!Reusable, Gated
  <2>3. QED
    BY <1>2, <2>1, <2>2 DEF Gated
<1>6. ToolsGated'
  BY <1>1, <1>3, <1>5 DEF ToolsInv, ToolsGated, Met
<1>7. Budgeted'
  BY <1>1, <1>3 DEF ToolsInv, Budgeted, Uncounted
<1>8. QED
  BY <1>4, <1>6, <1>7 DEF ToolsInv

(* The verification report: who passes has found every criterion met.       *)
LEMMA VerifyKeeps ==
  ASSUME ToolsInv, G!VerifyEnds, UNCHANGED setting
  PROVE  ToolsInv'
<1>1. /\ tool.at = "verify" /\ tool' = G!Idle /\ G!Idle.at = "idle" /\ UNCHANGED <<issue, tip, quality, telemetry, request>>
  BY DEF G!VerifyEnds, G!Idle
<1> DEFINE Found(review) == [k \in tool.checks |-> G!Verdict(k, review[k])]
           missing == G!Missing(tool.live, tool.checks)
           Told(review) == G!Status(tool.live, tool.checks, {Found(review)[k] : k \in tool.checks})
<1>2. PICK review \in [tool.checks -> {"none", "fail", "pass"}], c \in G!Content :
        /\ work' = c
        /\ report' = [status |-> Told(review), disposition |-> G!Disposition(Told(review), missing),
                      mismatch |-> missing # {}, fp |-> <<tip.sources, c>>,
                      auth |-> IF tool.live = G!None THEN G!Unverified ELSE tool.live.fp]
        /\ ghost' = IF tool.live # G!None /\ tool.live.criteria \subseteq {k \in tool.checks : Found(review)[k] = "PASS"}
                    THEN [ghost EXCEPT !.met = @ \cup {<<c, tool.live.fp>>}] ELSE ghost
  BY DEF G!VerifyEnds, G!FingerprintOf
<1>3. report'.status = Told(review) /\ report'.fp = <<tip.sources, c>> /\ report'.auth =
        (IF tool.live = G!None THEN G!Unverified ELSE tool.live.fp)
  BY <1>2
<1>4. tool.live # G!None => tool.live.fp \in Nat /\ (G!HighRisk => tip.sources \in ghost.reviewed)
  BY <1>1 DEF ToolsInv, ToolsGated
<1>5. /\ ghost.met \subseteq ghost'.met /\ ghost'.reviewed = ghost.reviewed /\ ghost'.keys = ghost.keys
      /\ ghost'.spent = ghost.spent /\ ghost'.killed = ghost.killed /\ ghost'.gated = ghost.gated
  BY <1>2 DEF ToolsInv, ToolsTyped
<1>6. ToolsTyped'
  <2>1. <<c, tool.live.fp>> \in G!Content \X Nat \/ tool.live = G!None
    BY <1>4
  <2>2. ghost' \in [met : SUBSET (G!Content \X Nat), gated : SUBSET G!Content, reviewed : SUBSET G!Content,
                    spent : Nat, keys : SUBSET Key, killed : Nat]
    BY <1>2, <2>1 DEF ToolsInv, ToolsTyped
  <2>3. report'.auth \in Nat
    BY <1>3, <1>4, SettingTyped DEF ToolsInv, ToolsTyped
  <2>4. QED
    BY <1>1, <1>2, <2>2, <2>3 DEF ToolsInv, ToolsTyped
<1>7. ASSUME Told(review) = "PASS"
      PROVE  tool.live # G!None /\ <<c, tool.live.fp>> \in ghost'.met
  <2>1. /\ missing = {} /\ tool.live # G!None
        /\ \A k \in tool.checks : Found(review)[k] \notin {"FAIL", "EXTERNAL", "UNPROVEN"}
    BY <1>7 DEF G!Status
  <2>2. \A k \in tool.checks : Found(review)[k] = "PASS"
    BY <2>1 DEF G!Verdict
  <2>3. tool.live.criteria \subseteq tool.checks
    BY <2>1 DEF G!Missing
  <2>4. ghost' = [ghost EXCEPT !.met = @ \cup {<<c, tool.live.fp>>}]
    BY <1>2, <2>1, <2>2, <2>3
  <2>5. QED
    BY <2>1, <2>4 DEF ToolsInv, ToolsTyped
<1> HIDE DEF Found, missing, Told
<1>8. report'.status = "PASS" =>
       <<report'.fp[2], report'.auth>> \in ghost'.met /\ (G!HighRisk => report'.fp[1] \in ghost'.reviewed)
  BY <1>3, <1>4, <1>5, <1>7
<1>9. ToolsGated'
  BY <1>1, <1>5, <1>8 DEF ToolsInv, ToolsGated, Gated, Met
<1>10. Budgeted'
  BY <1>1, <1>5 DEF ToolsInv, Budgeted, Uncounted
<1>11. QED
  BY <1>6, <1>9, <1>10 DEF ToolsInv

(* The issue, the sources or the plan are edited, evidence ages.            *)
LEMMA EditsKeep ==
  ASSUME ToolsInv, UNCHANGED setting, G!EditIssue \/ G!EditSource \/ G!EditPlan \/ G!Ages
  PROVE  ToolsInv'
<1>1. CASE G!EditIssue
  BY <1>1, SettingTyped DEF G!EditIssue, ToolsInv, ToolsTyped, ToolsGated, Gated, Met, G!Fingerprint, G!FingerprintOf,
     Budgeted, Uncounted, G!Allowed
<1>2. CASE G!EditSource
  BY <1>2 DEF G!EditSource, G!Idle, ToolsInv, ToolsTyped, ToolsGated, Gated, Met, Budgeted, Uncounted
<1>3. CASE G!EditPlan
  BY <1>3 DEF G!EditPlan, G!Idle, ToolsInv, ToolsTyped, ToolsGated, Gated, Met, Budgeted, Uncounted
<1>4. CASE G!Ages
  <2>1. quality' # G!None => "full" \notin quality'.fresh /\ "fresh" \in DOMAIN quality'
    BY <1>4 DEF G!Ages, ToolsInv, ToolsTyped
  <2>2. QED
    BY <1>4, <2>1 DEF G!Ages, ToolsInv, ToolsTyped, ToolsGated, Gated, Met, G!Fingerprint, G!FingerprintOf,
       Budgeted, Uncounted, G!Allowed
<1>5. QED
  BY <1>1, <1>2, <1>3, <1>4

(* A call is cut short: a commit that was made stays uncounted.             *)
LEMMA KillKeeps ==
  ASSUME ToolsInv, UNCHANGED setting, G!Kill
  PROVE  ToolsInv'
<1>1. /\ tool' = G!Idle /\ G!Idle.at = "idle" /\ ghost' = [ghost EXCEPT !.killed = @ + 1]
      /\ UNCHANGED <<issue, work, tip, quality, report, telemetry, request>>
  BY DEF G!Kill, G!Idle
<1>2. ToolsTyped'
  BY <1>1 DEF ToolsInv, ToolsTyped
<1>3. /\ ghost'.met = ghost.met /\ ghost'.reviewed = ghost.reviewed /\ ghost'.keys = ghost.keys
      /\ ghost'.spent = ghost.spent /\ ghost'.killed = ghost.killed + 1 /\ ghost'.gated = ghost.gated
      /\ ghost.spent \in Nat /\ ghost.killed \in Nat /\ telemetry.count \in Nat
  BY <1>1 DEF ToolsInv, ToolsTyped
<1>4. ToolsGated'
  BY <1>1, <1>3 DEF ToolsInv, ToolsGated, Gated, Met
<1>5. Budgeted'
  <2>1. ghost.spent <= telemetry.count + ghost.killed + 1
    BY <1>3 DEF ToolsInv, Budgeted, Uncounted
  <2>2. ghost'.spent <= telemetry'.count + ghost'.killed + Uncounted'
    BY <1>1, <1>3, <2>1 DEF Uncounted
  <2>3. QED
    BY <1>1, <1>3, <2>2 DEF ToolsInv, Budgeted
<1>6. QED
  BY <1>2, <1>4, <1>5 DEF ToolsInv

(* A call begins that commits nothing.                                      *)
LEMMA CallKeeps ==
  ASSUME ToolsInv, UNCHANGED setting, G!Quality \/ G!Verify
  PROVE  ToolsInv'
<1>1. CASE G!Quality
  <2>1. PICK level \in G!Level :
          tool' = [at |-> "quality", level |-> level, before |-> G!Fingerprint, prior |-> quality]
    BY <1>1 DEF G!Quality
  <2>2. tool'.at = "quality" /\ tool'.before = G!Fingerprint /\ tool'.prior = quality /\ tool.at = "idle"
    BY <1>1, <2>1 DEF G!Quality, G!Idle
  <2>3. QED
    BY <1>1, <2>2 DEF G!Quality, ToolsInv, ToolsTyped, ToolsGated, Gated, Met, G!Fingerprint, G!FingerprintOf,
       Budgeted, Uncounted
<1>2. CASE G!Verify
  <2>1. PICK live \in {G!Live, G!None} :
          tool' = [at |-> "verify", checks |-> plan.criteria, live |-> live] /\ ghost' = G!Reviewed(live)
    BY <1>2 DEF G!Verify
  <2>2. /\ tool'.at = "verify" /\ tool'.live = live /\ tool.at = "idle"
        /\ UNCHANGED <<issue, work, tip, quality, report, telemetry, request>>
    BY <1>2, <2>1 DEF G!Verify, G!Idle
  <2>3. live # G!None => live.fp \in Nat
    BY DEF G!Live, ToolsInv, ToolsTyped
  <2>4. ToolsTyped'
    BY <2>1, <2>2 DEF G!Reviewed, ToolsInv, ToolsTyped
  <2>5. /\ ghost'.met = ghost.met /\ ghost.reviewed \subseteq ghost'.reviewed /\ ghost'.keys = ghost.keys
        /\ ghost'.spent = ghost.spent /\ ghost'.killed = ghost.killed /\ ghost'.gated = ghost.gated
        /\ live # G!None /\ G!HighRisk => tip.sources \in ghost'.reviewed
    BY <2>1 DEF G!Reviewed, ToolsInv, ToolsTyped
  <2>6. ToolsGated'
    BY <2>2, <2>3, <2>5 DEF ToolsInv, ToolsGated, Gated, Met
  <2>7. Budgeted'
    BY <2>2, <2>5 DEF ToolsInv, Budgeted, Uncounted
  <2>8. QED
    BY <2>4, <2>6, <2>7 DEF ToolsInv
<1>3. QED
  BY <1>1, <1>2

(* A commit or an archive begins with a call that is allowed.               *)
LEMMA CommitBegins ==
  ASSUME ToolsInv, UNCHANGED setting, tool = G!Idle,
         UNCHANGED <<issue, work, tip, quality, report, telemetry, request, ghost>>,
         NEW paths \in SUBSET (G!Workflow \cup {"src"}), NEW bookkeeping \in BOOLEAN,
         NEW keys \in SUBSET Key, NEW archive \in BOOLEAN, NEW auth \in Nat,
         tool' = [at |-> "commit", paths |-> paths, bookkeeping |-> bookkeeping,
                  keys |-> keys, archive |-> archive, auth |-> auth],
         IsFiniteSet(keys), bookkeeping => G!Allowed(keys),
         archive => "src" \notin paths /\ Met(tip.sources, auth) /\ tip.sources \in ghost.gated
  PROVE  ToolsInv'
<1>1. /\ tool'.at = "commit" /\ tool'.paths = paths /\ tool'.bookkeeping = bookkeeping /\ tool'.keys = keys
      /\ tool'.archive = archive /\ tool'.auth = auth
  OBVIOUS
<1>2. ToolsTyped'
  BY DEF ToolsInv, ToolsTyped, CommitCall
<1>3. ToolsGated'
  BY <1>1 DEF ToolsInv, ToolsGated, Gated, Met
<1>4. Budgeted'
  BY <1>1 DEF ToolsInv, Budgeted, Uncounted, G!Allowed, G!Idle
<1>5. QED
  BY <1>2, <1>3, <1>4 DEF ToolsInv

(* The keys of a correction are few.                                        *)
LEMMA OneKey ==
  ASSUME NEW k \in Key
  PROVE  {k} \in SUBSET Key /\ IsFiniteSet({k}) /\ IsFiniteSet({})
  BY FS_Singleton, FS_EmptySet

(* pi_next_git commit begins.                                               *)
LEMMA CommitKeeps ==
  ASSUME ToolsInv, UNCHANGED setting, G!Commit
  PROVE  ToolsInv'
<1>1. PICK paths \in SUBSET (G!Workflow \cup {"src"}) :
        /\ IF G!Bookkeeping(paths) THEN G!Allowed(G!Correction(paths)) ELSE G!Correction(paths) = {}
        /\ tool' = [at |-> "commit", paths |-> paths \cap G!Changed, bookkeeping |-> G!Bookkeeping(paths),
                    keys |-> G!Correction(paths), archive |-> FALSE, auth |-> G!Unverified]
  BY DEF G!Commit
<1>2. G!Correction(paths) \in SUBSET Key /\ IsFiniteSet(G!Correction(paths))
  <2>1. CASE G!Correction(paths) = {}
    BY <2>1, FS_EmptySet
  <2>2. CASE G!Correction(paths) # {}
    <3>1. G!Correction(paths) = {<<"authority_reconciliation", report.auth>>} /\ report.status = "FAIL"
      BY <2>2 DEF G!Correction
    <3>2. <<"authority_reconciliation", report.auth>> \in Key
      BY <3>1 DEF ToolsInv, ToolsTyped, Key, G!None
    <3>3. QED
      BY <3>1, <3>2, OneKey
  <2>3. QED
    BY <2>1, <2>2
<1>3. G!Bookkeeping(paths) \in BOOLEAN
  BY DEF G!Bookkeeping
<1>4. tool = G!Idle /\ UNCHANGED <<issue, work, tip, quality, report, telemetry, request, ghost>>
  BY DEF G!Commit
<1>5. G!Unverified \in Nat /\ paths \cap G!Changed \in SUBSET (G!Workflow \cup {"src"})
  BY SettingTyped DEF ToolsInv, ToolsTyped
<1>6. QED
  BY <1>1, <1>2, <1>3, <1>4, <1>5, CommitBegins

(* pi_next_update archive begins: what it requires has passed the gates.    *)
LEMMA ArchiveKeeps ==
  ASSUME ToolsInv, UNCHANGED setting, G!Archive
  PROVE  ToolsInv'
<1>1. /\ tool = G!Idle /\ UNCHANGED <<issue, work, tip, quality, report, telemetry, request, ghost>>
      /\ G!ArchiveReady
      /\ tool' = IF G!Allowed({<<"terminal_transition", issue.fp>>})
                 THEN [at |-> "commit", paths |-> {"PLAN", "HISTORY"}, bookkeeping |-> TRUE,
                       keys |-> {<<"terminal_transition", issue.fp>>}, archive |-> TRUE, auth |-> issue.fp]
                 ELSE G!Idle
  BY DEF G!Archive
<1>2. Met(tip.sources, issue.fp) /\ tip.sources \in ghost.gated
  <2>1. /\ report.status = "PASS" /\ report.auth = issue.fp /\ report.fp = <<tip.sources, work>> /\ tip.sources = work
        /\ quality # G!None /\ quality.fp = <<tip.sources, work>> /\ "full" \in quality.fresh
    BY <1>1 DEF G!ArchiveReady, G!Clean, G!Current, G!Fingerprint, G!FingerprintOf
  <2>2. QED
    BY <2>1 DEF ToolsInv, ToolsGated, Gated, Met
<1>3. <<"terminal_transition", issue.fp>> \in Key
  BY DEF Key, ToolsInv, ToolsTyped
<1>4. CASE G!Allowed({<<"terminal_transition", issue.fp>>})
  <2>1. issue.fp \in Nat /\ {"PLAN", "HISTORY"} \in SUBSET (G!Workflow \cup {"src"}) /\ "src" \notin {"PLAN", "HISTORY"}
    BY DEF ToolsInv, ToolsTyped, G!Workflow
  <2>2. QED
    BY <1>1, <1>2, <1>3, <1>4, <2>1, OneKey, CommitBegins
<1>5. CASE ~ G!Allowed({<<"terminal_transition", issue.fp>>})
  BY <1>1, <1>5 DEF ToolsInv, ToolsTyped, ToolsGated, Gated, Met, G!Idle, Budgeted, Uncounted
<1>6. QED
  BY <1>4, <1>5

(* A set that lacks a key of a finite one has fewer.                        *)
LEMMA FewerKeys ==
  ASSUME NEW T, IsFiniteSet(T), NEW S \in SUBSET T, NEW x \in T, x \notin S
  PROVE  Cardinality(S) + 1 <= Cardinality(T) /\ IsFiniteSet(S) /\ Cardinality(S) \in Nat
<1>1. IsFiniteSet(S) /\ Cardinality(S) \in Nat
  BY FS_Subset, FS_CardinalityType
<1>2. IsFiniteSet(S \cup {x}) /\ Cardinality(S \cup {x}) = Cardinality(S) + 1
  BY <1>1, FS_AddElement
<1>3. S \cup {x} \in SUBSET T
  OBVIOUS
<1>4. Cardinality(S \cup {x}) <= Cardinality(T)
  BY <1>3, FS_Subset
<1>5. QED
  BY <1>1, <1>2, <1>4

(* The commit is made.                                                      *)
LEMMA CommittedKeeps ==
  ASSUME ToolsInv, UNCHANGED setting, G!Committed
  PROVE  ToolsInv'
<1>1. /\ tool.at = "commit" /\ tip' = G!After(tool.paths) /\ tool' = [tool EXCEPT !.at = "record"]
      /\ ghost' = IF tool.bookkeeping THEN [ghost EXCEPT !.spent = @ + 1, !.keys = @ \cup tool.keys] ELSE ghost
      /\ UNCHANGED <<issue, work, quality, report, telemetry, request>>
  BY DEF G!Committed
<1>2. /\ tool \in CommitCall
      /\ tool' \in CommitCall /\ tool'.at = "record" /\ tool'.paths = tool.paths /\ tool'.bookkeeping = tool.bookkeeping
      /\ tool'.keys = tool.keys /\ tool'.archive = tool.archive /\ tool'.auth = tool.auth
  <2>1. tool \in CommitCall
    BY <1>1 DEF ToolsInv, ToolsTyped
  <2>2. QED
    BY <1>1, <2>1 DEF CommitCall
<1>3. /\ ghost'.met = ghost.met /\ ghost'.reviewed = ghost.reviewed /\ ghost'.killed = ghost.killed
      /\ ghost'.gated = ghost.gated
      /\ ghost'.keys = (IF tool.bookkeeping THEN ghost.keys \cup tool.keys ELSE ghost.keys)
      /\ ghost'.spent = (IF tool.bookkeeping THEN ghost.spent + 1 ELSE ghost.spent)
  BY <1>1 DEF ToolsInv, ToolsTyped
<1>4. tip' \in [number : Nat, sources : G!Content] /\ ("src" \notin tool.paths => tip'.sources = tip.sources)
  BY <1>1 DEF G!After, ToolsInv, ToolsTyped
<1>5. ToolsTyped'
  <2>1. ghost' \in [met : SUBSET (G!Content \X Nat), gated : SUBSET G!Content, reviewed : SUBSET G!Content,
                    spent : Nat, keys : SUBSET Key, killed : Nat]
    <3>1. tool.keys \in SUBSET Key
      BY <1>2 DEF CommitCall
    <3>2. ghost \in [met : SUBSET (G!Content \X Nat), gated : SUBSET G!Content, reviewed : SUBSET G!Content,
                    spent : Nat, keys : SUBSET Key, killed : Nat]
      BY DEF ToolsInv, ToolsTyped
    <3>3. CASE ~ tool.bookkeeping
      BY <1>1, <3>2, <3>3
    <3>4. CASE tool.bookkeeping
      <4> DEFINE more == ghost.keys \cup tool.keys
      <4>1. more \in SUBSET Key
        BY <3>1, <3>2
      <4>2. PICK n : n = ghost.spent + 1
        OBVIOUS
      <4>3. ghost' = [ghost EXCEPT !.spent = n, !.keys = more] /\ n \in Nat
        BY <1>1, <3>2, <3>4, <4>2
      <4> HIDE DEF more
      <4>4. QED
        BY <3>2, <4>1, <4>3
    <3>5. QED
      BY <3>3, <3>4
  <2>2. QED
    BY <1>1, <1>2, <1>4, <2>1 DEF ToolsInv, ToolsTyped
<1>6. ToolsGated'
  BY <1>1, <1>2, <1>3, <1>4 DEF ToolsInv, ToolsGated, Gated, Met
<1>7. Budgeted'
  <2>1. /\ IsFiniteSet(ghost'.keys) /\ ghost.keys \subseteq ghost'.keys
        /\ (tool.bookkeeping => tool.keys \subseteq ghost'.keys)
    <3>1. IsFiniteSet(ghost.keys) /\ IsFiniteSet(tool.keys)
      BY <1>1 DEF ToolsInv, Budgeted
    <3>2. IsFiniteSet(ghost.keys \cup tool.keys)
      BY <3>1, FS_Union
    <3>3. QED
      BY <1>3, <3>1, <3>2
  <2>2. ghost'.spent <= telemetry'.count + ghost'.killed + Uncounted'
    <3>1. Uncounted = 0 /\ Uncounted' = IF tool.bookkeeping THEN 1 ELSE 0
      BY <1>1, <1>2 DEF Uncounted
    <3>2. /\ ghost.spent \in Nat /\ ghost.killed \in Nat /\ telemetry.count \in Nat
          /\ ghost.spent <= telemetry.count + ghost.killed + Uncounted
      BY DEF ToolsInv, ToolsTyped, Budgeted
    <3>3. QED
      BY <1>1, <1>3, <3>1, <3>2
  <2>3. IsFiniteSet(tool.keys) /\ (tool.bookkeeping => G!Allowed(tool.keys)')
    BY <1>1 DEF ToolsInv, Budgeted, G!Allowed
  <2>4. QED
    BY <1>1, <1>2, <2>1, <2>2, <2>3 DEF ToolsInv, Budgeted, G!Allowed
<1>8. QED
  BY <1>5, <1>6, <1>7 DEF ToolsInv

(* The commit is counted.                                                   *)
LEMMA RecordKeeps ==
  ASSUME ToolsInv, UNCHANGED setting, G!Record
  PROVE  ToolsInv'
<1>1. /\ tool.at = "record" /\ tool \in CommitCall
      /\ telemetry' = IF tool.bookkeeping
                      THEN [count |-> telemetry.count + 1, keys |-> telemetry.keys \cup tool.keys] ELSE telemetry
      /\ tool' = IF tool.archive THEN [at |-> "request", auth |-> tool.auth] ELSE G!Idle
      /\ UNCHANGED <<issue, work, tip, quality, report, request, ghost>>
  BY DEF G!Record, ToolsInv, ToolsTyped
<1>2. /\ tool'.at \notin {"quality", "verify", "commit", "record"}
      /\ (tool'.at = "request" => tool.archive /\ tool'.auth = tool.auth)
  BY <1>1 DEF G!Idle
<1>3. ToolsTyped'
  BY <1>1, <1>2 DEF CommitCall, ToolsInv, ToolsTyped
<1>4. ToolsGated'
  BY <1>1, <1>2 DEF ToolsInv, ToolsGated, Gated, Met
<1>5. Budgeted'
  <2>1. CASE ~ tool.bookkeeping
    BY <1>1, <1>2, <2>1 DEF ToolsInv, Budgeted, Uncounted
  <2>2. CASE tool.bookkeeping
    <3>1. telemetry'.count = telemetry.count + 1 /\ telemetry'.keys = telemetry.keys \cup tool.keys
      BY <1>1, <2>2
    <3>2. /\ IsFiniteSet(ghost.keys) /\ telemetry.keys \subseteq ghost.keys /\ tool.keys \subseteq ghost.keys
          /\ telemetry.count <= G!Limit + Cardinality(telemetry.keys) /\ G!Allowed(tool.keys)
          /\ ghost.spent <= telemetry.count + ghost.killed + 1
      BY <1>1, <2>2 DEF ToolsInv, Budgeted, Uncounted
    <3>3. /\ ghost.spent \in Nat /\ ghost.killed \in Nat /\ telemetry.count \in Nat /\ G!Limit \in Nat
      BY SettingTyped DEF ToolsInv, ToolsTyped
    <3>4. IsFiniteSet(telemetry'.keys) /\ telemetry'.keys \subseteq ghost.keys
      BY <3>1, <3>2, FS_Subset
    <3>5. /\ Cardinality(telemetry.keys) \in Nat /\ Cardinality(telemetry'.keys) \in Nat
          /\ Cardinality(telemetry.keys) <= Cardinality(telemetry'.keys)
      BY <3>1, <3>4, FS_Subset, FS_CardinalityType
    <3>6. telemetry'.count <= G!Limit + Cardinality(telemetry'.keys)
      <4>1. CASE telemetry.count < G!Limit
        BY <3>1, <3>3, <3>5, <4>1
      <4>2. CASE tool.keys # {} /\ tool.keys \cap telemetry.keys = {}
        <5>1. PICK x : x \in tool.keys /\ x \notin telemetry.keys
          BY <4>2
        <5>2. Cardinality(telemetry.keys) + 1 <= Cardinality(telemetry'.keys)
          BY <3>1, <3>4, <5>1, FewerKeys
        <5>3. QED
          BY <3>1, <3>2, <3>3, <3>5, <5>2
      <4>3. QED
        BY <3>2, <4>1, <4>2 DEF G!Allowed
    <3>7. ghost'.spent <= telemetry'.count + ghost'.killed + Uncounted'
      BY <1>1, <1>2, <3>1, <3>2, <3>3 DEF Uncounted
    <3>8. QED
      BY <1>1, <1>2, <3>2, <3>4, <3>6, <3>7 DEF Budgeted
  <2>3. QED
    BY <2>1, <2>2
<1>6. QED
  BY <1>3, <1>4, <1>5 DEF ToolsInv

(* A commit is refused; a checkpoint is made; a promotion or the archive's  *)
(* finalization is requested; the controller resolves the request.          *)
LEMMA RequestsKeep ==
  ASSUME ToolsInv, UNCHANGED setting,
         G!Refused \/ G!Checkpoint \/ G!Promote \/ G!RequestArchive \/ G!Finalize
  PROVE  ToolsInv'
<1>1. CASE G!Refused
  BY <1>1 DEF G!Refused, G!Idle, ToolsInv, ToolsTyped, ToolsGated, Gated, Met, Budgeted, Uncounted
<1>2. CASE G!Checkpoint
  <2>1. tip' \in [number : Nat, sources : G!Content]
    BY <1>2 DEF G!Checkpoint, G!After, ToolsInv, ToolsTyped
  <2>2. QED
    BY <1>2, <2>1 DEF G!Checkpoint, G!Idle, ToolsInv, ToolsTyped, ToolsGated, Gated, Met, Budgeted, Uncounted
<1>3. CASE G!Promote
  <2>1. /\ report.status = "PASS" /\ report.fp = <<tip.sources, work>> /\ tip.sources = work
        /\ request' = [sources |-> tip.sources, hash |-> "full", auth |-> report.auth, archive |-> FALSE]
    BY <1>3 DEF G!Promote, G!Clean, G!Current, G!Fingerprint, G!FingerprintOf, G!Requested
  <2>2. Met(request'.sources, request'.auth) /\ ~ request'.archive
    BY <2>1 DEF ToolsInv, ToolsGated, Met
  <2>3. QED
    BY <1>3, <2>2 DEF G!Promote, G!Idle, ToolsInv, ToolsTyped, ToolsGated, Gated, Met, Budgeted, Uncounted
<1>4. CASE G!RequestArchive
  <2>1. /\ tool.at = "request"
        /\ request' = [sources |-> tip.sources, hash |-> G!ArchiveHash, auth |-> tool.auth, archive |-> TRUE]
    BY <1>4 DEF G!RequestArchive, G!Requested
  <2>2. Met(request'.sources, request'.auth) /\ request'.sources \in ghost.gated
    BY <2>1 DEF ToolsInv, ToolsGated, Met
  <2>3. QED
    BY <1>4, <2>1, <2>2 DEF G!RequestArchive, G!Idle, ToolsInv, ToolsTyped, ToolsGated, Gated, Met, Budgeted, Uncounted
<1>5. CASE G!Finalize
  BY <1>5 DEF G!Finalize, G!Idle, ToolsInv, ToolsTyped, ToolsGated, Gated, Met, Budgeted, Uncounted
<1>6. QED
  BY <1>1, <1>2, <1>3, <1>4, <1>5

(* Every step keeps the invariant.                                          *)
LEMMA ToolsStep == ToolsInv /\ [G!Next]_candidate => ToolsInv'
<1> SUFFICES ASSUME ToolsInv, [G!Next]_candidate PROVE ToolsInv'
  OBVIOUS
<1>1. CASE UNCHANGED candidate
  BY <1>1 DEF candidate, ToolsInv, ToolsTyped, ToolsGated, Gated, Met, G!Fingerprint, G!FingerprintOf,
     Budgeted, Uncounted, G!Allowed
<1>2. CASE G!Next
  BY <1>2, EditsKeep, KillKeeps, CallKeeps, QualityKeeps, VerifyKeeps, CommitKeeps, CommittedKeeps, RecordKeeps,
     ArchiveKeeps, RequestsKeep DEF G!Next
<1>3. QED
  BY <1>1, <1>2

(* The invariant says what the property says.                               *)
LEMMA GatesPassed == ToolsInv => RequestProven
<1> SUFFICES ASSUME ToolsInv PROVE RequestProven
  OBVIOUS
<1>1. G!RequestProven
  BY DEF ToolsInv, ToolsGated, Met, G!RequestProven
<1>2. ghost.spent <= G!Limit + Cardinality(ghost.keys) + ghost.killed
  <2>1. /\ ghost.spent \in Nat /\ ghost.killed \in Nat /\ telemetry.count \in Nat /\ G!Limit \in Nat
    BY SettingTyped DEF ToolsInv, ToolsTyped
  <2>2. /\ IsFiniteSet(ghost.keys) /\ telemetry.keys \subseteq ghost.keys
        /\ telemetry.count <= G!Limit + Cardinality(telemetry.keys)
        /\ ghost.spent <= telemetry.count + ghost.killed + Uncounted
    BY DEF ToolsInv, Budgeted
  <2>3. /\ Cardinality(telemetry.keys) \in Nat /\ Cardinality(ghost.keys) \in Nat
        /\ Cardinality(telemetry.keys) <= Cardinality(ghost.keys)
    BY <2>2, FS_Subset, FS_CardinalityType
  <2>4. CASE Uncounted = 0
    BY <2>1, <2>2, <2>3, <2>4
  <2>5. CASE Uncounted = 1
    <3>1. telemetry.count + 1 <= G!Limit + Cardinality(ghost.keys)
      <4>1. tool.at = "record" /\ tool.bookkeeping
        BY <2>5 DEF Uncounted
      <4>2. G!Allowed(tool.keys) /\ tool.keys \subseteq ghost.keys
        BY <4>1 DEF ToolsInv, Budgeted
      <4>3. CASE telemetry.count < G!Limit
        BY <2>1, <2>3, <4>3
      <4>4. CASE tool.keys # {} /\ tool.keys \cap telemetry.keys = {}
        <5>1. PICK x : x \in tool.keys /\ x \notin telemetry.keys
          BY <4>4
        <5>2. Cardinality(telemetry.keys) + 1 <= Cardinality(ghost.keys)
          BY <2>2, <4>2, <5>1, FewerKeys
        <5>3. QED
          BY <2>1, <2>2, <2>3, <5>2
      <4>5. QED
        BY <4>2, <4>3, <4>4 DEF G!Allowed
    <3>2. QED
      BY <2>1, <2>2, <2>3, <2>5, <3>1
  <2>6. QED
    BY <2>4, <2>5 DEF Uncounted
<1>3. G!BudgetKept
  BY <1>2 DEF G!BudgetKept, G!Cardinality, Cardinality, G!IsFiniteSet, IsFiniteSet
<1>4. QED
  BY <1>1, <1>3 DEF RequestProven

(* Whatever order the tools are called in, and whatever changes while they  *)
(* run, a promotion request names sources that a verification found to meet *)
(* every criterion of that state of the issue, that were reviewed if the    *)
(* risk calls for it and, for an archive, that the full quality gate passed *)
(* (tools-check.ts, checkpoint.ts, commit-safety.ts); and bookkeeping       *)
(* commits are bounded (workflow-commit-policy.ts): for any contents,       *)
(* criteria and limits.                                                     *)
THEOREM RequestsAreProven == EitherSpec => []RequestProven
<1>1. EitherInit => ToolsInv
  BY ToolsBegin DEF EitherInit
<1>2. ToolsInv /\ [EitherNext]_allVars => ToolsInv'
  BY ToolsStep, CandidateSteps
<1>3. QED
  BY <1>1, <1>2, GatesPassed, PTL DEF EitherSpec

-----------------------------------------------------------------------------
(* The panel of workers.                                                    *)

HIDE ToolsAssumption

Known == [kind : {"assistant", "tool"}, summary : D!Summary] \cup {D!NoKey}
Rows(S) == UNION {[T -> D!Row] : T \in SUBSET S}

PanelTyped ==
  /\ worker \in [D!Worker -> [began : Nat, on : BOOLEAN, last : Known, events : Nat]]
  /\ rows \in Rows(D!Worker) /\ timers \subseteq D!Worker /\ view \subseteq D!Worker /\ shownOnce \subseteq D!Worker
  /\ {heartbeat, scheduled, disposed, attached, controller} \subseteq BOOLEAN
  /\ painted \in [rows : Rows(D!Worker), controller : BOOLEAN] /\ errors \in Nat

(* A timer is that of a settled row.                                        *)
TimersSettled == \A w \in timers : w \in DOMAIN rows /\ rows[w].status = "settled"

(* A worker at work that was heard of has a row that does not call it ended. *)
AtWork == ~ disposed => \A w \in shownOnce : worker[w].on => w \in DOMAIN rows /\ rows[w].status # "settled"

(* Rows have a heartbeat, and nothing is left of a disposed panel.          *)
Beats ==
  /\ ~ disposed /\ DOMAIN rows # {} => heartbeat
  /\ disposed => ~ heartbeat /\ timers = {} /\ (errors = 0 => painted = D!Nothing)

(* What is painted, when nothing is left to paint.                          *)
Painted ==
  errors = 0 /\ ~ disposed /\ ~ scheduled /\ attached =>
    /\ DOMAIN rows = {} => painted = [rows |-> <<>>, controller |-> controller]
    /\ \A w \in DOMAIN painted.rows : w \in DOMAIN rows /\ painted.rows[w] = rows[w]

PanelInv == PanelTyped /\ TimersSettled /\ AtWork /\ Beats /\ Painted

LEMMA PanelSteps == [EitherNext]_allVars => [D!Next]_display
BY DEF EitherNext, allVars

(* Rows are functions; without rows they are the empty one.                 *)
LEMMA EmptyIs ==
  ASSUME NEW S, NEW T, NEW f \in [T -> S]
  PROVE  T = {} <=> f = <<>>
<1>1. <<>> \in [{} -> S]
  <2>1. <<>> \in Seq(S) /\ Len(<<>>) = 0
    BY EmptySeq
  <2>2. 1 .. 0 = {}
    OBVIOUS
  <2>3. QED
    BY <2>1, <2>2, LenProperties
<1>2. DOMAIN f = T /\ DOMAIN <<>> = {}
  BY <1>1
<1>3. T = {} => f = <<>>
  BY <1>1
<1>4. QED
  BY <1>2, <1>3

LEMMA RowsAre ==
  ASSUME NEW S
  PROVE  /\ \A f \in Rows(S) : f \in [DOMAIN f -> D!Row] /\ DOMAIN f \subseteq S /\ (DOMAIN f = {} <=> f = <<>>)
         /\ \A T \in SUBSET S : [T -> D!Row] \subseteq Rows(S)
         /\ <<>> \in Rows(S)
<1>1. \A f \in Rows(S) : f \in [DOMAIN f -> D!Row] /\ DOMAIN f \subseteq S
  BY DEF Rows
<1>2. \A f \in Rows(S) : DOMAIN f = {} <=> f = <<>>
  BY <1>1, EmptyIs
<1>3. \A T \in SUBSET S : [T -> D!Row] \subseteq Rows(S)
  BY DEF Rows
<1>4. <<>> \in Rows(S)
  <2>1. [x \in {} |-> [status |-> "running", text |-> FALSE]] \in [{} -> D!Row]
    OBVIOUS
  <2>2. [x \in {} |-> [status |-> "running", text |-> FALSE]] = <<>>
    BY <2>1, EmptyIs
  <2>3. QED
    BY <1>3, <2>1, <2>2
<1>5. QED
  BY <1>1, <1>2, <1>3, <1>4

LEMMA PanelBegin == D!Init => PanelInv
<1> SUFFICES ASSUME D!Init PROVE PanelInv
  OBVIOUS
<1>1. rows \in Rows(D!Worker) /\ rows = <<>> /\ DOMAIN rows = {} /\ painted = [rows |-> <<>>, controller |-> FALSE]
  BY RowsAre DEF D!Init, D!Nothing
<1>2. PanelTyped
  <2>1. D!NoKey \in Known
    BY DEF Known
  <2>2. D!Quiet \in [began : Nat, on : BOOLEAN, last : Known, events : Nat]
    BY <2>1 DEF D!Quiet
  <2>3. worker \in [D!Worker -> [began : Nat, on : BOOLEAN, last : Known, events : Nat]]
    BY <2>2 DEF D!Init
  <2>4. view \subseteq D!Worker /\ timers \subseteq D!Worker /\ shownOnce \subseteq D!Worker /\ errors \in Nat
    BY DEF D!Init
  <2>5. {heartbeat, scheduled, disposed, attached, controller} \subseteq BOOLEAN
    BY DEF D!Init
  <2>6. painted \in [rows : Rows(D!Worker), controller : BOOLEAN]
    BY <1>1
  <2>7. QED
    BY <1>1, <2>3, <2>4, <2>5, <2>6 DEF PanelTyped
<1>3. TimersSettled /\ AtWork /\ Beats /\ Painted
  BY <1>1 DEF D!Init, TimersSettled, AtWork, Beats, Painted
<1>4. QED
  BY <1>2, <1>3 DEF PanelInv

LEMMA PanelStays ==
  ASSUME UNCHANGED panel
  PROVE  D!Worker' = D!Worker /\ D!Summary' = D!Summary /\ Rows(D!Worker)' = Rows(D!Worker) /\ Known' = Known
BY DEF D!Worker, D!Summary, D!Row, Rows, Known, D!NoKey

(* A row put, or taken out.                                                 *)
LEMMA PutIs ==
  ASSUME PanelTyped, NEW w \in D!Worker, NEW row \in D!Row
  PROVE  /\ D!Put(w, row) \in Rows(D!Worker) /\ DOMAIN D!Put(w, row) = DOMAIN rows \cup {w}
         /\ \A v \in DOMAIN rows \cup {w} : D!Put(w, row)[v] = IF v = w THEN row ELSE rows[v]
<1>1. rows \in [DOMAIN rows -> D!Row] /\ DOMAIN rows \subseteq D!Worker
  BY RowsAre DEF PanelTyped
<1>2. D!Put(w, row) \in [DOMAIN rows \cup {w} -> D!Row]
  BY <1>1 DEF D!Put
<1>3. DOMAIN rows \cup {w} \in SUBSET D!Worker
  BY <1>1
<1>4. D!Put(w, row) \in Rows(D!Worker)
  BY <1>2, <1>3, RowsAre
<1>5. /\ DOMAIN D!Put(w, row) = DOMAIN rows \cup {w}
      /\ \A v \in DOMAIN rows \cup {w} : D!Put(w, row)[v] = IF v = w THEN row ELSE rows[v]
  BY DEF D!Put
<1>6. QED
  BY <1>4, <1>5

LEMMA RowIs ==
  ASSUME PanelTyped, NEW w
  PROVE  D!Ensured(w) \in D!Row /\ (w \in DOMAIN rows => rows[w] \in D!Row)
BY RowsAre DEF PanelTyped, D!Ensured, D!Row

(* A worker shows something.                                                *)
LEMMA ShowsKeeps ==
  ASSUME PanelInv, UNCHANGED panel, ~ disposed, NEW w \in D!Worker, worker[w].on, NEW t \in BOOLEAN,
         D!Shows(w, [status |-> "running", text |-> t]),
         worker' \in [D!Worker -> [began : Nat, on : BOOLEAN, last : Known, events : Nat]],
         \A v \in D!Worker : worker'[v].on = worker[v].on
  PROVE  PanelInv'
<1> DEFINE row == [status |-> "running", text |-> t]
<1>1. row \in D!Row /\ row.status = "running"
  BY DEF D!Row
<1>2. /\ rows' = D!Put(w, row) /\ timers' = timers \ {w}
      /\ heartbeat' = (heartbeat \/ w \notin DOMAIN rows) /\ controller' = FALSE /\ scheduled' = TRUE
      /\ shownOnce' = shownOnce \cup {w} /\ UNCHANGED <<disposed, attached, view, painted, errors>>
  BY DEF D!Shows, D!Revived
<1> HIDE DEF row
<1>3. /\ rows' \in Rows(D!Worker) /\ DOMAIN rows' = DOMAIN rows \cup {w}
      /\ \A v \in DOMAIN rows' : rows'[v] = IF v = w THEN row ELSE rows[v]
  <2>1. PanelTyped
    BY DEF PanelInv
  <2>2. /\ D!Put(w, row) \in Rows(D!Worker) /\ DOMAIN D!Put(w, row) = DOMAIN rows \cup {w}
        /\ \A v \in DOMAIN rows \cup {w} : D!Put(w, row)[v] = IF v = w THEN row ELSE rows[v]
    BY <1>1, <2>1, PutIs
  <2>3. rows' = D!Put(w, row)
    BY <1>2
  <2>4. QED
    BY <2>2, <2>3
<1>4. PanelTyped'
  BY <1>2, <1>3, PanelStays DEF PanelInv, PanelTyped
<1>5. TimersSettled'
  BY <1>2, <1>3 DEF PanelInv, TimersSettled
<1>6. AtWork'
  <2>1. SUFFICES ASSUME NEW v \in shownOnce', worker'[v].on PROVE v \in DOMAIN rows' /\ rows'[v].status # "settled"
    BY DEF AtWork
  <2>2. CASE v = w
    BY <1>1, <1>3, <2>2
  <2>3. CASE v # w
    <3>1. v \in shownOnce /\ v \in D!Worker
      BY <1>2, <2>3 DEF PanelInv, PanelTyped
    <3>2. QED
      BY <1>3, <2>1, <2>3, <3>1 DEF PanelInv, AtWork
  <2>4. QED
    BY <2>2, <2>3
<1>7. Beats' /\ Painted'
  BY <1>2, <1>3 DEF PanelInv, Beats, Painted
<1>8. QED
  BY <1>4, <1>5, <1>6, <1>7 DEF PanelInv

LEMMA ActivityKeeps ==
  ASSUME PanelInv, UNCHANGED panel, NEW w \in D!Worker, D!LiveDelta(w) \/ D!Activity(w)
  PROVE  PanelInv'
<1>1. CASE D!LiveDelta(w)
  <2>1. worker' = worker
    BY <1>1 DEF D!LiveDelta
  <2>2. worker' \in [D!Worker -> [began : Nat, on : BOOLEAN, last : Known, events : Nat]]
    BY <2>1 DEF PanelInv, PanelTyped
  <2>3. QED
    BY <1>1, <2>1, <2>2, ShowsKeeps DEF D!LiveDelta
<1>2. CASE D!Activity(w)
  <2>1. PICK key \in [kind : {"assistant", "tool"}, summary : D!Summary] :
          /\ worker[w].on /\ ~ disposed
          /\ worker' = [worker EXCEPT ![w].last = key, ![w].events = @ + 1]
          /\ D!Shows(w, [status |-> "running", text |-> D!Ensured(w).text /\ key.kind # "assistant"])
    BY <1>2 DEF D!Activity
  <2>2. PICK t \in BOOLEAN : t = (D!Ensured(w).text /\ key.kind # "assistant")
    OBVIOUS
  <2>3. key \in Known
    BY DEF Known
  <2>4. /\ worker' \in [D!Worker -> [began : Nat, on : BOOLEAN, last : Known, events : Nat]]
        /\ \A v \in D!Worker : worker'[v].on = worker[v].on
    BY <2>1, <2>3 DEF PanelInv, PanelTyped
  <2>5. QED
    BY <2>1, <2>2, <2>4, ShowsKeeps
<1>3. QED
  BY <1>1, <1>2

LEMMA AttemptBegins ==
  ASSUME PanelInv, UNCHANGED panel, NEW w \in D!Worker, D!Begin(w)
  PROVE  PanelInv'
<1>1. /\ worker' = [worker EXCEPT ![w] = [D!Quiet EXCEPT !.began = worker[w].began + 1, !.on = TRUE]]
      /\ shownOnce' = shownOnce \ {w}
      /\ UNCHANGED <<rows, timers, heartbeat, scheduled, disposed, attached, controller, view, painted, errors>>
  <2>1. UNCHANGED <<rows, timers, heartbeat, scheduled, disposed, attached, controller, view, painted, errors>>
    BY DEF D!Begin
  <2>2. QED
    BY <2>1 DEF D!Begin
<1>2. worker[w].began \in Nat
  BY DEF PanelInv, PanelTyped
<1>3. [D!Quiet EXCEPT !.began = worker[w].began + 1, !.on = TRUE] \in [began : Nat, on : BOOLEAN, last : Known, events : Nat]
  <2>1. PICK k \in Known : k = D!NoKey
    BY DEF Known
  <2>2. PICK q : q = D!Quiet
    OBVIOUS
  <2>3. q = [began |-> 0, on |-> FALSE, last |-> k, events |-> 0]
    BY <2>1, <2>2 DEF D!Quiet
  <2>4. q \in [began : Nat, on : BOOLEAN, last : Known, events : Nat]
    BY <2>3
  <2>5. PICK n \in Nat : n = worker[w].began + 1
    BY <1>2
  <2>6. [q EXCEPT !.began = n, !.on = TRUE] \in [began : Nat, on : BOOLEAN, last : Known, events : Nat]
    BY <2>4
  <2>7. QED
    BY <2>2, <2>5, <2>6
<1>4. /\ worker' \in [D!Worker -> [began : Nat, on : BOOLEAN, last : Known, events : Nat]]
      /\ \A v \in D!Worker \ {w} : worker'[v] = worker[v]
  BY <1>1, <1>3 DEF PanelInv, PanelTyped
<1>5. PanelTyped'
  BY <1>1, <1>4, PanelStays DEF PanelInv, PanelTyped
<1>6. AtWork'
  BY <1>1, <1>4 DEF PanelInv, PanelTyped, AtWork
<1>7. TimersSettled' /\ Beats' /\ Painted'
  <2>1. TimersSettled /\ Beats /\ Painted
    BY DEF PanelInv
  <2>2. UNCHANGED <<rows, timers, heartbeat, scheduled, disposed, attached, controller, view, painted, errors>>
    BY <1>1
  <2>3. QED
    BY <2>1, <2>2 DEF TimersSettled, Beats, Painted
<1>8. QED
  BY <1>5, <1>6, <1>7 DEF PanelInv

LEMMA WatchdogKeeps ==
  ASSUME PanelInv, UNCHANGED panel, NEW w \in D!Worker, D!Watchdog(w)
  PROVE  PanelInv'
<1>0. [D!Ensured(w) EXCEPT !.status = "stalled"] \in D!Row
  BY RowIs DEF PanelInv, D!Row
<1>1. PICK row \in D!Row : row = [D!Ensured(w) EXCEPT !.status = "stalled"] /\ row.status = "stalled"
  BY <1>0, RowIs DEF PanelInv, D!Row
<1>2. /\ ~ disposed /\ w \notin timers /\ rows' = D!Put(w, row)
      /\ heartbeat' = (heartbeat \/ w \notin DOMAIN rows) /\ controller' = FALSE /\ scheduled' = TRUE
      /\ UNCHANGED <<worker, timers, disposed, attached, view, painted, errors, shownOnce>>
  BY <1>1 DEF D!Watchdog
<1>3. /\ rows' \in Rows(D!Worker) /\ DOMAIN rows' = DOMAIN rows \cup {w}
      /\ \A v \in DOMAIN rows' : rows'[v] = IF v = w THEN row ELSE rows[v]
  <2>1. /\ D!Put(w, row) \in Rows(D!Worker) /\ DOMAIN D!Put(w, row) = DOMAIN rows \cup {w}
        /\ \A v \in DOMAIN rows \cup {w} : D!Put(w, row)[v] = IF v = w THEN row ELSE rows[v]
    BY PutIs DEF PanelInv
  <2>2. QED
    BY <1>2, <2>1
<1>4. PanelTyped'
  BY <1>2, <1>3, PanelStays DEF PanelInv, PanelTyped
<1>5. TimersSettled'
  BY <1>2, <1>3 DEF PanelInv, TimersSettled
<1>6. AtWork'
  BY <1>1, <1>2, <1>3 DEF PanelInv, AtWork
<1>7. Beats' /\ Painted'
  BY <1>2, <1>3 DEF PanelInv, Beats, Painted
<1>8. QED
  BY <1>4, <1>5, <1>6, <1>7 DEF PanelInv

LEMMA FinishKeeps ==
  ASSUME PanelInv, UNCHANGED panel, NEW w \in D!Worker, D!Finish(w)
  PROVE  PanelInv'
<1>1. /\ worker' = [worker EXCEPT ![w].on = FALSE]
      /\ UNCHANGED <<heartbeat, disposed, attached, controller, view, painted, errors, shownOnce>>
  BY DEF D!Finish
<1>2. /\ worker' \in [D!Worker -> [began : Nat, on : BOOLEAN, last : Known, events : Nat]]
      /\ ~ worker'[w].on /\ \A v \in D!Worker \ {w} : worker'[v] = worker[v]
  BY <1>1 DEF PanelInv, PanelTyped
<1>3. CASE disposed \/ w \notin DOMAIN rows
  <2>1. UNCHANGED <<rows, timers, scheduled>>
    BY <1>3 DEF D!Finish
  <2>2. PanelTyped'
    BY <1>1, <1>2, <2>1, PanelStays DEF PanelInv, PanelTyped
  <2>3. AtWork'
    BY <1>1, <1>2, <2>1 DEF PanelInv, PanelTyped, AtWork
  <2>4. TimersSettled' /\ Beats' /\ Painted'
    BY <1>1, <2>1 DEF PanelInv, TimersSettled, Beats, Painted
  <2>5. QED
    BY <2>2, <2>3, <2>4 DEF PanelInv
<1>4. CASE ~ disposed /\ w \in DOMAIN rows
  <2> DEFINE row == [status |-> "settled", text |-> FALSE]
  <2>1. row \in D!Row /\ row.status = "settled"
    BY DEF D!Row
  <2>2. rows' = D!Put(w, row) /\ timers' = timers \cup {w} /\ scheduled' = TRUE
    BY <1>4 DEF D!Finish
  <2> HIDE DEF row
  <2>3. /\ rows' \in Rows(D!Worker) /\ DOMAIN rows' = DOMAIN rows \cup {w}
        /\ \A v \in DOMAIN rows' : rows'[v] = IF v = w THEN row ELSE rows[v]
    BY <2>1, <2>2, PutIs DEF PanelInv
  <2>4. PanelTyped'
    BY <1>1, <1>2, <2>2, <2>3, PanelStays DEF PanelInv, PanelTyped
  <2>5. TimersSettled'
    BY <2>1, <2>2, <2>3 DEF PanelInv, TimersSettled
  <2>6. AtWork'
    BY <1>1, <1>2, <2>3 DEF PanelInv, PanelTyped, AtWork
  <2>7. Beats' /\ Painted'
    BY <1>1, <1>4, <2>2, <2>3 DEF PanelInv, Beats, Painted
  <2>8. QED
    BY <2>4, <2>5, <2>6, <2>7 DEF PanelInv
<1>5. QED
  BY <1>3, <1>4

LEMMA RetireKeeps ==
  ASSUME PanelInv, UNCHANGED panel, NEW w \in D!Worker, D!Retire(w)
  PROVE  PanelInv'
<1>1. /\ w \in timers /\ timers' = timers \ {w} /\ rows' = D!Without(w) /\ scheduled' = TRUE
      /\ UNCHANGED <<worker, heartbeat, disposed, attached, controller, view, painted, errors, shownOnce>>
  BY DEF D!Retire
<1>2. rows \in [DOMAIN rows -> D!Row] /\ DOMAIN rows \subseteq D!Worker
  BY RowsAre DEF PanelInv, PanelTyped
<1>3. rows' \in [DOMAIN rows \ {w} -> D!Row] /\ DOMAIN rows \ {w} \in SUBSET D!Worker
  BY <1>1, <1>2 DEF D!Without
<1>4. rows' \in Rows(D!Worker)
  BY <1>3, RowsAre
<1>5. DOMAIN rows' = DOMAIN rows \ {w} /\ \A v \in DOMAIN rows' : rows'[v] = rows[v]
  BY <1>1 DEF D!Without
<1>6. rows[w].status = "settled"
  BY <1>1 DEF PanelInv, TimersSettled
<1>7. PanelTyped'
  BY <1>1, <1>4, PanelStays DEF PanelInv, PanelTyped
<1>8. TimersSettled' /\ AtWork'
  BY <1>1, <1>5, <1>6 DEF PanelInv, TimersSettled, AtWork
<1>9. Beats' /\ Painted'
  BY <1>1, <1>5 DEF PanelInv, Beats, Painted
<1>10. QED
  BY <1>7, <1>8, <1>9 DEF PanelInv

LEMMA DrawnIs ==
  ASSUME PanelInv
  PROVE  /\ D!Lines \in [rows : Rows(D!Worker), controller : BOOLEAN]
         /\ DOMAIN D!Lines.rows = DOMAIN rows \cap view /\ \A w \in DOMAIN D!Lines.rows : D!Lines.rows[w] = rows[w]
         /\ (DOMAIN rows = {} => D!Lines = [rows |-> <<>>, controller |-> controller])
<1>1. rows \in [DOMAIN rows -> D!Row] /\ DOMAIN rows \subseteq D!Worker /\ controller \in BOOLEAN
  BY RowsAre DEF PanelInv, PanelTyped
<1> DEFINE seen == [w \in DOMAIN rows \cap view |-> rows[w]]
<1>2. seen \in [DOMAIN rows \cap view -> D!Row] /\ DOMAIN rows \cap view \in SUBSET D!Worker
  BY <1>1
<1>3. seen \in Rows(D!Worker)
  BY <1>2, RowsAre
<1>4. DOMAIN seen = DOMAIN rows \cap view /\ \A w \in DOMAIN seen : seen[w] = rows[w]
  OBVIOUS
<1>5. DOMAIN rows = {} => seen = <<>>
  BY <1>3, <1>4, RowsAre
<1>6. D!Lines = [rows |-> seen, controller |-> controller /\ DOMAIN rows \cap view = {}]
  BY DEF D!Lines, D!Visible
<1> HIDE DEF seen
<1>7. (controller /\ DOMAIN rows \cap view = {}) \in BOOLEAN
  OBVIOUS
<1>8. DOMAIN rows = {} => D!Lines = [rows |-> <<>>, controller |-> controller]
  BY <1>1, <1>5, <1>6
<1>9. QED
  BY <1>3, <1>4, <1>6, <1>7, <1>8

LEMMA FlushKeeps ==
  ASSUME PanelInv, UNCHANGED panel, D!Flush
  PROVE  PanelInv'
<1>1. /\ scheduled /\ ~ scheduled' /\ heartbeat' = (heartbeat /\ (disposed \/ DOMAIN rows # {}))
      /\ UNCHANGED <<worker, rows, timers, disposed, attached, controller, view, shownOnce>>
  BY DEF D!Flush
<1>2. \/ /\ UNCHANGED <<painted, errors>>
         /\ ~ attached \/ disposed \/ (D!Lines = D!Nothing /\ painted = D!Nothing)
      \/ painted' = D!Lines /\ ~ disposed /\ UNCHANGED errors
      \/ errors' = errors + 1 /\ UNCHANGED painted
  BY DEF D!Flush
<1>3. errors' \in Nat /\ (errors' = 0 => errors = 0 /\ errors' = errors)
  BY <1>2 DEF PanelInv, PanelTyped
<1>4. painted' \in [rows : Rows(D!Worker), controller : BOOLEAN]
  BY <1>2, DrawnIs DEF PanelInv, PanelTyped
<1>5. PanelTyped'
  <2>1. {heartbeat', scheduled'} \subseteq BOOLEAN
    <3>1. scheduled' = FALSE
      BY DEF D!Flush
    <3>2. QED
      BY <1>1, <3>1
  <2>2. QED
    BY <1>1, <1>3, <1>4, <2>1, PanelStays DEF PanelInv, PanelTyped
<1>6. TimersSettled' /\ AtWork'
  BY <1>1 DEF PanelInv, TimersSettled, AtWork
<1>7. Beats'
  BY <1>1, <1>2, <1>3 DEF PanelInv, Beats
<1>8. Painted'
  <2>1. SUFFICES ASSUME errors' = 0, ~ disposed, attached
                 PROVE  /\ DOMAIN rows = {} => painted' = [rows |-> <<>>, controller |-> controller]
                        /\ \A w \in DOMAIN painted'.rows : w \in DOMAIN rows /\ painted'.rows[w] = rows[w]
    BY <1>1 DEF Painted
  <2>2. painted' = D!Lines
    BY <1>2, <1>3, <2>1
  <2>3. DOMAIN rows = {} => D!Lines = [rows |-> <<>>, controller |-> controller]
    BY DrawnIs
  <2>4. DOMAIN D!Lines.rows = DOMAIN rows \cap view
    BY DrawnIs
  <2>5. \A w \in DOMAIN D!Lines.rows : D!Lines.rows[w] = rows[w]
    BY DrawnIs
  <2>6. QED
    BY <2>2, <2>3, <2>4, <2>5
<1>9. QED
  BY <1>5, <1>6, <1>7, <1>8 DEF PanelInv

LEMMA DisposeKeeps ==
  ASSUME PanelInv, UNCHANGED panel, D!Dispose
  PROVE  PanelInv'
<1>1. /\ disposed' = TRUE /\ heartbeat' = FALSE /\ timers' = {} /\ rows' = <<>> /\ attached' = FALSE /\ controller' = FALSE
      /\ UNCHANGED <<worker, scheduled, view, shownOnce>>
      /\ (painted' = D!Nothing /\ UNCHANGED errors) \/ (errors' = errors + 1 /\ UNCHANGED painted)
  BY DEF D!Dispose
<1>2. errors' \in Nat /\ (errors' = 0 => painted' = D!Nothing)
  BY <1>1 DEF PanelInv, PanelTyped
<1>3. <<>> \in Rows(D!Worker) /\ D!Nothing \in [rows : Rows(D!Worker), controller : BOOLEAN]
  BY RowsAre DEF D!Nothing
<1>4. PanelTyped'
  BY <1>1, <1>2, <1>3, PanelStays DEF PanelInv, PanelTyped
<1>5. QED
  BY <1>1, <1>2, <1>4 DEF PanelInv, TimersSettled, AtWork, Beats, Painted

LEMMA HostKeeps ==
  ASSUME PanelInv, UNCHANGED panel, D!Attach \/ D!ControllerActivity \/ D!Tick \/ D!SetView
  PROVE  PanelInv'
<1>1. UNCHANGED <<worker, rows, timers, heartbeat, disposed, painted, errors, shownOnce>>
  BY DEF D!Attach, D!ControllerActivity, D!Tick, D!SetView
<1>2. /\ {scheduled', attached', controller'} \subseteq BOOLEAN /\ view' \subseteq D!Worker
      /\ scheduled' = TRUE \/ UNCHANGED <<scheduled, attached, controller>>
  <2>1. {scheduled, attached, controller} \subseteq BOOLEAN /\ view \subseteq D!Worker
    BY DEF PanelInv, PanelTyped
  <2>2. CASE D!Attach
    BY <2>1, <2>2 DEF D!Attach
  <2>3. CASE D!ControllerActivity
    BY <2>1, <2>3 DEF D!ControllerActivity
  <2>4. CASE D!Tick
    BY <2>1, <2>4 DEF D!Tick
  <2>5. CASE D!SetView
    BY <2>1, <2>5 DEF D!SetView
  <2>6. QED
    BY <2>2, <2>3, <2>4, <2>5
<1>3. PanelTyped'
  BY <1>1, <1>2, PanelStays DEF PanelInv, PanelTyped
<1>4. TimersSettled' /\ AtWork' /\ Beats' /\ Painted'
  BY <1>1, <1>2 DEF PanelInv, TimersSettled, AtWork, Beats, Painted
<1>5. QED
  BY <1>3, <1>4 DEF PanelInv

LEMMA PanelStep ==
  ASSUME PanelInv, [D!Next]_display
  PROVE  PanelInv'
<1>1. CASE D!Next
  <2>1. D!Step /\ UNCHANGED panel
    BY <1>1 DEF D!Next
  <2>2. CASE D!Attach \/ D!ControllerActivity \/ D!Tick \/ D!SetView
    BY <2>1, <2>2, HostKeeps
  <2>3. CASE D!Flush
    BY <2>1, <2>3, FlushKeeps
  <2>4. CASE D!Dispose
    BY <2>1, <2>4, DisposeKeeps
  <2>5. ASSUME NEW w \in D!Worker, D!Begin(w) PROVE PanelInv'
    BY <2>1, <2>5, AttemptBegins
  <2>6. ASSUME NEW w \in D!Worker, D!LiveDelta(w) \/ D!Activity(w) PROVE PanelInv'
    BY <2>1, <2>6, ActivityKeeps
  <2>7. ASSUME NEW w \in D!Worker, D!Watchdog(w) PROVE PanelInv'
    BY <2>1, <2>7, WatchdogKeeps
  <2>8. ASSUME NEW w \in D!Worker, D!Finish(w) PROVE PanelInv'
    BY <2>1, <2>8, FinishKeeps
  <2>9. ASSUME NEW w \in D!Worker, D!Retire(w) PROVE PanelInv'
    BY <2>1, <2>9, RetireKeeps
  <2>10. QED
    BY <2>1, <2>2, <2>3, <2>4, <2>5, <2>6, <2>7, <2>8, <2>9 DEF D!Step
<1>2. CASE UNCHANGED display
  <2>1. PanelTyped'
    BY <1>2, PanelStays DEF display, PanelInv, PanelTyped
  <2>2. TimersSettled' /\ AtWork' /\ Beats' /\ Painted'
    BY <1>2 DEF display, PanelInv, TimersSettled, AtWork, Beats, Painted
  <2>3. QED
    BY <2>1, <2>2 DEF PanelInv
<1>3. QED
  BY <1>1, <1>2

LEMMA PanelTells == PanelInv => D!PanelTrue
<1> SUFFICES ASSUME PanelInv, errors = 0 PROVE D!PanelTrue
  BY DEF D!PanelTrue
<1>1. rows = <<>> <=> DOMAIN rows = {}
  BY RowsAre DEF PanelInv, PanelTyped
<1>2. [D!Nothing EXCEPT !.controller = controller] = [rows |-> <<>>, controller |-> controller]
  BY DEF D!Nothing
<1>3. QED
  BY <1>1, <1>2 DEF PanelInv, AtWork, Beats, Painted, D!PanelTrue

-----------------------------------------------------------------------------
(* The footer.  Of a process with one command, an auto command of which the *)
(* binding follows the session.                                             *)

HIDE JournalAssumption

IsSeq(q) == \E S : q \in Seq(S)

BindingFields == {"of", "instance", "run", "owner", "file", "target", "text", "active"}

(* What the first command and its binding are while it has the process for  *)
(* itself: the last session owns the binding and knows its context.         *)
Held(w) ==
  LET c == w.command[1]
      b == w.bindings[1]
      live == Len(w.opened)
      s == w.opened[live] IN
  /\ Len(w.command) = 1 /\ IsSeq(w.bindings) /\ Len(w.bindings) = 1 /\ DOMAIN b = BindingFields
  /\ b.of = 1 /\ b.instance = w.instance /\ b.active = TRUE /\ b.run = c.run
  /\ b.owner = s /\ b.file = s /\ w.contexts[s] = live
  /\ c.context \in 1 .. live /\ c.run \in Run \cup {F!None} /\ c.beat \in {F!None, c.run}
  /\ c.run = F!None => c.context = live /\ \A q \in Session : w.bound[q] = F!None
  /\ c.run # F!None => w.bound[s] = c.run

(* What it is once it was painted.                                          *)
Holds(w) == Held(w) /\ w.command[1].first = FALSE /\ (w.command[1].run # F!None => w.bindings[1].text # "none")

Leaves(b) ==
  leaving # F!Staying => leaving.session \in Session /\ b.target = IF leaving.told THEN leaving.session ELSE Elsewhere

(* Other runs are of other processes.                                       *)
Apart(r) == \A q \in Run : state[q].status # "none" => q = r \/ state[q].session = Elsewhere

Lone == command[1].auto /\ ~ command[1].strayed /\ command[1].instance = instance /\ Apart(command[1].run)

Working == command[1].at = "working" => command[1].run # F!None /\ state[command[1].run].status = "running"

Following == Len(command) = 1 /\ Lone /\ command[1].at # "ended" => Holds(F!Memory) /\ Leaves(bindings[1]) /\ Working

(* Before the first command.                                                *)
Before ==
  Len(command) = 0 /\ Apart(F!None) =>
    /\ bindings = <<>> /\ \A q \in Session : bound[q] = F!None
    /\ contexts[opened[Len(opened)]] = Len(opened)
    /\ \A q \in Run : state[q].status # "none" => saved[q].file = Elsewhere /\ saved[q].target = Elsewhere

MemoryFields == {"opened", "bound", "contexts", "bindings", "command", "instance", "saved", "shown"}
CommandFields == {"at", "auto", "context", "instance", "run", "beat", "first", "strayed"}

Shape(w) ==
  DOMAIN w = MemoryFields /\ IsSeq(w.command) /\ \A c \in 1 .. Len(w.command) : DOMAIN w.command[c] = CommandFields

FooterTyped ==
  /\ opened \in Seq(Session) /\ opened # <<>>
  /\ leaving = F!Staying \/ leaving \in [session : Session, told : BOOLEAN]
  /\ instance \in Nat /\ state \in [Run -> [status : {"none", "running", "ended"}, session : F!Anywhere]]
  /\ Shape(F!Memory)
  /\ \A c \in 1 .. Len(command) :
       command[c].instance \in Nat /\ command[c].instance <= instance /\ command[c].context \in 1 .. Len(opened)

FooterInv == FooterTyped /\ Before /\ Following

LEMMA SeqIs ==
  ASSUME NEW q, IsSeq(q)
  PROVE  Len(q) \in Nat /\ DOMAIN q = 1 .. Len(q)
BY LenProperties DEF IsSeq

(* One element of a sequence replaced.                                      *)
Put(q, i, e) == [q EXCEPT ![i] = e]

LEMMA ReplacedSeq ==
  ASSUME NEW q, IsSeq(q), NEW i, NEW e, NEW t, t = Put(q, i, e)
  PROVE  /\ IsSeq(t) /\ Len(t) = Len(q)
         /\ \A j \in 1 .. Len(q) : t[j] = IF j = i THEN e ELSE q[j]
<1>1. PICK S : q \in Seq(S)
  BY DEF IsSeq
<1>2. q \in Seq(S \cup {e}) /\ Len(q) \in Nat /\ DOMAIN q = 1 .. Len(q)
  BY <1>1, SeqMonotonic, LenProperties
<1>3. CASE i \in 1 .. Len(q)
  BY <1>2, <1>3, ExceptSeq DEF IsSeq, Put
<1>4. CASE i \notin 1 .. Len(q)
  <2>1. t = q
    BY <1>2, <1>4 DEF Put
  <2>2. QED
    BY <2>1, <1>4
<1>5. QED
  BY <1>3, <1>4

LEMMA AppendedSeq ==
  ASSUME NEW q, IsSeq(q), NEW e
  PROVE  /\ IsSeq(Append(q, e)) /\ Len(Append(q, e)) = Len(q) + 1
         /\ Append(q, e)[Len(q) + 1] = e /\ \A j \in 1 .. Len(q) : Append(q, e)[j] = q[j]
<1>1. PICK S : q \in Seq(S)
  BY DEF IsSeq
<1>2. q \in Seq(S \cup {e})
  BY <1>1, SeqMonotonic
<1>3. QED
  BY <1>2, AppendProperties DEF IsSeq

Same(a, b) ==
  /\ DOMAIN a = DOMAIN b /\ a.at = b.at /\ a.auto = b.auto /\ a.context = b.context
  /\ a.instance = b.instance /\ a.run = b.run /\ a.strayed = b.strayed

(* What a handler does to the footer and its bindings leaves the commands,  *)
(* but for their heartbeats, and the host alone.                            *)
Keeps(x, w) ==
  /\ Shape(x) /\ x.opened = w.opened /\ x.instance = w.instance /\ Len(x.command) = Len(w.command)
  /\ \A c \in 1 .. Len(w.command) : Same(x.command[c], w.command[c])

LEMMA KeepsOn ==
  ASSUME NEW w, NEW x, NEW y, Keeps(x, w), Keeps(y, x)
  PROVE  Keeps(y, w)
BY DEF Keeps, Same

LEMMA KeepsAll ==
  ASSUME NEW w, Shape(w), NEW x, DOMAIN x = DOMAIN w,
         x.opened = w.opened, x.instance = w.instance, x.command = w.command
  PROVE  Keeps(x, w)
BY DEF Keeps, Same, Shape

LEMMA PersistKeeps ==
  ASSUME NEW w, Shape(w), NEW k
  PROVE  Keeps(F!Persist(w, k), w)
<1>1. PICK x : x = F!Persist(w, k)
  OBVIOUS
<1>2. DOMAIN x = DOMAIN w /\ x.opened = w.opened /\ x.instance = w.instance /\ x.command = w.command
  BY <1>1 DEF F!Persist, Shape, MemoryFields
<1>3. QED
  BY <1>1, <1>2, KeepsAll

LEMMA AdoptKeeps ==
  ASSUME NEW w, Shape(w), NEW c, NEW context, NEW r
  PROVE  Keeps(F!Adopt(w, c, context, r), w)
<1>. DEFINE k == F!BindingOf(w, c)
<1>1. PICK x : x = [w EXCEPT !.bindings[k].run = r, !.bindings[k].owner = F!Own(w, c), !.bindings[k].file = w.opened[context]]
  OBVIOUS
<1>2. DOMAIN x = DOMAIN w /\ x.opened = w.opened /\ x.instance = w.instance /\ x.command = w.command
  BY <1>1 DEF Shape, MemoryFields
<1>3. Keeps(x, w) /\ Keeps(w, w)
  BY <1>2, KeepsAll
<1>4. PICK y : y = F!Persist(x, k)
  OBVIOUS
<1>5. Keeps(y, x)
  BY <1>3, <1>4, PersistKeeps DEF Keeps
<1>6. Keeps(y, w)
  BY <1>3, <1>5, KeepsOn
<1>7. QED
  BY <1>1, <1>3, <1>4, <1>6 DEF F!Adopt

(* A command with another heartbeat.                                        *)
Beating(w, c, a) == [w EXCEPT !.command[c] = a]

LEMMA BeatKeeps ==
  ASSUME NEW w, Shape(w), NEW c, NEW a, c \in 1 .. Len(w.command) => DOMAIN a = CommandFields /\ Same(a, w.command[c]),
         NEW x, x = Beating(w, c, a)
  PROVE  Keeps(x, w)
<1>1. PICK q : q = [w.command EXCEPT ![c] = a]
  OBVIOUS
<1>4. DOMAIN x = DOMAIN w /\ x.opened = w.opened /\ x.instance = w.instance /\ x.command = q
  BY <1>1 DEF Shape, MemoryFields, Beating
<1>5. IsSeq(q) /\ Len(q) = Len(w.command) /\ \A j \in 1 .. Len(w.command) : q[j] = IF j = c THEN a ELSE w.command[j]
  <2>1. PICK p : p = w.command
    OBVIOUS
  <2>2. IsSeq(p) /\ q = Put(p, c, a)
    BY <1>1, <2>1 DEF Shape, Put
  <2>3. IsSeq(q) /\ Len(q) = Len(p) /\ \A j \in 1 .. Len(p) : q[j] = IF j = c THEN a ELSE p[j]
    BY <2>2, ReplacedSeq
  <2>4. QED
    BY <2>1, <2>2, <2>3
<1>6. QED
  BY <1>4, <1>5 DEF Keeps, Same, Shape

LEMMA PaintKeeps ==
  ASSUME NEW w, Shape(w), NEW c, NEW context
  PROVE  Keeps(F!Paint(w, c, context), w)
<1>1. PICK r : r = F!Beat(w, c, context)
  OBVIOUS
<1>2. PICK u : u = [w EXCEPT !.command[c].beat = r]
  OBVIOUS
<1>3. Keeps(u, w)
  <2>1. PICK a : a = [w.command[c] EXCEPT !.beat = r]
    OBVIOUS
  <2>2. u = Beating(w, c, a)
    BY <1>2, <2>1 DEF Beating
  <2>3. c \in 1 .. Len(w.command) => DOMAIN a = CommandFields /\ Same(a, w.command[c])
    BY <2>1 DEF Shape, CommandFields, Same
  <2>4. QED
    BY <2>2, <2>3, BeatKeeps
<1>4. PICK x : x = F!Adopt(u, c, context, r)
  OBVIOUS
<1>5. Keeps(x, w)
  <2>1. Keeps(x, u)
    BY <1>3, <1>4, AdoptKeeps DEF Keeps
  <2>2. QED
    BY <1>3, <2>1, KeepsOn
<1>6. PICK y : y = F!Paint(w, c, context)
  OBVIOUS
<1>7. DOMAIN y = DOMAIN x /\ y.opened = x.opened /\ y.instance = x.instance /\ y.command = x.command
  BY <1>1, <1>2, <1>4, <1>5, <1>6 DEF F!Paint, Keeps, Shape, MemoryFields
<1>8. Keeps(y, x)
  BY <1>5, <1>7, KeepsAll DEF Keeps
<1>9. QED
  BY <1>5, <1>6, <1>8, KeepsOn

LEMMA UpdatesKeep ==
  ASSUME NEW w, Shape(w), NEW c, NEW final, NEW x \in F!Updates(w, c, final)
  PROVE  Keeps(x, w)
<1>1. PICK context \in F!Found(w, c, final) :
        x = [IF context = 0 THEN w ELSE F!Paint(w, c, context) EXCEPT !.command[c].first = FALSE]
  BY DEF F!Updates
<1>2. PICK u : u = IF context = 0 THEN w ELSE F!Paint(w, c, context)
  OBVIOUS
<1>3. Keeps(u, w)
  BY <1>2, PaintKeeps, KeepsAll
<1>4. PICK a : a = [u.command[c] EXCEPT !.first = FALSE]
  OBVIOUS
<1>5. x = Beating(u, c, a)
  BY <1>1, <1>2, <1>4 DEF Beating
<1>6. c \in 1 .. Len(u.command) => DOMAIN a = CommandFields /\ Same(a, u.command[c])
  BY <1>3, <1>4 DEF Keeps, Shape, CommandFields, Same
<1>7. Keeps(x, u)
  BY <1>3, <1>5, <1>6, BeatKeeps DEF Keeps
<1>8. QED
  BY <1>3, <1>7, KeepsOn

LEMMA ToldKeeps ==
  ASSUME NEW w, Shape(w), NEW n, NEW s, NEW r, NEW x \in F!Told(w, n, s, r)
  PROVE  Keeps(x, w)
<1>1. PICK k : k = F!Listener(w, n, s, r)
  OBVIOUS
<1>2. PICK u : u = [w EXCEPT !.bindings[k].run = r, !.bindings[k].file = s]
  OBVIOUS
<1>3. DOMAIN u = DOMAIN w /\ u.opened = w.opened /\ u.instance = w.instance /\ u.command = w.command
  BY <1>2 DEF Shape, MemoryFields
<1>4. Keeps(u, w) /\ Keeps(w, w)
  BY <1>3, KeepsAll
<1>5. PICK y : y = F!Persist(u, k)
  OBVIOUS
<1>6. Keeps(y, w)
  <2>1. Keeps(y, u)
    BY <1>4, <1>5, PersistKeeps DEF Keeps
  <2>2. QED
    BY <1>4, <2>1, KeepsOn
<1>7. x = w \/ x = y \/ x \in F!Updates(y, w.bindings[k].of, FALSE)
  BY <1>1, <1>2, <1>5 DEF F!Told
<1>8. CASE x \in F!Updates(y, w.bindings[k].of, FALSE)
  <2>1. Keeps(x, y)
    BY <1>6, <1>8, UpdatesKeep DEF Keeps
  <2>2. QED
    BY <2>1, <1>6, KeepsOn
<1>9. QED
  BY <1>4, <1>6, <1>7, <1>8

LEMMA BoundKeeps ==
  ASSUME NEW w, Shape(w), NEW s, NEW context, NEW r, NEW x \in F!Bound(w, s, context, r)
  PROVE  Keeps(x, w)
<1>1. PICK u : /\ DOMAIN u = DOMAIN w /\ u.opened = w.opened /\ u.instance = w.instance /\ u.command = w.command
               /\ x \in F!Told(u, w.instance, s, r)
  BY DEF F!Bound, Shape, MemoryFields
<1>2. Keeps(u, w)
  BY <1>1, KeepsAll
<1>3. Keeps(x, u)
  BY <1>1, <1>2, ToldKeeps DEF Keeps
<1>4. QED
  BY <1>2, <1>3, KeepsOn

LEMMA HandOverKeeps ==
  ASSUME NEW w, Shape(w), NEW k, NEW s
  PROVE  Keeps(F!HandOver(w, k, s), w)
<1>1. PICK u : u = [w EXCEPT !.bindings[k].owner = s, !.bindings[k].file = s, !.bindings[k].target = Elsewhere]
  OBVIOUS
<1>2. DOMAIN u = DOMAIN w /\ u.opened = w.opened /\ u.instance = w.instance /\ u.command = w.command
  BY <1>1 DEF Shape, MemoryFields
<1>3. Keeps(u, w) /\ Keeps(w, w)
  BY <1>2, KeepsAll
<1>4. PICK x : x = F!Persist(u, k)
  OBVIOUS
<1>5. Keeps(x, w)
  <2>1. Keeps(x, u)
    BY <1>3, <1>4, PersistKeeps DEF Keeps
  <2>2. QED
    BY <1>3, <2>1, KeepsOn
<1>6. PICK y : y = F!HandOver(w, k, s)
  OBVIOUS
<1>7. y = w \/ (DOMAIN y = DOMAIN x /\ y.opened = x.opened /\ y.instance = x.instance /\ y.command = x.command)
  BY <1>1, <1>4, <1>5, <1>6 DEF F!HandOver, Keeps, Shape, MemoryFields
<1>8. y = w \/ Keeps(y, x)
  BY <1>5, <1>7, KeepsAll DEF Keeps
<1>9. QED
  BY <1>3, <1>5, <1>6, <1>8, KeepsOn

LEMMA ResumedKeeps ==
  ASSUME NEW w, Shape(w), NEW k, NEW s, NEW x \in F!Resumed(w, k, s)
  PROVE  Keeps(x, w)
<1>1. CASE k # 0 /\ w.bindings[k].run # F!None
  <2>1. PICK u \in F!Bound(w, s, F!Live(w), w.bindings[k].run) : x = F!HandOver(u, k, s)
    BY <1>1 DEF F!Resumed
  <2>2. Keeps(u, w)
    BY BoundKeeps
  <2>3. Keeps(x, u)
    BY <2>1, <2>2, HandOverKeeps DEF Keeps
  <2>4. QED
    BY <2>2, <2>3, KeepsOn
<1>2. CASE ~(k # 0 /\ w.bindings[k].run # F!None)
  <2>1. DOMAIN x = DOMAIN w /\ x.opened = w.opened /\ x.instance = w.instance /\ x.command = w.command
    BY <1>2 DEF F!Resumed, Shape, MemoryFields
  <2>2. QED
    BY <2>1, KeepsAll
<1>3. QED
  BY <1>1, <1>2

LEMMA GiveUpKeeps ==
  ASSUME NEW w, Shape(w), NEW c
  PROVE  Keeps(F!GiveUp(w, c), w)
<1>1. PICK k : k = F!BindingOf(w, c)
  OBVIOUS
<1>2. PICK u : u = [w EXCEPT !.bindings[k].active = FALSE]
  OBVIOUS
<1>3. DOMAIN u = DOMAIN w /\ u.opened = w.opened /\ u.instance = w.instance /\ u.command = w.command
  BY <1>2 DEF Shape, MemoryFields
<1>4. PICK x : x = F!Persist(u, k)
  OBVIOUS
<1>5. Keeps(x, w)
  <2>1. Keeps(u, w)
    BY <1>3, KeepsAll
  <2>2. Keeps(x, u)
    BY <1>4, <2>1, PersistKeeps DEF Keeps
  <2>3. QED
    BY <2>1, <2>2, KeepsOn
<1>6. PICK y : y = F!GiveUp(w, c)
  OBVIOUS
<1>7. DOMAIN y = DOMAIN x /\ y.opened = x.opened /\ y.instance = x.instance /\ y.command = x.command
  BY <1>1, <1>2, <1>4, <1>5, <1>6 DEF F!GiveUp, Keeps, Shape, MemoryFields
<1>8. Keeps(y, x)
  BY <1>5, <1>7, KeepsAll DEF Keeps
<1>9. QED
  BY <1>5, <1>6, <1>8, KeepsOn

-----------------------------------------------------------------------------
(* What a step may do to the commands and the runs.                         *)

Turns(a, b) ==
  /\ DOMAIN a = CommandFields /\ a.auto = b.auto /\ a.instance = b.instance /\ a.context = b.context
  /\ b.strayed => a.strayed
  /\ b.at = "ended" => a.at = "ended"
  /\ a.run = b.run \/ (b.run = F!None /\ a.run \in Run /\ (b.auto => state[a.run].status = "none"))

OnlyOn ==
  /\ Len(command) <= Len(command')
  /\ Len(command') = Len(command) => \A c \in 1 .. Len(command) : Turns(command'[c], command[c])
  /\ instance <= instance'
  /\ \A q \in Run : state[q].status # "none" =>
       state'[q].status # "none" /\ (state'[q].session = state[q].session \/ \E c \in 1 .. Len(command) : q = command[c].run)

(* The commands as the handler finds them, w, and as it leaves them, x.     *)
Ahead(w) ==
  /\ Shape(w) /\ w.opened \in Seq(Session) /\ w.opened # <<>> /\ w.instance \in Nat /\ instance <= w.instance
  /\ \A c \in 1 .. Len(w.command) :
       w.command[c].instance \in Nat /\ w.command[c].instance <= w.instance /\ w.command[c].context \in 1 .. Len(w.opened)
  /\ Len(command) <= Len(w.command)
  /\ Len(w.command) = Len(command) => \A c \in 1 .. Len(command) : Turns(w.command[c], command[c])

LEMMA Becoming ==
  ASSUME FooterTyped, NEW w, Ahead(w), NEW x, Keeps(x, w), F!Becomes(x), UNCHANGED state,
         leaving' = F!Staying \/ leaving' \in [session : Session, told : BOOLEAN]
  PROVE  FooterTyped' /\ OnlyOn
<1>1. /\ opened' = w.opened /\ instance' = w.instance /\ command' = x.command
      /\ Shape(x) /\ Len(x.command) = Len(w.command)
      /\ \A c \in 1 .. Len(w.command) : Same(x.command[c], w.command[c])
  BY DEF Keeps, F!Becomes
<1>2. Shape(F!Memory)'
  BY <1>1 DEF Shape, F!Memory, MemoryFields
<1>3. \A c \in 1 .. Len(command') :
        command'[c].instance \in Nat /\ command'[c].instance <= instance' /\ command'[c].context \in 1 .. Len(opened')
  BY <1>1 DEF Ahead, Same
<1>4. FooterTyped'
  BY <1>1, <1>2, <1>3 DEF FooterTyped, Ahead
<1>5. Len(command) <= Len(command') /\ instance <= instance'
  BY <1>1 DEF Ahead
<1>6. ASSUME Len(command') = Len(command), NEW c \in 1 .. Len(command)
      PROVE  Turns(command'[c], command[c])
  BY <1>1, <1>6 DEF Ahead, Same, Turns, Shape
<1>7. QED
  BY <1>4, <1>5, <1>6 DEF OnlyOn

LEMMA MemoryIs ==
  ASSUME FooterTyped
  PROVE  /\ Ahead(F!Memory) /\ Keeps(F!Memory, F!Memory)
         /\ F!Memory.opened = opened /\ F!Memory.bound = bound /\ F!Memory.contexts = contexts
         /\ F!Memory.bindings = bindings /\ F!Memory.command = command /\ F!Memory.instance = instance
<1>1. /\ DOMAIN F!Memory = MemoryFields /\ F!Memory.opened = opened /\ F!Memory.bound = bound /\ F!Memory.contexts = contexts
      /\ F!Memory.bindings = bindings /\ F!Memory.command = command /\ F!Memory.instance = instance
  BY DEF F!Memory, MemoryFields
<1>2. Shape(F!Memory) /\ Len(command) \in Nat
  BY <1>1, SeqIs DEF FooterTyped, Shape
<1>3. Ahead(F!Memory)
  BY <1>1, <1>2 DEF Ahead, FooterTyped, Turns, Shape
<1>4. QED
  BY <1>1, <1>2, <1>3, KeepsAll

(* A memory in which command c was moved on.                                *)
LEMMA MovedOn ==
  ASSUME FooterTyped, NEW c \in 1 .. Len(command), NEW a, Turns(a, command[c]), NEW w, w = Beating(F!Memory, c, a)
  PROVE  /\ Ahead(w) /\ DOMAIN w = MemoryFields
         /\ w.opened = opened /\ w.bound = bound /\ w.contexts = contexts
         /\ w.bindings = bindings /\ w.instance = instance
         /\ Len(w.command) = Len(command) /\ w.command[c] = a
<1>1. PICK q : q = Put(command, c, a)
  OBVIOUS
<1>2. /\ DOMAIN w = MemoryFields /\ w.opened = opened /\ w.bound = bound /\ w.contexts = contexts
      /\ w.bindings = bindings /\ w.instance = instance /\ w.command = q
  BY <1>1 DEF Beating, F!Memory, MemoryFields, Put
<1>3. IsSeq(command) /\ Len(command) \in Nat /\ \A d \in 1 .. Len(command) : DOMAIN command[d] = CommandFields
  BY MemoryIs, SeqIs DEF Ahead, Shape
<1>4. IsSeq(q) /\ Len(q) = Len(command) /\ \A d \in 1 .. Len(command) : q[d] = IF d = c THEN a ELSE command[d]
  BY <1>1, <1>3, ReplacedSeq
<1>5. \A d \in 1 .. Len(command) : Turns(q[d], command[d])
  BY <1>3, <1>4 DEF Turns
<1>6. Ahead(w)
  BY <1>2, <1>3, <1>4, <1>5 DEF Ahead, Shape, FooterTyped, Turns
<1>7. QED
  BY <1>2, <1>4, <1>6

LEMMA OpenedIs ==
  ASSUME FooterTyped
  PROVE  Len(opened) \in Nat \ {0} /\ \A k \in 1 .. Len(opened) : opened[k] \in Session
BY LenProperties, EmptySeq, ElementOfSeq DEF FooterTyped

LEMMA EnterMoves ==
  ASSUME FooterTyped, NEW auto \in BOOLEAN, F!Enter(auto)
  PROVE  /\ FooterTyped' /\ OnlyOn /\ Len(command') = Len(command) + 1
         /\ command'[Len(command')].auto = auto /\ command'[Len(command')].run = F!None
<1>1. PICK q : q = Append(command, F!Command(auto))
  OBVIOUS
<1>2. PICK w : w = [F!SetLive(F!Memory) EXCEPT !.command = Append(@, F!Command(auto))]
  OBVIOUS
<1>3. DOMAIN w = MemoryFields /\ w.opened = opened /\ w.instance = instance /\ w.command = q
  BY <1>1, <1>2 DEF F!SetLive, F!Memory, MemoryFields
<1>4. IsSeq(command) /\ Len(command) \in Nat
  BY MemoryIs, SeqIs DEF Ahead, Shape
<1>5. /\ IsSeq(q) /\ Len(q) = Len(command) + 1 /\ q[Len(command) + 1] = F!Command(auto)
      /\ \A c \in 1 .. Len(command) : q[c] = command[c]
  BY <1>1, <1>4, AppendedSeq
<1>6. /\ DOMAIN F!Command(auto) = CommandFields /\ F!Command(auto).instance = instance
      /\ F!Command(auto).context \in 1 .. Len(opened)
  BY OpenedIs DEF F!Command, CommandFields
<1>7. \A c \in 1 .. Len(q) :
        DOMAIN q[c] = CommandFields /\ q[c].instance \in Nat /\ q[c].instance <= instance /\ q[c].context \in 1 .. Len(opened)
  <2>1. \A c \in 1 .. Len(command) : DOMAIN command[c] = CommandFields
    BY MemoryIs DEF Ahead, Shape
  <2>2. \A c \in 1 .. Len(command) :
          command[c].instance \in Nat /\ command[c].instance <= instance /\ command[c].context \in 1 .. Len(opened)
    BY DEF FooterTyped
  <2>3. instance \in Nat
    BY DEF FooterTyped
  <2>4. \A c \in 1 .. Len(q) : c \in 1 .. Len(command) \/ c = Len(command) + 1
    BY <1>4, <1>5
  <2>5. QED
    BY <1>5, <1>6, <2>1, <2>2, <2>3, <2>4
<1>8. Ahead(w)
  BY <1>3, <1>4, <1>5, <1>7 DEF Ahead, Shape, FooterTyped
<1>9. PICK x : F!Becomes(x) /\ (x = w \/ \E u : /\ DOMAIN u = DOMAIN w /\ u.opened = w.opened /\ u.instance = w.instance
                                                /\ u.command = w.command /\ x \in F!Updates(u, Len(command) + 1, FALSE))
  BY <1>2, <1>3 DEF F!Enter, MemoryFields
<1>10. Keeps(x, w)
  <2>1. Keeps(w, w)
    BY <1>8, KeepsAll DEF Ahead
  <2>2. ASSUME NEW u, DOMAIN u = DOMAIN w, u.opened = w.opened, u.instance = w.instance,
               u.command = w.command, x \in F!Updates(u, Len(command) + 1, FALSE)
        PROVE  Keeps(x, w)
    <3>1. Keeps(u, w)
      BY <1>8, <2>2, KeepsAll DEF Ahead
    <3>2. Keeps(x, u)
      BY <2>2, <3>1, UpdatesKeep DEF Keeps
    <3>3. QED
      BY <3>1, <3>2, KeepsOn
  <2>3. QED
    BY <1>9, <2>1, <2>2
<1>11. UNCHANGED <<leaving, state>>
  BY DEF F!Enter
<1>12. FooterTyped' /\ OnlyOn
  BY <1>8, <1>9, <1>10, <1>11, Becoming DEF FooterTyped
<1>13. PICK a : a = q[Len(command) + 1]
  OBVIOUS
<1>14. a.auto = auto /\ a.run = F!None
  BY <1>5, <1>13 DEF F!Command
<1>15. command' = x.command /\ Len(x.command) = Len(q)
  BY <1>3, <1>9, <1>10 DEF Keeps, F!Becomes
<1>16. Same(x.command[Len(q)], q[Len(q)])
  <2>1. \A c \in 1 .. Len(q) : Same(x.command[c], q[c])
    BY <1>3, <1>10 DEF Keeps
  <2>2. Len(q) \in 1 .. Len(q)
    BY <1>4, <1>5
  <2>3. QED
    BY <2>1, <2>2
<1>17. QED
  BY <1>5, <1>12, <1>13, <1>14, <1>15, <1>16 DEF Same

(* Nothing but the footer or the bindings.                                  *)
LEMMA QuietMoves ==
  ASSUME FooterTyped, UNCHANGED <<opened, instance, command, state>>,
         leaving' = F!Staying \/ leaving' \in [session : Session, told : BOOLEAN]
  PROVE  FooterTyped' /\ OnlyOn
<1>1. Ahead(F!Memory)
  BY MemoryIs
<1>2. Shape(F!Memory)'
  BY <1>1 DEF Ahead, Shape, F!Memory, MemoryFields
<1>3. FooterTyped'
  BY <1>2 DEF FooterTyped
<1>4. \A c \in 1 .. Len(command) : Turns(command[c], command[c])
  BY <1>1, MemoryIs DEF Ahead, Shape, Turns
<1>5. QED
  BY <1>1, <1>3, <1>4, SeqIs DEF OnlyOn, Ahead, Shape, FooterTyped

LEMMA BindMoves ==
  ASSUME FooterTyped, NEW c \in 1 .. Len(command), F!Bind(c)
  PROVE  FooterTyped' /\ OnlyOn
<1>1. PICK r \in Run :
        /\ state[r].status = "none" \/ (~ command[c].auto /\ state[r].status = "ended")
        /\ LET w == [F!Memory EXCEPT !.command[c].run = r] IN
           \E x \in (IF command[c].instance = instance THEN F!Bound(w, F!Own(w, c), command[c].context, r)
                     ELSE F!Told(w, command[c].instance, F!Own(w, c), r)) : F!Becomes(x)
  BY DEF F!Bind
<1>2. PICK a : a = [command[c] EXCEPT !.run = r]
  OBVIOUS
<1>3. PICK w : w = [F!Memory EXCEPT !.command[c].run = r]
  OBVIOUS
<1>4. w = Beating(F!Memory, c, a)
  BY <1>2, <1>3, MemoryIs DEF Beating
<1>5. DOMAIN command[c] = CommandFields /\ command[c].run = F!None
  BY MemoryIs DEF Ahead, Shape, F!Bind
<1>6. Turns(a, command[c])
  BY <1>1, <1>2, <1>5 DEF Turns, CommandFields
<1>7. Ahead(w)
  BY <1>4, <1>6, MovedOn
<1>8. PICK x : F!Becomes(x) /\ (x \in F!Bound(w, F!Own(w, c), command[c].context, r)
                                \/ x \in F!Told(w, command[c].instance, F!Own(w, c), r))
  BY <1>1, <1>3
<1>9. Keeps(x, w)
  BY <1>7, <1>8, BoundKeeps, ToldKeeps DEF Ahead
<1>10. UNCHANGED <<leaving, state>>
  BY DEF F!Bind
<1>11. QED
  BY <1>7, <1>8, <1>9, <1>10, Becoming DEF FooterTyped

(* A command is moved on, and its run with it.                              *)
LEMMA CommandMoves ==
  ASSUME FooterTyped, NEW c \in 1 .. Len(command), NEW a, Turns(a, command[c]), a.instance = command[c].instance,
         command' = Put(command, c, a), UNCHANGED <<opened, instance, leaving>>,
         state' \in [Run -> [status : {"none", "running", "ended"}, session : F!Anywhere]],
         \A q \in Run : state[q].status # "none" =>
           state'[q].status # "none" /\ (state'[q].session = state[q].session \/ q = command[c].run)
  PROVE  FooterTyped' /\ OnlyOn
<1>1. IsSeq(command) /\ Len(command) \in Nat /\ \A d \in 1 .. Len(command) : DOMAIN command[d] = CommandFields
  BY MemoryIs, SeqIs DEF Ahead, Shape
<1>2. /\ IsSeq(command') /\ Len(command') = Len(command)
      /\ \A d \in 1 .. Len(command) : command'[d] = IF d = c THEN a ELSE command[d]
  BY <1>1, ReplacedSeq
<1>3. Shape(F!Memory)'
  BY <1>1, <1>2 DEF Shape, F!Memory, MemoryFields, Turns
<1>4. FooterTyped'
  <2>1. \A d \in 1 .. Len(command) :
          command'[d].instance = command[d].instance /\ command'[d].context = command[d].context
    BY <1>2 DEF Turns
  <2>2. QED
    BY <1>2, <1>3, <2>1 DEF FooterTyped
<1>5. \A d \in 1 .. Len(command) : Turns(command'[d], command[d])
  BY <1>1, <1>2 DEF Turns
<1>6. QED
  <2>1. Len(command) <= Len(command') /\ instance <= instance'
    BY <1>1, <1>2 DEF FooterTyped
  <2>2. \A q \in Run : state[q].status # "none" =>
          state'[q].status # "none" /\ (state'[q].session = state[q].session \/ \E d \in 1 .. Len(command) : q = command[d].run)
    OBVIOUS
  <2>3. QED
    BY <1>4, <1>5, <2>1, <2>2 DEF OnlyOn

LEMMA WorkMoves ==
  ASSUME FooterTyped, NEW c \in 1 .. Len(command), F!Work(c) \/ F!Finish(c)
  PROVE  FooterTyped' /\ OnlyOn
<1>1. DOMAIN command[c] = CommandFields
  BY MemoryIs DEF Ahead, Shape
<1>2. PICK at \in {"working", "finished"} : command' = [command EXCEPT ![c].at = at] /\ command[c].at # "ended"
  BY DEF F!Work, F!Finish
<1>3. PICK a : a = [command[c] EXCEPT !.at = at]
  OBVIOUS
<1>4. command' = Put(command, c, a)
  BY <1>2, <1>3 DEF Put
<1>5. Turns(a, command[c])
  BY <1>1, <1>2, <1>3 DEF Turns, CommandFields
<1>6. UNCHANGED <<opened, instance, leaving>>
  BY DEF F!Work, F!Finish
<1>7. /\ state' \in [Run -> [status : {"none", "running", "ended"}, session : F!Anywhere]]
      /\ \A q \in Run : state[q].status # "none" =>
           state'[q].status # "none" /\ (state'[q].session = state[q].session \/ q = command[c].run)
  <2>1. CASE F!Work(c)
    <3>1. PICK s : s = F!Own(F!Memory, c)
      OBVIOUS
    <3>2. state' = [state EXCEPT ![command[c].run] = [status |-> "running", session |-> s]]
      BY <2>1, <3>1 DEF F!Work
    <3>3. s \in F!Anywhere
      BY <3>1, MemoryIs, OpenedIs DEF F!Own, F!Anywhere, FooterTyped
    <3>4. QED
      BY <3>2, <3>3 DEF FooterTyped
  <2>2. CASE F!Finish(c)
    <3>1. CASE UNCHANGED state
      BY <3>1 DEF FooterTyped
    <3>2. CASE state' = [state EXCEPT ![command[c].run].status = "ended"]
      <4>1. PICK r, v : r = command[c].run /\ v = [state[r] EXCEPT !.status = "ended"]
        OBVIOUS
      <4>2. state' = [state EXCEPT ![r] = v]
        BY <3>2, <4>1
      <4>3. r \in Run => v \in [status : {"none", "running", "ended"}, session : F!Anywhere]
                          /\ v.status # "none" /\ v.session = state[r].session
        BY <4>1 DEF FooterTyped
      <4>4. QED
        BY <4>1, <4>2, <4>3 DEF FooterTyped
    <3>3. QED
      BY <2>2, <3>1, <3>2 DEF F!Finish
  <2>3. QED
    BY <2>1, <2>2
<1>8. QED
  BY <1>4, <1>5, <1>6, <1>7, CommandMoves DEF Turns

LEMMA StopMoves ==
  ASSUME FooterTyped, NEW c \in 1 .. Len(command), F!Stop(c)
  PROVE  FooterTyped' /\ OnlyOn /\ Len(command') = Len(command) /\ command'[c].at = "ended"
<1>1. PICK a : a = [command[c] EXCEPT !.at = "ended"]
  OBVIOUS
<1>2. PICK w : w = [F!Memory EXCEPT !.command[c].at = "ended"]
  OBVIOUS
<1>3. w = Beating(F!Memory, c, a)
  BY <1>1, <1>2, MemoryIs DEF Beating
<1>4. DOMAIN command[c] = CommandFields
  BY MemoryIs DEF Ahead, Shape
<1>5. Turns(a, command[c])
  BY <1>1, <1>4 DEF Turns, CommandFields
<1>6. Ahead(w) /\ Len(w.command) = Len(command) /\ w.command[c].at = "ended"
  <2>1. a.at = "ended"
    BY <1>1, <1>4 DEF CommandFields
  <2>2. QED
    BY <2>1, <1>3, <1>5, MovedOn
<1>7. PICK x : F!Becomes(x) /\ (x = w \/ x = F!GiveUp(w, c) \/ \E y \in F!Updates(w, c, TRUE) : x = F!GiveUp(y, c))
  <2>1. CASE ~ command[c].auto
    BY <1>2, <2>1 DEF F!Stop
  <2>2. CASE command[c].auto
    BY <1>2, <2>2 DEF F!Stop
  <2>3. QED
    BY <2>1, <2>2
<1>8. Keeps(x, w)
  <2>1. Keeps(w, w)
    BY <1>6, KeepsAll DEF Ahead
  <2>2. ASSUME NEW y, Keeps(y, w), x = F!GiveUp(y, c)
        PROVE  Keeps(x, w)
    <3>1. Keeps(x, y)
      BY <2>2, GiveUpKeeps DEF Keeps
    <3>2. QED
      BY <2>2, <3>1, KeepsOn
  <2>3. \A y \in F!Updates(w, c, TRUE) : Keeps(y, w)
    BY <1>6, UpdatesKeep DEF Ahead
  <2>4. QED
    BY <1>7, <2>1, <2>2, <2>3
<1>9. UNCHANGED <<leaving, state>>
  BY DEF F!Stop
<1>10. FooterTyped' /\ OnlyOn
  BY <1>6, <1>7, <1>8, <1>9, Becoming DEF FooterTyped
<1>11. QED
  BY <1>6, <1>7, <1>8, <1>10 DEF Keeps, Same, F!Becomes

LEMMA TickMoves ==
  ASSUME FooterTyped, NEW c \in 1 .. Len(command), F!Tick(c)
  PROVE  FooterTyped' /\ OnlyOn
<1>1. PICK x \in F!Updates(F!Memory, c, FALSE) : F!Becomes(x)
  BY DEF F!Tick
<1>2. Ahead(F!Memory)
  BY MemoryIs
<1>3. Keeps(x, F!Memory)
  BY <1>1, <1>2, UpdatesKeep DEF Ahead
<1>4. UNCHANGED <<leaving, state>>
  BY DEF F!Tick
<1>5. QED
  BY <1>1, <1>2, <1>3, <1>4, Becoming DEF FooterTyped

(* The memory with which a new session begins.                              *)
LEMMA LoadedIs ==
  ASSUME FooterTyped, leaving # F!Staying, NEW reload \in BOOLEAN, NEW w, w = F!SetLive(F!Loaded(reload))
  PROVE  /\ Ahead(w) /\ DOMAIN w = MemoryFields
         /\ w.opened = Append(opened, leaving.session) /\ w.bindings = bindings /\ w.saved = saved
         /\ w.instance = IF reload THEN instance + 1 ELSE instance
         /\ w.bound = IF reload THEN [s \in Session |-> F!None] ELSE bound
         /\ w.contexts = [q \in Session |-> IF q = leaving.session THEN Len(opened) + 1
                                            ELSE IF reload \/ bound[q] = F!None THEN 0 ELSE contexts[q]]
         /\ Len(w.command) = Len(command)
         /\ \A c \in 1 .. Len(command) : w.command[c] = [command[c] EXCEPT !.strayed = @ \/ command[c].run = F!None]
<1>1. leaving.session \in Session
  BY DEF FooterTyped
<1>2. PICK l : l = F!Loaded(reload)
  OBVIOUS
<1>3. PICK q : q = [c \in 1 .. Len(command) |-> [command[c] EXCEPT !.strayed = @ \/ command[c].run = F!None]]
  OBVIOUS
<1>4. PICK o : o = Append(opened, leaving.session)
  OBVIOUS
<1>5. o \in Seq(Session) /\ Len(o) = Len(opened) + 1 /\ o[Len(opened) + 1] = leaving.session /\ o # <<>>
  <2>1. opened \in Seq(Session)
    BY DEF FooterTyped
  <2>2. o \in Seq(Session) /\ Len(o) = Len(opened) + 1 /\ o[Len(opened) + 1] = leaving.session
    BY <1>1, <1>4, <2>1, AppendProperties
  <2>3. QED
    BY <2>1, <2>2, LenProperties, EmptySeq
<1>6. /\ DOMAIN l = MemoryFields /\ l.opened = o /\ l.bindings = bindings /\ l.command = q /\ l.saved = saved
      /\ l.instance = IF reload THEN instance + 1 ELSE instance
      /\ l.bound = IF reload THEN [s \in Session |-> F!None] ELSE bound
      /\ l.contexts = IF reload THEN [s \in Session |-> 0] ELSE contexts
  BY <1>2, <1>3, <1>4 DEF F!Loaded, F!Memory, F!Commands, MemoryFields
<1>7. /\ DOMAIN w = MemoryFields /\ w.opened = o /\ w.bindings = bindings /\ w.command = q /\ w.saved = saved
      /\ w.instance = l.instance /\ w.bound = l.bound
      /\ w.contexts = [s \in Session |-> IF s = leaving.session THEN Len(opened) + 1
                                         ELSE IF l.bound[s] = F!None THEN 0 ELSE l.contexts[s]]
  <2>1. F!Live(l) = Len(opened) + 1 /\ F!Last(l.opened) = leaving.session
    BY <1>5, <1>6 DEF F!Live, F!Last
  <2>2. w = [l EXCEPT !.contexts = [s \in Session |-> IF s = leaving.session THEN Len(opened) + 1
                                         ELSE IF l.bound[s] = F!None THEN 0 ELSE @[s]]]
    BY <1>2, <2>1 DEF F!SetLive
  <2>3. QED
    BY <1>6, <2>2 DEF MemoryFields
<1>8. IsSeq(command) /\ Len(command) \in Nat /\ \A c \in 1 .. Len(command) : DOMAIN command[c] = CommandFields
  BY MemoryIs, SeqIs DEF Ahead, Shape
<1>9. IsSeq(q) /\ Len(q) = Len(command)
  <2>1. q \in [1 .. Len(command) -> {q[c] : c \in 1 .. Len(command)}]
    BY <1>3
  <2>2. q \in Seq({q[c] : c \in 1 .. Len(command)}) /\ Len(q) = Len(command)
    BY <1>8, <2>1
  <2>3. QED
    BY <2>2 DEF IsSeq
<1>10. \A c \in 1 .. Len(command) : q[c] = [command[c] EXCEPT !.strayed = @ \/ command[c].run = F!None]
  BY <1>3
<1>11. \A c \in 1 .. Len(command) : Turns(q[c], command[c])
  BY <1>8, <1>10 DEF Turns, CommandFields
<1>12. \A c \in 1 .. Len(q) : DOMAIN q[c] = CommandFields /\ q[c].instance \in Nat /\ q[c].instance <= instance
                              /\ q[c].context \in 1 .. Len(o)
  <2>1. \A c \in 1 .. Len(command) : q[c].instance = command[c].instance /\ q[c].context = command[c].context
    BY <1>11 DEF Turns
  <2>2. \A c \in 1 .. Len(command) :
          command[c].instance \in Nat /\ command[c].instance <= instance /\ command[c].context \in 1 .. Len(opened)
    BY DEF FooterTyped
  <2>3. \A c \in 1 .. Len(command) : DOMAIN q[c] = CommandFields
    BY <1>11 DEF Turns
  <2>4. 1 .. Len(opened) \subseteq 1 .. Len(o)
    BY <1>5, OpenedIs
  <2>5. QED
    BY <1>9, <2>1, <2>2, <2>3, <2>4
<1>13. Ahead(w)
  <2>1. w.instance \in Nat /\ instance <= w.instance /\ instance \in Nat
    BY <1>6, <1>7 DEF FooterTyped
  <2>2. \A c \in 1 .. Len(q) : q[c].instance <= w.instance
    BY <1>12, <2>1
  <2>3. Shape(w)
    BY <1>7, <1>9, <1>12 DEF Shape
  <2>4. QED
    BY <1>5, <1>7, <1>8, <1>9, <1>12, <1>11, <2>1, <2>2, <2>3 DEF Ahead
<1>14. w.contexts = [s \in Session |-> IF s = leaving.session THEN Len(opened) + 1
                                       ELSE IF reload \/ bound[s] = F!None THEN 0 ELSE contexts[s]]
  BY <1>6, <1>7
<1>16. QED
  BY <1>4, <1>6, <1>7, <1>9, <1>10, <1>13, <1>14

(* How a new session begins, w, and what the handler makes of it, x.        *)
Previous(told) == IF told THEN F!Last(opened) ELSE Elsewhere
Foundable(told) == {r \in Run : state[r].status # "none" /\ F!Fits(saved[r], leaving.session, Previous(told))}
Begins(w, told) ==
  IF F!Replacement(w, leaving.session, Previous(told)) # 0 \/ Foundable(told) = {}
  THEN F!Resumed(w, F!Replacement(w, leaving.session, Previous(told)), leaving.session)
  ELSE UNION {F!Resumed(F!Recover(w, r), Len(bindings) + 1, leaving.session) : r \in Foundable(told)}

LEMMA SessionIs ==
  ASSUME FooterTyped, F!SessionStart
  PROVE  \E reload \in BOOLEAN, told \in BOOLEAN : \E w, x :
           /\ w = F!SetLive(F!Loaded(reload)) /\ F!Becomes(x) /\ Keeps(x, w) /\ x \in Begins(w, told)
           /\ leaving.session = F!Last(opened) => reload
           /\ told \/ leaving.told
<1>1. PICK reload \in BOOLEAN, told \in BOOLEAN :
        LET w == F!SetLive(F!Loaded(reload))
            previous == IF told THEN F!Last(opened) ELSE Elsewhere
            k == F!Replacement(w, leaving.session, previous)
            found == {r \in Run : state[r].status # "none" /\ F!Fits(saved[r], leaving.session, previous)} IN
        /\ leaving.session = F!Last(opened) => reload
        /\ told \/ leaving.told
        /\ \E x \in (IF k # 0 \/ found = {} THEN F!Resumed(w, k, leaving.session)
             ELSE UNION {F!Resumed(F!Recover(w, r), Len(bindings) + 1, leaving.session) : r \in found}) : F!Becomes(x)
  BY DEF F!SessionStart
<1>2. PICK w : w = F!SetLive(F!Loaded(reload))
  OBVIOUS
<1>3. PICK x : x \in Begins(w, told) /\ F!Becomes(x)
  BY <1>1, <1>2 DEF Begins, Foundable, Previous
<1>4. Ahead(w)
  BY <1>2, LoadedIs DEF F!SessionStart
<1>5. Keeps(x, w)
  <2>1. ASSUME NEW k, x \in F!Resumed(w, k, leaving.session)
        PROVE  Keeps(x, w)
    BY <1>4, <2>1, ResumedKeeps DEF Ahead
  <2>2. ASSUME NEW r, x \in F!Resumed(F!Recover(w, r), Len(bindings) + 1, leaving.session)
        PROVE  Keeps(x, w)
    <3>1. PICK u : u = F!Recover(w, r)
      OBVIOUS
    <3>2. DOMAIN u = DOMAIN w /\ u.opened = w.opened /\ u.instance = w.instance /\ u.command = w.command
      BY <1>4, <3>1 DEF F!Recover, Ahead, Shape, MemoryFields
    <3>3. Keeps(u, w)
      BY <1>4, <3>2, KeepsAll DEF Ahead
    <3>4. Keeps(x, u)
      BY <2>2, <3>1, <3>3, ResumedKeeps DEF Keeps
    <3>5. QED
      BY <3>3, <3>4, KeepsOn
  <2>3. QED
    BY <1>3, <2>1, <2>2 DEF Begins
<1>6. QED
  BY <1>1, <1>2, <1>3, <1>5

LEMMA SessionMoves ==
  ASSUME FooterTyped, F!SessionStart
  PROVE  FooterTyped' /\ OnlyOn /\ Len(command') = Len(command)
<1>1. PICK reload \in BOOLEAN, told \in BOOLEAN :
        \E w, x : w = F!SetLive(F!Loaded(reload)) /\ F!Becomes(x) /\ Keeps(x, w)
  BY SessionIs
<1>2. PICK w, x : w = F!SetLive(F!Loaded(reload)) /\ F!Becomes(x) /\ Keeps(x, w)
  BY <1>1
<1>3. leaving # F!Staying /\ leaving' = F!Staying /\ UNCHANGED state
  BY DEF F!SessionStart
<1>4. Ahead(w) /\ Len(w.command) = Len(command)
  BY <1>2, <1>3, LoadedIs
<1>5. FooterTyped' /\ OnlyOn
  BY <1>2, <1>3, <1>4, Becoming
<1>6. QED
  BY <1>2, <1>4, <1>5 DEF Keeps, F!Becomes

LEMMA StepMoves == FooterTyped /\ [F!Next]_footer => FooterTyped' /\ OnlyOn
<1>. SUFFICES ASSUME FooterTyped, [F!Next]_footer
              PROVE  FooterTyped' /\ OnlyOn
  OBVIOUS
<1>1. CASE UNCHANGED footer
  BY <1>1, QuietMoves DEF footer, FooterTyped
<1>2. CASE F!Enter(TRUE) \/ F!Enter(FALSE)
  BY <1>2, EnterMoves
<1>3. CASE F!Clear
  BY <1>3, QuietMoves DEF F!Clear, FooterTyped
<1>4. CASE F!Shutdown
  <2>1. UNCHANGED <<opened, instance, command, state>>
    BY <1>4 DEF F!Shutdown
  <2>2. leaving' \in [session : Session, told : BOOLEAN]
    BY <1>4 DEF F!Shutdown
  <2>3. QED
    BY <2>1, <2>2, QuietMoves
<1>5. CASE F!SessionStart
  BY <1>5, SessionMoves
<1>6. ASSUME NEW c \in F!Commands, F!Bind(c) \/ F!Work(c) \/ F!Finish(c) \/ F!Stop(c) \/ F!Tick(c)
      PROVE  FooterTyped' /\ OnlyOn
  <2>1. c \in 1 .. Len(command)
    BY DEF F!Commands
  <2>2. QED
    BY <1>6, <2>1, BindMoves, WorkMoves, StopMoves, TickMoves
<1>7. QED
  BY <1>1, <1>2, <1>3, <1>4, <1>5, <1>6 DEF F!Next

-----------------------------------------------------------------------------
(* What is painted.                                                         *)

LEMMA FooterCounts == ASSUME NEW X PROVE F!Cardinality(X) = Cardinality(X)
BY DEF F!Cardinality, Cardinality

LEMMA FooterAssumed == F!FooterAssumption
BY ToolsAssumption DEF ToolsAssumption

LEMMA SelectedIs ==
  /\ \A r \in Run : \A s : F!Selected(r, s) = IF state[r].status # "none" THEN r ELSE F!None
  /\ Apart(F!None) => \A s \in Session : F!Selected(F!None, s) = F!None
<1>. F!None \notin Run /\ Elsewhere \notin Session
  BY FooterAssumed DEF F!FooterAssumption, F!None
<1>. Cardinality({}) = 0 /\ \A r : Cardinality({r}) = 1
  BY FS_EmptySet, FS_Singleton
<1>1. ASSUME NEW r \in Run, NEW s
      PROVE  F!Selected(r, s) = IF state[r].status # "none" THEN r ELSE F!None
  <2>1. PICK own : own = {q \in Run : state[q].status # "none" /\ IF r = F!None THEN state[q].session = s ELSE q = r}
    OBVIOUS
  <2>2. F!Selected(r, s) = IF Cardinality(own) = 1 THEN CHOOSE q \in own : TRUE ELSE F!None
    BY <2>1, FooterCounts DEF F!Selected
  <2>3. own = IF state[r].status # "none" THEN {r} ELSE {}
    BY <2>1
  <2>4. QED
    BY <2>2, <2>3
<1>2. ASSUME Apart(F!None), NEW s \in Session
      PROVE  F!Selected(F!None, s) = F!None
  <2>1. PICK own : own = {q \in Run : state[q].status # "none" /\ IF F!None = F!None THEN state[q].session = s ELSE q = F!None}
    OBVIOUS
  <2>2. F!Selected(F!None, s) = IF Cardinality(own) = 1 THEN CHOOSE q \in own : TRUE ELSE F!None
    BY <2>1, FooterCounts DEF F!Selected
  <2>3. own = {}
    BY <1>2, <2>1 DEF Apart
  <2>4. QED
    BY <2>2, <2>3
<1>3. QED
  BY <1>1, <1>2

(* The heartbeat of the first command paints its run.                       *)
LEMMA PaintHolds ==
  ASSUME FooterTyped, NEW w, Ahead(w), Held(w), Apart(w.command[1].run), NEW x \in F!Updates(w, 1, FALSE)
  PROVE  /\ Holds(x) /\ x.bindings[1].target = w.bindings[1].target
         /\ w.command[1].first = FALSE /\ w.command[1].run # F!None /\ state[w.command[1].run].status # "none" =>
              x.shown = [run |-> w.command[1].run, text |-> state[w.command[1].run].status]
<1>1. PICK c, b, live, s : c = w.command[1] /\ b = w.bindings[1] /\ live = Len(w.opened) /\ s = w.opened[live]
  OBVIOUS
<1>2. /\ Len(w.bindings) = 1 /\ DOMAIN b = BindingFields /\ DOMAIN c = CommandFields /\ DOMAIN w = MemoryFields
      /\ b.of = 1 /\ b.owner = s /\ b.run = c.run /\ w.contexts[s] = live /\ c.context \in 1 .. live
      /\ c.run \in Run \cup {F!None} /\ c.beat \in {F!None, c.run}
      /\ c.run = F!None => c.context = live /\ \A q \in Session : w.bound[q] = F!None
      /\ c.run # F!None => w.bound[s] = c.run
      /\ IsSeq(w.bindings) /\ IsSeq(w.command) /\ Len(w.command) = 1
  BY <1>1 DEF Held, Ahead, Shape
<1>3. live \in Nat \ {0} /\ \A k \in 1 .. live : w.opened[k] \in Session
  BY <1>1, LenProperties, EmptySeq, ElementOfSeq DEF Ahead
<1>4. F!BindingOf(w, 1) = 1
  BY <1>1, <1>2 DEF F!BindingOf
<1>5. F!Found(w, 1, FALSE) = {live}
  BY <1>1, <1>2, <1>4 DEF F!Found, F!Live
<1>6. F!Beat(w, 1, live) = c.run
  <2>1. F!Own(w, 1) \in Session
    BY <1>1, <1>2, <1>3 DEF F!Own
  <2>2. c.run = F!None => F!Selected(F!None, F!Own(w, 1)) = F!None
    BY <1>1, <2>1, SelectedIs
  <2>3. s \in Session
    BY <1>1, <1>3
  <2>4. QED
    BY <1>1, <1>2, <2>2, <2>3 DEF F!Beat
<1>7. PICK text : text = IF c.first THEN F!Neutral ELSE F!TextOf(c.run, F!Own(w, 1))
  OBVIOUS
<1>8. PICK a, e : a = [c EXCEPT !.beat = c.run] /\ e = [b EXCEPT !.text = IF c.run = F!None THEN @ ELSE text.text]
  OBVIOUS
<1>9. PICK u : u = [w EXCEPT !.command[1].beat = c.run]
  OBVIOUS
<1>10. u = [w EXCEPT !.command = Put(w.command, 1, a)]
  BY <1>1, <1>2, <1>8, <1>9 DEF Put, MemoryFields
<1>11. PICK p : p = Put(w.command, 1, a)
  OBVIOUS
<1>12. DOMAIN u = MemoryFields /\ u.opened = w.opened /\ u.instance = w.instance /\ u.command = p
       /\ u.bindings = w.bindings /\ u.bound = w.bound /\ u.contexts = w.contexts /\ u.shown = w.shown
  BY <1>2, <1>10, <1>11 DEF MemoryFields
<1>13. F!BindingOf(u, 1) = 1
  BY <1>4, <1>12 DEF F!BindingOf
<1>14. F!Adopt(u, 1, live, c.run) = u
  BY <1>1, <1>2, <1>12, <1>13 DEF F!Adopt
<1>15. PICK y : y = F!Paint(w, 1, live)
  OBVIOUS
<1>16. y = [u EXCEPT !.shown = text, !.bindings[1].text = IF c.run = F!None THEN @ ELSE text.text]
  <2>1. [w EXCEPT !.command[1].beat = F!Beat(w, 1, live)] = u
    BY <1>6, <1>9
  <2>2. F!Live(w) = live /\ w.command[1].first = c.first
    BY <1>1 DEF F!Live
  <2>3. F!Adopt([w EXCEPT !.command[1].beat = F!Beat(w, 1, live)], 1, live, F!Beat(w, 1, live)) = u
    BY <1>6, <1>14, <2>1
  <2>4. text = IF w.command[1].first THEN F!Neutral ELSE F!TextOf(F!Beat(w, 1, live), F!Own(w, 1))
    BY <1>6, <1>7, <2>2
  <2>5. F!Paint(w, 1, live) = [u EXCEPT !.shown = IF live = F!Live(w) THEN text ELSE @,
                                        !.bindings[F!BindingOf(u, 1)].text = IF F!Beat(w, 1, live) = F!None THEN @ ELSE text.text]
    BY <2>3, <2>4 DEF F!Paint
  <2>6. QED
    BY <1>6, <1>13, <1>15, <2>2, <2>5
<1>17. DOMAIN y = MemoryFields /\ y.opened = w.opened /\ y.instance = w.instance /\ y.command = p
       /\ y.bindings = Put(w.bindings, 1, e) /\ y.bound = w.bound /\ y.contexts = w.contexts /\ y.shown = text
  BY <1>1, <1>8, <1>12, <1>16 DEF MemoryFields, Put
<1>18. x = [y EXCEPT !.command[1].first = FALSE]
  BY <1>3, <1>5, <1>15 DEF F!Updates
<1>19. PICK d : d = [p[1] EXCEPT !.first = FALSE]
  OBVIOUS
<1>20. DOMAIN x = MemoryFields /\ x.opened = w.opened /\ x.instance = w.instance /\ x.command = Put(p, 1, d)
       /\ x.bindings = Put(w.bindings, 1, e) /\ x.bound = w.bound /\ x.contexts = w.contexts /\ x.shown = text
  BY <1>17, <1>18, <1>19 DEF MemoryFields, Put
<1>21. IsSeq(p) /\ Len(p) = 1 /\ p[1] = a
  BY <1>2, <1>11, ReplacedSeq
<1>22. IsSeq(x.command) /\ Len(x.command) = 1 /\ x.command[1] = d
  <2>1. PICK q : q = x.command
    OBVIOUS
  <2>2. q = Put(p, 1, d)
    BY <1>20, <2>1
  <2>3. IsSeq(q) /\ Len(q) = 1 /\ q[1] = d
    BY <1>21, <2>2, ReplacedSeq
  <2>4. QED
    BY <2>1, <2>3
<1>23. IsSeq(x.bindings) /\ Len(x.bindings) = 1 /\ x.bindings[1] = e
  <2>1. PICK q, v : q = x.bindings /\ v = w.bindings
    OBVIOUS
  <2>2. q = Put(v, 1, e) /\ IsSeq(v) /\ Len(v) = 1
    BY <1>2, <1>20, <2>1
  <2>3. IsSeq(q) /\ Len(q) = 1 /\ q[1] = e
    BY <2>2, ReplacedSeq
  <2>4. QED
    BY <2>1, <2>3
<1>24. /\ d.run = c.run /\ d.beat = c.run /\ d.context = c.context /\ d.first = FALSE
  BY <1>2, <1>8, <1>19, <1>21 DEF CommandFields
<1>25. /\ DOMAIN e = BindingFields /\ e.of = b.of /\ e.instance = b.instance /\ e.active = b.active /\ e.run = b.run
       /\ e.owner = b.owner /\ e.file = b.file /\ e.target = b.target
       /\ c.run # F!None => e.text = text.text
  BY <1>2, <1>8 DEF BindingFields
<1>26. Held(x)
  BY <1>1, <1>2, <1>20, <1>22, <1>23, <1>24, <1>25 DEF Held
<1>27. c.run # F!None /\ ~ c.first =>
         text = IF state[c.run].status # "none" THEN [run |-> c.run, text |-> state[c.run].status] ELSE F!Neutral
  BY <1>2, <1>7, SelectedIs, FooterAssumed DEF F!TextOf, F!FooterAssumption, F!None
<1>28. c.run # F!None => text.text # "none"
  BY <1>7, <1>27 DEF F!Neutral
<1>29. Holds(x)
  BY <1>22, <1>23, <1>24, <1>25, <1>26, <1>28 DEF Holds
<1>30. QED
  BY <1>1, <1>20, <1>23, <1>25, <1>27, <1>29

(* Two fields of the first binding, and three.                              *)
Bearing(u, v) == [u EXCEPT !.bindings = v]
RunOn(e, r, f) == [e EXCEPT !.run = r, !.file = f]
Given(e, o, f, t) == [e EXCEPT !.owner = o, !.file = f, !.target = t]
RunsOn(u, r, f) == [u EXCEPT !.bindings[1].run = r, !.bindings[1].file = f]
GivenTo(u, o, f, t) == [u EXCEPT !.bindings[1].owner = o, !.bindings[1].file = f, !.bindings[1].target = t]

LEMMA FirstBinding ==
  ASSUME NEW u, DOMAIN u = MemoryFields, NEW v, u.bindings = v, 1 \in DOMAIN v, DOMAIN v[1] = BindingFields
  PROVE  /\ \A r, f : RunsOn(u, r, f) = Bearing(u, Put(v, 1, RunOn(v[1], r, f)))
         /\ \A o, f, t : GivenTo(u, o, f, t) = Bearing(u, Put(v, 1, Given(v[1], o, f, t)))
<1>1. \A r, f : RunsOn(u, r, f) = Bearing(u, Put(v, 1, RunOn(v[1], r, f)))
  BY DEF Put, MemoryFields, RunsOn, Bearing, RunOn
<1>2. \A o, f, t : GivenTo(u, o, f, t) = Bearing(u, Put(v, 1, Given(v[1], o, f, t)))
  <2>1. SUFFICES ASSUME NEW o, NEW f, NEW t PROVE GivenTo(u, o, f, t) = Bearing(u, Put(v, 1, Given(v[1], o, f, t)))
    OBVIOUS
  <2>2. PICK x : x = [u EXCEPT !.bindings[1].owner = o]
    OBVIOUS
  <2>3. DOMAIN x = MemoryFields /\ x = Bearing(u, Put(v, 1, [v[1] EXCEPT !.owner = o]))
    BY <2>2 DEF Put, MemoryFields, Bearing
  <2>4. PICK y : y = [x EXCEPT !.bindings[1].file = f, !.bindings[1].target = t]
    OBVIOUS
  <2>5. y = Bearing(u, Put(v, 1, Given(v[1], o, f, t)))
    BY <2>3, <2>4 DEF Put, MemoryFields, Bearing, Given
  <2>6. GivenTo(u, o, f, t) = y
    BY <2>2, <2>4 DEF GivenTo
  <2>7. QED
    BY <2>5, <2>6
<1>3. QED
  BY <1>1, <1>2

LEMMA AheadKeeps ==
  ASSUME NEW w, Ahead(w), NEW x, Keeps(x, w)
  PROVE  Ahead(x)
BY DEF Ahead, Keeps, Same, Turns, Shape

LEMMA MemoryHolds ==
  ASSUME NEW x, F!Becomes(x), Holds(x)
  PROVE  Holds(F!Memory)' /\ bindings' = x.bindings /\ command' = x.command /\ shown' = x.shown
BY DEF Holds, Held, F!Memory, F!Becomes

(* A command that is alone after a step was alone before it.                *)
LEMMA LoneOn ==
  ASSUME FooterTyped, OnlyOn, Len(command) = 1, Len(command') = 1, Lone', command'[1].at # "ended"
  PROVE  /\ Lone /\ command[1].at # "ended" /\ Turns(command'[1], command[1]) /\ instance' = instance
         /\ command[1].run = F!None => Apart(F!None)
<1>1. Turns(command'[1], command[1])
  BY DEF OnlyOn
<1>2. instance' = instance /\ command[1].instance = instance
  BY <1>1 DEF Lone, OnlyOn, FooterTyped, Turns
<1>3. Apart(command[1].run)
  <2>1. SUFFICES ASSUME NEW q \in Run, state[q].status # "none", q # command[1].run
                 PROVE  state[q].session = Elsewhere
    BY DEF Apart
  <2>2. state'[q].status # "none" /\ state'[q].session = state[q].session
    BY <2>1 DEF OnlyOn
  <2>3. q = command'[1].run \/ state'[q].session = Elsewhere
    BY <2>2 DEF Lone, Apart
  <2>4. q # command'[1].run
    BY <1>1, <2>1 DEF Turns, Lone
  <2>5. QED
    BY <2>2, <2>3, <2>4
<1>4. QED
  BY <1>1, <1>2, <1>3 DEF Lone, Turns

LEMMA TickFollows ==
  ASSUME FooterInv, NEW c \in 1 .. Len(command), F!Tick(c), Len(command) = 1, Lone, command[1].at # "ended"
  PROVE  /\ Holds(F!Memory)' /\ Leaves(bindings[1])' /\ Working'
         /\ command[1].at = "working" => shown' = [run |-> command[1].run, text |-> "running"]
<1>1. Holds(F!Memory) /\ Leaves(bindings[1]) /\ Working /\ FooterTyped /\ c = 1
  BY DEF FooterInv, Following
<1>2. PICK x \in F!Updates(F!Memory, 1, FALSE) : F!Becomes(x) /\ UNCHANGED <<leaving, state>>
  BY <1>1 DEF F!Tick
<1>3. Ahead(F!Memory) /\ F!Memory.command = command /\ F!Memory.bindings = bindings
  BY <1>1, MemoryIs
<1>4. Held(F!Memory) /\ Apart(F!Memory.command[1].run)
  BY <1>1, <1>3 DEF Holds, Lone
<1>5. /\ Holds(x) /\ x.bindings[1].target = bindings[1].target
      /\ command[1].first = FALSE /\ command[1].run # F!None /\ state[command[1].run].status # "none" =>
           x.shown = [run |-> command[1].run, text |-> state[command[1].run].status]
  BY <1>1, <1>3, <1>4, PaintHolds
<1>6. Keeps(x, F!Memory)
  BY <1>3, UpdatesKeep DEF Ahead
<1>7. Holds(F!Memory)' /\ bindings' = x.bindings /\ command' = x.command /\ shown' = x.shown
  BY <1>2, <1>5, MemoryHolds
<1>8. command'[1].run = command[1].run /\ command'[1].at = command[1].at
  <2>1. \A d \in 1 .. Len(command) : Same(x.command[d], command[d])
    BY <1>3, <1>6 DEF Keeps
  <2>2. Same(x.command[1], command[1])
    BY <2>1
  <2>3. QED
    BY <1>7, <2>2 DEF Same
<1>9. command[1].first = FALSE
  BY <1>1, <1>3 DEF Holds
<1>10. QED
  BY <1>1, <1>2, <1>5, <1>7, <1>8, <1>9 DEF Leaves, Working

(* A run is bound: the binding takes it.                                    *)
LEMMA BindFollows ==
  ASSUME FooterInv, F!Bind(1), Len(command) = 1, Lone, command[1].at # "ended"
  PROVE  Holds(F!Memory)' /\ Leaves(bindings[1])' /\ Working'
<1>1. Holds(F!Memory) /\ Leaves(bindings[1]) /\ FooterTyped
  BY DEF FooterInv, Following
<1>2. PICK r \in Run : LET w == [F!Memory EXCEPT !.command[1].run = r] IN
        \E x \in (IF command[1].instance = instance THEN F!Bound(w, F!Own(w, 1), command[1].context, r)
                  ELSE F!Told(w, command[1].instance, F!Own(w, 1), r)) :
          F!Becomes(x) /\ (state[r].status = "none" \/ (~ command[1].auto /\ state[r].status = "ended"))
  BY DEF F!Bind
<1>3. PICK w : w = [F!Memory EXCEPT !.command[1].run = r]
  OBVIOUS
<1>4. PICK x : x \in F!Bound(w, F!Own(w, 1), command[1].context, r) /\ F!Becomes(x) /\ state[r].status = "none"
  BY <1>2, <1>3 DEF Lone
<1>5. PICK a : a = [command[1] EXCEPT !.run = r]
  OBVIOUS
<1>6. w = Beating(F!Memory, 1, a)
  BY <1>1, <1>3, <1>5, MemoryIs DEF Beating
<1>7. DOMAIN command[1] = CommandFields /\ command[1].run = F!None /\ command[1].at = "preparing"
  BY <1>1, MemoryIs DEF Ahead, Shape, F!Bind
<1>8. Turns(a, command[1]) /\ a.run = r /\ a.beat = command[1].beat /\ a.context = command[1].context
      /\ a.first = command[1].first /\ a.at = "preparing"
  BY <1>4, <1>5, <1>7 DEF Turns, CommandFields
<1>9. /\ Ahead(w) /\ DOMAIN w = MemoryFields /\ w.opened = opened /\ w.bound = bound /\ w.contexts = contexts
      /\ w.bindings = bindings /\ w.instance = instance /\ Len(w.command) = 1 /\ w.command[1] = a
  BY <1>1, <1>6, <1>8, MovedOn
<1>10. PICK b, live, s : b = bindings[1] /\ live = Len(opened) /\ s = opened[live]
  OBVIOUS
<1>11. /\ IsSeq(bindings) /\ Len(bindings) = 1 /\ DOMAIN b = BindingFields
       /\ b.of = 1 /\ b.instance = instance /\ b.active = TRUE /\ b.run = F!None
       /\ b.owner = s /\ b.file = s /\ contexts[s] = live
       /\ command[1].context = live /\ command[1].beat = F!None /\ \A q \in Session : bound[q] = F!None
       /\ command[1].first = FALSE
  BY <1>1, <1>7, <1>10, MemoryIs DEF Holds, Held
<1>12. F!Own(w, 1) = s /\ s \in Session /\ live \in Nat \ {0}
  BY <1>1, <1>8, <1>9, <1>10, <1>11, OpenedIs DEF F!Own
<1>13. PICK u : u = [w EXCEPT !.contexts = [q \in Session |-> IF q = s THEN live ELSE IF w.bound[q] = r THEN 0 ELSE @[q]],
                              !.bound = [q \in Session |-> IF q = s THEN r ELSE IF @[q] = r THEN F!None ELSE @[q]]]
  OBVIOUS
<1>14. x \in F!Told(u, instance, s, r)
  BY <1>4, <1>9, <1>11, <1>12, <1>13 DEF F!Bound
<1>15. /\ DOMAIN u = MemoryFields /\ u.opened = opened /\ u.bindings = bindings /\ u.instance = instance
       /\ u.command = w.command /\ u.contexts[s] = live /\ u.bound[s] = r
  BY <1>9, <1>12, <1>13 DEF MemoryFields
<1>16. F!Listener(u, instance, s, r) = 1
  <2>1. F!Known(u, instance) = {1}
    <3>1. F!Known(u, instance) = {k \in 1 .. 1 : bindings[k].instance = instance /\ bindings[k].active}
      BY <1>11, <1>15 DEF F!Known
    <3>2. 1 .. 1 = {1} /\ bindings[1].instance = instance /\ bindings[1].active
      BY <1>10, <1>11
    <3>3. QED
      BY <3>1, <3>2
  <2>2. {k \in F!Known(u, instance) : u.bindings[k].owner = s /\ u.bindings[k].run \in {F!None, r}} = {1}
    BY <1>10, <1>11, <1>15, <2>1
  <2>3. QED
    BY <2>2 DEF F!Listener, F!First
<1>17. PICK e : e = [b EXCEPT !.run = r, !.file = s]
  OBVIOUS
<1>18. PICK v : v = [u EXCEPT !.bindings = Put(bindings, 1, e)]
  OBVIOUS
<1>19. PICK y : y = F!Persist(v, 1)
  OBVIOUS
<1>20. x \in F!Updates(y, 1, FALSE)
  <2>1. [u EXCEPT !.bindings[1].run = r, !.bindings[1].file = s] = v
    <3>1. PICK n : n = [u EXCEPT !.bindings[1].run = r, !.bindings[1].file = s]
      OBVIOUS
    <3>2. /\ DOMAIN u = MemoryFields /\ u.bindings = bindings /\ bindings[1] = b
          /\ 1 \in DOMAIN bindings /\ DOMAIN bindings[1] = BindingFields
      BY <1>10, <1>11, <1>15 DEF IsSeq
    <3>3. RunsOn(u, r, s) = Bearing(u, Put(bindings, 1, RunOn(b, r, s)))
      BY <3>2, FirstBinding
    <3>4. n = RunsOn(u, r, s)
      BY <3>1 DEF RunsOn
    <3>5. v = Bearing(u, Put(bindings, 1, e)) /\ e = RunOn(b, r, s)
      BY <1>17, <1>18 DEF Bearing, RunOn
    <3>6. QED
      BY <3>1, <3>3, <3>4, <3>5
  <2>2. u.instance = instance /\ u.bindings[1].of = 1
    BY <1>10, <1>11, <1>15
  <2>3. F!Told(u, instance, s, r) = F!Updates(y, 1, FALSE)
    BY <1>16, <1>19, <2>1, <2>2 DEF F!Told
  <2>4. QED
    BY <1>14, <2>3
<1>21. PICK t : t = Put(bindings, 1, e)
  OBVIOUS
<1>22. IsSeq(t) /\ Len(t) = 1 /\ t[1] = e
  BY <1>11, <1>21, ReplacedSeq
<1>23. /\ DOMAIN e = BindingFields /\ e.of = 1 /\ e.instance = instance /\ e.active = TRUE /\ e.run = r
       /\ e.owner = s /\ e.file = s /\ e.target = b.target
  BY <1>11, <1>17 DEF BindingFields
<1>24. /\ DOMAIN y = MemoryFields /\ y.opened = opened /\ y.bindings = t /\ y.instance = instance
       /\ y.command = w.command /\ y.contexts = u.contexts /\ y.bound = u.bound
  BY <1>15, <1>18, <1>19, <1>21 DEF F!Persist, MemoryFields
<1>25. Keeps(y, w) /\ Ahead(y)
  <2>1. Keeps(y, w)
    BY <1>9, <1>24, KeepsAll DEF Ahead
  <2>2. QED
    BY <1>9, <2>1, AheadKeeps
<1>26. Held(y)
  BY <1>8, <1>9, <1>10, <1>11, <1>12, <1>15, <1>22, <1>23, <1>24, FooterAssumed DEF Held, F!FooterAssumption, F!None
<1>27. Apart(r)
  BY <1>7, FooterAssumed DEF Lone, Apart, F!FooterAssumption, F!None
<1>28. Holds(x) /\ x.bindings[1].target = b.target
  <2>1. y.command[1].run = r /\ y.bindings[1].target = b.target
    BY <1>8, <1>9, <1>22, <1>23, <1>24
  <2>2. Apart(y.command[1].run)
    BY <1>27, <2>1
  <2>3. Holds(x) /\ x.bindings[1].target = y.bindings[1].target
    BY <1>1, <1>20, <1>25, <1>26, <2>2, PaintHolds
  <2>4. QED
    BY <2>1, <2>3
<1>29. Holds(F!Memory)' /\ bindings' = x.bindings /\ command' = x.command
  BY <1>4, <1>28, MemoryHolds
<1>30. command'[1].at = "preparing"
  <2>1. Keeps(x, y)
    BY <1>20, <1>25, UpdatesKeep DEF Ahead
  <2>2. Same(x.command[1], y.command[1])
    BY <1>9, <1>24, <2>1 DEF Keeps
  <2>3. QED
    BY <1>8, <1>9, <1>24, <1>29, <2>2 DEF Same
<1>31. UNCHANGED <<leaving, state>>
  BY DEF F!Bind
<1>32. QED
  BY <1>1, <1>10, <1>28, <1>29, <1>30, <1>31 DEF Leaves, Working

(* The first command begins.                                                *)
LEMMA EnterFollows ==
  ASSUME FooterInv, F!Enter(TRUE), Len(command) = 0, Apart(F!None)
  PROVE  Holds(F!Memory)' /\ Leaves(bindings[1])' /\ Working'
<1>1. /\ FooterTyped /\ bindings = <<>> /\ \A q \in Session : bound[q] = F!None
      /\ leaving = F!Staying /\ UNCHANGED <<leaving, state>>
  BY DEF FooterInv, Before, F!Enter
<1>2. PICK live, s : live = Len(opened) /\ s = opened[live]
  OBVIOUS
<1>3. live \in Nat \ {0} /\ s \in Session
  BY <1>1, <1>2, OpenedIs
<1>4. PICK p, t : p = Append(command, F!Command(TRUE)) /\ t = Append(bindings, F!Binding(s))
  OBVIOUS
<1>5. PICK w : w = [F!SetLive(F!Memory) EXCEPT !.command = Append(@, F!Command(TRUE))]
  OBVIOUS
<1>6. /\ DOMAIN w = MemoryFields /\ w.opened = opened /\ w.instance = instance /\ w.command = p
      /\ w.bindings = bindings /\ w.bound = bound /\ w.contexts[s] = live
  <2>1. F!Last(F!Memory.opened) = s /\ F!Live(F!Memory) = live
    BY <1>1, <1>2, MemoryIs DEF F!Last, F!Live
  <2>2. PICK l : l = F!SetLive(F!Memory)
    OBVIOUS
  <2>3. /\ DOMAIN l = MemoryFields /\ l.opened = opened /\ l.instance = instance /\ l.command = command
        /\ l.bindings = bindings /\ l.bound = bound /\ l.contexts[s] = live
    <3>1. PICK n : n = [q \in Session |-> IF q = s THEN live ELSE IF bound[q] = F!None THEN 0 ELSE contexts[q]]
      OBVIOUS
    <3>2. l = [F!Memory EXCEPT !.contexts = n]
      BY <1>1, <2>1, <2>2, <3>1, MemoryIs DEF F!SetLive
    <3>3. n[s] = live
      BY <1>3, <3>1
    <3>4. QED
      BY <3>2, <3>3 DEF F!Memory, MemoryFields
  <2>4. w = [l EXCEPT !.command = p]
    BY <1>4, <1>5, <2>2, <2>3
  <2>5. QED
    BY <2>3, <2>4 DEF MemoryFields
<1>7. PICK u : u = [w EXCEPT !.bindings = Append(@, F!Binding(s))]
  OBVIOUS
<1>8. /\ DOMAIN u = MemoryFields /\ u.opened = opened /\ u.instance = instance /\ u.command = p
      /\ u.bindings = t /\ u.bound = bound /\ u.contexts[s] = live
  BY <1>4, <1>6, <1>7 DEF MemoryFields
<1>9. PICK x \in F!Updates(u, 1, FALSE) : F!Becomes(x)
  <2>1. F!Last(opened) = s /\ Len(command) + 1 = 1
    BY <1>2 DEF F!Last
  <2>2. \E x \in F!Updates([w EXCEPT !.bindings = Append(@, F!Binding(F!Last(opened)))], Len(command) + 1, FALSE) : F!Becomes(x)
    BY <1>5 DEF F!Enter
  <2>3. QED
    BY <1>7, <2>1, <2>2
<1>10. PICK a, b : a = F!Command(TRUE) /\ b = F!Binding(s)
  OBVIOUS
<1>11. IsSeq(p) /\ Len(p) = 1 /\ p[1] = a
  <2>1. IsSeq(command)
    BY <1>1, MemoryIs DEF Ahead, Shape
  <2>2. p = Append(command, a)
    BY <1>4, <1>10
  <2>3. IsSeq(p) /\ Len(p) = Len(command) + 1 /\ p[Len(command) + 1] = a
    BY <2>1, <2>2, AppendedSeq
  <2>4. QED
    BY <2>3
<1>12. IsSeq(t) /\ Len(t) = 1 /\ t[1] = b
  <2>1. IsSeq(bindings) /\ Len(bindings) = 0
    BY <1>1, EmptySeq DEF IsSeq
  <2>2. t = Append(bindings, b)
    BY <1>4, <1>10
  <2>3. IsSeq(t) /\ Len(t) = Len(bindings) + 1 /\ t[Len(bindings) + 1] = b
    BY <2>1, <2>2, AppendedSeq
  <2>4. QED
    BY <2>1, <2>3
<1>13. /\ DOMAIN a = CommandFields /\ a.context = live /\ a.instance = instance /\ a.run = F!None /\ a.beat = F!None
       /\ a.at = "preparing"
  BY <1>2, <1>10 DEF F!Command, CommandFields
<1>14. /\ DOMAIN b = BindingFields /\ b.of = 1 /\ b.instance = instance /\ b.active = TRUE /\ b.run = F!None
       /\ b.owner = s /\ b.file = s
  BY <1>10 DEF F!Binding, BindingFields
<1>15. Held(u)
  BY <1>1, <1>2, <1>3, <1>8, <1>11, <1>12, <1>13, <1>14 DEF Held
<1>16. Ahead(u)
  <2>1. Shape(u)
    BY <1>8, <1>11, <1>13 DEF Shape
  <2>2. \A c \in 1 .. Len(p) : c = 1
    BY <1>11
  <2>3. QED
    BY <1>1, <1>2, <1>3, <1>8, <1>11, <1>13, <2>1, <2>2 DEF Ahead, FooterTyped
<1>17. Holds(x)
  BY <1>1, <1>8, <1>9, <1>11, <1>13, <1>15, <1>16, PaintHolds
<1>18. Holds(F!Memory)' /\ command' = x.command
  BY <1>9, <1>17, MemoryHolds
<1>19. command'[1].at = "preparing"
  <2>1. Keeps(x, u)
    BY <1>9, <1>16, UpdatesKeep DEF Ahead
  <2>2. Same(x.command[1], p[1])
    BY <1>8, <1>11, <2>1 DEF Keeps
  <2>3. QED
    BY <1>11, <1>13, <1>18, <2>2 DEF Same
<1>20. QED
  BY <1>1, <1>18, <1>19 DEF Leaves, Working

(* Nothing the first command and its binding hold is touched.               *)
LEMMA QuietFollows ==
  ASSUME Holds(F!Memory), Leaves(bindings[1]), UNCHANGED <<opened, leaving, instance, bound, contexts, bindings, command>>
  PROVE  Holds(F!Memory)' /\ Leaves(bindings[1])'
BY DEF Holds, Held, Leaves, F!Memory

(* The command is at another place.                                         *)
LEMMA WorkFollows ==
  ASSUME FooterInv, F!Work(1) \/ F!Finish(1), Len(command) = 1, Lone, command[1].at # "ended"
  PROVE  Holds(F!Memory)' /\ Leaves(bindings[1])' /\ Working'
<1>1. Holds(F!Memory) /\ Leaves(bindings[1]) /\ Working /\ FooterTyped
  BY DEF FooterInv, Following
<1>2. PICK at \in {"working", "finished"} : command' = [command EXCEPT ![1].at = at]
  BY DEF F!Work, F!Finish
<1>3. PICK a : a = [command[1] EXCEPT !.at = at]
  OBVIOUS
<1>4. IsSeq(command) /\ DOMAIN command[1] = CommandFields
  BY <1>1, MemoryIs DEF Ahead, Shape
<1>5. Len(command') = 1 /\ command'[1] = a
  <2>1. command' = Put(command, 1, a)
    BY <1>2, <1>3 DEF Put
  <2>2. QED
    BY <1>4, <2>1, ReplacedSeq
<1>6. /\ a.run = command[1].run /\ a.beat = command[1].beat /\ a.context = command[1].context
      /\ a.first = command[1].first /\ a.at = at
  BY <1>3, <1>4 DEF CommandFields
<1>7. UNCHANGED <<opened, leaving, instance, bound, contexts, bindings>>
  BY DEF F!Work, F!Finish
<1>8. Holds(F!Memory)' /\ Leaves(bindings[1])'
  BY <1>1, <1>5, <1>6, <1>7 DEF Holds, Held, Leaves, F!Memory
<1>9. Working'
  <2>1. CASE F!Finish(1)
    <3>1. command' = [command EXCEPT ![1].at = "finished"]
      BY <2>1 DEF F!Finish
    <3>2. command'[1].at = "finished"
      BY <1>4, <3>1 DEF CommandFields
    <3>3. QED
      BY <3>2 DEF Working
  <2>2. CASE F!Work(1)
    <3>1. command[1].run # F!None /\ command[1].run \in Run
      BY <1>1, <2>2, MemoryIs DEF F!Work, Holds, Held
    <3>2. PICK s : s = F!Own(F!Memory, 1)
      OBVIOUS
    <3>3. state' = [state EXCEPT ![command[1].run] = [status |-> "running", session |-> s]]
      BY <2>2, <3>2 DEF F!Work
    <3>4. QED
      BY <1>1, <1>5, <1>6, <3>1, <3>3 DEF Working, FooterTyped
  <2>3. QED
    BY <2>1, <2>2
<1>10. QED
  BY <1>8, <1>9

LEMMA OneSeq ==
  ASSUME NEW e, NEW t, t = [k \in 1 .. 1 |-> e]
  PROVE  IsSeq(t) /\ Len(t) = 1 /\ t[1] = e
<1>1. t \in [1 .. 1 -> {e}]
  OBVIOUS
<1>2. t \in Seq({e}) /\ Len(t) = 1
  BY <1>1
<1>3. t[1] = e
  OBVIOUS
<1>4. QED
  BY <1>2, <1>3 DEF IsSeq

(* The session is told that it ends.                                        *)
LEMMA ShutdownFollows ==
  ASSUME FooterInv, F!Shutdown, Len(command) = 1, Lone, command[1].at # "ended"
  PROVE  Holds(F!Memory)' /\ Leaves(bindings[1])' /\ Working'
<1>1. Holds(F!Memory) /\ Working /\ FooterTyped
  BY DEF FooterInv, Following
<1>2. PICK q \in Session, told \in BOOLEAN : 
        /\ leaving' = [session |-> q, told |-> told]
        /\ bindings' = [k \in 1 .. Len(bindings) |->
             IF k \in {j \in 1 .. Len(bindings) : F!Departs(bindings[j], F!Last(opened))}
             THEN F!Departing(bindings[k], F!Last(opened), IF told THEN q ELSE Elsewhere) ELSE bindings[k]]
  BY SMTT(30) DEF F!Shutdown
<1>3. UNCHANGED <<opened, shown, state, instance, bound, contexts, command>>
  BY DEF F!Shutdown
<1>4. PICK b, live, s : b = bindings[1] /\ live = Len(opened) /\ s = opened[live]
  OBVIOUS
<1>5. /\ IsSeq(bindings) /\ Len(bindings) = 1 /\ DOMAIN b = BindingFields
      /\ b.of = 1 /\ b.instance = instance /\ b.active = TRUE /\ b.run = command[1].run
      /\ b.owner = s /\ b.file = s /\ contexts[s] = live
      /\ command[1].run = F!None => \A r \in Session : bound[r] = F!None
      /\ command[1].run # F!None => b.text # "none"
  BY <1>1, <1>4, MemoryIs DEF Holds, Held
<1>6. F!Last(opened) = s /\ s \in Session
  BY <1>1, <1>4, OpenedIs DEF F!Last
<1>7. F!Departs(b, s)
  BY <1>5 DEF F!Departs
<1>8. PICK target : target = IF told THEN q ELSE Elsewhere
  OBVIOUS
<1>9. PICK e : e = F!Departing(b, s, target)
  OBVIOUS
<1>10. /\ DOMAIN e = BindingFields /\ e.of = 1 /\ e.instance = instance /\ e.active = TRUE
       /\ e.owner = s /\ e.file = s /\ e.target = target /\ e.text = b.text
       /\ e.run = b.run
  BY <1>5, <1>6, <1>9 DEF F!Departing, BindingFields
<1>11. IsSeq(bindings') /\ Len(bindings') = 1 /\ bindings'[1] = e
  <2>1. bindings' = [k \in 1 .. 1 |-> e]
    BY <1>2, <1>4, <1>5, <1>6, <1>7, <1>8, <1>9
  <2>2. QED
    BY <2>1, OneSeq
<1>12. Holds(F!Memory)'
  <2>1. F!Memory.opened = opened /\ F!Memory.contexts = contexts /\ F!Memory.bound = bound /\ F!Memory.command = command
    BY <1>1, MemoryIs
  <2>2. QED
    BY <1>1, <1>3, <1>4, <1>5, <1>10, <1>11 DEF Holds, Held, F!Memory
<1>13. Leaves(bindings[1])'
  BY <1>2, <1>8, <1>10, <1>11 DEF Leaves
<1>14. QED
  BY <1>1, <1>3, <1>12, <1>13 DEF Working

(* The session is replaced: the binding goes over to the new one.           *)
LEMMA SessionFollows ==
  ASSUME FooterInv, F!SessionStart, Len(command) = 1, Lone, command[1].at # "ended",
         Len(command') = 1, ~ command'[1].strayed, instance' = instance
  PROVE  Holds(F!Memory)' /\ Leaves(bindings[1])' /\ Working'
<1>1. Holds(F!Memory) /\ Leaves(bindings[1]) /\ Working /\ FooterTyped
  BY DEF FooterInv, Following
<1>2. leaving # F!Staying /\ leaving' = F!Staying /\ UNCHANGED state
  BY DEF F!SessionStart
<1>3. PICK reload \in BOOLEAN, told \in BOOLEAN : \E w, x :
        /\ w = F!SetLive(F!Loaded(reload)) /\ F!Becomes(x) /\ Keeps(x, w) /\ x \in Begins(w, told)
        /\ leaving.session = F!Last(opened) => reload
        /\ told \/ leaving.told
  BY <1>1, SessionIs
<1>4. PICK w, x :
        /\ w = F!SetLive(F!Loaded(reload)) /\ F!Becomes(x) /\ Keeps(x, w) /\ x \in Begins(w, told)
        /\ leaving.session = F!Last(opened) => reload
        /\ told \/ leaving.told
  BY <1>3
<1>5. PICK q, b, live, s, o : /\ q = leaving.session /\ b = bindings[1] /\ live = Len(opened) /\ s = opened[live]
                              /\ o = Append(opened, q)
  OBVIOUS
<1>6. q \in Session /\ s \in Session /\ live \in Nat \ {0} /\ Elsewhere \notin Session /\ F!Last(opened) = s
  BY <1>1, <1>2, <1>5, OpenedIs, FooterAssumed DEF FooterTyped, F!FooterAssumption, F!Last
<1>7. ~ reload
  <2>1. w.instance = IF reload THEN instance + 1 ELSE instance
    BY <1>1, <1>2, <1>4, LoadedIs
  <2>2. instance' = w.instance /\ instance \in Nat
    BY <1>1, <1>4 DEF Keeps, F!Becomes, FooterTyped
  <2>3. QED
    BY <2>1, <2>2
<1>8. PICK c : c = w.command[1]
  OBVIOUS
<1>9. /\ Ahead(w) /\ DOMAIN w = MemoryFields /\ w.opened = o /\ w.bindings = bindings /\ w.instance = instance
      /\ w.contexts[q] = live + 1 /\ Len(w.command) = 1
      /\ c = [command[1] EXCEPT !.strayed = @ \/ command[1].run = F!None]
  <2>1. /\ Ahead(w) /\ DOMAIN w = MemoryFields
        /\ w.opened = Append(opened, leaving.session) /\ w.bindings = bindings
        /\ w.instance = IF reload THEN instance + 1 ELSE instance
        /\ w.contexts = [r \in Session |-> IF r = leaving.session THEN Len(opened) + 1
                                           ELSE IF reload \/ bound[r] = F!None THEN 0 ELSE contexts[r]]
        /\ Len(w.command) = Len(command)
        /\ \A d \in 1 .. Len(command) : w.command[d] = [command[d] EXCEPT !.strayed = @ \/ command[d].run = F!None]
    BY <1>1, <1>2, <1>4, LoadedIs
  <2>2. c = [command[1] EXCEPT !.strayed = @ \/ command[1].run = F!None]
    BY <1>8, <2>1
  <2>3. w.contexts[q] = live + 1
    BY <1>5, <1>6, <2>1
  <2>4. QED
    BY <1>5, <1>7, <2>1, <2>2, <2>3
<1>10. DOMAIN command[1] = CommandFields
  BY <1>1, MemoryIs DEF Ahead, Shape
<1>11. /\ c.run = command[1].run /\ c.beat = command[1].beat /\ c.context = command[1].context /\ c.first = command[1].first
       /\ c.at = command[1].at /\ c.strayed = (command[1].strayed \/ command[1].run = F!None)
  BY <1>9, <1>10 DEF CommandFields
<1>12. Same(x.command[1], c) /\ command' = x.command
  <2>1. \A d \in 1 .. Len(w.command) : Same(x.command[d], w.command[d])
    BY <1>4 DEF Keeps
  <2>2. Same(x.command[1], w.command[1])
    BY <1>9, <2>1
  <2>3. QED
    BY <1>4, <1>8, <2>2 DEF F!Becomes
<1>13. c.run # F!None /\ c.run \in Run
  <2>1. c.run # F!None
    BY <1>11, <1>12 DEF Same
  <2>2. QED
    BY <1>1, <1>11, <2>1, MemoryIs DEF Holds, Held
<1>14. /\ IsSeq(bindings) /\ Len(bindings) = 1 /\ DOMAIN b = BindingFields
       /\ b.of = 1 /\ b.instance = instance /\ b.active = TRUE /\ b.run = c.run /\ b.owner = s /\ b.file = s
       /\ c.context \in 1 .. live /\ c.beat \in {F!None, c.run} /\ c.first = FALSE /\ b.text # "none"
  BY <1>1, <1>5, <1>11, <1>13, MemoryIs DEF Holds, Held
<1>15. o \in Seq(Session) /\ Len(o) = live + 1 /\ o[live + 1] = q
  BY <1>1, <1>5, <1>6, AppendProperties DEF FooterTyped
<1>16. F!Fits(b, q, Previous(told)) = TRUE
  <2>1. b.target = IF leaving.told THEN q ELSE Elsewhere
    BY <1>1, <1>2, <1>5 DEF Leaves
  <2>2. QED
    BY <1>4, <1>6, <1>14, <2>1 DEF F!Fits, Previous
<1>17. F!Known(w, instance) = {1}
  <2>1. F!Known(w, instance) = {k \in 1 .. 1 : bindings[k].instance = instance /\ bindings[k].active}
    BY <1>9, <1>14 DEF F!Known
  <2>2. 1 .. 1 = {1} /\ bindings[1].instance = instance /\ bindings[1].active
    BY <1>5, <1>14
  <2>3. QED
    BY <2>1, <2>2
<1>18. F!Replacement(w, q, Previous(told)) = 1
  <2>1. {k \in F!Known(w, w.instance) : F!Fits(w.bindings[k], q, Previous(told))} = {1}
    BY <1>5, <1>9, <1>16, <1>17
  <2>2. QED
    BY <2>1 DEF F!Replacement, F!First
<1>19. x \in F!Resumed(w, 1, q)
  BY <1>4, <1>5, <1>18 DEF Begins
<1>20. PICK y \in F!Bound(w, q, live + 1, c.run) : x = F!HandOver(y, 1, q)
  BY <1>5, <1>9, <1>13, <1>14, <1>15, <1>19 DEF F!Resumed, F!Live
<1>21. PICK u : u = [w EXCEPT !.contexts = [r \in Session |-> IF r = q THEN live + 1 ELSE IF w.bound[r] = c.run THEN 0 ELSE @[r]],
                              !.bound = [r \in Session |-> IF r = q THEN c.run ELSE IF @[r] = c.run THEN F!None ELSE @[r]]]
  OBVIOUS
<1>22. y \in F!Told(u, instance, q, c.run)
  BY <1>9, <1>20, <1>21 DEF F!Bound
<1>23. /\ DOMAIN u = MemoryFields /\ u.opened = o /\ u.bindings = bindings /\ u.instance = instance
       /\ u.command = w.command /\ u.contexts[q] = live + 1 /\ u.bound[q] = c.run
  BY <1>6, <1>9, <1>21 DEF MemoryFields
<1>24. y = u
  <2>1. F!Known(u, instance) = {1}
    BY <1>9, <1>17, <1>23 DEF F!Known
  <2>2. q # s
    BY <1>4, <1>5, <1>6, <1>7
  <2>3. {k \in F!Known(u, instance) : u.bindings[k].owner = q /\ u.bindings[k].run \in {F!None, c.run}} = {}
    BY <1>5, <1>14, <1>23, <2>1, <2>2
  <2>4. F!Listener(u, instance, q, c.run) = 0
    BY <2>3 DEF F!Listener, F!First
  <2>5. QED
    BY <1>22, <2>4 DEF F!Told
<1>25. PICK text : text = IF state[c.run].status # "none" THEN state[c.run].status ELSE b.text
  OBVIOUS
<1>26. text # "none"
  BY <1>14, <1>25
<1>27. PICK e, f : e = [b EXCEPT !.owner = q, !.file = q, !.target = Elsewhere] /\ f = [e EXCEPT !.text = text]
  OBVIOUS
<1>28. PICK t : t = Put(bindings, 1, e)
  OBVIOUS
<1>29. IsSeq(t) /\ Len(t) = 1 /\ t[1] = e
  BY <1>14, <1>28, ReplacedSeq
<1>30. PICK v, z : v = [u EXCEPT !.bindings = t] /\ z = F!Persist(v, 1)
  OBVIOUS
<1>31. [u EXCEPT !.bindings[1].owner = q, !.bindings[1].file = q, !.bindings[1].target = Elsewhere] = v
  <2>1. PICK n : n = [u EXCEPT !.bindings[1].owner = q, !.bindings[1].file = q, !.bindings[1].target = Elsewhere]
    OBVIOUS
  <2>2. /\ DOMAIN u = MemoryFields /\ u.bindings = bindings /\ bindings[1] = b
        /\ 1 \in DOMAIN bindings /\ DOMAIN bindings[1] = BindingFields
    BY <1>5, <1>14, <1>23 DEF IsSeq
  <2>3. GivenTo(u, q, q, Elsewhere) = Bearing(u, Put(bindings, 1, Given(b, q, q, Elsewhere)))
    BY <2>2, FirstBinding
  <2>4. n = GivenTo(u, q, q, Elsewhere)
    BY <2>1 DEF GivenTo
  <2>5. v = Bearing(u, Put(bindings, 1, e)) /\ e = Given(b, q, q, Elsewhere)
    BY <1>27, <1>28, <1>30 DEF Bearing, Given
  <2>6. QED
    BY <2>1, <2>3, <2>4, <2>5
<1>32. /\ DOMAIN z = MemoryFields /\ z.opened = o /\ z.bindings = t /\ z.instance = instance
       /\ z.command = w.command /\ z.contexts = u.contexts /\ z.bound = u.bound
  BY <1>23, <1>30 DEF F!Persist, MemoryFields
<1>33. PICK shows : x = [z EXCEPT !.bindings[1].text = text, !.shown = shows]
  <2>1. u.bindings[1] = b
    BY <1>5, <1>23
  <2>2. QED
    BY <1>14, <1>20, <1>24, <1>25, <1>26, <1>30, <1>31, <2>1 DEF F!HandOver
<1>34. /\ x.opened = o /\ x.bindings = Put(t, 1, f) /\ x.instance = instance
       /\ x.command = w.command /\ x.contexts = u.contexts /\ x.bound = u.bound
  BY <1>27, <1>29, <1>32, <1>33 DEF Put, MemoryFields
<1>35. IsSeq(x.bindings) /\ Len(x.bindings) = 1 /\ x.bindings[1] = f
  <2>1. PICK p : p = x.bindings
    OBVIOUS
  <2>2. IsSeq(p) /\ Len(p) = 1 /\ p[1] = f
    BY <1>29, <1>34, <2>1, ReplacedSeq
  <2>3. QED
    BY <2>1, <2>2
<1>36. /\ DOMAIN f = BindingFields /\ f.of = 1 /\ f.instance = instance /\ f.active = TRUE /\ f.run = c.run
       /\ f.owner = q /\ f.file = q /\ f.text = text
  BY <1>14, <1>27 DEF BindingFields
<1>37. Holds(x)
  <2>1. c.context \in 1 .. live + 1
    BY <1>6, <1>14
  <2>2. x.command[1] = c /\ Len(x.command) = 1
    BY <1>8, <1>9, <1>34
  <2>3. Len(x.opened) = live + 1 /\ x.opened[live + 1] = q /\ x.contexts[q] = live + 1 /\ x.bound[q] = c.run
    BY <1>15, <1>23, <1>34
  <2>4. Held(x)
    BY <1>13, <1>14, <1>34, <1>35, <1>36, <2>1, <2>2, <2>3 DEF Held
  <2>5. QED
    BY <1>14, <1>26, <1>35, <1>36, <2>2, <2>4 DEF Holds
<1>38. Holds(F!Memory)'
  BY <1>4, <1>37, MemoryHolds
<1>39. QED
  BY <1>1, <1>2, <1>11, <1>12, <1>38 DEF Leaves, Working, Same

(* Before the first command.                                                *)
LEMMA BeforeGoesOn ==
  ASSUME FooterInv, [F!Next]_footer, FooterTyped', OnlyOn
  PROVE  Before'
<1>. SUFFICES ASSUME Len(command') = 0, Apart(F!None)'
              PROVE  /\ bindings' = <<>> /\ \A q \in Session : bound'[q] = F!None
                     /\ contexts'[opened'[Len(opened')]] = Len(opened')
                     /\ \A q \in Run : state'[q].status # "none" => saved'[q].file = Elsewhere /\ saved'[q].target = Elsewhere
  BY DEF Before
<1>1. FooterTyped /\ Len(command) = 0
  BY MemoryIs, SeqIs DEF FooterInv, OnlyOn, Ahead, Shape
<1>2. Apart(F!None)
  <2>1. SUFFICES ASSUME NEW q \in Run, state[q].status # "none"
                 PROVE  state[q].session = Elsewhere
    BY DEF Apart
  <2>2. state'[q].status # "none" /\ state'[q].session = state[q].session
    BY <1>1, <2>1 DEF OnlyOn
  <2>3. QED
    BY <2>2, FooterAssumed DEF Apart, F!FooterAssumption, F!None
<1>3. /\ bindings = <<>> /\ \A q \in Session : bound[q] = F!None
      /\ contexts[opened[Len(opened)]] = Len(opened)
      /\ \A q \in Run : state[q].status # "none" => saved[q].file = Elsewhere /\ saved[q].target = Elsewhere
  BY <1>1, <1>2 DEF FooterInv, Before
<1>4. CASE UNCHANGED footer
  BY <1>3, <1>4 DEF footer
<1>5. CASE F!Enter(TRUE) \/ F!Enter(FALSE)
  <2>1. Len(command') = Len(command) + 1
    BY <1>1, <1>5, EnterMoves
  <2>2. QED
    BY <1>1, <2>1
<1>6. CASE F!Clear
  BY <1>3, <1>6 DEF F!Clear
<1>7. CASE F!Shutdown
  <2>1. Len(bindings) = 0 /\ 1 .. Len(bindings) = {}
    BY <1>3
  <2>2. bindings' = <<>>
    <3>1. PICK q \in Session, told \in BOOLEAN :
            bindings' = [k \in 1 .. Len(bindings) |->
              IF k \in {j \in 1 .. Len(bindings) : F!Departs(bindings[j], F!Last(opened))}
              THEN F!Departing(bindings[k], F!Last(opened), IF told THEN q ELSE Elsewhere) ELSE bindings[k]]
      BY <1>7 DEF F!Shutdown
    <3>2. bindings' \in [{} -> {0}]
      BY <2>1, <3>1
    <3>3. QED
      BY <3>2, EmptyIs
  <2>3. \A q \in Run : saved'[q] = saved[q]
    <3>1. SUFFICES ASSUME NEW q \in Run
                   PROVE  saved'[q] = saved[q]
      OBVIOUS
    <3>2. {k \in {j \in 1 .. Len(bindings) : F!Departs(bindings[j], F!Last(opened))} : bindings'[k].run = q} = {}
      BY <2>1
    <3>3. QED
      BY <1>7, <3>2 DEF F!Shutdown
  <2>4. QED
    BY <1>3, <1>7, <2>2, <2>3 DEF F!Shutdown
<1>8. CASE F!SessionStart
  <2>1. PICK reload \in BOOLEAN, told \in BOOLEAN : \E w, x :
          /\ w = F!SetLive(F!Loaded(reload)) /\ F!Becomes(x) /\ Keeps(x, w) /\ x \in Begins(w, told)
          /\ leaving.session = F!Last(opened) => reload
          /\ told \/ leaving.told
    BY <1>1, <1>8, SessionIs
  <2>2. PICK w, x : w = F!SetLive(F!Loaded(reload)) /\ F!Becomes(x) /\ Keeps(x, w) /\ x \in Begins(w, told)
    BY <2>1
  <2>3. leaving # F!Staying /\ UNCHANGED state /\ leaving.session \in Session
    BY <1>1, <1>8 DEF F!SessionStart, FooterTyped
  <2>4. /\ DOMAIN w = MemoryFields
        /\ w.opened = Append(opened, leaving.session) /\ w.bindings = bindings /\ w.saved = saved
        /\ w.bound = IF reload THEN [s \in Session |-> F!None] ELSE bound
        /\ w.contexts = [r \in Session |-> IF r = leaving.session THEN Len(opened) + 1
                                           ELSE IF reload \/ bound[r] = F!None THEN 0 ELSE contexts[r]]
    BY <1>1, <2>2, <2>3, LoadedIs
  <2>5. F!Replacement(w, leaving.session, Previous(told)) = 0
    <3>1. F!Known(w, w.instance) = {}
      BY <1>3, <2>4 DEF F!Known
    <3>2. {k \in F!Known(w, w.instance) : F!Fits(w.bindings[k], leaving.session, Previous(told))} = {}
      BY <3>1
    <3>3. QED
      BY <3>2 DEF F!Replacement, F!First
  <2>6. Foundable(told) = {}
    <3>1. Elsewhere \notin Session
      BY FooterAssumed DEF F!FooterAssumption
    <3>2. ASSUME NEW r \in Run, state[r].status # "none", F!Fits(saved[r], leaving.session, Previous(told))
          PROVE  FALSE
      <4>1. saved[r].file = Elsewhere /\ saved[r].target = Elsewhere
        BY <1>3, <3>2
      <4>2. QED
        BY <2>3, <3>1, <3>2, <4>1 DEF F!Fits
    <3>3. QED
      BY <3>2 DEF Foundable
  <2>7. x \in F!Resumed(w, 0, leaving.session)
    BY <2>2, <2>5, <2>6 DEF Begins
  <2>8. x.opened = w.opened /\ x.bindings = w.bindings /\ x.saved = w.saved /\ x.bound = w.bound /\ x.contexts = w.contexts
    BY <2>4, <2>7 DEF F!Resumed, MemoryFields
  <2>9. opened' = w.opened /\ bindings' = <<>> /\ saved' = saved /\ bound' = w.bound /\ contexts' = w.contexts
    BY <1>3, <2>2, <2>4, <2>8 DEF F!Becomes
  <2>10. Len(opened') = Len(opened) + 1 /\ opened'[Len(opened) + 1] = leaving.session
    BY <1>1, <2>3, <2>4, <2>9, AppendProperties DEF FooterTyped
  <2>11. contexts'[leaving.session] = Len(opened) + 1
    BY <2>3, <2>4, <2>9
  <2>12. QED
    BY <1>3, <2>3, <2>4, <2>9, <2>10, <2>11
<1>9. ~ \E c \in F!Commands : F!Bind(c) \/ F!Work(c) \/ F!Finish(c) \/ F!Stop(c) \/ F!Tick(c)
  BY <1>1 DEF F!Commands
<1>10. QED
  BY <1>4, <1>5, <1>6, <1>7, <1>8, <1>9 DEF F!Next

LEMMA FollowingGoesOn ==
  ASSUME FooterInv, [F!Next]_footer, FooterTyped', OnlyOn
  PROVE  Following'
<1>. SUFFICES ASSUME Len(command') = 1, Lone', command'[1].at # "ended"
              PROVE  Holds(F!Memory)' /\ Leaves(bindings[1])' /\ Working'
  BY DEF Following
<1>1. FooterTyped /\ Len(command) \in {0, 1}
  <2>1. FooterTyped
    BY DEF FooterInv
  <2>2. IsSeq(command)
    BY <2>1, MemoryIs DEF Ahead, Shape
  <2>3. Len(command) \in Nat
    BY <2>2, SeqIs
  <2>4. Len(command) <= 1
    BY DEF OnlyOn
  <2>5. QED
    BY <2>1, <2>3, <2>4
<1>2. CASE Len(command) = 1
  <2>1. /\ Lone /\ command[1].at # "ended" /\ Turns(command'[1], command[1]) /\ instance' = instance
        /\ Holds(F!Memory) /\ Leaves(bindings[1]) /\ Working
    BY <1>1, <1>2, LoneOn DEF FooterInv, Following
  <2>2. CASE UNCHANGED footer \/ F!Clear
    <3>1. UNCHANGED <<opened, leaving, instance, bound, contexts, bindings, command, state>>
      BY <2>2 DEF footer, F!Clear
    <3>2. QED
      BY <2>1, <3>1, QuietFollows DEF Working
  <2>3. CASE F!Enter(TRUE) \/ F!Enter(FALSE)
    <3>1. Len(command') = Len(command) + 1
      BY <1>1, <2>3, EnterMoves
    <3>2. QED
      BY <1>2, <3>1
  <2>4. CASE F!Shutdown
    BY <1>2, <2>1, <2>4, ShutdownFollows
  <2>5. CASE F!SessionStart
    <3>1. ~ command'[1].strayed
      BY DEF Lone
    <3>2. QED
      BY <1>2, <2>1, <2>5, <3>1, SessionFollows
  <2>6. CASE F!Bind(1)
    BY <1>2, <2>1, <2>6, BindFollows
  <2>7. CASE F!Work(1) \/ F!Finish(1)
    BY <1>2, <2>1, <2>7, WorkFollows
  <2>8. CASE F!Stop(1)
    BY <1>1, <1>2, <2>8, StopMoves
  <2>9. CASE F!Tick(1)
    BY <1>2, <2>1, <2>9, TickFollows
  <2>10. \A c \in F!Commands : c = 1
    BY <1>2 DEF F!Commands
  <2>11. QED
    BY <2>2, <2>3, <2>4, <2>5, <2>6, <2>7, <2>8, <2>9, <2>10 DEF F!Next
<1>3. CASE Len(command) = 0
  <2>1. ~ \E c \in F!Commands : F!Bind(c) \/ F!Work(c) \/ F!Finish(c) \/ F!Stop(c) \/ F!Tick(c)
    BY <1>3 DEF F!Commands
  <2>2. CASE F!Enter(TRUE)
    <3>1. command'[1].run = F!None
      <4>1. command'[Len(command')].run = F!None
        BY <1>1, <2>2, EnterMoves
      <4>2. QED
        BY <4>1
    <3>2. Apart(F!None)
      BY <2>2, <3>1 DEF Lone, Apart, F!Enter
    <3>3. QED
      BY <1>3, <2>2, <3>2, EnterFollows
  <2>3. ~ F!Enter(FALSE)
    <3>1. ASSUME F!Enter(FALSE)
          PROVE  FALSE
      <4>1. command'[Len(command')].auto = FALSE
        BY <1>1, <3>1, EnterMoves
      <4>2. QED
        BY <4>1 DEF Lone
    <3>2. QED
      BY <3>1
  <2>4. ~(UNCHANGED footer \/ F!Clear \/ F!Shutdown)
    BY <1>3 DEF footer, F!Clear, F!Shutdown
  <2>5. ~ F!SessionStart
    BY <1>1, <1>3, SessionMoves
  <2>6. QED
    BY <2>1, <2>2, <2>3, <2>4, <2>5 DEF F!Next
<1>4. QED
  BY <1>1, <1>2, <1>3

LEMMA FooterBegins == F!Init => FooterInv
<1>. SUFFICES ASSUME F!Init
              PROVE  FooterInv
  OBVIOUS
<1>1. PICK s \in Session : opened = <<s>>
  BY DEF F!Init
<1>2. /\ leaving = F!Staying /\ instance = 1 /\ command = <<>> /\ bindings = <<>> /\ bound = [q \in Session |-> F!None]
      /\ contexts = [q \in Session |-> IF q = opened[1] THEN 1 ELSE 0]
  BY DEF F!Init
<1>3. /\ state \in [Run -> [status : {"none", "running", "ended"}, session : F!Anywhere]]
      /\ \A q \in Run : state[q].status # "none" /\ state[q].session = Elsewhere =>
           saved[q].file = Elsewhere /\ saved[q].target = Elsewhere
  <2>1. CASE state = [r \in Run |-> F!NoState] /\ saved = [r \in Run |-> F!NoBinding]
    BY <2>1 DEF F!NoState, F!NoBinding, F!Anywhere
  <2>2. CASE \E r \in Run, t \in F!Anywhere, status \in {"running", "ended"} :
               /\ state = [[q \in Run |-> F!NoState] EXCEPT ![r] = [status |-> status, session |-> t]]
               /\ saved = [[q \in Run |-> F!NoBinding] EXCEPT ![r] =
                    [owner |-> t, file |-> t, target |-> Elsewhere, text |-> status, active |-> status = "running"]]
    BY <2>2 DEF F!NoState, F!NoBinding, F!Anywhere
  <2>3. QED
    BY <2>1, <2>2 DEF F!Init
<1>4. Len(command) = 0 /\ IsSeq(command)
  BY <1>2, EmptySeq DEF IsSeq
<1>5. opened \in Seq(Session) /\ opened # <<>> /\ Len(opened) = 1 /\ opened[1] = s
  BY <1>1
<1>6. Shape(F!Memory)
  BY <1>4 DEF Shape, F!Memory, MemoryFields
<1>7. FooterTyped
  BY <1>2, <1>3, <1>4, <1>5, <1>6 DEF FooterTyped
<1>8. Before
  BY <1>2, <1>3, <1>5, FooterAssumed DEF Before, Apart, F!FooterAssumption, F!None
<1>9. QED
  BY <1>4, <1>7, <1>8 DEF FooterInv, Following

LEMMA FooterStep == FooterInv /\ [F!Next]_footer => FooterInv'
BY StepMoves, BeforeGoesOn, FollowingGoesOn DEF FooterInv

(* A heartbeat of a command that is alone shows its run.                    *)
LEMMA FooterTells ==
  ASSUME FooterInv, NEW c \in F!Commands, F!Tick(c), F!Alone(c), command[c].at = "working", ~ command[c].strayed
  PROVE  shown' = [run |-> command[c].run, text |-> "running"]
<1>1. IsSeq(command) /\ Len(command) \in Nat
  BY MemoryIs, SeqIs DEF FooterInv, Ahead, Shape
<1>2. Len(command) = 1 /\ c = 1
  <2>1. 1 .. Len(command) = {c}
    BY DEF F!Alone, F!Commands
  <2>2. c \in 1 .. Len(command)
    BY DEF F!Commands
  <2>3. 1 \in 1 .. Len(command) /\ Len(command) \in 1 .. Len(command)
    BY <1>1, <2>2
  <2>4. QED
    BY <2>1, <2>3
<1>3. Lone
  BY <1>2 DEF Lone, F!Tick, F!Alone, Apart
<1>4. QED
  BY <1>2, <1>3, TickFollows

LEMMA FooterSteps == [EitherNext]_allVars => [F!Next]_footer
BY DEF EitherNext, allVars

(* The panel shows the workers there are, and the footer of a process that  *)
(* has had one command the run of that.                                     *)
THEOREM DisplaysAreTrue == EitherSpec => DisplaysFollow
<1>1. EitherInit => PanelInv /\ FooterInv
  BY PanelBegin, FooterBegins DEF EitherInit
<1>2. PanelInv /\ FooterInv /\ [EitherNext]_allVars => (PanelInv /\ FooterInv)'
  BY PanelStep, PanelSteps, FooterStep, FooterSteps
<1>3. FooterInv /\ [EitherNext]_allVars =>
        [\A c \in F!Commands :
           F!Tick(c) /\ F!Alone(c) /\ command[c].at = "working" /\ ~ command[c].strayed
             => shown' = [run |-> command[c].run, text |-> "running"]]_(F!vars)
  BY FooterTells
<1>4. PanelInv => (part = "display" => D!PanelTrue)
  BY PanelTells
<1>5. QED
  BY <1>1, <1>2, <1>3, <1>4, PTL DEF EitherSpec, DisplaysFollow, F!FollowsRun
=============================================================================
