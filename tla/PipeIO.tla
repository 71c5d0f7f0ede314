------------------------------- MODULE PipeIO -------------------------------
(***************************************************************************)
(* The program at the end of a pipe: readFromPipe and writePipe            *)
(* (src/pipeI_O.c), the reading and answering loop of main                 *)
(* (src/I_O_Receiver.c), and at the other end the test harness             *)
(* (harness.cpp), which sends the names of the relation files, the word    *)
(* Done, and then batches of queries, each ended by a line F; it sends a   *)
(* batch when the one before it is answered.                               *)
(*                                                                         *)
(* Text is a sequence of units.  A name or a query is two units, so that a *)
(* read can end inside it, Done is two and F is one.  What a read or an    *)
(* uninitialized array holds beyond the text is Junk.  What is answered to *)
(* a line that is no query of the workload is not modelled.  mishaps is a  *)
(* history variable: what has gone wrong, and while reading what.          *)
(***************************************************************************)
EXTENDS Integers, FiniteSets, SequencesExt

CONSTANTS InitFiles, \* init files, sequences of names
          Workloads, \* sequences of batches, which are sequences of queries
          Result,    \* rows and sum that a query has for its result
          MaxBuffer, \* MAX_BUFFER; PIPE_BUF is the same
          PipeSize,  \* capacity of the pipe to the program
          OutSize,   \* answers that the pipe to the harness holds
          WordBits,  \* bits of a myint_t
          MaxFailed  \* MAX_FAILED_QUERIES

Eol == "\n"
Nul == "\\0"
Junk == "?"
More == "..."
Done == <<"Do", "ne">>
F == <<"F">>
Queries == DOMAIN Result

ASSUME SizesAssumption == /\ MaxBuffer \in Nat \ {0} /\ PipeSize \in Nat
                          /\ PipeSize >= MaxBuffer
                          /\ OutSize \in Nat \ {0} /\ MaxFailed \in Nat \ {0}
                          /\ WordBits \in Nat \ {0}

(* Neither a name nor a query has a newline or a '\0' in it.               *)
ASSUME TextAssumption == /\ \A file \in InitFiles : file \in Seq(Range(file) \ {Eol, Nul})
                         /\ Workloads \subseteq Seq(Seq(Queries \ {Eol, Nul}))

(* The sum over no rows is 0.                                              *)
ASSUME ResultAssumption == \A q \in Queries : /\ Result[q].sum \in Nat
                                              /\ Result[q].rows = 0 => Result[q].sum = 0

VARIABLES names,     \* the init file
          workload,  \* the batches that the harness will send
          hpc,       \* where the harness is
          batch,     \* the batch it is at
          left,      \* what it has still to write, of the init file or batch
          got,       \* the answers to this batch
          answers,   \* the answers to every batch before
          failed,    \* failure_cnt
          toProgram, \* the pipe to the program
          toHarness, \* the pipe to the harness
          pc,        \* where the program is
          buffer,    \* the array that read fills
          text,      \* inputStr
          lenInput,  \* the bytes allocated for it
          todo,      \* lines of the batch that are not answered
          input,     \* the list of file names
          mishaps

harnessVars == <<names, workload, hpc, batch, left, got, answers, failed>>
programVars == <<pc, buffer, text, lenInput, todo, input>>
vars == <<harnessVars, programVars, toProgram, toHarness, mishaps>>

-----------------------------------------------------------------------------
(* Text and lines                                                          *)

Line(word) == <<word, More, Eol>>
InitText == FlattenSeq([i \in DOMAIN names |-> Line(names[i])])
QueryLines(b) == FlattenSeq([i \in DOMAIN b |-> Line(b[i])])
(* A batch ends with the line F.  An empty line, and any line that begins  *)
(* with F, ends a batch of the harness too (harness.cpp:100-113); neither  *)
(* is in a workload here.                                                  *)
BatchText(b) == QueryLines(b) \o F \o <<Eol>>

Eols(s) == {i \in DOMAIN s : s[i] = Eol}
LineStart(s, i) == 1 + Max({0} \cup {e \in Eols(s) : e < i})
LineBefore(s, e) == SubSeq(s, LineStart(s, e), e - 1)

(* The lines that are complete; what follows the last is ignored.          *)
EndOfLine(s, n) == CHOOSE e \in Eols(s) : Cardinality({d \in Eols(s) : d <= e}) = n
LinesButTheLast(s) ==
  [n \in 1..Cardinality(Eols(s)) - 1 |-> LineBefore(s, EndOfLine(s, n))]
Lines(s) == [n \in 1..Cardinality(Eols(s)) |-> LineBefore(s, EndOfLine(s, n))]

(* What has been read of the line that is not complete.                    *)
OpenLine(s) == SubSeq(s, LineStart(s, Len(s) + 1), Len(s))

-----------------------------------------------------------------------------
Kinds == {"cut", "spill", "lost", "overrun", "empty"}
Phases == {"files", "batch", "answer"}
Units == {Eol, Nul, Junk, More} \cup Range(Done) \cup Range(F) \cup Queries
         \cup UNION {Range(file) : file \in InitFiles}

(* A text is in the memory allocated for it, except for its '\0', as long  *)
(* as no read copies what it has not read; even then at most a buffer is   *)
(* behind it.  The memory is at most twice as long as the text and a       *)
(* buffer.                                                                 *)
Reading == IF pc \in {"files", "construct"} THEN "files" ELSE "batch"
TextAllocated ==
  /\ lenInput \in Nat /\ MaxBuffer < lenInput
  /\ lenInput <= 2 * (Len(text) + MaxBuffer) + 1
  /\ Len(text) <= lenInput + MaxBuffer
  /\ <<"spill", Reading>> \notin mishaps => Len(text) <= lenInput

(* The pipes keep to their capacities and inputStr to its memory.          *)
TypeOK ==
  /\ names \in InitFiles /\ workload \in Workloads
  /\ hpc \in {"init", "done", "sleep", "batch", "end", "killed"}
  /\ batch \in 1..Len(workload) + 1
  /\ left \in Seq(Units) /\ toProgram \in Seq(Units) /\ text \in Seq(Units)
  /\ Len(toProgram) <= PipeSize
  /\ Len(toHarness) <= OutSize
  /\ Len(answers) = batch - 1
  /\ failed \in Nat
  /\ pc \in {"files", "construct", "batch", "count", "answer", "ended", "undefined"}
  /\ buffer \in [1..MaxBuffer -> Units]
  /\ TextAllocated
  /\ mishaps \subseteq Kinds \X Phases

Uninitialized == {[i \in 1..MaxBuffer |-> fill] : fill \in {Nul, Junk}}

Init ==
  /\ names \in InitFiles /\ workload \in Workloads
  /\ hpc = "init" /\ batch = 1 /\ left = InitText
  /\ got = <<>> /\ answers = <<>> /\ failed = 0
  /\ toProgram = <<>> /\ toHarness = <<>>
  /\ pc = "files" /\ buffer \in Uninitialized
  /\ text = <<>> /\ lenInput = MaxBuffer + 1
  /\ todo = <<>> /\ input = <<>>
  /\ mishaps = {}

-----------------------------------------------------------------------------
(* readFromPipe: one action for every read.                                *)

Stop == IF pc = "files" THEN Done ELSE F
Return == IF pc = "files" THEN "construct" ELSE "count"

(* strncmp(stopWord, line, length of the line): the ends of lines that are *)
(* taken for the stop word.                                                *)
Stops(chunk) == {e \in Eols(chunk) : IsPrefix(LineBefore(chunk, e), Stop)}

FilledToTheNewline(chunk) ==
  LET end == IF Stops(chunk) = {} THEN 0 ELSE Min(Stops(chunk))
      read == chunk \o SubSeq(buffer, Len(chunk) + 1, MaxBuffer)
  IN  IF end > 0 THEN [read EXCEPT ![end] = Nul] ELSE read

(* The buffer after a read, with '\0' where the stop word is; it is out of *)
(* the array when the line is shorter than the word.                       *)
Filled(chunk) ==
  LET end == IF Stops(chunk) = {} THEN 0 ELSE Min(Stops(chunk)) - Len(Stop)
      read == chunk \o SubSeq(buffer, Len(chunk) + 1, MaxBuffer)
  IN  IF end > 0 THEN [read EXCEPT ![end] = Nul] ELSE read

(* strcat stops at '\0', and beyond the buffer if there is none in it.     *)
Copies(array) ==
  IF Nul \in Range(array)
  THEN {SubSeq(array, 1, Min({i \in DOMAIN array : array[i] = Nul}) - 1)}
  ELSE {array, Append(array, Junk)}

(* The line that this read completes was cut by the one before where the   *)
(* two parts are misread: the rest of it is a prefix of the stop word, or  *)
(* both together are the stop word.                                        *)
Cut(chunk) ==
  /\ OpenLine(text) # <<>>
  /\ Eols(chunk) # {}
  /\ LET rest == LineBefore(chunk, Min(Eols(chunk)))
     IN  IsPrefix(rest, Stop) \/ OpenLine(text) \o rest = Stop

NewLengthOfTheText(chunk) == IF Len(text) > lenInput THEN 2 * lenInput + 1 ELSE lenInput
NewLength(chunk) ==
  IF Len(chunk) + Len(text) > lenInput THEN 2 * lenInput + 1 ELSE lenInput

Arrived == SubSeq(toProgram, 1, Min({Len(toProgram), MaxBuffer}))
Happens(chunk, copy) ==
  {kind \in Kinds :
     \/ kind = "cut" /\ Cut(chunk)
     \/ kind = "spill" /\ copy # chunk /\ (Stops(chunk) = {} \/ Len(copy) > Len(chunk))
     \/ kind = "lost" /\ \E e \in Stops(chunk) : e < Len(chunk)
     \/ kind = "overrun" /\ Len(text) + Len(copy) + 1 > NewLength(chunk)}

Read ==
  /\ pc \in {"files", "batch"}
  /\ toProgram # <<>>
  /\ \E chunk \in {Arrived} : \E copy \in Copies(Filled(chunk)) :
       /\ toProgram' = SubSeq(toProgram, Len(chunk) + 1, Len(toProgram))
       /\ buffer' = Filled(chunk)
       /\ lenInput' = NewLength(chunk)
       /\ text' = text \o copy
       /\ pc' = IF Stops(chunk) # {} THEN Return ELSE pc
       /\ mishaps' = mishaps \cup (Happens(chunk, copy) \X {pc})
  /\ UNCHANGED <<harnessVars, toHarness, todo, input>>

(* read returns 0 when the harness has gone.                               *)
ReadEnd ==
  /\ pc \in {"files", "batch"}
  /\ toProgram = <<>>
  /\ hpc \in {"end", "killed"}
  /\ pc' = Return
  /\ UNCHANGED <<harnessVars, toProgram, toHarness, buffer, text, lenInput, todo,
                 input, mishaps>>

CallRead == /\ pc' = "batch"
            /\ buffer' \in Uninitialized
            /\ text' = <<>>
            /\ lenInput' = MaxBuffer + 1

-----------------------------------------------------------------------------
(* main                                                                    *)

ConstructInput ==
  /\ pc = "construct"
  /\ input' = Lines(text)
  /\ CallRead
  /\ UNCHANGED <<harnessVars, toProgram, toHarness, todo, mishaps>>

(* An empty text means that there are no more batches.                     *)
EndOrCount ==
  /\ pc = "count"
  /\ pc' = IF text = <<>> THEN "ended" ELSE "answer"
  /\ todo' = Lines(text)
  /\ mishaps' = IF text = <<>> /\ hpc # "end" THEN mishaps \cup {<<"empty", "batch">>}
                ELSE mishaps
  /\ UNCHANGED <<harnessVars, toProgram, toHarness, buffer, text, lenInput, input>>

IsQuery(line) == \E q \in Queries : line \o <<Eol>> = Line(q)

(* writePipe prints the sum as a signed number into a string whose length  *)
(* is that of the unsigned one.                                            *)
Digits(n) == IF n = 0 THEN 1 ELSE Cardinality({d \in 0..WordBits : 10^d <= n})
AsSigned(n) == IF n < 2^(WordBits - 1) THEN n ELSE n - 2^WordBits
Printed(n) == IF n < 2^(WordBits - 1) THEN Digits(n) ELSE 1 + Digits(2^WordBits - n)
Null == [null |-> TRUE, sum |-> 0]
Number(n) == [null |-> FALSE, sum |-> n]
AlwaysANumber(q) == Number(AsSigned(Result[q].sum))
Answer(q) == IF Result[q].sum = 0 THEN Null ELSE Number(AsSigned(Result[q].sum))

WritePipe ==
  /\ pc = "answer"
  /\ todo # <<>>
  /\ IsQuery(Head(todo))
  /\ Len(toHarness) < OutSize
  /\ hpc \notin {"end", "killed"}
  /\ LET q == Head(todo)[1]
     IN  /\ toHarness' = Append(toHarness, Answer(q))
         /\ mishaps' = IF Printed(Result[q].sum) > Digits(Result[q].sum)
                       THEN mishaps \cup {<<"overrun", "answer">>} ELSE mishaps
  /\ todo' = Tail(todo)
  /\ UNCHANGED <<harnessVars, toProgram, pc, buffer, text, lenInput, input>>

NotAQuery ==
  /\ pc = "answer"
  /\ todo # <<>>
  /\ ~IsQuery(Head(todo)) \/ hpc \in {"end", "killed"}
  /\ pc' = "undefined"
  /\ UNCHANGED <<harnessVars, toProgram, toHarness, buffer, text, lenInput, todo,
                 input, mishaps>>

NextRead ==
  /\ pc = "answer"
  /\ todo = <<>>
  /\ CallRead
  /\ UNCHANGED <<harnessVars, toProgram, toHarness, todo, input, mishaps>>

Program == Read \/ ReadEnd \/ ConstructInput \/ EndOrCount \/ WritePipe \/ NotAQuery
           \/ NextRead

-----------------------------------------------------------------------------
(* The harness                                                             *)

Room == PipeSize - Len(toProgram)
Sends(n) == /\ n <= Room
            /\ toProgram' = toProgram \o SubSeq(left, 1, n)
            /\ left' = SubSeq(left, n + 1, Len(left))

(* The init file is written in chunks, which a pipe takes whole.           *)
SendNames ==
  /\ hpc = "init"
  /\ Sends(Min({Len(left), MaxBuffer}))
  /\ hpc' = IF left' = <<>> THEN "done" ELSE "init"
  /\ UNCHANGED <<names, workload, batch, got, answers, failed, toHarness, programVars, mishaps>>

SendDone ==
  /\ hpc = "done"
  /\ Len(Done) + 1 <= Room
  /\ toProgram' = toProgram \o Done \o <<Eol>>
  /\ hpc' = "sleep"
  /\ UNCHANGED <<names, workload, batch, left, got, answers, failed, toHarness, programVars,
                 mishaps>>

OpenBatch(b) ==
  /\ hpc' = IF b > Len(workload) THEN "end" ELSE "batch"
  /\ left' = IF b > Len(workload) THEN <<>> ELSE BatchText(workload[b])
  /\ got' = <<>>

(* A second has passed; nothing says that the program is ready.            *)
WakeUp ==
  /\ hpc = "sleep"
  /\ OpenBatch(1)
  /\ UNCHANGED <<names, workload, batch, answers, failed, toProgram, toHarness, programVars,
                 mishaps>>

(* A write that does not block: whole if it is no longer than PIPE_BUF,    *)
(* else any part.  When nobody can read it kills the harness.              *)
Feed ==
  /\ hpc = "batch"
  /\ left # <<>>
  /\ IF pc = "ended" THEN hpc' = "killed" /\ UNCHANGED <<left, toProgram>>
     ELSE /\ \E n \in 1..Len(left) : (Len(left) <= MaxBuffer => n = Len(left)) /\ Sends(n)
          /\ UNCHANGED hpc
  /\ UNCHANGED <<names, workload, batch, got, answers, failed, toHarness, programVars, mishaps>>

Collect ==
  /\ hpc = "batch"
  /\ Len(got) # Len(workload[batch])
  /\ \E n \in 1..Len(toHarness) :
       /\ got' = got \o SubSeq(toHarness, 1, n)
       /\ toHarness' = SubSeq(toHarness, n + 1, Len(toHarness))
  /\ UNCHANGED <<names, workload, hpc, batch, left, answers, failed, toProgram, programVars,
                 mishaps>>

(* The result file: an unsigned sum, and NULL for a result without rows.   *)
Expected(q) == IF Result[q].rows = 0 THEN Null ELSE Number(Result[q].sum)
Mismatches(b) == {i \in DOMAIN workload[b] : got[i] # Expected(workload[b][i])}

NextBatchWithoutWaiting ==
  /\ hpc = "batch"
  /\ left = <<>>
  /\ answers' = Append(answers, got)
  /\ batch' = batch + 1
  /\ OpenBatch(batch + 1)
  /\ UNCHANGED <<names, workload, failed, toProgram, toHarness, programVars, mishaps>>

NextBatch ==
  /\ hpc = "batch"
  /\ left = <<>>
  /\ Len(got) >= Len(workload[batch])
  /\ answers' = Append(answers, got)
  /\ failed' = failed + Cardinality(Mismatches(batch))
  /\ batch' = batch + 1
  /\ IF failed' >= MaxFailed THEN hpc' = "end" /\ left' = <<>> /\ got' = <<>>
     ELSE OpenBatch(batch + 1)
  /\ UNCHANGED <<names, workload, toProgram, toHarness, programVars, mishaps>>

Harness == SendNames \/ SendDone \/ WakeUp \/ Feed \/ Collect \/ NextBatch

Next == Program \/ Harness

Spec == Init /\ [][Next]_vars

(* Two processes that the operating system schedules.                      *)
FairSpec == Spec /\ WF_vars(Program) /\ WF_vars(Harness)

-----------------------------------------------------------------------------
(* Properties                                                              *)

(* What the loop of main and ConstructInput are given is what was sent     *)
(* before the stop word, over any number of reads, unless one of them cut  *)
(* a line where that is misread, copied what it had not read or dropped    *)
(* what it had.  A batch without queries would end the program.            *)
NoEmptyBatch == \A b \in DOMAIN workload : workload[b] # <<>>
TextAsSent ==
  mishaps \subseteq {<<"overrun", "answer">>} /\ NoEmptyBatch =>
    /\ pc = "construct" => text = InitText
    /\ pc = "count" => text = IF hpc = "end" THEN <<>> ELSE QueryLines(workload[batch])
    /\ pc \in {"batch", "count", "answer", "ended"} => input = Lines(InitText)
    /\ pc # "undefined"

(* A batch that fits in the buffer is read whole and alone, in one read    *)
(* that ends at its stop word; so nothing can go wrong with it, whatever   *)
(* the speed of the two processes, when nothing has gone wrong with the    *)
(* names.  When these fit, only the first batch can still be lost with     *)
(* Done.                                                                   *)
Fits(b) == Len(BatchText(b)) <= MaxBuffer
FittingIsSafe ==
  /\ NoEmptyBatch /\ (\A b \in DOMAIN workload : Fits(workload[b])) =>
       mishaps \cap (Kinds \X {"files"}) # {} \/ mishaps \cap (Kinds \X {"batch"}) = {}
  /\ Len(InitText) + Len(Done) + 1 <= MaxBuffer /\ <<"spill", "files">> \notin mishaps =>
       mishaps \cap (Kinds \X {"files"}) \subseteq {<<"lost", "files">>}

(* The harness gets the answers to its queries in their order, each once   *)
(* and to the batch it is at, and reads none that it does not count.  They *)
(* are the ones of the result file where the sum is a positive signed      *)
(* number, or 0 for an empty result.                                       *)
PrintedAsExpected(q) == /\ Result[q].sum < 2^(WordBits - 1)
                        /\ Result[q].sum = 0 => Result[q].rows = 0
AnswersInOrder ==
  mishaps \subseteq {<<"overrun", "answer">>} =>
    LET asked == FlattenSeq(workload)
        all == FlattenSeq(answers) \o got \o toHarness
    IN  /\ Len(all) <= Len(asked)
        /\ hpc = "batch" => Len(got) <= Len(workload[batch])
        /\ \A b \in DOMAIN answers : Len(answers[b]) = Len(workload[b])
        /\ \A i \in DOMAIN all : /\ all[i] = Answer(asked[i])
                               /\ PrintedAsExpected(asked[i]) => all[i] = Expected(asked[i])

(* Neither waits for the other for ever: every batch is answered, or 100   *)
(* answers have failed, and the program ends when the harness has.         *)
Completed == <>(mishaps \ {<<"overrun", "answer">>} # {} \/ (hpc = "end" /\ pc = "ended"))
=============================================================================
