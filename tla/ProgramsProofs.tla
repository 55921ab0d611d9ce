--------------------------- MODULE ProgramsProofs ---------------------------
(***************************************************************************)
(* Theorems about Programs, whatever files a driver finds and options it   *)
(* is given: it touches no request that its trace does not have; one that  *)
(* comes to the end of main() has answered the queries in every output     *)
(* file; the answers of a one-sided sketch cover the counts; and the files *)
(* of a reverse run mirror those of the run forward.                       *)
(***************************************************************************)
EXTENDS Programs, CountersProofs, SequenceTheorems

Kinds == {"load", "load_querys", "exec", "query", "throughput", "delete",
          "reverse", "compose", "slim", "fat", "timing"}
Files  == {"none", "inc-dec_up", "query", "out"} \X Nat
Stages == [kind : Kinds, file : Files]

-----------------------------------------------------------------------------
(* The steps of a driver, its sketch left aside                            *)

(* A round of requests_exec(): a query adds its line to the output.        *)
ExecRound ==
    /\ Round("exec")
    /\ \/ request.type # "get" /\ UNCHANGED outputs
       \/ /\ request.type = "get"
          /\ \E line : /\ line.key = request.key
                       /\ outputs' = Written(running.file, Append(outputs[running.file], line))
LoopRound == ExecRound \/ QuietRound("query") \/ QuietRound("throughput") \/ QuietRound("delete")
Calls ==
    /\ In("compose") \/ In("slim") \/ In("fat") \/ In("timing")
    /\ NextStage /\ UNCHANGED <<requests, querys>>
KeysIn(lines) == [i \in DOMAIN lines |-> lines[i].key]
FileWritten ==
    \E lines : KeysIn(lines) = KeysIn(Queries(querys)) /\ (ForwardQuery(lines) \/ ReverseQuery(lines))

ControlNext ==
    ControlStep \/ LoopRound \/ Calls \/ ForwardStep \/ ReverseStep \/ FileWritten

(* What each driver shares with this module is the same here.              *)
LEMMA SFControl ==
    /\ SF!running = running /\ SF!Num = Num /\ SF!request = request
    /\ \A kind : SF!In(kind) = In(kind)
    /\ SF!More = More
    /\ SF!NextStage = NextStage /\ SF!Exit = Exit
    /\ SF!Load = Load /\ SF!LoadQuerys = LoadQuerys
    /\ SF!LoopEnds = LoopEnds /\ SF!TimingFails = TimingFails
    /\ \A kind : SF!Round(kind) = Round(kind)
    /\ SF!ForwardChunk = ForwardChunk /\ SF!TurnAround = TurnAround
    /\ SF!ReverseChunk = ReverseChunk /\ SF!ReverseEnds = ReverseEnds
    /\ SF!ForwardStep = ForwardStep /\ SF!ReverseStep = ReverseStep
    /\ \A lines : /\ SF!ForwardQuery(lines) = ForwardQuery(lines)
                  /\ SF!ReverseQuery(lines) = ReverseQuery(lines)
    /\ \A f, lines : SF!Written(f, lines) = Written(f, lines)
<1>1. /\ SF!running = running /\ SF!Num = Num
      /\ \A kind : SF!In(kind) = In(kind)
  BY DEF SF!In, SF!running, SF!Num, In, running, Num
<1>2. SF!More = More
  BY <1>1 DEF SF!More, SF!InFirstPart, SF!Unsigned, More, InFirstPart,
     Unsigned
<1>3. SF!NextStage = NextStage /\ SF!Exit = Exit
  BY <1>1 DEF SF!NextStage, SF!Advance, SF!FirstIndex, SF!Opened, SF!Written,
     SF!Exit, SF!given, SF!inside, NextStage, Advance, FirstIndex, Opened,
     Written, Exit, given, inside
<1>4. /\ SF!Load = Load /\ SF!LoadQuerys = LoadQuerys
      /\ SF!LoopEnds = LoopEnds /\ SF!TimingFails = TimingFails
  <2>1. \A f, before : SF!NumberOf(f, before) = NumberOf(f, before)
    BY DEF SF!NumberOf, SF!NoNumber, NumberOf, NoNumber
  <2>2. \A f, before : /\ SF!CannotLoad(f, before) = CannotLoad(f, before)
                       /\ SF!Loaded(f, before) = Loaded(f, before)
    BY <2>1 DEF SF!CannotLoad, SF!Loaded, CannotLoad, Loaded
  <2>3. QED
    BY <1>1, <1>2, <1>3, <2>2 DEF SF!Load, SF!LoadQuerys, SF!LoopEnds,
       SF!TimingFails, SF!InLoop, Load, LoadQuerys, LoopEnds, TimingFails,
       InLoop
<1>5. \A kind : SF!Round(kind) = Round(kind)
  BY <1>1, <1>2 DEF SF!Round, SF!InFirstPart, SF!Unsigned, SF!given, Round,
     InFirstPart, Unsigned, given
<1>6. /\ SF!ForwardChunk = ForwardChunk /\ SF!TurnAround = TurnAround
      /\ SF!ReverseChunk = ReverseChunk /\ SF!ReverseEnds = ReverseEnds
      /\ SF!ForwardStep = ForwardStep /\ SF!ReverseStep = ReverseStep
  BY <1>1 DEF SF!ForwardChunk, SF!TurnAround, SF!ReverseChunk, SF!ReverseEnds,
     SF!ForwardStep, SF!ReverseStep, SF!At, SF!ReverseKeeps, SF!given,
     ForwardChunk, TurnAround, ReverseChunk, ReverseEnds, ForwardStep,
     ReverseStep, At, ReverseKeeps, given
<1>7. \A lines : /\ SF!ForwardQuery(lines) = ForwardQuery(lines)
                  /\ SF!ReverseQuery(lines) = ReverseQuery(lines)
  BY <1>1 DEF SF!ForwardQuery, SF!ReverseQuery, SF!At, SF!ReverseKeeps,
     SF!given, SF!Written, ForwardQuery, ReverseQuery, At, ReverseKeeps,
     given, Written
<1>8. SF!request = request /\ \A f, lines : SF!Written(f, lines) = Written(f, lines)
  BY DEF SF!request, SF!Written, request, Written
<1>9. QED BY <1>1, <1>2, <1>3, <1>4, <1>5, <1>6, <1>7, <1>8

LEMMA SfsketchSteps == Sfsketch => ControlNext
<1>1. ASSUME SF!RequestsExec PROVE ExecRound
  <2>1. SF!request = request /\ \A f, lines : SF!Written(f, lines) = Written(f, lines)
    BY SFControl
  <2>2. Round("exec")
    BY SFControl, <1>1 DEF SF!RequestsExec
  <2>3. \A x : SF!Line(x).key = x
    BY DEF SF!Line
  <2>4. CASE request.type # "get"
    BY <1>1, <2>1, <2>2, <2>4 DEF SF!RequestsExec, ExecRound
  <2>5. CASE request.type = "get"
    <3>1. outputs' = Written(running.file,
                             Append(outputs[running.file], SF!Line(request.key)))
      BY SFControl, <1>1, <2>1, <2>5 DEF SF!RequestsExec
    <3>2. QED BY <2>2, <2>3, <2>5, <3>1 DEF ExecRound
  <2>6. QED BY <2>4, <2>5
<1>2. \A kind : SF!QuietRound(kind) = QuietRound(kind)
  BY SFControl DEF SF!QuietRound, QuietRound
<1>3. KeysIn(SF!QueryFqs) = KeysIn(Queries(querys))
  <2>1. SF!Queries(querys) = Queries(querys)
    BY DEF SF!Queries, Queries
  <2>2. QED BY <2>1 DEF SF!QueryFqs, SF!Line, KeysIn
<1>4. QED
  BY SFControl, <1>1, <1>2, <1>3 DEF
     Sfsketch, SF!Next, SF!RequestsInit, SF!TestThrpt, SF!RequestsQuery,
     SF!RequestsInitR, SF!RequestsDelete, SF!RequestsExecR, SF!SketchCall,
     ControlNext, ControlStep, LoopRound, Calls, FileWritten

LEMMA CMControl ==
    /\ CM!running = running /\ CM!Num = Num /\ CM!request = request
    /\ \A kind : CM!In(kind) = In(kind)
    /\ CM!More = More
    /\ CM!NextStage = NextStage /\ CM!Exit = Exit
    /\ CM!Load = Load /\ CM!LoadQuerys = LoadQuerys
    /\ CM!LoopEnds = LoopEnds /\ CM!TimingFails = TimingFails
    /\ \A kind : CM!Round(kind) = Round(kind)
    /\ CM!ForwardChunk = ForwardChunk /\ CM!TurnAround = TurnAround
    /\ CM!ReverseChunk = ReverseChunk /\ CM!ReverseEnds = ReverseEnds
    /\ CM!ForwardStep = ForwardStep /\ CM!ReverseStep = ReverseStep
    /\ \A lines : /\ CM!ForwardQuery(lines) = ForwardQuery(lines)
                  /\ CM!ReverseQuery(lines) = ReverseQuery(lines)
    /\ \A f, lines : CM!Written(f, lines) = Written(f, lines)
<1>1. /\ CM!running = running /\ CM!Num = Num
      /\ \A kind : CM!In(kind) = In(kind)
  BY DEF CM!In, CM!running, CM!Num, In, running, Num
<1>2. CM!More = More
  BY <1>1 DEF CM!More, CM!InFirstPart, CM!Unsigned, More, InFirstPart,
     Unsigned
<1>3. CM!NextStage = NextStage /\ CM!Exit = Exit
  BY <1>1 DEF CM!NextStage, CM!Advance, CM!FirstIndex, CM!Opened, CM!Written,
     CM!Exit, CM!given, CM!inside, NextStage, Advance, FirstIndex, Opened,
     Written, Exit, given, inside
<1>4. /\ CM!Load = Load /\ CM!LoadQuerys = LoadQuerys
      /\ CM!LoopEnds = LoopEnds /\ CM!TimingFails = TimingFails
  <2>1. \A f, before : CM!NumberOf(f, before) = NumberOf(f, before)
    BY DEF CM!NumberOf, CM!NoNumber, NumberOf, NoNumber
  <2>2. \A f, before : /\ CM!CannotLoad(f, before) = CannotLoad(f, before)
                       /\ CM!Loaded(f, before) = Loaded(f, before)
    BY <2>1 DEF CM!CannotLoad, CM!Loaded, CannotLoad, Loaded
  <2>3. QED
    BY <1>1, <1>2, <1>3, <2>2 DEF CM!Load, CM!LoadQuerys, CM!LoopEnds,
       CM!TimingFails, CM!InLoop, Load, LoadQuerys, LoopEnds, TimingFails,
       InLoop
<1>5. \A kind : CM!Round(kind) = Round(kind)
  BY <1>1, <1>2 DEF CM!Round, CM!InFirstPart, CM!Unsigned, CM!given, Round,
     InFirstPart, Unsigned, given
<1>6. /\ CM!ForwardChunk = ForwardChunk /\ CM!TurnAround = TurnAround
      /\ CM!ReverseChunk = ReverseChunk /\ CM!ReverseEnds = ReverseEnds
      /\ CM!ForwardStep = ForwardStep /\ CM!ReverseStep = ReverseStep
  BY <1>1 DEF CM!ForwardChunk, CM!TurnAround, CM!ReverseChunk, CM!ReverseEnds,
     CM!ForwardStep, CM!ReverseStep, CM!At, CM!ReverseKeeps, CM!given,
     ForwardChunk, TurnAround, ReverseChunk, ReverseEnds, ForwardStep,
     ReverseStep, At, ReverseKeeps, given
<1>7. \A lines : /\ CM!ForwardQuery(lines) = ForwardQuery(lines)
                  /\ CM!ReverseQuery(lines) = ReverseQuery(lines)
  BY <1>1 DEF CM!ForwardQuery, CM!ReverseQuery, CM!At, CM!ReverseKeeps,
     CM!given, CM!Written, ForwardQuery, ReverseQuery, At, ReverseKeeps,
     given, Written
<1>8. CM!request = request /\ \A f, lines : CM!Written(f, lines) = Written(f, lines)
  BY DEF CM!request, CM!Written, request, Written
<1>9. QED BY <1>1, <1>2, <1>3, <1>4, <1>5, <1>6, <1>7, <1>8

LEMMA CmsketchSteps == Cmsketch => ControlNext
<1>1. ASSUME CM!RequestsExec PROVE ExecRound
  <2>1. CM!request = request /\ \A f, lines : CM!Written(f, lines) = Written(f, lines)
    BY CMControl
  <2>2. Round("exec")
    BY CMControl, <1>1 DEF CM!RequestsExec
  <2>3. \A x : CM!Line(x).key = x
    BY DEF CM!Line
  <2>4. CASE request.type # "get"
    BY <1>1, <2>1, <2>2, <2>4 DEF CM!RequestsExec, ExecRound
  <2>5. CASE request.type = "get"
    <3>1. outputs' = Written(running.file,
                             Append(outputs[running.file], CM!Line(request.key)))
      BY CMControl, <1>1, <2>1, <2>5 DEF CM!RequestsExec
    <3>2. QED BY <2>2, <2>3, <2>5, <3>1 DEF ExecRound
  <2>6. QED BY <2>4, <2>5
<1>2. \A kind : CM!QuietRound(kind) = QuietRound(kind)
  BY CMControl DEF CM!QuietRound, QuietRound
<1>3. KeysIn(CM!QueryFqs) = KeysIn(Queries(querys))
  <2>1. CM!Queries(querys) = Queries(querys)
    BY DEF CM!Queries, Queries
  <2>2. QED BY <2>1 DEF CM!QueryFqs, CM!Line, KeysIn
<1>4. QED
  BY CMControl, <1>1, <1>2, <1>3 DEF
     Cmsketch, CM!Next, CM!RequestsInit, CM!TestThrpt, CM!RequestsQuery,
     CM!RequestsInitR, CM!RequestsDelete, CM!RequestsExecR, ControlNext,
     ControlStep, LoopRound, Calls, FileWritten

LEMMA CSControl ==
    /\ CS!running = running /\ CS!Num = Num /\ CS!request = request
    /\ \A kind : CS!In(kind) = In(kind)
    /\ CS!More = More
    /\ CS!NextStage = NextStage /\ CS!Exit = Exit
    /\ CS!Load = Load /\ CS!LoadQuerys = LoadQuerys
    /\ CS!LoopEnds = LoopEnds /\ CS!TimingFails = TimingFails
    /\ \A kind : CS!Round(kind) = Round(kind)
    /\ CS!ForwardChunk = ForwardChunk /\ CS!TurnAround = TurnAround
    /\ CS!ReverseChunk = ReverseChunk /\ CS!ReverseEnds = ReverseEnds
    /\ CS!ForwardStep = ForwardStep /\ CS!ReverseStep = ReverseStep
    /\ \A lines : /\ CS!ForwardQuery(lines) = ForwardQuery(lines)
                  /\ CS!ReverseQuery(lines) = ReverseQuery(lines)
    /\ \A f, lines : CS!Written(f, lines) = Written(f, lines)
<1>1. /\ CS!running = running /\ CS!Num = Num
      /\ \A kind : CS!In(kind) = In(kind)
  BY DEF CS!In, CS!running, CS!Num, In, running, Num
<1>2. CS!More = More
  BY <1>1 DEF CS!More, CS!InFirstPart, CS!Unsigned, More, InFirstPart,
     Unsigned
<1>3. CS!NextStage = NextStage /\ CS!Exit = Exit
  BY <1>1 DEF CS!NextStage, CS!Advance, CS!FirstIndex, CS!Opened, CS!Written,
     CS!Exit, CS!given, CS!inside, NextStage, Advance, FirstIndex, Opened,
     Written, Exit, given, inside
<1>4. /\ CS!Load = Load /\ CS!LoadQuerys = LoadQuerys
      /\ CS!LoopEnds = LoopEnds /\ CS!TimingFails = TimingFails
  <2>1. \A f, before : CS!NumberOf(f, before) = NumberOf(f, before)
    BY DEF CS!NumberOf, CS!NoNumber, NumberOf, NoNumber
  <2>2. \A f, before : /\ CS!CannotLoad(f, before) = CannotLoad(f, before)
                       /\ CS!Loaded(f, before) = Loaded(f, before)
    BY <2>1 DEF CS!CannotLoad, CS!Loaded, CannotLoad, Loaded
  <2>3. QED
    BY <1>1, <1>2, <1>3, <2>2 DEF CS!Load, CS!LoadQuerys, CS!LoopEnds,
       CS!TimingFails, CS!InLoop, Load, LoadQuerys, LoopEnds, TimingFails,
       InLoop
<1>5. \A kind : CS!Round(kind) = Round(kind)
  BY <1>1, <1>2 DEF CS!Round, CS!InFirstPart, CS!Unsigned, CS!given, Round,
     InFirstPart, Unsigned, given
<1>6. /\ CS!ForwardChunk = ForwardChunk /\ CS!TurnAround = TurnAround
      /\ CS!ReverseChunk = ReverseChunk /\ CS!ReverseEnds = ReverseEnds
      /\ CS!ForwardStep = ForwardStep /\ CS!ReverseStep = ReverseStep
  BY <1>1 DEF CS!ForwardChunk, CS!TurnAround, CS!ReverseChunk, CS!ReverseEnds,
     CS!ForwardStep, CS!ReverseStep, CS!At, CS!ReverseKeeps, CS!given,
     ForwardChunk, TurnAround, ReverseChunk, ReverseEnds, ForwardStep,
     ReverseStep, At, ReverseKeeps, given
<1>7. \A lines : /\ CS!ForwardQuery(lines) = ForwardQuery(lines)
                  /\ CS!ReverseQuery(lines) = ReverseQuery(lines)
  BY <1>1 DEF CS!ForwardQuery, CS!ReverseQuery, CS!At, CS!ReverseKeeps,
     CS!given, CS!Written, ForwardQuery, ReverseQuery, At, ReverseKeeps,
     given, Written
<1>8. CS!request = request /\ \A f, lines : CS!Written(f, lines) = Written(f, lines)
  BY DEF CS!request, CS!Written, request, Written
<1>9. QED BY <1>1, <1>2, <1>3, <1>4, <1>5, <1>6, <1>7, <1>8

LEMMA CsketchSteps == Csketch => ControlNext
<1>1. ASSUME CS!RequestsExec PROVE ExecRound
  <2>1. CS!request = request /\ \A f, lines : CS!Written(f, lines) = Written(f, lines)
    BY CSControl
  <2>2. Round("exec")
    BY CSControl, <1>1 DEF CS!RequestsExec
  <2>3. \A x : CS!Line(x).key = x
    BY DEF CS!Line
  <2>4. CASE request.type # "get"
    BY <1>1, <2>1, <2>2, <2>4 DEF CS!RequestsExec, ExecRound
  <2>5. CASE request.type = "get"
    <3>1. outputs' = Written(running.file,
                             Append(outputs[running.file], CS!Line(request.key)))
      BY CSControl, <1>1, <2>1, <2>5 DEF CS!RequestsExec
    <3>2. QED BY <2>2, <2>3, <2>5, <3>1 DEF ExecRound
  <2>6. QED BY <2>4, <2>5
<1>2. \A kind : CS!QuietRound(kind) = QuietRound(kind)
  BY CSControl DEF CS!QuietRound, QuietRound
<1>3. KeysIn(CS!QueryFqs) = KeysIn(Queries(querys))
  <2>1. CS!Queries(querys) = Queries(querys)
    BY DEF CS!Queries, Queries
  <2>2. QED BY <2>1 DEF CS!QueryFqs, CS!Line, KeysIn
<1>4. QED
  BY CSControl, <1>1, <1>2, <1>3 DEF
     Csketch, CS!Next, CS!RequestsInit, CS!TestThrpt, CS!RequestsQuery,
     CS!RequestsInitR, CS!RequestsDelete, CS!RequestsExecR, ControlNext,
     ControlStep, LoopRound, Calls, FileWritten

LEMMA CmcusketchSteps == Cmcusketch => ControlNext
<1>1. /\ CU!running = running /\ CU!Num = Num
      /\ \A kind : CU!In(kind) = In(kind)
  BY DEF CU!In, CU!running, CU!Num, In, running, Num
<1>2. CU!More = More
  BY <1>1 DEF CU!More, CU!InFirstPart, CU!Unsigned, More, InFirstPart,
     Unsigned
<1>3. CU!NextStage = NextStage /\ CU!Exit = Exit
  BY <1>1 DEF CU!NextStage, CU!Advance, CU!FirstIndex, CU!Opened, CU!Written,
     CU!Exit, CU!given, CU!inside, NextStage, Advance, FirstIndex, Opened,
     Written, Exit, given, inside
<1>4. /\ CU!Load = Load /\ CU!LoadQuerys = LoadQuerys
      /\ CU!LoopEnds = LoopEnds /\ CU!TimingFails = TimingFails
  <2>1. \A f, before : CU!NumberOf(f, before) = NumberOf(f, before)
    BY DEF CU!NumberOf, CU!NoNumber, NumberOf, NoNumber
  <2>2. \A f, before : /\ CU!CannotLoad(f, before) = CannotLoad(f, before)
                       /\ CU!Loaded(f, before) = Loaded(f, before)
    BY <2>1 DEF CU!CannotLoad, CU!Loaded, CannotLoad, Loaded
  <2>3. QED
    BY <1>1, <1>2, <1>3, <2>2 DEF CU!Load, CU!LoadQuerys, CU!LoopEnds,
       CU!TimingFails, CU!InLoop, Load, LoadQuerys, LoopEnds, TimingFails,
       InLoop
<1>5. \A kind : CU!Round(kind) = Round(kind)
  BY <1>1, <1>2 DEF CU!Round, CU!InFirstPart, CU!Unsigned, CU!given, Round,
     InFirstPart, Unsigned, given
<1>6. ASSUME CU!RequestsExec PROVE ExecRound
  <2>1. CU!request = request /\ \A f, lines : CU!Written(f, lines) = Written(f, lines)
    BY DEF CU!request, CU!Written, request, Written
  <2>2. Round("exec")
    BY <1>5, <1>6 DEF CU!RequestsExec
  <2>3. \A x : CU!Line(x).key = x
    BY DEF CU!Line
  <2>4. CASE request.type # "get"
    BY <1>6, <2>1, <2>2, <2>4 DEF CU!RequestsExec, ExecRound
  <2>5. CASE request.type = "get"
    <3>1. outputs' = Written(running.file,
                             Append(outputs[running.file], CU!Line(request.key)))
      BY <1>1, <1>6, <2>1, <2>5 DEF CU!RequestsExec
    <3>2. QED BY <2>2, <2>3, <2>5, <3>1 DEF ExecRound
  <2>6. QED BY <2>4, <2>5
<1>7. \A kind : CU!QuietRound(kind) = QuietRound(kind)
  BY <1>5 DEF CU!QuietRound, QuietRound
<1>8. QED
  BY <1>1, <1>2, <1>3, <1>4, <1>5, <1>6, <1>7 DEF Cmcusketch, CU!Next,
     CU!RequestsInit, CU!TestThrpt, CU!RequestsQuery, ControlNext,
     ControlStep, LoopRound, Calls, FileWritten

LEMMA CmlsketchSteps == Cmlsketch => ControlNext
<1>1. /\ CL!running = running /\ CL!Num = Num
      /\ \A kind : CL!In(kind) = In(kind)
  BY DEF CL!In, CL!running, CL!Num, In, running, Num
<1>2. CL!More = More
  BY <1>1 DEF CL!More, CL!InFirstPart, CL!Unsigned, More, InFirstPart,
     Unsigned
<1>3. CL!NextStage = NextStage /\ CL!Exit = Exit
  BY <1>1 DEF CL!NextStage, CL!Advance, CL!FirstIndex, CL!Opened, CL!Written,
     CL!Exit, CL!given, CL!inside, NextStage, Advance, FirstIndex, Opened,
     Written, Exit, given, inside
<1>4. /\ CL!Load = Load /\ CL!LoadQuerys = LoadQuerys
      /\ CL!LoopEnds = LoopEnds /\ CL!TimingFails = TimingFails
  <2>1. \A f, before : CL!NumberOf(f, before) = NumberOf(f, before)
    BY DEF CL!NumberOf, CL!NoNumber, NumberOf, NoNumber
  <2>2. \A f, before : /\ CL!CannotLoad(f, before) = CannotLoad(f, before)
                       /\ CL!Loaded(f, before) = Loaded(f, before)
    BY <2>1 DEF CL!CannotLoad, CL!Loaded, CannotLoad, Loaded
  <2>3. QED
    BY <1>1, <1>2, <1>3, <2>2 DEF CL!Load, CL!LoadQuerys, CL!LoopEnds,
       CL!TimingFails, CL!InLoop, Load, LoadQuerys, LoopEnds, TimingFails,
       InLoop
<1>5. \A kind : CL!Round(kind) = Round(kind)
  BY <1>1, <1>2 DEF CL!Round, CL!InFirstPart, CL!Unsigned, CL!given, Round,
     InFirstPart, Unsigned, given
<1>6. ASSUME CL!RequestsExec PROVE ExecRound
  <2>1. CL!request = request /\ \A f, lines : CL!Written(f, lines) = Written(f, lines)
    BY DEF CL!request, CL!Written, request, Written
  <2>2. Round("exec")
    BY <1>5, <1>6 DEF CL!RequestsExec
  <2>3. \A x : CL!Line(x).key = x
    BY DEF CL!Line
  <2>4. CASE request.type # "get"
    BY <1>6, <2>1, <2>2, <2>4 DEF CL!RequestsExec, ExecRound
  <2>5. CASE request.type = "get"
    <3>1. outputs' = Written(running.file,
                             Append(outputs[running.file], CL!Line(request.key)))
      BY <1>1, <1>6, <2>1, <2>5 DEF CL!RequestsExec
    <3>2. QED BY <2>2, <2>3, <2>5, <3>1 DEF ExecRound
  <2>6. QED BY <2>4, <2>5
<1>7. \A kind : CL!QuietRound(kind) = QuietRound(kind)
  BY <1>5 DEF CL!QuietRound, QuietRound
<1>8. QED
  BY <1>1, <1>2, <1>3, <1>4, <1>5, <1>6, <1>7 DEF Cmlsketch, CL!Next,
     CL!RequestsInit, CL!TestThrpt, ControlNext, ControlStep, LoopRound,
     Calls, FileWritten

LEMMA CqfilterSteps == Cqfilter => ControlNext
<1>1. /\ CQF!running = running /\ CQF!Num = Num
      /\ \A kind : CQF!In(kind) = In(kind)
  BY DEF CQF!In, CQF!running, CQF!Num, In, running, Num
<1>2. CQF!More = More
  BY <1>1 DEF CQF!More, CQF!InFirstPart, CQF!Unsigned, More, InFirstPart,
     Unsigned
<1>3. CQF!NextStage = NextStage /\ CQF!Exit = Exit
  BY <1>1 DEF CQF!NextStage, CQF!Advance, CQF!FirstIndex, CQF!Opened,
     CQF!Written, CQF!Exit, CQF!given, CQF!inside, NextStage, Advance,
     FirstIndex, Opened, Written, Exit, given, inside
<1>4. /\ CQF!Load = Load /\ CQF!LoadQuerys = LoadQuerys
      /\ CQF!LoopEnds = LoopEnds /\ CQF!TimingFails = TimingFails
  <2>1. \A f, before : CQF!NumberOf(f, before) = NumberOf(f, before)
    BY DEF CQF!NumberOf, CQF!NoNumber, NumberOf, NoNumber
  <2>2. \A f, before : /\ CQF!CannotLoad(f, before) = CannotLoad(f, before)
                       /\ CQF!Loaded(f, before) = Loaded(f, before)
    BY <2>1 DEF CQF!CannotLoad, CQF!Loaded, CannotLoad, Loaded
  <2>3. QED
    BY <1>1, <1>2, <1>3, <2>2 DEF CQF!Load, CQF!LoadQuerys, CQF!LoopEnds,
       CQF!TimingFails, CQF!InLoop, Load, LoadQuerys, LoopEnds, TimingFails,
       InLoop
<1>5. \A kind : CQF!Round(kind) = Round(kind)
  BY <1>1, <1>2 DEF CQF!Round, CQF!InFirstPart, CQF!Unsigned, CQF!given,
     Round, InFirstPart, Unsigned, given
<1>6. ASSUME CQF!RequestsExec PROVE ExecRound
  <2>1. CQF!request = request /\ \A f, lines : CQF!Written(f, lines) = Written(f, lines)
    BY DEF CQF!request, CQF!Written, request, Written
  <2>2. Round("exec")
    BY <1>5, <1>6 DEF CQF!RequestsExec
  <2>3. \A x : CQF!Line(x).key = x
    BY DEF CQF!Line
  <2>4. CASE request.type # "get"
    BY <1>6, <2>1, <2>2, <2>4 DEF CQF!RequestsExec, ExecRound
  <2>5. CASE request.type = "get"
    <3>1. outputs' = Written(running.file,
                             Append(outputs[running.file], CQF!Line(request.key)))
      BY <1>1, <1>6, <2>1, <2>5 DEF CQF!RequestsExec
    <3>2. QED BY <2>2, <2>3, <2>5, <3>1 DEF ExecRound
  <2>6. QED BY <2>4, <2>5
<1>7. \A kind : CQF!QuietRound(kind) = QuietRound(kind)
  BY <1>5 DEF CQF!QuietRound, QuietRound
<1>8. QED
  BY <1>1, <1>2, <1>3, <1>4, <1>5, <1>6, <1>7 DEF Cqfilter, CQF!Next,
     CQF!RequestsInit, CQF!TestThrpt, CQF!RequestsQuery, ControlNext,
     ControlStep, LoopRound, Calls, FileWritten

-----------------------------------------------------------------------------
(* The inductive invariant                                                 *)

Trace == UpdatesFile(0)

(* What a query or a deletion of the k-th stage finds in `requests': the   *)
(* trace that -s is below the length of, now or once it is loaded.         *)
OverTrace(k) ==
    /\ nStart < files[Trace].num
    /\ \A j \in 1 .. (k - 1) : stages[j].kind = "load" => stages[j].file = Trace
    /\ (\E j \in 1 .. (k - 1) : stages[j].kind = "load") \/ Num = files[Trace].num

(* The rest of a plan is fit to go on: a reverse run is the last of it, and*)
(* no deletion takes its start from a trace that is being replaced.        *)
PlanFits ==
    \A k \in 1 .. Len(stages) :
        /\ stages[k].kind = "reverse" => k = Len(stages)
        /\ stages[k].kind \in {"query", "delete"} => OverTrace(k)
        /\ stages[k].kind = "delete" /\ k > 1 => stages[k - 1].kind # "load"

Typed ==
    /\ stages \in Seq(Stages) /\ files \in FileSets /\ requests \in Seq(Records)
    /\ Num < SizeT /\ nStart \in Nat /\ interval \in Nat \ {0}
    /\ index \in Int /\ todo \in Nat

(* Until a reverse run has begun, its first chunk is ready to begin.       *)
BeforeReverse ==
    stages # << >> /\ running.kind # "reverse" => phase = "forward" /\ ops = interval

(* The loops.  A deletion that has passed its n_startt-th request is in    *)
(* its second loop, where the index is compared with zero.                 *)
LoopsFit ==
    /\ In("exec") \/ In("query") \/ In("throughput") => index \in Nat
    /\ In("delete") =>
          /\ index \in -1 .. (Num - 1)
          /\ index < Num - nStart - 1 => ~firstPart

(* The reverse run.  The n-th request ends a chunk of ops of them, and     *)
(* the chunks before it are whole.                                         *)
WholeChunks(n)  == \E m \in Nat : n = m * interval
Chunk(n) == ops \in 1 .. interval /\ WholeChunks(n - ops)

ForwardFits ==
    \/ index < Num /\ WholeChunks(index) /\ ops = interval
    \/ index = Num /\ Num = 0
    \/ index = Num /\ Chunk(Num)
ForwardOpsFits ==
    /\ todo <= ops /\ index + todo <= Num /\ Chunk(index + todo)
    /\ index + todo < Num => ops = interval
ReverseFits == index = -1 \/ (index \in 0 .. (Num - 1) /\ Chunk(index + 1))
ReverseOpsFits == index < Num /\ WholeChunks(index + 1 - todo)

ChunksFit ==
    In("reverse") =>
        /\ phase \in {"forward", "forwardOps", "reverse", "reverseOps"}
        /\ phase = "forward"    => ForwardFits
        /\ phase = "forwardOps" => ForwardOpsFits
        /\ phase = "reverse"    => ReverseFits
        /\ phase = "reverseOps" => ReverseOpsFits

IndexInv == Typed /\ PlanFits /\ BeforeReverse /\ LoopsFit /\ ChunksFit

LEMMA Started ==
    ASSUME IndexInv, stages # << >>
    PROVE  /\ Len(stages) \in Nat \ {0} /\ running = stages[1]
           /\ running \in Stages
           /\ Num \in Nat
<1>1. stages \in Seq(Stages) /\ requests \in Seq(Records)
  BY DEF IndexInv, Typed
<1>2. Len(stages) \in Nat /\ Len(stages) # 0 /\ Num \in Nat
  BY <1>1, EmptySeq, LenProperties DEF Num
<1>3. running = stages[1]
  BY <1>1 DEF running
<1>4. running \in Stages
  <2>1. 1 \in 1 .. Len(stages)
    BY <1>2
  <2>2. QED BY <1>1, <1>3, <2>1, ElementOfSeq
<1>5. QED BY <1>2, <1>3, <1>4

(* A stage that is over, not a reverse run, leaves the rest of the plan    *)
(* fit to go on: the next stage finds the trace it is meant for, and its   *)
(* loop starts within it.                                                  *)
LEMMA StageDone ==
    ASSUME IndexInv, stages # << >>, running.kind # "reverse", NextStage,
           requests' \in Seq(Records), Num' < SizeT,
           IF running.kind = "load" THEN Num' = NumberOf(running.file, Num)
           ELSE requests' = requests
    PROVE  IndexInv'
<1>0. /\ stages \in Seq(Stages) /\ nStart \in Nat /\ interval \in Nat \ {0} /\ index \in Int
      /\ files \in FileSets /\ todo \in Nat
      /\ PlanFits /\ BeforeReverse
  BY DEF IndexInv, Typed
<1>1. /\ stages' = Tail(stages) /\ index' = FirstIndex(stages')
      /\ files' = files /\ nStart' = nStart /\ interval' = interval
      /\ firstPart' = firstPart /\ phase' = phase /\ ops' = ops /\ todo' = todo
  BY DEF NextStage, Advance, given, inside
<1>2. /\ stages' \in Seq(Stages) /\ Len(stages') = Len(stages) - 1
      /\ \A k \in 1 .. Len(stages') : stages'[k] = stages[k + 1]
  BY <1>0, <1>1, HeadTailProperties
<1>3. Len(stages) \in Nat \ {0} /\ running = stages[1] /\ Num \in Nat
  BY Started
<1>4. Num' \in Nat
  BY LenProperties DEF Num
<1>5. stages' # << >> => /\ Len(stages') \in Nat \ {0} /\ Head(stages') = stages'[1]
                         /\ running' = stages'[1]
  BY <1>2, EmptySeq, LenProperties DEF running
<1>6. phase = "forward" /\ ops = interval
  BY <1>0 DEF BeforeReverse
<1>7. ASSUME NEW k \in 1 .. Len(stages'), stages'[k].kind \in {"query", "delete"}
      PROVE  OverTrace(k)'
  <2>1. k + 1 \in 1 .. Len(stages) /\ stages[k + 1].kind \in {"query", "delete"}
    BY <1>2, <1>3, <1>7
  <2>2. OverTrace(k + 1)
    BY <1>0, <2>1 DEF PlanFits
  <2>3. nStart' < files'[Trace].num /\ Trace' = Trace
    BY <1>1, <2>2 DEF OverTrace, Trace, UpdatesFile
  <2>4. ASSUME NEW j \in 1 .. (k - 1), stages'[j].kind = "load"
        PROVE  stages'[j].file = Trace
    <3>1. j + 1 \in 1 .. ((k + 1) - 1) /\ stages'[j] = stages[j + 1]
      <4>1. k \in Nat /\ j \in Nat /\ 1 <= j /\ j <= k - 1 /\ k <= Len(stages')
        BY <1>2, <1>3
      <4>2. j \in 1 .. Len(stages') /\ j + 1 \in 1 .. ((k + 1) - 1)
        BY <1>2, <1>3, <4>1
      <4>3. QED BY <1>2, <4>2
    <3>2. QED BY <2>2, <2>4, <3>1 DEF OverTrace
  <2>5. CASE running.kind = "load"
    <3>1. 1 \in 1 .. ((k + 1) - 1)
      BY <2>1
    <3>2. running.file = Trace
      BY <1>3, <2>2, <2>5, <3>1 DEF OverTrace
    <3>3. files[Trace].num # NoNumber
      BY <1>0, <2>2 DEF OverTrace, NoNumber
    <3>4. Num' = files'[Trace].num
      BY <1>1, <2>5, <3>2, <3>3 DEF NumberOf
    <3>5. QED BY <2>3, <2>4, <3>4 DEF OverTrace
  <2>6. CASE running.kind # "load"
    <3>1. Num' = Num
      BY <2>6 DEF Num
    <3>2. CASE Num = files[Trace].num
      BY <1>1, <2>3, <2>4, <3>1, <3>2 DEF OverTrace
    <3>3. CASE \E j \in 1 .. ((k + 1) - 1) : stages[j].kind = "load"
      <4>1. PICK j \in 1 .. ((k + 1) - 1) : stages[j].kind = "load"
        BY <3>3
      <4>2. j # 1
        BY <1>3, <2>6, <4>1
      <4>3. j - 1 \in 1 .. (k - 1) /\ stages'[j - 1] = stages[j]
        BY <1>2, <1>3, <4>1, <4>2
      <4>4. \E i \in 1 .. (k - 1) : stages'[i].kind = "load"
        BY <4>1, <4>3
      <4>5. QED BY <2>3, <2>4, <4>4 DEF OverTrace
    <3>4. QED BY <2>2, <3>2, <3>3 DEF OverTrace
  <2>7. QED BY <2>5, <2>6
<1>8. PlanFits'
  <2>1. ASSUME NEW k \in 1 .. Len(stages')
        PROVE  /\ stages'[k].kind = "reverse" => k = Len(stages')
               /\ stages'[k].kind = "delete" /\ k > 1 => stages'[k - 1].kind # "load"
    <3>1. k + 1 \in 1 .. Len(stages) /\ stages'[k] = stages[k + 1]
      BY <1>2, <1>3
    <3>2. k > 1 => stages'[k - 1] = stages[k]
      BY <1>2, <1>3
    <3>3. stages[k + 1].kind = "reverse" => k + 1 = Len(stages)
      BY <1>0, <3>1 DEF PlanFits
    <3>4. stages[k + 1].kind = "delete" => stages[(k + 1) - 1].kind # "load"
      BY <1>0, <3>1 DEF PlanFits
    <3>5. QED BY <1>2, <1>3, <3>1, <3>2, <3>3, <3>4
  <2>2. QED BY <1>7, <2>1 DEF PlanFits
<1>9. BeforeReverse'
  BY <1>1, <1>6 DEF BeforeReverse
<1>10. stages' # << >> => index' = IF running'.kind = "delete" THEN Num - 1 ELSE 0
  BY <1>1, <1>5 DEF FirstIndex
<1>11. index' \in Int
  BY <1>1, <1>3 DEF FirstIndex
<1>12. ASSUME In("delete")' PROVE Num' = Num /\ nStart < Num
  <2>1. stages' # << >> /\ stages'[1].kind = "delete" /\ 1 \in 1 .. Len(stages')
    BY <1>5, <1>12 DEF In
  <2>2. stages[2].kind = "delete" /\ 2 \in 1 .. Len(stages)
    BY <1>2, <1>3, <2>1
  <2>3. stages[2 - 1].kind # "load"
    BY <1>0, <2>2 DEF PlanFits
  <2>4. Num' = Num
    BY <1>3, <2>3 DEF Num
  <2>5. OverTrace(1)'
    BY <1>7, <2>1
  <2>6. nStart' < files'[Trace'].num /\ Num' = files'[Trace'].num
    BY <2>5 DEF OverTrace
  <2>7. QED BY <1>1, <2>4, <2>6
<1>13. LoopsFit'
  <2>1. (In("exec") \/ In("query") \/ In("throughput"))' => index' \in Nat
    BY <1>10 DEF In
  <2>2. ASSUME In("delete")'
        PROVE  index' \in -1 .. (Num' - 1) /\ ~ (index' < Num' - nStart' - 1)
    <3>1. Num' = Num /\ nStart < Num
      BY <1>12, <2>2
    <3>2. index' = Num - 1
      BY <1>10, <2>2 DEF In
    <3>3. QED BY <1>0, <1>1, <1>3, <3>1, <3>2
  <2>3. QED BY <2>1, <2>2 DEF LoopsFit
<1>14. ChunksFit'
  <2>1. SUFFICES ASSUME In("reverse")' PROVE ForwardFits'
    BY <1>1, <1>6 DEF ChunksFit
  <2>2. index' = 0
    BY <1>10, <2>1 DEF In
  <2>3. 0 = 0 * interval'
    BY <1>0, <1>1
  <2>4. WholeChunks(index)'
    BY <2>2, <2>3 DEF WholeChunks
  <2>5. QED BY <1>1, <1>4, <1>6, <2>2, <2>4 DEF ForwardFits
<1>15. QED BY <1>0, <1>1, <1>2, <1>8, <1>9, <1>11, <1>13, <1>14 DEF IndexInv, Typed

(* A load that succeeds reads as many requests as the header says; one     *)
(* that fails ends the program.                                            *)
LEMMA Exits == IndexInv /\ Exit => IndexInv'
<1>1. SUFFICES ASSUME IndexInv, Exit PROVE IndexInv'
  OBVIOUS
<1>2. stages' = << >> /\ UNCHANGED <<files, nStart, interval, requests, index, todo>>
  BY <1>1 DEF Exit, given, inside
<1>3. Typed'
  BY <1>1, <1>2, EmptySeq DEF IndexInv, Typed, Num
<1>4. QED
  BY <1>2, <1>3, EmptySeq DEF IndexInv, PlanFits, BeforeReverse, LoopsFit, ChunksFit, In

(* The number a file of records is read with, and what is read.            *)
LEMMA Read ==
    ASSUME NEW fs \in FileSets, files = fs, NEW f \in DOMAIN fs, NEW before \in Nat,
           before < SizeT, ~CannotLoad(f, before)
    PROVE  /\ NumberOf(f, before) \in Nat /\ NumberOf(f, before) < SizeT
           /\ fs[f].records \in Seq(Records) /\ Len(fs[f].records) \in Nat
           /\ DOMAIN fs[f].records = 1 .. Len(fs[f].records)
           /\ NumberOf(f, before) <= Len(fs[f].records)
           /\ Loaded(f, before) \in Seq(Records)
           /\ Len(Loaded(f, before)) = NumberOf(f, before)
           /\ \A i \in 1 .. NumberOf(f, before) : Loaded(f, before)[i] = fs[f].records[i]
<1> DEFINE n == NumberOf(f, before)
<1> DEFINE rs == fs[f].records
<1>1. /\ fs[f].num \in NoNumber .. (SizeT - 1) /\ rs \in Seq(Records) /\ SizeT \in Nat
  BY OptionsAssumption DEF OptionsAssumption
<1>2. n \in Nat /\ n < SizeT
  BY <1>1 DEF NumberOf, NoNumber
<1>3. Len(rs) \in Nat /\ DOMAIN rs = 1 .. Len(rs)
  BY <1>1, LenProperties
<1>4. ~ (n > Len(rs)) /\ Loaded(f, before) = SubSeq(rs, 1, n)
  BY DEF CannotLoad, Loaded
<1> HIDE DEF n, rs
<1>5. n <= Len(rs)
  BY <1>2, <1>3, <1>4
<1>6. \A i \in 1 .. n : rs[i] \in Records /\ rs[(1 + i) - 1] = rs[i]
  BY <1>1, <1>2, <1>3, <1>5, ElementOfSeq
<1>7. /\ Loaded(f, before) \in Seq(Records) /\ Len(Loaded(f, before)) = n
      /\ \A i \in 1 .. n : Loaded(f, before)[i] = rs[i]
  BY <1>1, <1>2, <1>3, <1>4, <1>5, <1>6, SubSeqProperties
<1>8. QED BY <1>1, <1>2, <1>3, <1>5, <1>7 DEF n, rs

LEMMA Loads == IndexInv /\ (Load \/ LoadQuerys) => IndexInv'
<1>1. SUFFICES ASSUME IndexInv, Load \/ LoadQuerys PROVE IndexInv'
  OBVIOUS
<1>2. stages # << >> /\ running.kind \in {"load", "load_querys"}
  BY <1>1 DEF Load, LoadQuerys, In
<1>3. CASE Exit
  BY <1>1, <1>3, Exits
<1>4. CASE Load /\ ~CannotLoad(running.file, Num)
  <2>1. NextStage /\ requests' = Loaded(running.file, Num) /\ running.kind = "load"
    BY <1>4 DEF Load, In
  <2>2. /\ files \in FileSets /\ running.file \in DOMAIN files /\ Num \in Nat /\ Num < SizeT
    BY <1>1, <1>2, <1>4, Started DEF CannotLoad, IndexInv, Typed
  <2>3. /\ requests' \in Seq(Records) /\ Len(requests') = NumberOf(running.file, Num)
        /\ NumberOf(running.file, Num) < SizeT
    BY <1>4, <2>1, <2>2, Read
  <2>4. Num' = NumberOf(running.file, Num) /\ Num' < SizeT
    BY <2>3 DEF Num
  <2>5. QED BY <1>1, <1>2, <2>1, <2>3, <2>4, StageDone
<1>5. CASE LoadQuerys /\ ~CannotLoad(running.file, 0)
  <2>1. NextStage /\ requests' = requests /\ running.kind = "load_querys"
    BY <1>5 DEF LoadQuerys, In
  <2>2. requests' \in Seq(Records) /\ Num' < SizeT
    BY <1>1, <2>1 DEF IndexInv, Typed, Num
  <2>3. QED BY <1>1, <1>2, <2>1, <2>2, StageDone
<1>6. QED BY <1>1, <1>3, <1>4, <1>5 DEF Load, LoadQuerys

(* A loop that is over, or a change of the sketch at once.                 *)
LEMMA StageEnds == IndexInv /\ (LoopEnds \/ Calls) => IndexInv'
<1>1. SUFFICES ASSUME IndexInv, LoopEnds \/ Calls PROVE IndexInv'
  OBVIOUS
<1>2. /\ stages # << >> /\ running.kind \notin {"reverse", "load"}
      /\ NextStage /\ requests' = requests
  BY <1>1 DEF LoopEnds, InLoop, Calls, In
<1>3. requests' \in Seq(Records) /\ Num' < SizeT
  BY <1>1, <1>2 DEF IndexInv, Typed, Num
<1>4. QED BY <1>1, <1>2, <1>3, StageDone

(* A time that cannot be written down ends the program.                    *)
LEMMA TimingKeeps == IndexInv /\ TimingFails => IndexInv'
BY Exits DEF TimingFails

-----------------------------------------------------------------------------
(* The loops                                                               *)

(* What a stage finds that runs now.                                       *)
LEMMA RunningOver ==
    ASSUME IndexInv, In("query") \/ In("delete")
    PROVE  nStart < Num
<1>1. stages # << >> /\ Len(stages) \in Nat \ {0} /\ running = stages[1]
  BY Started DEF In
<1>2. 1 \in 1 .. Len(stages) /\ stages[1].kind \in {"query", "delete"}
  BY <1>1 DEF In
<1>3. OverTrace(1)
  BY <1>2 DEF IndexInv, PlanFits
<1>4. QED BY <1>3 DEF OverTrace

(* The conversion of the index and of num_requests - n_startt to a size_t  *)
(* is harmless: the first loop ends where n_startt requests are deleted.   *)
LEMMA FirstPartEnds ==
    ASSUME IndexInv, In("delete"), index >= 0
    PROVE  InFirstPart <=> firstPart /\ index >= Num - nStart
<1>1. nStart < Num
  BY RunningOver
<1>2. Num \in Nat /\ Num < SizeT /\ nStart \in Nat /\ index \in Int /\ SizeT \in Nat \ {0}
  BY Started, OptionsAssumption DEF OptionsAssumption, IndexInv, Typed, In
<1>3. Num - nStart \in 0 .. (SizeT - 1) /\ (Num - nStart) + SizeT \in Nat
  BY <1>1, <1>2
<1>4. (Num - nStart) + SizeT = SizeT * 1 + (Num - nStart)
  BY <1>2
<1>5. ((Num - nStart) + SizeT) % SizeT = Num - nStart
  BY <1>2, <1>3, <1>4, QuotientIs
<1>6. Unsigned(index) = index
  BY <1>2 DEF Unsigned
<1>7. QED BY <1>5, <1>6 DEF InFirstPart

LEMMA DeleteInRange ==
    ASSUME IndexInv, In("delete"), More
    PROVE  index \in 0 .. (Num - 1)
<1>1. /\ nStart < Num /\ index \in -1 .. (Num - 1)
      /\ index < Num - nStart - 1 => ~firstPart
  BY RunningOver DEF IndexInv, LoopsFit
<1>2. Num \in Nat /\ nStart \in Nat /\ index \in Int
  BY Started DEF IndexInv, Typed, In
<1>3. InFirstPart \/ index >= 0
  BY DEF More, In
<1>4. InFirstPart => firstPart
  BY DEF InFirstPart
<1>5. QED BY <1>1, <1>2, <1>3, <1>4

LEMMA Rounds == IndexInv /\ LoopRound => IndexInv'
<1>1. SUFFICES ASSUME IndexInv, NEW kind \in {"exec", "query", "throughput", "delete"}, Round(kind)
               PROVE  IndexInv'
  BY DEF LoopRound, ExecRound, QuietRound
<1>2. /\ In(kind) /\ More /\ stages # << >> /\ running.kind = kind
      /\ index' = (IF kind = "delete" THEN index - 1 ELSE index + 1)
      /\ firstPart' = (IF kind = "delete" THEN InFirstPart ELSE firstPart)
      /\ UNCHANGED <<files, nStart, interval, stages, requests, phase, ops, todo>>
  BY <1>1 DEF Round, given, In
<1>3. Typed'
  BY <1>1, <1>2 DEF IndexInv, Typed, Num
<1>4. PlanFits'
  BY <1>1, <1>2 DEF IndexInv, PlanFits, OverTrace, Num, Trace, UpdatesFile
<1>5. BeforeReverse'
  BY <1>1, <1>2 DEF IndexInv, BeforeReverse, running
<1>6. ChunksFit'
  BY <1>1, <1>2 DEF ChunksFit, In, running
<1>7. running' = running /\ Num' = Num /\ stages' # << >>
  BY <1>2 DEF running, Num
<1>8. CASE kind = "delete"
  <2>1. index \in 0 .. (Num - 1) /\ nStart < Num /\ Num \in Nat /\ nStart \in Nat
    BY <1>1, <1>2, <1>8, DeleteInRange, RunningOver, Started DEF IndexInv, Typed
  <2>2. index' \in -1 .. (Num' - 1)
    BY <1>2, <1>7, <1>8, <2>1
  <2>3. index' < Num' - nStart' - 1 => ~firstPart'
    <3>1. SUFFICES ASSUME index - 1 < Num - nStart - 1 PROVE ~InFirstPart
      BY <1>2, <1>7, <1>8
    <3>2. ~ (index >= Num - nStart)
      BY <2>1, <3>1
    <3>3. index >= 0
      BY <2>1
    <3>4. QED BY <1>1, <1>2, <1>8, <3>2, <3>3, FirstPartEnds
  <2>4. LoopsFit'
    BY <1>2, <1>7, <1>8, <2>2, <2>3 DEF LoopsFit, In
  <2>5. QED BY <1>3, <1>4, <1>5, <1>6, <2>4 DEF IndexInv
<1>9. CASE kind # "delete"
  <2>1. index' \in Nat
    BY <1>1, <1>2, <1>9 DEF IndexInv, LoopsFit
  <2>2. LoopsFit'
    BY <1>2, <1>7, <1>9, <2>1 DEF LoopsFit, In
  <2>3. QED BY <1>3, <1>4, <1>5, <1>6, <2>2 DEF IndexInv
<1>10. QED BY <1>8, <1>9

-----------------------------------------------------------------------------
(* The reverse run                                                         *)

(* A step of the reverse run that does not end it keeps what does not      *)
(* depend on where it is.                                                  *)
LEMMA StillReverse ==
    ASSUME IndexInv, In("reverse"), ReverseKeeps, stages' = stages,
           index' \in Int, todo' \in Nat, ChunksFit'
    PROVE  IndexInv'
<1>1. UNCHANGED <<files, nStart, interval, requests, firstPart, stages>>
  BY DEF ReverseKeeps, given
<1>2. stages # << >> /\ running.kind = "reverse" /\ running' = running
  BY <1>1 DEF In, running
<1>3. Typed'
  BY <1>1 DEF IndexInv, Typed, Num
<1>4. PlanFits'
  BY <1>1 DEF IndexInv, PlanFits, OverTrace, Num, Trace, UpdatesFile
<1>5. BeforeReverse' /\ LoopsFit'
  BY <1>1, <1>2 DEF BeforeReverse, LoopsFit, In
<1>6. QED BY <1>3, <1>4, <1>5 DEF IndexInv

LEMMA ChunksOf ==
    ASSUME IndexInv, In("reverse")
    PROVE  /\ Num \in Nat /\ index \in Int /\ todo \in Nat /\ interval \in Nat \ {0}
           /\ phase = "forward"    => ForwardFits
           /\ phase = "forwardOps" => ForwardOpsFits
           /\ phase = "reverse"    => ReverseFits
           /\ phase = "reverseOps" => ReverseOpsFits
BY Started DEF IndexInv, Typed, ChunksFit, In

LEMMA WholeSteps ==
    ASSUME interval \in Nat \ {0}
    PROVE  /\ \A n \in Int : WholeChunks(n) => n \in Nat /\ WholeChunks(n + interval)
           /\ \A n \in Nat : WholeChunks(n) /\ n # 0 => WholeChunks(n - interval)
<1>1. ASSUME NEW n \in Int, NEW m \in Nat, n = m * interval
      PROVE  /\ n \in Nat /\ n + interval = (m + 1) * interval /\ m + 1 \in Nat
             /\ n # 0 => m - 1 \in Nat /\ n - interval = (m - 1) * interval
  <2>1. n \in Nat /\ n + interval = (m + 1) * interval /\ n - interval = (m - 1) * interval
    BY <1>1
  <2>2. m = 0 => n = 0
    BY <1>1
  <2>3. QED BY <2>1, <2>2
<1>2. ASSUME NEW n \in Int, WholeChunks(n)
      PROVE  /\ n \in Nat /\ WholeChunks(n + interval)
             /\ n # 0 => WholeChunks(n - interval)
  <2>1. PICK m \in Nat : n = m * interval
    BY <1>2 DEF WholeChunks
  <2>2. /\ n \in Nat /\ n + interval = (m + 1) * interval /\ m + 1 \in Nat
        /\ n # 0 => m - 1 \in Nat /\ n - interval = (m - 1) * interval
    BY <1>1, <2>1
  <2>3. QED BY <2>2 DEF WholeChunks
<1>3. QED BY <1>2

LEMMA ForwardChunks == IndexInv /\ ForwardChunk => IndexInv'
<1>1. SUFFICES ASSUME IndexInv, ForwardChunk PROVE IndexInv'
  OBVIOUS
<1>2. /\ In("reverse") /\ phase = "forward" /\ index < Num /\ phase' = "forwardOps"
      /\ ops' = IF Num - index < interval THEN Num - index ELSE ops
      /\ todo' = ops' /\ ReverseKeeps /\ UNCHANGED <<stages, index>>
      /\ interval' = interval /\ Num' = Num /\ In("reverse")'
  BY <1>1 DEF ForwardChunk, At, ReverseKeeps, given, Num, In, running
<1>3. Num \in Nat /\ index \in Int /\ interval \in Nat \ {0} /\ ForwardFits
  BY <1>1, <1>2, ChunksOf
<1>4. WholeChunks(index) /\ ops = interval
  BY <1>2, <1>3 DEF ForwardFits
<1>5. index \in Nat
  BY <1>3, <1>4, WholeSteps
<1>6. ops' \in 1 .. interval /\ index + ops' <= Num /\ (index + ops' < Num => ops' = interval)
  BY <1>2, <1>3, <1>4, <1>5
<1>7. WholeChunks((index + todo) - ops)'
  <2>1. (index' + todo') - ops' = index
    BY <1>2, <1>5, <1>6
  <2>2. QED BY <1>2, <1>4, <2>1 DEF WholeChunks
<1>8. ForwardOpsFits'
  <2>1. todo' <= ops' /\ index' + todo' <= Num' /\ (index' + todo' < Num' => ops' = interval')
    BY <1>2, <1>3, <1>6
  <2>2. Chunk(index + todo)'
    <3>1. (ops \in 1 .. interval)'
      BY <1>2, <1>6
    <3>2. QED BY <1>7, <3>1 DEF Chunk
  <2>3. QED BY <2>1, <2>2 DEF ForwardOpsFits
<1>9. ChunksFit'
  BY <1>2, <1>8 DEF ChunksFit
<1>10. index' \in Int /\ todo' \in Nat
  BY <1>2, <1>3, <1>6
<1>11. QED BY <1>1, <1>2, <1>9, <1>10, StillReverse

LEMMA ForwardSteps == IndexInv /\ ForwardStep => IndexInv'
<1>1. SUFFICES ASSUME IndexInv, ForwardStep PROVE IndexInv'
  OBVIOUS
<1>2. /\ In("reverse") /\ phase = "forwardOps" /\ todo > 0 /\ phase' = "forwardOps"
      /\ index' = index + 1 /\ todo' = todo - 1 /\ ops' = ops
      /\ ReverseKeeps /\ stages' = stages
      /\ interval' = interval /\ Num' = Num /\ In("reverse")'
  BY <1>1 DEF ForwardStep, At, ReverseKeeps, given, Num, In, running
<1>3. index \in Int /\ todo \in Nat /\ ForwardOpsFits
  BY <1>1, <1>2, ChunksOf
<1>4. index' + todo' = index + todo /\ index' \in Int /\ todo' \in Nat /\ todo' <= todo
  BY <1>2, <1>3
<1>5. ops \in 1 .. interval /\ todo <= ops
  BY <1>3 DEF ForwardOpsFits, Chunk
<1>6. interval \in Nat
  BY <1>1, <1>2, ChunksOf
<1>7. todo' <= ops
  BY <1>3, <1>4, <1>5, <1>6
<1>8. ForwardOpsFits'
  BY <1>2, <1>3, <1>4, <1>7 DEF ForwardOpsFits, Chunk, WholeChunks
<1>9. ChunksFit'
  BY <1>2, <1>8 DEF ChunksFit
<1>10. QED BY <1>1, <1>2, <1>4, <1>9, StillReverse

LEMMA TurnsAround == IndexInv /\ TurnAround => IndexInv'
<1>1. SUFFICES ASSUME IndexInv, TurnAround PROVE IndexInv'
  OBVIOUS
<1>2. /\ In("reverse") /\ phase = "forward" /\ index >= Num /\ phase' = "reverse"
      /\ index' = Num - 1 /\ UNCHANGED <<stages, ops, todo>> /\ ReverseKeeps
      /\ interval' = interval /\ Num' = Num /\ In("reverse")'
  BY <1>1 DEF TurnAround, At, ReverseKeeps, given, Num, In, running
<1>3. Num \in Nat /\ index \in Int /\ todo \in Nat /\ ForwardFits
  BY <1>1, <1>2, ChunksOf
<1>4. Num = 0 \/ Chunk(Num)
  BY <1>2, <1>3 DEF ForwardFits
<1>5. index' + 1 = Num
  BY <1>2, <1>3
<1>6. Num # 0 => Chunk(index + 1)'
  BY <1>2, <1>4, <1>5 DEF Chunk, WholeChunks
<1>7. ReverseFits'
  BY <1>2, <1>3, <1>6 DEF ReverseFits
<1>8. ChunksFit'
  BY <1>2, <1>7 DEF ChunksFit
<1>9. index' \in Int /\ todo' \in Nat
  BY <1>2, <1>3
<1>10. QED BY <1>1, <1>2, <1>8, <1>9, StillReverse

LEMMA ReverseChunks == IndexInv /\ ReverseChunk => IndexInv'
<1>1. SUFFICES ASSUME IndexInv, ReverseChunk PROVE IndexInv'
  OBVIOUS
<1>2. /\ In("reverse") /\ phase = "reverse" /\ index >= 0 /\ phase' = "reverseOps"
      /\ todo' = ops /\ UNCHANGED <<stages, ops, index>> /\ ReverseKeeps
      /\ interval' = interval /\ Num' = Num /\ In("reverse")'
  BY <1>1 DEF ReverseChunk, At, ReverseKeeps, given, Num, In, running
<1>3. Num \in Nat /\ index \in Int /\ interval \in Nat /\ ReverseFits
  BY <1>1, <1>2, ChunksOf
<1>4. index \in 0 .. (Num - 1) /\ Chunk(index + 1)
  BY <1>2, <1>3 DEF ReverseFits
<1>5. index' \in Int /\ todo' \in Nat
  BY <1>2, <1>3, <1>4 DEF Chunk
<1>6. ReverseOpsFits'
  BY <1>2, <1>3, <1>4 DEF ReverseOpsFits, Chunk, WholeChunks
<1>7. ChunksFit'
  BY <1>2, <1>6 DEF ChunksFit
<1>8. QED BY <1>1, <1>2, <1>5, <1>7, StillReverse

LEMMA ReverseSteps == IndexInv /\ ReverseStep => IndexInv'
<1>1. SUFFICES ASSUME IndexInv, ReverseStep PROVE IndexInv'
  OBVIOUS
<1>2. /\ In("reverse") /\ phase = "reverseOps" /\ todo > 0 /\ phase' = "reverseOps"
      /\ index' = index - 1 /\ todo' = todo - 1
      /\ ReverseKeeps /\ stages' = stages
      /\ interval' = interval /\ Num' = Num /\ In("reverse")'
  BY <1>1 DEF ReverseStep, At, ReverseKeeps, given, Num, In, running
<1>3. Num \in Nat /\ index \in Int /\ todo \in Nat /\ ReverseOpsFits
  BY <1>1, <1>2, ChunksOf
<1>4. index' \in Int /\ todo' \in Nat /\ index' + 1 - todo' = index + 1 - todo /\ index' < index
  BY <1>2, <1>3
<1>5. index' < Num' /\ WholeChunks(index + 1 - todo)'
  BY <1>2, <1>3, <1>4 DEF ReverseOpsFits, WholeChunks
<1>6. ChunksFit'
  BY <1>2, <1>5 DEF ChunksFit, ReverseOpsFits
<1>7. QED BY <1>1, <1>2, <1>4, <1>6, StillReverse

LEMMA FilesWritten == IndexInv /\ FileWritten => IndexInv'
<1>1. SUFFICES ASSUME IndexInv, NEW lines, ForwardQuery(lines) \/ ReverseQuery(lines)
               PROVE  IndexInv'
  BY DEF FileWritten
<1>2. /\ In("reverse") /\ todo = 0 /\ UNCHANGED <<stages, index, todo>> /\ ReverseKeeps
      /\ interval' = interval /\ Num' = Num /\ In("reverse")'
  BY <1>1 DEF ForwardQuery, ReverseQuery, At, ReverseKeeps, given, Num, In, running
<1>3. Num \in Nat /\ index \in Int /\ todo \in Nat /\ interval \in Nat \ {0}
  BY <1>1, <1>2, ChunksOf
<1>4. CASE ForwardQuery(lines)
  <2>1. phase = "forwardOps" /\ phase' = "forward" /\ ops' = ops
    BY <1>4 DEF ForwardQuery, At
  <2>2. ForwardOpsFits
    BY <1>1, <1>2, <2>1, ChunksOf
  <2>3. /\ index + todo = index /\ index <= Num /\ Chunk(index)
        /\ index < Num => ops = interval
    BY <1>2, <1>3, <2>2 DEF ForwardOpsFits
  <2>4. index < Num => WholeChunks(index)
    <3>1. SUFFICES ASSUME index < Num PROVE WholeChunks(index)
      OBVIOUS
    <3>2. WholeChunks(index - interval)
      BY <2>3, <3>1 DEF Chunk
    <3>3. WholeChunks((index - interval) + interval)
      BY <1>3, <3>2, WholeSteps
    <3>4. (index - interval) + interval = index
      BY <1>3
    <3>5. QED BY <3>3, <3>4
  <2>5. ForwardFits'
    BY <1>2, <1>3, <2>1, <2>3, <2>4 DEF ForwardFits, Chunk, WholeChunks
  <2>6. ChunksFit'
    BY <1>2, <2>1, <2>5 DEF ChunksFit
  <2>7. QED BY <1>1, <1>2, <1>3, <2>6, StillReverse
<1>5. CASE ReverseQuery(lines)
  <2>1. phase = "reverseOps" /\ phase' = "reverse" /\ ops' = interval
    BY <1>5 DEF ReverseQuery, At
  <2>2. ReverseOpsFits
    BY <1>1, <1>2, <2>1, ChunksOf
  <2>3. index < Num /\ WholeChunks(index + 1)
    <3>1. index + 1 - todo = index + 1
      BY <1>2, <1>3
    <3>2. QED BY <2>2, <3>1 DEF ReverseOpsFits
  <2>4. index + 1 \in Nat
    BY <1>3, <2>3, WholeSteps
  <2>5. index + 1 # 0 => index \in 0 .. (Num - 1) /\ WholeChunks(index + 1 - interval)
    BY <1>3, <2>3, <2>4, WholeSteps
  <2>6. index + 1 # 0 => Chunk(index + 1)'
    BY <1>2, <1>3, <2>1, <2>5 DEF Chunk, WholeChunks
  <2>7. ReverseFits'
    BY <1>2, <1>3, <2>5, <2>6 DEF ReverseFits
  <2>8. ChunksFit'
    BY <1>2, <2>1, <2>7 DEF ChunksFit
  <2>9. QED BY <1>1, <1>2, <1>3, <2>8, StillReverse
<1>6. QED BY <1>1, <1>4, <1>5

(* A reverse run is the last stage of its program.                         *)
LEMMA ReverseOver == IndexInv /\ ReverseEnds => IndexInv'
<1>1. SUFFICES ASSUME IndexInv, ReverseEnds PROVE IndexInv'
  OBVIOUS
<1>2. /\ stages # << >> /\ running.kind = "reverse" /\ stages' = Tail(stages)
      /\ UNCHANGED <<files, nStart, interval, requests, index, todo>>
  BY <1>1 DEF ReverseEnds, At, ReverseKeeps, given, In
<1>3. running = stages[1] /\ Len(stages) \in Nat \ {0}
  BY <1>1, <1>2, Started
<1>4. Len(stages) = 1
  <2>1. 1 \in 1 .. Len(stages) /\ PlanFits
    BY <1>1, <1>3 DEF IndexInv
  <2>2. QED BY <1>2, <1>3, <2>1 DEF PlanFits
<1>5. stages' \in Seq(Stages) /\ Len(stages') = 0
  BY <1>1, <1>2, <1>4, HeadTailProperties DEF IndexInv, Typed
<1>6. stages' = << >>
  BY <1>5, EmptySeq
<1>7. Typed'
  BY <1>1, <1>2, <1>5 DEF IndexInv, Typed, Num
<1>8. QED
  BY <1>5, <1>6, <1>7 DEF IndexInv, PlanFits, BeforeReverse, LoopsFit, ChunksFit, In

-----------------------------------------------------------------------------

LEMMA ControlKeeps == IndexInv /\ ControlNext => IndexInv'
BY Loads, StageEnds, TimingKeeps, Rounds, ForwardChunks, ForwardSteps, TurnsAround, ReverseChunks,
   ReverseSteps, FilesWritten, ReverseOver DEF ControlNext, ControlStep

LEMMA StutterKeeps == IndexInv /\ UNCHANGED vars => IndexInv'
<1>1. SUFFICES ASSUME IndexInv, UNCHANGED vars PROVE IndexInv'
  OBVIOUS
<1>2. UNCHANGED <<files, nStart, interval, stages, requests, index, firstPart, phase, ops, todo>>
  BY <1>1 DEF vars, control, given, inside
<1>3. running' = running /\ Num' = Num
  BY <1>2 DEF running, Num
<1>4. Typed' /\ PlanFits' /\ BeforeReverse' /\ LoopsFit'
  BY <1>1, <1>2, <1>3 DEF IndexInv, Typed, PlanFits, OverTrace, Trace, UpdatesFile,
     BeforeReverse, LoopsFit, In
<1>5. ChunksFit'
  BY <1>1, <1>2, <1>3 DEF IndexInv, ChunksFit, In, ForwardFits, ForwardOpsFits, ReverseFits,
     ReverseOpsFits, Chunk, WholeChunks
<1>6. QED BY <1>4, <1>5 DEF IndexInv

LEMMA NextKeeps == IndexInv /\ [Next]_vars => IndexInv'
BY SfsketchSteps, CmsketchSteps, CsketchSteps, CmcusketchSteps, CmlsketchSteps, CqfilterSteps,
   ControlKeeps, StutterKeeps DEF Next, Ends

(* Where the invariant holds, a loop that goes round touches a request of  *)
(* the trace.                                                              *)
LEMMA InRange == IndexInv => IndexInRange
<1>1. SUFFICES ASSUME IndexInv,
                      \/ InLoop /\ More
                      \/ In("reverse") /\ phase \in {"forwardOps", "reverseOps"} /\ todo > 0
               PROVE  index \in 0 .. (Num - 1)
  BY DEF IndexInRange
<1>2. CASE (In("exec") \/ In("throughput")) /\ More
  <2>1. index \in Nat /\ index < Num /\ Num \in Nat
    BY <1>1, <1>2, Started DEF IndexInv, LoopsFit, More, In
  <2>2. QED BY <2>1
<1>3. CASE In("query") /\ More
  <2>1. /\ index \in Nat /\ Num \in Nat /\ nStart \in Nat /\ nStart < Num
        /\ index < nStart \/ index < Num
    BY <1>1, <1>3, Started, RunningOver DEF IndexInv, Typed, LoopsFit, More, In
  <2>2. QED BY <2>1
<1>4. CASE In("delete") /\ More
  BY <1>1, <1>4, DeleteInRange
<1>5. CASE In("reverse") /\ phase = "forwardOps" /\ todo > 0
  <2>1. /\ Num \in Nat /\ index \in Int /\ todo \in Nat /\ interval \in Nat \ {0}
        /\ todo <= ops /\ index + todo <= Num /\ Chunk(index + todo)
    BY <1>1, <1>5, ChunksOf DEF ForwardOpsFits
  <2>2. ops \in 1 .. interval /\ WholeChunks((index + todo) - ops)
    BY <2>1 DEF Chunk
  <2>3. index + todo - ops \in Int
    BY <2>1, <2>2
  <2>4. index + todo - ops \in Nat
    BY <2>1, <2>2, <2>3, WholeSteps
  <2>5. QED BY <1>5, <2>1, <2>2, <2>4
<1>6. CASE In("reverse") /\ phase = "reverseOps" /\ todo > 0
  <2>1. /\ Num \in Nat /\ index \in Int /\ todo \in Nat /\ interval \in Nat \ {0}
        /\ index < Num /\ WholeChunks(index + 1 - todo)
    BY <1>1, <1>6, ChunksOf DEF ReverseOpsFits
  <2>2. index + 1 - todo \in Nat
    BY <2>1, WholeSteps
  <2>3. QED BY <1>6, <2>1, <2>2
<1>7. QED BY <1>1, <1>2, <1>3, <1>4, <1>5, <1>6 DEF InLoop

-----------------------------------------------------------------------------
(* The plans of the programs                                               *)

(* The stages of the subfiles: the recursive function that Subfiles has    *)
(* exists, and a least index where it left a set of sequences would be 0   *)
(* or follow one.                                                          *)
Joins(h, composing, n) ==
    h = [i \in 0 .. n |-> IF i = 0 THEN << >> ELSE h[i - 1] \o Answered(i, composing)]

LEMMA JoinsExist ==
    ASSUME NEW composing
    PROVE  \A n \in Nat : \E h : Joins(h, composing, n)
<1> DEFINE bad == {n \in Nat : ~ \E h : Joins(h, composing, n)}
<1>1. ASSUME bad # {} PROVE FALSE
  <2>1. PICK n \in bad : \A m \in bad : n <= m
    <3>1. bad \in SUBSET Nat
      OBVIOUS
    <3>2. QED BY <1>1, <3>1, MinIsLeast
  <2>2. n \in Nat /\ ~ \E h : Joins(h, composing, n)
    OBVIOUS
  <2>3. CASE n = 0
    <3> DEFINE g == [i \in 0 .. 0 |-> << >>]
    <3>1. g = [i \in 0 .. 0 |-> IF i = 0 THEN << >> ELSE g[i - 1] \o Answered(i, composing)]
      <4>1. \A i \in 0 .. 0 : i = 0
        OBVIOUS
      <4>2. QED BY <4>1
    <3>2. QED BY <2>2, <2>3, <3>1 DEF Joins
  <2>4. CASE n # 0
    <3>1. n - 1 \in Nat /\ ~ (n <= n - 1)
      BY <2>2, <2>4
    <3>2. n - 1 \notin bad
      <4> HIDE DEF bad
      <4>1. QED BY <2>1, <3>1
    <3>3. PICK g : Joins(g, composing, n - 1)
      BY <3>1, <3>2
    <3> DEFINE next(f, i) == IF i = 0 THEN << >> ELSE f[i - 1] \o Answered(i, composing)
    <3> DEFINE h == [i \in 0 .. n |-> IF i < n THEN g[i] ELSE next(g, i)]
    <3>4. ASSUME NEW i \in 0 .. n PROVE h[i] = next(h, i)
      <4>1. i # 0 => h[i - 1] = g[i - 1]
        BY <2>2
      <4>2. next(h, i) = next(g, i)
        BY <4>1
      <4>3. i < n => g[i] = next(g, i)
        <5>1. i < n => i \in 0 .. (n - 1)
          BY <2>2
        <5>2. QED BY <3>3, <5>1 DEF Joins
      <4>4. h[i] = IF i < n THEN g[i] ELSE next(g, i)
        OBVIOUS
      <4> HIDE DEF h, next
      <4>5. QED BY <4>2, <4>3, <4>4
    <3>5. h = [i \in 0 .. n |-> h[i]]
      OBVIOUS
    <3>6. h = [i \in 0 .. n |-> next(h, i)]
      <4> HIDE DEF h, next
      <4>1. QED BY <3>4, <3>5
    <3> HIDE DEF h
    <3>7. Joins(h, composing, n)
      BY <3>6 DEF Joins
    <3>8. QED BY <2>2, <3>7
  <2>5. QED BY <2>3, <2>4
<1>2. QED BY <1>1

LEMMA SubfilesJoined ==
    ASSUME NEW S, NEW n \in Nat, NEW composing,
           \A i \in 1 .. n : Answered(i, composing) \in Seq(S)
    PROVE  \E h : /\ Joins(h, composing, n) /\ Subfiles(n, composing) = h[n]
                  /\ \A i \in 0 .. n : h[i] \in Seq(S)
<1> DEFINE h == CHOOSE h : Joins(h, composing, n)
<1>1. Subfiles(n, composing) = h[n]
  BY DEF Subfiles, Joins
<1>2. Joins(h, composing, n)
  BY JoinsExist
<1> HIDE DEF h
<1> DEFINE bad == {i \in 0 .. n : h[i] \notin Seq(S)}
<1>3. ASSUME bad # {} PROVE FALSE
  <2>1. bad \in SUBSET Nat
    OBVIOUS
  <2>2. PICK i \in bad : \A m \in bad : i <= m
    BY <1>3, <2>1, MinIsLeast
  <2>3. i \in 0 .. n /\ h[i] \notin Seq(S)
    OBVIOUS
  <2>4. h[i] = IF i = 0 THEN << >> ELSE h[i - 1] \o Answered(i, composing)
    BY <1>2, <2>3 DEF Joins
  <2>5. i # 0
    BY <2>3, <2>4, EmptySeq
  <2>6. i - 1 \in 0 .. n /\ i \in 1 .. n /\ ~ (i <= i - 1)
    BY <2>3, <2>5
  <2>7. h[i - 1] \in Seq(S)
    BY <2>2, <2>6
  <2>8. h[i - 1] \o Answered(i, composing) \in Seq(S)
    BY <2>6, <2>7, ConcatProperties
  <2>9. QED BY <2>3, <2>4, <2>5, <2>8
<1>4. QED BY <1>1, <1>2, <1>3

Plain      == [kind : {"load", "exec", "throughput", "compose", "slim"}, file : Files]
Composing  == [kind : {"compose", "slim"}, file : Files]
TimedCalls ==
    [kind : {"fat", "query", "compose", "timing", "slim", "delete"}, file : Files]

(* A plan only loads, runs and queries files; or it goes over the trace    *)
(* with -T before that; or it is a reverse run.                            *)
OverFiles(plan) == plan \in Seq(Plain)
Timed(plan) ==
    \E calls \in Seq(TimedCalls), rest \in Seq(Plain) :
        plan = (<<Stage("load", Trace), Stage("exec", Output(0))>> \o calls) \o rest
ReversePlan == <<Stage("load", Trace), Stage("load_querys", QueryFile), Call("reverse")>>
Planned(o, plan) ==
    OverFiles(plan) \/ (o.timed /\ Timed(plan)) \/ plan = ReversePlan

LEMMA StagesAre ==
    /\ \A i \in Nat : UpdatesFile(i) \in Files /\ Output(i) \in Files
    /\ QueryFile \in Files
    /\ \A kind \in Kinds, f \in Files : Stage(kind, f) \in Stages
    /\ \A kind \in {"load", "exec", "throughput", "compose", "slim"}, f \in Files :
          Stage(kind, f) \in Plain
    /\ \A kind \in {"throughput", "compose", "slim"} : Call(kind) \in Plain
    /\ \A kind \in {"fat", "query", "compose", "timing", "slim", "delete"} :
          Call(kind) \in TimedCalls
<1>1. \A n \in Nat : <<"inc-dec_up", n>> \in Files /\ <<"out", n>> \in Files
  BY DEF Files
<1>2. <<"query", 0>> \in Files /\ <<"none", 0>> \in Files
  BY DEF Files
<1>3. \A kinds, kind, f : kind \in kinds /\ f \in Files
                            => [kind |-> kind, file |-> f] \in [kind : kinds, file : Files]
  OBVIOUS
<1>4. \A kind, f : Stage(kind, f) = [kind |-> kind, file |-> f]
  BY DEF Stage
<1>5. \A kind : Call(kind) = [kind |-> kind, file |-> <<"none", 0>>]
  BY DEF Call, Stage
<1>6. (\A i \in Nat : UpdatesFile(i) \in Files /\ Output(i) \in Files) /\ QueryFile \in Files
  BY <1>1, <1>2 DEF UpdatesFile, Output, QueryFile
<1>7. \A kind \in Kinds, f \in Files : Stage(kind, f) \in Stages
  BY <1>3, <1>4 DEF Stages
<1>8. \A kind \in {"load", "exec", "throughput", "compose", "slim"}, f \in Files :
         Stage(kind, f) \in Plain
  BY <1>3, <1>4 DEF Plain
<1>9. \A kind \in {"throughput", "compose", "slim"} : Call(kind) \in Plain
  BY <1>2, <1>3, <1>5 DEF Plain
<1>10. \A kind \in {"fat", "query", "compose", "timing", "slim", "delete"} :
          Call(kind) \in TimedCalls
  BY <1>2, <1>3, <1>5 DEF TimedCalls
<1>11. QED BY <1>6, <1>7, <1>8, <1>9, <1>10

LEMMA AnsweredPlain ==
    ASSUME NEW i \in Nat, NEW composing \in Seq(Plain)
    PROVE  Answered(i, composing) \in Seq(Plain)
<1>1. /\ Stage("load", UpdatesFile(i)) \in Plain /\ Stage("exec", Output(i)) \in Plain
      /\ Stage("load", QueryFile) \in Plain
  BY StagesAre
<1>2. /\ <<Stage("load", UpdatesFile(i)), Stage("exec", Output(i)), Stage("load", QueryFile)>>
           \in Seq(Plain)
      /\ <<Stage("exec", Output(i))>> \in Seq(Plain)
  BY <1>1
<1>3. QED BY <1>2, ConcatProperties DEF Answered

LEMMA ForwardPlans ==
    ASSUME NEW o \in Options, NEW composing \in Seq(Plain), NEW calls \in Seq(TimedCalls)
    PROVE  OverFiles(Forwards(o, composing, calls))
           \/ (o.timed /\ Timed(Forwards(o, composing, calls)))
<1> DEFINE first == <<Stage("load", UpdatesFile(0)), Stage("exec", Output(0))>> \o calls
<1> DEFINE thrpt == IF o.throughput THEN <<Call("throughput")>> ELSE << >>
<1> DEFINE more  == Subfiles(o.subfiles, composing)
<1>1. o.subfiles \in Nat /\ o.timed \in BOOLEAN
  BY OptionsAssumption DEF Options, OptionsAssumption
<1>2. more \in Seq(Plain)
  <2>1. \A i \in 1 .. o.subfiles : Answered(i, composing) \in Seq(Plain)
    BY <1>1, AnsweredPlain
  <2>2. o.subfiles \in 0 .. o.subfiles
    BY <1>1
  <2>3. QED BY <1>1, <2>1, <2>2, SubfilesJoined
<1>3. thrpt \in Seq(Plain)
  BY StagesAre, EmptySeq
<1>4. CASE ~o.timed
  <2>1. Answered(0, composing) \in Seq(Plain)
    BY AnsweredPlain
  <2>2. Forwards(o, composing, calls) = (Answered(0, composing) \o thrpt) \o more
    BY <1>4 DEF Forwards
  <2> HIDE DEF thrpt, more
  <2>3. QED BY <1>2, <1>3, <2>1, <2>2, ConcatProperties DEF OverFiles
<1>5. CASE o.timed
  <2>1. Forwards(o, composing, calls) = (first \o thrpt) \o more
    BY <1>5 DEF Forwards
  <2>2. first \in Seq(Stages)
    <3>1. Stage("load", UpdatesFile(0)) \in Stages /\ Stage("exec", Output(0)) \in Stages
      BY StagesAre DEF Kinds
    <3>2. <<Stage("load", UpdatesFile(0)), Stage("exec", Output(0))>> \in Seq(Stages)
      BY <3>1
    <3>3. TimedCalls \subseteq Stages
      BY DEF TimedCalls, Stages, Kinds
    <3>4. calls \in Seq(Stages)
      BY <3>3
    <3>5. QED BY <3>2, <3>4, ConcatProperties
  <2>3. Plain \subseteq Stages
    BY DEF Plain, Stages, Kinds
  <2>4. thrpt \in Seq(Stages) /\ more \in Seq(Stages)
    BY <1>2, <1>3, <2>3
  <2>5. thrpt \o more \in Seq(Plain)
    BY <1>2, <1>3, ConcatProperties
  <2>6. Forwards(o, composing, calls) = first \o (thrpt \o more)
    <3> HIDE DEF first, thrpt, more
    <3>1. QED BY <2>1, <2>2, <2>4, ConcatAssociative
  <2> HIDE DEF thrpt, more
  <2>7. Timed(Forwards(o, composing, calls))
    BY <2>5, <2>6 DEF Timed, Trace
  <2>8. QED BY <1>5, <2>7
<1>6. QED BY <1>1, <1>4, <1>5

LEMMA ReversePlans ==
    ASSUME NEW o \in Options, NEW forwards,
           OverFiles(forwards) \/ (o.timed /\ Timed(forwards))
    PROVE  Planned(o, forwards) /\ Planned(o, WithReverse(o, forwards))
<1>1. WithReverse(o, forwards) \in {forwards, << >>, ReversePlan}
  BY DEF WithReverse, ReversePlan, Trace
<1>2. QED BY <1>1, EmptySeq DEF Planned, OverFiles

LEMMA SevenElements ==
    ASSUME NEW S, NEW a \in S, NEW b \in S, NEW c \in S, NEW d \in S, NEW e \in S,
           NEW f \in S, NEW g \in S
    PROVE  <<a, b, c, d, e, f, g>> \in Seq(S)
  OBVIOUS

TimedFinal ==
    <<Call("fat"), Call("query"), Call("compose"), Call("timing"), Call("slim"),
      Call("query"), Call("delete")>>

LEMMA TimedEnds ==
    /\ <<Call("query")>> \in Seq(TimedCalls) /\ << >> \in Seq(TimedCalls)
    /\ <<Call("query"), Call("delete")>> \in Seq(TimedCalls)
    /\ TimedFinal \in Seq(TimedCalls)
    /\ <<Call("compose"), Call("slim")>> \in Seq(Composing) /\ << >> \in Seq(Composing)
<1>1. /\ Call("query") \in TimedCalls /\ Call("delete") \in TimedCalls
      /\ Call("compose") \in TimedCalls /\ Call("slim") \in TimedCalls
      /\ Call("fat") \in TimedCalls /\ Call("timing") \in TimedCalls
  BY StagesAre
<1>2. Call("compose") \in Composing /\ Call("slim") \in Composing
  BY DEF Call, Stage, Composing, Files
<1>3. TimedFinal \in Seq(TimedCalls)
  BY <1>1, SevenElements DEF TimedFinal
<1>4. QED BY <1>1, <1>2, <1>3

(* What each main() does, in the terms of this module.                     *)
LEMMA SfsketchMain ==
    \A o : SF!Main(o) =
        WithReverse(o,
            IF SF!IsFinal
            THEN Forwards(o, <<Call("compose"), Call("slim")>>, TimedFinal)
            ELSE Forwards(o, << >>, <<Call("query"), Call("delete")>>))
<1> TAKE o
<1>1. /\ \A c, t : SF!Forwards(o, c, t) = Forwards(o, c, t)
      /\ \A kind : SF!Call(kind) = Call(kind)
      /\ \A f : SF!WithReverse(o, f) = WithReverse(o, f)
  BY DEF SF!Forwards, SF!Answered, SF!Subfiles, SF!Stage, SF!UpdatesFile,
     SF!Output, SF!QueryFile, SF!Call, SF!WithReverse, Forwards, Answered,
     Subfiles, Stage, UpdatesFile, Output, QueryFile, Call, WithReverse
<1>2. QED BY <1>1 DEF SF!Main, SF!ComposeAndSwitch, TimedFinal

LEMMA CmsketchMain ==
    \A o : CM!Main(o) = WithReverse(o, Forwards(o, << >>, <<Call("query"), Call("delete")>>))
<1> TAKE o
<1>1. /\ \A c, t : CM!Forwards(o, c, t) = Forwards(o, c, t)
      /\ \A kind : CM!Call(kind) = Call(kind)
      /\ \A f : CM!WithReverse(o, f) = WithReverse(o, f)
  BY DEF CM!Forwards, CM!Answered, CM!Subfiles, CM!Stage, CM!UpdatesFile,
     CM!Output, CM!QueryFile, CM!Call, CM!WithReverse, Forwards, Answered,
     Subfiles, Stage, UpdatesFile, Output, QueryFile, Call, WithReverse
<1>2. QED BY <1>1 DEF CM!Main

LEMMA CsketchMain ==
    \A o : CS!Main(o) = WithReverse(o, Forwards(o, << >>, <<Call("query"), Call("delete")>>))
<1> TAKE o
<1>1. /\ \A c, t : CS!Forwards(o, c, t) = Forwards(o, c, t)
      /\ \A kind : CS!Call(kind) = Call(kind)
      /\ \A f : CS!WithReverse(o, f) = WithReverse(o, f)
  BY DEF CS!Forwards, CS!Answered, CS!Subfiles, CS!Stage, CS!UpdatesFile,
     CS!Output, CS!QueryFile, CS!Call, CS!WithReverse, Forwards, Answered,
     Subfiles, Stage, UpdatesFile, Output, QueryFile, Call, WithReverse
<1>2. QED BY <1>1 DEF CS!Main

LEMMA CmcusketchMain ==
    \A o : CU!Main(o) = Forwards(o, << >>, <<Call("query")>>)
<1> TAKE o
<1>1. /\ \A c, t : CU!Forwards(o, c, t) = Forwards(o, c, t)
      /\ \A kind : CU!Call(kind) = Call(kind)
  BY DEF CU!Forwards, CU!Answered, CU!Subfiles, CU!Stage, CU!UpdatesFile,
     CU!Output, CU!QueryFile, CU!Call, Forwards, Answered, Subfiles,
     Stage, UpdatesFile, Output, QueryFile, Call
<1>2. QED BY <1>1 DEF CU!Main

LEMMA CmlsketchMain ==
    \A o : CL!Main(o) = Forwards(o, << >>, << >>)
<1> TAKE o
<1>1. /\ \A c, t : CL!Forwards(o, c, t) = Forwards(o, c, t)
      /\ \A kind : CL!Call(kind) = Call(kind)
  BY DEF CL!Forwards, CL!Answered, CL!Subfiles, CL!Stage, CL!UpdatesFile,
     CL!Output, CL!QueryFile, CL!Call, Forwards, Answered, Subfiles,
     Stage, UpdatesFile, Output, QueryFile, Call
<1>2. QED BY <1>1 DEF CL!Main

LEMMA CqfilterMain ==
    \A o : CQF!Main(o) = Forwards(o, << >>, <<Call("query")>>)
<1> TAKE o
<1>1. /\ \A c, t : CQF!Forwards(o, c, t) = Forwards(o, c, t)
      /\ \A kind : CQF!Call(kind) = Call(kind)
  BY DEF CQF!Forwards, CQF!Answered, CQF!Subfiles, CQF!Stage,
     CQF!UpdatesFile, CQF!Output, CQF!QueryFile, CQF!Call, Forwards,
     Answered, Subfiles, Stage, UpdatesFile, Output, QueryFile, Call
<1>2. QED BY <1>1 DEF CQF!Main

(* The drivers that have the option -r.                                    *)
Reversible == {"sfsketch", "sf_v2", "cmsketch", "csketch"}

LEMMA PlansFormed ==
    ASSUME NEW p \in Programs, NEW o \in Options
    PROVE  \E composing \in Seq(Composing), calls \in Seq(TimedCalls) :
               Plan(p, o) = IF p \in Reversible
                            THEN WithReverse(o, Forwards(o, composing, calls))
                            ELSE Forwards(o, composing, calls)
<1> DEFINE final == <<Call("compose"), Call("slim")>>
<1>1. final \in Seq(Composing) /\ TimedFinal \in Seq(TimedCalls)
  BY TimedEnds
<1>2. CASE p \in {"sfsketch", "sf_v2"}
  <2>1. Plan(p, o) = WithReverse(o, IF SF!IsFinal THEN Forwards(o, final, TimedFinal)
                                    ELSE Forwards(o, << >>, <<Call("query"), Call("delete")>>))
    BY <1>2, SfsketchMain DEF Plan
  <2> HIDE DEF final
  <2>2. QED BY <1>1, <1>2, <2>1, TimedEnds DEF Reversible
<1>3. CASE p \in {"cmsketch", "csketch"}
  <2>1. Plan(p, o) = WithReverse(o, Forwards(o, << >>, <<Call("query"), Call("delete")>>))
    BY <1>3, CmsketchMain, CsketchMain DEF Plan
  <2>2. QED BY <1>3, <2>1, TimedEnds DEF Reversible
<1>4. CASE p \in {"cmcusketch", "cqfilter"}
  <2>1. Plan(p, o) = Forwards(o, << >>, <<Call("query")>>)
    BY <1>4, CmcusketchMain, CqfilterMain DEF Plan
  <2>2. QED BY <1>4, <2>1, TimedEnds DEF Reversible
<1>5. CASE p = "cmlsketch"
  <2>1. Plan(p, o) = Forwards(o, << >>, << >>)
    BY <1>5, CmlsketchMain DEF Plan
  <2>2. QED BY <1>5, <2>1, TimedEnds DEF Reversible
<1>6. QED BY <1>2, <1>3, <1>4, <1>5 DEF Programs

LEMMA PlansAre == \A p \in Programs, o \in Options : Planned(o, Plan(p, o))
<1> SUFFICES ASSUME NEW p \in Programs, NEW o \in Options PROVE Planned(o, Plan(p, o))
  OBVIOUS
<1>1. PICK composing \in Seq(Composing), calls \in Seq(TimedCalls) :
          Plan(p, o) = IF p \in Reversible
                       THEN WithReverse(o, Forwards(o, composing, calls))
                       ELSE Forwards(o, composing, calls)
  BY PlansFormed
<1>2. composing \in Seq(Plain)
  <2>1. Composing \subseteq Plain
    BY DEF Composing, Plain
  <2>2. QED BY <2>1, SeqMonotonic
<1>3. QED BY <1>1, <1>2, ForwardPlans, ReversePlans

(* A plan fits the trace before it begins, given that -s with -T is below  *)
(* the length of the trace.                                                *)
LEMMA PlansFit ==
    ASSUME NEW o, Planned(o, stages), o.timed => nStart < files[Trace].num
    PROVE  stages \in Seq(Stages) /\ PlanFits
<1>1. Plain \subseteq Stages /\ TimedCalls \subseteq Stages
  BY DEF Plain, TimedCalls, Stages, Kinds
<1>2. CASE OverFiles(stages)
  <2>1. stages \in Seq(Stages)
    BY <1>1, <1>2 DEF OverFiles
  <2>2. \A k \in 1 .. Len(stages) : stages[k] \in Plain
    BY <1>2, ElementOfSeq DEF OverFiles
  <2>3. \A k \in 1 .. Len(stages) : stages[k].kind \notin {"reverse", "query", "delete"}
    BY <2>2 DEF Plain
  <2>4. QED BY <2>1, <2>3 DEF PlanFits
<1>3. CASE o.timed /\ Timed(stages)
  <2>1. PICK calls \in Seq(TimedCalls), rest \in Seq(Plain) :
           stages = (<<Stage("load", Trace), Stage("exec", Output(0))>> \o calls) \o rest
    BY <1>3 DEF Timed
  <2> DEFINE first == <<Stage("load", Trace), Stage("exec", Output(0))>>
  <2> DEFINE n == 2 + Len(calls)
  <2>2. /\ Len(calls) \in Nat /\ Len(rest) \in Nat /\ n \in Nat /\ n >= 2
        /\ n = 2 + Len(calls)
    BY LenProperties
  <2> HIDE DEF n
  <2>3. /\ first \in Seq(Stages) /\ Len(first) = 2
        /\ first[1] = Stage("load", Trace) /\ first[2] = Stage("exec", Output(0))
    <3>1. Stage("load", Trace) \in Stages /\ Stage("exec", Output(0)) \in Stages
      BY StagesAre DEF Kinds, Trace
    <3>2. QED BY <3>1
  <2>4. calls \in Seq(Stages) /\ rest \in Seq(Stages)
    BY <1>1
  <2> HIDE DEF first
  <2>5. /\ first \o calls \in Seq(Stages) /\ Len(first \o calls) = n
        /\ \A k \in 1 .. n : (first \o calls)[k] = IF k <= 2 THEN first[k] ELSE calls[k - 2]
    <3>1. /\ first \o calls \in Seq(Stages) /\ Len(first \o calls) = Len(first) + Len(calls)
          /\ \A k \in 1 .. (Len(first) + Len(calls)) :
                (first \o calls)[k] = IF k <= Len(first) THEN first[k] ELSE calls[k - Len(first)]
      BY <2>3, <2>4, ConcatProperties
    <3>2. QED BY <2>2, <2>3, <3>1
  <2>6. stages = (first \o calls) \o rest
    BY <2>1 DEF first
  <2>7. /\ stages \in Seq(Stages) /\ Len(stages) = n + Len(rest)
        /\ \A k \in 1 .. (n + Len(rest)) :
              stages[k] = IF k <= n THEN (first \o calls)[k] ELSE rest[k - n]
    <3> DEFINE begin == first \o calls
    <3>1. begin \in Seq(Stages) /\ Len(begin) = n
      BY <2>5
    <3>2. stages = begin \o rest
      BY <2>6
    <3> HIDE DEF begin
    <3>3. /\ stages \in Seq(Stages) /\ Len(stages) = Len(begin) + Len(rest)
          /\ \A k \in 1 .. (Len(begin) + Len(rest)) :
                stages[k] = IF k <= Len(begin) THEN begin[k] ELSE rest[k - Len(begin)]
      BY <2>4, <3>1, <3>2, ConcatProperties
    <3>4. /\ stages \in Seq(Stages) /\ Len(stages) = n + Len(rest)
          /\ \A k \in 1 .. (n + Len(rest)) :
                stages[k] = IF k <= n THEN begin[k] ELSE rest[k - n]
      BY <3>1, <3>3
    <3>5. QED BY <3>4 DEF begin
  <2>8. stages[1] = Stage("load", Trace) /\ stages[2] = Stage("exec", Output(0))
    <3>1. 1 \in 1 .. n /\ 2 \in 1 .. n /\ 1 \in 1 .. (n + Len(rest)) /\ 2 \in 1 .. (n + Len(rest))
      BY <2>2
    <3>2. (first \o calls)[1] = first[1] /\ (first \o calls)[2] = first[2]
      BY <2>5, <3>1
    <3>3. stages[1] = (first \o calls)[1] /\ stages[2] = (first \o calls)[2]
      <4>1. 1 <= n /\ 2 <= n
        BY <2>2
      <4>2. QED BY <2>7, <3>1, <4>1
    <3>4. QED BY <2>3, <3>2, <3>3
  <2>9. stages[1].kind = "load" /\ stages[1].file = Trace /\ stages[2].kind = "exec"
    BY <2>8 DEF Stage
  <2>10. ASSUME NEW k \in 3 .. n PROVE stages[k] \in TimedCalls
    <3>1. stages[k] = calls[k - 2] /\ k - 2 \in 1 .. Len(calls)
      BY <2>2, <2>5, <2>7
    <3>2. QED BY <3>1, ElementOfSeq
  <2>11. ASSUME NEW k \in (n + 1) .. Len(stages) PROVE stages[k] \in Plain
    <3>1. stages[k] = rest[k - n] /\ k - n \in 1 .. Len(rest)
      BY <2>2, <2>7
    <3>2. QED BY <3>1, ElementOfSeq
  <2>12. \A k \in 3 .. n : stages[k].kind \notin {"reverse", "load"}
    BY <2>10 DEF TimedCalls
  <2>13. \A k \in (n + 1) .. Len(stages) : stages[k].kind \notin {"reverse", "query", "delete"}
    BY <2>11 DEF Plain
  <2>14. Len(stages) \in Nat /\ n <= Len(stages)
    BY <2>2, <2>7
  <2>15. ASSUME NEW k \in 1 .. Len(stages)
         PROVE  /\ stages[k].kind # "reverse"
                /\ stages[k].kind \in {"query", "delete"} => k \in 3 .. n
    <3>1. k = 1 \/ k = 2 \/ k \in 3 .. n \/ k \in (n + 1) .. Len(stages)
      BY <2>2, <2>14
    <3>2. QED BY <2>9, <2>12, <2>13, <3>1
  <2>16. ASSUME NEW k \in 3 .. n
         PROVE  OverTrace(k) /\ stages[k - 1].kind # "load"
    <3>1. \A j \in 1 .. (k - 1) : j = 1 \/ j = 2 \/ j \in 3 .. n
      BY <2>2
    <3>2. \A j \in 1 .. (k - 1) : stages[j].kind = "load" => j = 1
      BY <2>9, <2>12, <3>1
    <3>3. 1 \in 1 .. (k - 1) /\ k - 1 \in 1 .. (k - 1) /\ k - 1 # 1
      BY <2>2
    <3>4. OverTrace(k)
      BY <1>3, <2>9, <3>2, <3>3 DEF OverTrace
    <3>5. QED BY <3>2, <3>3, <3>4
  <2>17. PlanFits
    BY <2>15, <2>16 DEF PlanFits
  <2>18. QED BY <2>7, <2>17
<1>4. CASE stages = ReversePlan
  <2>1. /\ Stage("load", Trace) \in Stages /\ Stage("load_querys", QueryFile) \in Stages
        /\ Call("reverse") \in Stages
    BY StagesAre DEF Kinds, Trace, Call, Stage, Stages, Files
  <2>2. /\ stages \in Seq(Stages) /\ Len(stages) = 3
        /\ stages[1].kind = "load" /\ stages[2].kind = "load_querys"
    BY <1>4, <2>1 DEF ReversePlan, Stage
  <2>3. stages[3].kind = "reverse"
    BY <1>4 DEF ReversePlan, Call, Stage
  <2>4. \A k \in 1 .. 3 : k = 1 \/ k = 2 \/ k = 3
    OBVIOUS
  <2>5. \A k \in 1 .. Len(stages) :
            stages[k].kind \notin {"query", "delete"} /\ (stages[k].kind = "reverse" => k = 3)
    BY <2>2, <2>3, <2>4
  <2>6. QED BY <2>2, <2>5 DEF PlanFits
<1>5. QED BY <1>2, <1>3, <1>4 DEF Planned

LEMMA InitFits == Init => IndexInv
<1>1. SUFFICES ASSUME Init PROVE IndexInv
  OBVIOUS
<1>2. /\ program \in Programs /\ options \in Options /\ files \in FileSets /\ nStart \in NStarts
      /\ Sensible(program, options, files, nStart)
      /\ interval \in (IF options.reverse THEN Intervals ELSE {1})
      /\ stages = Plan(program, options) /\ requests = << >> /\ index = 0 /\ todo = 0
      /\ phase = "forward" /\ ops = interval
  BY <1>1 DEF Init, ControlInit
<1>3. nStart \in Nat /\ interval \in Nat \ {0} /\ SizeT \in Nat \ {0}
  BY <1>2, OptionsAssumption DEF OptionsAssumption
<1>4. Num = 0 /\ requests \in Seq(Records)
  BY <1>2, EmptySeq DEF Num
<1>5. Planned(options, stages)
  BY <1>2, PlansAre
<1>6. options.timed => nStart < files[Trace].num
  BY <1>2 DEF Sensible, Trace
<1>7. stages \in Seq(Stages) /\ PlanFits
  BY <1>5, <1>6, PlansFit
<1>8. Typed
  BY <1>2, <1>3, <1>4, <1>7 DEF Typed
<1>9. BeforeReverse
  BY <1>2 DEF BeforeReverse
<1>10. ~In("delete")
  <2>1. SUFFICES ASSUME In("delete") PROVE FALSE
    OBVIOUS
  <2>2. stages # << >> /\ running = stages[1] /\ 1 \in 1 .. Len(stages)
    BY <1>7, <2>1, EmptySeq, LenProperties DEF In, running
  <2>3. OverTrace(1)
    BY <1>7, <2>1, <2>2 DEF In, PlanFits
  <2>4. Num = files[Trace].num /\ nStart < files[Trace].num
    BY <2>3 DEF OverTrace
  <2>5. QED BY <1>3, <1>4, <2>4
<1>11. LoopsFit
  BY <1>2, <1>10 DEF LoopsFit
<1>12. ChunksFit
  BY <1>2, <1>4 DEF ChunksFit, ForwardFits
<1>13. QED BY <1>7, <1>8, <1>9, <1>11, <1>12 DEF IndexInv

(* The invariant of the loops, for any files, options and programs.        *)
THEOREM LoopsInvariant == Spec => []IndexInv
BY InitFits, NextKeeps, PTL DEF Spec

(* Every request that a loop of any of the drivers touches is one of the   *)
(* trace it has loaded (main.c, requests_exec(), requests_query(),         *)
(* requests_delete(), requests_exec_r()), whatever the files, the interval *)
(* of -r, the start of -s within the trace, and the number of subfiles.    *)
THEOREM RequestsInRange == Spec => []IndexInRange
BY LoopsInvariant, InRange, PTL

-----------------------------------------------------------------------------
(* Plans that answer the queries *)

(* Stage k of a plan runs requests into file f.                            *)
Executes(plan, k, f) == plan[k].kind = "exec" /\ plan[k].file = f
RunsIn(plan, f)      == \E k \in 1 .. Len(plan) : Executes(plan, k, f)

(* What `requests' holds at stage k are the queries; f is run again later. *)
NoLoad(plan, from, to) == \A j \in from .. to : plan[j].kind # "load"
AskedBefore(plan, k) ==
    \E j \in 1 .. (k - 1) : /\ plan[j].kind = "load" /\ plan[j].file = QueryFile
                            /\ NoLoad(plan, j + 1, k - 1)
FollowedBy(plan, k, f) == \E m \in (k + 1) .. Len(plan) : Executes(plan, m, f)

(* The last time a plan runs requests into f, they are the queries.        *)
AnswersIn(plan, f) ==
    \A k \in 1 .. Len(plan) :
        Executes(plan, k, f) => AskedBefore(plan, k) \/ FollowedBy(plan, k, f)

LEMMA Joined ==
    ASSUME NEW p \in Seq(Stages), NEW q \in Seq(Stages), NEW f
    PROVE  /\ p \o q \in Seq(Stages)
           /\ p # << >> => p \o q # << >> /\ (p \o q)[1] = p[1]
           /\ RunsIn(p, f) \/ RunsIn(q, f) => RunsIn(p \o q, f)
           /\ AnswersIn(p, f) /\ AnswersIn(q, f) => AnswersIn(p \o q, f)
<1> DEFINE r == p \o q
<1> DEFINE n == Len(p)
<1>1. /\ r \in Seq(Stages) /\ n \in Nat /\ Len(q) \in Nat /\ Len(r) = n + Len(q)
      /\ \A k \in 1 .. n + Len(q) : r[k] = IF k <= n THEN p[k] ELSE q[k - n]
  BY ConcatProperties, LenProperties
<1> HIDE DEF r, n
<1>2. /\ \A k \in 1 .. n : k \in 1 .. Len(r) /\ r[k] = p[k]
      /\ \A k \in (n + 1) .. Len(r) : k - n \in 1 .. Len(q) /\ r[k] = q[k - n]
      /\ \A m \in 1 .. Len(q) : n + m \in 1 .. Len(r) /\ n + m > n /\ r[n + m] = q[m]
  <2>1. ASSUME NEW k \in 1 .. n PROVE k \in 1 .. Len(r) /\ r[k] = p[k]
    BY <1>1
  <2>2. ASSUME NEW k \in (n + 1) .. Len(r) PROVE k - n \in 1 .. Len(q) /\ r[k] = q[k - n]
    BY <1>1
  <2>3. ASSUME NEW m \in 1 .. Len(q)
        PROVE  n + m \in 1 .. Len(r) /\ n + m > n /\ r[n + m] = q[m]
    <3>1. n + m \in 1 .. Len(r) /\ n + m > n /\ (n + m) - n = m
      BY <1>1
    <3>2. r[n + m] = q[(n + m) - n]
      BY <1>1, <3>1
    <3>3. QED BY <3>1, <3>2
  <2>4. QED BY <2>1, <2>2, <2>3
<1>3. p # << >> => r # << >> /\ r[1] = p[1]
  <2>1. p # << >> => 1 \in 1 .. n /\ Len(r) # 0
    BY <1>1, EmptySeq DEF n
  <2>2. QED BY <1>2, <2>1, EmptySeq
<1>4. RunsIn(p, f) \/ RunsIn(q, f) => RunsIn(r, f)
  BY <1>2 DEF RunsIn, Executes, n
<1>5. ASSUME AnswersIn(p, f), AnswersIn(q, f), NEW k \in 1 .. Len(r), Executes(r, k, f)
      PROVE  AskedBefore(r, k) \/ FollowedBy(r, k, f)
  <2>1. CASE k <= n
    <3>1. k \in 1 .. Len(p) /\ Executes(p, k, f)
      BY <1>1, <1>2, <1>5, <2>1 DEF Executes, n
    <3>2. CASE AskedBefore(p, k)
      <4>1. PICK j \in 1 .. (k - 1) : /\ p[j].kind = "load" /\ p[j].file = QueryFile
                                      /\ NoLoad(p, j + 1, k - 1)
        BY <3>2 DEF AskedBefore
      <4>2. \A m \in 1 .. (k - 1) : r[m] = p[m]
        BY <1>1, <1>2, <2>1
      <4>3. NoLoad(r, j + 1, k - 1)
        BY <1>1, <4>1, <4>2 DEF NoLoad
      <4>4. QED BY <4>1, <4>2, <4>3 DEF AskedBefore
    <3>3. CASE FollowedBy(p, k, f)
      <4>1. PICK m \in (k + 1) .. n : Executes(p, m, f)
        BY <3>3 DEF FollowedBy, n
      <4>2. m \in 1 .. n /\ m \in (k + 1) .. Len(r)
        BY <1>1
      <4>3. QED BY <1>2, <4>1, <4>2 DEF FollowedBy, Executes
    <3>4. QED BY <1>5, <3>1, <3>2, <3>3 DEF AnswersIn
  <2>2. CASE ~ (k <= n)
    <3> DEFINE h == k - n
    <3>1. h \in 1 .. Len(q) /\ Executes(q, h, f) /\ k = n + h
      BY <1>1, <1>2, <1>5, <2>2 DEF Executes
    <3> HIDE DEF h
    <3>2. CASE AskedBefore(q, h)
      <4>1. PICK j \in 1 .. (h - 1) : /\ q[j].kind = "load" /\ q[j].file = QueryFile
                                      /\ NoLoad(q, j + 1, h - 1)
        BY <3>2 DEF AskedBefore
      <4>2. j \in 1 .. Len(q) /\ n + j \in 1 .. (k - 1)
        BY <1>1, <3>1
      <4>3. r[n + j] = q[j]
        BY <1>2, <4>2
      <4>4. ASSUME NEW m \in ((n + j) + 1) .. (k - 1) PROVE r[m].kind # "load"
        <5>1. m - n \in (j + 1) .. (h - 1) /\ m \in (n + 1) .. Len(r)
          BY <1>1, <3>1
        <5>2. QED BY <1>2, <4>1, <5>1 DEF NoLoad
      <4>5. NoLoad(r, (n + j) + 1, k - 1)
        BY <4>4 DEF NoLoad
      <4>6. QED BY <4>1, <4>2, <4>3, <4>5 DEF AskedBefore
    <3>3. CASE FollowedBy(q, h, f)
      <4>1. PICK m \in (h + 1) .. Len(q) : Executes(q, m, f)
        BY <3>3 DEF FollowedBy
      <4>2. m \in 1 .. Len(q) /\ n + m \in (k + 1) .. Len(r)
        BY <1>1, <3>1
      <4>3. QED BY <1>2, <4>1, <4>2 DEF FollowedBy, Executes
    <3>4. QED BY <1>5, <3>1, <3>2, <3>3 DEF AnswersIn
  <2>3. QED BY <2>1, <2>2
<1>6. AnswersIn(p, f) /\ AnswersIn(q, f) => AnswersIn(r, f)
  BY <1>5 DEF AnswersIn
<1>7. QED BY <1>1, <1>4, <1>6, <1>3 DEF r

LEMMA AnsweredDoes ==
    ASSUME NEW i \in Nat, NEW composing \in Seq(Composing)
    PROVE  /\ Answered(i, composing) \in Seq(Stages) /\ Answered(i, composing) # << >>
           /\ Answered(i, composing)[1].kind = "load"
           /\ RunsIn(Answered(i, composing), Output(i))
           /\ \A f : AnswersIn(Answered(i, composing), f)
<1> DEFINE begin == <<Stage("load", UpdatesFile(i)), Stage("exec", Output(i)), Stage("load", QueryFile)>>
<1> DEFINE end == <<Stage("exec", Output(i))>>
<1> DEFINE c == Len(composing)
<1> DEFINE r == Answered(i, composing)
<1>1. begin \in Seq(Stages) /\ end \in Seq(Stages) /\ composing \in Seq(Stages) /\ c \in Nat
  <2>1. /\ Stage("load", UpdatesFile(i)) \in Stages /\ Stage("exec", Output(i)) \in Stages
        /\ Stage("load", QueryFile) \in Stages
    BY StagesAre DEF Kinds
  <2>2. Composing \subseteq Stages
    BY DEF Composing, Stages, Kinds
  <2>3. composing \in Seq(Stages)
    BY <2>2, SeqMonotonic
  <2>4. c \in Nat
    BY LenProperties
  <2>5. begin \in Seq(Stages) /\ end \in Seq(Stages)
    BY <2>1
  <2>6. QED BY <2>3, <2>4, <2>5
<1>2. Len(begin) = 3 /\ Len(end) = 1
  OBVIOUS
<1>3. /\ begin[1] = Stage("load", UpdatesFile(i)) /\ begin[2] = Stage("exec", Output(i))
      /\ begin[3] = Stage("load", QueryFile) /\ end[1] = Stage("exec", Output(i))
  OBVIOUS
<1>4. r = (begin \o composing) \o end
  BY DEF Answered
<1>5. \A k \in 1 .. c : composing[k].kind \notin {"load", "exec"}
  <2>1. \A k \in 1 .. c : composing[k] \in Composing
    BY ElementOfSeq
  <2>2. QED BY <2>1 DEF Composing
<1> HIDE DEF begin, end, c, r
<1>6. /\ begin \o composing \in Seq(Stages) /\ Len(begin \o composing) = 3 + c
      /\ \A k \in 1 .. 3 + c :
            (begin \o composing)[k] = IF k <= 3 THEN begin[k] ELSE composing[k - 3]
  <2>1. /\ begin \o composing \in Seq(Stages)
        /\ Len(begin \o composing) = Len(begin) + Len(composing)
        /\ \A k \in 1 .. Len(begin) + Len(composing) :
              (begin \o composing)[k] =
                  IF k <= Len(begin) THEN begin[k] ELSE composing[k - Len(begin)]
    BY <1>1, ConcatProperties
  <2>2. Len(begin) = 3 /\ Len(composing) = c
    BY <1>2 DEF c
  <2>3. QED BY <2>1, <2>2
<1>7. /\ r \in Seq(Stages) /\ Len(r) = 4 + c
      /\ \A k \in 1 .. 4 + c :
            r[k] = IF k <= 3 + c THEN (begin \o composing)[k] ELSE end[k - (3 + c)]
  <2> DEFINE front == begin \o composing
  <2>1. front \in Seq(Stages) /\ Len(front) = 3 + c /\ r = front \o end
    BY <1>4, <1>6
  <2> HIDE DEF front
  <2>2. /\ r \in Seq(Stages) /\ Len(r) = (3 + c) + 1
        /\ \A k \in 1 .. (3 + c) + 1 : r[k] = IF k <= 3 + c THEN front[k] ELSE end[k - (3 + c)]
    <3>1. /\ front \o end \in Seq(Stages)
          /\ Len(front \o end) = Len(front) + Len(end)
          /\ \A k \in 1 .. Len(front) + Len(end) :
                (front \o end)[k] = IF k <= Len(front) THEN front[k] ELSE end[k - Len(front)]
      BY <1>1, <2>1, ConcatProperties
    <3>2. QED BY <1>2, <2>1, <3>1
  <2>3. (3 + c) + 1 = 4 + c
    BY <1>1
  <2>4. QED BY <2>2, <2>3 DEF front
<1>8. r[2] = Stage("exec", Output(i)) /\ r[1] = Stage("load", UpdatesFile(i))
      /\ r[3] = Stage("load", QueryFile) /\ r[4 + c] = Stage("exec", Output(i))
  <2>1. r[1] = begin[1] /\ r[2] = begin[2] /\ r[3] = begin[3]
    <3>1. ASSUME NEW k \in 1 .. 3 PROVE r[k] = begin[k]
      <4>1. k \in 1 .. 4 + c /\ k \in 1 .. 3 + c /\ k <= 3 + c /\ k <= 3
        BY <1>1
      <4>2. r[k] = (begin \o composing)[k]
        BY <1>7, <4>1
      <4>3. (begin \o composing)[k] = begin[k]
        BY <1>6, <4>1
      <4>4. QED BY <4>2, <4>3
    <3>2. QED BY <3>1
  <2>2. r[4 + c] = end[1]
    <3>1. 4 + c \in 1 .. 4 + c /\ ~ (4 + c <= 3 + c) /\ (4 + c) - (3 + c) = 1
      BY <1>1
    <3>2. QED BY <1>7, <3>1
  <2>3. QED BY <1>3, <2>1, <2>2
<1>9. ASSUME NEW k \in 4 .. (3 + c) PROVE r[k].kind \notin {"load", "exec"}
  <2>1. k \in 1 .. 4 + c /\ k \in 1 .. 3 + c /\ ~ (k <= 3) /\ k <= 3 + c /\ k - 3 \in 1 .. c
    BY <1>1
  <2>2. r[k] = composing[k - 3]
    BY <1>6, <1>7, <2>1
  <2>3. QED BY <1>5, <2>1, <2>2
<1>10. ASSUME NEW f, NEW k \in 1 .. Len(r), Executes(r, k, f)
       PROVE  AskedBefore(r, k) \/ FollowedBy(r, k, f)
  <2>1. k = 1 \/ k = 2 \/ k = 3 \/ k \in 4 .. (3 + c) \/ k = 4 + c
    BY <1>1, <1>7
  <2>2. k = 2 \/ k = 4 + c
    BY <1>8, <1>9, <1>10, <2>1 DEF Executes, Stage
  <2>3. CASE k = 2
    <3>1. f = Output(i) /\ 4 + c \in (k + 1) .. Len(r)
      BY <1>1, <1>7, <1>8, <1>10, <2>3 DEF Executes, Stage
    <3>2. Executes(r, 4 + c, f)
      BY <1>8, <3>1 DEF Executes, Stage
    <3>3. QED BY <3>1, <3>2 DEF FollowedBy
  <2>4. CASE k = 4 + c
    <3>1. 3 \in 1 .. (k - 1) /\ \A m \in (3 + 1) .. (k - 1) : m \in 4 .. (3 + c)
      BY <1>1, <2>4
    <3>2. NoLoad(r, 3 + 1, k - 1)
      BY <1>9, <3>1 DEF NoLoad
    <3>3. r[3].kind = "load" /\ r[3].file = QueryFile
      BY <1>8 DEF Stage
    <3>4. QED BY <3>1, <3>2, <3>3 DEF AskedBefore
  <2>5. QED BY <2>2, <2>3, <2>4
<1>11. RunsIn(r, Output(i))
  <2>1. 2 \in 1 .. Len(r)
    BY <1>1, <1>7
  <2>2. QED BY <1>8, <2>1 DEF RunsIn, Executes, Stage
<1>12. r # << >> /\ r[1].kind = "load"
  <2>1. Len(r) # 0
    BY <1>1, <1>7
  <2>2. QED BY <1>8, <2>1, EmptySeq DEF Stage
<1>13. QED BY <1>7, <1>10, <1>11, <1>12 DEF AnswersIn, r

(* A run without -r begins with a load, and runs each output that it is    *)
(* for last over the queries.                                              *)
LEMMA SubfilesDo ==
    ASSUME NEW n \in Nat, NEW composing \in Seq(Composing), NEW f
    PROVE  /\ Subfiles(n, composing) \in Seq(Stages) /\ AnswersIn(Subfiles(n, composing), f)
           /\ \A j \in 1 .. n : f = Output(j) => RunsIn(Subfiles(n, composing), f)
<1>1. \A i \in Nat : /\ Answered(i, composing) \in Seq(Stages)
                     /\ AnswersIn(Answered(i, composing), f)
                     /\ RunsIn(Answered(i, composing), Output(i))
  BY AnsweredDoes
<1>2. PICK h : /\ Joins(h, composing, n) /\ Subfiles(n, composing) = h[n]
               /\ \A i \in 0 .. n : h[i] \in Seq(Stages)
  <2>1. \A i \in 1 .. n : Answered(i, composing) \in Seq(Stages)
    BY <1>1
  <2>2. QED BY <2>1, SubfilesJoined
<1> DEFINE Fine(i) == /\ AnswersIn(h[i], f)
                      /\ \A j \in 1 .. i : f = Output(j) => RunsIn(h[i], f)
<1> DEFINE bad == {i \in 0 .. n : ~Fine(i)}
<1>3. ASSUME bad # {} PROVE FALSE
  <2>1. bad \in SUBSET Nat
    OBVIOUS
  <2>2. PICK i \in bad : \A m \in bad : i <= m
    BY <1>3, <2>1, MinIsLeast
  <2>3. i \in 0 .. n /\ i \in Nat /\ ~Fine(i)
    OBVIOUS
  <2>4. h[i] = IF i = 0 THEN << >> ELSE h[i - 1] \o Answered(i, composing)
    BY <1>2, <2>3 DEF Joins
  <2>5. CASE i = 0
    <3>1. \A j \in 1 .. i : FALSE
      BY <2>5
    <3>2. AnswersIn(<< >>, f)
      <4>1. Len(<< >>) = 0 /\ \A k \in 1 .. 0 : FALSE
        OBVIOUS
      <4>2. QED BY <4>1 DEF AnswersIn
    <3>3. h[i] = << >>
      BY <2>4, <2>5
    <3>4. QED BY <2>3, <3>1, <3>2, <3>3
  <2>6. CASE i # 0
    <3>1. i - 1 \in 0 .. n /\ ~ (i <= i - 1)
      BY <2>3, <2>6
    <3>2. Fine(i - 1)
      BY <2>2, <3>1
    <3>3. /\ h[i] = h[i - 1] \o Answered(i, composing)
          /\ h[i - 1] \in Seq(Stages) /\ Answered(i, composing) \in Seq(Stages)
      BY <1>1, <1>2, <2>3, <2>4, <2>6, <3>1
    <3>4. AnswersIn(h[i], f)
      BY <1>1, <2>3, <3>2, <3>3, Joined
    <3>5. ASSUME NEW j \in 1 .. i, f = Output(j) PROVE RunsIn(h[i], f)
      <4>1. j \in 1 .. (i - 1) \/ j = i
        BY <2>3
      <4>2. QED BY <1>1, <2>3, <3>2, <3>3, <3>5, <4>1, Joined
    <3>6. QED BY <2>3, <3>4, <3>5
  <2>7. QED BY <2>5, <2>6
<1>4. Fine(n)
  <2>1. n \in 0 .. n
    OBVIOUS
  <2>2. QED BY <1>3, <2>1
<1>5. QED BY <1>2, <1>4

LEMMA ForwardsDo ==
    ASSUME NEW o \in Options, NEW composing \in Seq(Composing), NEW calls \in Seq(TimedCalls),
           NEW i \in 0 .. o.subfiles
    PROVE  /\ Forwards(o, composing, calls)[1].kind = "load"
           /\ ~ (o.timed /\ i = 0) => /\ RunsIn(Forwards(o, composing, calls), Output(i))
                                      /\ AnswersIn(Forwards(o, composing, calls), Output(i))
<1> DEFINE f == Output(i)
<1> DEFINE n == o.subfiles
<1> DEFINE first == IF o.timed
                    THEN <<Stage("load", UpdatesFile(0)), Stage("exec", Output(0))>> \o calls
                    ELSE Answered(0, composing)
<1> DEFINE thrpt == IF o.throughput THEN <<Call("throughput")>> ELSE << >>
<1> DEFINE more  == Subfiles(n, composing)
<1>1. n \in Nat /\ i \in Nat /\ o.timed \in BOOLEAN
  BY OptionsAssumption DEF Options, OptionsAssumption
<1>2. Forwards(o, composing, calls) = (first \o thrpt) \o more
  BY DEF Forwards
<1>3. /\ first \in Seq(Stages) /\ first # << >> /\ first[1].kind = "load"
      /\ ~ (o.timed /\ i = 0) => AnswersIn(first, f) /\ (i = 0 => RunsIn(first, f))
  <2>1. CASE ~o.timed
    <3>1. first = Answered(0, composing)
      BY <2>1
    <3>2. QED BY <3>1, AnsweredDoes
  <2>2. CASE o.timed
    <3> DEFINE two == <<Stage("load", UpdatesFile(0)), Stage("exec", Output(0))>>
    <3>1. first = two \o calls
      BY <2>2
    <3>2. two \in Seq(Stages) /\ calls \in Seq(Stages)
      <4>1. Stage("load", UpdatesFile(0)) \in Stages /\ Stage("exec", Output(0)) \in Stages
        BY StagesAre DEF Kinds
      <4>2. TimedCalls \subseteq Stages
        BY DEF TimedCalls, Stages, Kinds
      <4>3. QED BY <4>1, <4>2, SeqMonotonic
    <3>3. Len(two) = 2 /\ two # << >> /\ two[1].kind = "load" /\ two[2].file = <<"out", 0>>
      BY DEF Stage, Output
    <3>4. i # 0 => AnswersIn(two, f)
      <4> SUFFICES ASSUME i # 0 PROVE AnswersIn(two, f)
        OBVIOUS
      <4>1. Len(two) = 2 /\ two[1].kind = "load" /\ two[2].file = <<"out", 0>>
        BY <3>3
      <4>2. f # <<"out", 0>>
        BY DEF Output
      <4>3. \A k \in 1 .. 2 : k = 1 \/ k = 2
        OBVIOUS
      <4>4. \A k \in 1 .. Len(two) : ~Executes(two, k, f)
        BY <4>1, <4>2, <4>3 DEF Executes
      <4>5. QED BY <4>4 DEF AnswersIn
    <3>5. AnswersIn(calls, f)
      <4>1. \A k \in 1 .. Len(calls) : calls[k] \in TimedCalls
        BY ElementOfSeq
      <4>2. \A k \in 1 .. Len(calls) : calls[k].kind # "exec"
        BY <4>1 DEF TimedCalls
      <4>3. QED BY <4>2 DEF AnswersIn, Executes
    <3> HIDE DEF two, first, f
    <3>6. QED BY <2>2, <3>1, <3>2, <3>4, <3>5, <3>3, Joined
  <2>3. QED BY <1>1, <2>1, <2>2
<1>4. thrpt \in Seq(Stages) /\ AnswersIn(thrpt, f)
  <2>1. Call("throughput") \in Stages
    BY StagesAre DEF Plain, Stages, Kinds
  <2>2. CASE o.throughput
    <3>1. thrpt = <<Call("throughput")>> /\ thrpt[1].kind = "throughput" /\ Len(thrpt) = 1
      BY <2>2 DEF Call, Stage
    <3>2. thrpt \in Seq(Stages)
      BY <2>1, <3>1
    <3> HIDE DEF thrpt
    <3>3. \A k \in 1 .. Len(thrpt) : ~Executes(thrpt, k, f)
      BY <3>1 DEF Executes
    <3>4. QED BY <3>2, <3>3 DEF AnswersIn
  <2>3. CASE ~o.throughput
    <3>1. thrpt = << >> /\ Len(thrpt) = 0
      BY <2>3
    <3>2. QED BY <3>1, EmptySeq DEF AnswersIn
  <2>4. QED BY <2>2, <2>3
<1>5. more \in Seq(Stages) /\ AnswersIn(more, f) /\ (i # 0 => RunsIn(more, f))
  <2>1. i # 0 => i \in 1 .. n
    BY <1>1
  <2> HIDE DEF n
  <2>2. QED BY <1>1, <2>1, SubfilesDo
<1> HIDE DEF f, first, thrpt, more
<1> DEFINE front == first \o thrpt
<1>6. /\ front \in Seq(Stages) /\ front # << >> /\ front[1].kind = "load"
      /\ ~ (o.timed /\ i = 0) => AnswersIn(front, f) /\ (i = 0 => RunsIn(front, f))
  BY <1>3, <1>4, Joined
<1> HIDE DEF front
<1>7. /\ (front \o more)[1].kind = "load"
      /\ ~ (o.timed /\ i = 0) => /\ AnswersIn(front \o more, f)
                                 /\ RunsIn(front \o more, f)
  BY <1>5, <1>6, Joined
<1>8. QED BY <1>2, <1>7 DEF f, front

LEMMA PlansAnswer ==
    ASSUME NEW p \in Programs, NEW o \in Options
    PROVE  /\ p \in Reversible \/ ~o.reverse =>
                  Plan(p, o) = << >> \/ Plan(p, o)[1].kind = "load"
           /\ o.reverse /\ p \in Reversible /\ o.subfiles = 0 => Plan(p, o) = ReversePlan
           /\ ~o.reverse =>
                  \A i \in 0 .. o.subfiles : ~ (o.timed /\ i = 0) =>
                      RunsIn(Plan(p, o), Output(i)) /\ AnswersIn(Plan(p, o), Output(i))
<1>1. PICK composing \in Seq(Composing), calls \in Seq(TimedCalls) :
          Plan(p, o) = IF p \in Reversible
                       THEN WithReverse(o, Forwards(o, composing, calls))
                       ELSE Forwards(o, composing, calls)
  BY PlansFormed
<1>2. o.subfiles \in Nat
  BY OptionsAssumption DEF Options, OptionsAssumption
<1>3. CASE ~o.reverse
  <2>1. Plan(p, o) = Forwards(o, composing, calls)
    BY <1>1, <1>3 DEF WithReverse
  <2>2. 0 \in 0 .. o.subfiles
    BY <1>2
  <2>3. QED BY <1>3, <2>1, <2>2, ForwardsDo
<1>4. CASE o.reverse
  <2>1. ReversePlan[1].kind = "load"
    BY DEF ReversePlan, Stage
  <2>2. p \in Reversible => Plan(p, o) = IF o.subfiles > 0 THEN << >> ELSE ReversePlan
    BY <1>1, <1>4 DEF WithReverse, ReversePlan, Trace
  <2>3. QED BY <1>2, <1>4, <2>1, <2>2
<1>5. QED BY <1>3, <1>4

-----------------------------------------------------------------------------
(* What is in the outputs                                                  *)

(* What a program that loads the queries has of them.                      *)
Wanted == Loaded(QueryFile, 0)

(* What requests_exec() runs now are the queries.                          *)
Querying == ~CannotLoad(QueryFile, 0) /\ requests = Wanted

(* The queries among the first n records have been answered into f.        *)
AnswersTo(f, n) ==
    /\ f \in DOMAIN outputs
    /\ outputs[f] \in Seq(Range(outputs[f]))
    /\ KeysIn(outputs[f]) = KeysIn(Queries(SubSeq(Wanted, 1, n)))

Answering ==
    In("exec") =>
        /\ index \in 0 .. Num
        /\ Querying => AnswersTo(running.file, index)

(* Without -r: an output is still to be run or answers the queries, and    *)
(* its last run is over them.                                              *)
Due == {Output(i) : i \in {j \in 0 .. options.subfiles : ~ (options.timed /\ j = 0)}}
Promised(f) == RunsIn(stages, f) \/ AnswersAll(f)
LastOverQueries(f) ==
    \A k \in 1 .. Len(stages) : Executes(stages, k, f) =>
        \/ AskedBefore(stages, k)
        \/ Querying /\ NoLoad(stages, 1, k - 1)
        \/ FollowedBy(stages, k, f)
ForwardDue == \A f \in Due : Promised(f) /\ LastOverQueries(f)

(* With -r: the files of the chunks done and undone answer the queries.    *)
NumChunks      == (Num + interval - 1) \div interval
ForwardDone(n) == \A k \in 1 .. n : AnswersAll(<<"forward", k>>)
ReverseDone(n) == \A k \in n .. (NumChunks - 1) : AnswersAll(<<"reverse", k>>)
ChunkEnds(n)   == n = (chunk - 1) * interval + ops

ForwardAt ==
    /\ chunk \in Nat
    /\ IF index < Num THEN index = chunk * interval
       ELSE IF Num = 0 THEN chunk = 0
       ELSE ChunkEnds(Num)
    /\ ForwardDone(chunk)
ForwardOpsAt == chunk \in Nat /\ ChunkEnds(index + todo) /\ ForwardDone(chunk - 1)
ReverseAt ==
    /\ IF index >= 0 THEN ChunkEnds(index + 1) ELSE chunk = 0
    /\ ForwardDone(NumChunks) /\ ReverseDone(chunk)
ReverseOpsAt ==
    /\ index + 1 - todo = chunk * interval
    /\ ForwardDone(NumChunks) /\ ReverseDone(chunk + 1)

Reversing ==
    /\ querys = Wanted /\ chunk \in Int
    /\ phase = "forward"    => ForwardAt
    /\ phase = "forwardOps" => ForwardOpsAt
    /\ phase = "reverse"    => ReverseAt
    /\ phase = "reverseOps" => ReverseOpsAt

ReverseRest == <<Stage("load_querys", QueryFile), Call("reverse")>>
ReverseDue ==
    \/ stages \in {ReversePlan, ReverseRest} /\ chunk = 0
    \/ stages = <<Call("reverse")>> /\ Reversing
    \/ stages = << >> /\ ForwardDone(NumChunks) /\ ReverseDone(0)

OutputsInv ==
    /\ Answering
    /\ ~options.reverse /\ ~exited => ForwardDue
    /\ options.reverse /\ options.subfiles = 0 /\ ~exited => ReverseDue

-----------------------------------------------------------------------------

(* The queries among the records: the recursive function of queryfqs()     *)
(* exists, is the same for records with the same beginning, and has one    *)
(* more query after one more record that is one.                           *)
Picks(h, rs, n) ==
    h = [i \in 0 .. n |->
            IF i = 0 THEN << >>
            ELSE IF rs[i].type = "get" THEN Append(h[i - 1], rs[i]) ELSE h[i - 1]]

LEMMA PicksExist ==
    ASSUME NEW rs
    PROVE  \A n \in Nat : \E h : Picks(h, rs, n)
<1> DEFINE bad == {n \in Nat : ~ \E h : Picks(h, rs, n)}
<1>1. ASSUME bad # {} PROVE FALSE
  <2>1. PICK n \in bad : \A m \in bad : n <= m
    <3>1. bad \in SUBSET Nat
      OBVIOUS
    <3>2. QED BY <1>1, <3>1, MinIsLeast
  <2>2. n \in Nat /\ ~ \E h : Picks(h, rs, n)
    OBVIOUS
  <2> DEFINE next(f, i) ==
                 IF i = 0 THEN << >>
                 ELSE IF rs[i].type = "get" THEN Append(f[i - 1], rs[i]) ELSE f[i - 1]
  <2>3. CASE n = 0
    <3> DEFINE g == [i \in 0 .. 0 |-> << >>]
    <3>1. g = [i \in 0 .. 0 |-> next(g, i)]
      <4>1. \A i \in 0 .. 0 : i = 0
        OBVIOUS
      <4>2. QED BY <4>1
    <3>2. QED BY <2>2, <2>3, <3>1 DEF Picks
  <2>4. CASE n # 0
    <3>1. n - 1 \in Nat /\ ~ (n <= n - 1)
      BY <2>2, <2>4
    <3>2. n - 1 \notin bad
      <4> HIDE DEF bad
      <4>1. QED BY <2>1, <3>1
    <3>3. PICK g : Picks(g, rs, n - 1)
      BY <3>1, <3>2
    <3> DEFINE h == [i \in 0 .. n |-> IF i < n THEN g[i] ELSE next(g, i)]
    <3>4. ASSUME NEW i \in 0 .. n PROVE h[i] = next(h, i)
      <4>1. i # 0 => h[i - 1] = g[i - 1]
        BY <2>2
      <4>2. next(h, i) = next(g, i)
        BY <4>1
      <4>3. i < n => g[i] = next(g, i)
        <5>1. i < n => i \in 0 .. (n - 1)
          BY <2>2
        <5>2. QED BY <3>3, <5>1 DEF Picks
      <4>4. h[i] = IF i < n THEN g[i] ELSE next(g, i)
        OBVIOUS
      <4> HIDE DEF h, next
      <4>5. QED BY <4>2, <4>3, <4>4
    <3>5. h = [i \in 0 .. n |-> h[i]]
      OBVIOUS
    <3>6. h = [i \in 0 .. n |-> next(h, i)]
      <4> HIDE DEF h, next
      <4>1. QED BY <3>4, <3>5
    <3> HIDE DEF h
    <3>7. Picks(h, rs, n)
      BY <3>6 DEF Picks
    <3>8. QED BY <2>2, <3>7
  <2>5. QED BY <2>3, <2>4
<1>2. QED BY <1>1

LEMMA Picked ==
    ASSUME NEW S, NEW rs \in Seq(S)
    PROVE  \E h : Picks(h, rs, Len(rs)) /\ Queries(rs) = h[Len(rs)]
<1> DEFINE h == CHOOSE h : Picks(h, rs, Len(rs))
<1>1. Queries(rs) = h[Len(rs)]
  BY DEF Queries, Picks
<1>2. Picks(h, rs, Len(rs))
  <2>1. Len(rs) \in Nat
    BY LenProperties
  <2>2. QED BY <2>1, PicksExist
<1>3. QED BY <1>1, <1>2

LEMMA PicksAgree ==
    ASSUME NEW S, NEW rs, NEW m \in Nat, NEW n \in Nat, m <= n, NEW qs,
           \A i \in 1 .. m : qs[i] = rs[i] /\ rs[i] \in S,
           NEW g, NEW h, Picks(g, qs, m), Picks(h, rs, n)
    PROVE  \A i \in 0 .. m : g[i] = h[i] /\ g[i] \in Seq(S)
<1> DEFINE bad == {i \in 0 .. m : ~ (g[i] = h[i] /\ g[i] \in Seq(S))}
<1>1. ASSUME bad # {} PROVE FALSE
  <2>1. bad \in SUBSET Nat
    OBVIOUS
  <2>2. PICK i \in bad : \A j \in bad : i <= j
    BY <1>1, <2>1, MinIsLeast
  <2>3. i \in 0 .. m /\ i \in 0 .. n /\ ~ (g[i] = h[i] /\ g[i] \in Seq(S))
    OBVIOUS
  <2>4. g[i] = IF i = 0 THEN << >>
               ELSE IF qs[i].type = "get" THEN Append(g[i - 1], qs[i]) ELSE g[i - 1]
    BY <2>3 DEF Picks
  <2>5. h[i] = IF i = 0 THEN << >>
               ELSE IF rs[i].type = "get" THEN Append(h[i - 1], rs[i]) ELSE h[i - 1]
    BY <2>3 DEF Picks
  <2>6. i # 0
    BY <2>3, <2>4, <2>5, EmptySeq
  <2>7. i - 1 \in 0 .. m /\ i \in 1 .. m /\ ~ (i <= i - 1)
    BY <2>3, <2>6
  <2>8. g[i - 1] = h[i - 1] /\ g[i - 1] \in Seq(S) /\ qs[i] = rs[i] /\ qs[i] \in S
    BY <2>2, <2>7
  <2>9. Append(g[i - 1], qs[i]) \in Seq(S)
    BY <2>8, AppendProperties
  <2>10. QED BY <2>3, <2>4, <2>5, <2>6, <2>8, <2>9
<1>2. QED BY <1>1

LEMMA QueriesAmong ==
    ASSUME NEW S, NEW rs \in Seq(S)
    PROVE  Queries(rs) \in Seq(S) /\ \A i \in DOMAIN Queries(rs) : Queries(rs)[i] \in S
<1> DEFINE n == Len(rs)
<1>1. PICK h : Picks(h, rs, n) /\ Queries(rs) = h[n]
  BY Picked
<1>2. n \in Nat /\ n <= n /\ \A i \in 1 .. n : rs[i] = rs[i] /\ rs[i] \in S
  BY LenProperties, ElementOfSeq
<1> HIDE DEF n
<1>3. \A i \in 0 .. n : h[i] = h[i] /\ h[i] \in Seq(S)
  BY <1>1, <1>2, PicksAgree
<1>4. Queries(rs) \in Seq(S)
  BY <1>1, <1>2, <1>3
<1>5. QED BY <1>4, LenProperties, ElementOfSeq

LEMMA QueriesStep ==
    ASSUME NEW S, NEW rs \in Seq(S), NEW n \in 0 .. (Len(rs) - 1)
    PROVE  LET before == Queries(SubSeq(rs, 1, n))
           IN  /\ before \in Seq(S)
               /\ Queries(SubSeq(rs, 1, n + 1)) =
                      IF rs[n + 1].type = "get" THEN Append(before, rs[n + 1]) ELSE before
<1> DEFINE p == SubSeq(rs, 1, n)
<1> DEFINE q == SubSeq(rs, 1, n + 1)
<1>1. Len(rs) \in Nat /\ n \in Nat /\ n + 1 \in Nat /\ n + 1 <= Len(rs)
  BY LenProperties
<1>2. \A i \in 1 .. n + 1 : rs[i] \in S /\ rs[(1 + i) - 1] = rs[i]
  BY <1>1, ElementOfSeq
<1>3. /\ p \in Seq(S) /\ Len(p) = n /\ \A i \in 1 .. n : p[i] = rs[i]
      /\ q \in Seq(S) /\ Len(q) = n + 1 /\ \A i \in 1 .. n + 1 : q[i] = rs[i]
  BY <1>1, <1>2, SubSeqProperties
<1> HIDE DEF p, q
<1>4. PICK g : Picks(g, p, n) /\ Queries(p) = g[n]
  BY <1>3, Picked
<1>5. PICK h : Picks(h, q, n + 1) /\ Queries(q) = h[n + 1]
  BY <1>3, Picked
<1>6. \A i \in 1 .. n : p[i] = q[i] /\ q[i] \in S
  BY <1>1, <1>2, <1>3
<1>7. g[n] = h[n] /\ g[n] \in Seq(S)
  <2>1. n \in Nat /\ n + 1 \in Nat /\ n <= n + 1 /\ n \in 0 .. n
    BY <1>1
  <2>2. \A i \in 0 .. n : g[i] = h[i] /\ g[i] \in Seq(S)
    BY <2>1, <1>4, <1>5, <1>6, PicksAgree
  <2>3. QED BY <2>1, <2>2
<1>8. h[n + 1] = IF q[n + 1].type = "get" THEN Append(h[n], q[n + 1]) ELSE h[n]
  <2>1. n + 1 \in 0 .. n + 1 /\ n + 1 # 0 /\ (n + 1) - 1 = n
    BY <1>1
  <2>2. QED BY <1>5, <2>1 DEF Picks
<1>9. q[n + 1] = rs[n + 1]
  BY <1>1, <1>3
<1>10. QED BY <1>4, <1>5, <1>7, <1>8, <1>9 DEF p, q

LEMMA NoQueriesYet ==
    ASSUME NEW S, NEW rs \in Seq(S)
    PROVE  Queries(SubSeq(rs, 1, 0)) = << >>
<1>1. SubSeq(rs, 1, 0) = << >> /\ << >> \in Seq(S) /\ Len(<< >>) = 0
  BY EmptySeq
<1>2. PICK h : Picks(h, << >>, 0) /\ Queries(<< >>) = h[0]
  BY <1>1, Picked
<1>3. h[0] = << >>
  BY <1>2 DEF Picks
<1>4. QED BY <1>1, <1>2, <1>3

LEMMA SameInterval ==
    ASSUME NEW m \in Nat, NEW n \in Nat, 1 .. m = 1 .. n
    PROVE  m = n
<1>1. ASSUME m < n PROVE FALSE
  <2>1. n \in 1 .. n /\ n \notin 1 .. m
    BY <1>1
  <2>2. QED BY <2>1
<1>2. ASSUME n < m PROVE FALSE
  <2>1. m \in 1 .. m /\ m \notin 1 .. n
    BY <1>2
  <2>2. QED BY <2>1
<1>3. QED BY <1>1, <1>2

(* A line more, for a query more.                                          *)
LEMMA KeysAppend ==
    ASSUME NEW S, NEW lines \in Seq(S), NEW T, NEW qs \in Seq(T), KeysIn(lines) = KeysIn(qs),
           NEW line \in S, NEW q \in T, line.key = q.key
    PROVE  KeysIn(Append(lines, line)) = KeysIn(Append(qs, q))
<1>1. /\ DOMAIN lines = 1 .. Len(lines) /\ DOMAIN qs = 1 .. Len(qs)
      /\ Len(lines) \in Nat /\ Len(qs) \in Nat
  BY LenProperties
<1>2. DOMAIN lines = DOMAIN qs /\ \A i \in DOMAIN lines : lines[i].key = qs[i].key
  BY DEF KeysIn
<1>3. Len(lines) = Len(qs)
  <2>1. 1 .. Len(lines) = 1 .. Len(qs)
    BY <1>1, <1>2, Zenon
  <2>2. QED BY <1>1, <2>1, SameInterval, Zenon
<1> DEFINE a == Append(lines, line)
<1> DEFINE b == Append(qs, q)
<1>4. /\ DOMAIN a = 1 .. Len(lines) + 1 /\ a[Len(lines) + 1] = line
      /\ \A i \in 1 .. Len(lines) : a[i] = lines[i]
  BY AppendProperties, LenProperties
<1>5. /\ DOMAIN b = 1 .. Len(qs) + 1 /\ b[Len(qs) + 1] = q
      /\ \A i \in 1 .. Len(qs) : b[i] = qs[i]
  BY AppendProperties, LenProperties
<1> HIDE DEF a, b
<1>6. \A i \in 1 .. Len(lines) + 1 : i \in 1 .. Len(lines) \/ i = Len(lines) + 1
  BY <1>1
<1>7. \A i \in DOMAIN a : a[i].key = b[i].key
  BY <1>1, <1>2, <1>3, <1>4, <1>5, <1>6
<1>8. KeysIn(a) = KeysIn(b)
  BY <1>3, <1>4, <1>5, <1>7 DEF KeysIn
<1>9. QED BY <1>8 DEF a, b

-----------------------------------------------------------------------------

LEMMA WantedIs ==
    ASSUME IndexInv, ~CannotLoad(QueryFile, 0)
    PROVE  Wanted \in Seq(Records) /\ Len(Wanted) \in Nat
<1>1. files \in FileSets /\ QueryFile \in DOMAIN files /\ SizeT \in Nat \ {0}
  BY OptionsAssumption DEF OptionsAssumption, CannotLoad, IndexInv, Typed
<1>2. QED BY <1>1, Read, LenProperties DEF Wanted

(* A file that has no number holds nothing, and is loaded only where the   *)
(* number before it is zero.                                               *)
LEMMA LoadedIs ==
    ASSUME IndexInv, NEW f, NEW before \in Nat, ~CannotLoad(f, before)
    PROVE  ~CannotLoad(f, 0) /\ Loaded(f, before) = Loaded(f, 0)
<1>1. files \in FileSets /\ f \in DOMAIN files /\ SizeT \in Nat
  BY OptionsAssumption DEF OptionsAssumption, CannotLoad, IndexInv, Typed
<1>2. files[f].num = NoNumber => files[f].records = << >>
  BY <1>1, OptionsAssumption DEF OptionsAssumption
<1>3. CASE files[f].num # NoNumber
  BY <1>3 DEF CannotLoad, Loaded, NumberOf
<1>4. CASE files[f].num = NoNumber
  <2>1. ~ (before > 0)
    BY <1>1, <1>2, <1>4, EmptySeq DEF CannotLoad, NumberOf
  <2>2. before = 0
    BY <2>1
  <2>3. QED BY <2>2
<1>5. QED BY <1>3, <1>4

(* An output that no step touches answers what it answered.                *)
LEMMA StillAnswers ==
    ASSUME files' = files, NEW f, AnswersAll(f), f \in DOMAIN outputs', outputs'[f] = outputs[f]
    PROVE  AnswersAll(f)'
<1>1. Asked' = Asked
  BY DEF Asked, Loaded, NumberOf, NoNumber, QueryFile
<1>2. QED BY <1>1 DEF AnswersAll

LEMMA AllAnswered ==
    ASSUME IndexInv, Querying, NEW f, AnswersTo(f, Num)
    PROVE  AnswersAll(f)
<1>1. Wanted \in Seq(Records) /\ Len(Wanted) = Num
  BY WantedIs DEF Querying, Num
<1>2. SubSeq(Wanted, 1, Num) = Wanted
  BY <1>1, SubSeqFull
<1>3. QED BY <1>2 DEF AnswersTo, AnswersAll, Asked, Wanted, KeysIn

(* The next stage begins.                                                  *)
LEMMA OpensNext ==
    ASSUME IndexInv, stages # << >>, NextStage, requests' \in Seq(Records)
    PROVE  /\ Answering'
           /\ \A f : AnswersAll(f) => AnswersAll(f)' \/ (In("exec") /\ running.file = f)'
<1>1. /\ stages' = Tail(stages) /\ files' = files
      /\ index' = FirstIndex(stages') /\ outputs' = Opened(stages')
  BY DEF NextStage, Advance, given
<1>2. Num' \in Nat
  BY LenProperties DEF Num
<1>3. CASE In("exec")'
  <2>1. /\ stages' # << >> /\ Head(stages').kind = "exec" /\ running' = Head(stages')
    BY <1>3 DEF In, running
  <2>2. index' = 0 /\ outputs' = Written(running'.file, << >>)
    BY <1>1, <2>1 DEF FirstIndex, Opened
  <2>3. running'.file \in DOMAIN outputs' /\ outputs'[running'.file] = << >>
    BY <2>2 DEF Written
  <2>4. ASSUME Querying' PROVE AnswersTo(running.file, 0)'
    <3>1. << >> \in Seq(Range(<< >>)) /\ Len(<< >>) = 0
      BY EmptySeq
    <3>2. Wanted' \in Seq(Records)
      BY <2>4 DEF Querying
    <3>3. Queries(SubSeq(Wanted', 1, 0)) = << >>
      BY <3>2, NoQueriesYet
    <3>4. Queries(SubSeq(Wanted, 1, 0))' = << >>
      BY <3>3 DEF Queries
    <3>5. QED BY <2>3, <3>1, <3>4 DEF AnswersTo, KeysIn
  <2>5. Answering'
    <3>1. Querying' => AnswersTo(running.file, index)'
      BY <2>2, <2>4 DEF AnswersTo
    <3>2. QED BY <1>2, <2>2, <3>1 DEF Answering
  <2>6. \A f : f # running'.file /\ f \in DOMAIN outputs
                  => f \in DOMAIN outputs' /\ outputs'[f] = outputs[f]
    BY <2>2 DEF Written
  <2>7. ASSUME NEW f, AnswersAll(f), f # running'.file PROVE AnswersAll(f)'
    <3>1. f \in DOMAIN outputs
      BY <2>7 DEF AnswersAll
    <3>2. QED BY <1>1, <2>6, <2>7, <3>1, StillAnswers
  <2>8. QED BY <1>3, <2>5, <2>7
<1>4. CASE ~In("exec")'
  <2>1. outputs' = outputs
    BY <1>1, <1>4 DEF Opened, In, running
  <2>2. Answering'
    BY <1>4 DEF Answering
  <2>3. ASSUME NEW f, AnswersAll(f) PROVE AnswersAll(f)'
    BY <1>1, <2>1, <2>3, StillAnswers DEF AnswersAll
  <2>4. QED BY <2>2, <2>3
<1>5. QED BY <1>3, <1>4

(* A stage that is over takes nothing from what is promised.               *)
LEMMA DueStays ==
    ASSUME IndexInv, Answering, ForwardDue, stages # << >>, NextStage, options' = options,
           requests' \in Seq(Records),
           IF running.kind = "load"
           THEN ~CannotLoad(running.file, Num) /\ requests' = Loaded(running.file, Num)
           ELSE requests' = requests,
           running.kind = "exec" => index >= Num
    PROVE  ForwardDue'
<1>1. /\ stages \in Seq(Stages) /\ stages' = Tail(stages) /\ files' = files
      /\ running = stages[1] /\ Len(stages) \in Nat \ {0} /\ Num \in Nat
  BY Started DEF NextStage, Advance, given, IndexInv, Typed
<1>2. /\ stages' \in Seq(Stages) /\ Len(stages') = Len(stages) - 1
      /\ \A k \in 1 .. Len(stages') : stages'[k] = stages[k + 1]
  BY <1>1, HeadTailProperties
<1>3. \A k \in 2 .. Len(stages) : k - 1 \in 1 .. Len(stages') /\ stages'[k - 1] = stages[k]
  <2> TAKE k \in 2 .. Len(stages)
  <2>1. k - 1 \in 1 .. Len(stages') /\ (k - 1) + 1 = k
    BY <1>1, <1>2
  <2>2. QED BY <1>2, <2>1
<1>4. Wanted' = Wanted /\ Due' = Due /\ CannotLoad(QueryFile, 0)' = CannotLoad(QueryFile, 0)
  BY <1>1 DEF Wanted, Loaded, NumberOf, NoNumber, Due, CannotLoad, QueryFile, Output
<1>5. ASSUME NEW f \in Due PROVE Promised(f)'
  <2>1. Promised(f) /\ LastOverQueries(f)
    BY DEF ForwardDue
  <2>2. ASSUME NEW k \in 2 .. Len(stages), Executes(stages, k, f) PROVE RunsIn(stages, f)'
    <3>1. Executes(stages', k - 1, f) /\ k - 1 \in 1 .. Len(stages')
      BY <1>3, <2>2 DEF Executes
    <3>2. QED BY <3>1 DEF RunsIn
  <2>3. AnswersAll(f) \/ \E k \in 2 .. Len(stages) : Executes(stages, k, f)
    <3>1. CASE RunsIn(stages, f) /\ ~ \E k \in 2 .. Len(stages) : Executes(stages, k, f)
      <4>1. Executes(stages, 1, f)
        <5>1. \A k \in 1 .. Len(stages) : k = 1 \/ k \in 2 .. Len(stages)
          BY <1>1
        <5>2. QED BY <3>1, <5>1 DEF RunsIn
      <4>2. ~FollowedBy(stages, 1, f) /\ ~AskedBefore(stages, 1)
        <5>1. \A j \in 1 .. (1 - 1) : FALSE
          OBVIOUS
        <5>2. ~AskedBefore(stages, 1)
          BY <5>1 DEF AskedBefore
        <5>3. \A m \in (1 + 1) .. Len(stages) : m \in 2 .. Len(stages)
          BY <1>1
        <5>4. QED BY <3>1, <5>2, <5>3 DEF FollowedBy
      <4>3. Querying
        <5>1. 1 \in 1 .. Len(stages)
          BY <1>1
        <5>2. QED BY <2>1, <4>1, <4>2, <5>1 DEF LastOverQueries
      <4>4. In("exec") /\ running.file = f
        BY <1>1, <4>1 DEF In, Executes
      <4>5. index \in 0 .. Num /\ AnswersTo(f, index) /\ index >= Num
        BY <4>3, <4>4 DEF Answering, In
      <4>6. index = Num
        BY <1>1, <4>5
      <4>7. QED BY <4>3, <4>5, <4>6, AllAnswered
    <3>2. QED BY <2>1, <3>1 DEF Promised
  <2>4. CASE AnswersAll(f)
    <3>1. AnswersAll(f)' \/ (In("exec") /\ running.file = f)'
      BY <2>4, OpensNext
    <3>2. CASE (In("exec") /\ running.file = f)'
      <4>1. stages' # << >> /\ running' = stages'[1] /\ 1 \in 1 .. Len(stages')
        BY <1>2, <3>2, EmptySeq DEF In, running
      <4>2. Executes(stages', 1, f)
        BY <3>2, <4>1 DEF In, Executes
      <4>3. QED BY <4>1, <4>2 DEF Promised, RunsIn
    <3>3. QED BY <3>1, <3>2 DEF Promised
  <2>5. QED BY <2>2, <2>3, <2>4 DEF Promised
<1>6. ASSUME NEW f \in Due, NEW k \in 1 .. Len(stages'), Executes(stages', k, f)
      PROVE  \/ AskedBefore(stages', k)
             \/ Querying' /\ NoLoad(stages', 1, k - 1)
             \/ FollowedBy(stages', k, f)
  <2>1. k + 1 \in 1 .. Len(stages) /\ Executes(stages, k + 1, f) /\ k \in Nat
    BY <1>1, <1>2, <1>6 DEF Executes
  <2>2. \/ AskedBefore(stages, k + 1)
        \/ Querying /\ NoLoad(stages, 1, (k + 1) - 1)
        \/ FollowedBy(stages, k + 1, f)
    BY <2>1 DEF ForwardDue, LastOverQueries
  <2>3. ASSUME NEW j \in 1 .. k, NoLoad(stages, j + 1, (k + 1) - 1)
        PROVE  NoLoad(stages', j, k - 1)
    <3>1. ASSUME NEW m \in j .. (k - 1) PROVE stages'[m].kind # "load"
      <4>1. m \in 1 .. Len(stages') /\ m + 1 \in (j + 1) .. ((k + 1) - 1)
        BY <1>2, <1>1, <2>1
      <4>2. QED BY <1>2, <2>3, <4>1 DEF NoLoad
    <3>2. QED BY <3>1 DEF NoLoad
  <2>4. CASE AskedBefore(stages, k + 1)
    <3>1. PICK j \in 1 .. ((k + 1) - 1) :
               /\ stages[j].kind = "load" /\ stages[j].file = QueryFile
               /\ NoLoad(stages, j + 1, (k + 1) - 1)
      BY <2>4 DEF AskedBefore
    <3>2. j \in 1 .. k /\ NoLoad(stages', j, k - 1)
      BY <2>1, <2>3, <3>1
    <3>3. CASE j = 1
      <4>1. running.kind = "load" /\ running.file = QueryFile
        BY <1>1, <3>1, <3>3
      <4>2. ~CannotLoad(QueryFile, 0) /\ requests' = Loaded(QueryFile, 0)
        BY <1>1, <4>1, LoadedIs
      <4>3. Querying'
        BY <1>4, <4>2 DEF Querying, Wanted
      <4>4. QED BY <3>2, <3>3, <4>3
    <3>4. CASE j # 1
      <4>1. j \in 2 .. Len(stages) /\ j - 1 \in 1 .. (k - 1) /\ (j - 1) + 1 = j
        BY <1>1, <2>1, <3>2, <3>4
      <4>2. stages'[j - 1] = stages[j]
        BY <1>3, <4>1
      <4>3. NoLoad(stages', (j - 1) + 1, k - 1)
        BY <3>2, <4>1
      <4>4. QED BY <3>1, <4>1, <4>2, <4>3 DEF AskedBefore
    <3>5. QED BY <3>3, <3>4
  <2>5. CASE Querying /\ NoLoad(stages, 1, (k + 1) - 1)
    <3>1. 1 \in 1 .. ((k + 1) - 1) /\ 1 \in 1 .. k
      BY <2>1
    <3>2. running.kind # "load"
      BY <1>1, <2>5, <3>1 DEF NoLoad
    <3>3. Querying'
      BY <1>4, <2>5, <3>2 DEF Querying
    <3>4. NoLoad(stages, 1 + 1, (k + 1) - 1)
      <4>1. \A m \in (1 + 1) .. ((k + 1) - 1) : m \in 1 .. ((k + 1) - 1)
        BY <2>1
      <4>2. QED BY <2>5, <4>1 DEF NoLoad
    <3>5. NoLoad(stages', 1, k - 1)
      BY <2>3, <3>1, <3>4
    <3>6. QED BY <3>3, <3>5
  <2>6. CASE FollowedBy(stages, k + 1, f)
    <3>1. PICK m \in ((k + 1) + 1) .. Len(stages) : Executes(stages, m, f)
      BY <2>6 DEF FollowedBy
    <3>2. m \in 2 .. Len(stages) /\ m - 1 \in (k + 1) .. Len(stages')
      BY <1>1, <1>2, <2>1
    <3>3. Executes(stages', m - 1, f)
      BY <1>3, <3>1, <3>2 DEF Executes
    <3>4. QED BY <3>2, <3>3 DEF FollowedBy
  <2>7. QED BY <2>2, <2>4, <2>5, <2>6
<1>7. QED BY <1>4, <1>5, <1>6 DEF ForwardDue, LastOverQueries

(* Stages, requests and outputs that stay keep what is promised.           *)
LEMMA DueUnchanged ==
    ASSUME ForwardDue, UNCHANGED <<stages, files, requests, options>>,
           \A f \in Due : f \in DOMAIN outputs =>
               \/ f \in DOMAIN outputs' /\ outputs'[f] = outputs[f]
               \/ RunsIn(stages, f)
    PROVE  ForwardDue'
<1>1. Due' = Due /\ Querying' = Querying
  BY DEF Due, Output, Querying, CannotLoad, Wanted, Loaded, NumberOf, NoNumber, QueryFile
<1>2. ASSUME NEW f \in Due PROVE Promised(f)' /\ LastOverQueries(f)'
  <2>1. Promised(f) /\ LastOverQueries(f)
    BY DEF ForwardDue
  <2>2. LastOverQueries(f)'
    BY <1>1, <2>1 DEF LastOverQueries
  <2>3. CASE RunsIn(stages, f)
    BY <2>2, <2>3 DEF Promised
  <2>4. CASE ~RunsIn(stages, f)
    <3>1. AnswersAll(f) /\ f \in DOMAIN outputs
      BY <2>1, <2>4 DEF Promised, AnswersAll
    <3>2. AnswersAll(f)'
      BY <2>4, <3>1, StillAnswers
    <3>3. QED BY <2>2, <3>2 DEF Promised
  <2>5. QED BY <2>3, <2>4
<1>3. QED BY <1>1, <1>2 DEF ForwardDue

LEMMA ReverseStages ==
    /\ Tail(ReversePlan) = ReverseRest /\ Tail(ReverseRest) = <<Call("reverse")>>
    /\ ReversePlan # << >> /\ Head(ReversePlan) = Stage("load", Trace)
    /\ ReverseRest # << >> /\ Head(ReverseRest) = Stage("load_querys", QueryFile)
    /\ <<Call("reverse")>> # << >> /\ Head(<<Call("reverse")>>) = Call("reverse")
    /\ Tail(<<Call("reverse")>>) = << >>
BY DEF ReversePlan, ReverseRest

(* What runs in a reverse run.                                             *)
LEMMA ReverseRuns ==
    ASSUME ReverseDue, stages # << >>
    PROVE  \/ running.kind = "load" /\ stages = ReversePlan /\ chunk = 0
           \/ /\ running.kind = "load_querys" /\ running.file = QueryFile
              /\ stages = ReverseRest /\ chunk = 0
           \/ running.kind = "reverse" /\ stages = <<Call("reverse")>> /\ Reversing
BY ReverseStages DEF ReverseDue, running, Call, Stage

(* A round of requests_exec() over the queries answers one more of them.   *)
LEMMA ExecAnswers ==
    ASSUME IndexInv, OutputsInv, ExecRound, options' = options
    PROVE  OutputsInv'
<1>1. /\ In("exec") /\ index < Num /\ index' = index + 1 /\ stages # << >> /\ running.kind = "exec"
      /\ UNCHANGED <<files, nStart, interval, stages, exited, requests, querys, todo, chunk>>
  BY DEF ExecRound, Round, More, In, given
<1>2. /\ running' = running /\ Num' = Num /\ Wanted' = Wanted /\ Querying' = Querying
      /\ Num \in Nat /\ index \in 0 .. Num
  BY <1>1, Started DEF running, Num, Wanted, Loaded, NumberOf, NoNumber, Querying, CannotLoad,
     QueryFile, OutputsInv, Answering
<1>3. index' \in 0 .. Num' /\ index + 1 \in 1 .. Num
  BY <1>1, <1>2
<1> DEFINE f == running.file
<1>4. ASSUME Querying PROVE AnswersTo(f, index)'
  <2> DEFINE old == outputs[f]
  <2> DEFINE qs == Queries(SubSeq(Wanted, 1, index))
  <2>1. Wanted = requests /\ Wanted \in Seq(Records) /\ Len(Wanted) = Num
    BY <1>4, WantedIs DEF Querying, Num
  <2>2. /\ request = Wanted[index + 1] /\ index \in 0 .. (Len(Wanted) - 1)
        /\ request \in Records
    BY <1>1, <1>2, <1>3, <2>1, ElementOfSeq DEF request
  <2>3. f \in DOMAIN outputs /\ old \in Seq(Range(old)) /\ KeysIn(old) = KeysIn(qs)
    BY <1>1, <1>4 DEF OutputsInv, Answering, AnswersTo
  <2>4. /\ qs \in Seq(Records)
        /\ Queries(SubSeq(Wanted, 1, index + 1)) =
               IF request.type = "get" THEN Append(qs, request) ELSE qs
    BY <2>1, <2>2, QueriesStep
  <2>5. Queries(SubSeq(Wanted, 1, index))' = Queries(SubSeq(Wanted, 1, index + 1))
    BY <1>1, <1>2 DEF Queries
  <2>6. f' = f
    BY <1>2
  <2> HIDE DEF old, qs, f
  <2>7. CASE request.type # "get"
    <3>1. outputs' = outputs
      BY <2>7 DEF ExecRound
    <3>2. QED BY <2>3, <2>4, <2>5, <2>6, <2>7, <3>1 DEF AnswersTo, old, KeysIn
  <2>8. CASE request.type = "get"
    <3>1. PICK line : /\ line.key = request.key
                      /\ outputs' = Written(f, Append(old, line))
      BY <2>8 DEF ExecRound, f, old
    <3> DEFINE S == Range(old) \cup {line}
    <3> DEFINE new == Append(old, line)
    <3>2. f \in DOMAIN outputs' /\ outputs'[f] = new
      BY <3>1 DEF Written
    <3>3. old \in Seq(S) /\ line \in S
      BY <2>3, SeqMonotonic
    <3> HIDE DEF S
    <3>4. new \in Seq(S)
      BY <3>3, AppendProperties
    <3>5. KeysIn(new) = KeysIn(Append(qs, request))
      BY <2>2, <2>3, <2>4, <3>1, <3>3, KeysAppend
    <3> HIDE DEF new
    <3>6. new \in Seq(Range(new))
      BY <3>4, SeqOfRange
    <3>7. QED BY <2>4, <2>5, <2>6, <2>8, <3>2, <3>5, <3>6 DEF AnswersTo, KeysIn
  <2>9. QED BY <2>7, <2>8
<1>5. Answering'
  <2>1. Querying' => AnswersTo(running.file, index)'
    BY <1>2, <1>4
  <2>2. QED BY <1>3, <2>1 DEF Answering
<1>6. RunsIn(stages, f)
  <2>1. 1 \in 1 .. Len(stages) /\ running = stages[1]
    BY <1>1, Started
  <2>2. QED BY <1>1, <2>1 DEF RunsIn, Executes
<1>7. \A g : g \in DOMAIN outputs => \/ g \in DOMAIN outputs' /\ outputs'[g] = outputs[g]
                                     \/ g = f
  BY DEF ExecRound, Written
<1>8. ForwardDue => ForwardDue'
  BY <1>1, <1>6, <1>7, DueUnchanged
<1>9. ~ReverseDue
  BY <1>1, ReverseRuns
<1>10. QED BY <1>1, <1>5, <1>8, <1>9 DEF OutputsInv

(* The other loops leave the outputs alone.                                *)
LEMMA QuietKeeps ==
    ASSUME IndexInv, OutputsInv, options' = options,
           NEW kind \in {"query", "throughput", "delete"}, QuietRound(kind)
    PROVE  OutputsInv'
<1>1. /\ stages # << >> /\ running.kind = kind /\ running' = running
      /\ UNCHANGED <<files, stages, exited, requests, outputs>>
  BY DEF QuietRound, Round, In, given, running
<1>2. Answering'
  BY <1>1 DEF Answering, In
<1>3. ForwardDue => ForwardDue'
  BY <1>1, DueUnchanged
<1>4. ~ReverseDue
  BY <1>1, ReverseRuns
<1>5. QED BY <1>1, <1>2, <1>3, <1>4 DEF OutputsInv

(* The end of a stage that is not a reverse run.                           *)
LEMMA StageEndsWell ==
    ASSUME IndexInv, OutputsInv, LoopEnds \/ Calls, options' = options
    PROVE  OutputsInv'
<1>1. /\ stages # << >> /\ running.kind \notin {"reverse", "load", "load_querys"}
      /\ NextStage /\ requests' = requests /\ exited' = exited
      /\ running.kind = "exec" => ~More
  BY DEF LoopEnds, InLoop, Calls, In, NextStage
<1>2. requests' \in Seq(Records) /\ index \in Int /\ Num \in Nat
  BY <1>1, Started DEF IndexInv, Typed
<1>3. running.kind = "exec" => index >= Num
  BY <1>1, <1>2 DEF More
<1>4. Answering'
  BY <1>1, <1>2, OpensNext
<1>5. ForwardDue => ForwardDue'
  BY <1>1, <1>2, <1>3, DueStays DEF OutputsInv
<1>6. ~ReverseDue
  BY <1>1, ReverseRuns
<1>7. QED BY <1>1, <1>4, <1>5, <1>6 DEF OutputsInv

LEMMA ExitsWell == ASSUME Exit PROVE OutputsInv'
<1>1. stages' = << >> /\ exited'
  BY DEF Exit
<1>2. QED BY <1>1 DEF OutputsInv, Answering, In

LEMMA LoadsWell ==
    ASSUME IndexInv, OutputsInv, Load, options' = options
    PROVE  OutputsInv'
<1>1. CASE CannotLoad(running.file, Num)
  BY <1>1, ExitsWell DEF Load
<1>2. CASE ~CannotLoad(running.file, Num)
  <2>1. /\ stages # << >> /\ running.kind = "load" /\ NextStage
        /\ requests' = Loaded(running.file, Num)
        /\ UNCHANGED <<files, exited, chunk>> /\ stages' = Tail(stages)
    BY <1>2 DEF Load, In, NextStage, Advance, given, inside
  <2>2. requests' \in Seq(Records)
    <3>1. IndexInv'
      BY Loads
    <3>2. QED BY <3>1 DEF IndexInv, Typed
  <2>3. Answering'
    BY <2>1, <2>2, OpensNext
  <2>4. ForwardDue => ForwardDue'
    BY <1>2, <2>1, <2>2, DueStays DEF OutputsInv
  <2>5. ReverseDue => ReverseDue'
    <3>1. SUFFICES ASSUME ReverseDue PROVE ReverseDue'
      OBVIOUS
    <3>2. stages = ReversePlan /\ chunk = 0
      BY <2>1, <3>1, ReverseRuns
    <3>3. stages' = ReverseRest /\ chunk' = 0
      BY <2>1, <3>2, ReverseStages
    <3>4. QED BY <3>3 DEF ReverseDue, ReverseRest, QueryFile, Stage, Call
  <2>6. QED BY <2>1, <2>3, <2>4, <2>5 DEF OutputsInv
<1>3. QED BY <1>1, <1>2

LEMMA LoadsQuerysWell ==
    ASSUME IndexInv, OutputsInv, LoadQuerys, options' = options
    PROVE  OutputsInv'
<1>1. CASE CannotLoad(running.file, 0)
  BY <1>1, ExitsWell DEF LoadQuerys
<1>2. CASE ~CannotLoad(running.file, 0)
  <2>1. /\ stages # << >> /\ running.kind = "load_querys" /\ NextStage /\ requests' = requests
        /\ UNCHANGED <<files, exited, chunk, phase, interval, ops>> /\ stages' = Tail(stages)
        /\ querys' = Loaded(running.file, 0) /\ index' = FirstIndex(stages')
    BY <1>2 DEF LoadQuerys, In, NextStage, Advance, given, inside
  <2>2. requests' \in Seq(Records)
    BY <2>1 DEF IndexInv, Typed
  <2>3. Answering'
    BY <2>1, <2>2, OpensNext
  <2>4. ForwardDue => ForwardDue'
    BY <2>1, <2>2, DueStays DEF OutputsInv
  <2>5. ReverseDue => ReverseDue'
    <3>1. SUFFICES ASSUME ReverseDue PROVE ReverseDue'
      OBVIOUS
    <3>2. stages = ReverseRest /\ chunk = 0 /\ running.file = QueryFile
      BY <2>1, <3>1, ReverseRuns
    <3>3. stages' = <<Call("reverse")>> /\ chunk' = 0
      BY <2>1, <3>2, ReverseStages
    <3>4. index' = 0
      BY <2>1, <3>3 DEF FirstIndex, Call, Stage
    <3>5. querys' = Wanted'
      BY <1>2, <2>1, <3>2 DEF Wanted, Loaded, NumberOf, NoNumber, QueryFile
    <3>6. phase' = "forward" /\ Num' \in Nat /\ interval' \in Nat
      BY <2>1, <2>2, LenProperties DEF IndexInv, BeforeReverse, Typed, Num
    <3>7. ForwardAt'
      <4>1. index' < Num' => index' = chunk' * interval'
        <5>1. \A n \in Nat : 0 = 0 * n
          OBVIOUS
        <5>2. QED BY <3>3, <3>4, <3>6, <5>1
      <4>2. ~ (index' < Num') => Num' = 0 /\ chunk' = 0
        BY <3>3, <3>4, <3>6
      <4>3. \A k \in 1 .. 0 : FALSE
        OBVIOUS
      <4>4. ForwardDone(chunk)'
        BY <3>3, <4>3 DEF ForwardDone
      <4>5. chunk' \in Nat
        BY <3>3
      <4>6. QED BY <4>1, <4>4, <4>5, <4>2 DEF ForwardAt
    <3>8. Reversing'
      BY <3>3, <3>5, <3>6, <3>7 DEF Reversing
    <3>9. QED BY <3>3, <3>8 DEF ReverseDue, Call, Stage
  <2>6. QED BY <2>1, <2>3, <2>4, <2>5 DEF OutputsInv
<1>3. QED BY <1>1, <1>2

-----------------------------------------------------------------------------
(* The reverse run                                                         *)

(* A step within a reverse run.                                            *)
LEMMA StillReversing ==
    ASSUME OutputsInv, In("reverse"), ReverseKeeps, stages' = stages, options' = options,
           \/ outputs' = outputs
           \/ \E d \in {"forward", "reverse"} : \E k, lines : outputs' = Written(<<d, k>>, lines),
           Reversing => Reversing'
    PROVE  OutputsInv'
<1>1. /\ stages # << >> /\ running.kind = "reverse" /\ running' = running
      /\ UNCHANGED <<files, stages, exited, requests, querys>>
  BY DEF In, ReverseKeeps, given, running
<1>2. Answering'
  BY <1>1 DEF Answering, In
<1>3. \A f \in Due : f \in DOMAIN outputs => f \in DOMAIN outputs' /\ outputs'[f] = outputs[f]
  <2>1. CASE outputs' = outputs
    BY <2>1
  <2>2. ASSUME NEW d \in {"forward", "reverse"}, NEW k, NEW lines, outputs' = Written(<<d, k>>, lines)
        PROVE  \A f \in Due : f \in DOMAIN outputs => f \in DOMAIN outputs' /\ outputs'[f] = outputs[f]
    <3>1. \A f \in Due : f # <<d, k>>
      BY DEF Due, Output
    <3>2. QED BY <2>2, <3>1 DEF Written
  <2>3. QED BY <2>1, <2>2
<1>4. ForwardDue => ForwardDue'
  BY <1>1, <1>3, DueUnchanged
<1>5. ReverseDue => ReverseDue'
  <2>1. SUFFICES ASSUME ReverseDue PROVE ReverseDue'
    OBVIOUS
  <2>2. stages = <<Call("reverse")>> /\ Reversing
    BY <1>1, <2>1, ReverseRuns
  <2>3. stages' = <<Call("reverse")>> /\ Reversing'
    BY <1>1, <2>2
  <2>4. QED BY <2>3 DEF ReverseDue, Call, Stage
<1>6. QED BY <1>1, <1>2, <1>4, <1>5 DEF OutputsInv

LEMMA OneChunkLess ==
    ASSUME interval \in Nat \ {0}
    PROVE  \A c \in Int : /\ (c - 1) * interval = c * interval - interval
                          /\ c * interval \in Int
                          /\ c * interval = 0 => c = 0
OBVIOUS

(* What a step within a reverse run that writes nothing leaves alone.      *)
LEMMA QuietReverse ==
    ASSUME ReverseKeeps
    PROVE  /\ interval' = interval /\ Num' = Num /\ NumChunks' = NumChunks
           /\ Wanted' = Wanted /\ querys' = querys /\ files' = files
           /\ outputs' = outputs => \A f : AnswersAll(f) => AnswersAll(f)'
<1>1. UNCHANGED <<files, interval, requests, querys>>
  BY DEF ReverseKeeps, given
<1>2. Wanted' = Wanted /\ Asked' = Asked /\ Num' = Num
  BY <1>1 DEF Wanted, Asked, Loaded, NumberOf, NoNumber, QueryFile, Num
<1>3. NumChunks' = NumChunks
  BY <1>1, <1>2 DEF NumChunks
<1>4. QED BY <1>1, <1>2, <1>3 DEF AnswersAll

(* A file of answers is written.                                           *)
LEMMA FileAnswers ==
    ASSUME ReverseKeeps, querys = Wanted, NEW g, NEW lines, KeysIn(lines) = KeysIn(Queries(querys)),
           outputs' = Written(g, lines)
    PROVE  AnswersAll(g)' /\ \A f : AnswersAll(f) => AnswersAll(f)'
<1>1. Asked = Queries(Wanted) /\ Asked' = Asked /\ files' = files
  BY DEF Asked, Wanted, Loaded, NumberOf, NoNumber, QueryFile, ReverseKeeps, given
<1>2. g \in DOMAIN outputs' /\ outputs'[g] = lines
  BY DEF Written
<1>3. AnswersAll(g)'
  BY <1>1, <1>2 DEF AnswersAll, KeysIn
<1>4. ASSUME NEW f, AnswersAll(f), f # g PROVE AnswersAll(f)'
  <2>1. f \in DOMAIN outputs
    BY <1>4 DEF AnswersAll
  <2>2. f \in DOMAIN outputs' /\ outputs'[f] = outputs[f]
    BY <1>4, <2>1 DEF Written
  <2>3. QED BY <1>1, <1>4, <2>2, StillAnswers
<1>5. QED BY <1>3, <1>4

LEMMA ForwardChunkWell ==
    ASSUME IndexInv, OutputsInv, ForwardChunk, options' = options
    PROVE  OutputsInv'
<1>1. /\ In("reverse") /\ phase = "forward" /\ index < Num /\ phase' = "forwardOps"
      /\ todo' = ops' /\ chunk' = chunk + 1 /\ ReverseKeeps /\ UNCHANGED <<stages, index, outputs>>
  BY DEF ForwardChunk, At
<1>2. /\ interval' = interval /\ Wanted' = Wanted /\ querys' = querys
      /\ \A f : AnswersAll(f) => AnswersAll(f)'
  BY <1>1, QuietReverse
<1>3. ASSUME Reversing PROVE Reversing'
  <2>1. chunk \in Nat /\ index = chunk * interval /\ ForwardDone(chunk) /\ querys = Wanted
    BY <1>1, <1>3 DEF Reversing, ForwardAt
  <2>2. chunk' - 1 = chunk /\ chunk' \in Nat /\ chunk' \in Int
    BY <1>1, <2>1
  <2>3. ChunkEnds(index + todo)'
    BY <1>1, <1>2, <2>1, <2>2 DEF ChunkEnds
  <2>4. ForwardDone(chunk - 1)'
    BY <1>2, <2>1, <2>2 DEF ForwardDone
  <2>5. QED BY <1>1, <1>2, <2>1, <2>2, <2>3, <2>4 DEF Reversing, ForwardOpsAt
<1>4. QED BY <1>1, <1>3, StillReversing

LEMMA ForwardStepWell ==
    ASSUME IndexInv, OutputsInv, ForwardStep, options' = options
    PROVE  OutputsInv'
<1>1. /\ In("reverse") /\ phase = "forwardOps" /\ index' = index + 1 /\ todo' = todo - 1
      /\ ReverseKeeps /\ UNCHANGED <<stages, phase, ops, chunk, outputs>>
  BY DEF ForwardStep, At
<1>2. /\ interval' = interval /\ Wanted' = Wanted /\ querys' = querys
      /\ \A f : AnswersAll(f) => AnswersAll(f)'
  BY <1>1, QuietReverse
<1>3. index \in Int /\ todo \in Nat /\ index' + todo' = index + todo
  BY <1>1, ChunksOf
<1>4. ASSUME Reversing PROVE Reversing'
  <2>1. /\ chunk \in Nat /\ ChunkEnds(index + todo) /\ ForwardDone(chunk - 1)
        /\ querys = Wanted /\ chunk \in Int
    BY <1>1, <1>4 DEF Reversing, ForwardOpsAt
  <2>2. ChunkEnds(index + todo)'
    BY <1>1, <1>2, <1>3, <2>1 DEF ChunkEnds
  <2>3. ForwardDone(chunk - 1)'
    BY <1>1, <1>2, <2>1 DEF ForwardDone
  <2>4. QED BY <1>1, <1>2, <2>1, <2>2, <2>3 DEF Reversing, ForwardOpsAt
<1>5. QED BY <1>1, <1>4, StillReversing

LEMMA ForwardQueryWell ==
    ASSUME IndexInv, OutputsInv, options' = options,
           NEW lines, KeysIn(lines) = KeysIn(Queries(querys)), ForwardQuery(lines)
    PROVE  OutputsInv'
<1>1. /\ In("reverse") /\ phase = "forwardOps" /\ todo = 0 /\ phase' = "forward"
      /\ outputs' = Written(<<"forward", chunk>>, lines)
      /\ ReverseKeeps /\ UNCHANGED <<stages, index, ops, todo, chunk>>
  BY DEF ForwardQuery, At
<1>2. interval' = interval /\ Wanted' = Wanted /\ querys' = querys /\ Num' = Num
  BY <1>1, QuietReverse
<1>3. /\ index \in Int /\ todo \in Nat /\ Num \in Nat /\ interval \in Nat \ {0}
      /\ index <= Num /\ (index < Num => ops = interval) /\ Chunk(index)
  <2>1. /\ index \in Int /\ todo \in Nat /\ Num \in Nat /\ interval \in Nat \ {0} /\ ForwardOpsFits
    BY <1>1, ChunksOf
  <2>2. index + todo = index
    BY <1>1, <2>1
  <2>3. QED BY <2>1, <2>2 DEF ForwardOpsFits
<1>4. index >= 1
  <2>1. ops \in 1 .. interval /\ WholeChunks(index - ops)
    BY <1>3 DEF Chunk
  <2>2. index - ops \in Nat
    BY <1>3, <2>1, WholeSteps
  <2>3. QED BY <1>3, <2>1, <2>2
<1>5. ASSUME Reversing PROVE Reversing'
  <2>1. /\ chunk \in Nat /\ ChunkEnds(index + todo) /\ ForwardDone(chunk - 1)
        /\ querys = Wanted /\ chunk \in Int
    BY <1>1, <1>5 DEF Reversing, ForwardOpsAt
  <2>2. index = (chunk - 1) * interval + ops
    BY <1>1, <1>3, <2>1 DEF ChunkEnds
  <2>3. AnswersAll(<<"forward", chunk>>)' /\ \A f : AnswersAll(f) => AnswersAll(f)'
    <3> DEFINE g == <<"forward", chunk>>
    <3>1. outputs' = Written(g, lines)
      BY <1>1
    <3>2. \A f : f = g => AnswersAll(f)' /\ \A h : AnswersAll(h) => AnswersAll(h)'
      <4> HIDE DEF g
      <4>1. QED BY <1>1, <2>1, <3>1, FileAnswers
    <3>3. QED BY <1>1, <3>2 DEF AnswersAll
  <2>4. ForwardDone(chunk)'
    <3>1. ASSUME NEW k \in 1 .. chunk PROVE AnswersAll(<<"forward", k>>)'
      <4>1. k = chunk \/ k \in 1 .. (chunk - 1)
        BY <2>1
      <4>2. CASE k = chunk
        BY <1>1, <2>3, <4>2 DEF AnswersAll
      <4>3. CASE k \in 1 .. (chunk - 1)
        BY <2>1, <2>3, <4>3 DEF ForwardDone
      <4>4. QED BY <4>1, <4>2, <4>3
    <3>2. QED BY <1>1, <3>1 DEF ForwardDone
  <2>5. index < Num => index = chunk * interval
    <3>1. (chunk - 1) * interval = chunk * interval - interval /\ chunk * interval \in Int
      BY <1>3, <2>1, OneChunkLess
    <3>2. QED BY <1>3, <2>2, <3>1
  <2>6. ~ (index < Num) => Num # 0 /\ Num = index
    BY <1>3, <1>4
  <2>7. ForwardAt'
    <3>1. index' < Num' => index' = chunk' * interval'
      BY <1>1, <1>2, <2>5
    <3>2. ~ (index' < Num') => Num' # 0 /\ ChunkEnds(Num)'
      BY <1>1, <1>2, <2>2, <2>6 DEF ChunkEnds
    <3>3. chunk' \in Nat
      BY <1>1, <2>1
    <3>4. QED BY <2>4, <3>1, <3>2, <3>3 DEF ForwardAt
  <2>8. QED BY <1>1, <1>2, <2>1, <2>7 DEF Reversing
<1>6. QED BY <1>1, <1>5, StillReversing

(* The number of chunks, as the last of them is counted.                   *)
LEMMA ChunksCounted ==
    ASSUME interval \in Nat \ {0}, Num \in Nat, chunk \in Nat,
           \/ Num = 0 /\ chunk = 0
           \/ ChunkEnds(Num) /\ ops \in 1 .. interval
    PROVE  chunk = NumChunks
<1> DEFINE n == Num + interval - 1
<1>1. n \in Nat
  OBVIOUS
<1>2. CASE Num = 0 /\ chunk = 0
  <2>1. n = interval * 0 + (interval - 1) /\ interval - 1 \in 0 .. (interval - 1)
    BY <1>2
  <2> HIDE DEF n
  <2>2. n \div interval = 0
    BY <1>1, <2>1, QuotientIs
  <2>3. QED BY <1>2, <2>2 DEF n, NumChunks
<1>3. CASE ChunkEnds(Num) /\ ops \in 1 .. interval
  <2>1. (chunk - 1) * interval = chunk * interval - interval /\ chunk * interval \in Int
    BY OneChunkLess
  <2>2. Num = (chunk - 1) * interval + ops
    BY <1>3 DEF ChunkEnds
  <2>3. n = chunk * interval + (ops - 1) /\ ops - 1 \in 0 .. (interval - 1)
    BY <1>3, <2>1, <2>2
  <2>4. chunk * interval = interval * chunk
    OBVIOUS
  <2>5. n = interval * chunk + (ops - 1)
    BY <2>3, <2>4
  <2> HIDE DEF n
  <2>6. n \div interval = chunk
    BY <1>1, <2>3, <2>5, QuotientIs
  <2>7. QED BY <2>6 DEF n, NumChunks
<1>4. QED BY <1>2, <1>3

LEMMA TurnAroundWell ==
    ASSUME IndexInv, OutputsInv, TurnAround, options' = options
    PROVE  OutputsInv'
<1>1. /\ In("reverse") /\ phase = "forward" /\ index >= Num /\ phase' = "reverse"
      /\ index' = Num - 1 /\ ReverseKeeps /\ UNCHANGED <<stages, ops, chunk, outputs>>
  BY DEF TurnAround, At
<1>2. /\ interval' = interval /\ Wanted' = Wanted /\ querys' = querys /\ NumChunks' = NumChunks
      /\ \A f : AnswersAll(f) => AnswersAll(f)'
  BY <1>1, QuietReverse
<1>3. /\ Num \in Nat /\ index \in Int /\ interval \in Nat \ {0}
      /\ Num = 0 \/ ops \in 1 .. interval
  BY <1>1, ChunksOf DEF ForwardFits, Chunk
<1>4. ASSUME Reversing PROVE Reversing'
  <2>1. /\ chunk \in Nat /\ ForwardDone(chunk) /\ querys = Wanted
        /\ IF Num = 0 THEN chunk = 0 ELSE ChunkEnds(Num)
    BY <1>1, <1>3, <1>4 DEF Reversing, ForwardAt
  <2>2. chunk = NumChunks
    BY <1>3, <2>1, ChunksCounted
  <2>3. ForwardDone(NumChunks)'
    BY <1>2, <2>1, <2>2 DEF ForwardDone
  <2>4. ReverseDone(chunk)'
    <3>1. \A k \in chunk .. (chunk - 1) : FALSE
      BY <2>1
    <3>2. QED BY <1>1, <1>2, <2>2, <3>1 DEF ReverseDone
  <2>5. IF index' >= 0 THEN ChunkEnds(index + 1)' ELSE chunk' = 0
    <3>1. CASE Num = 0
      BY <1>1, <2>1, <3>1
    <3>2. CASE Num # 0
      <4>1. index' >= 0 /\ index' + 1 = Num
        BY <1>1, <1>3, <3>2
      <4>2. QED BY <1>1, <1>2, <2>1, <3>2, <4>1 DEF ChunkEnds
    <3>3. QED BY <3>1, <3>2
  <2>6. QED BY <1>1, <1>2, <2>1, <2>3, <2>4, <2>5 DEF Reversing, ReverseAt
<1>5. QED BY <1>1, <1>4, StillReversing

LEMMA ReverseChunkWell ==
    ASSUME IndexInv, OutputsInv, ReverseChunk, options' = options
    PROVE  OutputsInv'
<1>1. /\ In("reverse") /\ phase = "reverse" /\ index >= 0 /\ phase' = "reverseOps"
      /\ todo' = ops /\ chunk' = chunk - 1 /\ ReverseKeeps
      /\ UNCHANGED <<stages, index, ops, outputs>>
  BY DEF ReverseChunk, At
<1>2. /\ interval' = interval /\ Wanted' = Wanted /\ querys' = querys /\ NumChunks' = NumChunks
      /\ \A f : AnswersAll(f) => AnswersAll(f)'
  BY <1>1, QuietReverse
<1>3. index \in Int /\ interval \in Nat \ {0} /\ ops \in 1 .. interval
  <2>1. index \in Int /\ interval \in Nat \ {0} /\ ReverseFits
    BY <1>1, ChunksOf
  <2>2. Chunk(index + 1)
    BY <1>1, <2>1 DEF ReverseFits
  <2>3. QED BY <2>1, <2>2 DEF Chunk
<1>4. ASSUME Reversing PROVE Reversing'
  <2>1. /\ chunk \in Int /\ querys = Wanted /\ index + 1 = (chunk - 1) * interval + ops
        /\ ForwardDone(NumChunks) /\ ReverseDone(chunk)
    BY <1>1, <1>4 DEF Reversing, ReverseAt, ChunkEnds
  <2>2. (chunk - 1) * interval \in Int
    BY <1>3, <2>1, OneChunkLess
  <2>3. index + 1 - ops = (chunk - 1) * interval
    BY <1>3, <2>1, <2>2
  <2>4. index' + 1 - todo' = chunk' * interval'
    BY <1>1, <1>2, <2>3
  <2>5. ForwardDone(NumChunks)'
    BY <1>2, <2>1 DEF ForwardDone
  <2>6. chunk' + 1 = chunk /\ chunk' \in Int
    BY <1>1, <2>1
  <2>7. ReverseDone(chunk + 1)'
    BY <1>2, <2>1, <2>6 DEF ReverseDone
  <2>8. QED BY <1>1, <1>2, <2>1, <2>4, <2>5, <2>6, <2>7 DEF Reversing, ReverseOpsAt
<1>5. QED BY <1>1, <1>4, StillReversing

LEMMA ReverseStepWell ==
    ASSUME IndexInv, OutputsInv, ReverseStep, options' = options
    PROVE  OutputsInv'
<1>1. /\ In("reverse") /\ phase = "reverseOps" /\ index' = index - 1 /\ todo' = todo - 1
      /\ ReverseKeeps /\ UNCHANGED <<stages, phase, ops, chunk, outputs>>
  BY DEF ReverseStep, At
<1>2. /\ interval' = interval /\ Wanted' = Wanted /\ querys' = querys /\ NumChunks' = NumChunks
      /\ \A f : AnswersAll(f) => AnswersAll(f)'
  BY <1>1, QuietReverse
<1>3. index \in Int /\ todo \in Nat /\ index' + 1 - todo' = index + 1 - todo
  BY <1>1, ChunksOf
<1>4. ASSUME Reversing PROVE Reversing'
  <2>1. /\ chunk \in Int /\ querys = Wanted /\ index + 1 - todo = chunk * interval
        /\ ForwardDone(NumChunks) /\ ReverseDone(chunk + 1)
    BY <1>1, <1>4 DEF Reversing, ReverseOpsAt
  <2>2. ForwardDone(NumChunks)' /\ ReverseDone(chunk + 1)'
    BY <1>1, <1>2, <2>1 DEF ForwardDone, ReverseDone
  <2>3. index' + 1 - todo' = chunk' * interval'
    BY <1>1, <1>2, <1>3, <2>1
  <2>4. QED BY <1>1, <1>2, <2>1, <2>2, <2>3 DEF Reversing, ReverseOpsAt
<1>5. QED BY <1>1, <1>4, StillReversing

LEMMA ReverseQueryWell ==
    ASSUME IndexInv, OutputsInv, options' = options,
           NEW lines, KeysIn(lines) = KeysIn(Queries(querys)), ReverseQuery(lines)
    PROVE  OutputsInv'
<1>1. /\ In("reverse") /\ phase = "reverseOps" /\ todo = 0 /\ phase' = "reverse"
      /\ outputs' = Written(<<"reverse", chunk>>, lines) /\ ops' = interval
      /\ ReverseKeeps /\ UNCHANGED <<stages, index, todo, chunk>>
  BY DEF ReverseQuery, At
<1>2. /\ interval' = interval /\ Wanted' = Wanted /\ querys' = querys /\ NumChunks' = NumChunks
  BY <1>1, QuietReverse
<1>3. index \in Int /\ interval \in Nat \ {0} /\ index + 1 - todo = index + 1 /\ index + 1 \in Nat
  <2>1. index \in Int /\ interval \in Nat \ {0} /\ ReverseOpsFits
    BY <1>1, ChunksOf
  <2>2. index + 1 - todo = index + 1
    BY <1>1, <2>1
  <2>3. WholeChunks(index + 1)
    BY <2>1, <2>2 DEF ReverseOpsFits
  <2>4. QED BY <2>1, <2>2, <2>3, WholeSteps
<1>4. ASSUME Reversing PROVE Reversing'
  <2>1. /\ chunk \in Int /\ querys = Wanted /\ index + 1 = chunk * interval
        /\ ForwardDone(NumChunks) /\ ReverseDone(chunk + 1)
    BY <1>1, <1>3, <1>4 DEF Reversing, ReverseOpsAt
  <2>2. AnswersAll(<<"reverse", chunk>>)' /\ \A f : AnswersAll(f) => AnswersAll(f)'
    <3> DEFINE g == <<"reverse", chunk>>
    <3>1. outputs' = Written(g, lines)
      BY <1>1
    <3>2. \A f : f = g => AnswersAll(f)' /\ \A h : AnswersAll(h) => AnswersAll(h)'
      <4> HIDE DEF g
      <4>1. QED BY <1>1, <2>1, <3>1, FileAnswers
    <3>3. QED BY <1>1, <3>2 DEF AnswersAll
  <2>3. ForwardDone(NumChunks)'
    BY <1>2, <2>1, <2>2 DEF ForwardDone
  <2>4. ReverseDone(chunk)'
    <3>1. ASSUME NEW k \in chunk .. (NumChunks - 1) PROVE AnswersAll(<<"reverse", k>>)'
      <4>1. k = chunk \/ k \in (chunk + 1) .. (NumChunks - 1)
        BY <2>1
      <4>2. CASE k = chunk
        BY <1>1, <2>2, <4>2 DEF AnswersAll
      <4>3. CASE k \in (chunk + 1) .. (NumChunks - 1)
        BY <2>1, <2>2, <4>3 DEF ReverseDone
      <4>4. QED BY <4>1, <4>2, <4>3
    <3>2. QED BY <1>1, <1>2, <3>1 DEF ReverseDone
  <2>5. (chunk - 1) * interval = chunk * interval - interval /\ chunk * interval \in Int
        /\ (chunk * interval = 0 => chunk = 0)
    BY <1>3, <2>1, OneChunkLess
  <2>6. IF index >= 0 THEN index + 1 = (chunk - 1) * interval + interval ELSE chunk = 0
    BY <1>3, <2>1, <2>5
  <2>7. IF index' >= 0 THEN ChunkEnds(index + 1)' ELSE chunk' = 0
    BY <1>1, <1>2, <2>6 DEF ChunkEnds
  <2>8. QED BY <1>1, <1>2, <2>1, <2>3, <2>4, <2>7 DEF Reversing, ReverseAt
<1>5. QED BY <1>1, <1>4, StillReversing

(* The end of a reverse run: everything is done and undone.                *)
LEMMA ReverseEndsWell ==
    ASSUME IndexInv, OutputsInv, ReverseEnds, options' = options
    PROVE  OutputsInv'
<1>1. /\ In("reverse") /\ phase = "reverse" /\ index < 0 /\ stages # << >>
      /\ running.kind = "reverse" /\ stages' = Tail(stages) /\ ReverseKeeps
      /\ UNCHANGED <<chunk, outputs, exited, files>>
  BY DEF ReverseEnds, At, In, ReverseKeeps, given
<1>2. /\ NumChunks' = NumChunks /\ \A f : AnswersAll(f) => AnswersAll(f)'
      /\ Wanted' = Wanted
  BY <1>1, QuietReverse
<1>3. Len(stages) = 1 /\ running = stages[1] /\ stages \in Seq(Stages)
  <2>1. Len(stages) \in Nat \ {0} /\ running = stages[1] /\ PlanFits /\ stages \in Seq(Stages)
    BY <1>1, Started DEF IndexInv, Typed
  <2>2. 1 \in 1 .. Len(stages)
    BY <2>1
  <2>3. QED BY <1>1, <2>1, <2>2 DEF PlanFits
<1>4. stages' = << >> /\ Len(stages') = 0
  BY <1>1, <1>3, HeadTailProperties, EmptySeq
<1>5. Answering'
  BY <1>4 DEF Answering, In
<1>6. ForwardDue => ForwardDue'
  <2>1. SUFFICES ASSUME ForwardDue PROVE ForwardDue'
    OBVIOUS
  <2>2. ASSUME NEW f \in Due PROVE Promised(f)' /\ LastOverQueries(f)'
    <3>1. ~RunsIn(stages, f)
      <4>1. \A k \in 1 .. 1 : k = 1
        OBVIOUS
      <4>2. QED BY <1>1, <1>3, <4>1 DEF RunsIn, Executes
    <3>2. AnswersAll(f)'
      BY <1>2, <2>1, <3>1 DEF ForwardDue, Promised
    <3>3. \A k \in 1 .. 0 : FALSE
      OBVIOUS
    <3>4. LastOverQueries(f)'
      BY <1>4, <3>3 DEF LastOverQueries
    <3>5. QED BY <3>2, <3>4 DEF Promised
  <2>3. Due' = Due
    BY DEF Due, Output
  <2>4. QED BY <2>2, <2>3 DEF ForwardDue
<1>7. ReverseDue => ReverseDue'
  <2>1. SUFFICES ASSUME ReverseDue PROVE ReverseDue'
    OBVIOUS
  <2>2. ReverseAt
    BY <1>1, <2>1, ReverseRuns DEF Reversing
  <2>3. index \in Int
    BY DEF IndexInv, Typed
  <2>4. ForwardDone(NumChunks) /\ ReverseDone(0)
    BY <1>1, <2>2, <2>3 DEF ReverseAt
  <2>5. ForwardDone(NumChunks)' /\ ReverseDone(0)'
    BY <1>2, <2>4 DEF ForwardDone, ReverseDone
  <2>6. QED BY <1>4, <2>5 DEF ReverseDue
<1>8. QED BY <1>1, <1>5, <1>6, <1>7 DEF OutputsInv

-----------------------------------------------------------------------------

LEMMA ControlAnswers ==
    ASSUME IndexInv, OutputsInv, ControlNext, options' = options
    PROVE  OutputsInv'
<1>1. CASE ControlStep
  BY <1>1, LoadsWell, LoadsQuerysWell, StageEndsWell, ExitsWell, ForwardChunkWell,
     TurnAroundWell, ReverseChunkWell, ReverseEndsWell DEF ControlStep, TimingFails
<1>2. CASE LoopRound
  BY <1>2, ExecAnswers, QuietKeeps DEF LoopRound
<1>3. CASE Calls \/ ForwardStep \/ ReverseStep
  BY <1>3, StageEndsWell, ForwardStepWell, ReverseStepWell
<1>4. CASE FileWritten
  BY <1>4, ForwardQueryWell, ReverseQueryWell DEF FileWritten
<1>5. QED BY <1>1, <1>2, <1>3, <1>4 DEF ControlNext

LEMMA StutterAnswers ==
    ASSUME OutputsInv, UNCHANGED vars
    PROVE  OutputsInv'
<1>1. UNCHANGED <<options, files, interval, stages, exited, requests, querys, index, phase, ops,
                  todo, chunk, outputs>>
  BY DEF vars, control, given, inside, fixed
<1>2. /\ running' = running /\ Num' = Num /\ Wanted' = Wanted /\ NumChunks' = NumChunks
      /\ Asked' = Asked /\ Querying' = Querying /\ Due' = Due
  BY <1>1 DEF running, Num, Asked, Wanted, Loaded, NumberOf, NoNumber, NumChunks, Querying,
     CannotLoad, Due, Output, QueryFile
<1>3. \A f : AnswersAll(f) = AnswersAll(f)'
  BY <1>1, <1>2 DEF AnswersAll
<1>4. Answering'
  <2>1. \A f, n : AnswersTo(f, n) => AnswersTo(f, n)'
    BY <1>1, <1>2 DEF AnswersTo, KeysIn
  <2>2. QED BY <1>1, <1>2, <2>1 DEF OutputsInv, Answering, In, AnswersTo
<1>5. ForwardDue => ForwardDue'
  BY <1>1, DueUnchanged
<1>6. \A n : ForwardDone(n) = ForwardDone(n)' /\ ReverseDone(n) = ReverseDone(n)'
  BY <1>2, <1>3 DEF ForwardDone, ReverseDone
<1>7. Reversing => Reversing'
  BY <1>1, <1>2, <1>6 DEF Reversing, ForwardAt, ForwardOpsAt, ReverseAt, ReverseOpsAt, ChunkEnds
<1>8. ReverseDue => ReverseDue'
  BY <1>1, <1>2, <1>6, <1>7 DEF ReverseDue, ReverseRest, ReversePlan, Call, Stage, QueryFile,
     Trace, UpdatesFile
<1>9. QED BY <1>1, <1>4, <1>5, <1>8 DEF OutputsInv

LEMMA NextAnswers == IndexInv /\ OutputsInv /\ [Next]_vars => OutputsInv'
<1>1. SUFFICES ASSUME IndexInv, OutputsInv, [Next]_vars PROVE OutputsInv'
  OBVIOUS
<1>2. Next => (ControlNext /\ options' = options) \/ UNCHANGED vars
  BY SfsketchSteps, CmsketchSteps, CsketchSteps, CmcusketchSteps, CmlsketchSteps, CqfilterSteps
     DEF Next, Ends, Sfsketch, Cmsketch, Csketch, Cmcusketch, Cmlsketch, Cqfilter, fixed
<1>3. QED BY <1>1, <1>2, ControlAnswers, StutterAnswers

LEMMA InitAnswers == Init => OutputsInv
<1>1. SUFFICES ASSUME Init PROVE OutputsInv
  OBVIOUS
<1>2. /\ program \in Programs /\ options \in Options
      /\ options.reverse => program \in Reversible
      /\ stages = Plan(program, options) /\ chunk = 0
  BY <1>1 DEF Init, Sensible, ControlInit, Reversible
<1>3. /\ stages = << >> \/ stages[1].kind = "load"
      /\ options.reverse /\ options.subfiles = 0 => stages = ReversePlan
      /\ ~options.reverse => \A i \in 0 .. options.subfiles : ~ (options.timed /\ i = 0) =>
             RunsIn(stages, Output(i)) /\ AnswersIn(stages, Output(i))
  BY <1>2, PlansAnswer
<1>4. Answering
  <2>1. IndexInv
    BY <1>1, InitFits
  <2>2. stages # << >> => running = stages[1]
    BY <2>1, Started
  <2>3. QED BY <1>3, <2>2 DEF Answering, In
<1>5. ~options.reverse => ForwardDue
  BY <1>3 DEF ForwardDue, Due, Promised, LastOverQueries, AnswersIn
<1>6. options.reverse /\ options.subfiles = 0 => ReverseDue
  BY <1>2, <1>3 DEF ReverseDue
<1>7. QED BY <1>4, <1>5, <1>6 DEF OutputsInv

LEMMA EndsAnswered == IndexInv /\ OutputsInv => OutputsComplete
<1>1. SUFFICES ASSUME IndexInv, OutputsInv, stages = << >>, ~exited
               PROVE  IF options.reverse
                      THEN options.subfiles = 0 =>
                             \A k \in 1 .. NumChunks :
                                 AnswersAll(<<"forward", k>>) /\ AnswersAll(<<"reverse", k - 1>>)
                      ELSE \A i \in 0 .. options.subfiles :
                               (options.timed /\ i = 0) \/ AnswersAll(Output(i))
  BY DEF OutputsComplete, NumChunks
<1>2. CASE ~options.reverse
  <2>1. \A f \in Due : AnswersAll(f)
    <3>1. \A f : ~RunsIn(stages, f)
      <4>1. Len(stages) = 0 /\ \A k \in 1 .. 0 : FALSE
        BY <1>1, EmptySeq
      <4>2. QED BY <4>1 DEF RunsIn
    <3>2. QED BY <1>1, <1>2, <3>1 DEF OutputsInv, ForwardDue, Promised
  <2>2. QED BY <1>2, <2>1 DEF Due
<1>3. CASE options.reverse
  <2>1. SUFFICES ASSUME options.subfiles = 0, NEW k \in 1 .. NumChunks
                 PROVE  AnswersAll(<<"forward", k>>) /\ AnswersAll(<<"reverse", k - 1>>)
    BY <1>3
  <2>2. ReversePlan # << >> /\ ReverseRest # << >> /\ <<Call("reverse")>> # << >>
    BY ReverseStages
  <2>3. ForwardDone(NumChunks) /\ ReverseDone(0)
    BY <1>1, <1>3, <2>1, <2>2 DEF OutputsInv, ReverseDue
  <2>4. NumChunks \in Int
    <3>1. Num \in Nat /\ interval \in Nat \ {0}
      BY <1>1, LenProperties DEF IndexInv, Typed, Num
    <3>2. QED BY <3>1 DEF NumChunks
  <2>5. k - 1 \in 0 .. (NumChunks - 1)
    BY <2>4
  <2>6. QED BY <2>3, <2>5 DEF ForwardDone, ReverseDone
<1>4. QED BY <1>2, <1>3

(* A driver that comes to the end of main(), and has not called exit()     *)
(* before, has answered the queries of the query file, all of them and in  *)
(* their order, in every output file it was run for (requests_exec() opens *)
(* the output again for the queries, queryfqs()), whatever the files, the  *)
(* interval of -r and the number of subfiles.                              *)
THEOREM OutputsAnswered == Spec => []OutputsComplete
BY LoopsInvariant, InitAnswers, NextAnswers, EndsAnswered, PTL DEF Spec

-----------------------------------------------------------------------------
(* What a step does to the sketch                                          *)

(* A request that a loop or a chunk touches is one of the trace's.         *)
LEMMA RequestKnown ==
    ASSUME IndexInv,
           \/ \E kind \in {"exec", "query", "throughput", "delete"} : Round(kind)
           \/ (At("forwardOps") \/ At("reverseOps")) /\ todo > 0
    PROVE  request.key \in Keys /\ request.delta \in Deltas
<1>1. index \in 0 .. (Num - 1)
  BY InRange DEF IndexInRange, InLoop, Round, At
<1>2. requests \in Seq(Records) /\ Num \in Nat
  BY LenProperties DEF IndexInv, Typed, Num
<1>3. index + 1 \in 1 .. Len(requests)
  BY <1>1, <1>2 DEF Num
<1>4. request \in Records
  BY <1>2, <1>3, ElementOfSeq DEF request
<1>5. QED BY <1>4, RecordsAssumption DEF RecordsAssumption

(* A query writes its line; the sketch stays as it is.                     *)
Replying    == Round("exec") /\ request.type = "get"
Reply(line) == outputs' = Written(running.file, Append(outputs[running.file], line))

LEMMA SFWords ==
    /\ SF!running = running /\ SF!request = request
    /\ \A kind : SF!In(kind) <=> In(kind)
    /\ \A kind : SF!Round(kind) <=> Round(kind)
    /\ \A p : SF!At(p) <=> At(p)
    /\ \A f, lines : SF!Written(f, lines) = Written(f, lines)
    /\ SF!More <=> More
<1>1. /\ SF!running = running /\ SF!Num = Num
      /\ \A kind : SF!In(kind) <=> In(kind)
  BY DEF SF!In, SF!running, SF!Num, In, running, Num
<1>2. SF!More <=> More
  BY <1>1 DEF SF!More, SF!InFirstPart, SF!Unsigned, More, InFirstPart, Unsigned
<1>3. \A kind : SF!Round(kind) <=> Round(kind)
  BY <1>1, <1>2 DEF SF!Round, SF!InFirstPart, SF!Unsigned, SF!given, Round,
     InFirstPart, Unsigned, given
<1>4. \A p : SF!At(p) <=> At(p)
  BY <1>1 DEF SF!At, At
<1>5. QED BY <1>1, <1>2, <1>3, <1>4 DEF SF!request, SF!Written, request, Written

(* A request changes the sketch by an insertion or a deletion, if at all.  *)
LEMMA SfsketchActs ==
    ASSUME IndexInv, Sfsketch
    PROVE  \/ UNCHANGED SF!sketch
           \/ /\ SF!SketchCall
           \/ /\ \E x \in Keys, delta \in Deltas : SF!Inc(x, delta) \/ SF!Dec(x, delta)
              /\ ~Replying /\ ~In("compose") /\ ~In("slim") /\ ~(In("exec") /\ ~More)
<1>1. SF!Next
  BY DEF Sfsketch
<1>2. ASSUME NEW type, NEW r, SF!Perform(type, r), r.key \in Keys, r.delta \in Deltas
      PROVE  \/ UNCHANGED SF!sketch
             \/ \E x \in Keys, delta \in Deltas : SF!Inc(x, delta) \/ SF!Dec(x, delta)
  BY <1>2 DEF SF!Perform
<1>3. CASE SF!RequestsExec
  <2>1. Round("exec")
    BY <1>3, SFWords DEF SF!RequestsExec
  <2>2. In("exec") /\ More /\ ~In("compose") /\ ~In("slim")
    BY <2>1 DEF Round, In
  <2>3. request.key \in Keys /\ request.delta \in Deltas
    BY <2>1, RequestKnown
  <2>4. CASE request.type = "get"
    BY <1>3, <2>4, SFWords DEF SF!RequestsExec
  <2>5. CASE request.type # "get"
    BY <1>2, <1>3, <2>2, <2>3, <2>5, SFWords DEF SF!RequestsExec, Replying
  <2>6. QED BY <2>4, <2>5
<1>4. CASE SF!RequestsDelete
  <2>1. Round("delete")
    BY <1>4, SFWords DEF SF!RequestsDelete, SF!QuietRound
  <2>2. ~In("exec") /\ ~In("compose") /\ ~In("slim")
    BY <2>1 DEF Round, In
  <2>3. request.key \in Keys /\ request.delta \in Deltas
    BY <2>1, RequestKnown
  <2>4. SF!Dec(request.key, request.delta)
    BY <1>4, SFWords DEF SF!RequestsDelete
  <2>5. QED BY <2>2, <2>3, <2>4 DEF Replying, Round
<1>5. CASE SF!RequestsExecR
  <2>1. CASE SF!ForwardStep \/ SF!ReverseStep
    <3>1. (At("forwardOps") \/ At("reverseOps")) /\ todo > 0
      BY <2>1, SFWords DEF SF!ForwardStep, SF!ReverseStep
    <3>2. ~In("exec") /\ ~In("compose") /\ ~In("slim")
      BY <3>1 DEF At, In
    <3>3. request.key \in Keys /\ request.delta \in Deltas
      BY <3>1, RequestKnown
    <3>4. PICK type : SF!Perform(type, request) \/ UNCHANGED SF!sketch
      BY <1>5, SFWords DEF SF!RequestsExecR
    <3>5. QED BY <1>2, <3>2, <3>3, <3>4 DEF Replying, Round
  <2>2. QED BY <1>5, <2>1 DEF SF!RequestsExecR
<1>6. CASE SF!SketchCall
  BY <1>6
<1>7. QED BY <1>1, <1>3, <1>4, <1>5, <1>6 DEF SF!Next, SF!RequestsInit, SF!RequestsInitR,
     SF!RequestsQuery, SF!TestThrpt

(* Which handler runs is settled by the stage.                             *)
LEMMA SfsketchByKind ==
    ASSUME Sfsketch
    PROVE  /\ In("exec") => SF!RequestsExec \/ (~More /\ UNCHANGED SF!sketch)
           /\ In("compose") \/ In("slim") => SF!SketchCall
<1>1. SUFFICES ASSUME SF!Next, stages # << >>, running.kind \in {"exec", "compose", "slim"}
               PROVE  /\ running.kind = "exec" => SF!RequestsExec \/ (~More /\ UNCHANGED SF!sketch)
                      /\ running.kind \in {"compose", "slim"} => SF!SketchCall
  BY DEF Sfsketch, In
<1>2. ~ (SF!RequestsInit \/ SF!RequestsInitR \/ SF!RequestsQuery \/ SF!TestThrpt
         \/ SF!RequestsDelete)
  BY <1>1, SFWords DEF SF!RequestsInit, SF!RequestsInitR, SF!RequestsQuery, SF!TestThrpt,
     SF!RequestsDelete, SF!Load, SF!LoadQuerys, SF!QuietRound, Round, In
<1>3. ~SF!RequestsExecR
  BY <1>1, SFWords DEF SF!RequestsExecR, SF!ForwardStep, SF!ReverseStep, SF!ForwardQuery,
     SF!ReverseQuery, SF!ForwardChunk, SF!TurnAround, SF!ReverseChunk, SF!ReverseEnds, At, In
<1>4. /\ running.kind # "exec" => ~SF!RequestsExec /\ ~SF!LoopEnds /\ ~SF!TimingFails
      /\ running.kind = "exec" => (SF!LoopEnds \/ SF!TimingFails => ~More)
  BY <1>1, SFWords DEF SF!RequestsExec, SF!LoopEnds, SF!TimingFails, SF!InLoop, Round, In
<1>5. running.kind = "exec" => ~SF!SketchCall
  BY <1>1, SFWords DEF SF!SketchCall, In
<1>6. QED BY <1>1, <1>2, <1>3, <1>4, <1>5 DEF SF!Next

LEMMA SfsketchReplies ==
    ASSUME Sfsketch, Replying
    PROVE  Reply(SF!Line(request.key)) /\ UNCHANGED SF!sketch
<1>1. In("exec") /\ More
  BY DEF Replying, Round
<1>2. SF!RequestsExec
  BY <1>1, SfsketchByKind
<1>3. QED BY <1>2, SFWords DEF SF!RequestsExec, Replying, Reply

-----------------------------------------------------------------------------
(* The array that answers, composed in time                                *)

(* A file of updates holds no query: bench_update_gen.cc:316, 326 and 344  *)
(* write request_init, request_inc and request_dec only.                   *)
UpdatesOnly ==
    \A fs \in FileSets : \A f \in DOMAIN fs : f[1] = "inc-dec_up" =>
        \A i \in DOMAIN fs[f].records : fs[f].records[i].type # "get"

(* A file of queries holds nothing else: bench_query_gen.cc:51 and         *)
(* bench_client4Real.c:240 set q.type = request_get.                       *)
QueriesOnly ==
    \A fs \in FileSets : QueryFile \in DOMAIN fs =>
        \A i \in DOMAIN fs[QueryFile].records : fs[QueryFile].records[i].type = "get"

NoQueries   == \A i \in 1 .. Num : requests[i].type # "get"
OnlyQueries == \A i \in 1 .. Num : requests[i].type = "get"

(* What `requests' holds at stage k of a plan are updates.                 *)
UpdatedBefore(plan, k) ==
    \E j \in 1 .. (k - 1) : /\ plan[j].kind = "load" /\ plan[j].file[1] = "inc-dec_up"
                            /\ NoLoad(plan, j + 1, k - 1)

(* A plan of sfsketch composes the slim array and switches to it before it *)
(* runs the queries.                                                       *)
JustComposed(plan, k) == k > 2 /\ plan[k - 1].kind = "slim" /\ plan[k - 2].kind = "compose"
WellComposed(plan) ==
    \A k \in 1 .. Len(plan) : plan[k].kind = "exec" =>
        UpdatedBefore(plan, k) \/ (AskedBefore(plan, k) /\ JustComposed(plan, k))

LEMMA ComposedJoined ==
    ASSUME NEW p \in Seq(Stages), NEW q \in Seq(Stages), WellComposed(p), WellComposed(q)
    PROVE  p \o q \in Seq(Stages) /\ WellComposed(p \o q)
<1> DEFINE r == p \o q
<1> DEFINE n == Len(p)
<1>1. /\ r \in Seq(Stages) /\ n \in Nat /\ Len(q) \in Nat /\ Len(r) = n + Len(q)
      /\ \A k \in 1 .. n + Len(q) : r[k] = IF k <= n THEN p[k] ELSE q[k - n]
  BY ConcatProperties, LenProperties
<1> HIDE DEF r
<1>2. ASSUME NEW k \in 1 .. Len(r), r[k].kind = "exec"
      PROVE  UpdatedBefore(r, k) \/ (AskedBefore(r, k) /\ JustComposed(r, k))
  <2>1. CASE k <= n
    <3>1. k \in 1 .. n /\ p[k].kind = "exec" /\ \A m \in 1 .. (k - 1) : r[m] = p[m]
      BY <1>1, <1>2, <2>1
    <3>2. \A j \in 1 .. (k - 1) : NoLoad(p, j + 1, k - 1) => NoLoad(r, j + 1, k - 1)
      BY <3>1 DEF NoLoad
    <3>3. UpdatedBefore(p, k) => UpdatedBefore(r, k)
      BY <3>1, <3>2 DEF UpdatedBefore
    <3>4. AskedBefore(p, k) => AskedBefore(r, k)
      BY <3>1, <3>2 DEF AskedBefore
    <3>5. JustComposed(p, k) => JustComposed(r, k)
      <4>1. k > 2 => k - 1 \in 1 .. (k - 1) /\ k - 2 \in 1 .. (k - 1)
        OBVIOUS
      <4>2. QED BY <3>1, <4>1 DEF JustComposed
    <3>6. QED BY <3>1, <3>3, <3>4, <3>5 DEF WellComposed, n
  <2>2. CASE ~ (k <= n)
    <3> DEFINE h == k - n
    <3>1. h \in 1 .. Len(q) /\ k = n + h
      BY <1>1, <2>2
    <3> HIDE DEF h
    <3>2. \A m \in 1 .. h : r[n + m] = q[m]
      <4> TAKE m \in 1 .. h
      <4>1. n + m \in 1 .. n + Len(q) /\ ~ (n + m <= n) /\ (n + m) - n = m
        BY <1>1, <3>1
      <4>2. r[n + m] = IF n + m <= n THEN p[n + m] ELSE q[(n + m) - n]
        BY <1>1, <4>1
      <4>3. QED BY <4>1, <4>2
    <3>3. q[h].kind = "exec"
      BY <1>2, <3>1, <3>2
    <3>4. ASSUME NEW j \in 1 .. (h - 1), NoLoad(q, j + 1, h - 1)
          PROVE  n + j \in 1 .. (k - 1) /\ r[n + j] = q[j] /\ NoLoad(r, (n + j) + 1, k - 1)
      <4>1. n + j \in 1 .. (k - 1) /\ j \in 1 .. h
        BY <1>1, <3>1
      <4>2. ASSUME NEW m \in ((n + j) + 1) .. (k - 1) PROVE r[m].kind # "load"
        <5>1. m - n \in (j + 1) .. (h - 1) /\ m - n \in 1 .. h /\ n + (m - n) = m
          BY <1>1, <3>1
        <5>2. r[m] = q[m - n]
          BY <3>2, <5>1
        <5>3. QED BY <3>4, <5>1, <5>2 DEF NoLoad
      <4>3. QED BY <3>2, <4>1, <4>2 DEF NoLoad
    <3>5. UpdatedBefore(q, h) => UpdatedBefore(r, k)
      BY <3>4 DEF UpdatedBefore
    <3>6. AskedBefore(q, h) => AskedBefore(r, k)
      BY <3>4 DEF AskedBefore
    <3>7. JustComposed(q, h) => JustComposed(r, k)
      <4> SUFFICES ASSUME JustComposed(q, h) PROVE JustComposed(r, k)
        OBVIOUS
      <4>1. h > 2 /\ h - 1 \in 1 .. h /\ h - 2 \in 1 .. h
        BY <3>1 DEF JustComposed
      <4>2. k > 2 /\ n + (h - 1) = k - 1 /\ n + (h - 2) = k - 2
        BY <1>1, <3>1, <4>1
      <4>3. r[k - 1] = q[h - 1] /\ r[k - 2] = q[h - 2]
        BY <3>2, <4>1, <4>2
      <4>4. QED BY <4>2, <4>3 DEF JustComposed
    <3>8. QED BY <3>1, <3>3, <3>5, <3>6, <3>7 DEF WellComposed
  <2>3. QED BY <2>1, <2>2
<1>3. QED BY <1>1, <1>2 DEF WellComposed, r

ComposeFirst == <<Call("compose"), Call("slim")>>

LEMMA AnsweredComposed ==
    ASSUME NEW i \in Nat
    PROVE  Answered(i, ComposeFirst) \in Seq(Stages) /\ WellComposed(Answered(i, ComposeFirst))
<1> DEFINE begin == <<Stage("load", UpdatesFile(i)), Stage("exec", Output(i)), Stage("load", QueryFile)>>
<1> DEFINE end == <<Stage("exec", Output(i))>>
<1> DEFINE r == Answered(i, ComposeFirst)
<1>1. r = (begin \o ComposeFirst) \o end
  BY DEF Answered
<1>2. r \in Seq(Stages)
  BY AnsweredDoes, TimedEnds DEF ComposeFirst
<1>3. /\ Len(r) = 6
      /\ r[1].kind = "load" /\ r[1].file[1] = "inc-dec_up" /\ r[3].kind = "load"
      /\ r[3].file = QueryFile
      /\ r[4].kind = "compose" /\ r[5].kind = "slim"
  <2>1. /\ begin \in Seq(Stages) /\ end \in Seq(Stages) /\ ComposeFirst \in Seq(Stages)
        /\ Len(begin) = 3 /\ Len(end) = 1 /\ Len(ComposeFirst) = 2
    <3>1. /\ Stage("load", UpdatesFile(i)) \in Stages /\ Stage("exec", Output(i)) \in Stages
          /\ Stage("load", QueryFile) \in Stages
          /\ Call("compose") \in Stages /\ Call("slim") \in Stages
      BY StagesAre DEF Kinds, Plain, Stages
    <3>2. QED BY <3>1 DEF ComposeFirst
  <2>2. /\ begin[1].kind = "load" /\ begin[1].file[1] = "inc-dec_up"
        /\ begin[3].kind = "load" /\ begin[3].file = QueryFile
        /\ ComposeFirst[1].kind = "compose" /\ ComposeFirst[2].kind = "slim"
    BY DEF Stage, Call, UpdatesFile, ComposeFirst
  <2> DEFINE front == begin \o ComposeFirst
  <2> HIDE DEF begin, end, r
  <2>3. /\ front \in Seq(Stages) /\ Len(front) = 5
        /\ \A k \in 1 .. 5 : front[k] = IF k <= 3 THEN begin[k] ELSE ComposeFirst[k - 3]
    <3>1. /\ front \in Seq(Stages) /\ Len(front) = Len(begin) + Len(ComposeFirst)
          /\ \A k \in 1 .. Len(begin) + Len(ComposeFirst) :
                front[k] = IF k <= Len(begin) THEN begin[k] ELSE ComposeFirst[k - Len(begin)]
      BY <2>1, ConcatProperties
    <3> HIDE DEF front
    <3>2. Len(begin) + Len(ComposeFirst) = 5
      BY <2>1
    <3>3. QED BY <2>1, <3>1, <3>2
  <2>4. /\ front[1] = begin[1] /\ front[3] = begin[3]
        /\ front[4] = ComposeFirst[1] /\ front[5] = ComposeFirst[2]
    BY <2>3
  <2> HIDE DEF front
  <2>5. /\ Len(r) = 6
        /\ \A k \in 1 .. 6 : r[k] = IF k <= 5 THEN front[k] ELSE end[k - 5]
    <3>1. r = front \o end
      BY <1>1 DEF front
    <3>2. /\ Len(r) = Len(front) + Len(end)
          /\ \A k \in 1 .. Len(front) + Len(end) :
                r[k] = IF k <= Len(front) THEN front[k] ELSE end[k - Len(front)]
      BY <2>1, <2>3, <3>1, ConcatProperties
    <3>3. Len(front) + Len(end) = 6
      BY <2>1, <2>3
    <3>4. QED BY <2>1, <2>3, <3>2, <3>3
  <2>6. r[1] = begin[1] /\ r[3] = begin[3] /\ r[4] = ComposeFirst[1] /\ r[5] = ComposeFirst[2]
    BY <2>4, <2>5
  <2>7. QED BY <2>2, <2>5, <2>6
<1> HIDE DEF r
<1>4. UpdatedBefore(r, 2)
  <2>1. NoLoad(r, 1 + 1, 2 - 1)
    BY DEF NoLoad
  <2>2. 1 \in 1 .. (2 - 1)
    OBVIOUS
  <2>3. QED BY <1>3, <2>1, <2>2 DEF UpdatedBefore
<1>5. AskedBefore(r, 6) /\ JustComposed(r, 6)
  <2>1. \A m \in (3 + 1) .. (6 - 1) : m = 4 \/ m = 5
    OBVIOUS
  <2>2. NoLoad(r, 3 + 1, 6 - 1)
    BY <1>3, <2>1 DEF NoLoad
  <2>3. 3 \in 1 .. (6 - 1)
    OBVIOUS
  <2>4. QED BY <1>3, <2>2, <2>3 DEF AskedBefore, JustComposed
<1>6. \A k \in 1 .. Len(r) : r[k].kind = "exec" => k = 2 \/ k = 6
  <2>1. \A k \in 1 .. 6 : k = 1 \/ k = 2 \/ k = 3 \/ k = 4 \/ k = 5 \/ k = 6
    OBVIOUS
  <2>2. QED BY <1>3, <2>1
<1>7. QED BY <1>2, <1>4, <1>5, <1>6 DEF WellComposed, r

LEMMA SubfilesComposed ==
    ASSUME NEW n \in Nat
    PROVE  Subfiles(n, ComposeFirst) \in Seq(Stages) /\ WellComposed(Subfiles(n, ComposeFirst))
<1>1. PICK h : /\ Joins(h, ComposeFirst, n) /\ Subfiles(n, ComposeFirst) = h[n]
               /\ \A i \in 0 .. n : h[i] \in Seq(Stages)
  <2>1. \A i \in 1 .. n : Answered(i, ComposeFirst) \in Seq(Stages)
    BY AnsweredComposed
  <2>2. QED BY <2>1, SubfilesJoined
<1> DEFINE bad == {i \in 0 .. n : ~WellComposed(h[i])}
<1>2. ASSUME bad # {} PROVE FALSE
  <2>1. bad \in SUBSET Nat
    OBVIOUS
  <2>2. PICK i \in bad : \A m \in bad : i <= m
    BY <1>2, <2>1, MinIsLeast
  <2>3. i \in 0 .. n /\ i \in Nat /\ ~WellComposed(h[i])
    OBVIOUS
  <2>4. h[i] = IF i = 0 THEN << >> ELSE h[i - 1] \o Answered(i, ComposeFirst)
    BY <1>1, <2>3 DEF Joins
  <2>5. CASE i = 0
    <3>1. h[i] = << >> /\ Len(<< >>) = 0
      BY <2>4, <2>5
    <3>2. \A k \in 1 .. 0 : FALSE
      OBVIOUS
    <3>3. QED BY <2>3, <3>1, <3>2 DEF WellComposed
  <2>6. CASE i # 0
    <3>1. i - 1 \in 0 .. n /\ ~ (i <= i - 1)
      BY <2>3, <2>6
    <3>2. WellComposed(h[i - 1])
      BY <2>2, <3>1
    <3>3. h[i] = h[i - 1] \o Answered(i, ComposeFirst) /\ h[i - 1] \in Seq(Stages)
      BY <1>1, <2>4, <2>6, <3>1
    <3>4. QED BY <2>3, <3>2, <3>3, AnsweredComposed, ComposedJoined
  <2>7. QED BY <2>5, <2>6
<1>3. WellComposed(h[n])
  <2>1. n \in 0 .. n
    OBVIOUS
  <2>2. QED BY <1>2, <2>1
<1>4. n \in 0 .. n
  OBVIOUS
<1>5. QED BY <1>1, <1>3, <1>4

LEMMA ForwardsComposed ==
    ASSUME NEW o \in Options, NEW calls \in Seq(TimedCalls)
    PROVE  WellComposed(Forwards(o, ComposeFirst, calls))
<1> DEFINE first == IF o.timed
                    THEN <<Stage("load", UpdatesFile(0)), Stage("exec", Output(0))>> \o calls
                    ELSE Answered(0, ComposeFirst)
<1> DEFINE thrpt == IF o.throughput THEN <<Call("throughput")>> ELSE << >>
<1> DEFINE more  == Subfiles(o.subfiles, ComposeFirst)
<1>1. Forwards(o, ComposeFirst, calls) = (first \o thrpt) \o more
  BY DEF Forwards
<1>2. more \in Seq(Stages) /\ WellComposed(more)
  <2>1. o.subfiles \in Nat
    BY OptionsAssumption DEF Options, OptionsAssumption
  <2>2. QED BY <2>1, SubfilesComposed
<1>3. thrpt \in Seq(Stages) /\ WellComposed(thrpt)
  <2>1. Call("throughput") \in Stages
    BY StagesAre DEF Plain, Stages, Kinds
  <2>2. CASE o.throughput
    <3>1. thrpt = <<Call("throughput")>> /\ thrpt[1].kind = "throughput" /\ Len(thrpt) = 1
      BY <2>2 DEF Call, Stage
    <3>2. \A k \in 1 .. 1 : k = 1
      OBVIOUS
    <3>3. thrpt \in Seq(Stages)
      BY <2>1, <3>1
    <3> HIDE DEF thrpt
    <3>4. QED BY <3>1, <3>2, <3>3 DEF WellComposed
  <2>3. CASE ~o.throughput
    <3>1. thrpt = << >> /\ Len(thrpt) = 0 /\ \A k \in 1 .. 0 : FALSE
      BY <2>3
    <3>2. QED BY <3>1, EmptySeq DEF WellComposed
  <2>4. QED BY <2>2, <2>3
<1>4. first \in Seq(Stages) /\ WellComposed(first)
  <2>1. CASE ~o.timed
    <3>1. first = Answered(0, ComposeFirst)
      BY <2>1
    <3>2. QED BY <3>1, AnsweredComposed
  <2>2. CASE o.timed
    <3> DEFINE two == <<Stage("load", UpdatesFile(0)), Stage("exec", Output(0))>>
    <3>1. first = two \o calls
      BY <2>2
    <3>2. two \in Seq(Stages) /\ calls \in Seq(Stages)
      <4>1. Stage("load", UpdatesFile(0)) \in Stages /\ Stage("exec", Output(0)) \in Stages
        BY StagesAre DEF Kinds
      <4>2. TimedCalls \subseteq Stages
        BY DEF TimedCalls, Stages, Kinds
      <4>3. QED BY <4>1, <4>2, SeqMonotonic
    <3>3. WellComposed(two)
      <4>1. /\ Len(two) = 2 /\ two[1].kind = "load" /\ two[1].file[1] = "inc-dec_up"
        BY DEF Stage, UpdatesFile
      <4> HIDE DEF two
      <4>2. NoLoad(two, 1 + 1, 2 - 1) /\ 1 \in 1 .. (2 - 1)
        BY DEF NoLoad
      <4>3. UpdatedBefore(two, 2)
        BY <4>1, <4>2 DEF UpdatedBefore
      <4>4. \A k \in 1 .. Len(two) : k = 1 \/ k = 2
        BY <4>1
      <4>5. QED BY <4>1, <4>3, <4>4 DEF WellComposed
    <3>4. WellComposed(calls)
      <4>1. \A k \in 1 .. Len(calls) : calls[k] \in TimedCalls
        BY ElementOfSeq
      <4>2. QED BY <4>1 DEF TimedCalls, WellComposed
    <3> HIDE DEF two, first
    <3>5. QED BY <3>1, <3>2, <3>3, <3>4, ComposedJoined
  <2>3. QED BY <2>1, <2>2
<1> HIDE DEF first, thrpt, more
<1>5. QED BY <1>1, <1>2, <1>3, <1>4, ComposedJoined

LEMMA PlanComposed ==
    ASSUME NEW o \in Options, program = "sfsketch"
    PROVE  WellComposed(Plan(program, o))
<1>1. TimedFinal \in Seq(TimedCalls)
  BY TimedEnds
<1>2. Plan(program, o) = WithReverse(o, Forwards(o, ComposeFirst, TimedFinal))
  BY SfsketchMain DEF Plan, SF!IsFinal, ComposeFirst
<1>3. WithReverse(o, Forwards(o, ComposeFirst, TimedFinal))
          \in {Forwards(o, ComposeFirst, TimedFinal), << >>, ReversePlan}
  BY DEF WithReverse, ReversePlan, Trace
<1>4. WellComposed(<< >>)
  <2>1. Len(<< >>) = 0 /\ \A k \in 1 .. 0 : FALSE
    OBVIOUS
  <2>2. QED BY <2>1 DEF WellComposed
<1>5. WellComposed(ReversePlan)
  <2>1. /\ Len(ReversePlan) = 3 /\ ReversePlan[1].kind = "load"
        /\ ReversePlan[2].kind = "load_querys" /\ ReversePlan[3].kind = "reverse"
    BY DEF ReversePlan, Stage, Call
  <2>2. \A k \in 1 .. 3 : k = 1 \/ k = 2 \/ k = 3
    OBVIOUS
  <2>3. QED BY <2>1, <2>2 DEF WellComposed
<1>6. QED BY <1>1, <1>2, <1>3, <1>4, <1>5, ForwardsComposed

(* What the sketch of sfsketch answers while it runs the queries: its slim *)
(* array, composed since the last update.                                  *)
UpdatesAt(k) == UpdatedBefore(stages, k) \/ (NoLoad(stages, 1, k - 1) /\ NoQueries)
QueriesAt(k) == AskedBefore(stages, k) \/ (NoLoad(stages, 1, k - 1) /\ OnlyQueries)
ComposedAt(k) ==
    IF k = 1 THEN querySketch = "LEFT" /\ fresh
    ELSE /\ stages[k - 1].kind = "slim"
         /\ IF k = 2 THEN fresh ELSE stages[k - 2].kind = "compose"
ComposedInv ==
    program = "sfsketch" =>
        \A k \in 1 .. Len(stages) : stages[k].kind = "exec" =>
            UpdatesAt(k) \/ (QueriesAt(k) /\ ComposedAt(k))

LEMMA UpdatesLoaded ==
    ASSUME IndexInv, UpdatesOnly, NEW before \in Nat, before < SizeT,
           NEW f, f[1] = "inc-dec_up", ~CannotLoad(f, before)
    PROVE  \A i \in 1 .. Len(Loaded(f, before)) : Loaded(f, before)[i].type # "get"
<1>1. f \in DOMAIN files /\ files \in FileSets
  BY DEF CannotLoad, IndexInv, Typed
<1>2. \A i \in DOMAIN files[f].records : files[f].records[i].type # "get"
  BY <1>1 DEF UpdatesOnly
<1>3. /\ Len(Loaded(f, before)) = NumberOf(f, before) /\ NumberOf(f, before) \in Nat
      /\ NumberOf(f, before) <= Len(files[f].records) /\ Len(files[f].records) \in Nat
      /\ DOMAIN files[f].records = 1 .. Len(files[f].records)
      /\ \A i \in 1 .. NumberOf(f, before) : Loaded(f, before)[i] = files[f].records[i]
  BY <1>1, Read
<1>4. \A i \in 1 .. NumberOf(f, before) : i \in DOMAIN files[f].records
  BY <1>3
<1>5. QED BY <1>2, <1>3, <1>4

LEMMA QueriesLoaded ==
    ASSUME IndexInv, QueriesOnly, NEW before \in Nat, before < SizeT,
           ~CannotLoad(QueryFile, before)
    PROVE  \A i \in 1 .. Len(Loaded(QueryFile, before)) :
              Loaded(QueryFile, before)[i].type = "get"
<1>1. QueryFile \in DOMAIN files /\ files \in FileSets
  BY DEF CannotLoad, IndexInv, Typed
<1>2. \A i \in DOMAIN files[QueryFile].records : files[QueryFile].records[i].type = "get"
  BY <1>1 DEF QueriesOnly
<1>3. /\ Len(Loaded(QueryFile, before)) = NumberOf(QueryFile, before)
      /\ NumberOf(QueryFile, before) \in Nat
      /\ NumberOf(QueryFile, before) <= Len(files[QueryFile].records)
      /\ Len(files[QueryFile].records) \in Nat
      /\ DOMAIN files[QueryFile].records = 1 .. Len(files[QueryFile].records)
      /\ \A i \in 1 .. NumberOf(QueryFile, before) :
            Loaded(QueryFile, before)[i] = files[QueryFile].records[i]
  BY <1>1, Read
<1>4. \A i \in 1 .. NumberOf(QueryFile, before) : i \in DOMAIN files[QueryFile].records
  BY <1>3
<1>5. QED BY <1>2, <1>3, <1>4

(* The next stage begins.                                                  *)
LEMMA ComposedStays ==
    ASSUME QueriesOnly, UpdatesOnly, IndexInv, ComposedInv, stages # << >>,
           stages' = Tail(stages), program' = program,
           IF running.kind = "load"
           THEN ~CannotLoad(running.file, Num) /\ requests' = Loaded(running.file, Num)
           ELSE requests' = requests,
           program = "sfsketch" =>
               /\ In("slim") => querySketch' = "LEFT" /\ fresh' = fresh
               /\ In("compose") => fresh'
    PROVE  ComposedInv'
<1>1. /\ stages \in Seq(Stages) /\ running = stages[1] /\ Len(stages) \in Nat \ {0}
      /\ Num \in Nat /\ Num < SizeT
  BY Started DEF IndexInv, Typed
<1>2. /\ stages' \in Seq(Stages) /\ Len(stages') = Len(stages) - 1
      /\ \A k \in 1 .. Len(stages') : stages'[k] = stages[k + 1]
  BY <1>1, HeadTailProperties
<1>3. \A k \in 2 .. Len(stages) : k - 1 \in 1 .. Len(stages') /\ stages'[k - 1] = stages[k]
  <2> TAKE k \in 2 .. Len(stages)
  <2>1. k - 1 \in 1 .. Len(stages') /\ (k - 1) + 1 = k
    BY <1>1, <1>2
  <2>2. QED BY <1>2, <2>1
<1>4. SUFFICES ASSUME program = "sfsketch", NEW k \in 1 .. Len(stages'), stages'[k].kind = "exec"
               PROVE  UpdatesAt(k)' \/ (QueriesAt(k)' /\ ComposedAt(k)')
  BY DEF ComposedInv
<1>5. k + 1 \in 1 .. Len(stages) /\ k \in Nat \ {0} /\ stages[k + 1].kind = "exec"
      /\ (k + 1) - 1 = k
  BY <1>1, <1>2, <1>4
<1>6. UpdatesAt(k + 1) \/ (QueriesAt(k + 1) /\ ComposedAt(k + 1))
  BY <1>4, <1>5 DEF ComposedInv
<1>7. ASSUME NEW j \in 1 .. k, NoLoad(stages, j + 1, k)
      PROVE  NoLoad(stages', j, k - 1)
  <2>1. ASSUME NEW m \in j .. (k - 1) PROVE stages'[m].kind # "load"
    <3>1. m \in 1 .. Len(stages') /\ m + 1 \in (j + 1) .. k
      BY <1>1, <1>2, <1>5
    <3>2. QED BY <1>2, <1>7, <3>1 DEF NoLoad
  <2>2. QED BY <2>1 DEF NoLoad
<1>8. ASSUME NoLoad(stages, 1, k)
      PROVE  running.kind # "load" /\ NoLoad(stages', 1, k - 1) /\ requests' = requests
  <2>1. 1 \in 1 .. k
    BY <1>5
  <2>2. running.kind # "load"
    BY <1>1, <1>8, <2>1 DEF NoLoad
  <2>3. NoLoad(stages, 1 + 1, k)
    <3>1. \A m \in (1 + 1) .. k : m \in 1 .. k
      BY <1>5
    <3>2. QED BY <1>8, <3>1 DEF NoLoad
  <2>4. QED BY <1>7, <2>1, <2>2, <2>3
<1>9. ASSUME NEW j \in 1 .. k, stages[j].kind = "load", NoLoad(stages, j + 1, k), j # 1
      PROVE  j - 1 \in 1 .. (k - 1) /\ stages'[j - 1] = stages[j] /\ NoLoad(stages', (j - 1) + 1, k - 1)
  <2>1. j \in 2 .. Len(stages) /\ j - 1 \in 1 .. (k - 1) /\ (j - 1) + 1 = j
    BY <1>1, <1>5, <1>9
  <2>2. stages'[j - 1] = stages[j] /\ NoLoad(stages', j, k - 1)
    BY <1>3, <1>7, <1>9, <2>1
  <2>3. QED BY <2>1, <2>2
<1>10. ASSUME NEW j \in 1 .. k, stages[j].kind = "load", NoLoad(stages, j + 1, k), j = 1
       PROVE  /\ running.kind = "load" /\ ~CannotLoad(stages[j].file, Num)
              /\ requests' = Loaded(stages[j].file, Num) /\ NoLoad(stages', 1, k - 1)
  BY <1>1, <1>7, <1>10
<1>11. ASSUME UpdatesAt(k + 1) PROVE UpdatesAt(k)'
  <2>1. CASE UpdatedBefore(stages, k + 1)
    <3>1. PICK j \in 1 .. k : /\ stages[j].kind = "load" /\ stages[j].file[1] = "inc-dec_up"
                              /\ NoLoad(stages, j + 1, k)
      BY <1>5, <2>1 DEF UpdatedBefore
    <3>2. CASE j # 1
      BY <1>9, <3>1, <3>2 DEF UpdatesAt, UpdatedBefore
    <3>3. CASE j = 1
      <4>1. NoQueries'
        BY <1>1, <1>10, <3>1, <3>3, UpdatesLoaded DEF NoQueries, Num
      <4>2. QED BY <1>10, <3>1, <3>3, <4>1 DEF UpdatesAt
    <3>4. QED BY <3>2, <3>3
  <2>2. CASE NoLoad(stages, 1, (k + 1) - 1) /\ NoQueries
    <3>1. NoLoad(stages, 1, k)
      BY <1>5, <2>2
    <3>2. NoQueries'
      BY <1>8, <2>2, <3>1 DEF NoQueries, Num
    <3>3. QED BY <1>8, <3>1, <3>2 DEF UpdatesAt
  <2>3. QED BY <1>11, <2>1, <2>2 DEF UpdatesAt
<1>12. ASSUME QueriesAt(k + 1) PROVE QueriesAt(k)'
  <2>1. CASE AskedBefore(stages, k + 1)
    <3>1. PICK j \in 1 .. k : /\ stages[j].kind = "load" /\ stages[j].file = QueryFile
                              /\ NoLoad(stages, j + 1, k)
      BY <1>5, <2>1 DEF AskedBefore
    <3>2. CASE j # 1
      BY <1>9, <3>1, <3>2 DEF QueriesAt, AskedBefore, QueryFile
    <3>3. CASE j = 1
      <4>1. OnlyQueries'
        BY <1>1, <1>10, <3>1, <3>3, QueriesLoaded DEF OnlyQueries, Num
      <4>2. QED BY <1>10, <3>1, <3>3, <4>1 DEF QueriesAt
    <3>4. QED BY <3>2, <3>3
  <2>2. CASE NoLoad(stages, 1, (k + 1) - 1) /\ OnlyQueries
    <3>1. NoLoad(stages, 1, k)
      BY <1>5, <2>2
    <3>2. OnlyQueries'
      BY <1>8, <2>2, <3>1 DEF OnlyQueries, Num
    <3>3. QED BY <1>8, <3>1, <3>2 DEF QueriesAt
  <2>3. QED BY <1>12, <2>1, <2>2 DEF QueriesAt
<1>13. ASSUME ComposedAt(k + 1) PROVE ComposedAt(k)'
  <2>1. CASE k = 1
    <3>1. stages[1].kind = "slim" /\ fresh
      BY <1>13, <2>1 DEF ComposedAt
    <3>2. In("slim")
      BY <1>1, <3>1 DEF In
    <3>3. QED BY <1>4, <2>1, <3>1, <3>2 DEF ComposedAt
  <2>2. CASE k = 2
    <3>1. stages[2].kind = "slim" /\ stages[1].kind = "compose"
      BY <1>13, <2>2 DEF ComposedAt
    <3>2. In("compose")
      BY <1>1, <3>1 DEF In
    <3>3. stages'[1] = stages[2]
      BY <1>2, <2>2
    <3>4. QED BY <1>4, <2>2, <3>1, <3>2, <3>3 DEF ComposedAt
  <2>3. CASE k # 1 /\ k # 2
    <3>1. k + 1 # 1 /\ k + 1 # 2 /\ (k + 1) - 1 = k /\ (k + 1) - 2 = k - 1
      BY <1>5, <2>3
    <3>2. stages[k].kind = "slim" /\ stages[k - 1].kind = "compose"
      BY <1>13, <3>1 DEF ComposedAt
    <3>3. k \in 2 .. Len(stages) /\ k - 1 \in 2 .. Len(stages) /\ (k - 1) - 1 = k - 2
      BY <1>1, <1>5, <2>3
    <3>4. stages'[k - 1] = stages[k] /\ stages'[k - 2] = stages[k - 1]
      BY <1>3, <3>3
    <3>5. QED BY <2>3, <3>2, <3>4 DEF ComposedAt
  <2>4. QED BY <2>1, <2>2, <2>3
<1>14. QED BY <1>6, <1>11, <1>12, <1>13

(* A step within a stage.                                                  *)
LEMMA ComposedWaits ==
    ASSUME IndexInv, ComposedInv, UNCHANGED <<stages, requests, program>>, ~In("slim"),
           program = "sfsketch" /\ In("exec") =>
               /\ index < Num
               /\ request.type = "get" => UNCHANGED <<querySketch, fresh>>
    PROVE  ComposedInv'
<1>1. SUFFICES ASSUME program = "sfsketch", NEW k \in 1 .. Len(stages), stages[k].kind = "exec",
                      ComposedAt(k), ~UpdatesAt(k), QueriesAt(k)
               PROVE  ComposedAt(k)'
  BY DEF ComposedInv, UpdatesAt, QueriesAt, NoQueries, OnlyQueries, Num
<1>2. stages # << >>
  <2>1. Len(<< >>) = 0 /\ \A m \in 1 .. 0 : FALSE
    OBVIOUS
  <2>2. QED BY <2>1
<1>3. running = stages[1] /\ Len(stages) \in Nat /\ Num \in Nat /\ index \in Int
  BY <1>2, Started DEF IndexInv, Typed
<1>4. CASE k = 1
  <2>1. In("exec")
    BY <1>1, <1>2, <1>3, <1>4 DEF In
  <2>2. index + 1 \in 1 .. Num
    <3>1. index \in Nat
      BY <2>1 DEF IndexInv, LoopsFit
    <3>2. QED BY <1>1, <1>3, <2>1, <3>1
  <2>3. OnlyQueries
    <3>1. \A j \in 1 .. (1 - 1) : FALSE
      OBVIOUS
    <3>2. QED BY <1>1, <1>4, <3>1 DEF QueriesAt, AskedBefore
  <2>4. request.type = "get"
    BY <2>2, <2>3 DEF OnlyQueries, request
  <2>5. UNCHANGED <<querySketch, fresh>>
    BY <1>1, <2>1, <2>4
  <2>6. QED BY <1>1, <1>4, <2>5 DEF ComposedAt
<1>5. CASE k = 2
  BY <1>1, <1>2, <1>3, <1>5 DEF ComposedAt, In
<1>6. CASE k # 1 /\ k # 2
  BY <1>1, <1>6 DEF ComposedAt
<1>7. QED BY <1>4, <1>5, <1>6

(* Nothing is left of the plan.                                            *)
LEMMA ComposedOver ==
    ASSUME stages' = << >>
    PROVE  ComposedInv'
<1>1. Len(stages') = 0 /\ \A k \in 1 .. 0 : FALSE
  OBVIOUS
<1>2. QED BY <1>1 DEF ComposedInv

-----------------------------------------------------------------------------
(* The sketches of one array                                               *)

Rows == 0 .. (D - 1)
Cols == 0 .. (WR - 1)
Pos(x, d)  == Hash[x][d] % WR
Here(d, c) == {x \in Keys : Pos(x, d) = c}
Tables == [Rows -> [Cols -> 0..MaxC]]

(* Each of them has a counter for every column, in which a key is found.   *)
LEMMA Layout ==
    /\ WR \in Nat \ {0} /\ 0 \in Rows /\ 0 \in Cols
    /\ \A x \in Keys, d \in Rows : Pos(x, d) \in Cols
<1>1. WR \in Nat \ {0}
  BY SketchAssumption DEF SketchAssumption, WR
<1>2. \A h \in Nat : h % WR \in Cols
  BY <1>1 DEF Cols
<1>3. \A x \in Keys, d \in Rows : Hash[x][d] \in Nat
  BY SketchAssumption DEF SketchAssumption, Rows
<1>4. 0 \in Rows /\ 0 \in Cols
  BY <1>1, SketchAssumption DEF SketchAssumption, Rows, Cols
<1>5. QED BY <1>1, <1>2, <1>3, <1>4 DEF Pos

LEMMA SameArrays ==
    /\ CM!Sketch!Rows = Rows /\ CM!Sketch!Cols = Cols
    /\ CU!Sketch!Rows = Rows /\ CU!Sketch!Cols = Cols
    /\ CS!Sketch!Rows = Rows /\ CS!Sketch!Cols = Cols
    /\ \A x, d : /\ CM!Sketch!Pos(x, d) = Pos(x, d)
                 /\ CU!Sketch!Pos(x, d) = Pos(x, d)
                 /\ CS!Sketch!Pos(x, d) = Pos(x, d)
    /\ \A f : CM!Sketch!MinOf(f) = MinOf(f) /\ CU!Sketch!MinOf(f) = MinOf(f)
    /\ \A n, delta : /\ CM!Sketch!SatAdd(n, delta, MaxC) = SatAdd(n, delta, MaxC)
                     /\ CU!Sketch!SatAdd(n, delta, MaxC) = SatAdd(n, delta, MaxC)
                     /\ CM!Sketch!FloorSub(n, delta) = FloorSub(n, delta)
<1>1. /\ CM!Sketch!Rows = Rows /\ CM!Sketch!Cols = Cols
      /\ CU!Sketch!Rows = Rows /\ CU!Sketch!Cols = Cols
      /\ CS!Sketch!Rows = Rows /\ CS!Sketch!Cols = Cols
  BY DEF CM!Sketch!Rows, CM!Sketch!Cols, CU!Sketch!Rows, CU!Sketch!Cols, CS!Sketch!Rows,
     CS!Sketch!Cols, Rows, Cols
<1>2. \A x, d : /\ CM!Sketch!Pos(x, d) = Pos(x, d)
                /\ CU!Sketch!Pos(x, d) = Pos(x, d)
                /\ CS!Sketch!Pos(x, d) = Pos(x, d)
  BY DEF CM!Sketch!Pos, CU!Sketch!Pos, CS!Sketch!Pos, Pos
<1>3. \A f : CM!Sketch!MinOf(f) = MinOf(f) /\ CU!Sketch!MinOf(f) = MinOf(f)
  BY DEF CM!Sketch!MinOf, CU!Sketch!MinOf, MinOf, CM!Sketch!Min, CU!Sketch!Min, Min
<1>4. \A n, delta : /\ CM!Sketch!SatAdd(n, delta, MaxC) = SatAdd(n, delta, MaxC)
                    /\ CU!Sketch!SatAdd(n, delta, MaxC) = SatAdd(n, delta, MaxC)
                    /\ CM!Sketch!FloorSub(n, delta) = FloorSub(n, delta)
  BY DEF CM!Sketch!SatAdd, CU!Sketch!SatAdd, SatAdd, CM!Sketch!FloorSub, FloorSub
<1>5. QED BY <1>1, <1>2, <1>3, <1>4

(* The smallest counter of a key, of counters that all cover a number.     *)
LEMMA SmallestCovers ==
    ASSUME NEW t \in Tables, NEW x \in Keys, NEW n,
           \A d \in Rows : t[d][Pos(x, d)] >= n
    PROVE  MinOf([d \in Rows |-> t[d][Pos(x, d)]]) >= n
<1> DEFINE f == [d \in Rows |-> t[d][Pos(x, d)]]
<1>1. DOMAIN f = Rows /\ Rows # {} /\ \A d \in Rows : f[d] \in Nat /\ f[d] >= n
  BY Layout, SketchAssumption DEF Tables, SketchAssumption
<1> HIDE DEF f
<1>2. PICK d \in Rows : MinOf(f) = f[d]
  BY <1>1, MinOfLeast
<1>3. QED BY <1>1, <1>2 DEF f

-----------------------------------------------------------------------------
(* The Count-Min sketch                                                    *)

(* What its counters hold, as long as no deletion has followed a cut or    *)
(* was not of what is there.                                               *)
CMExact ==
    ~cut => \A d \in Rows, c \in Cols : table[d][c] = Total(count, Here(d, c))
CMLoads ==
    \A d \in Rows, c \in Cols : table[d][c] = Lesser(Total(count, Here(d, c)), MaxC)
CMInv ==
    /\ table \in Tables /\ count \in [Keys -> Int] /\ cut \in BOOLEAN /\ lossy \in BOOLEAN
    /\ ~lossy => count \in [Keys -> Nat] /\ CMExact /\ CMLoads

LEMMA HereFinite ==
    ASSUME NEW n \in [Keys -> Nat], NEW d \in Rows, NEW c \in Cols
    PROVE  /\ IsFiniteSet(Here(d, c)) /\ \A y \in Here(d, c) : n[y] \in Nat
           /\ Total(n, Here(d, c)) \in Nat
           /\ \A x \in Here(d, c) : n[x] <= Total(n, Here(d, c))
<1>1. IsFiniteSet(Here(d, c)) /\ \A y \in Here(d, c) : n[y] \in Nat
  BY SketchAssumption, FS_Subset DEF SketchAssumption, Here
<1>2. QED BY <1>1, TotalCovers

(* Giving delta more to x adds delta to the total of its column.           *)
LEMMA TotalStep ==
    ASSUME NEW n \in [Keys -> Nat], NEW x \in Keys, NEW delta \in Nat, NEW m,
           \A y \in Keys : m[y] = IF y = x THEN n[x] + delta ELSE n[y],
           NEW d \in Rows, NEW c \in Cols
    PROVE  Total(m, Here(d, c)) =
              IF c = Pos(x, d) THEN Total(n, Here(d, c)) + delta ELSE Total(n, Here(d, c))
<1>1. IsFiniteSet(Here(d, c)) /\ \A y \in Here(d, c) : n[y] \in Nat
  BY HereFinite
<1>2. \A y \in Here(d, c) : m[y] = IF y = x THEN n[x] + delta ELSE n[y]
  BY DEF Here
<1>3. Total(m, Here(d, c)) = IF x \in Here(d, c) THEN Total(n, Here(d, c)) + delta ELSE Total(n, Here(d, c))
  BY <1>1, <1>2, TotalMoves
<1>4. x \in Here(d, c) <=> c = Pos(x, d)
  BY DEF Here
<1>5. QED BY <1>3, <1>4

LEMMA CMTable ==
    ASSUME table \in Tables, NEW x \in Keys, NEW delta \in Deltas
    PROVE  /\ delta \in 0 .. MaxC
           /\ CM!Sketch!Insert(x, delta) =>
                /\ table' \in Tables
                /\ \A d \in Rows, c \in Cols :
                      table'[d][c] = IF c = Pos(x, d) THEN Lesser(table[d][c] + delta, MaxC)
                                     ELSE table[d][c]
                /\ cut' = (cut \/ \E d \in Rows : table[d][Pos(x, d)] + delta > MaxC)
           /\ CM!Sketch!Delete_(x, delta) =>
                /\ table' \in Tables
                /\ \A d \in Rows, c \in Cols :
                      table'[d][c] = IF c = Pos(x, d) THEN FloorSub(table[d][c], delta)
                                     ELSE table[d][c]
<1>1. delta \in 0 .. MaxC /\ MaxC \in Nat
  BY SketchAssumption DEF SketchAssumption
<1>2. \A d \in Rows : table[d] \in [Cols -> 0..MaxC] /\ Pos(x, d) \in Cols
  BY Layout DEF Tables
<1>3. \A d \in Rows, c \in Cols :
         /\ SatAdd(table[d][c], delta, MaxC) \in 0..MaxC
         /\ SatAdd(table[d][c], delta, MaxC) = Lesser(table[d][c] + delta, MaxC)
         /\ FloorSub(table[d][c], delta) \in 0..MaxC
  <2> TAKE d \in Rows, c \in Cols
  <2>1. table[d][c] \in 0..MaxC
    BY <1>2
  <2>2. SatAdd(table[d][c], delta, MaxC) \in 0..MaxC
        /\ SatAdd(table[d][c], delta, MaxC) = Lesser(table[d][c] + delta, MaxC)
    BY <1>1, <2>1, SatAddBounds
  <2>3. FloorSub(table[d][c], delta) \in 0..MaxC
    BY <1>1, <2>1 DEF FloorSub
  <2>4. QED BY <2>2, <2>3
<1>4. ASSUME CM!Sketch!Insert(x, delta)
      PROVE  /\ table' \in Tables
             /\ \A d \in Rows, c \in Cols :
                   table'[d][c] = IF c = Pos(x, d) THEN Lesser(table[d][c] + delta, MaxC)
                                  ELSE table[d][c]
             /\ cut' = (cut \/ \E d \in Rows : table[d][Pos(x, d)] + delta > MaxC)
  <2>1. /\ table' = [i \in Rows |-> [table[i] EXCEPT ![Pos(x, i)] = SatAdd(@, delta, MaxC)]]
        /\ cut' = (cut \/ \E d \in Rows : table[d][Pos(x, d)] + delta > MaxC)
    BY <1>4, SameArrays DEF CM!Sketch!Insert
  <2>2. \A d \in Rows : table'[d] \in [Cols -> 0..MaxC]
    BY <1>2, <1>3, <2>1
  <2>3. table' \in Tables
    BY <2>1, <2>2 DEF Tables
  <2>4. QED BY <1>2, <1>3, <2>1, <2>3
<1>5. ASSUME CM!Sketch!Delete_(x, delta)
      PROVE  /\ table' \in Tables
             /\ \A d \in Rows, c \in Cols :
                   table'[d][c] = IF c = Pos(x, d) THEN FloorSub(table[d][c], delta)
                                  ELSE table[d][c]
  <2>0. table' = [i \in CM!Sketch!Rows |->
                     [table[i] EXCEPT ![CM!Sketch!Pos(x, i)] = CM!Sketch!FloorSub(@, delta)]]
    BY <1>5 DEF CM!Sketch!Delete_
  <2>1. table' = [i \in Rows |-> [table[i] EXCEPT ![Pos(x, i)] = FloorSub(@, delta)]]
    BY <2>0, SameArrays
  <2>2. \A d \in Rows : table'[d] \in [Cols -> 0..MaxC]
    BY <1>2, <1>3, <2>1
  <2>3. table' \in Tables
    BY <2>1, <2>2 DEF Tables
  <2>4. QED BY <1>2, <1>3, <2>1, <2>3
<1>6. QED BY <1>1, <1>4, <1>5

LEMMA CMInits == CM!Sketch!Init => CMInv
<1>1. SUFFICES ASSUME CM!Sketch!Init PROVE CMInv
  OBVIOUS
<1>2. /\ table = [i \in Rows |-> [j \in Cols |-> 0]] /\ count = [x \in Keys |-> 0]
      /\ cut = FALSE /\ lossy = FALSE /\ MaxC \in Nat
  BY <1>1, SameArrays, SketchAssumption DEF CM!Sketch!Init, SketchAssumption
<1>3. \A d \in Rows, c \in Cols : Total(count, Here(d, c)) = 0
  <2> TAKE d \in Rows, c \in Cols
  <2>1. \A y \in Here(d, c) : count[y] = 0
    BY <1>2 DEF Here
  <2>2. QED BY <2>1, TotalZero
<1>4. \A d \in Rows, c \in Cols : table[d][c] = 0 /\ Lesser(0, MaxC) = 0
  BY <1>2 DEF Lesser
<1>5. table \in Tables /\ count \in [Keys -> Nat] /\ count \in [Keys -> Int]
  BY <1>2 DEF Tables
<1>6. QED BY <1>2, <1>3, <1>4, <1>5 DEF CMInv, CMExact, CMLoads

LEMMA CMInserts ==
    ASSUME CMInv, NEW x \in Keys, NEW delta \in Deltas, CM!Sketch!Insert(x, delta)
    PROVE  CMInv'
<1>1. /\ delta \in 0 .. MaxC /\ MaxC \in Nat /\ table' \in Tables /\ table \in Tables
      /\ \A d \in Rows, c \in Cols :
            table'[d][c] = IF c = Pos(x, d) THEN Lesser(table[d][c] + delta, MaxC)
                           ELSE table[d][c]
      /\ cut' = (cut \/ \E d \in Rows : table[d][Pos(x, d)] + delta > MaxC)
  BY CMTable, SketchAssumption DEF CMInv, SketchAssumption
<1>2. count' = [count EXCEPT ![x] = @ + delta] /\ lossy' = lossy
  BY DEF CM!Sketch!Insert
<1>3. /\ count' \in [Keys -> Int] /\ cut' \in BOOLEAN /\ lossy' \in BOOLEAN
      /\ count \in [Keys -> Nat] => count' \in [Keys -> Nat]
  BY <1>1, <1>2 DEF CMInv
<1>4. ASSUME ~lossy PROVE CMExact' /\ CMLoads'
  <2>1. count \in [Keys -> Nat] /\ CMExact /\ CMLoads
    BY <1>4 DEF CMInv
  <2>2. \A y \in Keys : count'[y] = IF y = x THEN count[x] + delta ELSE count[y]
    BY <1>2, <2>1
  <2>3. ASSUME NEW d \in Rows, NEW c \in Cols
        PROVE  /\ ~cut' => table'[d][c] = Total(count', Here(d, c))
               /\ table'[d][c] = Lesser(Total(count', Here(d, c)), MaxC)
    <3>1. Total(count', Here(d, c)) =
              IF c = Pos(x, d) THEN Total(count, Here(d, c)) + delta ELSE Total(count, Here(d, c))
      BY <1>1, <2>1, <2>2, TotalStep
    <3>2. Total(count, Here(d, c)) \in Nat
      BY <2>1, HereFinite
    <3>3. /\ table[d][c] = Lesser(Total(count, Here(d, c)), MaxC)
          /\ ~cut => table[d][c] = Total(count, Here(d, c))
      BY <2>1 DEF CMLoads, CMExact
    <3>4. ~cut' => ~cut /\ (c = Pos(x, d) => ~ (table[d][c] + delta > MaxC))
      BY <1>1
    <3>5. table'[d][c] = IF c = Pos(x, d) THEN Lesser(table[d][c] + delta, MaxC) ELSE table[d][c]
      BY <1>1
    <3>6. QED BY <1>1, <3>1, <3>2, <3>3, <3>4, <3>5 DEF Lesser
  <2>4. QED BY <2>3 DEF CMExact, CMLoads, Here, Pos
<1>5. QED BY <1>1, <1>2, <1>3, <1>4 DEF CMInv

LEMMA CMDeletes ==
    ASSUME CMInv, NEW x \in Keys, NEW delta \in Deltas, CM!Sketch!Delete_(x, delta)
    PROVE  CMInv'
<1>1. /\ delta \in 0 .. MaxC /\ MaxC \in Nat /\ table' \in Tables /\ table \in Tables
      /\ \A d \in Rows, c \in Cols :
            table'[d][c] = IF c = Pos(x, d) THEN FloorSub(table[d][c], delta)
                           ELSE table[d][c]
  BY CMTable, SketchAssumption DEF CMInv, SketchAssumption
<1>2. /\ count' = [count EXCEPT ![x] = @ - delta] /\ cut' = cut
      /\ lossy' = (lossy \/ cut \/ count[x] < delta)
  BY DEF CM!Sketch!Delete_
<1>3. count' \in [Keys -> Int] /\ cut' \in BOOLEAN /\ lossy' \in BOOLEAN /\ count[x] \in Int
  <2>1. count \in [Keys -> Int] /\ delta \in Int /\ cut \in BOOLEAN
    BY <1>1 DEF CMInv
  <2>2. count' \in [Keys -> Int] /\ count[x] \in Int
    BY <1>2, <2>1
  <2>3. lossy' \in BOOLEAN
    BY <1>2, Zenon
  <2>4. QED BY <1>2, <2>1, <2>2, <2>3
<1>4. ASSUME ~lossy' PROVE count' \in [Keys -> Nat] /\ CMExact' /\ CMLoads'
  <2>0. ~lossy /\ ~cut /\ ~(count[x] < delta)
    BY <1>2, <1>4
  <2>1. /\ count \in [Keys -> Nat] /\ CMExact /\ CMLoads /\ ~cut /\ ~lossy /\ count[x] >= delta
    BY <1>1, <1>3, <2>0 DEF CMInv
  <2>2. count' \in [Keys -> Nat] /\ \A y \in Keys : count[y] = IF y = x THEN count'[x] + delta ELSE count'[y]
    BY <1>1, <1>2, <2>1
  <2>3. ASSUME NEW d \in Rows, NEW c \in Cols
        PROVE  /\ table'[d][c] = Total(count', Here(d, c))
               /\ table'[d][c] = Lesser(Total(count', Here(d, c)), MaxC)
    <3>1. Total(count, Here(d, c)) =
              IF c = Pos(x, d) THEN Total(count', Here(d, c)) + delta ELSE Total(count', Here(d, c))
      BY <1>1, <2>2, TotalStep
    <3>2. Total(count', Here(d, c)) \in Nat
      BY <2>2, HereFinite
    <3>3. table[d][c] = Total(count, Here(d, c)) /\ table[d][c] \in 0..MaxC
      BY <1>1, <2>1 DEF CMExact, Tables
    <3>4. table'[d][c] = IF c = Pos(x, d) THEN FloorSub(table[d][c], delta) ELSE table[d][c]
      BY <1>1
    <3>5. QED BY <1>1, <3>1, <3>2, <3>3, <3>4 DEF Lesser, FloorSub
  <2>4. QED BY <2>2, <2>3 DEF CMExact, CMLoads, Here, Pos
<1>5. QED BY <1>1, <1>3, <1>4 DEF CMInv

LEMMA CMCovers ==
    ASSUME CMInv, ~lossy, NEW x \in Keys
    PROVE  CM!Sketch!QueryPoint(x) >= Lesser(count[x], MaxC)
<1>1. ASSUME NEW d \in Rows PROVE table[d][Pos(x, d)] >= Lesser(count[x], MaxC)
  <2>1. /\ count \in [Keys -> Nat] /\ Pos(x, d) \in Cols /\ x \in Here(d, Pos(x, d)) /\ MaxC \in Nat
    BY Layout, SketchAssumption DEF CMInv, Here, SketchAssumption
  <2>2. count[x] <= Total(count, Here(d, Pos(x, d))) /\ Total(count, Here(d, Pos(x, d))) \in Nat
    BY <2>1, HereFinite
  <2>3. table[d][Pos(x, d)] = Lesser(Total(count, Here(d, Pos(x, d))), MaxC)
    BY <2>1 DEF CMInv, CMLoads
  <2>4. QED BY <2>1, <2>2, <2>3 DEF Lesser
<1>2. CM!Sketch!QueryPoint(x) = MinOf([d \in Rows |-> table[d][Pos(x, d)]])
  BY SameArrays DEF CM!Sketch!QueryPoint
<1>3. QED BY <1>1, <1>2, SmallestCovers DEF CMInv

-----------------------------------------------------------------------------
(* The conservative-update sketch and the quotient filter                  *)

CUInv ==
    /\ table \in Tables /\ count \in [Keys -> Nat]
    /\ \A x \in Keys, d \in Rows : table[d][Pos(x, d)] >= Lesser(count[x], MaxC)

LEMMA CUInits == CU!Sketch!Init => CUInv
<1>1. SUFFICES ASSUME CU!Sketch!Init PROVE CUInv
  OBVIOUS
<1>2. /\ table = [i \in Rows |-> [j \in Cols |-> 0]] /\ count = [x \in Keys |-> 0] /\ MaxC \in Nat
  BY <1>1, SameArrays, SketchAssumption DEF CU!Sketch!Init, SketchAssumption
<1>3. table \in Tables /\ count \in [Keys -> Nat]
  BY <1>2 DEF Tables
<1>4. \A x \in Keys, d \in Rows : table[d][Pos(x, d)] = 0 /\ Lesser(count[x], MaxC) = 0
  BY <1>2, Layout DEF Lesser
<1>5. QED BY <1>3, <1>4 DEF CUInv

(* The counters of the key are raised to its smallest counter and delta,   *)
(* and no counter is lowered.                                              *)
LEMMA CUInserts ==
    ASSUME CUInv, NEW x \in Keys, NEW delta \in Deltas, CU!Sketch!Insert(x, delta)
    PROVE  CUInv'
<1>1. delta \in 0 .. MaxC /\ MaxC \in Nat /\ table \in Tables /\ count \in [Keys -> Nat]
  BY SketchAssumption DEF SketchAssumption, CUInv
<1> DEFINE raised == [i \in Rows |-> SatAdd(table[i][Pos(x, i)], delta, MaxC)]
<1> DEFINE min == MinOf(raised)
<1>2. \A d \in Rows : table[d] \in [Cols -> 0..MaxC] /\ Pos(x, d) \in Cols
  BY <1>1, Layout DEF Tables
<1>3. ASSUME NEW d \in Rows
      PROVE  /\ raised[d] \in 0..MaxC
             /\ raised[d] = Lesser(table[d][Pos(x, d)] + delta, MaxC)
  <2>1. table[d][Pos(x, d)] \in 0..MaxC /\ raised[d] = SatAdd(table[d][Pos(x, d)], delta, MaxC)
    BY <1>2
  <2>2. QED BY <1>1, <2>1 DEF SatAdd, Lesser
<1>4. /\ table' = [i \in Rows |-> [table[i] EXCEPT ![Pos(x, i)] = IF min > @ THEN min ELSE @]]
      /\ count' = [count EXCEPT ![x] = @ + delta]
  <2>1. CU!Sketch!Auxis(x) = [i \in Rows |-> table[i][Pos(x, i)]]
    BY SameArrays DEF CU!Sketch!Auxis
  <2>2. [i \in CU!Sketch!Rows |-> CU!Sketch!SatAdd(CU!Sketch!Auxis(x)[i], delta, MaxC)] = raised
    BY <2>1, SameArrays
  <2> HIDE DEF raised
  <2>3. QED BY <2>2, SameArrays DEF CU!Sketch!Insert
<1>5. DOMAIN raised = Rows /\ Rows # {}
  BY Layout
<1> HIDE DEF raised
<1>6. PICK e \in Rows : min = raised[e]
  BY <1>1, <1>3, <1>5, MinOfLeast
<1>7. min \in 0..MaxC /\ min >= Lesser(count[x] + delta, MaxC)
  <2>1. table[e][Pos(x, e)] >= Lesser(count[x], MaxC) /\ table[e][Pos(x, e)] \in 0..MaxC
    BY <1>2 DEF CUInv
  <2>2. min = Lesser(table[e][Pos(x, e)] + delta, MaxC) /\ count[x] \in Nat
    BY <1>1, <1>3, <1>6
  <2>3. QED BY <1>1, <2>1, <2>2 DEF Lesser
<1> HIDE DEF min
<1>8. ASSUME NEW d \in Rows, NEW c \in Cols
      PROVE  /\ table'[d][c] \in 0..MaxC /\ table'[d][c] >= table[d][c]
             /\ c = Pos(x, d) => table'[d][c] >= min
  <2>1. table'[d] = [table[d] EXCEPT ![Pos(x, d)] = IF min > @ THEN min ELSE @]
    BY <1>4
  <2>2. table[d][c] \in 0..MaxC
    BY <1>2
  <2>3. table'[d][c] = IF c = Pos(x, d) THEN (IF min > table[d][c] THEN min ELSE table[d][c])
                       ELSE table[d][c]
    BY <1>2, <2>1
  <2>4. QED BY <1>1, <1>7, <2>2, <2>3
<1>9. table' \in Tables
  <2>1. \A d \in Rows : table'[d] = [c \in Cols |-> table'[d][c]]
    BY <1>2, <1>4
  <2>2. \A d \in Rows : table'[d] \in [Cols -> 0..MaxC]
    BY <1>8, <2>1
  <2>3. QED BY <1>4, <2>2 DEF Tables
<1>10. count' \in [Keys -> Nat]
  BY <1>1, <1>4
<1>11. ASSUME NEW y \in Keys, NEW d \in Rows PROVE table'[d][Pos(y, d)] >= Lesser(count'[y], MaxC)
  <2>1. /\ Pos(y, d) \in Cols /\ table[d][Pos(y, d)] \in 0..MaxC
        /\ table[d][Pos(y, d)] >= Lesser(count[y], MaxC) /\ count[y] \in Nat
    BY <1>1, Layout DEF CUInv, Tables
  <2>2. /\ table'[d][Pos(y, d)] \in 0..MaxC /\ table'[d][Pos(y, d)] >= table[d][Pos(y, d)]
        /\ Pos(y, d) = Pos(x, d) => table'[d][Pos(y, d)] >= min
    BY <1>8, <2>1
  <2>3. count'[y] = IF y = x THEN count[x] + delta ELSE count[y]
    BY <1>1, <1>4
  <2>4. CASE y = x
    BY <1>1, <1>7, <2>1, <2>2, <2>3, <2>4 DEF Lesser
  <2>5. CASE y # x
    BY <1>1, <2>1, <2>2, <2>3, <2>5 DEF Lesser
  <2>6. QED BY <2>4, <2>5
<1>12. \A y, d : Pos(y, d)' = Pos(y, d)
  BY DEF Pos
<1>13. QED BY <1>9, <1>10, <1>11, <1>12 DEF CUInv

LEMMA CUCovers ==
    ASSUME CUInv, NEW x \in Keys
    PROVE  CU!Sketch!QueryPoint(x) >= Lesser(count[x], MaxC)
<1>1. CU!Sketch!QueryPoint(x) = MinOf([d \in Rows |-> table[d][Pos(x, d)]])
  BY SameArrays DEF CU!Sketch!QueryPoint, CU!Sketch!Auxis
<1>2. QED BY <1>1, SmallestCovers DEF CUInv

(* Until it refuses an insertion the filter counts at least what its key   *)
(* was given: it takes a deletion for an insertion.                        *)
CQInv ==
    /\ counts \in [{Fingerprint[x] : x \in Keys} -> Nat] /\ count \in [Keys -> Int]
    /\ ~refused => \A x \in Keys : counts[Fingerprint[x]] >= count[x]

LEMMA CQInits == CQF!FilterInit => CQInv
BY DEF CQF!FilterInit, CQInv

LEMMA CQInserts ==
    ASSUME CQInv, NEW r, r.key \in Keys, r.delta \in Deltas, CQF!Perform(r)
    PROVE  CQInv' /\ (refused' \/ ~refused)
<1> DEFINE x == r.key
<1> DEFINE h == Fingerprint[x]
<1> DEFINE H == {Fingerprint[y] : y \in Keys}
<1>1. r.delta \in Nat /\ x \in Keys /\ h \in H /\ \A y \in Keys : Fingerprint[y] \in H
  <2>1. r.delta \in 0 .. MaxC /\ MaxC \in Nat
    BY SketchAssumption DEF SketchAssumption
  <2>2. x \in Keys /\ h \in H /\ \A y \in Keys : Fingerprint[y] \in H
    OBVIOUS
  <2>3. QED BY <2>1, <2>2
<1>2. count' = [count EXCEPT ![x] = IF r.type = "dec" THEN @ - r.delta ELSE @ + r.delta]
  BY DEF CQF!Perform
<1>3. \/ counts' = [counts EXCEPT ![h] = @ + r.delta] /\ refused' = refused
      \/ refused' /\ counts' = counts
  BY DEF CQF!Perform, CQF!GqfInsert
<1>4. counts \in [H -> Nat] /\ count \in [Keys -> Int]
  BY DEF CQInv
<1>5. ~refused => \A y \in Keys : counts[Fingerprint[y]] >= count[y]
  BY DEF CQInv
<1> HIDE DEF h, H, x
<1>6. count' \in [Keys -> Int] /\ \A y \in Keys : y # x => count'[y] = count[y]
  BY <1>1, <1>2, <1>4
<1>7. count'[x] <= count[x] + r.delta /\ count[x] \in Int
  BY <1>1, <1>2, <1>4
<1>8. counts' \in [H -> Nat] /\ \A g \in H : counts'[g] >= counts[g] /\ counts[g] \in Nat
  BY <1>1, <1>3, <1>4
<1>9. ASSUME ~refused', NEW y \in Keys PROVE counts'[Fingerprint[y]] >= count'[y]
  <2>1. counts' = [counts EXCEPT ![h] = @ + r.delta] /\ counts[Fingerprint[y]] >= count[y]
    BY <1>3, <1>5, <1>9
  <2>2. Fingerprint[y] \in H /\ counts[Fingerprint[y]] \in Nat /\ count[y] \in Int
    BY <1>1, <1>4
  <2>3. CASE y = x
    <3>1. Fingerprint[y] = h /\ counts'[h] = counts[h] + r.delta
      BY <1>1, <1>4, <2>1, <2>3 DEF h
    <3>2. QED BY <1>1, <1>7, <1>6, <2>1, <2>2, <2>3, <3>1
  <2>4. CASE y # x
    <3>1. counts'[Fingerprint[y]] >= counts[Fingerprint[y]] /\ counts'[Fingerprint[y]] \in Nat
      BY <1>8, <2>2
    <3>2. QED BY <1>6, <2>1, <2>2, <2>4, <3>1
  <2>5. QED BY <2>3, <2>4
<1>10. refused' \/ ~refused
  BY <1>3
<1>11. CQInv'
  BY <1>6, <1>8, <1>9 DEF CQInv, H
<1>12. QED BY <1>10, <1>11

LEMMA CQCovers ==
    ASSUME CQInv, ~refused, NEW x \in Keys
    PROVE  counts[Fingerprint[x]] >= Lesser(count[x], MaxC)
<1>1. /\ counts[Fingerprint[x]] \in Nat /\ count[x] \in Int /\ MaxC \in Nat
      /\ counts[Fingerprint[x]] >= count[x]
  BY SketchAssumption DEF CQInv, SketchAssumption
<1>2. QED BY <1>1 DEF Lesser

-----------------------------------------------------------------------------
(* What a step does to each sketch                                         *)

LEMMA CMWords ==
    /\ CM!running = running /\ CM!request = request
    /\ \A kind : CM!Round(kind) <=> Round(kind)
    /\ \A p : CM!At(p) <=> At(p)
    /\ \A f, lines : CM!Written(f, lines) = Written(f, lines)
<1>1. /\ CM!running = running /\ CM!Num = Num
      /\ \A kind : CM!In(kind) <=> In(kind)
  BY DEF CM!In, CM!running, CM!Num, In, running, Num
<1>2. CM!More <=> More
  BY <1>1 DEF CM!More, CM!InFirstPart, CM!Unsigned, More, InFirstPart, Unsigned
<1>3. \A kind : CM!Round(kind) <=> Round(kind)
  BY <1>1, <1>2 DEF CM!Round, CM!InFirstPart, CM!Unsigned, CM!given, Round,
     InFirstPart, Unsigned, given
<1>4. \A p : CM!At(p) <=> At(p)
  BY <1>1 DEF CM!At, At
<1>5. QED BY <1>1, <1>3, <1>4 DEF CM!request, CM!Written, request, Written

LEMMA CmsketchActs ==
    ASSUME IndexInv, Cmsketch
    PROVE  /\ \/ UNCHANGED CM!sketch
              \/ \E x \in Keys, delta \in Deltas : CM!Sketch!Insert(x, delta) \/ CM!Sketch!Delete_(x, delta)
           /\ Replying => Reply(CM!Line(request.key)) /\ UNCHANGED CM!sketch
<1>1. CM!Next
  BY DEF Cmsketch
<1>2. ASSUME NEW type, NEW r, CM!Perform(type, r), r.key \in Keys, r.delta \in Deltas
      PROVE  \/ UNCHANGED CM!sketch
             \/ \E x \in Keys, delta \in Deltas : CM!Sketch!Insert(x, delta) \/ CM!Sketch!Delete_(x, delta)
  BY <1>2 DEF CM!Perform
<1>3. CASE CM!RequestsExec
  <2>1. Round("exec")
    BY <1>3, CMWords DEF CM!RequestsExec
  <2>2. request.key \in Keys /\ request.delta \in Deltas
    BY <2>1, RequestKnown
  <2>3. CASE request.type = "get"
    BY <1>3, <2>3, CMWords DEF CM!RequestsExec, Reply
  <2>4. CASE request.type # "get"
    BY <1>2, <1>3, <2>2, <2>4, CMWords DEF CM!RequestsExec, Replying
  <2>5. QED BY <2>3, <2>4
<1>4. CASE CM!RequestsDelete
  <2>1. Round("delete")
    BY <1>4, CMWords DEF CM!RequestsDelete, CM!QuietRound
  <2>2. ~In("exec")
    BY <2>1 DEF Round, In
  <2>3. request.key \in Keys /\ request.delta \in Deltas
    BY <2>1, RequestKnown
  <2>4. CM!Sketch!Delete_(request.key, request.delta)
    BY <1>4, CMWords DEF CM!RequestsDelete
  <2>5. QED BY <2>2, <2>3, <2>4 DEF Replying, Round
<1>5. CASE CM!RequestsExecR
  <2>1. In("reverse") /\ ~Replying
    BY <1>5, CMWords DEF CM!RequestsExecR, CM!ForwardStep, CM!ReverseStep, CM!ForwardQuery,
       CM!ReverseQuery, CM!ForwardChunk, CM!TurnAround, CM!ReverseChunk, CM!ReverseEnds,
       At, In, Replying, Round
  <2>2. CASE CM!ForwardStep \/ CM!ReverseStep
    <3>1. (At("forwardOps") \/ At("reverseOps")) /\ todo > 0
      BY <2>2, CMWords DEF CM!ForwardStep, CM!ReverseStep
    <3>2. request.key \in Keys /\ request.delta \in Deltas
      BY <3>1, RequestKnown
    <3>3. PICK type : CM!Perform(type, request) \/ UNCHANGED CM!sketch
      BY <1>5, CMWords DEF CM!RequestsExecR
    <3>4. QED BY <1>2, <2>1, <3>2, <3>3
  <2>3. QED BY <1>5, <2>1, <2>2 DEF CM!RequestsExecR
<1>6. CASE CM!RequestsInit \/ CM!RequestsInitR \/ CM!RequestsQuery \/ CM!TestThrpt
           \/ ((CM!LoopEnds \/ CM!TimingFails) /\ UNCHANGED CM!sketch)
  <2>1. UNCHANGED CM!sketch
    BY <1>6 DEF CM!RequestsInit, CM!RequestsInitR, CM!RequestsQuery, CM!TestThrpt
  <2>2. ~Replying
    <3>1. Replying => In("exec") /\ More
      BY DEF Replying, Round
    <3>2. /\ CM!RequestsInit \/ CM!RequestsInitR \/ CM!RequestsQuery \/ CM!TestThrpt => ~In("exec")
          /\ CM!LoopEnds \/ CM!TimingFails => ~In("exec") \/ ~More
      <4>1. /\ \A kind : CM!In(kind) <=> In(kind)
            /\ CM!More <=> More
        BY DEF CM!In, CM!running, In, running, CM!More, CM!InFirstPart, CM!Unsigned, CM!Num, More,
           InFirstPart, Unsigned, Num
      <4>2. QED BY <4>1 DEF CM!RequestsInit, CM!RequestsInitR, CM!RequestsQuery,
                CM!TestThrpt, CM!Load, CM!LoadQuerys, CM!QuietRound, CM!Round, CM!LoopEnds,
                CM!TimingFails, In
    <3>3. QED BY <1>6, <3>1, <3>2
  <2>3. QED BY <2>1, <2>2
<1>7. QED BY <1>1, <1>3, <1>4, <1>5, <1>6 DEF CM!Next

LEMMA CUWords ==
    /\ CU!running = running /\ CU!request = request
    /\ \A kind : CU!In(kind) <=> In(kind)
    /\ CU!More <=> More
    /\ \A kind : CU!Round(kind) <=> Round(kind)
    /\ \A f, lines : CU!Written(f, lines) = Written(f, lines)
<1>1. /\ CU!running = running /\ CU!Num = Num
      /\ \A kind : CU!In(kind) <=> In(kind)
  BY DEF CU!In, CU!running, CU!Num, In, running, Num
<1>2. CU!More <=> More
  BY <1>1 DEF CU!More, CU!InFirstPart, CU!Unsigned, More, InFirstPart, Unsigned
<1>3. \A kind : CU!Round(kind) <=> Round(kind)
  BY <1>1, <1>2 DEF CU!Round, CU!InFirstPart, CU!Unsigned, CU!given, Round,
     InFirstPart, Unsigned, given
<1>4. QED BY <1>1, <1>2, <1>3 DEF CU!request, CU!Written, request, Written

LEMMA CmcusketchActs ==
    ASSUME IndexInv, Cmcusketch
    PROVE  /\ \/ UNCHANGED CU!sketch
              \/ \E x \in Keys, delta \in Deltas : CU!Sketch!Insert(x, delta)
           /\ Replying => Reply(CU!Line(request.key)) /\ UNCHANGED CU!sketch
<1>1. CU!Next
  BY DEF Cmcusketch
<1>2. CASE CU!RequestsExec
  <2>1. Round("exec")
    BY <1>2, CUWords DEF CU!RequestsExec
  <2>2. request.key \in Keys /\ request.delta \in Deltas
    BY <2>1, RequestKnown
  <2>3. CASE request.type = "get"
    BY <1>2, <2>3, CUWords DEF CU!RequestsExec, Reply
  <2>4. CASE request.type # "get"
    BY <1>2, <2>2, <2>4, CUWords DEF CU!RequestsExec, CU!Perform, Replying
  <2>5. QED BY <2>3, <2>4
<1>3. CASE CU!RequestsInit \/ CU!RequestsQuery \/ CU!TestThrpt
           \/ ((CU!LoopEnds \/ CU!TimingFails) /\ UNCHANGED CU!sketch)
  <2>1. UNCHANGED CU!sketch
    BY <1>3 DEF CU!RequestsInit, CU!RequestsQuery, CU!TestThrpt
  <2>2. Replying => In("exec") /\ More
    BY DEF Replying, Round
  <2>3. /\ CU!RequestsInit \/ CU!RequestsQuery \/ CU!TestThrpt => ~In("exec")
        /\ CU!LoopEnds \/ CU!TimingFails => ~In("exec") \/ ~More
    BY CUWords DEF CU!RequestsInit, CU!RequestsQuery, CU!TestThrpt, CU!Load,
       CU!QuietRound, CU!LoopEnds, CU!TimingFails, In, Round
  <2>4. QED BY <1>3, <2>1, <2>2, <2>3
<1>4. QED BY <1>1, <1>2, <1>3 DEF CU!Next

LEMMA CQFWords ==
    /\ CQF!running = running /\ CQF!request = request
    /\ \A kind : CQF!In(kind) <=> In(kind)
    /\ CQF!More <=> More
    /\ \A kind : CQF!Round(kind) <=> Round(kind)
    /\ \A f, lines : CQF!Written(f, lines) = Written(f, lines)
<1>1. /\ CQF!running = running /\ CQF!Num = Num
      /\ \A kind : CQF!In(kind) <=> In(kind)
  BY DEF CQF!In, CQF!running, CQF!Num, In, running, Num
<1>2. CQF!More <=> More
  BY <1>1 DEF CQF!More, CQF!InFirstPart, CQF!Unsigned, More, InFirstPart, Unsigned
<1>3. \A kind : CQF!Round(kind) <=> Round(kind)
  BY <1>1, <1>2 DEF CQF!Round, CQF!InFirstPart, CQF!Unsigned, CQF!given, Round,
     InFirstPart, Unsigned, given
<1>4. QED BY <1>1, <1>2, <1>3 DEF CQF!request, CQF!Written, request, Written

LEMMA CqfilterActs ==
    ASSUME IndexInv, Cqfilter
    PROVE  /\ \/ UNCHANGED CQF!sketch
              \/ request.key \in Keys /\ request.delta \in Deltas /\ CQF!Perform(request)
           /\ Replying => Reply(CQF!Line(request.key)) /\ UNCHANGED CQF!sketch
<1>1. CQF!Next
  BY DEF Cqfilter
<1>2. CASE CQF!RequestsExec
  <2>1. Round("exec")
    BY <1>2, CQFWords DEF CQF!RequestsExec
  <2>2. request.key \in Keys /\ request.delta \in Deltas
    BY <2>1, RequestKnown
  <2>3. CASE request.type = "get"
    BY <1>2, <2>3, CQFWords DEF CQF!RequestsExec, Reply
  <2>4. CASE request.type # "get"
    BY <1>2, <2>2, <2>4, CQFWords DEF CQF!RequestsExec, Replying
  <2>5. QED BY <2>3, <2>4
<1>3. CASE CQF!RequestsInit \/ CQF!RequestsQuery \/ CQF!TestThrpt
           \/ ((CQF!LoopEnds \/ CQF!TimingFails) /\ UNCHANGED CQF!sketch)
  <2>1. UNCHANGED CQF!sketch
    BY <1>3 DEF CQF!RequestsInit, CQF!RequestsQuery, CQF!TestThrpt
  <2>2. Replying => In("exec") /\ More
    BY DEF Replying, Round
  <2>3. /\ CQF!RequestsInit \/ CQF!RequestsQuery \/ CQF!TestThrpt => ~In("exec")
        /\ CQF!LoopEnds \/ CQF!TimingFails => ~In("exec") \/ ~More
    BY CQFWords DEF CQF!RequestsInit, CQF!RequestsQuery, CQF!TestThrpt, CQF!Load,
       CQF!QuietRound, CQF!LoopEnds, CQF!TimingFails, In, Round
  <2>4. QED BY <1>3, <2>1, <2>2, <2>3
<1>4. QED BY <1>1, <1>2, <1>3 DEF CQF!Next

-----------------------------------------------------------------------------
(* The queries of a reverse run                                            *)

LEMMA SameQueries ==
    \A rs : /\ SF!Queries(rs) = Queries(rs) /\ CM!Queries(rs) = Queries(rs)
            /\ CS!Queries(rs) = Queries(rs)
BY DEF SF!Queries, CM!Queries, CS!Queries, Queries

QuerysKnown == querys \in Seq(Records)

LEMMA QuerysKept ==
    ASSUME IndexInv, QuerysKnown, ControlNext
    PROVE  QuerysKnown'
<1>1. CASE LoadQuerys /\ ~Exit
  <2>1. /\ querys' = Loaded(running.file, 0) /\ ~CannotLoad(running.file, 0)
        /\ files \in FileSets /\ SizeT \in Nat \ {0}
    BY <1>1, OptionsAssumption DEF LoadQuerys, IndexInv, Typed, OptionsAssumption
  <2>2. running.file \in DOMAIN files
    BY <2>1 DEF CannotLoad
  <2>3. QED BY <2>1, <2>2, Read DEF QuerysKnown
<1>2. CASE ~ (LoadQuerys /\ ~Exit)
  <2>1. querys' = querys
    BY <1>2 DEF ControlNext, ControlStep, LoopRound, ExecRound, QuietRound, Round, Calls,
       FileWritten, Load, LoadQuerys, LoopEnds, TimingFails, ForwardChunk, TurnAround,
       ReverseChunk, ReverseEnds, ForwardStep, ReverseStep, ForwardQuery, ReverseQuery,
       ReverseKeeps, Exit
  <2>2. QED BY <2>1 DEF QuerysKnown
<1>3. QED BY <1>1, <1>2

(* Which lines a file of a reverse run is given.                           *)
LEMMA SfsketchFiles ==
    ASSUME Sfsketch, FileWritten
    PROVE  \E f : outputs' = Written(f, SF!QueryFqs) /\ UNCHANGED SF!sketch
<1>1. SF!Next /\ In("reverse") /\ phase \in {"forwardOps", "reverseOps"} /\ todo = 0
  BY DEF Sfsketch, FileWritten, ForwardQuery, ReverseQuery, At
<1>2. /\ ~LoadQuerys /\ ~Load /\ ~LoopEnds /\ ~TimingFails
      /\ \A kind \in {"exec", "query", "throughput", "delete"} : ~Round(kind)
      /\ ~ForwardStep /\ ~ReverseStep /\ ~ForwardChunk /\ ~TurnAround /\ ~ReverseChunk /\ ~ReverseEnds
  BY <1>1 DEF LoadQuerys, Load, LoopEnds, TimingFails, InLoop, Round, ForwardStep, ReverseStep,
     ForwardChunk, TurnAround, ReverseChunk, ReverseEnds, At, In
<1>3. ~ (SF!RequestsInit \/ SF!RequestsInitR \/ SF!RequestsExec \/ SF!RequestsQuery \/ SF!TestThrpt
         \/ SF!RequestsDelete \/ SF!LoopEnds \/ SF!TimingFails)
  BY <1>2, SFControl DEF SF!RequestsInit, SF!RequestsInitR, SF!RequestsExec, SF!RequestsQuery,
     SF!TestThrpt, SF!RequestsDelete, SF!QuietRound
<1>4. ~SF!SketchCall
  BY <1>1, SFControl DEF SF!SketchCall, In
<1>5. (ForwardQuery(SF!QueryFqs) \/ ReverseQuery(SF!QueryFqs)) /\ UNCHANGED SF!sketch
  BY <1>1, <1>2, <1>3, <1>4, SFControl DEF SF!Next, SF!RequestsExecR
<1>6. QED BY <1>5 DEF ForwardQuery, ReverseQuery

LEMMA CmsketchFiles ==
    ASSUME Cmsketch, FileWritten
    PROVE  \E f : outputs' = Written(f, CM!QueryFqs) /\ UNCHANGED CM!sketch
<1>1. CM!Next /\ In("reverse") /\ phase \in {"forwardOps", "reverseOps"} /\ todo = 0
  BY DEF Cmsketch, FileWritten, ForwardQuery, ReverseQuery, At
<1>2. /\ ~LoadQuerys /\ ~Load /\ ~LoopEnds /\ ~TimingFails
      /\ \A kind \in {"exec", "query", "throughput", "delete"} : ~Round(kind)
      /\ ~ForwardStep /\ ~ReverseStep /\ ~ForwardChunk /\ ~TurnAround /\ ~ReverseChunk /\ ~ReverseEnds
  BY <1>1 DEF LoadQuerys, Load, LoopEnds, TimingFails, InLoop, Round, ForwardStep, ReverseStep,
     ForwardChunk, TurnAround, ReverseChunk, ReverseEnds, At, In
<1>3. ~ (CM!RequestsInit \/ CM!RequestsInitR \/ CM!RequestsExec \/ CM!RequestsQuery \/ CM!TestThrpt
         \/ CM!RequestsDelete \/ CM!LoopEnds \/ CM!TimingFails)
  BY <1>2, CMControl DEF CM!RequestsInit, CM!RequestsInitR, CM!RequestsExec, CM!RequestsQuery,
     CM!TestThrpt, CM!RequestsDelete, CM!QuietRound
<1>4. (ForwardQuery(CM!QueryFqs) \/ ReverseQuery(CM!QueryFqs)) /\ UNCHANGED CM!sketch
  BY <1>1, <1>2, <1>3, CMControl DEF CM!Next, CM!RequestsExecR
<1>5. QED BY <1>4 DEF ForwardQuery, ReverseQuery

-----------------------------------------------------------------------------
(* What the output files hold                                              *)

OneSided ==
    program \notin {"csketch", "cmlsketch"} /\ ~NeverComposes /\ ~lossy /\ ~refused
Covers(l)   == l.value >= (IF l.count < MaxC THEN l.count ELSE MaxC)
AllCover(lines) == \A i \in DOMAIN lines : Covers(lines[i])
AnswerFiles == DOMAIN outputs \intersect Files     \* those of requests_exec()

OutsInv ==
    /\ \A f \in AnswerFiles : outputs[f] \in Seq(Range(outputs[f]))
    /\ In("exec") => running.file \in DOMAIN outputs
    /\ OneSided => \A f \in DOMAIN outputs : AllCover(outputs[f])

(* Outputs that stay, but for one file that is emptied, grows by a line    *)
(* that covers, or is written at once by a reverse run.                    *)
LEMMA OutsStay ==
    ASSUME OutsInv, OneSided' => OneSided, outputs' = outputs, UNCHANGED stages
    PROVE  OutsInv'
BY DEF OutsInv, AnswerFiles, In, running, AllCover, Covers

LEMMA OutsGrow ==
    ASSUME IndexInv, OutsInv, OneSided' => OneSided, UNCHANGED stages, In("exec"),
           NEW line, Reply(line), OneSided => Covers(line)
    PROVE  OutsInv'
<1> DEFINE f == running.file
<1> DEFINE old == outputs[f]
<1> DEFINE new == Append(old, line)
<1>1. /\ f \in DOMAIN outputs' /\ outputs'[f] = new /\ f \in DOMAIN outputs
      /\ DOMAIN outputs' = DOMAIN outputs
      /\ \A g \in DOMAIN outputs : g # f => outputs'[g] = outputs[g]
  BY DEF OutsInv, Reply, Written
<1>2. In("exec")' => running'.file \in DOMAIN outputs'
  BY <1>1 DEF OutsInv, In, running
<1>3. AnswerFiles' = AnswerFiles /\ f \in AnswerFiles
  <2>1. running \in Stages
    BY Started DEF In
  <2>2. QED BY <1>1, <2>1 DEF AnswerFiles, Stages
<1>4. /\ new \in Seq(Range(new))
      /\ OneSided => AllCover(new)
  <2>1. /\ old \in Seq(Range(old))
        /\ OneSided => AllCover(old)
    BY <1>1, <1>3 DEF OutsInv
  <2> HIDE DEF old
  <2> DEFINE S == Range(old) \cup {line}
  <2>2. old \in Seq(S) /\ line \in S
    BY <2>1, SeqMonotonic
  <2> HIDE DEF S
  <2>3. /\ new \in Seq(S) /\ Len(new) = Len(old) + 1 /\ Len(old) \in Nat
        /\ DOMAIN old = 1 .. Len(old) /\ DOMAIN new = 1 .. Len(new)
        /\ \A i \in 1 .. Len(old) : new[i] = old[i]
        /\ new[Len(old) + 1] = line
    BY <2>2, AppendProperties, LenProperties
  <2> HIDE DEF new
  <2>4. new \in Seq(Range(new))
    BY <2>3, SeqOfRange
  <2>5. \A i \in DOMAIN new : i \in DOMAIN old \/ i = Len(old) + 1
    BY <2>3
  <2>6. QED BY <2>1, <2>3, <2>4, <2>5 DEF AllCover
<1>5. ASSUME NEW g \in DOMAIN outputs
      PROVE  /\ g \in AnswerFiles => outputs'[g] \in Seq(Range(outputs'[g]))
             /\ OneSided => AllCover(outputs'[g])
  <2>1. CASE g = f
    BY <1>1, <1>4, <2>1
  <2>2. CASE g # f
    BY <1>1, <2>2 DEF OutsInv
  <2>3. QED BY <2>1, <2>2
<1> HIDE DEF f
<1>6. QED BY <1>1, <1>2, <1>3, <1>5 DEF OutsInv, AnswerFiles, AllCover, Covers

LEMMA OutsOpen ==
    ASSUME OutsInv, OneSided' => OneSided, NextStage
    PROVE  OutsInv'
<1>1. stages' = Tail(stages) /\ outputs' = Opened(Tail(stages))
  BY DEF NextStage, Advance
<1>2. CASE stages' # << >> /\ Head(stages').kind = "exec"
  <2> DEFINE f == Head(stages').file
  <2>1. outputs' = Written(f, << >>)
    BY <1>1, <1>2 DEF Opened
  <2>2. /\ f \in DOMAIN outputs' /\ outputs'[f] = << >>
        /\ \A g \in DOMAIN outputs' : g # f => g \in DOMAIN outputs /\ outputs'[g] = outputs[g]
    BY <2>1 DEF Written
  <2>3. running'.file = f
    BY DEF running
  <2>4. << >> \in Seq(Range(<< >>)) /\ DOMAIN << >> = {}
    BY EmptySeq
  <2>5. ASSUME NEW g \in DOMAIN outputs'
        PROVE  /\ g \in Files => outputs'[g] \in Seq(Range(outputs'[g]))
               /\ OneSided' => AllCover(outputs'[g])
    <3>1. CASE g = f
      BY <2>2, <2>4, <3>1 DEF AllCover
    <3>2. CASE g # f
      BY <2>2, <3>2 DEF OutsInv, AnswerFiles
    <3>3. QED BY <3>1, <3>2
  <2> HIDE DEF f
  <2>6. QED BY <2>2, <2>3, <2>5 DEF OutsInv, AnswerFiles, AllCover, Covers
<1>3. CASE ~ (stages' # << >> /\ Head(stages').kind = "exec")
  <2>1. outputs' = outputs /\ ~In("exec")'
    BY <1>1, <1>3 DEF Opened, In, running
  <2>2. QED BY <2>1 DEF OutsInv, AnswerFiles, AllCover, Covers
<1>4. QED BY <1>2, <1>3

LEMMA OutsReverse ==
    ASSUME OutsInv, OneSided' => OneSided, FileWritten,
           NEW f, NEW lines, outputs' = Written(f, lines), OneSided => AllCover(lines)
    PROVE  OutsInv'
<1>1. ~In("exec")'
  <2>1. In("reverse") /\ stages' = stages
    BY DEF FileWritten, ForwardQuery, ReverseQuery, At
  <2>2. QED BY <2>1 DEF In, running
<1>2. PICK d \in {"forward", "reverse"} : \E k, answers : outputs' = Written(<<d, k>>, answers)
  BY DEF FileWritten, ForwardQuery, ReverseQuery
<1>3. AnswerFiles' \subseteq AnswerFiles /\ \A g \in AnswerFiles : outputs'[g] = outputs[g]
  <2>0. PICK k, answers : outputs' = Written(<<d, k>>, answers)
    BY <1>2
  <2>1. <<d, k>> \notin Files
    BY DEF Files
  <2>2. \A g \in AnswerFiles : g # <<d, k>>
    BY <2>1 DEF AnswerFiles
  <2>3. QED BY <2>0, <2>1, <2>2 DEF AnswerFiles, Written
<1>4. ASSUME OneSided', NEW g \in DOMAIN outputs' PROVE AllCover(outputs'[g])
  <2>1. IF g = f THEN outputs'[g] = lines ELSE g \in DOMAIN outputs /\ outputs'[g] = outputs[g]
    BY DEF Written
  <2>2. QED BY <1>4, <2>1 DEF OutsInv
<1>5. QED BY <1>1, <1>3, <1>4 DEF OutsInv, AllCover, Covers

LEMMA ControlOuts ==
    ASSUME IndexInv, OutsInv, ControlNext, OneSided' => OneSided,
           Replying => \E line : Reply(line) /\ (OneSided => Covers(line)),
           FileWritten => \E f, lines : outputs' = Written(f, lines) /\ (OneSided => AllCover(lines))
    PROVE  OutsInv'
<1>1. CASE Load \/ LoadQuerys \/ TimingFails
  <2>1. CASE Exit
    <3>1. stages' = << >> /\ outputs' = outputs
      BY <2>1 DEF Exit
    <3>2. QED BY <3>1 DEF OutsInv, AnswerFiles, In, AllCover, Covers
  <2>2. QED BY <1>1, <2>1, OutsOpen DEF Load, LoadQuerys, TimingFails
<1>2. CASE LoopEnds \/ Calls
  BY <1>2, OutsOpen DEF LoopEnds, Calls
<1>3. CASE ForwardChunk \/ TurnAround \/ ReverseChunk \/ ForwardStep \/ ReverseStep
  BY <1>3, OutsStay DEF ForwardChunk, TurnAround, ReverseChunk, ForwardStep, ReverseStep
<1>4. CASE FileWritten
  BY <1>4, OutsReverse
<1>5. CASE ReverseEnds
  <2>1. /\ stages # << >> /\ running.kind = "reverse" /\ stages' = Tail(stages) /\ outputs' = outputs
    BY <1>5 DEF ReverseEnds, At, In
  <2>2. Len(stages) = 1 /\ stages \in Seq(Stages)
    <3>1. Len(stages) \in Nat \ {0} /\ running = stages[1] /\ PlanFits /\ stages \in Seq(Stages)
      BY <2>1, Started DEF IndexInv, Typed
    <3>2. 1 \in 1 .. Len(stages)
      BY <3>1
    <3>3. QED BY <2>1, <3>1, <3>2 DEF PlanFits
  <2>3. stages' = << >>
    BY <2>1, <2>2, HeadTailProperties, EmptySeq
  <2>4. QED BY <2>1, <2>3 DEF OutsInv, AnswerFiles, In, AllCover, Covers
<1>6. CASE LoopRound
  <2>1. CASE Replying
    <3>1. PICK line : Reply(line) /\ (OneSided => Covers(line))
      BY <2>1
    <3>2. In("exec") /\ UNCHANGED stages
      BY <2>1 DEF Replying, Round
    <3>3. QED BY <3>1, <3>2, OutsGrow
  <2>2. CASE ~Replying
    <3>1. outputs' = outputs /\ UNCHANGED stages
      BY <1>6, <2>2 DEF LoopRound, ExecRound, QuietRound, Round, Replying
    <3>2. QED BY <3>1, OutsStay
  <2>3. QED BY <2>1, <2>2
<1>7. QED BY <1>1, <1>2, <1>3, <1>4, <1>5, <1>6 DEF ControlNext, ControlStep

(* A query finds the slim array composed since the last update.            *)
LEMMA RepliesComposed ==
    ASSUME IndexInv, ComposedInv, program = "sfsketch", Replying
    PROVE  querySketch = "LEFT" /\ fresh
<1>1. /\ stages # << >> /\ running.kind = "exec" /\ running = stages[1] /\ Len(stages) \in Nat \ {0}
      /\ index + 1 \in 1 .. Num /\ request.type = "get"
  <2>1. Round("exec") /\ stages # << >> /\ running.kind = "exec" /\ request.type = "get"
    BY DEF Replying, Round, In
  <2>2. index \in Nat /\ index < Num
    BY <2>1 DEF IndexInv, LoopsFit, Round, In, More
  <2>3. running = stages[1] /\ Len(stages) \in Nat \ {0} /\ Num \in Nat
    BY <2>1, Started
  <2>4. QED BY <2>1, <2>2, <2>3
<1>2. 1 \in 1 .. Len(stages) /\ stages[1].kind = "exec"
  BY <1>1
<1>3. UpdatesAt(1) \/ ComposedAt(1)
  BY <1>2 DEF ComposedInv
<1>4. ~UpdatesAt(1)
  <2>1. \A j \in 1 .. (1 - 1) : FALSE
    OBVIOUS
  <2>2. ~NoQueries
    BY <1>1 DEF NoQueries, request
  <2>3. QED BY <2>1, <2>2 DEF UpdatesAt, UpdatedBefore
<1>5. QED BY <1>3, <1>4 DEF ComposedAt

LEMMA ReplyKnown ==
    ASSUME IndexInv, Replying
    PROVE  request.key \in Keys
BY RequestKnown DEF Replying

LEMMA CMLineCovers ==
    ASSUME CMInv, ~lossy, NEW x \in Keys
    PROVE  Covers(CM!Line(x))
<1>1. count[x] \in Int /\ MaxC \in Nat
  BY SketchAssumption DEF CMInv, SketchAssumption
<1>2. Lesser(count[x], MaxC) = IF count[x] < MaxC THEN count[x] ELSE MaxC
  BY <1>1 DEF Lesser
<1>3. CM!Line(x).value = CM!Sketch!QueryPoint(x) /\ CM!Line(x).count = count[x]
  BY DEF CM!Line
<1>4. QED BY <1>2, <1>3, CMCovers DEF Covers

(* The keys that queryfqs() asks for.                                      *)
LEMMA AskedKnown ==
    ASSUME QuerysKnown
    PROVE  \A i \in DOMAIN Queries(querys) : Queries(querys)[i].key \in Keys
<1>1. \A i \in DOMAIN Queries(querys) : Queries(querys)[i] \in Records
  BY QueriesAmong DEF QuerysKnown
<1>2. QED BY <1>1, RecordsAssumption DEF RecordsAssumption

-----------------------------------------------------------------------------
(* The trace, forward and back                                             *)

Mirrored == {"sf_v2", "cmsketch", "csketch"}

(* n[i] is how often every key is there after i requests of rs.            *)
NoCounts  == [x \in Keys |-> 0]
Effect(r) == IF r.type = "inc" THEN r.delta ELSE IF r.type = "dec" THEN -r.delta ELSE 0
LeadsThrough(rs, n) ==
    /\ n \in [0 .. Len(rs) -> [Keys -> Nat]]
    /\ n[0] = NoCounts
    /\ \A i \in 1 .. Len(rs) : n[i] = [n[i - 1] EXCEPT ![rs[i].key] = @ + Effect(rs[i])]

(* A trace deletes no more of a key than is there: bench_update_gen.cc:345 *)
(* asks for the count before a decrement and takes no more than it.        *)
DeletesWhatIsThere ==
    \A fs \in FileSets :
        Trace \in DOMAIN fs /\ fs[Trace].num <= Len(fs[Trace].records) =>
            \E n : LeadsThrough(SubSeq(fs[Trace].records, 1, fs[Trace].num), n)
net == CHOOSE n : LeadsThrough(requests, n)

(* The array that a program's queries read, and what it holds of counts n  *)
(* as long as nothing has been cut.                                        *)
Uncut == ~cut /\ ~clipped
Array ==
    CASE program = "sf_v2" -> fat [] program = "cmsketch" -> table [] program = "csketch" -> s
On(d, c, sign) == {x \in Keys : Pos(x, d) = c /\ Sign[x][d] = sign}
Sums(n) == [d \in Rows |-> [c \in Cols |-> Total(n, Here(d, c))]]
SignedSums(n) ==
    [d \in Rows |-> [c \in Cols |-> Total(n, On(d, c, 1)) - Total(n, On(d, c, -1))]]
Contents(p, n) == IF p = "csketch" THEN SignedSums(n) ELSE Sums(n)

LEMMA EmptyHolds == \A p : Contents(p, NoCounts) = Zero
<1>1. \A S \in SUBSET Keys : Total(NoCounts, S) = 0
  <2> TAKE S \in SUBSET Keys
  <2>1. \A y \in S : NoCounts[y] = 0
    BY DEF NoCounts
  <2>2. QED BY <2>1, TotalZero
<1>2. \A d \in Rows, c \in Cols :
         /\ Total(NoCounts, Here(d, c)) = 0
         /\ Total(NoCounts, On(d, c, 1)) - Total(NoCounts, On(d, c, -1)) = 0
  <2> TAKE d \in Rows, c \in Cols
  <2>1. /\ Here(d, c) \in SUBSET Keys /\ On(d, c, 1) \in SUBSET Keys
        /\ On(d, c, -1) \in SUBSET Keys
    BY DEF Here, On
  <2>2. QED BY <1>1, <2>1
<1>3. QED BY <1>2 DEF Contents, SignedSums, Sums, Zero, Rows, Cols

-----------------------------------------------------------------------------
(* Without -r                                                              *)

Onward == [kind : Kinds \ {"reverse"}, file : Files]
OnwardInv ==
    ~options.reverse => stages \in Seq(Onward) /\ \A f \in DOMAIN outputs : f[1] # "reverse"

LEMMA NoReverseOnward == OnwardInv /\ In("reverse") => options.reverse
<1>1. SUFFICES ASSUME stages \in Seq(Onward), stages # << >>, running.kind = "reverse" PROVE FALSE
  BY DEF OnwardInv, In
<1>2. running \in Onward
  BY <1>1, HeadTailProperties DEF running
<1>3. QED BY <1>1, <1>2 DEF Onward

LEMMA OnwardOpens ==
    ASSUME stages \in Seq(Onward), stages # << >>, \A f \in DOMAIN outputs : f[1] # "reverse", Advance
    PROVE  stages' \in Seq(Onward) /\ \A f \in DOMAIN outputs' : f[1] # "reverse"
<1>1. Tail(stages) \in Seq(Onward)
  BY HeadTailProperties
<1>2. Tail(stages) # << >> => Head(Tail(stages)) \in Onward
  BY <1>1, HeadTailProperties
<1>3. \A f \in Files : f[1] # "reverse"
  BY DEF Files
<1>4. Tail(stages) # << >> => Head(Tail(stages)).file[1] # "reverse"
  BY <1>2, <1>3 DEF Onward
<1>5. QED BY <1>1, <1>4 DEF Advance, Opened, Written

LEMMA OnwardKeeps ==
    ASSUME OnwardInv, ControlNext, options' = options
    PROVE  OnwardInv'
<1>1. SUFFICES ASSUME ~options.reverse
               PROVE  stages' \in Seq(Onward) /\ \A f \in DOMAIN outputs' : f[1] # "reverse"
  BY DEF OnwardInv
<1>2. stages \in Seq(Onward) /\ \A f \in DOMAIN outputs : f[1] # "reverse"
  BY <1>1 DEF OnwardInv
<1>3. stages # << >> => running \in Onward /\ running.kind # "reverse" /\ running.file[1] # "reverse"
  <2>1. stages # << >> => running \in Onward
    BY <1>2, HeadTailProperties DEF running
  <2>2. QED BY <2>1 DEF Onward, Files
<1>4. CASE Load \/ LoadQuerys \/ TimingFails
  <2>1. CASE Exit
    BY <1>2, <2>1, EmptySeq DEF Exit
  <2>2. CASE ~Exit
    BY <1>2, <1>4, <2>2, OnwardOpens DEF Load, LoadQuerys, TimingFails, NextStage, In
  <2>3. QED BY <2>1, <2>2
<1>5. CASE LoopEnds \/ Calls
  BY <1>2, <1>5, OnwardOpens DEF LoopEnds, InLoop, Calls, NextStage, In
<1>6. CASE LoopRound
  BY <1>2, <1>3, <1>6 DEF LoopRound, ExecRound, QuietRound, Round, Written, In
<1>7. ~In("reverse")
  BY <1>3 DEF In
<1>8. ~ (ForwardChunk \/ TurnAround \/ ReverseChunk \/ ReverseEnds \/ ForwardStep \/ ReverseStep
         \/ FileWritten)
  BY <1>7 DEF ForwardChunk, TurnAround, ReverseChunk, ReverseEnds, ForwardStep, ReverseStep,
     FileWritten, ForwardQuery, ReverseQuery, At
<1>9. QED BY <1>4, <1>5, <1>6, <1>8 DEF ControlNext, ControlStep

LEMMA StartsOnward == Init => OnwardInv
<1>1. SUFFICES ASSUME Init, ~options.reverse PROVE OnwardInv
  BY DEF OnwardInv
<1>2. /\ program \in Programs /\ options \in Options /\ stages = Plan(program, options)
      /\ outputs = [o \in {} |-> << >>]
  BY <1>1 DEF Init, ControlInit
<1>3. PICK composing \in Seq(Composing), calls \in Seq(TimedCalls) :
          stages = IF program \in Reversible
                   THEN WithReverse(options, Forwards(options, composing, calls))
                   ELSE Forwards(options, composing, calls)
  BY <1>2, PlansFormed
<1>4. stages = Forwards(options, composing, calls)
  BY <1>1, <1>3 DEF WithReverse
<1>5. composing \in Seq(Plain)
  <2>1. Composing \subseteq Plain
    BY DEF Composing, Plain
  <2>2. QED BY <2>1, SeqMonotonic
<1>6. OverFiles(stages) \/ Timed(stages)
  BY <1>2, <1>4, <1>5, ForwardPlans
<1>7. Plain \subseteq Onward /\ TimedCalls \subseteq Onward
  BY DEF Plain, TimedCalls, Onward, Kinds
<1>8. CASE OverFiles(stages)
  <2>1. stages \in Seq(Onward)
    BY <1>7, <1>8, SeqMonotonic DEF OverFiles
  <2>2. QED BY <1>2, <2>1 DEF OnwardInv
<1>9. CASE Timed(stages)
  <2>1. PICK more \in Seq(TimedCalls), rest \in Seq(Plain) :
            stages = (<<Stage("load", Trace), Stage("exec", Output(0))>> \o more) \o rest
    BY <1>9 DEF Timed
  <2>2. more \in Seq(Onward) /\ rest \in Seq(Onward)
    BY <1>7, SeqMonotonic
  <2>3. Stage("load", Trace) \in Onward /\ Stage("exec", Output(0)) \in Onward
    BY <1>7, StagesAre DEF Trace
  <2>4. <<Stage("load", Trace), Stage("exec", Output(0))>> \in Seq(Onward)
    BY <2>3
  <2>5. stages \in Seq(Onward)
    BY <2>1, <2>2, <2>4, ConcatProperties
  <2>6. QED BY <1>2, <2>5 DEF OnwardInv
<1>10. QED BY <1>6, <1>8, <1>9

-----------------------------------------------------------------------------
(* With -r: the plan                                                       *)

(* No other handler runs in the stages of a reverse run.                   *)
InReverseRun == stages # << >> /\ running.kind \in {"load", "load_querys", "reverse"}

Rests == {ReversePlan, ReverseRest, <<Call("reverse")>>, << >>}
PlanInv ==
    options.reverse =>
        /\ OutputsInv /\ querys \in Seq(Records)
        /\ stages \in Rests /\ (stages # << >> => options.subfiles = 0 /\ ~exited)
        /\ stages \in {ReversePlan, ReverseRest} =>
              DOMAIN outputs = {} /\ index = 0 /\ phase = "forward"

LEMMA RestsDiffer ==
    /\ <<Call("reverse")>> \notin {ReversePlan, ReverseRest}
    /\ << >> \notin {ReversePlan, ReverseRest}
BY ReverseStages

LEMMA PlanRuns ==
    ASSUME PlanInv, options.reverse, stages # << >>
    PROVE  /\ OutputsInv /\ ~exited /\ options.subfiles = 0 /\ InReverseRun
           /\ \/ In("load") /\ stages = ReversePlan /\ running.file = Trace
              \/ In("load_querys") /\ stages = ReverseRest /\ running.file = QueryFile
              \/ In("reverse") /\ stages = <<Call("reverse")>> /\ Reversing
<1>1. OutputsInv /\ ~exited /\ options.subfiles = 0
  BY DEF PlanInv
<1>2. ReverseDue
  BY <1>1 DEF OutputsInv
<1>3. stages = ReversePlan => running.file = Trace
  BY ReverseStages DEF running, Stage
<1>4. QED BY <1>1, <1>2, <1>3, ReverseRuns DEF InReverseRun, In

LEMMA ReverseNext ==
    ASSUME PlanInv, options.reverse, ControlNext
    PROVE  /\ stages # << >> /\ InReverseRun
           /\ \/ Load \/ LoadQuerys
              \/ /\ In("reverse") /\ Reversing
                 /\ ReverseKeeps /\ (stages' = stages \/ stages' = Tail(stages))
<1>1. stages # << >>
  BY DEF ControlNext, ControlStep, LoopRound, ExecRound, QuietRound, Round, Calls, FileWritten,
     Load, LoadQuerys, LoopEnds, TimingFails, InLoop, ForwardChunk, TurnAround, ReverseChunk,
     ReverseEnds, ForwardStep, ReverseStep, ForwardQuery, ReverseQuery, At, In
<1>2. InReverseRun /\ (In("reverse") => Reversing)
  BY <1>1, PlanRuns DEF In
<1>3. ~ (LoopRound \/ Calls \/ LoopEnds \/ TimingFails)
  BY <1>2 DEF InReverseRun, LoopRound, ExecRound, QuietRound, Round, Calls, LoopEnds,
     TimingFails, InLoop, In
<1>4. QED BY <1>1, <1>2, <1>3 DEF ControlNext, ControlStep, FileWritten, ForwardChunk, TurnAround,
     ReverseChunk, ReverseEnds, ForwardStep, ReverseStep, ForwardQuery, ReverseQuery, At

LEMMA PlanKeeps ==
    ASSUME IndexInv, PlanInv, ControlNext, options' = options
    PROVE  PlanInv'
<1>1. SUFFICES ASSUME options.reverse
      PROVE  /\ OutputsInv' /\ querys' \in Seq(Records)
             /\ stages' \in Rests /\ (stages' # << >> => ~exited')
             /\ stages' \in {ReversePlan, ReverseRest} =>
                    DOMAIN outputs' = {} /\ index' = 0 /\ phase' = "forward"
  <2>1. options.reverse => stages # << >>
    BY ReverseNext
  <2>2. options.reverse => options.subfiles = 0
    BY <2>1 DEF PlanInv
  <2>3. Rests' = Rests /\ ReversePlan' = ReversePlan /\ ReverseRest' = ReverseRest
    BY DEF Rests, ReversePlan, ReverseRest, Trace, UpdatesFile, QueryFile, Call, Stage
  <2>4. QED BY <2>2, <2>3 DEF PlanInv
<1>2. /\ stages # << >> /\ InReverseRun /\ OutputsInv /\ querys \in Seq(Records) /\ ~exited
      /\ stages \in Rests
  BY <1>1, ReverseNext DEF PlanInv
<1>3. OutputsInv'
  <2>1. ~In("exec")
    BY <1>2 DEF InReverseRun, In
  <2>2. QED BY <1>2, <2>1, ControlAnswers
<1>4. CASE Exit
  <2>1. stages' = << >> /\ querys' = querys
    BY <1>4 DEF Exit
  <2>2. QED BY <1>2, <1>3, <2>1, RestsDiffer DEF Rests
<1>5. CASE Load /\ ~Exit
  <2>1. stages = ReversePlan /\ stages' = ReverseRest
    BY <1>1, <1>2, <1>5, PlanRuns, ReverseStages DEF Load, In, NextStage, Advance
  <2>2. /\ index' = FirstIndex(stages') /\ outputs' = Opened(stages')
        /\ querys' = querys /\ exited' = exited /\ phase' = phase
    BY <1>5 DEF Load, NextStage, Advance, inside
  <2>3. DOMAIN outputs = {} /\ phase = "forward"
    BY <1>1, <2>1 DEF PlanInv
  <2>4. index' = 0 /\ outputs' = outputs
    BY <2>1, <2>2, ReverseStages DEF FirstIndex, Opened, Stage
  <2>5. QED BY <1>2, <1>3, <2>1, <2>2, <2>3, <2>4 DEF Rests
<1>6. CASE LoadQuerys /\ ~Exit
  <2>1. stages = ReverseRest /\ running.file = QueryFile /\ stages' = <<Call("reverse")>>
    BY <1>1, <1>2, <1>6, PlanRuns, ReverseStages DEF LoadQuerys, In, NextStage, Advance
  <2>2. ~CannotLoad(QueryFile, 0) /\ querys' = Wanted /\ exited' = exited
    BY <1>6, <2>1 DEF LoadQuerys, NextStage, Wanted
  <2>3. querys' \in Seq(Records)
    BY <2>2, WantedIs
  <2>4. QED BY <1>2, <1>3, <2>1, <2>2, <2>3, RestsDiffer DEF Rests
<1>7. CASE In("reverse") /\ ReverseKeeps /\ (stages' = stages \/ stages' = Tail(stages))
  <2>1. stages = <<Call("reverse")>>
    BY <1>1, <1>2, <1>7, PlanRuns DEF In
  <2>2. stages' \in {<<Call("reverse")>>, << >>}
    BY <1>7, <2>1, ReverseStages
  <2>3. querys' = querys /\ exited' = exited
    BY <1>7 DEF ReverseKeeps
  <2>4. QED BY <1>2, <1>3, <2>2, <2>3, RestsDiffer DEF Rests
<1>8. QED BY <1>1, <1>4, <1>5, <1>6, <1>7, ReverseNext

-----------------------------------------------------------------------------
(* With -r: the counts                                                     *)

(* How many requests of the trace the sketch has been given.               *)
Position == IF phase \in {"forward", "forwardOps"} THEN index ELSE index + 1
Boundary(k) == IF k * interval <= Num THEN k * interval ELSE Num

Counted(type, r) ==
    count' = IF type = "inc" THEN [count EXCEPT ![r.key] = @ + r.delta]
             ELSE IF type = "dec" THEN [count EXCEPT ![r.key] = @ - r.delta]
             ELSE count
CutsStay == (cut => cut') /\ (clipped => clipped')

LEMMA TypesKnown ==
    \A type : /\ Forward(type) \in {"inc", "dec", "unknown"}
              /\ Opposite(type) \in {"inc", "dec", "unknown"}
BY DEF Forward, Opposite

LEMMA Touched ==
    ASSUME IndexInv, ForwardStep \/ ReverseStep
    PROVE  request.key \in Keys /\ request.delta \in Deltas
BY RequestKnown DEF ForwardStep, ReverseStep

(* Where a request takes the counts, and where undoing it takes them.      *)
LEMMA NetSteps ==
    ASSUME IndexInv, LeadsThrough(requests, net), index \in 0 .. (Num - 1),
           request.key \in Keys, request.delta \in Deltas
    PROVE  /\ net[index] \in [Keys -> Nat] /\ net[index + 1] \in [Keys -> Nat]
           /\ count = net[index] /\ Counted(Forward(request.type), request)
                => count' = net[index + 1]
           /\ count = net[index + 1] /\ Counted(Opposite(request.type), request)
                => count' = net[index]
<1> DEFINE x == request.key
           delta == request.delta
           old == net[index]
           new == net[index + 1]
<1>1. delta \in Nat
  <2>1. \A m \in Deltas : m \in Nat
    BY SketchAssumption DEF SketchAssumption
  <2>2. QED BY <2>1
<1>2. Num \in Nat /\ index \in 0 .. Num /\ index + 1 \in 1 .. Num /\ index + 1 \in 0 .. Num
  BY LenProperties DEF IndexInv, Typed, Num
<1>3. old \in [Keys -> Nat] /\ new \in [Keys -> Nat]
  BY <1>2 DEF LeadsThrough, Num
<1>4. new = [old EXCEPT ![x] = @ + Effect(request)]
  <2> DEFINE i == index + 1
  <2>1. i \in 1 .. Len(requests) /\ i - 1 = index
    BY <1>2 DEF Num
  <2>2. requests[i] = request
    BY DEF request
  <2> HIDE DEF i
  <2>3. net[i] = [net[i - 1] EXCEPT ![requests[i].key] = @ + Effect(requests[i])]
    BY <2>1 DEF LeadsThrough
  <2>4. QED BY <2>1, <2>2, <2>3 DEF i
<1> HIDE DEF old, new
<1>5. x \in Keys /\ old[x] \in Nat /\ new[x] \in Nat
  BY <1>3
<1>6. new[x] = old[x] + Effect(request) /\ \A y \in Keys : y # x => new[y] = old[y]
  BY <1>3, <1>4, <1>5
<1>7. ASSUME count = old, Counted(Forward(request.type), request) PROVE count' = new
  <2>1. count' = [old EXCEPT ![x] = IF request.type = "inc" THEN old[x] + delta
                                    ELSE IF request.type = "dec" THEN old[x] - delta ELSE old[x]]
    BY <1>3, <1>5, <1>7 DEF Counted, Forward
  <2>2. old[x] + Effect(request) = IF request.type = "inc" THEN old[x] + delta
                                   ELSE IF request.type = "dec" THEN old[x] - delta ELSE old[x]
    BY <1>1, <1>5 DEF Effect
  <2>3. QED BY <1>4, <2>1, <2>2
<1>8. ASSUME count = new, Counted(Opposite(request.type), request) PROVE count' = old
  <2>1. count' = [new EXCEPT ![x] = IF request.type = "inc" THEN new[x] - delta
                                    ELSE IF request.type = "dec" THEN new[x] + delta ELSE new[x]]
    BY <1>3, <1>5, <1>8 DEF Counted, Opposite
  <2>2. old[x] = IF request.type = "inc" THEN new[x] - delta
                 ELSE IF request.type = "dec" THEN new[x] + delta ELSE new[x]
    BY <1>1, <1>5, <1>6 DEF Effect
  <2>3. count' = [new EXCEPT ![x] = old[x]]
    BY <2>1, <2>2
  <2>4. \A y \in Keys : count'[y] = old[y]
    BY <1>3, <1>5, <1>6, <2>3
  <2>5. count' \in [Keys -> Nat]
    BY <1>3, <1>5, <2>3
  <2>6. QED BY <1>3, <2>4, <2>5
<1>9. QED BY <1>3, <1>7, <1>8 DEF old, new

LEMMA KeptInReverse ==
    ASSUME ReverseKeeps
    PROVE  UNCHANGED <<requests, interval, querys>>
BY DEF ReverseKeeps, given

(* The chunks that end within the trace.                                   *)
LEMMA ChunkWithin ==
    ASSUME IndexInv, chunk \in Nat, chunk * interval <= Num
    PROVE  chunk <= NumChunks
<1> DEFINE n == Num + interval - 1
           q == n \div interval
<1>1. Num \in Nat /\ interval \in Nat \ {0} /\ n \in Nat
  BY LenProperties DEF IndexInv, Typed, Num
<1>2. chunk * interval <= n
  <2>1. chunk * interval \in Int
    BY <1>1
  <2>2. QED BY <1>1, <2>1
<1> HIDE DEF n
<1>3. q \in Int /\ n < (q + 1) * interval
  BY <1>1
<1> HIDE DEF q
<1>4. chunk * interval < (q + 1) * interval
  <2>1. chunk * interval \in Int /\ (q + 1) * interval \in Int
    BY <1>1, <1>3
  <2>2. QED BY <1>1, <1>2, <1>3, <2>1
<1>5. chunk < q + 1
  BY <1>1, <1>3, <1>4
<1>6. QED BY <1>3, <1>5 DEF NumChunks, n, q

-----------------------------------------------------------------------------
(* With -r: the files                                                      *)

(* Lines that answer the queries qs at counts m, or are written from c.    *)
CountsOf(lines, qs, m) ==
    DOMAIN lines = DOMAIN qs /\ \A i \in DOMAIN qs : lines[i].count = m[qs[i].key]
WrittenFrom(lines, qs, c) == \A i \in DOMAIN qs : lines[i].content = c
RecordedAt(f, n) ==
    /\ CountsOf(outputs[f], Queries(querys), net[n])
    /\ Uncut => WrittenFrom(outputs[f], Queries(querys), Contents(program, net[n]))

ForthFits(k) == RecordedAt(<<"forward", k>>, Boundary(k))
BackFits(k) ==
    /\ k * interval <= Num
    /\ k > 0 => <<"forward", k>> \in DOMAIN outputs
    /\ RecordedAt(<<"reverse", k>>, k * interval)
FilesFit ==
    \A f \in DOMAIN outputs :
       \/ \E k \in Nat : f = <<"forward", k>> /\ ForthFits(k)
       \/ \E k \in Nat : f = <<"reverse", k>> /\ BackFits(k)

LEMMA SameNet ==
    ASSUME UNCHANGED <<requests, interval>>
    PROVE  /\ net' = net /\ Num' = Num
           /\ LeadsThrough(requests, net) => LeadsThrough(requests, net)'
           /\ \A k : Boundary(k)' = Boundary(k)
<1>1. net' = net /\ Num' = Num
  BY DEF net, Num
<1>2. QED BY <1>1 DEF Boundary

LEMMA RecordsStay ==
    ASSUME UNCHANGED <<requests, interval, querys, program>>, CutsStay
    PROVE  \A f : f \in DOMAIN outputs' /\ outputs'[f] = outputs[f] =>
              \A n : RecordedAt(f, n) => RecordedAt(f, n)'
<1>1. net' = net
  BY SameNet
<1>2. Uncut' => Uncut
  BY DEF Uncut, CutsStay
<1>3. QED BY <1>1, <1>2 DEF RecordedAt

LEMMA FilesStay ==
    ASSUME FilesFit, UNCHANGED <<requests, interval, querys, program, outputs>>, CutsStay
    PROVE  FilesFit'
<1>1. /\ net' = net /\ Num' = Num /\ \A k : Boundary(k)' = Boundary(k)
  BY SameNet
<1>2. \A f \in DOMAIN outputs : \A n : RecordedAt(f, n) => RecordedAt(f, n)'
  BY RecordsStay
<1>3. \A k : <<"forward", k>> \in DOMAIN outputs /\ ForthFits(k) => ForthFits(k)'
  BY <1>1, <1>2 DEF ForthFits
<1>4. \A k : <<"reverse", k>> \in DOMAIN outputs /\ BackFits(k) => BackFits(k)'
  BY <1>1, <1>2 DEF BackFits
<1>5. QED BY <1>3, <1>4 DEF FilesFit

LEMMA FilesGrow ==
    ASSUME FilesFit, NEW g, NEW lines, outputs' = Written(g, lines),
           UNCHANGED <<requests, interval, querys, program>>, CutsStay,
           \/ \E k \in Nat : g = <<"forward", k>> /\ ForthFits(k)'
           \/ \E k \in Nat : g = <<"reverse", k>> /\ BackFits(k)'
    PROVE  FilesFit'
<1>1. /\ net' = net /\ Num' = Num /\ \A k : Boundary(k)' = Boundary(k)
  BY SameNet
<1>2. DOMAIN outputs' = DOMAIN outputs \union {g}
  BY DEF Written
<1>3. ASSUME NEW f \in DOMAIN outputs, f # g
      PROVE  \/ \E k \in Nat : f = <<"forward", k>> /\ ForthFits(k)'
             \/ \E k \in Nat : f = <<"reverse", k>> /\ BackFits(k)'
  <2>1. f \in DOMAIN outputs' /\ outputs'[f] = outputs[f]
    BY <1>3 DEF Written
  <2>2. \A n : RecordedAt(f, n) => RecordedAt(f, n)'
    BY <2>1, RecordsStay
  <2>3. CASE \E k \in Nat : f = <<"forward", k>> /\ ForthFits(k)
    BY <1>1, <2>2, <2>3 DEF ForthFits
  <2>4. CASE \E k \in Nat : f = <<"reverse", k>> /\ BackFits(k)
    BY <1>1, <1>2, <2>2, <2>4 DEF BackFits
  <2>5. QED BY <2>3, <2>4 DEF FilesFit
<1>4. QED BY <1>2, <1>3 DEF FilesFit

Noted(lines) ==
    /\ DOMAIN lines = DOMAIN Queries(querys)
    /\ \A i \in DOMAIN Queries(querys) :
          lines[i].count = count[Queries(querys)[i].key] /\ lines[i].content = Array

(* Lines noted at a state of the trace are of that state.                  *)
LEMMA NotedThere ==
    ASSUME Uncut => Array = Contents(program, count), UNCHANGED <<requests, interval, querys, program>>, CutsStay,
           NEW g, NEW lines, Noted(lines), outputs' = Written(g, lines)
    PROVE  \A n : count = net[n] => RecordedAt(g, n)'
<1>1. net' = net /\ outputs'[g] = lines
  BY SameNet DEF Written
<1>2. Uncut' => Array = Contents(program, count)
  BY DEF Uncut, CutsStay
<1>3. /\ DOMAIN lines = DOMAIN Queries(querys)
      /\ \A i \in DOMAIN Queries(querys) :
            lines[i].count = count[Queries(querys)[i].key] /\ lines[i].content = Array
  BY DEF Noted
<1>4. SUFFICES ASSUME NEW n, count = net[n] PROVE RecordedAt(g, n)'
  OBVIOUS
<1>5. CountsOf(lines, Queries(querys), net[n])
  BY <1>3, <1>4 DEF CountsOf
<1>6. Uncut' => WrittenFrom(lines, Queries(querys), Contents(program, net[n]))
  BY <1>2, <1>3, <1>4 DEF WrittenFrom
<1>7. CountsOf(outputs'[g], Queries(querys'), net'[n])
  BY <1>1, <1>5
<1>8. Uncut' => WrittenFrom(outputs'[g], Queries(querys'), Contents(program', net'[n]))
  BY <1>1, <1>6
<1>9. QED BY <1>7, <1>8 DEF RecordedAt

-----------------------------------------------------------------------------
(* The sketches of the programs                                            *)

FinalP == INSTANCE SFFinalProofs
V2P    == INSTANCE UpdateComparisonProofs
              WITH cm <- table, cmCut <- cut, cmLossy <- lossy, cs <- s

(* The facts that the sketches' proofs assume are facts here.              *)
LEMMA FinalKeeps ==
    /\ FinalP!Init => FinalP!IInv
    /\ FinalP!IInv /\ [FinalP!Next]_(FinalP!vars) => FinalP!IInv'
    /\ FinalP!IInv => FinalP!SlimOneSided
<1>1. FinalP!IsFiniteSet(Keys)
  BY SketchAssumption DEF SketchAssumption, FinalP!IsFiniteSet, IsFiniteSet
<1>2. QED
  BY <1>1, SketchAssumption, FinalP!InitLoads, FinalP!NextLoads, FinalP!SlimNet
  DEF SketchAssumption, FinalP!Rows, FinalP!K

LEMMA V2Keeps ==
    /\ V2P!Init => V2P!IInv
    /\ V2P!IInv /\ [V2P!Next]_(V2P!vars) => V2P!IInv'
    /\ V2P!IInv => V2P!OneSided
<1>1. V2P!IsFiniteSet(Keys)
  BY SketchAssumption DEF SketchAssumption, V2P!IsFiniteSet, IsFiniteSet
<1>2. QED
  BY <1>1, SketchAssumption, V2P!InitLoads, V2P!NextLoads, V2P!AnswersCovered
  DEF SketchAssumption, V2P!Rows, V2P!K

(* The two-level sketches of the driver are those the proofs are about.    *)
LEMMA SameFinal ==
    /\ SF!Final!Init => FinalP!Init
    /\ \A x, delta : /\ SF!Final!Inc(x, delta) => FinalP!Inc(x, delta)
                     /\ SF!Final!Dec(x, delta) => FinalP!Dec(x, delta)
    /\ SF!Final!ComposeSlim => FinalP!ComposeSlim
    /\ SF!Final!SetQuerySlim => FinalP!SetQuerySlim
    /\ SF!Final!SetQueryFat => FinalP!SetQueryFat
    /\ \A x : SF!Final!Query(x) = FinalP!Query(x)
<1>1. /\ SF!Final!Rows = FinalP!Rows /\ SF!Final!Cols = FinalP!Cols
      /\ SF!Final!Buckets = FinalP!Buckets /\ SF!Final!K = FinalP!K
  BY DEF SF!Final!Rows, SF!Final!Cols, SF!Final!Buckets, SF!Final!K, SF!Final!WR,
     FinalP!Rows, FinalP!Cols, FinalP!Buckets, FinalP!K, FinalP!WR
<1>2. \A x, d : /\ SF!Final!Col(x, d) = FinalP!Col(x, d)
                /\ SF!Final!BucketOf(x, d) = FinalP!BucketOf(x, d)
  BY DEF SF!Final!Col, SF!Final!BucketOf, SF!Final!K, SF!Final!WR, FinalP!Col,
     FinalP!BucketOf, FinalP!K, FinalP!WR
<1>3. /\ \A f : SF!Final!MinOf(f) = FinalP!MinOf(f) /\ SF!Final!MaxOf(f) = FinalP!MaxOf(f)
      /\ \A n, delta, m : SF!Final!SatAdd(n, delta, m) = FinalP!SatAdd(n, delta, m)
  BY DEF SF!Final!MinOf, SF!Final!MaxOf, SF!Final!SatAdd, FinalP!MinOf, FinalP!MaxOf,
     FinalP!SatAdd, SF!Final!Min, SF!Final!Max, FinalP!Min, FinalP!Max
<1>4. \A r, w : SF!Final!BucketRow(r, w) = FinalP!BucketRow(r, w)
  BY <1>1 DEF SF!Final!BucketRow, FinalP!BucketRow
<1>5. SF!Final!Init => FinalP!Init
  BY <1>1 DEF SF!Final!Init, FinalP!Init
<1>6. ASSUME NEW x, NEW delta
      PROVE  /\ SF!Final!Inc(x, delta) => FinalP!Inc(x, delta)
             /\ SF!Final!Dec(x, delta) => FinalP!Dec(x, delta)
  <2>1. /\ SF!Final!IncROnly(x, delta) => FinalP!IncROnly(x, delta)
        /\ SF!Final!DecROnly(x, delta) => FinalP!DecROnly(x, delta)
    BY <1>1, <1>2, <1>3 DEF SF!Final!IncROnly, SF!Final!DecROnly, FinalP!IncROnly, FinalP!DecROnly
  <2>2. QED BY <2>1 DEF SF!Final!Inc, SF!Final!Dec, FinalP!Inc, FinalP!Dec
<1>7. SF!Final!ComposeSlim => FinalP!ComposeSlim
  BY <1>1, <1>3, <1>4 DEF SF!Final!ComposeSlim, FinalP!ComposeSlim
<1>8. /\ SF!Final!SetQuerySlim => FinalP!SetQuerySlim
      /\ SF!Final!SetQueryFat => FinalP!SetQueryFat
  BY DEF SF!Final!SetQuerySlim, SF!Final!SetQueryFat, SF!Final!history, FinalP!SetQuerySlim,
     FinalP!SetQueryFat, FinalP!history
<1>9. \A x : SF!Final!Query(x) = FinalP!Query(x)
  <2>1. \A x : /\ SF!Final!FatCounters(fat, x) = FinalP!FatCounters(fat, x)
               /\ SF!Final!SlimCounters(slim, x) = FinalP!SlimCounters(slim, x)
    BY <1>1, <1>2 DEF SF!Final!FatCounters, SF!Final!SlimCounters, FinalP!FatCounters,
       FinalP!SlimCounters
  <2>2. QED BY <2>1, <1>3 DEF SF!Final!Query, SF!Final!SlimQuery, SF!Final!FatQuery,
       FinalP!Query, FinalP!SlimQuery, FinalP!FatQuery
<1>10. QED BY <1>5, <1>6, <1>7, <1>8, <1>9

LEMMA SameV2 ==
    /\ SF!V2!Init => V2P!Init
    /\ \A x, delta : /\ SF!V2!Inc(x, delta) => V2P!Inc(x, delta)
                     /\ SF!V2!Dec(x, delta) => V2P!Dec(x, delta)
    /\ \A x : SF!V2!Query(x) = V2P!Query(x)
<1>1. /\ SF!V2!Rows = V2P!Rows /\ SF!V2!Cols = V2P!Cols
      /\ SF!V2!Buckets = V2P!Buckets /\ SF!V2!K = V2P!K
  BY DEF SF!V2!Rows, SF!V2!Cols, SF!V2!Buckets, SF!V2!K, SF!V2!WR,
     V2P!Rows, V2P!Cols, V2P!Buckets, V2P!K, V2P!WR
<1>2. \A x, d : /\ SF!V2!Col(x, d) = V2P!Col(x, d)
                /\ SF!V2!BucketOf(x, d) = V2P!BucketOf(x, d)
  BY DEF SF!V2!Col, SF!V2!BucketOf, SF!V2!K, SF!V2!WR, V2P!Col, V2P!BucketOf, V2P!K, V2P!WR
<1>3. /\ \A f : SF!V2!MinOf(f) = V2P!MinOf(f) /\ SF!V2!MaxOf(f) = V2P!MaxOf(f)
      /\ \A n, delta, m : SF!V2!SatAdd(n, delta, m) = V2P!SatAdd(n, delta, m)
      /\ \A n, delta : SF!V2!FloorSub(n, delta) = V2P!FloorSub(n, delta)
  BY DEF SF!V2!MinOf, SF!V2!MaxOf, SF!V2!SatAdd, SF!V2!FloorSub, V2P!MinOf, V2P!MaxOf,
     V2P!SatAdd, V2P!FloorSub, SF!V2!Min, SF!V2!Max, V2P!Min, V2P!Max
<1>4. /\ \A f, x : /\ SF!V2!FatCounters(f, x) = V2P!FatCounters(f, x)
                   /\ SF!V2!SlimCounters(f, x) = V2P!SlimCounters(f, x)
      /\ \A r, w : SF!V2!BucketRow(r, w) = V2P!BucketRow(r, w)
  BY <1>1, <1>2 DEF SF!V2!FatCounters, SF!V2!SlimCounters, SF!V2!BucketRow,
     V2P!FatCounters, V2P!SlimCounters, V2P!BucketRow
<1>5. \A f, x : SF!V2!AuxC(f, x) = V2P!AuxC(f, x)
  BY <1>1, <1>2, <1>3, <1>4 DEF SF!V2!AuxC, V2P!AuxC
<1>6. SF!V2!Init => V2P!Init
  BY <1>1 DEF SF!V2!Init, V2P!Init
<1>7. ASSUME NEW x, NEW delta
      PROVE  SF!V2!Inc(x, delta) => V2P!Inc(x, delta)
  <2>1. SF!V2!IncR(x, delta) = V2P!IncR(x, delta)
    BY <1>1, <1>2, <1>3 DEF SF!V2!IncR, V2P!IncR
  <2>2. \A target : SF!V2!Raised(x, target) = V2P!Raised(x, target)
    BY <1>1, <1>2 DEF SF!V2!Raised, V2P!Raised
  <2>3. \A f : SF!V2!IncLMin(f, x, delta) = V2P!IncLMin(f, x, delta)
    BY <1>1, <1>3, <1>4, <2>2 DEF SF!V2!IncLMin, V2P!IncLMin
  <2>4. QED BY <1>1, <1>2, <1>4, <1>5, <2>1, <2>2, <2>3 DEF SF!V2!Inc, V2P!Inc
<1>8. ASSUME NEW x, NEW delta
      PROVE  SF!V2!Dec(x, delta) => V2P!Dec(x, delta)
  <2>1. SF!V2!DecR(x, delta) = V2P!DecR(x, delta)
    BY <1>1, <1>2, <1>3 DEF SF!V2!DecR, V2P!DecR
  <2>2. \A f : SF!V2!DecL(f, x) = V2P!DecL(f, x)
    BY <1>1, <1>2, <1>5 DEF SF!V2!DecL, V2P!DecL
  <2>3. QED BY <1>1, <1>4, <1>5, <2>1, <2>2 DEF SF!V2!Dec, V2P!Dec
<1>9. \A x : SF!V2!Query(x) = V2P!Query(x)
  BY <1>3, <1>4 DEF SF!V2!Query, V2P!Query
<1>10. QED BY <1>6, <1>7, <1>8, <1>9

LEMMA V2Steps ==
    ASSUME IndexInv, Sfsketch, program = "sf_v2"
    PROVE  [V2P!Next]_(V2P!vars) /\ (lossy' \/ ~lossy)
<1>1. ~SF!IsFinal
  BY DEF SF!IsFinal
<1>2. CASE UNCHANGED SF!sketch
  BY <1>2 DEF SF!sketch, SF!v2, V2P!vars
<1>3. CASE \E x \in Keys, delta \in Deltas : SF!Inc(x, delta) \/ SF!Dec(x, delta)
  <2>1. PICK x \in Keys, delta \in Deltas : V2P!Inc(x, delta) \/ V2P!Dec(x, delta)
    BY <1>1, <1>3, SameV2 DEF SF!Inc, SF!Dec
  <2>2. lossy' \/ ~lossy
    BY <2>1 DEF V2P!Inc, V2P!Dec
  <2>3. QED BY <2>1, <2>2 DEF V2P!Next
<1>4. QED BY <1>1, <1>2, <1>3, SfsketchActs DEF SF!SketchCall

LEMMA FinalSteps ==
    ASSUME IndexInv, Sfsketch, program = "sfsketch"
    PROVE  /\ [FinalP!Next]_(FinalP!vars)
           /\ In("compose") => FinalP!ComposeSlim
           /\ In("slim") => FinalP!SetQuerySlim
           /\ Replying \/ (In("exec") /\ ~More) => UNCHANGED FinalP!vars
<1>1. SF!IsFinal
  BY DEF SF!IsFinal
<1>2. UNCHANGED SF!sketch => UNCHANGED FinalP!vars
  BY DEF SF!sketch, SF!final, SF!v2, FinalP!vars
<1>3. [FinalP!Next]_(FinalP!vars)
  <2>1. CASE SF!SketchCall
    BY <2>1, SameFinal DEF SF!SketchCall, SF!final, FinalP!Next, FinalP!vars
  <2>2. CASE \E x \in Keys, delta \in Deltas : SF!Inc(x, delta) \/ SF!Dec(x, delta)
    <3>1. PICK x \in Keys, delta \in Deltas : FinalP!Inc(x, delta) \/ FinalP!Dec(x, delta)
      BY <1>1, <2>2, SameFinal DEF SF!Inc, SF!Dec
    <3>2. QED BY <3>1 DEF FinalP!Next
  <2>3. QED BY <1>2, <2>1, <2>2, SfsketchActs
<1>4. In("compose") => FinalP!ComposeSlim
  <2>1. In("compose") => ~In("slim") /\ ~In("fat") /\ ~In("timing")
    BY DEF In
  <2>2. QED BY <2>1, SfsketchByKind, SFWords, SameFinal DEF SF!SketchCall
<1>5. In("slim") => FinalP!SetQuerySlim
  <2>1. In("slim") => ~In("compose") /\ ~In("fat") /\ ~In("timing")
    BY DEF In
  <2>2. QED BY <2>1, SfsketchByKind, SFWords, SameFinal DEF SF!SketchCall
<1>6. ASSUME In("exec"), ~More PROVE UNCHANGED SF!sketch
  BY <1>6, SfsketchByKind, SFWords DEF SF!RequestsExec, Round
<1>7. QED BY <1>2, <1>3, <1>4, <1>5, <1>6, SfsketchReplies

(* What a step does to the array that answers, and to the plan ahead of it. *)
LEMMA ControlComposed ==
    ASSUME QueriesOnly, UpdatesOnly, IndexInv, ComposedInv, ControlNext, program' = program,
           program = "sfsketch" => Sfsketch
    PROVE  ComposedInv'
<1>1. program = "sfsketch" =>
          /\ In("slim") => querySketch' = "LEFT" /\ fresh' = fresh
          /\ In("compose") => fresh'
          /\ Replying => UNCHANGED <<querySketch, fresh>>
  BY FinalSteps DEF FinalP!SetQuerySlim, FinalP!ComposeSlim, FinalP!vars, FinalP!history
<1>2. CASE Load \/ LoadQuerys \/ TimingFails
  <2>1. CASE Exit
    BY <2>1, ComposedOver DEF Exit
  <2>2. CASE ~Exit
    BY <1>1, <1>2, <2>2, ComposedStays DEF Load, LoadQuerys, TimingFails, NextStage, Advance, In
  <2>3. QED BY <2>1, <2>2
<1>3. CASE LoopEnds \/ Calls
  BY <1>1, <1>3, ComposedStays DEF LoopEnds, InLoop, Calls, NextStage, Advance, In
<1>4. CASE ForwardChunk \/ TurnAround \/ ReverseChunk \/ ForwardStep \/ ReverseStep \/ FileWritten
  <2>1. In("reverse") /\ UNCHANGED <<stages, requests>>
    BY <1>4 DEF ForwardChunk, TurnAround, ReverseChunk, ForwardStep, ReverseStep, FileWritten,
       ForwardQuery, ReverseQuery, At, ReverseKeeps
  <2>2. ~In("slim") /\ ~In("exec")
    BY <2>1 DEF In
  <2>3. QED BY <2>1, <2>2, ComposedWaits
<1>5. CASE ReverseEnds
  <2>1. In("reverse") /\ stages' = Tail(stages) /\ requests' = requests
    BY <1>5 DEF ReverseEnds, At, ReverseKeeps
  <2>2. QED BY <1>1, <2>1, ComposedStays DEF In
<1>6. CASE LoopRound
  <2>1. \E kind \in {"exec", "query", "throughput", "delete"} : Round(kind)
    BY <1>6 DEF LoopRound, ExecRound, QuietRound
  <2>2. UNCHANGED <<stages, requests>> /\ ~In("slim")
    BY <2>1 DEF Round, In
  <2>3. In("exec") => Round("exec") /\ index < Num
    BY <2>1 DEF Round, In, More
  <2>4. QED BY <1>1, <2>2, <2>3, ComposedWaits DEF Replying
<1>7. QED BY <1>2, <1>3, <1>4, <1>5, <1>6 DEF ControlNext, ControlStep

-----------------------------------------------------------------------------
(* Program by program                                                      *)

SketchInv ==
    /\ program = "sfsketch"   => FinalP!IInv
    /\ program = "sf_v2"      => V2P!IInv
    /\ program = "cmsketch"   => CMInv
    /\ program = "cmcusketch" => CUInv
    /\ program = "cqfilter"   => CQInv

CoverInv == ComposedInv /\ SketchInv /\ OutsInv
AroundInv == IndexInv /\ OnwardInv /\ QuerysKnown

LEMMA OutsCover == CoverInv => AnswersCover
BY DEF CoverInv, OutsInv, AnswersCover, OneSided, AllCover, Covers

LEMMA FinalCovers ==
    ASSUME QueriesOnly, UpdatesOnly, AroundInv, CoverInv, Sfsketch, program = "sfsketch"
    PROVE  CoverInv'
<1>1. ControlNext /\ UNCHANGED <<program, options, refused>> /\ IndexInv
  BY SfsketchSteps DEF Sfsketch, fixed, AroundInv
<1>2. FinalP!IInv'
  BY <1>1, FinalSteps, FinalKeeps DEF CoverInv, SketchInv
<1>3. lossy' = lossy
  <2>1. SF!IsFinal
    BY DEF SF!IsFinal
  <2>2. QED BY <1>1, <2>1, SfsketchActs DEF SF!sketch, SF!v2, SF!SketchCall, SF!Inc, SF!Dec
<1>4. ASSUME Replying PROVE \E line : Reply(line) /\ Covers(line)
  <2> DEFINE x == request.key
  <2>1. Reply(SF!Line(x)) /\ x \in Keys
    BY <1>1, <1>4, SfsketchReplies, ReplyKnown
  <2>2. querySketch = "LEFT" /\ fresh
    BY <1>1, <1>4, RepliesComposed DEF CoverInv
  <2>3. /\ FinalP!IInv /\ FinalP!SlimOneSided
    BY FinalKeeps DEF CoverInv, SketchInv
  <2>4. composed = <<inserted, deleted>> /\ inserted \in [Keys -> Nat] /\ deleted \in [Keys -> Nat]
    BY <2>2, <2>3 DEF FinalP!IInv, FinalP!FreshIsComposed, FinalP!TypeOK
  <2>5. FinalP!SlimQuery(x) >= FinalP!Lesser(inserted[x] - deleted[x], MaxC)
    BY <2>1, <2>3, <2>4 DEF FinalP!SlimOneSided
  <2>6. SF!Line(x).value = FinalP!SlimQuery(x) /\ SF!Line(x).count = inserted[x] - deleted[x]
    BY <2>2, SameFinal DEF SF!Line, SF!IsFinal, FinalP!Query
  <2>7. inserted[x] - deleted[x] \in Int /\ MaxC \in Nat
    BY <2>1, <2>4, SketchAssumption DEF SketchAssumption
  <2>8. FinalP!Lesser(inserted[x] - deleted[x], MaxC)
            = IF inserted[x] - deleted[x] < MaxC THEN inserted[x] - deleted[x] ELSE MaxC
    BY <2>7 DEF FinalP!Lesser
  <2>9. Covers(SF!Line(x))
    BY <2>5, <2>6, <2>8 DEF Covers
  <2>10. QED BY <2>1, <2>9
<1>5. OneSided' => OneSided
  BY <1>1, <1>3 DEF OneSided, NeverComposes
<1>6. ASSUME FileWritten PROVE ~OneSided
  <2>1. In("reverse")
    BY <1>6 DEF FileWritten, ForwardQuery, ReverseQuery, At
  <2>2. options.reverse
    BY <2>1, NoReverseOnward DEF AroundInv
  <2>3. QED BY <2>2 DEF OneSided, NeverComposes
<1>7. FileWritten => \E f, lines : outputs' = Written(f, lines)
  BY DEF FileWritten, ForwardQuery, ReverseQuery
<1>8. OutsInv'
  BY <1>1, <1>4, <1>5, <1>6, <1>7, ControlOuts DEF CoverInv
<1>9. ComposedInv'
  BY <1>1, ControlComposed DEF CoverInv
<1>10. SketchInv'
  BY <1>1, <1>2 DEF SketchInv
<1>11. QED BY <1>8, <1>9, <1>10 DEF CoverInv

LEMMA OthersCompose == program # "sfsketch" /\ program' = program => ComposedInv'
BY DEF ComposedInv

LEMMA V2Covers ==
    ASSUME AroundInv, CoverInv, Sfsketch, program = "sf_v2"
    PROVE  CoverInv'
<1>1. ControlNext /\ UNCHANGED <<program, options, refused>> /\ IndexInv
  BY SfsketchSteps DEF Sfsketch, fixed, AroundInv
<1>2. V2P!IInv' /\ (lossy' \/ ~lossy)
  BY <1>1, V2Steps, V2Keeps DEF CoverInv, SketchInv
<1>3. ASSUME NEW x \in Keys PROVE OneSided => Covers(SF!Line(x))
  <2>1. V2P!IInv /\ V2P!OneSided
    BY V2Keeps DEF CoverInv, SketchInv
  <2>2. count \in [Keys -> Nat] /\ MaxC \in Nat
    BY <2>1, SketchAssumption DEF V2P!IInv, V2P!SInv, V2P!TypeOK, SketchAssumption
  <2>3. SF!Line(x).value = V2P!Query(x) /\ SF!Line(x).count = count[x]
    BY SameV2 DEF SF!Line, SF!IsFinal
  <2>4. V2P!Lesser(count[x], MaxC) = IF count[x] < MaxC THEN count[x] ELSE MaxC
    BY <2>2 DEF V2P!Lesser
  <2>5. ~lossy => V2P!Query(x) >= V2P!Lesser(count[x], MaxC)
    BY <2>1 DEF V2P!OneSided
  <2>6. QED BY <2>3, <2>4, <2>5 DEF Covers, OneSided
<1>4. Replying => \E line : Reply(line) /\ (OneSided => Covers(line))
  <2>1. Replying => Reply(SF!Line(request.key)) /\ request.key \in Keys
    BY <1>1, SfsketchReplies, ReplyKnown
  <2>2. QED BY <1>3, <2>1
<1>5. FileWritten => \E f, lines : outputs' = Written(f, lines) /\ (OneSided => AllCover(lines))
  <2>1. FileWritten => \E f : outputs' = Written(f, SF!QueryFqs)
    BY SfsketchFiles
  <2>2. SF!QueryFqs = [i \in DOMAIN Queries(querys) |-> SF!Line(Queries(querys)[i].key)]
    BY SameQueries DEF SF!QueryFqs
  <2>3. OneSided => AllCover(SF!QueryFqs)
    BY <1>3, <2>2, AskedKnown DEF AllCover, AroundInv
  <2>4. QED BY <2>1, <2>3
<1>6. OneSided' => OneSided
  BY <1>1, <1>2 DEF OneSided, NeverComposes
<1>7. OutsInv'
  BY <1>1, <1>6, <1>4, <1>5, ControlOuts DEF CoverInv
<1>8. SketchInv'
  BY <1>1, <1>2 DEF SketchInv
<1>9. QED BY <1>1, <1>7, <1>8, OthersCompose DEF CoverInv

LEMMA CmsketchCovers ==
    ASSUME AroundInv, CoverInv, Cmsketch
    PROVE  CoverInv'
<1>1. ControlNext /\ UNCHANGED <<program, options, refused>> /\ program = "cmsketch" /\ IndexInv
  BY CmsketchSteps DEF Cmsketch, fixed, AroundInv
<1>2. CMInv' /\ (lossy' \/ ~lossy)
  <2>1. CMInv
    BY <1>1 DEF CoverInv, SketchInv
  <2>2. CASE UNCHANGED CM!sketch
    BY <2>1, <2>2 DEF CM!sketch, CMInv, CMExact, CMLoads
  <2>3. ASSUME NEW x \in Keys, NEW delta \in Deltas, CM!Sketch!Insert(x, delta)
        PROVE  CMInv' /\ lossy' = lossy
    BY <2>1, <2>3, CMInserts DEF CM!Sketch!Insert
  <2>4. ASSUME NEW x \in Keys, NEW delta \in Deltas, CM!Sketch!Delete_(x, delta)
        PROVE  CMInv' /\ (lossy' \/ ~lossy)
    <3>1. CMInv'
      BY <2>1, <2>4, CMDeletes
    <3>2. lossy' = (lossy \/ cut \/ count[x] < delta)
      BY <2>4 DEF CM!Sketch!Delete_
    <3>3. QED BY <3>1, <3>2
  <2>5. QED BY <1>1, <2>2, <2>3, <2>4, CmsketchActs
<1>3. ASSUME NEW x \in Keys PROVE OneSided => Covers(CM!Line(x))
  BY <1>1, CMLineCovers DEF CoverInv, SketchInv, OneSided
<1>4. Replying => \E line : Reply(line) /\ (OneSided => Covers(line))
  <2>1. Replying => Reply(CM!Line(request.key)) /\ request.key \in Keys
    BY <1>1, CmsketchActs, ReplyKnown
  <2>2. QED BY <1>3, <2>1
<1>5. FileWritten => \E f, lines : outputs' = Written(f, lines) /\ (OneSided => AllCover(lines))
  <2>1. FileWritten => \E f : outputs' = Written(f, CM!QueryFqs)
    BY CmsketchFiles
  <2>2. CM!QueryFqs = [i \in DOMAIN Queries(querys) |-> CM!Line(Queries(querys)[i].key)]
    BY SameQueries DEF CM!QueryFqs
  <2>3. OneSided => AllCover(CM!QueryFqs)
    BY <1>3, <2>2, AskedKnown DEF AllCover, AroundInv
  <2>4. QED BY <2>1, <2>3
<1>6. OneSided' => OneSided
  BY <1>1, <1>2 DEF OneSided, NeverComposes
<1>7. OutsInv'
  BY <1>1, <1>6, <1>4, <1>5, ControlOuts DEF CoverInv
<1>8. SketchInv'
  BY <1>1, <1>2 DEF SketchInv
<1>9. QED BY <1>1, <1>7, <1>8, OthersCompose DEF CoverInv

(* These two have no -r.                                                   *)
LEMMA CmcusketchWritesNone == Cmcusketch => ~FileWritten
<1>1. SUFFICES ASSUME Cmcusketch, stages # << >>, running.kind = "reverse" PROVE FALSE
  BY DEF FileWritten, ForwardQuery, ReverseQuery, At, In
<1>2. QED BY <1>1, CUWords DEF Cmcusketch, CU!Next, CU!RequestsInit, CU!RequestsExec,
     CU!RequestsQuery, CU!TestThrpt, CU!QuietRound, CU!Load, CU!LoopEnds, CU!TimingFails,
     CU!InLoop, Round, In

LEMMA CqfilterWritesNone == Cqfilter => ~FileWritten
<1>1. SUFFICES ASSUME Cqfilter, stages # << >>, running.kind = "reverse" PROVE FALSE
  BY DEF FileWritten, ForwardQuery, ReverseQuery, At, In
<1>2. QED BY <1>1, CQFWords DEF Cqfilter, CQF!Next, CQF!RequestsInit, CQF!RequestsExec,
     CQF!RequestsQuery, CQF!TestThrpt, CQF!QuietRound, CQF!Load, CQF!LoopEnds, CQF!TimingFails,
     CQF!InLoop, Round, In

LEMMA CmcusketchCovers ==
    ASSUME AroundInv, CoverInv, Cmcusketch
    PROVE  CoverInv'
<1>1. /\ ControlNext /\ UNCHANGED <<program, options, refused, lossy>>
      /\ program = "cmcusketch" /\ CUInv /\ IndexInv
  BY CmcusketchSteps DEF Cmcusketch, fixed, CoverInv, SketchInv, AroundInv
<1>2. CUInv'
  <2>1. CASE UNCHANGED CU!sketch
    BY <1>1, <2>1 DEF CU!sketch, CUInv
  <2>2. QED BY <1>1, <2>1, CUInserts, CmcusketchActs
<1>3. ASSUME Replying PROVE \E line : Reply(line) /\ (OneSided => Covers(line))
  <2> DEFINE x == request.key
  <2>1. Reply(CU!Line(x)) /\ x \in Keys
    BY <1>1, <1>3, CmcusketchActs, ReplyKnown
  <2>2. count[x] \in Nat /\ MaxC \in Nat
    BY <1>1, <2>1, SketchAssumption DEF CUInv, SketchAssumption
  <2>3. Lesser(count[x], MaxC) = IF count[x] < MaxC THEN count[x] ELSE MaxC
    BY <2>2 DEF Lesser
  <2>4. CU!Line(x).value = CU!Sketch!QueryPoint(x) /\ CU!Line(x).count = count[x]
    BY DEF CU!Line
  <2>5. Covers(CU!Line(x))
    BY <1>1, <2>1, <2>3, <2>4, CUCovers DEF Covers
  <2>6. QED BY <2>1, <2>5
<1>4. OneSided' => OneSided
  BY <1>1 DEF OneSided, NeverComposes
<1>5. ~FileWritten
  BY CmcusketchWritesNone
<1>6. OutsInv'
  BY <1>1, <1>3, <1>4, <1>5, ControlOuts DEF CoverInv
<1>7. SketchInv'
  BY <1>1, <1>2 DEF SketchInv
<1>8. QED BY <1>1, <1>6, <1>7, OthersCompose DEF CoverInv

LEMMA CqfilterCovers ==
    ASSUME AroundInv, CoverInv, Cqfilter
    PROVE  CoverInv'
<1>1. /\ ControlNext /\ UNCHANGED <<program, options, lossy>>
      /\ program = "cqfilter" /\ CQInv /\ IndexInv
  BY CqfilterSteps DEF Cqfilter, fixed, CoverInv, SketchInv, AroundInv
<1>2. CQInv' /\ (refused' \/ ~refused)
  <2>1. CASE UNCHANGED CQF!sketch
    BY <1>1, <2>1 DEF CQF!sketch, CQInv
  <2>2. QED BY <1>1, <2>1, CQInserts, CqfilterActs
<1>3. ASSUME Replying PROVE \E line : Reply(line) /\ (OneSided => Covers(line))
  <2> DEFINE x == request.key
  <2>1. Reply(CQF!Line(x)) /\ x \in Keys
    BY <1>1, <1>3, CqfilterActs, ReplyKnown
  <2>2. count[x] \in Int /\ MaxC \in Nat
    BY <1>1, <2>1, SketchAssumption DEF CQInv, SketchAssumption
  <2>3. Lesser(count[x], MaxC) = IF count[x] < MaxC THEN count[x] ELSE MaxC
    BY <2>2 DEF Lesser
  <2>4. CQF!Line(x).value = counts[Fingerprint[x]] /\ CQF!Line(x).count = count[x]
    BY DEF CQF!Line
  <2>5. OneSided => Covers(CQF!Line(x))
    BY <1>1, <2>1, <2>3, <2>4, CQCovers DEF Covers, OneSided
  <2>6. QED BY <2>1, <2>5
<1>4. OneSided' => OneSided
  BY <1>1, <1>2 DEF OneSided, NeverComposes
<1>5. ~FileWritten
  BY CqfilterWritesNone
<1>6. OutsInv'
  BY <1>1, <1>3, <1>4, <1>5, ControlOuts DEF CoverInv
<1>7. SketchInv'
  BY <1>1, <1>2 DEF SketchInv
<1>8. QED BY <1>1, <1>6, <1>7, OthersCompose DEF CoverInv

(* Nothing is promised of the answers of the other two.                    *)
LEMMA OthersCover ==
    ASSUME AroundInv, CoverInv, Csketch \/ Cmlsketch
    PROVE  CoverInv'
<1>1. ControlNext /\ program' = program /\ program \in {"csketch", "cmlsketch"} /\ IndexInv
  BY CsketchSteps, CmlsketchSteps DEF Csketch, Cmlsketch, fixed, AroundInv
<1>2. ~OneSided /\ ~OneSided'
  BY <1>1 DEF OneSided
<1>3. ASSUME Replying PROVE \E line : Reply(line)
  <2>1. ExecRound
    <3>1. Round("exec") /\ stages # << >> /\ running.kind = "exec"
      BY <1>3 DEF Replying, Round, In
    <3>2. UNCHANGED <<stages, outputs>> \/ ExecRound \/ ~LoopRound
      BY <3>1 DEF LoopRound, QuietRound, Round, In
    <3>3. ~ControlStep /\ ~Calls /\ ~ForwardStep /\ ~ReverseStep /\ ~FileWritten
      BY <1>3, <3>1 DEF ControlStep, Load, LoadQuerys, LoopEnds, TimingFails, ForwardChunk,
         TurnAround, ReverseChunk, ReverseEnds, Calls, ForwardStep, ReverseStep, FileWritten, ForwardQuery,
         ReverseQuery, At, In, Replying, Round
    <3>4. ~QuietRound("query") /\ ~QuietRound("throughput") /\ ~QuietRound("delete")
      BY <3>1 DEF QuietRound, Round, In
    <3>5. QED BY <1>1, <3>3, <3>4 DEF ControlNext, LoopRound
  <2>2. QED BY <1>3, <2>1 DEF ExecRound, Replying, Reply
<1>4. FileWritten => \E f, lines : outputs' = Written(f, lines)
  BY DEF FileWritten, ForwardQuery, ReverseQuery
<1>5. OutsInv'
  BY <1>1, <1>2, <1>3, <1>4, ControlOuts DEF CoverInv
<1>6. SketchInv'
  BY <1>1 DEF SketchInv
<1>7. QED BY <1>1, <1>5, <1>6, OthersCompose DEF CoverInv

LEMMA StutterCovers == CoverInv /\ UNCHANGED vars => CoverInv'
<1>1. SUFFICES ASSUME CoverInv, UNCHANGED vars PROVE CoverInv'
  OBVIOUS
<1>2. /\ UNCHANGED <<program, options, stages, requests, outputs, fat, slim, querySketch, inserted, deleted>>
      /\ UNCHANGED <<composed, fresh, maxArray, aborted, count, cut, lossy, table, counts, refused>>
  BY <1>1 DEF vars, control, given, inside, fixed, twoLevel
<1>3. ComposedInv'
  <2>1. (NoQueries' <=> NoQueries) /\ (OnlyQueries' <=> OnlyQueries)
    BY <1>2 DEF NoQueries, OnlyQueries, Num
  <2>2. ASSUME NEW k PROVE /\ UpdatesAt(k)' <=> UpdatesAt(k)
                           /\ QueriesAt(k)' <=> QueriesAt(k)
                           /\ ComposedAt(k)' <=> ComposedAt(k)
    BY <1>2, <2>1 DEF UpdatesAt, QueriesAt, ComposedAt
  <2>3. ComposedInv
    BY <1>1 DEF CoverInv
  <2>4. QED BY <1>2, <2>2, <2>3 DEF ComposedInv
<1>4. FinalP!IInv => FinalP!IInv'
  BY <1>2, FinalKeeps DEF FinalP!vars
<1>5. V2P!IInv => V2P!IInv'
  BY <1>2, V2Keeps DEF V2P!vars
<1>6. SketchInv'
  BY <1>1, <1>2, <1>4, <1>5 DEF CoverInv, SketchInv, CMInv, CMExact, CMLoads, CUInv, CQInv
<1>7. OutsInv'
  BY <1>1, <1>2 DEF CoverInv, OutsInv, AnswerFiles, OneSided, NeverComposes, AllCover, Covers,
     In, running
<1>8. QED BY <1>3, <1>6, <1>7 DEF CoverInv

LEMMA NextCovers ==
    QueriesOnly /\ UpdatesOnly /\ AroundInv /\ CoverInv /\ [Next]_vars => CoverInv'
<1>1. SUFFICES ASSUME QueriesOnly, UpdatesOnly, AroundInv, CoverInv, [Next]_vars
               PROVE  CoverInv'
  OBVIOUS
<1>2. CASE Sfsketch
  <2>1. program \in {"sfsketch", "sf_v2"}
    BY <1>2 DEF Sfsketch
  <2>2. QED BY <1>1, <1>2, <2>1, FinalCovers, V2Covers
<1>3. CASE Cmsketch
  BY <1>1, <1>3, CmsketchCovers
<1>4. CASE Cmcusketch
  BY <1>1, <1>4, CmcusketchCovers
<1>5. CASE Cqfilter
  BY <1>1, <1>5, CqfilterCovers
<1>6. CASE Csketch \/ Cmlsketch
  BY <1>1, <1>6, OthersCover
<1>7. CASE UNCHANGED vars
  BY <1>1, <1>7, StutterCovers
<1>8. QED BY <1>1, <1>2, <1>3, <1>4, <1>5, <1>6, <1>7 DEF Next, Ends

LEMMA AroundKeeps == AroundInv /\ [Next]_vars => AroundInv'
<1>1. SUFFICES ASSUME AroundInv, [Next]_vars PROVE AroundInv'
  OBVIOUS
<1>2. IndexInv'
  BY <1>1, NextKeeps DEF AroundInv
<1>3. CASE UNCHANGED vars
  <2>1. UNCHANGED <<options, stages, outputs, querys>>
    BY <1>3 DEF vars, control, fixed
  <2>2. QED BY <1>1, <1>2, <2>1 DEF AroundInv, OnwardInv, Onward, Kinds, Files, QuerysKnown
<1>4. CASE Sfsketch \/ Cmsketch \/ Csketch \/ Cmcusketch \/ Cmlsketch \/ Cqfilter
  <2>1. ControlNext
    BY <1>4, SfsketchSteps, CmsketchSteps, CsketchSteps, CmcusketchSteps, CmlsketchSteps,
       CqfilterSteps
  <2>2. options' = options
    BY <1>4 DEF Sfsketch, Cmsketch, Csketch, Cmcusketch, Cmlsketch, Cqfilter, fixed
  <2>3. QED BY <1>1, <1>2, <2>1, <2>2, OnwardKeeps, QuerysKept DEF AroundInv
<1>5. QED BY <1>1, <1>3, <1>4 DEF Next, Ends

LEMMA InitAround == Init => AroundInv
<1>1. Init => querys = << >>
  BY DEF Init, ControlInit
<1>2. QED BY <1>1, InitFits, StartsOnward, EmptySeq DEF AroundInv, QuerysKnown

LEMMA InitCovers == Init => CoverInv
<1>1. SUFFICES ASSUME Init PROVE CoverInv
  OBVIOUS
<1>2. /\ program \in Programs /\ options \in Options /\ stages = Plan(program, options)
      /\ outputs = [o \in {} |-> << >>]
      /\ SF!Final!Init /\ SF!V2!Init /\ CM!Sketch!Init /\ CU!Sketch!Init /\ CQF!FilterInit
  BY <1>1 DEF Init, ControlInit
<1>3. SketchInv
  BY <1>2, FinalKeeps, V2Keeps, SameFinal, SameV2, CMInits, CUInits, CQInits DEF SketchInv
<1>4. ComposedInv
  <2>1. SUFFICES ASSUME program = "sfsketch", NEW k \in 1 .. Len(stages), stages[k].kind = "exec"
                 PROVE  UpdatesAt(k) \/ (QueriesAt(k) /\ ComposedAt(k))
    BY DEF ComposedInv
  <2>2. UpdatedBefore(stages, k) \/ (AskedBefore(stages, k) /\ JustComposed(stages, k))
    BY <1>2, <2>1, PlanComposed DEF WellComposed
  <2>3. JustComposed(stages, k) => ComposedAt(k)
    BY DEF JustComposed, ComposedAt
  <2>4. QED BY <2>2, <2>3 DEF UpdatesAt, QueriesAt
<1>5. OutsInv
  <2>1. ~In("exec")
    <3>1. stages = << >> \/ stages[1].kind = "load"
      BY <1>1, <1>2, PlansAnswer DEF Init, Sensible, Reversible
    <3>2. stages # << >> => running = stages[1]
      BY <1>1, InitFits, Started
    <3>3. QED BY <3>1, <3>2 DEF In
  <2>2. DOMAIN outputs = {}
    BY <1>2
  <2>3. QED BY <2>1, <2>2 DEF OutsInv, AnswerFiles
<1>6. QED BY <1>3, <1>4, <1>5 DEF CoverInv

(* An answer that a program with a one-sided sketch leaves in an output    *)
(* file, of requests_exec() or of queryfqs(), is never below the net count *)
(* its key had when it was written, a reverse run of SF_FINAL excepted,    *)
(* which composes nothing.  What the names of the files say - updates in   *)
(* the one, queries in the other - is needed for SF_FINAL only.            *)
THEOREM OutputsCover ==
    ASSUME QueriesOnly, UpdatesOnly
    PROVE  Spec => []AnswersCover
BY InitAround, AroundKeeps, InitCovers, NextCovers, OutsCover, PTL DEF Spec

-----------------------------------------------------------------------------
(* With -r: what the sketch holds                                          *)

Fit ==
    /\ count \in [Keys -> Nat]
    /\ Uncut => Array = Contents(program, count)
    /\ program = "sf_v2"    => V2P!IInv
    /\ program = "cmsketch" => CMInv /\ (~cut => ~lossy)
    /\ program = "csketch"  => V2P!CSInv

LEMMA SameTotals ==
    /\ V2P!Rows = Rows /\ V2P!Cols = Cols
    /\ \A n, S : V2P!Total(n, S) = Total(n, S)
    /\ \A d, c : V2P!Here(d, c) = Here(d, c)
    /\ \A d, c, sign : V2P!On(d, c, sign) = On(d, c, sign)
<1>1. V2P!Rows = Rows /\ V2P!Cols = Cols /\ V2P!WR = WR
  BY DEF V2P!Rows, V2P!Cols, V2P!WR, V2P!K, Rows, Cols, WR
<1>2. \A x, d : V2P!Col(x, d) = Pos(x, d)
  BY <1>1 DEF V2P!Col, Pos
<1>3. \A n, S : V2P!Total(n, S) = Total(n, S)
  BY DEF V2P!Total, V2P!Tokens, V2P!Cardinality, Total, Tokens, Cardinality
<1>4. QED BY <1>1, <1>2, <1>3 DEF V2P!Here, V2P!On, Here, On

LEMMA V2Holds ==
    ASSUME V2P!IInv
    PROVE  /\ count \in [Keys -> Nat]
           /\ ~cut => fat = Sums(count)
<1>1. count \in [Keys -> Nat] /\ fat \in [Rows -> [Cols -> 0..MaxC]]
  BY SameTotals DEF V2P!IInv, V2P!SInv, V2P!TypeOK
<1>2. ~cut => \A d \in Rows, c \in Cols : fat[d][c] = Total(count, Here(d, c))
  BY SameTotals DEF V2P!IInv, V2P!UncutIsExact
<1>3. QED BY <1>1, <1>2 DEF Sums

LEMMA CMHolds ==
    ASSUME CMInv, ~lossy, ~cut
    PROVE  table = Sums(count)
<1>1. table \in [Rows -> [Cols -> 0..MaxC]]
  BY DEF CMInv, Tables
<1>2. \A d \in Rows, c \in Cols : table[d][c] = Total(count, Here(d, c))
  BY DEF CMInv, CMExact
<1>3. QED BY <1>1, <1>2 DEF Sums

LEMMA CSHolds ==
    ASSUME V2P!CSInv
    PROVE  /\ count \in [Keys -> Nat]
           /\ ~clipped => s = SignedSums(count)
<1>1. count \in [Keys -> Nat] /\ s \in [Rows -> [Cols -> -MaxNum..MaxNum]]
  BY SameTotals DEF V2P!CSInv, V2P!Signed
<1>2. ~clipped => \A d \in Rows, c \in Cols :
         s[d][c] = Total(count, On(d, c, 1)) - Total(count, On(d, c, -1))
  BY SameTotals DEF V2P!CSInv
<1>3. QED BY <1>1, <1>2 DEF SignedSums

(* The Count sketch of the driver is the one that the proofs are about.    *)
LEMMA CSKeeps ==
    ASSUME V2P!CSInv, NEW x \in Keys, NEW delta \in Deltas
    PROVE  /\ CS!Sketch!Inc(x, delta) => V2P!CSInv'
           /\ CS!Sketch!Dec(x, delta) /\ count[x] >= delta => V2P!CSInv'
<1>1. V2P!IsFiniteSet(Keys)
  BY SketchAssumption DEF SketchAssumption, V2P!IsFiniteSet, IsFiniteSet
<1>2. CS!Sketch!Rows = V2P!CS!Rows /\ \A y, d : CS!Sketch!Pos(y, d) = V2P!CS!Pos(y, d)
  BY DEF CS!Sketch!Rows, V2P!CS!Rows, CS!Sketch!Pos, V2P!CS!Pos, V2P!WR, V2P!K, WR
<1>3. \A y, d : CS!Sketch!Seen(y, d) = V2P!CS!Seen(y, d)
  BY <1>2 DEF CS!Sketch!Seen, V2P!CS!Seen
<1>4. /\ CS!Sketch!Inc(x, delta) => V2P!CS!Inc(x, delta)
      /\ CS!Sketch!Dec(x, delta) => V2P!CS!Dec(x, delta)
  BY <1>2, <1>3 DEF CS!Sketch!Inc, V2P!CS!Inc, CS!Sketch!Dec, V2P!CS!Dec
<1>5. /\ V2P!CS!Inc(x, delta) => V2P!CSInv'
      /\ V2P!CS!Dec(x, delta) /\ count[x] >= delta => V2P!CSInv'
  BY <1>1, SketchAssumption, V2P!IncCS, V2P!DecCS DEF SketchAssumption, V2P!Rows, V2P!K
<1>6. QED BY <1>4, <1>5

LEMMA StartsFit ==
    ASSUME Init, program \in Mirrored
    PROVE  Fit /\ count = NoCounts
<1>1. /\ SF!V2!Init /\ CM!Sketch!Init /\ CS!Sketch!Init
  BY DEF Init
<1>2. count = NoCounts /\ ~cut /\ ~lossy /\ ~clipped
  BY <1>1 DEF CM!Sketch!Init, CS!Sketch!Init, NoCounts
<1>3. V2P!IInv /\ CMInv
  BY <1>1, SameV2, V2Keeps, CMInits
<1>4. V2P!CSInv
  <2>1. s = [d \in Rows |-> [c \in Cols |-> 0]] /\ MaxNum \in Nat
    BY <1>1, SketchAssumption DEF CS!Sketch!Init, CS!Sketch!Rows, CS!Sketch!Cols, Rows, Cols,
       SketchAssumption
  <2>2. s \in V2P!Signed
    BY <2>1, SameTotals DEF V2P!Signed
  <2>3. count \in [Keys -> Nat]
    BY <1>2 DEF NoCounts
  <2>4. \A d \in Rows, c \in Cols :
           s[d][c] = Total(count, On(d, c, 1)) - Total(count, On(d, c, -1))
    <3> TAKE d \in Rows, c \in Cols
    <3>1. \A sign : Total(count, On(d, c, sign)) = 0
      <4> TAKE sign
      <4>1. \A y \in On(d, c, sign) : count[y] = 0
        BY <1>2 DEF On, NoCounts
      <4>2. QED BY <4>1, TotalZero
    <3>2. QED BY <2>1, <3>1
  <2>5. QED BY <2>2, <2>3, <2>4, SameTotals DEF V2P!CSInv
<1>5. QED BY <1>2, <1>3, <1>4, V2Holds, CMHolds, CSHolds DEF Fit, Mirrored, Contents, Array, NoCounts

-----------------------------------------------------------------------------
(* What a step of a reverse run does to the sketch                         *)

Performed(type) ==
    Counted(type, request) /\ CutsStay /\ (count' \in [Keys -> Nat] => Fit')
LEMMA V2HoldsNext ==
    V2P!IInv' => count' \in [Keys -> Nat] /\ (~cut' => fat' = Sums(count'))
<1>1. V2P!IInv => count \in [Keys -> Nat] /\ (~cut => fat = Sums(count))
  BY V2Holds
<1>2. (V2P!IInv => count \in [Keys -> Nat] /\ (~cut => fat = Sums(count)))'
  BY <1>1, PTL
<1>3. QED BY <1>2 DEF Sums

LEMMA CMHoldsNext == CMInv' /\ ~lossy' /\ ~cut' => table' = Sums(count')
<1>1. CMInv /\ ~lossy /\ ~cut => table = Sums(count)
  BY CMHolds
<1>2. (CMInv /\ ~lossy /\ ~cut => table = Sums(count))'
  BY <1>1, PTL
<1>3. QED BY <1>2 DEF Sums

LEMMA CSHoldsNext ==
    V2P!CSInv' => count' \in [Keys -> Nat] /\ (~clipped' => s' = SignedSums(count'))
<1>1. V2P!CSInv => count \in [Keys -> Nat] /\ (~clipped => s = SignedSums(count))
  BY CSHolds
<1>2. (V2P!CSInv => count \in [Keys -> Nat] /\ (~clipped => s = SignedSums(count)))'
  BY <1>1, PTL
<1>3. QED BY <1>2 DEF SignedSums

Still == UNCHANGED <<count, cut, clipped>> /\ Array' = Array /\ Fit'

LEMMA StaysFit ==
    ASSUME Fit, program \in Mirrored, program' = program, UNCHANGED <<count, cut, clipped>>,
           program = "sf_v2" => UNCHANGED V2P!vars,
           program = "cmsketch" => UNCHANGED <<table, lossy>>,
           program = "csketch" => UNCHANGED s
    PROVE  Still
<1>1. Array' = Array
  BY DEF Array, V2P!vars, Mirrored
<1>2. program = "sf_v2" => V2P!IInv'
  BY V2Keeps DEF Fit
<1>3. program = "cmsketch" => CMInv' /\ (~cut' => ~lossy')
  BY DEF Fit, CMInv, CMExact, CMLoads
<1>4. program = "csketch" => V2P!CSInv'
  BY DEF Fit, V2P!CSInv
<1>5. /\ count' \in [Keys -> Nat]
      /\ Uncut' => Array' = Contents(program', count')
  BY <1>1 DEF Fit, Uncut
<1>6. QED BY <1>1, <1>2, <1>3, <1>4, <1>5 DEF Fit, Still

LEMMA V2Performs ==
    ASSUME IndexInv, Fit, Sfsketch, program = "sf_v2", NEW type \in {"inc", "dec", "unknown"},
           SF!Perform(type, request)
    PROVE  Performed(type)
<1>1. program' = program /\ clipped' = clipped /\ ~SF!IsFinal
  BY DEF Sfsketch, fixed, SF!IsFinal
<1>2. V2P!IInv'
  BY V2Steps, V2Keeps DEF Fit
<1>3. count' \in [Keys -> Nat] /\ (~cut' => fat' = Sums(count'))
  BY <1>2, V2HoldsNext
<1>4. Counted(type, request) /\ (cut => cut')
  <2>1. \/ type = "inc" /\ SF!V2!Inc(request.key, request.delta)
        \/ type = "dec" /\ SF!V2!Dec(request.key, request.delta)
        \/ type = "unknown" /\ UNCHANGED <<count, cut>>
    BY <1>1 DEF SF!Perform, SF!Inc, SF!Dec, SF!sketch, SF!v2
  <2>2. ASSUME NEW x, NEW delta
        PROVE  /\ SF!V2!Inc(x, delta) =>
                     count' = [count EXCEPT ![x] = @ + delta] /\ (cut => cut')
               /\ SF!V2!Dec(x, delta) => count' = [count EXCEPT ![x] = @ - delta] /\ cut' = cut
    BY DEF SF!V2!Inc, SF!V2!Dec
  <2>3. QED BY <2>1, <2>2 DEF Counted
<1>5. Fit'
  BY <1>1, <1>2, <1>3 DEF Fit, Uncut, Array, Contents
<1>6. QED BY <1>1, <1>4, <1>5 DEF Performed, CutsStay

LEMMA CMPerforms ==
    ASSUME IndexInv, Fit, Cmsketch, request.key \in Keys, request.delta \in Deltas,
           NEW type \in {"inc", "dec", "unknown"}, CM!Perform(type, request)
    PROVE  Performed(type)
<1> DEFINE x == request.key
           delta == request.delta
<1>1. program = "cmsketch" /\ program' = program /\ clipped' = clipped
  BY DEF Cmsketch, fixed
<1>2. CMInv /\ (~cut => ~lossy) /\ count \in [Keys -> Nat]
  BY <1>1 DEF Fit
<1>3. CASE type = "inc"
  <2>1. CM!Sketch!Insert(x, delta)
    BY <1>3 DEF CM!Perform
  <2>2. CMInv'
    BY <1>2, <2>1, CMInserts
  <2>3. Counted(type, request) /\ (cut => cut') /\ lossy' = lossy
    BY <1>3, <2>1 DEF CM!Sketch!Insert, Counted
  <2>4. Fit' \/ count' \notin [Keys -> Nat]
    BY <1>1, <1>2, <2>2, <2>3, CMHoldsNext DEF Fit, Uncut, Array, Contents
  <2>5. QED BY <1>1, <2>3, <2>4 DEF Performed, CutsStay
<1>4. CASE type = "dec"
  <2>1. CM!Sketch!Delete_(x, delta)
    BY <1>4 DEF CM!Perform
  <2>2. CMInv'
    BY <1>2, <2>1, CMDeletes
  <2>3. Counted(type, request) /\ cut' = cut /\ lossy' = (lossy \/ cut \/ count[x] < delta)
    BY <1>4, <2>1 DEF CM!Sketch!Delete_, Counted
  <2>4. count' \in [Keys -> Nat] => ~(count[x] < delta)
    <3>1. delta \in Nat /\ count[x] \in Nat
      <4>1. \A m \in Deltas : m \in Nat
        BY SketchAssumption DEF SketchAssumption
      <4>2. QED BY <1>2, <4>1
    <3>2. count'[x] = count[x] - delta
      BY <1>2, <1>4, <2>3 DEF Counted
    <3>3. QED BY <3>1, <3>2
  <2>5. count' \in [Keys -> Nat] => (~cut' => ~lossy')
    BY <1>2, <2>3, <2>4
  <2>6. Fit' \/ count' \notin [Keys -> Nat]
    BY <1>1, <2>2, <2>5, CMHoldsNext DEF Fit, Uncut, Array, Contents
  <2>7. QED BY <1>1, <2>3, <2>6 DEF Performed, CutsStay
<1>5. CASE type = "unknown"
  <2>1. UNCHANGED <<count, cut, table, lossy>>
    BY <1>5 DEF CM!Perform, CM!sketch
  <2>2. Still
    BY <1>1, <2>1, StaysFit DEF Mirrored
  <2>3. QED BY <1>5, <2>2 DEF Still, Performed, Counted, CutsStay
<1>6. QED BY <1>3, <1>4, <1>5

LEMMA CSPerforms ==
    ASSUME IndexInv, Fit, Csketch, request.key \in Keys, request.delta \in Deltas,
           NEW type \in {"inc", "dec", "unknown"}, CS!Perform(type, request)
    PROVE  Performed(type)
<1> DEFINE x == request.key
           delta == request.delta
<1>1. program = "csketch" /\ program' = program /\ cut' = cut
  BY DEF Csketch, fixed
<1>2. V2P!CSInv /\ count \in [Keys -> Nat]
  BY <1>1 DEF Fit
<1>3. CASE type = "inc"
  <2>1. CS!Sketch!Inc(x, delta)
    BY <1>3 DEF CS!Perform
  <2>2. V2P!CSInv'
    BY <1>2, <2>1, CSKeeps
  <2>3. Counted(type, request) /\ (clipped => clipped')
    BY <1>3, <2>1 DEF CS!Sketch!Inc, Counted
  <2>4. Fit'
    BY <1>1, <2>2, CSHoldsNext DEF Fit, Uncut, Array, Contents
  <2>5. QED BY <1>1, <2>3, <2>4 DEF Performed, CutsStay
<1>4. CASE type = "dec"
  <2>1. CS!Sketch!Dec(x, delta)
    BY <1>4 DEF CS!Perform
  <2>2. Counted(type, request) /\ (clipped => clipped')
    BY <1>4, <2>1 DEF CS!Sketch!Dec, Counted
  <2>3. count' \in [Keys -> Nat] => count[x] >= delta
    <3>1. delta \in Nat /\ count[x] \in Nat
      <4>1. \A m \in Deltas : m \in Nat
        BY SketchAssumption DEF SketchAssumption
      <4>2. QED BY <1>2, <4>1
    <3>2. count'[x] = count[x] - delta
      BY <1>2, <1>4, <2>2 DEF Counted
    <3>3. QED BY <3>1, <3>2
  <2>4. count' \in [Keys -> Nat] => V2P!CSInv'
    BY <1>2, <2>1, <2>3, CSKeeps
  <2>5. Fit' \/ count' \notin [Keys -> Nat]
    BY <1>1, <2>4, CSHoldsNext DEF Fit, Uncut, Array, Contents
  <2>6. QED BY <1>1, <2>2, <2>5 DEF Performed, CutsStay
<1>5. CASE type = "unknown"
  <2>1. UNCHANGED <<count, clipped, s>>
    BY <1>5 DEF CS!Perform, CS!sketch
  <2>2. Still
    BY <1>1, <2>1, StaysFit DEF Mirrored
  <2>3. QED BY <1>5, <2>2 DEF Still, Performed, Counted, CutsStay
<1>6. QED BY <1>3, <1>4, <1>5

(* The steps of a reverse run, whichever of the programs it is of.         *)
Reverses ==
    \/ ControlStep /\ Still
    \/ ForwardStep /\ Performed(Forward(request.type))
    \/ ReverseStep /\ Performed(Opposite(request.type))
    \/ \E lines : (ForwardQuery(lines) \/ ReverseQuery(lines)) /\ Noted(lines) /\ Still

LEMMA V2Reverses ==
    ASSUME IndexInv, Fit, Sfsketch, program = "sf_v2", InReverseRun
    PROVE  Reverses
<1>1. program' = program /\ clipped' = clipped /\ ~SF!IsFinal /\ SF!Next
  BY DEF Sfsketch, fixed, SF!IsFinal
<1>2. UNCHANGED SF!sketch => Still
  BY <1>1, StaysFit DEF SF!sketch, SF!v2, V2P!vars, Mirrored
<1>3. CASE \/ SF!RequestsInit \/ SF!RequestsInitR
           \/ (SF!LoopEnds \/ SF!TimingFails) /\ UNCHANGED SF!sketch
  BY <1>2, <1>3, SFControl DEF SF!RequestsInit, SF!RequestsInitR, Reverses, ControlStep
<1>4. ~ (SF!RequestsExec \/ SF!RequestsQuery \/ SF!TestThrpt \/ SF!RequestsDelete \/ SF!SketchCall)
  <2>1. \A kind \in {"exec", "query", "throughput", "delete"} : ~Round(kind)
    BY DEF InReverseRun, Round, In
  <2>2. QED BY <1>1, <2>1, SFControl DEF SF!RequestsExec, SF!RequestsQuery, SF!TestThrpt,
     SF!RequestsDelete, SF!QuietRound, SF!SketchCall
<1>5. ASSUME SF!RequestsExecR PROVE Reverses
  <2>1. CASE ForwardStep /\ SF!Perform(Forward(request.type), request)
    BY <2>1, V2Performs, TypesKnown DEF Reverses
  <2>2. CASE ReverseStep /\ SF!Perform(Opposite(request.type), request)
    BY <2>2, V2Performs, TypesKnown DEF Reverses
  <2>3. CASE (ForwardQuery(SF!QueryFqs) \/ ReverseQuery(SF!QueryFqs)) /\ UNCHANGED SF!sketch
    <3>1. \A x : SF!Line(x).count = count[x] /\ SF!Line(x).content = Array
      BY <1>1 DEF SF!Line, Array
    <3>2. Noted(SF!QueryFqs)
      BY <3>1, SameQueries DEF SF!QueryFqs, Noted
    <3>3. QED BY <1>2, <2>3, <3>2 DEF Reverses
  <2>4. CASE (ForwardChunk \/ TurnAround \/ ReverseChunk \/ ReverseEnds) /\ UNCHANGED SF!sketch
    BY <1>2, <2>4 DEF Reverses, ControlStep
  <2>5. QED BY <1>5, <2>1, <2>2, <2>3, <2>4, SFControl DEF SF!RequestsExecR, Forward,
     SF!Forward, Opposite, SF!Opposite
<1>6. QED BY <1>1, <1>3, <1>4, <1>5 DEF SF!Next

LEMMA CMReverses ==
    ASSUME IndexInv, Fit, Cmsketch, InReverseRun
    PROVE  Reverses
<1>1. program = "cmsketch" /\ program' = program /\ clipped' = clipped /\ CM!Next
  BY DEF Cmsketch, fixed
<1>2. UNCHANGED CM!sketch => Still
  BY <1>1, StaysFit DEF CM!sketch, Mirrored
<1>3. CASE \/ CM!RequestsInit \/ CM!RequestsInitR
           \/ (CM!LoopEnds \/ CM!TimingFails) /\ UNCHANGED CM!sketch
  BY <1>2, <1>3, CMControl DEF CM!RequestsInit, CM!RequestsInitR, Reverses, ControlStep
<1>4. ~ (CM!RequestsExec \/ CM!RequestsQuery \/ CM!TestThrpt \/ CM!RequestsDelete)
  <2>1. \A kind \in {"exec", "query", "throughput", "delete"} : ~Round(kind)
    BY DEF InReverseRun, Round, In
  <2>2. QED BY <2>1, CMControl DEF CM!RequestsExec, CM!RequestsQuery, CM!TestThrpt,
     CM!RequestsDelete, CM!QuietRound
<1>5. ASSUME CM!RequestsExecR PROVE Reverses
  <2>1. CASE ForwardStep /\ CM!Perform(Forward(request.type), request)
    BY <2>1, CMPerforms, TypesKnown, Touched DEF Reverses
  <2>2. CASE ReverseStep /\ CM!Perform(Opposite(request.type), request)
    BY <2>2, CMPerforms, TypesKnown, Touched DEF Reverses
  <2>3. CASE (ForwardQuery(CM!QueryFqs) \/ ReverseQuery(CM!QueryFqs)) /\ UNCHANGED CM!sketch
    <3>1. \A x : CM!Line(x).count = count[x] /\ CM!Line(x).content = Array
      BY <1>1 DEF CM!Line, Array
    <3>2. Noted(CM!QueryFqs)
      BY <3>1, SameQueries DEF CM!QueryFqs, Noted
    <3>3. QED BY <1>2, <2>3, <3>2 DEF Reverses
  <2>4. CASE (ForwardChunk \/ TurnAround \/ ReverseChunk \/ ReverseEnds) /\ UNCHANGED CM!sketch
    BY <1>2, <2>4 DEF Reverses, ControlStep
  <2>5. QED BY <1>5, <2>1, <2>2, <2>3, <2>4, CMControl DEF CM!RequestsExecR, Forward,
     CM!Forward, Opposite, CM!Opposite
<1>6. QED BY <1>1, <1>3, <1>4, <1>5 DEF CM!Next

LEMMA CSReverses ==
    ASSUME IndexInv, Fit, Csketch, InReverseRun
    PROVE  Reverses
<1>1. program = "csketch" /\ program' = program /\ cut' = cut /\ CS!Next
  BY DEF Csketch, fixed
<1>2. UNCHANGED CS!sketch => Still
  BY <1>1, StaysFit DEF CS!sketch, Mirrored
<1>3. CASE \/ CS!RequestsInit \/ CS!RequestsInitR
           \/ (CS!LoopEnds \/ CS!TimingFails) /\ UNCHANGED CS!sketch
  BY <1>2, <1>3, CSControl DEF CS!RequestsInit, CS!RequestsInitR, Reverses, ControlStep
<1>4. ~ (CS!RequestsExec \/ CS!RequestsQuery \/ CS!TestThrpt \/ CS!RequestsDelete)
  <2>1. \A kind \in {"exec", "query", "throughput", "delete"} : ~Round(kind)
    BY DEF InReverseRun, Round, In
  <2>2. QED BY <2>1, CSControl DEF CS!RequestsExec, CS!RequestsQuery, CS!TestThrpt,
     CS!RequestsDelete, CS!QuietRound
<1>5. ASSUME CS!RequestsExecR PROVE Reverses
  <2>1. CASE ForwardStep /\ CS!Perform(Forward(request.type), request)
    BY <2>1, CSPerforms, TypesKnown, Touched DEF Reverses
  <2>2. CASE ReverseStep /\ CS!Perform(Opposite(request.type), request)
    BY <2>2, CSPerforms, TypesKnown, Touched DEF Reverses
  <2>3. CASE (ForwardQuery(CS!QueryFqs) \/ ReverseQuery(CS!QueryFqs)) /\ UNCHANGED CS!sketch
    <3>1. \A x : CS!Line(x).count = count[x] /\ CS!Line(x).content = Array
      BY <1>1 DEF CS!Line, Array
    <3>2. Noted(CS!QueryFqs)
      BY <3>1, SameQueries DEF CS!QueryFqs, Noted
    <3>3. QED BY <1>2, <2>3, <3>2 DEF Reverses
  <2>4. CASE (ForwardChunk \/ TurnAround \/ ReverseChunk \/ ReverseEnds) /\ UNCHANGED CS!sketch
    BY <1>2, <2>4 DEF Reverses, ControlStep
  <2>5. QED BY <1>5, <2>1, <2>2, <2>3, <2>4, CSControl DEF CS!RequestsExecR, Forward,
     CS!Forward, Opposite, CS!Opposite
<1>6. QED BY <1>1, <1>3, <1>4, <1>5 DEF CS!Next

-----------------------------------------------------------------------------
(* The invariant of a reverse run                                          *)

CountsInv ==
    options.reverse /\ program \in Mirrored =>
        /\ Fit /\ LeadsThrough(requests, net)
        /\ Position \in 0 .. Num /\ count = net[Position]
        /\ FilesFit
MirrorInv == OnwardInv /\ PlanInv /\ CountsInv

LEMMA MirrorsHold == IndexInv /\ MirrorInv => FilesMirror
<1>1. SUFFICES ASSUME IndexInv, MirrorInv, program \in Mirrored, NEW f \in DOMAIN outputs, f[1] = "reverse",
                      NEW i \in DOMAIN outputs[f]
      PROVE  IF f[2] = 0
             THEN outputs[f][i].count = 0 /\ (cut \/ clipped \/ outputs[f][i].content = Zero)
             ELSE /\ <<"forward", f[2]>> \in DOMAIN outputs
                  /\ outputs[f][i].count = outputs[<<"forward", f[2]>>][i].count
                  /\ \/ cut \/ clipped
                     \/ outputs[f][i].content = outputs[<<"forward", f[2]>>][i].content
  BY DEF FilesMirror, Mirrored
<1>2. options.reverse
  BY <1>1 DEF MirrorInv, OnwardInv
<1>3. FilesFit /\ LeadsThrough(requests, net) /\ querys \in Seq(Records)
  BY <1>1, <1>2 DEF MirrorInv, CountsInv, PlanInv
<1>4. PICK k \in Nat : f = <<"reverse", k>> /\ BackFits(k)
  BY <1>1, <1>3 DEF FilesFit
<1>5. RecordedAt(f, k * interval) /\ f[2] = k
  BY <1>4 DEF BackFits
<1>6. i \in DOMAIN Queries(querys)
  BY <1>1, <1>5 DEF RecordedAt, CountsOf
<1>7. CASE k = 0
  <2>1. k * interval = 0 /\ net[0] = NoCounts
    <3>1. interval \in Int
      BY <1>1 DEF IndexInv, Typed
    <3>2. QED BY <1>3, <1>7, <3>1 DEF LeadsThrough
  <2>2. Queries(querys)[i].key \in Keys
    <3>1. Queries(querys)[i] \in Records
      BY <1>3, <1>6, QueriesAmong
    <3>2. QED BY <3>1, RecordsAssumption DEF RecordsAssumption
  <2>3. outputs[f][i].count = 0
    BY <1>5, <1>6, <2>1, <2>2 DEF RecordedAt, CountsOf, NoCounts
  <2>4. Uncut => outputs[f][i].content = Zero
    BY <1>5, <1>6, <2>1, EmptyHolds DEF RecordedAt, WrittenFrom
  <2>5. QED BY <1>5, <1>7, <2>3, <2>4 DEF Uncut
<1>8. CASE k # 0
  <2> DEFINE g == <<"forward", k>>
  <2>1. g \in DOMAIN outputs /\ k * interval <= Num
    BY <1>4, <1>8 DEF BackFits
  <2>2. g[1] = "forward" /\ g[2] = k
    OBVIOUS
  <2>3. PICK m \in Nat : g = <<"forward", m>> /\ ForthFits(m)
    BY <1>3, <2>1 DEF FilesFit
  <2>4. RecordedAt(g, k * interval)
    BY <2>1, <2>3 DEF ForthFits, Boundary
  <2>5. outputs[f][i].count = outputs[g][i].count
    BY <1>5, <1>6, <2>4 DEF RecordedAt, CountsOf
  <2>6. Uncut => outputs[f][i].content = outputs[g][i].content
    BY <1>5, <1>6, <2>4 DEF RecordedAt, WrittenFrom
  <2>7. QED BY <1>5, <1>8, <2>1, <2>5, <2>6 DEF Uncut
<1>9. QED BY <1>7, <1>8

-----------------------------------------------------------------------------
(* The steps of a reverse run                                              *)

(* What a reverse run is at, whichever of its programs runs.               *)
Running ==
    /\ options.reverse /\ program \in Mirrored /\ UNCHANGED <<program, options>>
    /\ IndexInv /\ PlanInv /\ CountsInv

LEMMA RunningFits ==
    ASSUME Running
    PROVE  /\ Fit /\ LeadsThrough(requests, net) /\ Position \in 0 .. Num
           /\ count = net[Position] /\ FilesFit
           /\ Uncut => Array = Contents(program, count)
BY DEF Running, CountsInv, Fit

(* A step over the same trace that writes no file and stays where it is.   *)
LEMMA CountsStay ==
    ASSUME Running, UNCHANGED <<requests, interval, querys, outputs>>, Still,
           Position' = Position
    PROVE  CountsInv'
<1>1. /\ Fit /\ LeadsThrough(requests, net) /\ Position \in 0 .. Num
      /\ count = net[Position] /\ FilesFit
  BY RunningFits
<1>2. net' = net /\ Num' = Num /\ LeadsThrough(requests, net)'
  BY <1>1, SameNet
<1>3. FilesFit'
  BY <1>1, FilesStay DEF Running, Still, CutsStay
<1>4. QED BY <1>1, <1>2, <1>3 DEF CountsInv, Still

LEMMA TraceLeads ==
    ASSUME DeletesWhatIsThere, IndexInv, ~CannotLoad(Trace, 0)
    PROVE  \E n : LeadsThrough(Loaded(Trace, 0), n)
<1>1. /\ files \in FileSets /\ Trace \in DOMAIN files
      /\ ~ (NumberOf(Trace, 0) > Len(files[Trace].records))
  BY DEF CannotLoad, IndexInv, Typed
<1>2. /\ files[Trace].num \in NoNumber .. (SizeT - 1) /\ SizeT \in Nat
      /\ files[Trace].records \in Seq(Records)
  BY <1>1, OptionsAssumption DEF OptionsAssumption
<1>3. CASE files[Trace].num # NoNumber
  <2>1. NumberOf(Trace, 0) = files[Trace].num /\ Len(files[Trace].records) \in Int
    BY <1>2, <1>3, LenProperties DEF NumberOf
  <2>2. files[Trace].num <= Len(files[Trace].records)
    BY <1>1, <1>2, <2>1 DEF NoNumber
  <2>3. QED BY <1>1, <2>1, <2>2 DEF DeletesWhatIsThere, Loaded
<1>4. CASE files[Trace].num = NoNumber
  <2>1. Loaded(Trace, 0) = SubSeq(files[Trace].records, 1, 0)
    BY <1>4 DEF Loaded, NumberOf
  <2>2. Len(Loaded(Trace, 0)) = 0
    BY <1>2, <2>1
  <2>3. LeadsThrough(Loaded(Trace, 0), [i \in 0 .. 0 |-> NoCounts])
    BY <2>2 DEF LeadsThrough, NoCounts
  <2>4. QED BY <2>3
<1>5. QED BY <1>3, <1>4

LEMMA CountsLoad ==
    ASSUME DeletesWhatIsThere, Running, Load \/ LoadQuerys, Still
    PROVE  CountsInv'
<1>1. CASE Exit
  <2>1. UNCHANGED <<requests, interval, querys, outputs, index, phase>>
    BY <1>1 DEF Exit, given, inside
  <2>2. Position' = Position
    BY <2>1 DEF Position
  <2>3. QED BY <2>1, <2>2, CountsStay
<1>2. CASE ~Exit
  <2>1. /\ stages # << >> /\ OutputsInv /\ stages \in {ReversePlan, ReverseRest}
        /\ Load => running.file = Trace
    <3>1. stages # << >> /\ options.reverse /\ PlanInv /\ ~In("reverse") /\ (Load => ~In("load_querys"))
      BY DEF Load, LoadQuerys, In, Running
    <3>2. QED BY <3>1, PlanRuns
  <2>2. DOMAIN outputs = {} /\ index = 0 /\ phase = "forward"
    BY <2>1 DEF Running, PlanInv
  <2>3. NextStage
    BY <1>2 DEF Load, LoadQuerys
  <2>4. stages' \in {ReverseRest, <<Call("reverse")>>}
    BY <2>1, <2>3, ReverseStages DEF NextStage, Advance
  <2>5. index' = 0 /\ outputs' = outputs /\ phase' = phase
    <3>1. Head(stages').kind \notin {"delete", "exec"}
      BY <2>4, ReverseStages DEF Stage, Call
    <3>2. /\ index' = FirstIndex(stages') /\ outputs' = Opened(stages') /\ phase' = phase
      BY <2>3 DEF NextStage, Advance, inside
    <3>3. QED BY <3>1, <3>2 DEF FirstIndex, Opened
  <2>6. LeadsThrough(requests', net')
    <3>1. CASE Load
      <4>1. /\ requests' = Loaded(Trace, Num) /\ ~CannotLoad(Trace, Num)
            /\ files \in FileSets /\ Num \in Nat
        BY <1>2, <2>1, <3>1, Started DEF Load, Running, IndexInv, Typed
      <4>2. ~CannotLoad(Trace, 0) /\ requests' = Loaded(Trace, 0)
        BY <4>1, LoadedIs DEF Running
      <4>3. \E n : LeadsThrough(Loaded(Trace, 0), n)
        BY <4>1, <4>2, TraceLeads DEF Running
      <4>4. \E n : LeadsThrough(requests', n)
        BY <4>2, <4>3
      <4>5. QED BY <4>4 DEF net
    <3>2. CASE LoadQuerys
      <4>1. requests' = requests
        BY <1>2, <3>2 DEF LoadQuerys
      <4>2. QED BY <4>1, RunningFits DEF net
    <3>3. QED BY <3>1, <3>2
  <2>7. count' = NoCounts
    <3>1. Position = 0
      BY <2>2 DEF Position
    <3>2. QED BY <3>1, RunningFits DEF LeadsThrough, Still
  <2>8. Position' = 0 /\ count' = net'[0] /\ 0 \in 0 .. Num'
    <3>1. Position' = 0
      BY <2>2, <2>5 DEF Position
    <3>2. net'[0] = NoCounts
      BY <2>6 DEF LeadsThrough
    <3>3. IndexInv'
      BY Loads DEF Running
    <3>4. Num' \in Nat
      BY <3>3, LenProperties DEF IndexInv, Typed, Num
    <3>5. QED BY <2>7, <3>1, <3>2, <3>4
  <2>9. FilesFit'
    BY <2>2, <2>5 DEF FilesFit
  <2>10. QED BY <2>6, <2>8, <2>9 DEF CountsInv, Still
<1>3. QED BY <1>1, <1>2

LEMMA CountsTurn ==
    ASSUME Running, ForwardChunk \/ TurnAround \/ ReverseChunk \/ ReverseEnds, Still
    PROVE  CountsInv'
<1>1. UNCHANGED <<requests, interval, querys, outputs>>
  BY KeptInReverse DEF ForwardChunk, TurnAround, ReverseChunk, ReverseEnds
<1>2. Position' = Position
  <2>1. CASE TurnAround
    <3>1. In("reverse") /\ phase = "forward" /\ index >= Num /\ phase' = "reverse" /\ index' = Num - 1
      BY <2>1 DEF TurnAround, At
    <3>2. Num \in Nat /\ index \in Int /\ ForwardFits
      BY <3>1, ChunksOf DEF Running
    <3>3. index = Num
      BY <3>1, <3>2 DEF ForwardFits
    <3>4. QED BY <3>1, <3>2, <3>3 DEF Position
  <2>2. CASE ForwardChunk \/ ReverseChunk \/ ReverseEnds
    BY <2>2 DEF ForwardChunk, ReverseChunk, ReverseEnds, At, Position
  <2>3. QED BY <2>1, <2>2
<1>3. QED BY <1>1, <1>2, CountsStay

LEMMA CountsStep ==
    ASSUME Running,
           \/ ForwardStep /\ Performed(Forward(request.type))
           \/ ReverseStep /\ Performed(Opposite(request.type))
    PROVE  CountsInv'
<1>1. /\ Fit /\ LeadsThrough(requests, net) /\ Position \in 0 .. Num
      /\ count = net[Position] /\ FilesFit /\ IndexInv /\ Num \in Nat
  BY RunningFits, LenProperties DEF Running, IndexInv, Typed, Num
<1>2. /\ In("reverse") /\ todo > 0 /\ phase' = phase /\ UNCHANGED <<requests, interval, querys, outputs>>
      /\ phase \in {"forwardOps", "reverseOps"} /\ CutsStay
  BY KeptInReverse DEF ForwardStep, ReverseStep, At, Performed
<1>3. index \in 0 .. (Num - 1)
  BY <1>1, <1>2, InRange DEF IndexInRange
<1>4. request.key \in Keys /\ request.delta \in Deltas
  BY <1>1, Touched
<1>5. /\ net[index] \in [Keys -> Nat] /\ net[index + 1] \in [Keys -> Nat]
      /\ count = net[index] /\ Counted(Forward(request.type), request) => count' = net[index + 1]
      /\ count = net[index + 1] /\ Counted(Opposite(request.type), request) => count' = net[index]
  BY <1>1, <1>3, <1>4, NetSteps
<1>6. net' = net /\ Num' = Num /\ LeadsThrough(requests, net)'
  BY <1>1, <1>2, SameNet
<1>7. FilesFit'
  BY <1>1, <1>2, FilesStay DEF Running
<1>8. /\ Position' \in 0 .. Num /\ count' = net[Position'] /\ count' \in [Keys -> Nat] /\ Fit'
  <2>1. CASE ForwardStep /\ Performed(Forward(request.type))
    <3>1. Position = index /\ Position' = index + 1
      BY <2>1 DEF ForwardStep, At, Position
    <3>2. count' = net[index + 1]
      BY <1>1, <1>5, <2>1, <3>1 DEF Performed
    <3>3. index + 1 \in 0 .. Num
      BY <1>1, <1>3
    <3>4. QED BY <1>5, <2>1, <3>1, <3>2, <3>3 DEF Performed
  <2>2. CASE ReverseStep /\ Performed(Opposite(request.type))
    <3>1. Position = index + 1 /\ Position' = index
      <4>1. Position = index + 1 /\ Position' = (index - 1) + 1
        BY <2>2 DEF ReverseStep, At, Position
      <4>2. QED BY <1>3, <4>1
    <3>2. count' = net[index]
      BY <1>1, <1>5, <2>2, <3>1 DEF Performed
    <3>3. index \in 0 .. Num
      BY <1>1, <1>3
    <3>4. QED BY <1>5, <2>2, <3>1, <3>2, <3>3 DEF Performed
  <2>3. QED BY <2>1, <2>2
<1>9. QED BY <1>6, <1>7, <1>8 DEF CountsInv

LEMMA ReverseNow ==
    ASSUME Running, In("reverse")
    PROVE  Reversing
BY PlanRuns DEF Running, In

LEMMA CountsForth ==
    ASSUME Running, NEW lines, ForwardQuery(lines), Noted(lines), Still
    PROVE  CountsInv'
<1>1. /\ Fit /\ LeadsThrough(requests, net) /\ Position \in 0 .. Num
      /\ count = net[Position] /\ FilesFit /\ IndexInv
      /\ Uncut => Array = Contents(program, count)
  BY RunningFits DEF Running
<1>2. /\ In("reverse") /\ phase = "forwardOps" /\ todo = 0 /\ phase' = "forward" /\ index' = index
      /\ outputs' = Written(<<"forward", chunk>>, lines)
      /\ UNCHANGED <<requests, interval, querys>>
  BY KeptInReverse DEF ForwardQuery, At
<1>3. /\ Num \in Nat /\ index \in Int /\ interval \in Nat \ {0}
      /\ todo <= ops /\ index + todo <= Num /\ ops \in 1 .. interval
      /\ index + todo < Num => ops = interval
  BY <1>1, <1>2, ChunksOf DEF ForwardOpsFits, Chunk
<1>4. chunk \in Nat /\ index + todo = (chunk - 1) * interval + ops
  BY <1>2, ReverseNow DEF Reversing, ForwardOpsAt, ChunkEnds
<1>5. Boundary(chunk) = index
  <2>1. (chunk - 1) * interval = chunk * interval - interval /\ chunk * interval \in Int
    BY <1>3, <1>4, OneChunkLess
  <2>2. IF chunk * interval <= Num THEN index = chunk * interval ELSE index = Num
    BY <1>2, <1>3, <1>4, <2>1
  <2>3. QED BY <2>2 DEF Boundary
<1>6. net' = net /\ Num' = Num /\ LeadsThrough(requests, net)'
  BY <1>1, <1>2, SameNet
<1>7. ASSUME NEW k \in Nat, k = chunk PROVE FilesFit'
  <2>1. outputs' = Written(<<"forward", k>>, lines) /\ Boundary(k) = index /\ Boundary(k)' = index
    BY <1>2, <1>5, <1>7, SameNet
  <2>2. \A n : count = net[n] => RecordedAt(<<"forward", k>>, n)'
    BY <1>1, <1>2, <2>1, NotedThere DEF Running, Still, CutsStay
  <2>3. count = net[index]
    BY <1>1, <1>2 DEF Position
  <2>4. ForthFits(k)'
    BY <2>1, <2>2, <2>3 DEF ForthFits, RecordedAt
  <2>5. QED BY <1>1, <1>2, <2>1, <2>4, FilesGrow DEF Running, Still, CutsStay
<1>8. FilesFit'
  BY <1>4, <1>7
<1>9. Position' = Position /\ count' = count /\ Fit'
  BY <1>2 DEF Position, Still
<1>10. QED BY <1>1, <1>6, <1>8, <1>9 DEF CountsInv

LEMMA CountsBack ==
    ASSUME Running, NEW lines, ReverseQuery(lines), Noted(lines), Still
    PROVE  CountsInv'
<1>1. /\ Fit /\ LeadsThrough(requests, net) /\ Position \in 0 .. Num
      /\ count = net[Position] /\ FilesFit /\ IndexInv
      /\ Uncut => Array = Contents(program, count)
  BY RunningFits DEF Running
<1>2. /\ In("reverse") /\ phase = "reverseOps" /\ todo = 0 /\ phase' = "reverse" /\ index' = index
      /\ outputs' = Written(<<"reverse", chunk>>, lines)
      /\ UNCHANGED <<requests, interval, querys>>
  BY KeptInReverse DEF ReverseQuery, At
<1>3. Num \in Nat /\ index \in Int /\ interval \in Nat \ {0} /\ index < Num /\ ReverseOpsFits
  BY <1>1, <1>2, ChunksOf DEF ReverseOpsFits
<1>4. chunk \in Int /\ index + 1 = chunk * interval /\ ForwardDone(NumChunks)
  <2>1. chunk \in Int /\ index + 1 - todo = chunk * interval /\ ForwardDone(NumChunks)
    BY <1>2, ReverseNow DEF Reversing, ReverseOpsAt
  <2>2. QED BY <1>2, <1>3, <2>1
<1>5. chunk \in Nat /\ chunk * interval <= Num
  <2>1. index + 1 \in Nat
    <3>1. index + 1 - todo \in Nat
      BY <1>2, <1>3, WholeSteps DEF ReverseOpsFits
    <3>2. QED BY <1>2, <1>3, <3>1
  <2>2. chunk * interval \in Nat
    BY <1>4, <2>1
  <2>3. chunk \in Nat
    BY <1>3, <1>4, <2>2
  <2>4. QED BY <1>3, <1>4, <2>3
<1>6. chunk > 0 => <<"forward", chunk>> \in DOMAIN outputs
  <2>1. SUFFICES ASSUME chunk > 0 PROVE <<"forward", chunk>> \in DOMAIN outputs
    OBVIOUS
  <2>2. chunk \in 1 .. NumChunks
    <3>1. NumChunks \in Int
      BY <1>3 DEF NumChunks
    <3>2. QED BY <1>1, <1>5, <2>1, <3>1, ChunkWithin
  <2>3. QED BY <1>4, <2>2 DEF ForwardDone, AnswersAll
<1>7. net' = net /\ Num' = Num /\ LeadsThrough(requests, net)'
  BY <1>1, <1>2, SameNet
<1>8. ASSUME NEW k \in Nat, k = chunk PROVE FilesFit'
  <2>1. outputs' = Written(<<"reverse", k>>, lines) /\ k * interval = index + 1
    BY <1>2, <1>4, <1>8
  <2>2. \A n : count = net[n] => RecordedAt(<<"reverse", k>>, n)'
    BY <1>1, <1>2, <2>1, NotedThere DEF Running, Still, CutsStay
  <2>3. count = net[k * interval]
    BY <1>1, <1>2, <2>1 DEF Position
  <2>4. RecordedAt(<<"reverse", k>>, k * interval)'
    BY <1>2, <2>2, <2>3 DEF RecordedAt
  <2>5. k > 0 => <<"forward", k>> \in DOMAIN outputs'
    BY <1>6, <1>8, <2>1 DEF Written
  <2>6. BackFits(k)'
    BY <1>2, <1>5, <1>7, <1>8, <2>4, <2>5 DEF BackFits
  <2>7. QED BY <1>1, <1>2, <2>1, <2>6, FilesGrow DEF Running, Still, CutsStay
<1>9. FilesFit'
  BY <1>5, <1>8
<1>10. Position' = Position /\ count' = count /\ Fit'
  BY <1>2 DEF Position, Still
<1>11. QED BY <1>1, <1>7, <1>9, <1>10 DEF CountsInv

LEMMA CountsKeep ==
    ASSUME DeletesWhatIsThere, Running, Reverses, InReverseRun
    PROVE  CountsInv'
<1>1. CASE ControlStep /\ Still
  <2>1. ~LoopEnds /\ ~TimingFails
    BY DEF InReverseRun, LoopEnds, TimingFails, InLoop, In
  <2>2. QED BY <1>1, <2>1, CountsLoad, CountsTurn DEF ControlStep
<1>2. CASE \/ ForwardStep /\ Performed(Forward(request.type))
           \/ ReverseStep /\ Performed(Opposite(request.type))
  BY <1>2, CountsStep
<1>3. CASE \E lines : (ForwardQuery(lines) \/ ReverseQuery(lines)) /\ Noted(lines) /\ Still
  BY <1>3, CountsForth, CountsBack
<1>4. QED BY <1>1, <1>2, <1>3 DEF Reverses

LEMMA StepMirrors ==
    ASSUME DeletesWhatIsThere, IndexInv, MirrorInv,
           Sfsketch \/ Cmsketch \/ Csketch \/ Cmcusketch \/ Cmlsketch \/ Cqfilter
    PROVE  MirrorInv'
<1>1. ControlNext /\ UNCHANGED <<program, options>>
  BY SfsketchSteps, CmsketchSteps, CsketchSteps, CmcusketchSteps, CmlsketchSteps, CqfilterSteps
     DEF Sfsketch, Cmsketch, Csketch, Cmcusketch, Cmlsketch, Cqfilter, fixed
<1>2. OnwardInv' /\ PlanInv'
  BY <1>1, OnwardKeeps, PlanKeeps DEF MirrorInv
<1>3. CountsInv'
  <2>1. CASE ~ (options.reverse /\ program \in Mirrored)
    BY <1>1, <2>1 DEF CountsInv, Mirrored
  <2>2. CASE options.reverse /\ program \in Mirrored
    <3>1. Running
      BY <1>1, <2>2 DEF Running, MirrorInv
    <3>2. InReverseRun
      BY <1>1, <2>2, ReverseNext DEF MirrorInv
    <3>3. (program = "sf_v2" /\ Sfsketch) \/ Cmsketch \/ Csketch
      BY <2>2 DEF Mirrored, Sfsketch, Cmsketch, Csketch, Cmcusketch, Cmlsketch, Cqfilter
    <3>4. Reverses
      BY <3>1, <3>2, <3>3, RunningFits, V2Reverses, CMReverses, CSReverses
    <3>5. QED BY <3>1, <3>2, <3>4, CountsKeep
  <2>3. QED BY <2>1, <2>2
<1>4. QED BY <1>2, <1>3 DEF MirrorInv

LEMMA StutterMirrors == ASSUME IndexInv, MirrorInv, UNCHANGED vars PROVE MirrorInv'
<1>1. /\ UNCHANGED <<program, options, requests, interval, querys, outputs, index, phase,
                     stages, exited>>
      /\ UNCHANGED <<count, cut, clipped, table, lossy, s>> /\ UNCHANGED V2P!vars
  BY DEF vars, control, given, inside, fixed, twoLevel, V2P!vars
<1>2. OnwardInv'
  BY <1>1 DEF MirrorInv, OnwardInv, Onward, Kinds, Files
<1>3. PlanInv'
  <2>1. OutputsInv => OutputsInv'
    BY StutterAnswers
  <2>2. Rests' = Rests /\ ReversePlan' = ReversePlan /\ ReverseRest' = ReverseRest
    BY DEF Rests, ReversePlan, ReverseRest, Trace, UpdatesFile, QueryFile, Call, Stage
  <2>3. QED BY <1>1, <2>1, <2>2 DEF MirrorInv, PlanInv
<1>4. CountsInv'
  <2>1. CASE ~ (options.reverse /\ program \in Mirrored)
    BY <1>1, <2>1 DEF CountsInv, Mirrored
  <2>2. CASE options.reverse /\ program \in Mirrored
    <3>1. Running
      BY <1>1, <2>2 DEF Running, MirrorInv
    <3>2. Still
      BY <1>1, <2>2, <3>1, RunningFits, StaysFit
    <3>3. Position' = Position
      BY <1>1 DEF Position
    <3>4. QED BY <1>1, <3>1, <3>2, <3>3, CountsStay
  <2>3. QED BY <2>1, <2>2
<1>5. QED BY <1>2, <1>3, <1>4 DEF MirrorInv

LEMMA NextMirrors ==
    DeletesWhatIsThere /\ IndexInv /\ MirrorInv /\ [Next]_vars => MirrorInv'
<1>1. SUFFICES ASSUME DeletesWhatIsThere, IndexInv, MirrorInv, [Next]_vars PROVE MirrorInv'
  OBVIOUS
<1>2. QED BY <1>1, StepMirrors, StutterMirrors DEF Next, Ends

LEMMA InitMirrors == Init => MirrorInv
<1>1. SUFFICES ASSUME Init PROVE MirrorInv
  OBVIOUS
<1>2. /\ program \in Programs /\ options \in Options /\ stages = Plan(program, options)
      /\ options.reverse => program \in Reversible
      /\ requests = << >> /\ querys = << >> /\ index = 0 /\ phase = "forward" /\ ~exited
      /\ DOMAIN outputs = {}
  BY <1>1 DEF Init, ControlInit, Sensible, Reversible
<1>3. PlanInv
  <2>1. SUFFICES ASSUME options.reverse
        PROVE  stages \in {ReversePlan, << >>} /\ (stages # << >> => options.subfiles = 0)
    BY <1>1, <1>2, InitAnswers, EmptySeq DEF PlanInv, Rests
  <2>2. PICK composing \in Seq(Composing), calls \in Seq(TimedCalls) :
            stages = WithReverse(options, Forwards(options, composing, calls))
    BY <1>2, <2>1, PlansFormed
  <2>3. stages = IF options.subfiles > 0 THEN << >> ELSE ReversePlan
    BY <2>1, <2>2 DEF WithReverse, ReversePlan, Trace
  <2>4. options.subfiles \in Nat
    BY <1>2, OptionsAssumption DEF Options, OptionsAssumption
  <2>5. QED BY <2>3, <2>4
<1>4. CountsInv
  <2>1. SUFFICES ASSUME program \in Mirrored
        PROVE  /\ Fit /\ LeadsThrough(requests, net) /\ Position \in 0 .. Num
               /\ count = net[Position] /\ FilesFit
    BY DEF CountsInv
  <2>2. Fit /\ count = NoCounts
    BY <1>1, <2>1, StartsFit
  <2>3. Len(requests) = 0 /\ Num = 0
    BY <1>2, EmptySeq DEF Num
  <2>4. LeadsThrough(requests, [i \in 0 .. 0 |-> NoCounts])
    BY <2>3 DEF LeadsThrough, NoCounts
  <2>5. LeadsThrough(requests, net)
    BY <2>4 DEF net
  <2>6. Position = 0 /\ net[0] = NoCounts
    BY <1>2, <2>5 DEF Position, LeadsThrough
  <2>7. FilesFit
    BY <1>2 DEF FilesFit
  <2>8. QED BY <2>2, <2>3, <2>5, <2>6, <2>7
<1>5. QED BY <1>1, <1>3, <1>4, StartsOnward DEF MirrorInv

(* Undoing a trace leads back through the states it came through: every    *)
(* file X_r_k.out answers from the counts, and until an addition is cut    *)
(* from the counters, that X_k.out was written from, whatever the interval *)
(* and the length of the last chunk (requests_exec_r()), if the trace      *)
(* deletes only what is there.                                             *)
THEOREM FilesMirrored ==
    ASSUME DeletesWhatIsThere
    PROVE  Spec => []FilesMirror
BY LoopsInvariant, InitMirrors, NextMirrors, MirrorsHold, PTL DEF Spec
=============================================================================
