------------------------------ MODULE Programs ------------------------------
(***************************************************************************)
(* The drivers of all the sketches over the same files: a run is one       *)
(* program with one set of options, and the properties say what the files  *)
(* it leaves hold.                                                         *)
(***************************************************************************)
EXTENDS DriverLoops, FiniteSets

CONSTANTS
    Keys, D, WL, ExpK, MaxC, Hash, Deltas, Limit,   \* see SFFinal
    MaxNum, Sign,         \* see CSketch
    Cap,                  \* see CMLSketch
    Fingerprint, Room,    \* see CQFDriver
    Records, FileSets,    \* the requests, and the files a run may find
    NStarts, Intervals,   \* values of the options -s and -r
    MaxSubfiles           \* bound on the value of the option -n

(* The number in the header of a file, if it has one, is a size_t; an      *)
(* interval of -r holds one operation or more.                             *)
OptionsAssumption ==
    /\ NStarts \subseteq Nat /\ Intervals \subseteq Nat \ {0} /\ MaxSubfiles \in Nat
    /\ SizeT \in Nat \ {0}
    /\ \A fs \in FileSets : \A f \in DOMAIN fs :
          /\ fs[f].num \in NoNumber .. (SizeT - 1) /\ fs[f].records \in Seq(Records)
          /\ fs[f].num = NoNumber => fs[f].records = << >>
ASSUME OptionsAssumption

(* What the modules of the sketches assume, for the one that each program  *)
(* builds; a request is of a key, with a count that a counter can hold.    *)
SketchAssumption ==
    /\ D \in Nat \ {0} /\ WL \in Nat \ {0} /\ 2^ExpK \in Nat \ {0} /\ MaxC \in Nat
    /\ Hash \in [Keys -> [0 .. (D - 1) -> Nat]]
    /\ IsFiniteSet(Keys) /\ Deltas \subseteq 0 .. MaxC
    /\ MaxNum \in Nat /\ Deltas \subseteq 0 .. MaxNum
    /\ Sign \in [Keys -> [0 .. (D - 1) -> {-1, 1}]]
ASSUME SketchAssumption

RecordsAssumption == \A r \in Records : r.key \in Keys /\ r.delta \in Deltas
ASSUME RecordsAssumption

VARIABLES
    program, options,
    fat, slim, querySketch, inserted, deleted, composed, fresh,   \* SFFinal
    maxArray, aborted, count, cut, lossy,                         \* SFV2
    table, s, clipped, counts, refused                            \* the others

WR == 2^ExpK * WL

SF  == INSTANCE SFDriver
CM  == INSTANCE CMDriver WITH W <- WR, MaxCounter <- MaxC
CS  == INSTANCE CDriver WITH W <- WR
CU  == INSTANCE CMCUDriver WITH W <- WR, MaxCounter <- MaxC
CL  == INSTANCE CMLDriver WITH W <- WR, MaxCounter <- MaxC
CQF == INSTANCE CQFDriver

fixed == <<program, options>>
twoLevel == <<fat, slim, querySketch, inserted, deleted, composed, fresh, maxArray, aborted>>
vars == <<control, fixed, twoLevel, count, cut, lossy, table, s, clipped, counts, refused>>

Options ==
    [reverse : BOOLEAN, timed : BOOLEAN, throughput : BOOLEAN, subfiles : 0..MaxSubfiles]

Plan(p, o) ==
    CASE p \in {"sfsketch", "sf_v2"} -> SF!Main(o)
      [] p = "cmsketch"  -> CM!Main(o)
      [] p = "csketch"   -> CS!Main(o)
      [] p = "cmcusketch" -> CU!Main(o)
      [] p = "cmlsketch" -> CL!Main(o)
      [] p = "cqfilter"  -> CQF!Main(o)

Programs == {"sfsketch", "sf_v2", "cmsketch", "csketch", "cmcusketch", "cmlsketch", "cqfilter"}

Deletes(fs) ==
    \E f \in DOMAIN fs : \E i \in DOMAIN fs[f].records : fs[f].records[i].type = "dec"

(* An option that a driver does not have is not given to it.  SFV2 is for  *)
(* traces that delete what is there, which the deletion of -T is only if   *)
(* the trace deletes nothing itself.  -s, with -T, is below the length of  *)
(* the trace.                                                              *)
Sensible(p, o, fs, start) ==
    /\ o.reverse => p \in {"sfsketch", "sf_v2", "cmsketch", "csketch"}
    /\ o.timed => p # "cmlsketch"
    /\ o.timed /\ p = "sf_v2" => ~Deletes(fs)
    /\ IF o.timed THEN start < fs[UpdatesFile(0)].num ELSE start = 0

Init ==
    /\ program \in Programs /\ options \in Options /\ files \in FileSets
    /\ nStart \in NStarts
    /\ Sensible(program, options, files, nStart)
    /\ interval \in (IF options.reverse THEN Intervals ELSE {1})
    /\ ControlInit(Plan(program, options))
    /\ SF!Final!Init /\ SF!V2!Init /\ CM!Sketch!Init /\ CS!Sketch!Init
    /\ CU!Sketch!Init /\ CL!Sketch!Init /\ CQF!FilterInit
    /\ program = "sf_v2" \/ ~maxArray

Ends == stages = << >> /\ UNCHANGED vars

Sfsketch ==
    /\ program \in {"sfsketch", "sf_v2"} /\ SF!Next
    /\ UNCHANGED <<fixed, table, s, clipped, counts, refused>>
Cmsketch ==
    /\ program = "cmsketch" /\ CM!Next
    /\ UNCHANGED <<fixed, twoLevel, s, clipped, counts, refused>>
Csketch ==
    /\ program = "csketch" /\ CS!Next
    /\ UNCHANGED <<fixed, twoLevel, cut, lossy, table, counts, refused>>
Cmcusketch ==
    /\ program = "cmcusketch" /\ CU!Next
    /\ UNCHANGED <<fixed, twoLevel, cut, lossy, s, clipped, counts, refused>>
Cmlsketch ==
    /\ program = "cmlsketch" /\ CL!Next
    /\ UNCHANGED <<fixed, twoLevel, cut, lossy, s, clipped, counts, refused>>
Cqfilter ==
    /\ program = "cqfilter" /\ CQF!Next
    /\ UNCHANGED <<fixed, twoLevel, cut, lossy, table, s, clipped>>

Next ==
    \/ Sfsketch \/ Cmsketch \/ Csketch \/ Cmcusketch \/ Cmlsketch \/ Cqfilter
    \/ Ends

Spec == Init /\ [][Next]_vars /\ WF_vars(Next)

-----------------------------------------------------------------------------
(* Properties *)

(* Every request touched is a request of the trace, although the loops of  *)
(* the deletion go on where another one stopped and those of the reverse   *)
(* run never look at the index inside a chunk.                             *)
IndexInRange ==
    \/ InLoop /\ More
    \/ In("reverse") /\ phase \in {"forwardOps", "reverseOps"} /\ todo > 0
    => index \in 0 .. (Num - 1)

(* A reverse run of SF_FINAL answers from a slim array it never composes.  *)
NeverComposes == program = "sfsketch" /\ options.reverse

(* Whatever files come before, an answer that a program with a one-sided   *)
(* sketch leaves in an output file covers the net count its key had when   *)
(* it was written, whichever stage or chunk it was written in: up to a     *)
(* counter that was cut before a deletion or an insertion that the filter  *)
(* has refused, and but for a reverse run of SF_FINAL.                     *)
AnswersCover ==
    (program \notin {"csketch", "cmlsketch"} /\ ~NeverComposes /\ ~lossy /\ ~refused) =>
        \A f \in DOMAIN outputs : \A i \in DOMAIN outputs[f] :
            LET l == outputs[f][i] IN l.value >= (IF l.count < MaxC THEN l.count ELSE MaxC)

Asked == Queries(Loaded(QueryFile, 0))
AnswersAll(f) ==
    /\ f \in DOMAIN outputs
    /\ [i \in DOMAIN outputs[f] |-> outputs[f][i].key] = [i \in DOMAIN Asked |-> Asked[i].key]

(* When a program has come to the end of main() - it may also call exit(), *)
(* with status 0 where it cannot write down a time, and leave the queries  *)
(* unanswered - each output file it was run for answers the queries of the *)
(* query file, all of them, once and in their order, although the updates  *)
(* were first run into the same file; a reverse run leaves one file for    *)
(* every chunk and direction, and passes over what is no query.            *)
OutputsComplete ==
    (stages = << >> /\ ~exited) =>
        IF options.reverse
        THEN options.subfiles = 0 =>
                LET chunks == (Num + interval - 1) \div interval
                IN \A k \in 1 .. chunks :
                       AnswersAll(<<"forward", k>>) /\ AnswersAll(<<"reverse", k - 1>>)
        ELSE \A i \in 0 .. options.subfiles :
                (options.timed /\ i = 0) \/ AnswersAll(Output(i))

Zero == [d \in 0 .. (D - 1) |-> [c \in 0 .. (WR - 1) |-> 0]]

(* A file X_r_k.out is written at the state of the trace that X_k.out was: *)
(* the same true counts and, until an addition is cut, the same counters;  *)
(* r_0 is written when everything is undone and the counters are back at   *)
(* zero.                                                                   *)
FilesMirror ==
    program \in {"sf_v2", "cmsketch", "csketch"} =>
        \A f \in DOMAIN outputs : f[1] = "reverse" =>
            \A i \in DOMAIN outputs[f] :
                LET back  == outputs[f][i]
                    forth == outputs[<<"forward", f[2]>>][i]
                IN IF f[2] = 0
                   THEN back.count = 0 /\ (cut \/ clipped \/ back.content = Zero)
                   ELSE /\ <<"forward", f[2]>> \in DOMAIN outputs
                        /\ back.count = forth.count
                        /\ cut \/ clipped \/ back.content = forth.content

(* The program ends: usage() calls -r the "number of operations per        *)
(* interval", which is at least one.                                       *)
Terminates == <>(stages = << >>)
=============================================================================
