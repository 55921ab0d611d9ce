-------------------------- MODULE InsertComparison --------------------------
(***************************************************************************)
(* One insert-only trace replayed through four programs, as the experiment *)
(* scripts do: the SF_V1 sketch, and a Count-Min, a conservative-update    *)
(* and a Count-Min-Log sketch with the slim array's size and hash          *)
(* functions.  The four share nothing but the trace.                       *)
(***************************************************************************)
EXTENDS SFV1

CONSTANT Cap    \* limit of the Count-Min-Log sketch

ASSUME CapAssumption == Cap \in 1..MaxC

VARIABLES
    cm, cmCut, cmLossy,    \* the state of the Count-Min sketch
    cu,                    \* the counters of the conservative-update sketch
    cml                    \* the counters of the Count-Min-Log sketch

CM  == INSTANCE CMSketch WITH table <- cm, cut <- cmCut, lossy <- cmLossy,
                              W <- WL, MaxCounter <- MaxC, Hash <- HashL
CU  == INSTANCE CMCUSketch WITH table <- cu, W <- WL, MaxCounter <- MaxC, Hash <- HashL
CML == INSTANCE CMLSketch WITH table <- cml, W <- WL, MaxCounter <- MaxC, Hash <- HashL

allVars == <<vars, cm, cmCut, cmLossy, cu, cml>>

CompareInit == Init /\ CM!Init /\ CU!Init /\ CML!Init

InsertEverywhere(x, delta) ==
    Inc(x, delta) /\ CM!Insert(x, delta) /\ CU!Insert(x, delta) /\ CML!Insert(x, delta)

CompareNext == \E x \in Keys, delta \in Deltas : InsertEverywhere(x, delta)

CompareSpec == CompareInit /\ [][CompareNext]_allVars

-----------------------------------------------------------------------------
(* Properties *)

Within(t, u) == \A d \in Rows, w \in LCols : t[d][w] <= u[d][w]

(* Given the same trace, the structures are ordered counter by counter:    *)
(* the slim array, which sees the keys only through inc_l(), stays within  *)
(* the conservative-update sketch, and so does a logarithmic counter       *)
(* however its random decisions fall; conservative update stays within     *)
(* Count-Min, what it leaves out never being needed.                       *)
CountersOrdered == Within(slim, cu) /\ Within(cml, cu) /\ Within(cu, cm)
=============================================================================
