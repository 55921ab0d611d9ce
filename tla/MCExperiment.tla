---------------------------- MODULE MCExperiment ----------------------------
(* The builds of bench_config.h with each script: the committed one, with  *)
(* deltas of one; one with larger deltas, additions and deletions, where a *)
(* delta of Byte or more is cut; UNIFORM_OPERATE.                          *)
EXTENDS Experiment
CONSTANTS a, b

Pieces(s, c, d, type) == [s |-> s, c |-> c, d |-> d, type |-> type]
NoCut == Pieces(0, 0, 1, "kept")

Log(script, records, n, cut) ==
    [script |-> script, records |-> records, ops |-> n, stream |-> FALSE,
     onlyOne |-> TRUE, uniform |-> FALSE, zero |-> 0, gap |-> 1, cut |-> cut]
Mixed(w)   == [w EXCEPT !.onlyOne = FALSE, !.gap = 4, !.zero = 1]
Uniform(w) == [w EXCEPT !.uniform = TRUE]
Stream(w)  == [w EXCEPT !.stream = TRUE]

MCWorkloads ==
    {Log("plain", <<a, b>>, 3, NoCut), Log("inc-dec", <<a, b>>, 3, NoCut),
     Mixed(Log("plain", <<a, b>>, 3, NoCut)), Mixed(Log("inc-dec", <<a>>, 4, NoCut)),
     Mixed(Log("inc-dec", <<a, b>>, 3, NoCut)), Mixed(Uniform(Log("plain", <<a>>, 2, NoCut))),
     [Log("plain", <<a>>, 2, NoCut) EXCEPT !.zero = 1]}
    \union {Uniform(Log("plain", <<a, b>>, n, NoCut)) : n \in {4, 5}}
    \union {Stream(Log("real", <<a, b>>, 3, NoCut))}
    \union {Stream(Log("real_inc", <<a, b>>, 4, Pieces(s, 2, d, "kept"))) : s \in {1, 5}, d \in {1, 2}}
    \union {Log("dec", <<a, b>>, 3, Pieces(0, 2, 2, t)) : t \in {"kept", "dec"}}
=============================================================================
