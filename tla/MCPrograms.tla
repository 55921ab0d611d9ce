----------------------------- MODULE MCPrograms -----------------------------
(* Two keys; traces of up to MaxLen updates that delete no more of a key   *)
(* than is there; a subfile, or none where -n asks for one; files whose    *)
(* header counts more or fewer records than they have, or ends too early;  *)
(* queries with an update among them.                                      *)
EXTENDS Programs, Functions, TLC
CONSTANTS a, b, MaxLen

MCHash == a :> (0 :> 0 @@ 1 :> 1) @@ b :> (0 :> 1 @@ 1 :> 0)
MCDeltas == {0, 1, 2}
MCSign == a :> (0 :> 1 @@ 1 :> -1) @@ b :> (0 :> 1 @@ 1 :> 1)
MCFingerprint == a :> 1 @@ b :> 2

Request(type, key, delta) == [type |-> type, key |-> key, delta |-> delta]
Requests ==
    {Request("init", a, 0), Request("inc", a, 2), Request("inc", b, 1), Request("dec", a, 1)}

Given(t, x, n) ==
    FoldFunction(LAMBDA x1, y1 : x1 + y1, 0, [i \in 1..n |->
        IF t[i].key # x THEN 0
        ELSE CASE t[i].type = "inc" -> t[i].delta [] t[i].type = "dec" -> 0 - t[i].delta
               [] OTHER -> 0])
Valid(t) == \A n \in 1 .. Len(t), x \in Keys : Given(t, x, n) >= 0
Traces == {t \in UNION {[1..n -> Requests] : n \in 0..MaxLen} : Valid(t)}

File(num, records) == [num |-> num, records |-> records]
Whole(t) == File(Len(t), t)
MCRecords == Requests \union {Request("inc", a, 1), Request("get", a, 0), Request("get", b, 0)}
Query == Whole(<<Request("get", a, 0), Request("get", b, 0)>>)
Mixed == Whole(<<Request("get", a, 0), Request("inc", a, 1), Request("get", b, 0)>>)
Empty == File(NoNumber, << >>)
Subfile == Whole(<<Request("inc", a, 1)>>)
Files(first, query, more) == UpdatesFile(0) :> first @@ QueryFile :> query @@ more

MCFileSets ==
    {Files(Whole(t), Query, UpdatesFile(1) :> Subfile) : t \in Traces}
    \union {Files(Whole(t), Mixed, UpdatesFile(1) :> Empty) : t \in {u \in Traces : Len(u) <= 1}}
    \union {Files(File(n, <<Request("inc", a, 2)>>), Query, << >>) : n \in 0..2}
    \union {Files(first, Empty, << >>) : first \in {Empty, Whole(<< >>), Subfile}}
=============================================================================
