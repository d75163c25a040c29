---------------------------- MODULE MCStructures ----------------------------
(***************************************************************************)
(* The data structures underneath the data types, and the strings used as  *)
(* bitmaps and HyperLogLogs: a behaviour picks one part, whose module      *)
(* takes all the steps while the others stay in their first states.        *)
(***************************************************************************)
EXTENDS SkipList, QuickList, Dict, ZipList, Rax, BitOps, HyperLogLog, Integers, Sequences, FiniteSets, TLC

VARIABLE part   \* the part that runs

-----------------------------------------------------------------------------
Hashes == "a" :> 0 @@ "b" :> 4 @@ "c" :> 3

-----------------------------------------------------------------------------
(* Ziplists and listpacks share a module. *)
ZipVals == {<<"i", 5>>, <<"s", 248>>, <<"s", 300>>}
ZipInts == {<<"i", n>> : n \in {0, 12, 13, 127, 128, 32767, 32768, 8388607, 8388608,
                               -1, -128, -129, -32768, -32769, -8388608, -8388609}}
MCLpValues == {<<"i", 5>>, <<"i", -4096>>, <<"i", -32769>>, <<"i", 8388608>>, <<"s", 2>>, <<"s", 126>>}

\* A list that is to be merged is first completed; one with another integer is only read.
ZipStep == ZlNext /\ (zmerge.e # <<>> => zmerge' # zmerge) /\ (\A i \in DOMAIN zvals : zvals[i] \in ZipVals)

-----------------------------------------------------------------------------
RadixKeys == {<<>>, <<1, 2>>, <<1, 2, 1>>, <<1, 2, 2, 1>>, <<2>>, <<1, 1, 2, 3>>}
RadixProbes == UNION {[1 .. n -> 1 .. 2] : n \in 0 .. 3} \cup RadixKeys
               \cup {<<1, 2, 2>>, <<1, 2, 2, 1, 1>>, <<1, 1, 2, 3, 1>>, <<1, 1, 2, 2>>}

-----------------------------------------------------------------------------
(* Bitmaps: one command per behaviour, on strings of up to five bytes of three bits. *)
b0 == <<0, 0, 0>>
b1 == <<0, 0, 1>>
b5 == <<1, 0, 1>>
b7 == <<1, 1, 1>>
NoStr == [kind |-> "none", s |-> <<>>]
NotStr == [kind |-> "other", s |-> <<>>]
Strs == {NoStr, NotStr, Str(<<>>), Str(<<b7, b7, b7>>), Str(<<b0, b0, b0, b1>>), Str(<<b7, b7, b7, b7, b5>>)}
         \cup {Str(<<x>>) : x \in {b7, b5}} \cup {Str(<<x, y>>) : x \in {b0, b7}, y \in {b5, b7, b0}}
Field(op, sg, n, h, o, v, w) == [op |-> op, sign |-> sg, bits |-> n, hash |-> h, off |-> o, val |-> v, ow |-> w]
FieldWrites == {Field(op, t[1], t[2], FALSE, o, v, w) :
                  op \in {"set", "incrby"}, t \in {<<TRUE, 3>>, <<TRUE, 6>>, <<FALSE, 2>>, <<FALSE, 5>>},
                  o \in {0, 4}, v \in {-20, -1, 3, 31}, w \in {"wrap", "sat", "fail"}}
FieldReads == {Field("get", t[1], t[2], h, o, 0, "wrap") :
                 t \in {<<TRUE, 1>>, <<TRUE, 6>>, <<FALSE, 5>>, <<FALSE, 6>>, <<FALSE, 0>>},
                 h \in BOOLEAN, o \in {-1, 0, 2, 5, 18}}
Paired == {Field("set", TRUE, 3, TRUE, 1, 2, "wrap"), Field("incrby", TRUE, 3, TRUE, 1, 3, "fail"),
           Field("incrby", FALSE, 4, FALSE, 2, 9, "sat"), Field("get", TRUE, 6, FALSE, 1, 0, "wrap")}
\* Two keys of interest; otherwise the second is missing.
TwoStrs == {<<Str(<<b7, b5>>), Str(<<b5>>)>>, <<Str(<<b7, b7, b7>>), Str(<<b0, b0, b0, b1>>)>>,
             <<Str(<<b7, b7, b7, b7, b5>>), Str(<<b5, b5>>)>>, <<Str(<<b7, b7, b7>>), NotStr>>,
             <<Str(<<>>), Str(<<>>)>>, <<Str(<<b7>>), Str(<<b5, b0>>)>>, <<Str(<<b7, b5>>), Str(<<b0, b7>>)>>}
MCRanges == {<<>>, <<0>>, <<1>>, <<-1>>, <<4>>, <<0, 0>>, <<1, -1>>, <<-2, -1>>, <<-1, -2>>, <<2, 1>>, <<0, 9>>, <<1, 3>>}
MCSrcLists == {<<"k1">>, <<"k2">>, <<"k1", "k2">>, <<"k2", "k1">>, <<"k1", "k2", "k1">>}
MCFields == {<<f>> : f \in FieldWrites \cup FieldReads} \cup {<<f, g>> : f \in Paired, g \in Paired}

-----------------------------------------------------------------------------
(* HyperLogLogs of 16 registers: "a" gets all elements, "b" one of them. *)
HllElems == {<<1, 2>>, <<2, 2>>, <<3, 2>>, <<2, 3>>, <<13, 33>>}
HllStep ==
  \/ \E k \in {"a", "b"}, e \in HllElems : (k = "a" \/ e = <<2, 3>>) /\ Pfadd(k, <<e>>)
  \/ Pfmerge("a", {"b"}) \/ Pfmerge("b", {"a"})
  \/ \E k \in {"a", "b"} : Pfadd(k, <<>>) \/ Pfcount(k)
  \/ PfcountAll({"a", "b"})

-----------------------------------------------------------------------------
\* Only part p runs.
OnlyPart(p) ==
  /\ part = p /\ part' = part
  /\ p # "skiplist" => UNCHANGED <<zsl, zdict, zcall>>
  /\ p # "quicklist" => UNCHANGED <<ql, qcall>>
  /\ p # "dict" => UNCHANGED <<ht, rehashidx, pauserehash, canResize, contents, scan, iter, sample,
            nDict>>
  /\ p # "ziplist" => UNCHANGED <<zl, zmerge, zvals, zpick, zok>>
  /\ p # "listpack" => UNCHANGED <<lp, lpp, lpvals, lpidx>>
  /\ p # "rax" => UNCHANGED <<rax, raxmap>>
  /\ p # "bits" => UNCHANGED <<bdb, bcall>>
  /\ p # "hll" => UNCHANGED <<hll, hreg, hcall, hdirty>>

StructuresInit ==
  /\ part \in {"skiplist", "quicklist", "dict", "ziplist", "listpack", "rax", "bits", "hll"}
  /\ Init
  /\ QInit
  /\ DictInit
  /\ part # "dict" => contents = {} /\ Cardinality(DOMAIN ht[1]) = 2
  /\ ZlInit
  /\ LpInit
  /\ RxInit
  /\ BoInit
  /\ bdb["k2"] = NoStr \/ (part = "bits" /\ <<bdb["k1"], bdb["k2"]>> \in TwoStrs)
  /\ part # "bits" => bdb["k1"] = NoStr
  /\ HlInit

StructuresNext ==
  \/ OnlyPart("skiplist") /\ Next
  \/ OnlyPart("quicklist") /\ QNextState
  \/ OnlyPart("dict") /\ DictNext
  \/ OnlyPart("ziplist") /\ ZipStep
  \/ OnlyPart("listpack") /\ LpNext
  \/ OnlyPart("rax") /\ RxNext
  \/ OnlyPart("bits") /\ BoNext
  \/ OnlyPart("hll") /\ HllStep

structuresvars == <<part, zsl, zdict, zcall, ql, qcall, ht, rehashidx, pauserehash, canResize,
                     contents, scan, iter, sample, nDict, zl, zmerge, zvals, zpick, zok, lp, lpp,
                     lpvals, lpidx, rax, raxmap, bdb, bcall, hll, hreg, hcall, hdirty>>
StructuresSpec == StructuresInit /\ [][StructuresNext]_structuresvars

\* What only records the last operation is not part of the state.
StructuresView == <<part, zsl, zdict, ql, ht, rehashidx, pauserehash, canResize, contents, scan,
                    iter, nDict, zl, zmerge, zvals, zok, lp, lpp, lpvals, lpidx, rax, raxmap, bdb,
                    bcall, hll, hreg>>

-----------------------------------------------------------------------------
(* What the parts promise. *)

\* Searching finds what is there: skiplists by rank and score, dicts by lookup, SCAN and
\* iterator while they rehash, radix trees by lookup, walk and seek (t_zset.c, dict.c,
\* rax.c).
SearchRight ==
  /\ part = "skiplist" => PointersRight /\ QueriesRight
  /\ part = "dict" => LookupsRight /\ ScanComplete /\ IterationExact
  /\ part = "rax" => RaxFinds /\ RaxWalks /\ RaxSeeks

\* Packed sequences keep their values and their headers: quicklist counts, ziplist and
\* listpack entries (quicklist.c, ziplist.c, listpack.c).
SequencesRight ==
  /\ part = "quicklist" => CountsRight
  /\ part = "ziplist" => ZipValid /\ ZipContents
  /\ part = "listpack" => LpContents /\ LpCursor

\* Every operation has the effect and the answer of its reference definition: on
\* skiplists, lists, samples of a dict, ziplists, bitmaps and HyperLogLogs, whose
\* registers keep the maxima in both representations.
StructuresAsTold ==
  [][/\ part = "skiplist" => SetAsTold
     /\ part = "quicklist" => ListAsTold
     /\ part = "dict" => SampleFair
     /\ part = "ziplist" => ZipAnswers
     /\ part = "bits" => BitReadsRight /\ BitopRight /\ BitfieldRight
     /\ part = "hll" => HllCountRight /\ HllWritesTold /\ HllRegisters']_structuresvars
=============================================================================
