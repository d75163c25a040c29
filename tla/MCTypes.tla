------------------------------ MODULE MCTypes -------------------------------
(***************************************************************************)
(* The data types, each on its own: a behaviour picks one part, whose      *)
(* module takes all the steps while the others stay in their first states. *)
(***************************************************************************)
EXTENDS StreamGroups, SetType, ZSetType, BlockedClients, Integers, Sequences

VARIABLE part   \* the part that runs

-----------------------------------------------------------------------------
MCIdleSets == {{}, {1, 3}, {2}, 0 .. 3}

-----------------------------------------------------------------------------
MCSElem == {-2, 0, 2, 9}

-----------------------------------------------------------------------------
MCAddElems == {<<1>>, <<2>>, <<3>>, <<2, 1>>, <<3, 3>>}

-----------------------------------------------------------------------------
\* Client c pops from lists and sorted sets and moves, d pops from the left of lists.
BlockedStep ==
  \/ Transaction \/ Simple \/ DisconnectAll
  \/ \E keys \in {<<"a">>, <<"b">>, <<"b", "a">>}, where \in {"left", "right"} : BlockingPop("c", keys, "list", where)
  \/ \E keys \in {<<"a">>, <<"a", "b">>, <<"a", "a">>} : BlockingPop("d", keys, "list", "left")
  \/ \E k \in {"a", "b"} : BlockingPop("c", <<k>>, "zset", "left") \/ \E dst \in {"a", "b"} : BlockingMove("c", k, dst)
  \/ \E x \in {"c", "d"} : Unblock(x)

-----------------------------------------------------------------------------
\* Only part p runs.
OnlyPart(p) ==
  /\ part = p /\ part' = part
  /\ p # "streams" => UNCHANGED <<master, replica, broken>>
  /\ p # "sets" => UNCHANGED <<sdb, srepl, scall>>
  /\ p # "zsets" => UNCHANGED <<zmaster, zreplica, zdead, zlast>>
  /\ p # "blocked" => UNCHANGED <<bsrv, brepl, pushed, taken, gone, arrival, mixed, overwritten,
            served>>

TypesInit ==
  /\ part \in {"streams", "sets", "zsets", "blocked"}
  /\ StInit
  /\ SetInit
  /\ ZInit
  /\ BcInit

TypesNext ==
  \/ OnlyPart("streams") /\ StNext
  \/ OnlyPart("sets") /\ SetNext
  \/ OnlyPart("zsets") /\ ZNext
  \/ OnlyPart("blocked") /\ BlockedStep

typesvars == <<part, master, replica, broken, sdb, srepl, scall, zmaster, zreplica, zdead, zlast,
                bsrv, brepl, pushed, taken, gone, arrival, mixed, overwritten, served>>
TypesSpec == TypesInit /\ [][TypesNext]_typesvars

\* What only records the last operation is not part of the state.
TypesView == <<part, master, replica, broken, sdb, srepl, zmaster, zreplica, zdead, bsrv, brepl,
               pushed, taken, gone, arrival, mixed, overwritten>>

-----------------------------------------------------------------------------
(* What the parts promise. *)

\* A replica that runs what its master propagates ends with the same streams, sets,
\* sorted sets and lists, whatever its own encodings (propagate and its callers).
ReplicasFollow ==
  /\ part = "streams" => ReplicaFollows
  /\ part = "sets" => ReplicaHasSets
  /\ part = "zsets" => ReplicaHasZSets
  /\ part = "blocked" => ReplicaHasLists

\* The pending entries of a group and of its consumers agree, and sets and sorted sets
\* keep to the limits and the order of their encodings (t_stream.c, t_set.c, t_zset.c).
ValuesWellFormed ==
  /\ part = "streams" => PelsAgree
  /\ part = "sets" => SetsWellFormed
  /\ part = "zsets" => ZSetsWellFormed

\* Blocked clients are in the lists of their keys, none waits beside an element it could
\* have, and no element is lost on the way (blocked.c).
BlockedServed ==
  part = "blocked" => WaitersListed /\ NobodyWaitsInVain /\ NothingLost

\* Sorted-set commands have the effect of their reference definitions, and clients that
\* wait for one type of value are served in the order in which they came (t_zset.c,
\* handleClientsBlockedOnKeys).
CommandsAsTold ==
  [][/\ part = "zsets" => ZSetsAsTold
     /\ part = "blocked" => ServedInTurnUnmixed]_typesvars
=============================================================================
