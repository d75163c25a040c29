---------------------------- MODULE MCElections -----------------------------
(***************************************************************************)
(* Who is elected, and who belongs: the votes of Sentinels and of cluster  *)
(* masters, the nodes a cluster node knows, and a manual failover. A       *)
(* behaviour picks one part, whose module takes all the steps while the    *)
(* others stay in their first states.                                      *)
(***************************************************************************)
EXTENDS SentinelElection, ClusterConfig, Membership

CONSTANTS s1, s2, s3, A, B, C, R1, R2

VARIABLE part   \* the part that runs

-----------------------------------------------------------------------------
\* Sentinels s1 and s2 start failovers, s1 first; s3 only votes.  Only s1 is
\* told to fail over, and the epoch of s3 is raised by requests
\* only.  Only s3 fails to write its file or restarts.
SentinelStep ==
  /\ SeNext
  /\ sent'[s3].state = "NONE"
  /\ sent'[s2].failover_epoch # 0 => sent[s2].failover_epoch # 0 \/ sent[s1].failover_epoch # 0 \/ asked # {}
  /\ ~sent'[s2].force
  /\ sefaults' # sefaults => sent'[s1] = sent[s1] /\ sent'[s2] = sent[s2]
  /\ sent'[s3].epoch > sent[s3].epoch => sent'[s3].leader_epoch = sent'[s3].epoch

-----------------------------------------------------------------------------
(* Masters A, B and C, and two replicas of A. *)
Ids == [i \in Node |-> CASE i = A -> 1 [] i = B -> 2 [] i = C -> 3 [] i = R1 -> 4 [] i = R2 -> 5]
Slots == 0 .. 2
Owners == [s \in Slots |-> CASE s = 0 -> A [] s = 1 -> B [] s = 2 -> C]
Masters == [i \in Node |-> IF i \in {R1, R2} THEN A ELSE None]
Epochs == [i \in Node |-> IF Masters[i] = None THEN Ids[i] ELSE 0]

\* A packet that would change nothing stays in net, as if it were lost: no
\* state of the nodes is missed, and the states that differ only in it merge.
\* Only R2 is told to fail over manually, and only B restarts.
ClusterStep == /\ Next
               /\ <<conf, auth, won>>' # <<conf, auth, won>> \/ ~(net' \subseteq net)
               /\ \A p \in net' : p.forceack => p.sender = R2
               /\ faults' # faults => \A i \in Node \ {B} : conf'[i] = conf[i] /\ auth'[i] = auth[i]

-----------------------------------------------------------------------------
\* Only part p runs.
OnlyPart(p) ==
  /\ part = p /\ part' = part
  /\ p # "sentinels" => UNCHANGED <<sent, file, asked, votes, sewon, seforgotten, sefaults>>
  /\ p # "cluster" => UNCHANGED <<conf, saved, auth, net, won, forgotten, faults>>
  /\ p # "members" => UNCHANGED <<cn, tidy, nmo>>
  /\ p # "manual" => UNCHANGED <<mfclock, moffset, soffset, mfs, mfm, bus, mfasked, role, crond,
            attempt, heard, fresh, promoted>>

ElectionsInit ==
  /\ part \in {"sentinels", "cluster", "members", "manual"}
  /\ SeInit
  /\ Init
  /\ MInitOf("a", {"a", "b"}) \/ (part = "members" /\ MInitOf("a", {"a", "b", "c"}))
  /\ MfInit

ElectionsNext ==
  \/ OnlyPart("sentinels") /\ SentinelStep
  \/ OnlyPart("cluster") /\ ClusterStep
  \/ OnlyPart("members") /\ MNext
  \/ OnlyPart("manual") /\ MfNext

electionsvars == <<part, sent, file, asked, votes, sewon, seforgotten, sefaults, conf, saved, auth,
                    net, won, forgotten, faults, cn, tidy, nmo, mfclock, moffset, soffset, mfs,
                    mfm, bus, mfasked, role, crond, attempt, heard, fresh, promoted>>
ElectionsSpec == ElectionsInit /\ [][ElectionsNext]_electionsvars

-----------------------------------------------------------------------------
(* What the parts promise. *)

\* Tables of nodes hold together: no link, report or slave points to a node that is gone,
\* and a node that is no longer in handshake has told its real name to somebody
\* (clusterRenameNode, clusterDelNode).
NodesKnown ==
  part = "members" => NoDangling /\ SettledMeansJoined

\* What joining, forgetting and a manual failover may never do: bring back a node that
\* CLUSTER FORGET has removed, promote a replica without the last write of its master, or
\* let the old master write after it.
MembershipSteps ==
  [][/\ part = "members" => ForgottenStaysOut
     /\ part = "manual" => ManualKeepsWrites /\ OldMasterSilent]_electionsvars
=============================================================================
