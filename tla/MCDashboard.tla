----------------------------- MODULE MCDashboard -----------------------------
(***************************************************************************)
(* Finite instances of DashboardServer.  A behaviour picks a cast, the     *)
(* connections that are ever opened in it: agents that share or miss a     *)
(* name, an agent or a push client beside dashboards that come and go, or  *)
(* agents beside a control client.                                         *)
(***************************************************************************)
EXTENDS DashboardServer

CONSTANTS a1, a2, a3, d1, d2, p1, k1, m1, m2

VARIABLE cast

Casts == {{a1, a2, d1}, {a1, d1, d2}, {p1, d1, d2}, {a1, a2, a3, k1}}

\* Connections that are alike are opened in one order, and agent a1 takes the first of the
\* names that are alike.
Opened ==
  /\ \A h \in Conn : pc'[h] # "new" => h \in cast
  /\ pc'[a2] # "new" => pc'[a1] # "new"
  /\ pc'[a3] # "new" => pc'[a2] # "new"
  /\ pc'[d2] # "new" => pc'[d1] # "new"
  /\ machine_id'[a1] # m2
  /\ d1 \notin cast => /\ machine_id'[a1] # EmptyName /\ machine_id'[a2] \in {None, m2}
                      /\ machine_id'[a3] \in {None, m1}

DashboardInit == cast \in Casts /\ Init
DashboardNext == Next /\ Opened /\ UNCHANGED cast
DashboardSpec == DashboardInit /\ [][DashboardNext]_<<vars, cast>>
DashboardFairSpec == DashboardSpec /\ Fairness

=============================================================================
