-------------------------- MODULE MCDashboardView ---------------------------
(* Instances of DashboardView for TLC. *)
EXTENDS DashboardView

CONSTANTS h1, h2

TwoHosts == {h1, h2}

\* The first month and the only day are dropped, another day begins, and a
\* host goes.
TwoReports ==
    <<[hosts |-> {h1, h2}, usage_periods |-> [day |-> <<1>>, month |-> <<2, 1>>]],
      [hosts |-> {h1}, usage_periods |-> [day |-> <<2>>, month |-> <<2>>]]>>
=============================================================================
