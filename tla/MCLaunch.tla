------------------------------ MODULE MCLaunch ------------------------------
(* Values of 100 ms for the options of Launch: depths under and over the    *)
(* default ones, so that each order of cushion, cap and ceiling occurs.     *)
EXTENDS Launch

MCOffered ==
  [segment |-> {20}, latency |-> {1, 30}, max |-> {10, 40}, ceiling |-> {1, 100},
   timeout |-> {0, 15}, grace |-> {5}, align |-> {20}, interval |-> {0, 2},
   seed |-> {1}, ssrc |-> {7}]

MCLeads == {0, 4, 20, 60}
=============================================================================
