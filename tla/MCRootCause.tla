------------------------------ MODULE MCRootCause ------------------------------
(* RootCause and RadioPoll for values at the edges of bands and patterns.   *)
EXTENDS RootCause, RadioPoll

MCValues ==
  [rssi    |-> {Unknown, -60, -70, -72, -80, -81},
   snr     |-> {30, 22, 14, 12, 11},
   noise   |-> {Unknown, -95, -88, -85, -80, -79},
   ccq     |-> {95, 85, 80, 70, 69},
   loss    |-> {2, 10, 20, 50, 51},
   latency |-> {5, 20, 100, 101},
   tx      |-> {20},
   rx      |-> {10, 16}]
=============================================================================
