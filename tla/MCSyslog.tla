-------------------------------- MODULE MCSyslog --------------------------------
(* Syslog for every FortiGate message of up to three words, and every one  *)
(* of up to two words of another device, in its head or beyond.            *)
EXTENDS Syslog, FiniteSetsExt

GenericWord == {"failed login", "rogue ap", "link down", "auth failure", "traffic blocked"}

MCMessage ==
  [type : Type, subtype : Subtype, level : {"critical", "high", "info"},
   words : UNION {kSubset(k, Word \ GenericWord) : k \in 0..3}]
  \cup
  {e \in [level : {"critical", "high", "medium", "info"},
          head : UNION {kSubset(k, GenericWord) : k \in 0..2},
          words : UNION {kSubset(k, GenericWord) : k \in 0..2}] : e.head \subseteq e.words}
=============================================================================
