--------------------------- MODULE MCProvisioning ---------------------------
(* Provisioning: both imported keys have a file, one of which a start reads *)
(* by itself; a file has each of the keys more than once; mdstat has arrays *)
(* of each kind.                                                            *)
EXTENDS Provisioning

MCOrder   == <<"units", "oled_config">>
MCLegacy  == [k \in {"units", "oled_config"} |-> "file"]
MCDefault == [k \in {"units", "oled_config"} |-> "default"]

MCLine ==
  [key : {"switchduration", "wake", "temperature"}, value : {"bad", "5", "F"}]
  \cup [key : {"sleep", "screenlist"}, value : {"bad", "7"}]
  \cup [key : {"enabled"}, value : {"1", "N"}]

Marked(m) == <<[name |-> "sda1", mark |-> ""], [name |-> "sdb1", mark |-> m]>>
Raid(runs, readonly, members, counts) ==
  [name |-> "md0", runs |-> runs, readonly |-> readonly, level |-> "raid1", members |-> members, counts |-> counts]
MCListed ==
  { Raid(runs, FALSE, Marked(""), None) : runs \in BOOLEAN }
  \cup { Raid(TRUE, readonly, Marked(m), <<2, 2>>) : readonly \in BOOLEAN, m \in {"", "S"} }
  \cup { Raid(TRUE, readonly, Marked("F"), <<2, 1>>) : readonly \in BOOLEAN }
=============================================================================
