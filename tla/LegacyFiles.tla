----------------------------- MODULE LegacyFiles -----------------------------
(***************************************************************************)
(* LegacyFiles: how the /etc/argon*.conf files of the Python daemon are    *)
(* read.  A line is a key and a value; comments and lines without "=" are  *)
(* passed over and so left out here.  "bad" is a value that does not       *)
(* parse.  The three readers differ in which of several lines for one key  *)
(* counts, and in what one that does not parse does.                       *)
(***************************************************************************)
EXTENDS Naturals, Sequences, SequencesExt, FiniteSetsExt

CONSTANTS
  Line,      \* bound: the lines of a file
  MaxLines   \* bound: the lines in a file

ASSUME LinesAssumption == Line \subseteq [key : STRING, value : STRING] /\ MaxLines \in Nat

VARIABLE contents   \* the lines of a file, whichever of the three it is read as

-----------------------------------------------------------------------------
mut_keep(cfg, line, field) == [cfg EXCEPT ![field] = line.value]
keep(cfg, line, field) == IF line.value = "bad" THEN cfg ELSE [cfg EXCEPT ![field] = line.value]

truth(value) == IF value \in {"Y", "y", "1", "true"} THEN "on" ELSE "off"

(* OledConfig::parse: a number that does not parse is passed over.         *)
oled_default == [switchduration |-> "10", screensaver |-> "120", screenlist |-> "clock ip", enabled |-> "on"]

oled_line(cfg, line) ==
  IF line.key \in {"switchduration", "screensaver"} THEN keep(cfg, line, line.key)
  ELSE IF line.key = "screenlist" THEN [cfg EXCEPT !.screenlist = line.value]
  ELSE IF line.key = "enabled" THEN [cfg EXCEPT !.enabled = truth(line.value)]
  ELSE cfg

OledConfig_parse(lines) ==
  LET after[n \in 0..Len(lines)] ==
        IF n = 0 THEN oled_default ELSE oled_line(after[n - 1], lines[n])
  IN  after[Len(lines)]

(* RtcSchedule::parse: a time that does not parse takes the entry away.    *)
rtc_default == [enabled |-> "off", wake |-> "bad", sleep |-> "bad"]

rtc_line(cfg, line) ==
  IF line.key \in {"wake", "sleep"} THEN [cfg EXCEPT ![line.key] = line.value]
  ELSE IF line.key = "enabled" THEN [cfg EXCEPT !.enabled = truth(line.value)]
  ELSE cfg

RtcSchedule_parse(lines) ==
  LET after[n \in 0..Len(lines)] ==
        IF n = 0 THEN rtc_default ELSE rtc_line(after[n - 1], lines[n])
      cfg == after[Len(lines)]
      entry(kind) == IF cfg[kind] = "bad" THEN <<>> ELSE <<[kind |-> kind, at |-> cfg[kind]]>>
  IN  [enabled |-> cfg.enabled, entries |-> entry("wake") \o entry("sleep")]

(* TempUnit::load_or_default: the first line for the key decides.          *)
TempUnit_parse(lines) ==
  LET i == SelectInSeq(lines, LAMBDA line : line.key = "temperature")
  IN  IF i # 0 /\ lines[i].value \in {"F", "f"} THEN "F" ELSE "C"

-----------------------------------------------------------------------------
FilesInit == contents = <<>>

AddLine ==
  /\ Len(contents) < MaxLines
  /\ \E line \in Line : contents' = Append(contents, line)

-----------------------------------------------------------------------------
(* The lines for a key that pass a test; the last of them.                 *)
Of(key, Test(_)) == { i \in DOMAIN contents : contents[i].key = key /\ Test(contents[i].value) }
LastOf(key, Test(_), otherwise) ==
  IF Of(key, Test) = {} THEN otherwise ELSE contents[Max(Of(key, Test))].value

Whatever(value) == TRUE
Good(value)     == value # "bad"

(* Whatever lines stand in a file, in whatever order and however often:    *)
(* the panel keeps the last number that parses, the schedule the last time *)
(* of each kind if that one parses, wake before sleep, and the unit is the *)
(* first one; a switch is on if its last line says so.                     *)
SameLinesCount ==
  LET oled == OledConfig_parse(contents)
      rtc  == RtcSchedule_parse(contents)
      times == [ kind \in {"wake", "sleep"} |-> LastOf(kind, Whatever, "bad") ]
  IN  /\ \A key \in {"switchduration", "screensaver"} : oled[key] = LastOf(key, Good, oled_default[key])
      /\ oled.screenlist = LastOf("screenlist", Whatever, oled_default.screenlist)
      /\ oled.enabled = "on" <=> LastOf("enabled", Whatever, "Y") \in {"Y", "y", "1", "true"}
      /\ rtc.enabled = "on" <=> LastOf("enabled", Whatever, "N") \in {"Y", "y", "1", "true"}
      /\ { <<e.kind, e.at>> : e \in Range(rtc.entries) } = { <<k, times[k]>> : k \in { m \in DOMAIN times : times[m] # "bad" } }
      /\ Len(rtc.entries) = 2 => rtc.entries[1].kind = "wake"
      /\ TempUnit_parse(contents) = "F"
           <=> /\ Of("temperature", Whatever) # {}
               /\ contents[Min(Of("temperature", Whatever))].value \in {"F", "f"}
=============================================================================
