---------------------------- MODULE MCHotReload ----------------------------
(* Instances of HotReload for TLC. *)
EXTENDS HotReload

CONSTANTS w1, w2, r1, r2, mem, bot, hot

MCFields == {mem, bot, hot}
MCRank   == [c \in {mem, bot, hot} |-> IF c = mem THEN 1 ELSE IF c = bot THEN 2 ELSE 3]
MCEditOf == [r \in Requests |-> IF r = r1 THEN mem ELSE bot]
\* both components change; one changes and watching is switched off; an
\* unreadable file
MCUserFiles ==
  {[c \in {mem, bot, hot} |-> TRUE], [c \in {mem, bot, hot} |-> c = mem], Broken}
MCStart  == [c \in {mem, bot, hot} |-> c = hot]
=============================================================================
