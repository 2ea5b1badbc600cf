----------------------------- MODULE MCRobotAges -----------------------------
(* An instance of RobotAges for TLC: one command, one settings message. *)
EXTENDS RobotAges

Tok(tag, val) == [tag |-> tag, val |-> val]
Specifier == Tok("other", 0)
Control(toks) == [cmd |-> "control", tokens |-> <<Specifier>> \o toks]
Save(name, power, assisted, video) ==
  [cmd |-> "settings", name |-> name, power |-> power, assisted |-> assisted,
   video |-> video]

MCVideo == {-1, 1}
MCRawSetting == {-1, 0, 1}

AgeCoord == {0, 1}
AgeName == {"a"}
AgeMessages == { Control(<<Tok("X", 1), Tok("Y", 0)>>), Save("a", 0, 0, 1) }
==============================================================================
