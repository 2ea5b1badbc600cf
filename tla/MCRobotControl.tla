--------------------------- MODULE MCRobotControl ---------------------------
(* An instance of RobotControl for TLC: many kinds of messages. *)
EXTENDS RobotControl

Tok(tag, val) == [tag |-> tag, val |-> val]
Specifier == Tok("other", 0)
Control(toks) == [cmd |-> "control", tokens |-> <<Specifier>> \o toks]
Save(name, power, assisted, video) ==
  [cmd |-> "settings", name |-> name, power |-> power, assisted |-> assisted,
   video |-> video]

MCVideo == {-1, 1}
MCRawSetting == {-1, 0, 1}

\* A command given as coordinates, one that names a coordinate twice and an
\* angle before, one given as power and angle, and one that has half of each,
\* whose values would show if they were mixed with the others;
\* two complete settings messages, one without a name, one whose video quality
\* is negative; one packet that is neither.
MCCoord == {0, 1}
MCName == {"a", "b"}
MCMessages ==
  { Control(<<Tok("X", 0), Tok("Y", 1)>>),
    Control(<<Tok("Agl", 0), Tok("X", 1), Tok("X", 0)>>),
    Control(<<Tok("Pwr", 0), Tok("Agl", 1)>>),
    Control(<<Tok("X", 1), Tok("Pwr", 1)>>),
    Save("a", 1, 0, 1), Save("b", 0, 1, 1),
    Save(NoName, 1, 1, 1), Save("a", 1, 1, -1), OtherMessage }
=============================================================================
