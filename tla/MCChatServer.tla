----------------------------- MODULE MCChatServer -----------------------------
EXTENDS ChatServer

\* Which connections are cut short, and how.
NoneEnds   == [c \in Conns |-> {}]
FirstReset == [c \in Conns |-> IF c = 1 THEN {"rst"} ELSE {}]
AllEnd     == [c \in Conns |-> {"fin", "rst"}]

\* What the clients send.
Each(cmds) == [c \in Conns |-> cmds]
EveryCommand    == Each(1 .. 5)
AccountCommands == Each({1, 2, 3})
RoomCommands    == Each({1, 5})
TalkCommands    == Each({1, 4, 5})
\* The first client enters rooms, the second one only logs in.
OneInRoom       == [c \in Conns |-> IF c = 1 THEN {1, 5} ELSE {1}]

Ann1 == [name |-> "ann", pass |-> "p"]
ANN2 == [name |-> "ANN", pass |-> "q"]
OneCred  == {Ann1}
TwoCreds == {Ann1, ANN2}
CaseLike == [n \in {"ann", "ANN", "p", "q"} |->
                 IF n \in {"ann", "ANN"} THEN {"ann", "ANN"} ELSE {n}]
===============================================================================
