\* Two servers that take turns to lead for three terms, a client that puts and one that
\* gets; two commands, and a third while only the first leader has taken part; one handler
\* that is late; server 0 may crash.
CONSTANTS
    Server = {0, 1}
    MaxTerm = 3
    Winner <- Turns
    Client = {c1, c2}
    Key = {k}
    Value = {x}
    NoValue = NoValue
    MaxVersion = 1
    Putter = {c1}
    Getter = {c2}
    MaxOps = 3
    MaxLate = 1
    MaxRaftState = 2
    Crashing = {0}
SPECIFICATION Spec
VIEW View
CONSTRAINT FewCommands
INVARIANTS NoSubmitIsStuck
PROPERTIES ReplicatedServiceImplemented
CHECK_DEADLOCK FALSE
