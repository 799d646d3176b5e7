\* Two clerks that put to one key and read it, with lost requests and replies.
CONSTANTS
    Client = {c1, c2}
    Key = {k}
    Value = {x, y}
    NoValue = NoValue
    MaxVersion = 2
SPECIFICATION KVSpec
PROPERTIES ServiceImplemented
