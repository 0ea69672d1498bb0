\* Answers of up to two parts, and raw texts of up to five characters; what may be a call
\* is given up when it is longer than six, and a control token has up to two.
SPECIFICATION TextSpec
CONSTANTS
    Answers <- MCAnswers
    MaxHeld = 6
    MaxToken = 2
CHECK_DEADLOCK FALSE
INVARIANTS
    ThinkingSeparated
    NothingElseIsHeld
    ReceivedAsMeant
