SPECIFICATION FairSpec
CONSTANTS
    Senders = {s1, s2}
    Receivers = {r1, r2}
    Emptiers = {e1}
    Msg = {m1, m2}
    NoMsg = NoMsg
    NoThread = NoThread
    noElements = 2
    msgMode = "FIFO"
INVARIANT IInv
PROPERTIES ImplementsQueue EveryMessageTaken
