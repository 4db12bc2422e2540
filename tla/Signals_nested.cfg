CONSTANTS
    q1 = q1  q2 = q2  e1 = e1  e2 = e2  e3 = e3  c1 = c1  NONE = NONE
    Queues <- MCQueues
    Events <- MCEvents
    What <- MCWhat
    Children = {c1}
    Hosts = {"other"}
    Anywhere = TRUE
    Ignores <- MCIgnores
    Closes = {q2}
    MaxSignals = 1
    MaxAdds = 2
SPECIFICATION FairSpec
PROPERTY Answered
CHECK_DEADLOCK FALSE
