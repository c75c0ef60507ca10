SPECIFICATION ChatFairSpec
CONSTANTS
    m1 = m1  m2 = m2  sender = sender  other = other  w1 = w1  w2 = w2
    Nobody = Nobody
    Messages <- MCMessages
    Rank <- MCRank
    Author = sender
    Others <- MCOthers
    Workers <- MCWorkers
    MaxSetbacks = 2
INVARIANT ChatInv
PROPERTIES EveryMessageSettles
