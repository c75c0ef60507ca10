SPECIFICATION PhoneFairSpec
CONSTANTS
    a = a  b = b  e1 = e1  e2 = e2  e3 = e3
    Nobody = Nobody
    Users <- MCUsers
    Entries <- MCEntries
    Owner <- MCOwner
    Rank <- MCRank
    Refused = {e1}
    Volatile = {e2}
    MaxLogins = 2
    MaxMishaps = 2
INVARIANT PhoneInv
PROPERTIES EveryEntrySettles
\* The bound on sign-ins is reached, nobody is signed in and the app was killed.
CHECK_DEADLOCK FALSE
