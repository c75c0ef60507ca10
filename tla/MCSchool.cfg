SPECIFICATION SchoolSpec
CONSTANTS
    a1 = a1  a2 = a2  s1 = s1  s2 = s2  s3 = s3  t1 = t1  t2 = t2  c1 = c1  c2 = c2
    like = like  heart = heart  home = home  other = other  Post = Post  Likes = Likes  Nothing = Nothing
    Admins <- MCAdmins
    Students <- MCStudents
    Teachers <- MCTeachers
    Classes <- MCClasses
    Comments <- MCClasses
    Users <- MCUsers
    Types <- MCTypes
    Reporters <- MCTeachers
    Home = home
    Elsewhere <- MCElsewhere
    Workers <- MCAdmins
    Threshold = 2
    MaxRequests = 3
    MaxMishaps = 1
    Cap = 2
    Capacity = 1
    MaxCalls = 3
    MaxFailures = 1
SYMMETRY Symmetry
INVARIANTS RollInv GroupInStep OneHomeroom NoOrphanAccount DiscourseInv PhonesInStep
\* The requests are bounded.
CHECK_DEADLOCK FALSE
