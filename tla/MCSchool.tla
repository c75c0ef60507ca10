------------------------------ MODULE MCSchool ------------------------------
(* ClassRoll with two requests at a time, three students, two teachers and *)
(* two classes (the school has room for two active students, a class for   *)
(* one); and BlogDiscourse with two requests at a time, two comments, two  *)
(* reporters, a user with two types of reactions, and another school.  A   *)
(* behaviour is about the roll, or about the comments, the reactions, or   *)
(* the post and its reports: these share no state (but for post.deleted,   *)
(* which only refuses requests), so that no more would be seen of them     *)
(* together than of each.                                                  *)
EXTENDS ClassRoll, BlogDiscourse, TLC
CONSTANTS a1, a2, s1, s2, s3, t1, t2, c1, c2, like, heart, home, other
VARIABLE part

MCAdmins   == {a1, a2}
MCStudents == {s1, s2, s3}
MCTeachers == {t1, t2}
MCClasses  == {c1, c2}

(* The classes stand for comments, the teachers for those who report. *)
MCUsers     == {home}
MCTypes     == {like, heart}
MCElsewhere == {other}

Symmetry   == Permutations(MCAdmins) \union Permutations(MCStudents)
              \union Permutations(MCTeachers) \union Permutations(MCClasses)

TopicsOf == [comments |-> MCClasses, reactions |-> {Likes}, post |-> {Post} \union MCTeachers]

SchoolInit ==
    /\ Init /\ BlogInit
    /\ \/ part = "roll" /\ ~platform /\ count = 0
       \/ part \in DOMAIN TopicsOf /\ auth = {} /\ (part # "comments" => count = 0)
SchoolNext ==
    /\ UNCHANGED part
    /\ \/ part = "roll" /\ Next /\ UNCHANGED blogVars
       \/ /\ part \in DOMAIN TopicsOf /\ BlogNext /\ UNCHANGED vars
          /\ \A w \in MCAdmins : h'[w].topic \in TopicsOf[part] \union {Nothing}
          /\ part # "post" => UNCHANGED reports
SchoolSpec == SchoolInit /\ [][SchoolNext]_<<vars, blogVars, part>>
=============================================================================
