--------------------------- MODULE BlogDiscourse ---------------------------
(***************************************************************************)
(* A blog post with its comments, reactions and reports.  They change      *)
(* through the web (BlogService) and through what phones wrote offline     *)
(* (MobileSyncService.appendSyncEvent); each request reads, writes and     *)
(* then tells the phones, in separate calls.  A post of the school is told *)
(* to the school's log before the request answers; a PLATFORM post is told *)
(* to every school's log in the background, in no order.                   *)
(***************************************************************************)
EXTENDS Naturals, FiniteSets

CONSTANTS
    Comments,       \* comments of the post
    Users, Types,   \* who reacts; reaction_type
    Reporters,      \* who reports
    Home, Elsewhere,    \* the post's school, the other schools on Growth and above
    Workers,        \* requests that run at the same time
    Post, Likes,    \* the post itself, and its likes, as topics of requests
    Nothing,
    Threshold,      \* pending reports at which a post is flagged
    MaxRequests,    \* bound on the requests
    MaxMishaps      \* bound on failed calls and deaths

VARIABLES
    platform,   \* the post's scope is PLATFORM
    post,       \* its row in blogs
    count,      \* comments_count
    comment,    \* blog_comments
    reports,    \* blog_reports: each user's pending and closed ones
    reactions,  \* blog_reactions of the post
    likes,      \* likes_count
    shown,      \* what a phone shows that has read all of its school's log
    air,        \* appends of broadcasts that are still under way
    logged,     \* entries of phones in their school's log (by client_uuid)
    acked,      \* those whose phone was told so
    h,          \* what each request is doing
    blurred,    \* what was changed by crossing requests, or told imperfectly
    uncounted,  \* a reaction came from a phone since likes were counted, or counting failed
    unseen,     \* users whose earlier report was missed, as its lookup failed
    requests, mishaps

tables == <<post, count, comment, reports, reactions, likes>>
phones == <<shown, air, logged, acked>>
blurs == <<blurred, uncounted, unseen>>
blogVars == <<platform, tables, phones, h, blurs, requests, mishaps>>

Schools == {Home} \union Elsewhere
Rows    == Users \X Types \X {"web", "phone"}
Topics  == Comments \union {Post, Likes} \union Reporters
Things  == Comments \union {Post} \union Rows
TopicOf(e) == IF e \in Rows THEN Likes ELSE e
Readers == IF platform THEN Schools ELSE {Home}

ASSUME TopicsAssumption ==
    /\ Comments \intersect Reporters = {} /\ Rows \intersect (Comments \union {Post}) = {}
    /\ {Post, Likes} \intersect (Comments \union Reporters) = {} /\ Post # Likes
    /\ Nothing \notin {"show", "hide"} /\ Home \notin Elsewhere
ASSUME SizesAssumption ==
    /\ IsFiniteSet(Comments) /\ IsFiniteSet(Reporters)
    /\ IsFiniteSet(Users) /\ IsFiniteSet(Types)
    /\ {Threshold, MaxRequests, MaxMishaps} \subseteq Nat /\ Threshold > 1

Handler == [op : {"idle", "ingest", "create", "delete", "moderate", "edit", "down", "restore",
                  "remove", "report", "toggle", "unreact"},
            step : {"idle", "append", "write", "count", "store", "zero", "close", "emit"},
            topic : Topics \union {Nothing}, on : Things \union Users \union Reporters \union {Nothing},
            arg : {"show", "hide", "keep", Nothing}, seen : SUBSET Rows, num : Nat]
NoCall == [op |-> "idle", step |-> "idle", topic |-> Nothing, on |-> Nothing,
         arg |-> Nothing, seen |-> {}, num |-> 0]

BlogTypeOK ==
    /\ platform \in BOOLEAN /\ uncounted \in BOOLEAN
    /\ post \in [deleted : BOOLEAN, down : BOOLEAN, published : BOOLEAN, flagged : BOOLEAN]
    /\ comment \in [Comments -> {"none", "visible", "hidden", "deleted"}]
    /\ reports \in [Reporters -> [pending : Nat, closed : Nat]]
    /\ count \in Nat /\ likes \in Nat /\ reactions \subseteq Rows
    /\ shown \subseteq Things \X Schools
    /\ air \subseteq [what : Things, as : BOOLEAN, at : Schools]
    /\ acked \subseteq logged /\ logged \subseteq Comments \union Rows
    /\ h \in [Workers -> Handler]
    /\ blurred \subseteq Topics \X Schools /\ unseen \subseteq Reporters
    /\ requests \in 0..MaxRequests /\ mishaps \in 0..MaxMishaps

Live(c) == comment[c] \in {"visible", "hidden"}

(* What GET /blogs lists and what it nests under a post. *)
Visible(e) ==
    CASE e = Post       -> post.published /\ ~post.down /\ ~post.deleted
      [] e \in Comments -> comment[e] = "visible"
      [] e \in Rows     -> e \in reactions

BlogInit ==
    /\ platform \in BOOLEAN
    /\ post = [deleted |-> FALSE, down |-> FALSE, published |-> TRUE, flagged |-> FALSE]
    /\ comment \in [Comments -> {"none", "visible"}]
    /\ count = Cardinality({c \in Comments : Live(c)})
    /\ reports = [u \in Reporters |-> [pending |-> 0, closed |-> 0]]
    /\ reactions = {} /\ likes = 0
    /\ shown = {x \in Things \X Readers : Visible(x[1])}
    /\ air = {} /\ logged = {} /\ acked = {}
    /\ h = [w \in Workers |-> NoCall]
    /\ blurred = {} /\ uncounted = FALSE /\ unseen = {}
    /\ requests = 0 /\ mishaps = 0

-----------------------------------------------------------------------------
(* A request begins with its first read.  Two that overlap on one topic,   *)
(* or a broadcast about it that is still under way, blur it; that an entry *)
(* of a phone overlaps leaves its own school's log in order.               *)
Busy(t) == {v \in Workers : h[v].step # "idle" /\ h[v].topic = t}
Crossing(t, op) ==
    {t} \X {s \in Schools :
              \/ \E v \in Busy(t) :
                   s = Home => t \notin Comments \/ "ingest" \notin {op, h[v].op}
              \/ \E a \in air : a.at = s /\ TopicOf(a.what) = t}

BeginCall(w, op, step, topic, on, arg, seen) ==
    /\ h[w].step = "idle" /\ requests < MaxRequests
    /\ requests' = requests + 1
    /\ h' = [h EXCEPT ![w] = [op |-> op, step |-> step, topic |-> topic, on |-> on,
                              arg |-> arg, seen |-> seen, num |-> 0]]
    /\ UNCHANGED <<platform, tables, phones, uncounted>>

Call(w, op, topic, on, arg, seen) ==
    /\ BeginCall(w, op, "write", topic, on, arg, seen)
    /\ blurred' = blurred \union Crossing(topic, op)
    /\ UNCHANGED <<unseen, mishaps>>

(* The lookup of the caller's earlier row fails, which reads as none.      *)
Unseeing(w, op, topic, on) ==
    /\ mishaps < MaxMishaps
    /\ mishaps' = mishaps + 1
    /\ BeginCall(w, op, "write", topic, on, Nothing, {})
    /\ blurred' = blurred \union Crossing(topic, op)

(* createComment, deleteComment, moderateComment *)
CreateComment(w, c) ==
    /\ comment[c] = "none" /\ c \notin logged /\ Busy(c) = {}
    /\ ~post.deleted
    /\ Call(w, "create", c, c, Nothing, {})
DeleteComment(w, c) ==
    Live(c) /\ ~post.deleted /\ Call(w, "delete", c, c, Nothing, {})
ModerateComment(w, c, arg) ==
    Live(c) /\ ~post.deleted /\ Call(w, "moderate", c, c, arg, {})

(* updateBlog by the author, who may publish or unpublish, or leave that;  *)
(* takedownBlog and restoreBlog by the administrator; deleteBlog.          *)
UpdateBlog(w, arg) == ~post.deleted /\ Call(w, "edit", Post, Post, arg, {})
TakedownBlog(w)    == ~post.deleted /\ Call(w, "down", Post, Post, Nothing, {})
RestoreBlog(w)     == ~post.deleted /\ Call(w, "restore", Post, Post, Nothing, {})
DeleteBlog(w)      == ~post.deleted /\ Call(w, "remove", Post, Post, Nothing, {})

(* reportBlog: "prevent multiple reports from the same user".  The lookup  *)
(* is for one row, and fails on two.                                       *)
Filed(u) == reports[u].pending + reports[u].closed
ReportBlog(w, u) ==
    /\ ~post.deleted
    /\ IF Filed(u) = 1 THEN Unseeing(w, "report", u, u) /\ unseen' = unseen \union {u}
       ELSE Call(w, "report", u, u, Nothing, {})

(* The user's reaction, of whatever type; the lookup fails on two.         *)
Mine(u) == {r \in reactions : r[1] = u}
Existing(u) == IF Cardinality(Mine(u)) = 1 THEN Mine(u) ELSE {}
ToggleReaction(w, u, t) ==
    /\ ~post.deleted
    /\ \/ Call(w, "toggle", Likes, <<u, t, "web">>, Nothing, Existing(u))
       \/ /\ Existing(u) # {} /\ UNCHANGED unseen
          /\ Unseeing(w, "toggle", Likes, <<u, t, "web">>)
RemoveReaction(w, u) ==
    /\ ~post.deleted
    /\ \/ Call(w, "unreact", Likes, u, Nothing, Existing(u))
       \/ Existing(u) # {} /\ UNCHANGED unseen /\ Unseeing(w, "unreact", Likes, u)

(* pushOutbox: a comment or reaction written offline, until it is told of  *)
(* an answer.  An attempt that repeats one may repeat its broadcast; and   *)
(* it writes a reaction again that was removed meanwhile.                  *)
Offline == Comments \union {r \in Rows : r[3] = "phone"}
Ingest(w, e) ==
    /\ e \in Offline \ acked
    /\ e \in Comments /\ e \notin logged => comment[e] = "none"
    /\ \A v \in Workers : h[v].op = "create" => h[v].on # e
    /\ BeginCall(w, "ingest", "append", TopicOf(e), e, Nothing, {})
    /\ blurred' = blurred \union Crossing(TopicOf(e), "ingest")
                  \union IF e \notin logged THEN {}
                         ELSE {TopicOf(e)} \X IF e \in Comments THEN Elsewhere ELSE Schools
    /\ UNCHANGED <<unseen, mishaps>>

(* resolveReport: RESOLVED or DISMISSED; nothing is counted again. *)
ResolveReport(u) ==
    /\ reports[u].pending > 0 /\ requests < MaxRequests
    /\ requests' = requests + 1
    /\ reports' = [reports EXCEPT ![u].pending = @ - 1, ![u].closed = @ + 1]
    /\ UNCHANGED <<platform, post, count, comment, reactions, likes, phones, h, blurs, mishaps>>

-----------------------------------------------------------------------------
AtStep(w, op, step) == h[w].op = op /\ h[w].step = step
Then(w, step) == h' = [h EXCEPT ![w].step = step]
Done(w) == h' = [h EXCEPT ![w] = NoCall]
Stays == UNCHANGED <<platform, requests, mishaps>>

(* Mutant of AfterEntry: every attempt makes an event of its own. *)
AfterEveryEntry(e) == shown \union {<<e, Home>>}

(* append_sync_event under the phone's uuid: one event however often.      *)
AfterEntry(e) == IF e \in logged THEN shown ELSE shown \union {<<e, Home>>}

AppendEntry(w) ==
    /\ AtStep(w, "ingest", "append")
    /\ logged' = logged \union {h[w].on}
    /\ shown' = AfterEntry(h[w].on)
    /\ Then(w, "write")
    /\ Stays /\ UNCHANGED <<tables, air, acked, blurs>>

(* Upsert by id.  It leaves is_hidden and deleted_at alone, so the trigger *)
(* counts a new row only.                                                  *)
UpsertComment(w) ==
    LET c == h[w].on IN
    /\ AtStep(w, "ingest", "write") /\ c \in Comments
    /\ comment' = IF comment[c] = "none" THEN [comment EXCEPT ![c] = "visible"] ELSE comment
    /\ count' = IF comment[c] = "none" THEN count + 1 ELSE count
    /\ Then(w, "emit")
    /\ Stays /\ UNCHANGED <<post, reports, reactions, likes, phones, blurs>>

(* uq_blog_reactions_post: one row for a user, post and type.  The error   *)
(* is not looked at.                                                       *)
Clash(r) == \E s \in reactions : s # r /\ s[1] = r[1] /\ s[2] = r[2]
UpsertReaction(w) ==
    LET r == h[w].on IN
    /\ AtStep(w, "ingest", "write") /\ r \in Rows
    /\ reactions' = IF Clash(r) THEN reactions ELSE reactions \union {r}
    /\ uncounted' = (uncounted \/ reactions' # reactions)
    /\ blurred' = IF Clash(r) THEN blurred \union {Likes} \X Schools ELSE blurred
    /\ Then(w, "emit")
    /\ Stays /\ UNCHANGED <<post, count, comment, reports, likes, phones, unseen>>

(* The upsert fails and the phone is told that all is well. *)
UpsertFails(w) ==
    /\ AtStep(w, "ingest", "write") /\ mishaps < MaxMishaps
    /\ mishaps' = mishaps + 1
    /\ blurred' = blurred \union {h[w].topic} \X Schools
    /\ Then(w, "emit")
    /\ UNCHANGED <<platform, tables, phones, uncounted, unseen, requests>>

InsertComment(w) ==
    LET c == h[w].on IN
    /\ AtStep(w, "create", "write")
    /\ comment' = [comment EXCEPT ![c] = "visible"]
    /\ count' = count + 1
    /\ Then(w, "emit")
    /\ Stays /\ UNCHANGED <<post, reports, reactions, likes, phones, blurs>>

(* Mutant of CountAfterDelete: trg_sync_blog_comments_count subtracts for  *)
(* a row that was deleted before.                                          *)
CountEveryDelete(c) == IF count > 0 THEN count - 1 ELSE 0

(* trg_sync_blog_comments_count: OLD.deleted_at IS NULL, GREATEST(0, ...)  *)
CountAfterDelete(c) == IF Live(c) /\ count > 0 THEN count - 1 ELSE count

MarkDeleted(w) ==
    LET c == h[w].on IN
    /\ AtStep(w, "delete", "write")
    /\ comment' = [comment EXCEPT ![c] = "deleted"]
    /\ count' = CountAfterDelete(c)
    /\ Then(w, "emit")
    /\ Stays /\ UNCHANGED <<post, reports, reactions, likes, phones, blurs>>

(* The update is by id: a row deleted since the lookup is updated too. *)
MarkModerated(w) ==
    LET c == h[w].on IN
    /\ AtStep(w, "moderate", "write")
    /\ comment' = IF comment[c] = "deleted" THEN comment
                  ELSE [comment EXCEPT ![c] = IF h[w].arg = "hide" THEN "hidden" ELSE "visible"]
    /\ Then(w, "emit")
    /\ Stays /\ UNCHANGED <<post, count, reports, reactions, likes, phones, blurs>>

(* A title alone keeps what the row says at the update.  Nothing asks      *)
(* whether the post is taken down.                                         *)
WriteEdit(w) ==
    LET arg == IF h[w].arg # "keep" THEN h[w].arg
               ELSE IF post.published THEN "show" ELSE "hide" IN
    /\ AtStep(w, "edit", "write")
    /\ post' = [post EXCEPT !.published = (arg = "show")]
    /\ h' = [h EXCEPT ![w].step = "emit", ![w].arg = arg]
    /\ blurred' = IF post.down /\ arg = "show" THEN blurred \union {Post} \X Schools ELSE blurred
    /\ Stays
    /\ UNCHANGED <<count, comment, reports, reactions, likes, phones, uncounted, unseen>>

WriteTakedown(w) ==
    /\ AtStep(w, "down", "write")
    /\ post' = [post EXCEPT !.down = TRUE, !.published = FALSE]
    /\ Then(w, "emit")
    /\ Stays /\ UNCHANGED <<count, comment, reports, reactions, likes, phones, blurs>>

WriteRestore(w) ==
    /\ AtStep(w, "restore", "write")
    /\ post' = [post EXCEPT !.down = FALSE, !.published = TRUE, !.flagged = FALSE]
    /\ Then(w, "close")
    /\ Stays /\ UNCHANGED <<count, comment, reports, reactions, likes, phones, blurs>>

(* "Resolve existing pending reports" *)
CloseReports(w) ==
    /\ AtStep(w, "restore", "close")
    /\ reports' = [u \in Reporters |-> [pending |-> 0, closed |-> Filed(u)]]
    /\ Then(w, "emit")
    /\ Stays /\ UNCHANGED <<post, count, comment, reactions, likes, phones, blurs>>

(* Its error is not looked at: a restored post goes on without it.         *)
CloseFails(w) ==
    /\ AtStep(w, "restore", "close") /\ mishaps < MaxMishaps
    /\ mishaps' = mishaps + 1
    /\ Then(w, "emit")
    /\ UNCHANGED <<platform, tables, phones, blurs, requests>>

WriteDelete(w) ==
    /\ AtStep(w, "remove", "write")
    /\ post' = [post EXCEPT !.deleted = TRUE]
    /\ Then(w, "emit")
    /\ Stays /\ UNCHANGED <<count, comment, reports, reactions, likes, phones, blurs>>

(* Report: the row, the number of pending rows, and the flag. *)
InsertReport(w) ==
    /\ AtStep(w, "report", "write")
    /\ reports' = [reports EXCEPT ![h[w].on].pending = @ + 1]
    /\ Then(w, "count")
    /\ Stays /\ UNCHANGED <<post, count, comment, reactions, likes, phones, blurs>>

PendingReports == UNION {{u} \X (1..reports[u].pending) : u \in Reporters}
CountReports(w) ==
    /\ AtStep(w, "report", "count")
    /\ h' = [h EXCEPT ![w].step = "store", ![w].num = Cardinality(PendingReports)]
    /\ Stays /\ UNCHANGED <<tables, phones, blurs>>

(* count ?? 1 *)
CountReportsFails(w) ==
    /\ AtStep(w, "report", "count") /\ mishaps < MaxMishaps
    /\ mishaps' = mishaps + 1
    /\ h' = [h EXCEPT ![w].step = "store", ![w].num = 1]
    /\ UNCHANGED <<platform, tables, phones, blurs, requests>>

(* A flag that cannot be stored ends the request as its death does.        *)
StoreFlag(w) ==
    /\ AtStep(w, "report", "store")
    /\ post' = [post EXCEPT !.flagged = h[w].num >= Threshold]
    /\ Done(w)
    /\ Stays /\ UNCHANGED <<count, comment, reports, reactions, likes, phones, blurs>>

(* Toggle: the reaction found is deleted, of whatever type it is; else one *)
(* is inserted, or refused by the unique index.                            *)
WriteReaction(w) ==
    /\ AtStep(w, "toggle", "write")
    /\ IF h[w].seen # {} THEN reactions' = reactions \ h[w].seen /\ Then(w, "count")
       ELSE IF h[w].on \in reactions \/ Clash(h[w].on) THEN UNCHANGED reactions /\ Done(w)
       ELSE reactions' = reactions \union {h[w].on} /\ Then(w, "count")
    /\ Stays /\ UNCHANGED <<post, count, comment, reports, likes, phones, blurs>>

DropReaction(w) ==
    /\ AtStep(w, "unreact", "write")
    /\ reactions' = reactions \ h[w].seen
    /\ Then(w, "count")
    /\ Stays /\ UNCHANGED <<post, count, comment, reports, likes, phones, blurs>>

(* The post or the reaction is not deleted, and the request goes on: phones *)
(* are told that it was, as the error is not looked at.                    *)
DeleteFails(w) ==
    /\ mishaps < MaxMishaps
    /\ mishaps' = mishaps + 1
    /\ \/ AtStep(w, "remove", "write") /\ Then(w, "emit")
       \/ /\ h[w].topic = Likes /\ h[w].step = "write"
          /\ h[w].seen # {} /\ Then(w, "count")
    /\ blurred' = blurred \union {h[w].topic} \X Schools
    /\ UNCHANGED <<platform, tables, phones, uncounted, unseen, requests>>

(* updateReactionCount: counted, then stored. *)
CountLikes(w) ==
    /\ h[w].topic = Likes /\ h[w].step = "count"
    /\ h' = [h EXCEPT ![w].step = "store", ![w].num = Cardinality(reactions)]
    /\ Stays /\ UNCHANGED <<tables, phones, blurs>>

Counted(w) == IF h[w].op = "unreact" /\ h[w].seen = {} THEN Done(w) ELSE Then(w, "emit")
StoreLikes(w) ==
    /\ h[w].topic = Likes /\ h[w].step = "store"
    /\ likes' = h[w].num
    /\ uncounted' = FALSE
    /\ Counted(w)
    /\ Stays /\ UNCHANGED <<post, count, comment, reports, reactions, phones, blurred, unseen>>

(* Nobody looks at the errors: of a failed count 0 is stored (count ?? 0), *)
(* a failed update leaves likes_count as it was.                           *)
CountLikesFails(w) ==
    /\ h[w].topic = Likes /\ h[w].step = "count" /\ mishaps < MaxMishaps
    /\ mishaps' = mishaps + 1
    /\ Then(w, "zero")
    /\ UNCHANGED <<platform, tables, phones, blurs, requests>>
StoreZero(w) ==
    /\ h[w].topic = Likes /\ h[w].step = "zero"
    /\ likes' = 0
    /\ uncounted' = TRUE
    /\ Counted(w)
    /\ Stays /\ UNCHANGED <<post, count, comment, reports, reactions, phones, blurred, unseen>>
StoreLikesFails(w) ==
    /\ h[w].topic = Likes /\ h[w].step \in {"store", "zero"} /\ mishaps < MaxMishaps
    /\ mishaps' = mishaps + 1
    /\ uncounted' = TRUE
    /\ Counted(w)
    /\ UNCHANGED <<platform, tables, phones, blurred, unseen, requests>>

-----------------------------------------------------------------------------
(* What the request tells, and of what. *)
Told(w) == IF h[w].seen # {} THEN CHOOSE r \in h[w].seen : TRUE ELSE h[w].on
Says(w) == /\ h[w].op \in {"create", "restore", "toggle", "ingest"} \/ h[w].arg = "show"
           /\ h[w].seen = {}

(* A phone that reads the event writes the row, or deletes it. *)
Apply(e, as, s) == shown' = IF as THEN shown \union {<<e, s>>} ELSE shown \ {<<e, s>>}

Broadcast(w, schools) ==
    air' = air \union {[what |-> Told(w), as |-> Says(w), at |-> s] : s \in schools}

(* emitSyncEvent: one append that the request waits for, or a broadcast    *)
(* that it does not wait for.                                              *)
EmitSyncEvent(w) ==
    /\ h[w].step = "emit" /\ h[w].op # "ingest"
    /\ IF platform THEN Broadcast(w, Schools) /\ UNCHANGED shown
       ELSE Apply(Told(w), Says(w), Home) /\ UNCHANGED air
    /\ Done(w)
    /\ Stays /\ UNCHANGED <<tables, logged, acked, blurs>>

(* broadcastPlatformSyncEvent, to the other schools under fresh uuids; the *)
(* answer, which the phone may miss.                                       *)
AnswerEntry(w) ==
    /\ AtStep(w, "ingest", "emit")
    /\ IF platform THEN Broadcast(w, Elsewhere) ELSE UNCHANGED air
    /\ \/ acked' = acked \union {h[w].on} /\ UNCHANGED mishaps
       \/ mishaps < MaxMishaps /\ mishaps' = mishaps + 1 /\ UNCHANGED acked
    /\ Done(w)
    /\ UNCHANGED <<platform, requests, tables, shown, logged, blurs>>

Land(a) ==
    /\ a \in air
    /\ air' = air \ {a}
    /\ Apply(a.what, a.as, a.at)
    /\ Stays /\ UNCHANGED <<tables, logged, acked, h, blurs>>

(* The append fails, which is logged, or the process ends before it. *)
Miss(a) ==
    /\ a \in air /\ mishaps < MaxMishaps
    /\ mishaps' = mishaps + 1
    /\ air' = air \ {a}
    /\ blurred' = blurred \union {<<TopicOf(a.what), a.at>>}
    /\ UNCHANGED <<platform, requests, tables, shown, logged, acked, h, uncounted, unseen>>

(* The process dies after the first write, or the write's answer is lost   *)
(* and read as its failure (before it, or where it fails, the request has  *)
(* done nothing); an event that cannot be appended is only logged.         *)
CallDies(w) ==
    /\ h[w].step \in {"count", "store", "zero", "close", "emit"} \/ AtStep(w, "ingest", "write")
    /\ mishaps < MaxMishaps
    /\ mishaps' = mishaps + 1
    /\ blurred' = IF h[w].op \in {"ingest", "report"} THEN blurred
                  ELSE blurred \union {h[w].topic} \X Schools
    /\ Done(w)
    /\ UNCHANGED <<platform, requests, tables, phones, uncounted, unseen>>

CallStarts(w) ==
    \/ \E c \in Comments : CreateComment(w, c) \/ DeleteComment(w, c)
                            \/ \E arg \in {"show", "hide"} : ModerateComment(w, c, arg)
    \/ \E arg \in {"show", "hide", "keep"} : UpdateBlog(w, arg)
    \/ TakedownBlog(w) \/ RestoreBlog(w) \/ DeleteBlog(w)
    \/ \E u \in Reporters : ReportBlog(w, u)
    \/ \E u \in Users : RemoveReaction(w, u) \/ \E t \in Types : ToggleReaction(w, u, t)
    \/ \E e \in Offline : Ingest(w, e)

CallSteps(w) ==
    \/ AppendEntry(w) \/ UpsertComment(w) \/ UpsertReaction(w) \/ UpsertFails(w)
    \/ InsertComment(w) \/ MarkDeleted(w) \/ MarkModerated(w)
    \/ WriteEdit(w) \/ WriteTakedown(w) \/ WriteRestore(w) \/ CloseReports(w) \/ WriteDelete(w)
    \/ InsertReport(w) \/ CountReports(w) \/ StoreFlag(w)
    \/ WriteReaction(w) \/ DropReaction(w) \/ CountLikes(w) \/ StoreLikes(w)
    \/ EmitSyncEvent(w) \/ AnswerEntry(w)
    \/ CloseFails(w) \/ CountReportsFails(w) \/ DeleteFails(w)
    \/ CountLikesFails(w) \/ StoreZero(w) \/ StoreLikesFails(w)

BlogNext ==
    \/ \E w \in Workers : CallStarts(w) \/ CallSteps(w) \/ CallDies(w)
    \/ \E u \in Reporters : ResolveReport(u)
    \/ \E a \in air : Land(a) \/ Miss(a)

BlogSpec == BlogInit /\ [][BlogNext]_blogVars

-----------------------------------------------------------------------------
(* comments_count is the number of comments not deleted, whatever crosses  *)
(* and however often a phone repeats an entry: the trigger counts rows.    *)
CommentsCounted == count = Cardinality({c \in Comments : Live(c)})

(* likes_count is right between requests, unless requests crossed or died, *)
(* the count or its storing failed, or a reaction came from a phone, after *)
(* which nobody counts.                                                    *)
LikesCounted ==
    Busy(Likes) = {} /\ ~uncounted /\ <<Likes, Home>> \notin blurred =>
       likes = Cardinality(reactions)

(* A post is flagged by Threshold users: one user's reports count once,    *)
(* unless two of them crossed between lookup and insert, or the lookup of  *)
(* the first failed.                                                       *)
FlagNeedsReporters ==
    post.flagged =>
       \/ Cardinality({u \in Reporters : Filed(u) > 0}) >= Threshold
       \/ \E u \in Reporters : <<u, Home>> \in blurred \/ u \in unseen

DiscourseInv == BlogTypeOK /\ CommentsCounted /\ LikesCounted /\ FlagNeedsReporters

(* A phone that has read its school's log shows what the web shows, once   *)
(* nothing is under way, unless requests about it crossed, one of them     *)
(* died, the phones were told of a write that had failed, an append of the *)
(* broadcast was lost, a taken-down post was published, or, in other       *)
(* schools, a phone repeated its entry.  In the entry's own school neither *)
(* a repetition nor a crossing with it brings back what was hidden or      *)
(* deleted.                                                                *)
Quiet(e) ==
    /\ Busy(TopicOf(e)) = {} /\ e \notin logged \ acked
    /\ \A a \in air : a.what # e
PhonesInStep ==
    \A e \in Things, s \in Readers :
       Quiet(e) /\ <<TopicOf(e), s>> \notin blurred => (<<e, s>> \in shown <=> Visible(e))
=============================================================================
