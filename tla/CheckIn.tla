-------------------------------- MODULE CheckIn --------------------------------
(***************************************************************************)
(* The daily check-in of one user (routes/main.py): the last day is read,  *)
(* ten points are added (read, then written, in repositories/users_repo.py)*)
(* and the day is written.  Points are counted in tens.                    *)
(***************************************************************************)
EXTENDS Integers, FiniteSets

CONSTANTS Procs,   \* request threads
          MaxDays, \* bound on the days
          MaxPosts \* bound on the requests

VARIABLES points, last, \* the users row
          today,        \* the date
          post,         \* what each thread is in the middle of
          posts,        \* requests begun
          paid,         \* awards written for each day
          torn          \* days of requests that overlapped or died

vars == <<points, last, today, post, posts, paid, torn>>

Idle == [at |-> "idle", day |-> 0, seen |-> 0]
Init == /\ points = 0 /\ last = 0 /\ today = 1
        /\ post = [p \in Procs |-> Idle]
        /\ posts = 0
        /\ paid = [d \in 1..MaxDays |-> 0]
        /\ torn = {}

Midnight == today < MaxDays /\ today' = today + 1 /\ UNCHANGED <<points, last, post, posts, paid, torn>>

\* get_user_last_checkin; a user who checked in today is told so.
Busy(p) == {q \in Procs \ {p} : post[q].at # "idle"}
SlipBegin(p) ==
    /\ post[p].at = "idle" /\ posts < MaxPosts
    /\ posts' = posts + 1
    /\ post' = IF last > today THEN post ELSE [post EXCEPT ![p] = [Idle EXCEPT !.at = "read", !.day = today]]
    /\ torn' = IF Busy(p) = {} THEN torn ELSE torn \cup {today} \cup {post[q].day : q \in Busy(p)}
    /\ UNCHANGED <<points, last, today, paid>>
Begin(p) ==
    /\ post[p].at = "idle" /\ posts < MaxPosts
    /\ posts' = posts + 1
    /\ post' = IF last = today THEN post ELSE [post EXCEPT ![p] = [Idle EXCEPT !.at = "read", !.day = today]]
    /\ torn' = IF Busy(p) = {} THEN torn ELSE torn \cup {today} \cup {post[q].day : q \in Busy(p)}
    /\ UNCHANGED <<points, last, today, paid>>

\* update_user_points.
ReadPoints(p) == /\ post[p].at = "read"
                 /\ post' = [post EXCEPT ![p].at = "add", ![p].seen = points]
                 /\ UNCHANGED <<points, last, today, posts, paid, torn>>
AddPoints(p) == /\ post[p].at = "add"
                /\ points' = post[p].seen + 1
                /\ paid' = [paid EXCEPT ![post[p].day] = @ + 1]
                /\ post' = [post EXCEPT ![p].at = "mark"]
                /\ UNCHANGED <<last, today, posts, torn>>

\* update_user_last_checkin, with the day the request began.
Mark(p) == /\ post[p].at = "mark"
           /\ last' = post[p].day
           /\ post' = [post EXCEPT ![p] = Idle]
           /\ UNCHANGED <<points, today, posts, paid, torn>>

Die(p) == /\ post[p].at # "idle"
          /\ torn' = torn \cup {post[p].day}
          /\ post' = [post EXCEPT ![p] = Idle]
          /\ UNCHANGED <<points, last, today, posts, paid>>

Next == Midnight \/ \E p \in Procs : Begin(p) \/ ReadPoints(p) \/ AddPoints(p) \/ Mark(p) \/ Die(p)

Spec == Init /\ [][Next]_vars

-------------------------------------------------------------------------------
(* A day is paid at most once, unless two of its requests overlapped, one died *)
(* half way, or a request of the day before was still at work.                 *)
PaidOncePerDay == \A d \in 1..MaxDays \ torn : paid[d] <= 1

===============================================================================
