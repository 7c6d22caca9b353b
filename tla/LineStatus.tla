------------------------------ MODULE LineStatus ------------------------------
(***************************************************************************)
(* What the LINE component promises: for every user it knows the status    *)
(* after some event of that user, and only ever moves on to a newer one.   *)
(***************************************************************************)
EXTENDS Integers

CONSTANTS
    Users,     \* LINE user ids
    Sent       \* the follow and unfollow events LINE ever sends

VARIABLE known    \* a function from the known users to [status, at]

StatusOf(e) == IF e.type = "follow" THEN "FOLLOWING" ELSE "BLOCKED"

Init == known = [u \in {} |-> {}]

\* e is newer than what is known of its user.
Advance(e) ==
    /\ e.user \in DOMAIN known => known[e.user].at < e.at
    /\ known' = [u \in DOMAIN known \cup {e.user} |->
                    IF u = e.user THEN [status |-> StatusOf(e), at |-> e.at]
                                  ELSE known[u]]

Next == \E e \in Sent : Advance(e)

Spec == Init /\ [][Next]_known
===============================================================================
