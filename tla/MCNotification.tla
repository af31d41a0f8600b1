--------------------------- MODULE MCNotification ---------------------------
(***************************************************************************)
(* Stories of the notifications of one account, or two.  Each has its       *)
(* events, says whether something may fail, how many requests are made and  *)
(* whether a client reads the list.  The hub shares nothing with them but   *)
(* what it is given to send, and is a story of its own.                     *)
(***************************************************************************)
EXTENDS Notification, NotificationHub, TLC

CONSTANTS alice, bob, sender, c1, c2, c3

VARIABLE story

message(room, id, at, to) ==
    [kind |-> "message", id |-> id, room |-> room, at |-> at,
     from |-> sender, to |-> to, deleted |-> FALSE]
general(kind, id, at) == [message(0, id, at, << alice >>) EXCEPT !.kind = kind]
\* alice asked bob and was accepted.
answer == [general("accepted", 2, 8) EXCEPT !.from = alice, !.to = << bob >>]

\* Three messages, two of them of the same time.
Chat == {message(9, 1, 4, << alice >>), message(9, 2, 8, << alice >>), message(9, 3, 8, << alice >>)}
\* Two messages of the same millisecond.
Burst == {message(8, 4, 13, << alice >>), message(8, 5, 14, << alice >>)}
\* A message synced for the receipts of two members, and when it was deleted.
Group == {message(7, 6, 16, << alice >>), message(7, 6, 16, << bob >>),
          [message(7, 6, 16, << >>) EXCEPT !.deleted = TRUE]}
Rest == {general("welcome", 1, 4), answer,
         [general("mention", 3, 8) EXCEPT !.to = << sender, alice, alice >>]}

Everyone == {[general("mention", 4, 8) EXCEPT !.to = << alice, bob >>]}

MCEvents == UNION {Chat, Burst, Group, Rest, Everyone}

Story(events, faults, asked, reads) ==
    [events |-> events, faults |-> faults, asked |-> asked, reads |-> reads]

Stories == { Story(Chat, FALSE, 1, FALSE),
             Story({e \in Chat : e.id < 3}, TRUE, 1, FALSE),
             Story(Burst, FALSE, 1, FALSE),
             Story(Group, TRUE, 0, FALSE),
             Story(Everyone, TRUE, 0, FALSE),
             Story({e \in Rest : e.id # 2}, TRUE, 1, FALSE),
             Story({e \in Rest : e.id # 1}, FALSE, 2, FALSE),
             Story({e \in Rest : e.id = 2}, TRUE, 2, FALSE),
             Story({e \in Chat : e.id < 3} \cup {e \in Rest : e.id < 3}, FALSE, 0, TRUE) }

Watching == Story({}, FALSE, 0, FALSE)
MCOwnerOf == (c1 :> alice @@ c2 :> alice @@ c3 :> bob)

TellNext ==
    /\ story # Watching
    /\ NotificationNext /\ UNCHANGED hubVars
    /\ {job'[w].e : w \in Workers} \cup handled' \subseteq story.events \cup {NoEvent}
    /\ ~story.faults => UNCHANGED << cut, torn >>
    /\ requests' <= story.asked
    /\ ~story.reads => UNCHANGED reader

MCNext ==
    /\ TellNext \/ (story = Watching /\ HubNext /\ UNCHANGED notificationVars)
    /\ UNCHANGED story

Symmetry == Permutations(Workers)

MCInit ==
    /\ NotificationInit /\ HubInit
    /\ \/ story \in Stories /\ \A c \in Conns : idOf[c] = CHOOSE i \in ClientIDs : TRUE
       \/ story = Watching

MCSpec == MCInit /\ [][MCNext]_<< notificationVars, hubVars, story >>
=============================================================================
