------------------------------- MODULE MCRoom -------------------------------
(***************************************************************************)
(* Seven stories of one room, and one of pages, where nothing moves and any *)
(* timeline may be read.  The projector shares nothing with the            *)
(* commands but the outbox, and runs here after the last of them, whichever *)
(* that is.  The group is that of a1 and a2, and is called n1.              *)
(***************************************************************************)
EXTENDS RoomReadModel, RoomPages, TLC

CONSTANTS a1, a2, a3, n1

VARIABLE story

\* The commands of a story, how many it takes and for which accounts, whether it
\* follows the copy in Redis (if not, Redis is away), and whether attempts of the
\* projector fail.
Joining  == [ops |-> {"group", "add", "remove"}, commands |-> 3, accounts |-> {a1, a2, a3},
             redis |-> FALSE, faults |-> FALSE]
Leaving  == [ops |-> {"group", "add", "remove"}, commands |-> 4, accounts |-> {a1, a2},
             redis |-> FALSE, faults |-> FALSE]
Naming   == [ops |-> {"group", "rename", "pin"}, commands |-> 3, accounts |-> {a1, a2},
             redis |-> TRUE, faults |-> FALSE]
Copying  == [ops |-> {"group", "pin", "react"}, commands |-> 3, accounts |-> {a1, a2},
             redis |-> TRUE, faults |-> FALSE]
Changing == [ops |-> {"group", "send", "edit", "delete"}, commands |-> 4, accounts |-> {a1, a2},
             redis |-> FALSE, faults |-> FALSE]
Reading  == [ops |-> {"group", "mark", "hide", "delete", "react", "remove"}, commands |-> 3,
             accounts |-> {a1, a2}, redis |-> FALSE, faults |-> FALSE]
Talking  == [ops |-> {"direct", "send", "forward"}, commands |-> 2, accounts |-> {a1, a2},
             redis |-> TRUE, faults |-> TRUE]

Quiet == \A w \in Workers : IsIdle(w)
Named == UNION {DOMAIN members, UNION {{job[w].by, job[w].who} : w \in Workers}} \cap Accounts

\* A command that fails before it has told Redis or the database anything is as good as
\* one that was never given.
FailsLate ==
    \A w \in Workers :
        ~IsIdle(w) /\ job'[w].op = "none" /\ UNCHANGED tables =>
            job[w].pc \in {"warm", "members", "message", "insert"}
                \/ (job[w].pc = "saving" /\ story.redis)

Commanding ==
    /\ done = 0 /\ pc = "read"
    /\ RoomNext /\ UNCHANGED viewVars
    /\ \A w \in Workers :
        /\ job'[w].op \in story.ops \cup {"none"}
        /\ job'[w].op = "group" => job'[w].by = a1 /\ DOMAIN job'[w].members = {a1, a2}
                                     /\ (IsIdle(w) => job'[w].room.name = n1)
    /\ Named' \subseteq story.accounts
    /\ clock' <= story.commands
    /\ ~story.redis => UNCHANGED cache
    /\ FailsLate

Projecting ==
    /\ Quiet
    /\ Project
    /\ ~story.faults => UNCHANGED << dropped, torn >>
    /\ Cardinality(dropped') <= 1

MCNext == story \notin Paging /\ (Commanding \/ Projecting) /\ UNCHANGED story

Symmetry == Permutations(Workers)

MCInit == Init /\ story \in {Joining, Leaving, Naming, Copying, Changing, Reading, Talking} \cup Paging

MCSpec == MCInit /\ [][MCNext]_<< vars, story >>

\* Readers are shown what the database has, but for the faults named, and page by page all of it.
RoomReadsAreSound ==
    IF story \in Paging THEN RoomPagesAreSound(story.sent, story.deleted) ELSE RoomViewIsSound
=============================================================================
