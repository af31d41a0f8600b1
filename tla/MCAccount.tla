----------------------------- MODULE MCAccount -----------------------------
(***************************************************************************)
(* Three stories: clients that log in, refresh, log out and change the     *)
(* password; clients that edit and verify the account while others read    *)
(* and search it; clients that come through Google.                                                    *)
(***************************************************************************)
EXTENDS Sessions, TLC

VARIABLE story

\* The commands of a story, whether others read the account (if not, its cache is
\* left out as well), the account's versions and the sessions it takes.
Sessioning == [ops |-> {"register", "login", "refresh", "logout", "logout_all", "password"},
               read |-> FALSE, versions |-> 2, sessions |-> 2]
Editing == [ops |-> {"register", "profile", "verify", "confirm"},
            read |-> TRUE, versions |-> 3, sessions |-> 1]
Opening == [ops |-> {"register", "google", "password", "verify", "confirm", "refresh"},
            read |-> FALSE, versions |-> 3, sessions |-> 2]

MCNext ==
    /\ Next /\ UNCHANGED story
    /\ \A w \in Workers : job'[w].op \in story.ops \cup {"none"}
    /\ ~story.read => UNCHANGED << projection, cache >>
    /\ Len(log') <= story.versions /\ Len(sessions') <= story.sessions

Symmetry ==
    Permutations(Workers) \cup Permutations(Passwords) \cup Permutations(Profiles)
        \cup Permutations(DeviceUIDs)

MCInit == Init /\ story \in {Sessioning, Editing, Opening}

MCSpec == MCInit /\ [][MCNext]_<< vars, story >>
=============================================================================
