----------------------------- MODULE RoomProofs -----------------------------
(***************************************************************************)
(* Proofs about the write side of a room (Room) and about the websocket hub *)
(* (RoomHub), for every set of accounts, workers and names, every bound on  *)
(* the commands, and every set of connections, client ids, users and rooms. *)
(***************************************************************************)
EXTENDS Room, RoomHub, FiniteSetTheorems, WellFoundedInduction, TLAPS

-----------------------------------------------------------------------------
(* Sequences and greatest elements. *)

IsASeq(s) == \E S : s \in Seq(S)

\* The indices of a sequence.
LEMMA SeqDomain ==
  ASSUME NEW s, IsASeq(s)
  PROVE  Len(s) \in Nat /\ DOMAIN s = 1 .. Len(s)
  BY DEF IsASeq

\* What the concatenation of two sequences holds.
LEMMA Joins ==
  ASSUME NEW s, NEW u, IsASeq(s), IsASeq(u)
  PROVE  /\ IsASeq(s \o u)
         /\ Len(s \o u) = Len(s) + Len(u)
         /\ \A i \in 1 .. Len(s) : (s \o u)[i] = s[i]
         /\ \A i \in 1 .. Len(u) : (s \o u)[Len(s) + i] = u[i]
  <1>1. PICK S : s \in Seq(S)
    BY DEF IsASeq
  <1>2. PICK U : u \in Seq(U)
    BY DEF IsASeq
  <1>3. s \in Seq(S \cup U) /\ u \in Seq(S \cup U)
    BY <1>1, <1>2
  <1>4. s \o u \in Seq(S \cup U)
    BY <1>3
  <1> QED BY <1>3, <1>4 DEF IsASeq

\* Sequences of one, of no and of two elements.
LEMMA OneSeq ==
  ASSUME NEW x PROVE IsASeq(<< x >>) /\ Len(<< x >>) = 1 /\ << x >>[1] = x
  <1>1. << x >> \in Seq({x})
    OBVIOUS
  <1> QED BY <1>1 DEF IsASeq

LEMMA NoSeq == IsASeq(<< >>) /\ Len(<< >>) = 0
  <1>1. << >> \in Seq({})
    OBVIOUS
  <1> QED BY <1>1 DEF IsASeq

LEMMA TwoSeq ==
  ASSUME NEW x, NEW y
  PROVE  IsASeq(<< x, y >>) /\ Len(<< x, y >>) = 2 /\ << x, y >>[1] = x /\ << x, y >>[2] = y
  <1>1. << x, y >> \in Seq({x, y})
    OBVIOUS
  <1> QED BY <1>1 DEF IsASeq

Joined(s, u) == s \o u

\* The same of Joined, which the provers take as it stands.
LEMMA JoinedSeq ==
  ASSUME NEW s, NEW u, IsASeq(s), IsASeq(u), NEW g, g = Joined(s, u)
  PROVE  /\ IsASeq(g) /\ Len(g) = Len(s) + Len(u)
         /\ \A i \in 1 .. Len(s) : g[i] = s[i]
         /\ \A i \in 1 .. Len(u) : g[Len(s) + i] = u[i]
  <1>1. /\ IsASeq(s \o u)
        /\ Len(s \o u) = Len(s) + Len(u)
        /\ \A i \in 1 .. Len(s) : (s \o u)[i] = s[i]
        /\ \A i \in 1 .. Len(u) : (s \o u)[Len(s) + i] = u[i]
    BY Joins
  <1>2. g = s \o u
    BY DEF Joined
  <1> QED BY <1>1, <1>2

\* Max of a bounded set of numbers is in it and is its greatest element.
LEMMA MaxIsGreatest ==
  ASSUME NEW n \in Nat, NEW S, S \subseteq 1 .. n, S # {}
  PROVE  Max(S) \in S /\ \A y \in S : y <= Max(S)
  <1> DEFINE T == { n - y : y \in S }
  <1>1. T \subseteq Nat /\ T # {}
    <2>1. \A y \in S : n - y \in Nat
      OBVIOUS
    <2>2. PICK y \in S : TRUE
      OBVIOUS
    <2>3. n - y \in T
      OBVIOUS
    <2> QED BY <2>1, <2>3
  <1>2. IsWellFoundedOn(OpToRel(<, Nat), Nat)
    BY NatLessThanWellFounded
  <1>3. PICK v \in T : \A u \in T : ~(<< u, v >> \in OpToRel(<, Nat))
    BY <1>1, <1>2, WFMin
  <1>4. \A u \in T : ~(u < v)
    BY <1>1, <1>3 DEF OpToRel
  <1>5. PICK x \in S : v = n - x
    BY <1>3
  <1>6. \A y \in S : x >= y
    <2> TAKE y \in S
    <2>1. n - y \in T
      OBVIOUS
    <2>2. ~(n - y < n - x)
      BY <1>4, <1>5, <2>1
    <2> QED BY <2>2
  <1>7. \E z \in S : \A y \in S : z >= y
    BY <1>6
  <1> DEFINE m == CHOOSE z \in S : \A y \in S : z >= y
  <1>8. m \in S /\ \A y \in S : m >= y
    BY <1>7
  <1>9. Max(S) = m
    BY DEF Max
  <1> HIDE DEF m
  <1> QED BY <1>8, <1>9

-----------------------------------------------------------------------------
(* The inductive invariant of the room. *)

Kinds == {"none", "direct", "group"}
RoomOps == {"send", "forward", "add", "remove", "rename", "pin"}
Steps == {"idle", "lookup", "room", "warm", "members", "message", "lock", "insert", "update",
          "saving", "commit"}

RoomRows == [kind : Kinds, name : Names \cup {"none", "direct"}, pin : Nat, at : Nat]
MessageRows == [sender : Accounts \cup {"none"}, type : {"none", "text", "system"}, body : Nat,
                deleted : BOOLEAN, likes : SUBSET Accounts, at : Nat]

\* What a worker remembers.  What it read of the members only matters where it creates them.
JobTypeOK(j) ==
    /\ DOMAIN j = DOMAIN Idle
    /\ j.op \in Creations \cup RoomOps \cup MessageOps \cup {"none"} /\ j.pc \in Steps
    /\ j.room \in RoomRows /\ j.msg \in MessageRows
    /\ j.now \in Nat /\ j.id \in Nat /\ j.roomAt \in Nat /\ j.base \in Nat /\ j.dirty \in BOOLEAN

\* The way of each command.
OnItsWay(j) ==
    \/ j.op = "none" /\ j.pc = "idle"
    \/ j.op = "direct" /\ j.pc \in {"lookup", "warm", "insert", "saving"}
    \/ j.op = "group" /\ j.pc \in {"insert", "saving"}
    \/ j.op \in RoomOps /\ j.pc \in {"room", "warm", "members", "update", "saving"}
    \/ j.op = "forward" /\ j.pc = "message"
    \/ j.op \in MessageWrites /\ j.pc \in {"message", "lock", "room", "warm", "members", "commit"}
    \/ j.op \in {"hide", "mark"} /\ j.pc \in {"message", "room", "warm", "commit"}

Undated(j) ==
    \/ j.pc \in {"lookup", "message"}
    \/ j.op \in RoomOps /\ j.pc \in {"room", "warm", "members"}

\* It has read the room, or made one.
Loaded(j) ==
    \/ j.op \in RoomOps \cup MessageOps /\ j.pc \in {"warm", "members", "update", "saving", "commit"}
    \/ j.op = "direct" /\ j.pc = "warm"
Making(j) == j.op \in Creations /\ j.pc \in {"insert", "saving"}
Renaming(j) == j.op = "rename" /\ j.pc = "saving"

\* What a command was given.
GivenOK(j) ==
    /\ j.op # "none" => j.by \in Accounts
    /\ j.op \in {"direct", "add", "remove"} => j.who \in Accounts
    /\ j.op = "direct" => j.by # j.who
    /\ j.op = "rename" => j.val \in Names
    /\ j.op \in MessageOps \cup {"forward", "pin"} => j.id \in DOMAIN messages

\* The kind of a room is what it was made, and only groups change their members.
KindOK(j) ==
    /\ j.op \in RoomOps \cup MessageOps => room.kind # "none"
    /\ Loaded(j) => room.kind # "none" /\ j.room.kind = room.kind
    /\ Making(j) => /\ j.room.kind = j.op /\ DOMAIN j.members \subseteq Accounts
                    /\ j.op = "direct" => Cardinality(DOMAIN j.members) = 2
    /\ j.op \in {"add", "remove"} /\ j.pc \in {"update", "saving"} => j.room.kind = "group"
    /\ Renaming(j) => j.room.name = j.val

\* A name that was read was announced, or was that of a rename that was rolled back, or is
\* that of the save under way.
Announced == { outbox[i].name : i \in Events("created") \cup Events("renamed") }
Saving == { w \in Workers : At(w, "saving") }
Known == Announced \cup leaked
           \cup { job[w].room.name : w \in { x \in Saving : job[x].op \in Creations \cup {"rename"} } }
NameOK(j) == Loaded(j) => j.room.name \in Known

IsLast(i) == \A k \in Events("renamed") : k <= i

\* The second disjuncts of RenameSticks and of DeletedStaysDeleted.
Reverted(i) ==
    \E k \in Events("room") :
        /\ outbox[k].own /\ outbox[k].n > outbox[i].n
        /\ outbox[k].roomAt < outbox[i].n \/ outbox[k].dirty
Undone(i) ==
    \E k \in Events("message") :
        /\ outbox[k].id = outbox[i].id /\ outbox[k].n > outbox[i].n
        /\ outbox[k].base < outbox[i].n /\ outbox[k].op \in MessageWrites

\* A room read as it was after the last rename has its name.
RenameOK(j) ==
    j.op \in RoomOps /\ Loaded(j) /\ ~Renaming(j) =>
        \A i \in Events("renamed") : IsLast(i) /\ outbox[i].n <= j.roomAt /\ ~j.dirty =>
            Reverted(i) \/ j.room.name = outbox[i].name

\* A message read after it was deleted is deleted.
IsDeletion(i) == outbox[i].msg.deleted /\ outbox[i].op = "delete"
DeletionOK(j) ==
    j.op \in MessageWrites /\ j.pc # "message" =>
        \A i \in Events("message") :
            IsDeletion(i) /\ outbox[i].id = j.id /\ outbox[i].n <= j.base => j.msg.deleted \/ Undone(i)

JobInv(j) ==
    /\ JobTypeOK(j) /\ OnItsWay(j) /\ (Undated(j) => j.now = 0)
    /\ j.roomAt <= Saves /\ j.base <= Saves
    /\ GivenOK(j) /\ KindOK(j) /\ NameOK(j) /\ RenameOK(j) /\ DeletionOK(j)

TypesInv ==
    /\ clock \in Nat /\ blurred \in BOOLEAN /\ leaked \subseteq Names
    /\ room \in RoomRows /\ cache \in RoomRows
    /\ DOMAIN members \subseteq Accounts
    /\ messages \in Seq(MessageRows)
    /\ DOMAIN job = Workers

\* The events are numbered by their saves.
OutboxInv ==
    /\ IsASeq(outbox) /\ Saves \in Nat
    /\ \A i \in DOMAIN outbox : outbox[i].n \in Nat /\ outbox[i].n <= Saves
    /\ \A i \in Events("message") : outbox[i].id \in DOMAIN messages

\* Every command that is not dated yet will find a time.
WaitingSet == { w \in Workers : ~IsIdle(w) /\ job[w].now = 0 }
ClockInv == IsFiniteSet(WaitingSet) /\ clock + Cardinality(WaitingSet) <= MaxCommands

TablesInv ==
    /\ room.kind = "none" => DOMAIN members = {} /\ outbox = << >>
    /\ room.kind # "none" => room.name \in Announced \cup leaked
    /\ MembersAreAnnounced /\ DirectIsForTwo /\ RenameSticks /\ DeletedStaysDeleted

\* The lock on the row, and Redis.
SavingInv ==
    /\ \A w, x \in Saving : w = x
    /\ \A w \in Saving : job[w].op \in Creations => room.kind = "none"
CacheInv ==
    /\ cache.kind # "none" =>
          /\ cache.name \in Known
          /\ room.kind # "none" => cache.kind = room.kind
          /\ room.kind = "none" => \E w \in Saving : job[w].op \in Creations /\ cache = job[w].room
    /\ \A w \in Saving : cache.kind # "none" /\ ~blurred => cache = job[w].room
    /\ CacheFollowsRow

RoomInv ==
    /\ TypesInv /\ OutboxInv /\ ClockInv /\ TablesInv /\ SavingInv /\ CacheInv
    /\ \A w \in Workers : JobInv(job[w])

-----------------------------------------------------------------------------
(* Jobs. *)

\* A worker without a command satisfies the invariant.
LEMMA IdleOK ==
  ASSUME OutboxInv PROVE JobInv(Idle)
  <1>1. JobTypeOK(Idle)
    BY DEF JobTypeOK, Idle, NoRoom, NoMessage, RoomRows, MessageRows, Kinds, Steps
  <1>2. OnItsWay(Idle) /\ (Undated(Idle) => Idle.now = 0) /\ ~Loaded(Idle) /\ ~Making(Idle) /\ ~Renaming(Idle)
    BY DEF OnItsWay, Undated, Idle, Loaded, Making, Renaming, RoomOps, MessageOps, MessageWrites, Creations
  <1>3. Idle.roomAt <= Saves /\ Idle.base <= Saves
    BY DEF Idle, OutboxInv
  <1>4. GivenOK(Idle)
    BY DEF GivenOK, Idle, MessageOps, MessageWrites
  <1>5. KindOK(Idle) /\ NameOK(Idle) /\ RenameOK(Idle) /\ DeletionOK(Idle)
    BY <1>2 DEF KindOK, NameOK, RenameOK, DeletionOK, Idle, RoomOps, MessageOps, MessageWrites
  <1> QED BY <1>1, <1>2, <1>3, <1>4, <1>5 DEF JobInv

\* The invariant holds at first.
LEMMA RoomInitInv == RoomInit => RoomInv
  <1> SUFFICES ASSUME RoomInit PROVE RoomInv
    OBVIOUS
  <1> USE DEF RoomInit
  <1>1. TypesInv
    <2>1. messages \in Seq(MessageRows) /\ DOMAIN job = Workers
      OBVIOUS
    <2>2. NoRoom \in RoomRows
      BY DEF NoRoom, RoomRows, Kinds
    <2>3. DOMAIN members = {} /\ leaked = {}
      BY DEF NoOne
    <2>5. blurred \in BOOLEAN
      BY Zenon
    <2>4. clock \in Nat /\ room \in RoomRows /\ cache \in RoomRows
      BY <2>2
    <2> QED BY <2>1, <2>3, <2>4, <2>5 DEF TypesInv
  <1>2. DOMAIN outbox = {} /\ (\A x : Events(x) = {}) /\ Saves = 0
    BY DEF Events, Saves
  <1>3. OutboxInv
    BY <1>2, NoSeq DEF OutboxInv
  <1>4. WaitingSet = {}
    BY DEF WaitingSet, IsIdle, Idle
  <1>5. ClockInv
    BY <1>4, FS_EmptySet, BoundAssumption DEF ClockInv
  <1>6. TablesInv
    <2>1. \A a \in Accounts : MemberEvents(a) = {}
      BY <1>2 DEF MemberEvents
    <2>2. DOMAIN members = {} /\ room.kind = "none"
      BY DEF NoOne, NoRoom
    <2>3. MembersAreAnnounced
      BY <2>1, <2>2 DEF MembersAreAnnounced
    <2>4. DirectIsForTwo
      BY <2>2 DEF DirectIsForTwo
    <2>5. RenameSticks /\ DeletedStaysDeleted
      BY <1>2 DEF RenameSticks, DeletedStaysDeleted
    <2> QED BY <2>2, <2>3, <2>4, <2>5 DEF TablesInv
  <1>7. Saving = {}
    BY DEF Saving, At, Idle
  <1>8. SavingInv /\ CacheInv
    BY <1>7 DEF SavingInv, CacheInv, CacheFollowsRow, NoRoom
  <1>9. \A w \in Workers : JobInv(job[w])
    BY <1>3, IdleOK
  <1> QED BY <1>1, <1>3, <1>5, <1>6, <1>8, <1>9 DEF RoomInv

\* A worker's step leaves the other workers' commands.
LEMMA WorkAlone ==
  ASSUME RoomInv, NEW w \in Workers, NEW j, Work(w, j)
  PROVE  /\ DOMAIN job' = Workers /\ job'[w] = j
         /\ \A x \in Workers \ {w} : job'[x] = job[x]
  BY DEF RoomInv, TypesInv, Work

\* A job stays right while the tables stay, but for the names that are known.
LEMMA RestStays ==
  ASSUME NEW j, JobTypeOK(j), OnItsWay(j), Undated(j) => j.now = 0, j.roomAt <= Saves, j.base <= Saves,
         GivenOK(j), KindOK(j), RenameOK(j), DeletionOK(j), NameOK(j)', UNCHANGED tables
  PROVE  JobInv(j)'
  <1>0. UNCHANGED << room, members, messages, outbox >>
    BY DEF tables
  <1>1. Saves' = Saves /\ \A x : Events(x)' = Events(x)
    BY <1>0 DEF Saves, Events
  <1>2. \A i : Reverted(i)' = Reverted(i)
    BY <1>0, <1>1, Zenon DEF Reverted
  <1>3. \A i : Undone(i)' = Undone(i)
    BY <1>0, <1>1, Zenon DEF Undone
  <1>4. \A i : IsLast(i)' = IsLast(i) /\ IsDeletion(i)' = IsDeletion(i)
    BY <1>0, <1>1, Zenon DEF IsLast, IsDeletion
  <1>5. RenameOK(j)'
    BY <1>0, <1>1, <1>2, <1>4 DEF RenameOK, Loaded, Renaming
  <1>6. DeletionOK(j)'
    BY <1>0, <1>1, <1>3, <1>4 DEF DeletionOK
  <1>8. GivenOK(j)' /\ KindOK(j)'
    BY <1>0 DEF GivenOK, KindOK, Loaded, Making, Renaming
  <1>9. JobTypeOK(j)' /\ OnItsWay(j)' /\ (Undated(j)' => j.now = 0)
    BY DEF JobTypeOK, OnItsWay, Undated
  <1> QED BY <1>1, <1>5, <1>6, <1>8, <1>9 DEF JobInv

\* A job stays right while the tables stay and what was known is known.
LEMMA StaysRight ==
  ASSUME NEW j, JobInv(j), UNCHANGED tables, Known \subseteq Known'
  PROVE  JobInv(j)'
  <1>1. NameOK(j)'
    BY DEF JobInv, NameOK, Loaded
  <1> QED BY <1>1, RestStays DEF JobInv

\* A step in which nobody begins or ends a save, and nothing of the tables changes.
Aside(w, j) ==
    /\ Work(w, j) /\ ~At(w, "saving") /\ j.pc # "saving"
    /\ UNCHANGED << tables, leaked >>

\* Such a step changes nothing of what is being saved and of the names known.
LEMMA AsideKnown ==
  ASSUME RoomInv, NEW w \in Workers, NEW j, Aside(w, j)
  PROVE  /\ Saving' = Saving /\ Known' = Known
         /\ \A x \in Saving : job'[x] = job[x]
  <1>1. /\ DOMAIN job' = Workers /\ job'[w] = j
        /\ \A x \in Workers \ {w} : job'[x] = job[x]
    BY WorkAlone DEF Aside
  <1>2. Saving' = Saving
    BY <1>1 DEF Saving, At, Aside
  <1>3. \A x \in Saving : job'[x] = job[x]
    BY <1>1 DEF Saving, Aside
  <1>4. Announced' = Announced
    BY DEF Announced, Events, Aside, tables
  <1>5. { x \in Saving : job[x].op \in Creations \cup {"rename"} }' = { x \in Saving : job[x].op \in Creations \cup {"rename"} }
    BY <1>2, <1>3
  <1>6. leaked' = leaked
    BY DEF Aside
  <1>7. Known' = Known
    BY <1>3, <1>4, <1>5, <1>6 DEF Known
  <1> QED BY <1>2, <1>3, <1>7

\* Nor of who holds the lock.
LEMMA AsideSaving ==
  ASSUME RoomInv, NEW w \in Workers, NEW j, Aside(w, j)
  PROVE  SavingInv'
  <1>1. /\ Saving' = Saving /\ Known' = Known
        /\ \A x \in Saving : job'[x] = job[x]
    BY AsideKnown
  <1>2. room' = room
    BY DEF Aside, tables
  <1> QED BY <1>1, <1>2 DEF RoomInv, SavingInv

\* The tables are right as long as they stay.
LEMMA AsideTables ==
  ASSUME RoomInv, UNCHANGED tables, leaked \subseteq leaked'
  PROVE  TablesInv' /\ OutboxInv'
  <1>0. UNCHANGED << room, members, messages, outbox >>
    BY DEF tables
  <1>1. Saves' = Saves /\ \A x : Events(x)' = Events(x)
    BY <1>0 DEF Saves, Events
  <1>2. OutboxInv'
    BY <1>0, <1>1 DEF RoomInv, OutboxInv
  <1>3. MembersAreAnnounced' /\ DirectIsForTwo'
    BY <1>0 DEF RoomInv, TablesInv, MembersAreAnnounced, DirectIsForTwo, MemberEvents, Events
  <1>4. RenameSticks'
    BY <1>0 DEF RoomInv, TablesInv, RenameSticks, Events
  <1>5. DeletedStaysDeleted'
    BY <1>0 DEF RoomInv, TablesInv, DeletedStaysDeleted, Events
  <1>6. Announced' = Announced
    BY <1>0 DEF Announced, Events
  <1> QED BY <1>0, <1>2, <1>3, <1>4, <1>5, <1>6 DEF RoomInv, TablesInv

\* The copy in Redis is as right as it was.
LEMMA AsideCache ==
  ASSUME RoomInv, NEW w \in Workers, NEW j, Aside(w, j), UNCHANGED << cache, blurred >>
  PROVE  CacheInv'
  <1>1. /\ Saving' = Saving /\ Known' = Known
        /\ \A x \in Saving : job'[x] = job[x]
    BY AsideKnown
  <1>2. room' = room
    BY DEF Aside, tables
  <1>3. (\A x \in Workers : ~At(x, "saving")) <=> Saving = {}
    BY DEF Saving
  <1>4. (\A x \in Workers : ~At(x, "saving"))' <=> Saving' = {}
    BY DEF Saving
  <1>5. CacheFollowsRow'
    BY <1>1, <1>2, <1>3, <1>4 DEF RoomInv, CacheInv, CacheFollowsRow
  <1> QED BY <1>1, <1>2, <1>5 DEF RoomInv, CacheInv

\* Such a step keeps the invariant when the worker's own job is right.
LEMMA AsideInv ==
  ASSUME RoomInv, NEW w \in Workers, NEW j, Aside(w, j), JobInv(j), CacheInv', ClockInv',
         clock' \in Nat, blurred' \in BOOLEAN, cache' \in RoomRows
  PROVE  RoomInv'
  <1>1. /\ DOMAIN job' = Workers /\ job'[w] = j
        /\ \A x \in Workers \ {w} : job'[x] = job[x]
    BY WorkAlone DEF Aside
  <1>2. TypesInv'
    BY <1>1 DEF RoomInv, TypesInv, Aside, tables
  <1>3. \A x \in Workers : JobInv(job[x])'
    <2> TAKE x \in Workers
    <2>1. PICK y : y = job'[x]
      OBVIOUS
    <2>2. JobInv(y)
      BY <1>1, <2>1 DEF RoomInv
    <2>3. UNCHANGED tables /\ Known \subseteq Known'
      BY AsideKnown DEF Aside
    <2>4. JobInv(y)'
      BY <2>2, <2>3, StaysRight
    <2> QED BY <2>1, <2>4
  <1>4. TablesInv' /\ OutboxInv'
    BY AsideTables DEF Aside
  <1> QED BY <1>2, <1>3, <1>4, AsideSaving DEF RoomInv

-----------------------------------------------------------------------------
(* The clock. *)

Waits(j) == j.op # "none" /\ j.now = 0

\* A worker's step changes the set of those that wait for a time only by that worker.
LEMMA WaitingChanges ==
  ASSUME RoomInv, NEW w \in Workers, NEW j, Work(w, j)
  PROVE  WaitingSet' = IF Waits(j) THEN WaitingSet \cup {w} ELSE WaitingSet \ {w}
  <1>1. /\ DOMAIN job' = Workers /\ job'[w] = j
        /\ \A x \in Workers \ {w} : job'[x] = job[x]
    BY WorkAlone
  <1>2. WaitingSet' = { x \in Workers : job'[x].op # "none" /\ job'[x].now = 0 }
    BY DEF WaitingSet, IsIdle
  <1>3. WaitingSet = { x \in Workers : job[x].op # "none" /\ job[x].now = 0 }
    BY DEF WaitingSet, IsIdle
  <1>4. CASE Waits(j)
    BY <1>1, <1>2, <1>3, <1>4 DEF Waits
  <1>5. CASE ~Waits(j)
    BY <1>1, <1>2, <1>3, <1>5 DEF Waits
  <1> QED BY <1>4, <1>5

\* That set is finite, and the clock leaves room for all of them.
LEMMA WaitingNumber ==
  ASSUME RoomInv
  PROVE  /\ IsFiniteSet(WaitingSet) /\ Cardinality(WaitingSet) \in Nat /\ Waiting = Cardinality(WaitingSet)
         /\ clock \in Nat /\ clock + Cardinality(WaitingSet) <= MaxCommands
  BY FS_CardinalityType DEF RoomInv, ClockInv, WaitingSet, Waiting, TypesInv

\* The clock has room for a worker that does not begin to wait,
LEMMA ClockStays ==
  ASSUME RoomInv, NEW w \in Workers, NEW j, Work(w, j), clock' = clock, Waits(j) => w \in WaitingSet
  PROVE  ClockInv'
  <1>1. WaitingSet' \subseteq WaitingSet
    BY WaitingChanges
  <1>2. IsFiniteSet(WaitingSet') /\ Cardinality(WaitingSet') <= Cardinality(WaitingSet)
    BY <1>1, WaitingNumber, FS_Subset
  <1>3. Cardinality(WaitingSet') \in Nat
    BY <1>2, FS_CardinalityType
  <1> QED BY <1>2, <1>3, WaitingNumber, BoundAssumption DEF ClockInv

\* for one that takes its time,
LEMMA ClockTicks ==
  ASSUME RoomInv, NEW w \in Workers, NEW j, Work(w, j), clock' = clock + 1, ~Waits(j), w \in WaitingSet
  PROVE  ClockInv' /\ clock' \in Nat
  <1>1. WaitingSet' = WaitingSet \ {w}
    BY WaitingChanges
  <1>2. IsFiniteSet(WaitingSet') /\ Cardinality(WaitingSet') = Cardinality(WaitingSet) - 1
    BY <1>1, WaitingNumber, FS_RemoveElement
  <1> QED BY <1>2, WaitingNumber, BoundAssumption DEF ClockInv

\* and for one that begins while there is room.
LEMMA ClockReserves ==
  ASSUME RoomInv, NEW w \in Workers, NEW j, Work(w, j), clock' = clock, clock + Waiting < MaxCommands
  PROVE  ClockInv'
  <1>1. CASE Waits(j) /\ w \notin WaitingSet
    <2>1. WaitingSet' = WaitingSet \cup {w}
      BY <1>1, WaitingChanges
    <2>2. IsFiniteSet(WaitingSet') /\ Cardinality(WaitingSet') = Cardinality(WaitingSet) + 1
      BY <1>1, <2>1, WaitingNumber, FS_AddElement
    <2> QED BY <2>2, WaitingNumber, BoundAssumption DEF ClockInv
  <1>2. CASE ~(Waits(j) /\ w \notin WaitingSet)
    BY <1>2, ClockStays
  <1> QED BY <1>1, <1>2

-----------------------------------------------------------------------------
(* Commands arrive. *)

\* A command that has read nothing yet is right.
LEMMA FreshJob ==
  ASSUME OutboxInv, NEW j, JobTypeOK(j), OnItsWay(j), GivenOK(j),
         j.pc \in {"lookup", "message"} \/ (j.pc = "room" /\ j.op \in RoomOps),
         j.now = 0, j.roomAt = 0, j.base = 0,
         j.op \in RoomOps \cup MessageOps => room.kind # "none"
  PROVE  JobInv(j)
  <1>1. ~Loaded(j) /\ ~Making(j) /\ ~Renaming(j) /\ j.pc # "update" /\ j.pc # "saving"
    BY DEF Loaded, Making, Renaming
  <1>2. KindOK(j) /\ NameOK(j) /\ RenameOK(j)
    BY <1>1 DEF KindOK, NameOK, RenameOK
  <1>3. DeletionOK(j)
    BY DEF DeletionOK, OnItsWay, RoomOps, MessageWrites
  <1>4. j.roomAt <= Saves /\ j.base <= Saves
    BY DEF OutboxInv
  <1> QED BY <1>2, <1>3, <1>4 DEF JobInv

\* Begin keeps the invariant.
LEMMA BeginInv ==
  ASSUME RoomInv, NEW w \in Workers, NEW j, Begin(w, j), JobInv(j), j.pc # "saving"
  PROVE  RoomInv'
  <1>1. job[w].pc = "idle"
    BY DEF RoomInv, JobInv, OnItsWay, Begin, IsIdle, RoomOps, MessageOps, MessageWrites
  <1>2. Aside(w, j) /\ UNCHANGED << cache, blurred >> /\ clock' = clock /\ clock + Waiting < MaxCommands /\ Work(w, j)
    BY <1>1 DEF Aside, Begin, At
  <1>3. ClockInv' /\ CacheInv'
    BY <1>2, ClockReserves, AsideCache
  <1>4. clock' \in Nat /\ blurred' \in BOOLEAN /\ cache' \in RoomRows
    BY <1>2 DEF RoomInv, TypesInv
  <1> QED BY <1>2, <1>3, <1>4, AsideInv

\* A command as it arrives.
Given(j, op, a, step, id, who, val) ==
    /\ DOMAIN j = DOMAIN Idle /\ j.op = op /\ j.by = a /\ j.pc = step
    /\ j.id = id /\ j.who = who /\ j.val = val /\ j.now = 0 /\ j.roomAt = 0 /\ j.base = 0
    /\ j.dirty = FALSE /\ j.room = NoRoom /\ j.msg = NoMessage

\* What Command sets.
LEMMA CommandGives ==
  ASSUME NEW op, NEW a, NEW step
  PROVE  Given(Command(op, a, step), op, a, step, 0, "none", "none")
  BY DEF Given, Command, Idle

\* What is added to a command.
LEMMA GivesMore ==
  ASSUME NEW c, NEW op, NEW a, NEW step, NEW id, NEW who, NEW val, Given(c, op, a, step, id, who, val),
         NEW x, NEW y
  PROVE  /\ Given([c EXCEPT !.who = x], op, a, step, id, x, val)
         /\ Given([c EXCEPT !.val = x], op, a, step, id, who, x)
         /\ Given([c EXCEPT !.id = x], op, a, step, x, who, val)
         /\ Given([c EXCEPT !.who = x, !.val = y], op, a, step, id, x, y)
         /\ Given([c EXCEPT !.id = x, !.val = y], op, a, step, x, who, y)
  <1>1. {"op", "pc", "by", "who", "id", "val", "now", "room", "msg", "roomAt", "base", "dirty"} \subseteq DOMAIN c
    BY DEF Given, Idle
  <1>2. /\ c.op = op /\ c.by = a /\ c.pc = step /\ DOMAIN c = DOMAIN Idle
        /\ c.id = id /\ c.who = who /\ c.val = val /\ c.now = 0 /\ c.roomAt = 0 /\ c.base = 0
        /\ c.dirty = FALSE /\ c.room = NoRoom /\ c.msg = NoMessage
    BY DEF Given
  <1>3. Given([c EXCEPT !.who = x], op, a, step, id, x, val)
    BY <1>1, <1>2 DEF Given
  <1>4. Given([c EXCEPT !.val = x], op, a, step, id, who, x)
    BY <1>1, <1>2 DEF Given
  <1>5. Given([c EXCEPT !.id = x], op, a, step, x, who, val)
    BY <1>1, <1>2 DEF Given
  <1>6. Given([c EXCEPT !.who = x, !.val = y], op, a, step, id, x, y)
    BY <1>1, <1>2 DEF Given
  <1>7. Given([c EXCEPT !.id = x, !.val = y], op, a, step, x, who, y)
    BY <1>1, <1>2 DEF Given
  <1> QED BY <1>3, <1>4, <1>5, <1>6, <1>7

\* A command as it arrives has its type.
LEMMA GivenTypeOK ==
  ASSUME NEW j, NEW op \in Creations \cup RoomOps \cup MessageOps, NEW a, NEW step \in Steps, NEW id \in Nat,
         NEW who, NEW val, Given(j, op, a, step, id, who, val)
  PROVE  JobTypeOK(j)
  <1>1. NoRoom \in RoomRows /\ NoMessage \in MessageRows
    BY DEF NoRoom, NoMessage, RoomRows, MessageRows, Kinds
  <1>2. j.dirty \in BOOLEAN
    BY Zenon DEF Given
  <1>3. j.op = op /\ j.pc = step /\ j.room \in RoomRows /\ j.msg \in MessageRows /\ DOMAIN j = DOMAIN Idle
    BY <1>1 DEF Given
  <1>4. j.now \in Nat /\ j.id \in Nat /\ j.roomAt \in Nat /\ j.base \in Nat
    BY DEF Given
  <1> QED BY <1>2, <1>3, <1>4 DEF JobTypeOK

\* A command on an existing room keeps the invariant as it arrives.
LEMMA RoomCommandInv ==
  ASSUME RoomInv, NEW w \in Workers, NEW op \in RoomOps \cup MessageOps, NEW a \in Accounts,
         NEW step, NEW id \in Nat, NEW who, NEW val, NEW j, RoomCommand(w, j),
         Given(j, op, a, step, id, who, val),
         \/ step = "room" /\ op \in RoomOps
         \/ step = "message" /\ op \in MessageOps \cup {"forward"},
         op \in {"add", "remove"} => who \in Accounts,
         op = "rename" => val \in Names,
         op \in MessageOps \cup {"forward", "pin"} => id \in DOMAIN messages
  PROVE  RoomInv'
  <1>1. step \in Steps /\ op \in Creations \cup RoomOps \cup MessageOps
    BY DEF Steps
  <1>2. /\ JobTypeOK(j) /\ j.op = op /\ j.by = a /\ j.pc = step /\ j.id = id /\ j.who = who /\ j.val = val
        /\ j.now = 0 /\ j.roomAt = 0 /\ j.base = 0
    <2>1. JobTypeOK(j)
      BY <1>1, GivenTypeOK
    <2> QED BY <2>1 DEF Given
  <1>3. op # "none" /\ op # "direct" /\ step # "saving"
    BY DEF RoomOps, MessageOps, MessageWrites
  <1>4. GivenOK(j)
    BY <1>2, <1>3 DEF GivenOK
  <1>5. OnItsWay(j)
    BY <1>2 DEF OnItsWay, RoomOps, MessageOps
  <1>6. room.kind # "none" /\ Begin(w, j) /\ OutboxInv
    BY DEF RoomCommand, RoomInv
  <1>7. JobInv(j)
    BY <1>2, <1>4, <1>5, <1>6, FreshJob
  <1> QED BY <1>2, <1>3, <1>6, <1>7, BeginInv

\* So does the command that makes a direct conversation,
LEMMA DirectInv ==
  ASSUME RoomInv, NEW w \in Workers, NEW a \in Accounts, NEW b \in Accounts, createDirectConversation(w, a, b)
  PROVE  RoomInv'
  <1>1. PICK j : j = [Command("direct", a, "lookup") EXCEPT !.who = b]
    OBVIOUS
  <1>2. /\ JobTypeOK(j) /\ j.op = "direct" /\ j.by = a /\ j.pc = "lookup" /\ j.id = 0 /\ j.who = b
        /\ j.now = 0 /\ j.roomAt = 0 /\ j.base = 0
    <2>1. Given(j, "direct", a, "lookup", 0, b, "none")
      BY <1>1, CommandGives, GivesMore
    <2>2. "direct" \in Creations \cup RoomOps \cup MessageOps /\ "lookup" \in Steps /\ 0 \in Nat
      BY DEF Creations, Steps
    <2>3. JobTypeOK(j)
      BY <2>1, <2>2, GivenTypeOK
    <2> QED BY <2>1, <2>3 DEF Given
  <1>3. a # b /\ Begin(w, j)
    BY <1>1 DEF createDirectConversation
  <1>4. GivenOK(j)
    BY <1>2, <1>3 DEF GivenOK, MessageOps, MessageWrites
  <1>5. OnItsWay(j)
    BY <1>2 DEF OnItsWay
  <1>6. j.op \notin RoomOps \cup MessageOps
    BY <1>2 DEF RoomOps, MessageOps, MessageWrites
  <1>7. JobInv(j)
    BY <1>2, <1>4, <1>5, <1>6, FreshJob DEF RoomInv
  <1> QED BY <1>2, <1>3, <1>7, BeginInv

\* The members a new room gets.
LEMMA NewMembers ==
  ASSUME NEW a \in Accounts, NEW S \in SUBSET Accounts, NEW now
  PROVE  DOMAIN BuildGroupMemberRoles(a, S, now) = S \cup {a} /\ S \cup {a} \subseteq Accounts
  BY DEF BuildGroupMemberRoles

\* Two different accounts are two.
LEMMA TwoOfThem ==
  ASSUME NEW a, NEW b, a # b PROVE Cardinality({b} \cup {a}) = 2
  <1>1. IsFiniteSet({b}) /\ Cardinality({b}) = 1
    BY FS_Singleton
  <1>2. Cardinality({b} \cup {a}) = Cardinality({b}) + 1
    BY <1>1, FS_AddElement
  <1> QED BY <1>1, <1>2

\* A room that is about to be made.
LEMMA MakingJob ==
  ASSUME OutboxInv, NEW j, JobTypeOK(j), j.pc = "insert", j.op \in Creations, j.roomAt <= Saves, j.base <= Saves,
         j.room.kind = j.op, DOMAIN j.members \subseteq Accounts, j.by \in Accounts,
         j.op = "direct" => /\ Cardinality(DOMAIN j.members) = 2
                            /\ j.who \in Accounts /\ j.by # j.who
  PROVE  JobInv(j)
  <1>1. j.op \in {"direct", "group"}
    BY DEF Creations
  <1>2. ~Loaded(j) /\ ~Renaming(j) /\ j.op \notin RoomOps \cup MessageOps /\ ~Undated(j) /\ j.op \notin MessageWrites
    BY <1>1 DEF Loaded, Renaming, RoomOps, MessageOps, MessageWrites, Undated
  <1>3. NameOK(j) /\ RenameOK(j) /\ DeletionOK(j)
    BY <1>2 DEF NameOK, RenameOK, DeletionOK
  <1>4. KindOK(j) /\ GivenOK(j)
    BY <1>1, <1>2 DEF KindOK, GivenOK, Making, RoomOps
  <1>5. OnItsWay(j)
    BY <1>1 DEF OnItsWay
  <1> QED BY <1>2, <1>3, <1>4, <1>5 DEF JobInv

\* and the one that makes a group.
LEMMA GroupInv ==
  ASSUME RoomInv, NEW w \in Workers, NEW a \in Accounts, NEW S \in SUBSET Accounts, NEW n \in Names,
         createGroupChat(w, a, S, n)
  PROVE  RoomInv'
  <1>1. PICK now : now = clock + 1
    OBVIOUS
  <1>2. now \in Nat /\ now # 0 /\ clock' = now
    BY <1>1 DEF RoomInv, TypesInv, createGroupChat
  <1>3. PICK r : r = [kind |-> "group", name |-> n, pin |-> 0, at |-> now]
    OBVIOUS
  <1>4. r \in RoomRows /\ r.kind = "group"
    BY <1>2, <1>3 DEF RoomRows, Kinds
  <1>5. PICK m : m = BuildGroupMemberRoles(a, S, now)
    OBVIOUS
  <1>6. PICK j : j = [Command("group", a, "insert") EXCEPT !.room = r, !.members = m, !.now = now]
    OBVIOUS
  <1>7. PICK c : c = Command("group", a, "insert")
    OBVIOUS
  <1>8. /\ JobTypeOK(c) /\ c.op = "group" /\ c.by = a /\ c.pc = "insert" /\ c.roomAt = 0 /\ c.base = 0
    <2>1. Given(c, "group", a, "insert", 0, "none", "none")
      BY <1>7, CommandGives
    <2>2. "group" \in Creations \cup RoomOps \cup MessageOps /\ "insert" \in Steps /\ 0 \in Nat
      BY DEF Creations, Steps
    <2>3. JobTypeOK(c)
      BY <2>1, <2>2, GivenTypeOK
    <2> QED BY <2>1, <2>3 DEF Given
  <1>9. {"op", "pc", "by", "who", "id", "val", "now", "room", "members", "msg", "roomAt", "base", "dirty"} \subseteq DOMAIN c
    BY <1>8 DEF JobTypeOK, Idle
  <1>10. /\ DOMAIN j = DOMAIN c /\ j.op = "group" /\ j.by = a /\ j.pc = "insert" /\ j.roomAt = 0 /\ j.base = 0
         /\ j.room = r /\ j.members = m /\ j.now = now /\ j.id = c.id /\ j.dirty = c.dirty /\ j.msg = c.msg
    BY <1>6, <1>7, <1>8, <1>9
  <1>11. JobTypeOK(j)
    <2>1. j.op \in Creations \cup RoomOps \cup MessageOps \cup {"none"} /\ j.pc \in Steps
      BY <1>10 DEF Creations, Steps
    <2>2. /\ DOMAIN c = DOMAIN Idle /\ c.id \in Nat /\ c.dirty \in BOOLEAN /\ c.msg \in MessageRows
      BY <1>8 DEF JobTypeOK
    <2>3. 0 \in Nat
      OBVIOUS
    <2>4. j.room \in RoomRows /\ j.msg \in MessageRows /\ j.dirty \in BOOLEAN /\ DOMAIN j = DOMAIN Idle
      BY <1>4, <1>10, <2>2
    <2>5. j.now \in Nat /\ j.id \in Nat /\ j.roomAt \in Nat /\ j.base \in Nat
      BY <1>2, <1>10, <2>2
    <2> QED BY <2>1, <2>4, <2>5 DEF JobTypeOK
  <1>12. DOMAIN m \subseteq Accounts
    <2>1. DOMAIN BuildGroupMemberRoles(a, S, now) = S \cup {a} /\ S \cup {a} \subseteq Accounts
      BY NewMembers
    <2> QED BY <1>5, <2>1
  <1>13. JobInv(j)
    <2>1. OutboxInv /\ j.roomAt <= Saves /\ j.base <= Saves
      BY <1>10 DEF RoomInv, OutboxInv
    <2>2. j.op \in Creations /\ j.op # "direct"
      BY <1>10 DEF Creations
    <2> QED BY <1>4, <1>10, <1>11, <1>12, <2>1, <2>2, MakingJob
  <1>14. Work(w, j) /\ (\A x \in Workers : IsIdle(x)) /\ clock < MaxCommands /\ UNCHANGED << tables, cache, leaked, blurred >>
    BY <1>1, <1>2, <1>3, <1>5, <1>6 DEF createGroupChat
  <1>15. job[w].pc = "idle"
    BY <1>14 DEF RoomInv, JobInv, OnItsWay, IsIdle, RoomOps, MessageOps, MessageWrites
  <1>16. Aside(w, j)
    BY <1>10, <1>14, <1>15 DEF Aside, At
  <1>17. ClockInv'
    <2>1. WaitingSet = {}
      BY <1>14 DEF WaitingSet
    <2>2. WaitingSet' = {}
      BY <1>2, <1>10, <1>14, <2>1, WaitingChanges DEF Waits
    <2>3. IsFiniteSet(WaitingSet') /\ Cardinality(WaitingSet') = 0
      BY <2>2, FS_EmptySet
    <2>4. clock \in Nat /\ clock' = clock + 1 /\ clock < MaxCommands
      BY <1>1, <1>2, <1>14 DEF RoomInv, TypesInv
    <2> QED BY <2>3, <2>4, BoundAssumption DEF ClockInv
  <1>18. clock' \in Nat /\ blurred' \in BOOLEAN /\ cache' \in RoomRows
    BY <1>2, <1>14 DEF RoomInv, TypesInv
  <1> QED BY <1>13, <1>14, <1>16, <1>17, <1>18, AsideInv, AsideCache

\* Every command that arrives keeps the invariant.
LEMMA CommandsInv ==
  ASSUME RoomInv, NEW w \in Workers, Commands(w)
  PROVE  RoomInv'
  <1>1. PICK a \in Accounts :
        \/ \E b \in Accounts : createDirectConversation(w, a, b)
        \/ \E S \in SUBSET Accounts, n \in Names : createGroupChat(w, a, S, n)
        \/ sendChatMessage(w, a)
        \/ \E b \in Accounts, r \in {"admin", "member"} : addChatMember(w, a, b, r)
        \/ \E b \in Accounts : removeChatMember(w, a, b)
        \/ \E n \in Names : updateGroupChat(w, a, n)
        \/ \E i \in DOMAIN messages :
            \/ pinChatMessage(w, a, i)
            \/ forwardChatMessage(w, a, i)
            \/ editChatMessage(w, a, i)
            \/ deleteChatMessage(w, a, i)
            \/ toggleChatMessageReaction(w, a, i)
            \/ \E s \in {"delivered", "seen"} : markChatMessageStatus(w, a, i, s)
    BY DEF Commands
  <1> USE DEF RoomOps, MessageOps, MessageWrites
  <1>2. 0 \in Nat
    OBVIOUS
  <1>3. CASE sendChatMessage(w, a)
    <2>1. PICK j : j = Command("send", a, "room")
      OBVIOUS
    <2>2. Given(j, "send", a, "room", 0, "none", "none")
      BY <2>1, CommandGives, GivesMore
    <2>3. RoomCommand(w, j)
      BY <1>3, <2>1 DEF sendChatMessage
    <2> QED BY <1>2, <2>2, <2>3, RoomCommandInv
  <1>4. ASSUME NEW b \in Accounts, NEW r \in {"admin", "member"}, addChatMember(w, a, b, r) PROVE RoomInv'
    <2>1. PICK j : j = [Command("add", a, "room") EXCEPT !.who = b, !.val = r]
      OBVIOUS
    <2>2. Given(j, "add", a, "room", 0, b, r)
      BY <2>1, CommandGives, GivesMore
    <2>3. RoomCommand(w, j)
      BY <1>4, <2>1 DEF addChatMember
    <2> QED BY <1>2, <2>2, <2>3, RoomCommandInv
  <1>5. ASSUME NEW b \in Accounts, removeChatMember(w, a, b) PROVE RoomInv'
    <2>1. PICK j : j = [Command("remove", a, "room") EXCEPT !.who = b]
      OBVIOUS
    <2>2. Given(j, "remove", a, "room", 0, b, "none")
      BY <2>1, CommandGives, GivesMore
    <2>3. RoomCommand(w, j)
      BY <1>5, <2>1 DEF removeChatMember
    <2> QED BY <1>2, <2>2, <2>3, RoomCommandInv
  <1>6. ASSUME NEW n \in Names, updateGroupChat(w, a, n) PROVE RoomInv'
    <2>1. PICK j : j = [Command("rename", a, "room") EXCEPT !.val = n]
      OBVIOUS
    <2>2. Given(j, "rename", a, "room", 0, "none", n)
      BY <2>1, CommandGives, GivesMore
    <2>3. RoomCommand(w, j)
      BY <1>6, <2>1 DEF updateGroupChat
    <2> QED BY <1>2, <2>2, <2>3, RoomCommandInv
  <1>7. ASSUME NEW i \in DOMAIN messages, pinChatMessage(w, a, i) PROVE RoomInv'
    <2>1. PICK j : j = [Command("pin", a, "room") EXCEPT !.id = i]
      OBVIOUS
    <2>2. Given(j, "pin", a, "room", i, "none", "none")
      BY <2>1, CommandGives, GivesMore
    <2>3. RoomCommand(w, j)
      BY <1>7, <2>1 DEF pinChatMessage
    <2>4. i \in Nat
      BY DEF RoomInv, TypesInv
    <2> QED BY <2>2, <2>3, <2>4, RoomCommandInv
  <1>8. ASSUME NEW i \in DOMAIN messages, NEW op \in MessageOps \cup {"forward"}, MessageCommand(w, op, a, i) PROVE RoomInv'
    <2>1. PICK j : j = [Command(op, a, "message") EXCEPT !.id = i]
      OBVIOUS
    <2>2. Given(j, op, a, "message", i, "none", "none")
      BY <2>1, CommandGives, GivesMore
    <2>3. RoomCommand(w, j)
      BY <1>8, <2>1 DEF MessageCommand
    <2>4. i \in Nat
      BY DEF RoomInv, TypesInv
    <2> QED BY <2>2, <2>3, <2>4, RoomCommandInv
  <1>9. ASSUME NEW i \in DOMAIN messages, NEW s, markChatMessageStatus(w, a, i, s) PROVE RoomInv'
    <2>1. PICK j : j = [Command("mark", a, "message") EXCEPT !.id = i, !.val = s]
      OBVIOUS
    <2>2. Given(j, "mark", a, "message", i, "none", s)
      BY <2>1, CommandGives, GivesMore
    <2>3. RoomCommand(w, j)
      BY <1>9, <2>1 DEF markChatMessageStatus
    <2>4. i \in Nat
      BY DEF RoomInv, TypesInv
    <2> QED BY <2>2, <2>3, <2>4, RoomCommandInv
  <1>10. ASSUME NEW i \in DOMAIN messages,
                forwardChatMessage(w, a, i) \/ editChatMessage(w, a, i) \/ deleteChatMessage(w, a, i)
                  \/ toggleChatMessageReaction(w, a, i)
         PROVE  RoomInv'
    BY <1>8, <1>10 DEF forwardChatMessage, editChatMessage, deleteChatMessage, toggleChatMessageReaction
  <1> QED BY <1>1, <1>3, <1>4, <1>5, <1>6, <1>7, <1>9, <1>10, DirectInv, GroupInv

-----------------------------------------------------------------------------
(* Loading. *)

\* The fields the invariant is about.
Fields == {"op", "pc", "by", "who", "id", "val", "now", "room", "members", "msg", "last", "roomAt", "base",
           "seen", "dirty"}

\* A job has all its fields.
LEMMA JobFields ==
  ASSUME NEW j, JobTypeOK(j) PROVE Fields \subseteq DOMAIN j
  BY DEF JobTypeOK, Idle, Fields

\* The job is what it was but for its step.
Same(j, c) ==
    /\ DOMAIN j = DOMAIN c
    /\ j.op = c.op /\ j.by = c.by /\ j.who = c.who /\ j.id = c.id /\ j.val = c.val
    /\ j.msg = c.msg /\ j.base = c.base

\* The job of a worker that ended.
LEMMA EndsInv ==
  ASSUME RoomInv, NEW w \in Workers, Done(w), ~At(w, "saving"), UNCHANGED << tables, leaked, cache, blurred >>,
         clock' = clock
  PROVE  RoomInv'
  <1>1. JobInv(Idle)
    BY IdleOK DEF RoomInv
  <1>2. Idle.pc # "saving" /\ ~Waits(Idle)
    BY DEF Idle, Waits
  <1>3. Aside(w, Idle) /\ Work(w, Idle)
    BY <1>2 DEF Aside, Done
  <1>4. clock' \in Nat /\ blurred' \in BOOLEAN /\ cache' \in RoomRows
    BY DEF RoomInv, TypesInv
  <1> QED BY <1>1, <1>2, <1>3, <1>4, AsideInv, AsideCache, ClockStays

\* A job that goes on.
LEMMA GoesOn ==
  ASSUME RoomInv, NEW w \in Workers, NEW j, Work(w, j), JobInv(j), ~At(w, "saving"), j.pc # "saving",
         UNCHANGED << tables, leaked, cache, blurred >>,
         \/ clock' = clock /\ j.now = job[w].now
         \/ clock' = clock + 1 /\ j.now # 0 /\ Undated(job[w]),
         job[w].op # "none"
  PROVE  RoomInv'
  <1>1. Aside(w, j)
    BY DEF Aside
  <1>2. CacheInv'
    BY <1>1, AsideCache
  <1>3. blurred' \in BOOLEAN /\ cache' \in RoomRows
    BY DEF RoomInv, TypesInv
  <1>4. CASE clock' = clock /\ j.now = job[w].now
    <2>1. Waits(j) => w \in WaitingSet
      BY <1>4 DEF Waits, WaitingSet, IsIdle
    <2>2. clock' \in Nat
      BY <1>4 DEF RoomInv, TypesInv
    <2> QED BY <1>1, <1>2, <1>3, <1>4, <2>1, <2>2, AsideInv, ClockStays
  <1>5. CASE clock' = clock + 1 /\ j.now # 0 /\ Undated(job[w])
    <2>1. job[w].now = 0
      BY <1>5 DEF RoomInv, JobInv
    <2>2. w \in WaitingSet /\ ~Waits(j)
      BY <1>5, <2>1 DEF Waits, WaitingSet, IsIdle
    <2>3. ClockInv' /\ clock' \in Nat
      BY <1>5, <2>2, ClockTicks
    <2> QED BY <1>1, <1>2, <1>3, <2>3, AsideInv
  <1> QED BY <1>4, <1>5

\* LoadByDirectKey keeps the invariant.
LEMMA LookupInv ==
  ASSUME RoomInv, NEW w \in Workers, LoadByDirectKey(w)
  PROVE  RoomInv'
  <1>1. PICK c : c = job[w]
    OBVIOUS
  <1>2. JobInv(c) /\ JobTypeOK(c) /\ OnItsWay(c) /\ c.pc = "lookup" /\ ~At(w, "saving")
    BY <1>1 DEF RoomInv, JobInv, LoadByDirectKey, At
  <1>3. c.op = "direct" /\ c.now = 0 /\ Undated(c)
    BY <1>2 DEF OnItsWay, JobInv, Undated
  <1>4. c.by \in Accounts /\ c.who \in Accounts /\ c.by # c.who
    BY <1>2, <1>3 DEF JobInv, GivenOK
  <1>5. Fields \subseteq DOMAIN c
    BY <1>2, JobFields
  <1>6. room \in RoomRows /\ clock \in Nat /\ OutboxInv
    BY DEF RoomInv, TypesInv
  <1>7. UNCHANGED << tables, cache, leaked, blurred >>
    BY DEF LoadByDirectKey
  <1>8. CASE room.kind # "none"
    <2>1. PICK j : j = [c EXCEPT !.room = room, !.pc = "warm"]
      OBVIOUS
    <2>2. Work(w, j) /\ clock' = clock
      BY <1>1, <1>8, <2>1 DEF LoadByDirectKey
    <2>3. /\ Same(j, c) /\ j.room = room /\ j.pc = "warm" /\ j.now = c.now /\ j.roomAt = c.roomAt /\ j.dirty = c.dirty
      BY <1>5, <2>1 DEF Same, Fields
    <2>4. JobTypeOK(j)
      BY <1>2, <1>6, <2>3 DEF JobTypeOK, Same, Steps
    <2>5. OnItsWay(j) /\ j.op = "direct" /\ ~Renaming(j) /\ ~Making(j)
      BY <1>3, <2>3 DEF OnItsWay, Same, Renaming, Making
    <2>6. NameOK(j)
      BY <1>8, <2>3 DEF RoomInv, TablesInv, NameOK, Known
    <2>7. KindOK(j) /\ GivenOK(j) /\ RenameOK(j) /\ DeletionOK(j)
      BY <1>2, <1>3, <1>8, <2>3, <2>5
         DEF KindOK, GivenOK, RenameOK, DeletionOK, JobInv, Same, RoomOps, MessageOps, MessageWrites
    <2>8. j.roomAt <= Saves /\ j.base <= Saves /\ (Undated(j) => j.now = 0)
      BY <1>2, <1>3, <2>3 DEF JobInv, Same
    <2>9. JobInv(j)
      BY <2>4, <2>5, <2>6, <2>7, <2>8 DEF JobInv
    <2> QED BY <1>1, <1>2, <1>3, <1>7, <2>2, <2>3, <2>9, GoesOn
  <1>9. CASE room.kind = "none"
    <2>1. PICK now : now = clock + 1
      OBVIOUS
    <2>2. now \in Nat /\ now # 0
      BY <1>6, <2>1
    <2>3. PICK r : r = [kind |-> "direct", name |-> "direct", pin |-> 0, at |-> now]
      OBVIOUS
    <2>4. r \in RoomRows /\ r.kind = "direct"
      BY <2>2, <2>3 DEF RoomRows, Kinds
    <2>5. PICK m : m = BuildGroupMemberRoles(c.by, {c.who}, now)
      OBVIOUS
    <2>6. DOMAIN m \subseteq Accounts /\ Cardinality(DOMAIN m) = 2
      <3>1. {c.who} \in SUBSET Accounts
        BY <1>4
      <3>2. DOMAIN m = {c.who} \cup {c.by} /\ {c.who} \cup {c.by} \subseteq Accounts
        BY <1>4, <2>5, <3>1, NewMembers
      <3>3. Cardinality({c.who} \cup {c.by}) = 2
        BY <1>4, TwoOfThem
      <3> QED BY <3>2, <3>3
    <2>7. PICK j : j = [c EXCEPT !.room = r, !.members = m, !.now = now, !.pc = "insert"]
      OBVIOUS
    <2>8. Work(w, j) /\ clock' = clock + 1
      BY <1>1, <1>9, <2>1, <2>3, <2>5, <2>7 DEF LoadByDirectKey
    <2>9. /\ Same(j, c) /\ j.room = r /\ j.pc = "insert" /\ j.now = now /\ j.members = m /\ j.roomAt = c.roomAt /\ j.dirty = c.dirty
      BY <1>5, <2>7 DEF Same, Fields
    <2>10. JobTypeOK(j)
      BY <1>2, <2>2, <2>4, <2>9 DEF JobTypeOK, Same, Steps
    <2>11. j.roomAt <= Saves /\ j.base <= Saves
      BY <1>2, <2>9 DEF JobInv, Same
    <2>12. JobInv(j)
      BY <1>3, <1>4, <1>6, <2>4, <2>6, <2>9, <2>10, <2>11, MakingJob DEF Same, Creations
    <2> QED BY <1>1, <1>2, <1>3, <1>7, <2>2, <2>8, <2>9, <2>12, GoesOn
  <1> QED BY <1>8, <1>9

\* The last rename is the one with the greatest index.
LEMMA LastIsMax ==
  ASSUME OutboxInv, NEW i \in Events("renamed")
  PROVE  IsLast(i) <=> i = Max(Events("renamed"))
  <1>1. Len(outbox) \in Nat /\ DOMAIN outbox = 1 .. Len(outbox)
    BY SeqDomain DEF OutboxInv
  <1>2. Events("renamed") \subseteq 1 .. Len(outbox)
    BY <1>1 DEF Events
  <1>3. Max(Events("renamed")) \in Events("renamed") /\ \A k \in Events("renamed") : k <= Max(Events("renamed"))
    BY <1>1, <1>2, MaxIsGreatest
  <1> QED BY <1>1, <1>2, <1>3 DEF IsLast

\* The row itself: what RenameSticks says of it.
LEMMA RowIsRenamed ==
  ASSUME RoomInv, NEW i \in Events("renamed"), IsLast(i)
  PROVE  Reverted(i) \/ room.name = outbox[i].name
  <1>1. i = Max(Events("renamed"))
    BY LastIsMax DEF RoomInv
  <1> QED BY <1>1 DEF RoomInv, TablesInv, RenameSticks, Reverted

\* A job that has just read the room.
LEMMA LoadedJob ==
  ASSUME RoomInv, NEW c, JobInv(c), c.pc = "room",
         NEW j, Same(j, c), j.now = c.now, j.room \in RoomRows, j.room.kind = room.kind, j.room.name \in Known,
         j.roomAt = Saves, j.dirty \in BOOLEAN, ~j.dirty => j.room = room,
         \/ j.pc = "warm"
         \/ j.pc = "commit" /\ j.op \in {"hide", "mark"}
         \/ j.pc = "members" /\ j.op \notin {"hide", "mark"}
  PROVE  JobInv(j)
  <1>1. JobTypeOK(c) /\ OnItsWay(c) /\ GivenOK(c) /\ KindOK(c) /\ DeletionOK(c) /\ (Undated(c) => c.now = 0) /\ c.base <= Saves
    BY DEF JobInv
  <1>2. c.op \in RoomOps \cup MessageOps
    BY <1>1 DEF OnItsWay, RoomOps, MessageOps
  <1>3. JobTypeOK(j)
    BY <1>1 DEF JobTypeOK, Same, Steps, RoomInv, OutboxInv
  <1>4. OnItsWay(j)
    BY <1>2 DEF OnItsWay, Same, RoomOps, MessageOps, MessageWrites
  <1>5. Undated(j) => j.now = 0
    BY <1>1 DEF Undated, Same
  <1>6. GivenOK(j)
    BY <1>1 DEF GivenOK, Same
  <1>7. KindOK(j)
    BY <1>1, <1>2 DEF KindOK, Same, Loaded, Making, Renaming, RoomOps, MessageOps, MessageWrites, Creations
  <1>8. NameOK(j)
    BY DEF NameOK
  <1>9. RenameOK(j)
    BY RowIsRenamed DEF RenameOK
  <1>10. DeletionOK(j)
    BY <1>1 DEF DeletionOK, Same
  <1>11. j.roomAt <= Saves /\ j.base <= Saves
    BY <1>1 DEF RoomInv, OutboxInv, Same
  <1> QED BY <1>3, <1>4, <1>5, <1>6, <1>7, <1>8, <1>9, <1>10, <1>11 DEF JobInv

\* GetRoomByID keeps the invariant.
LEMMA GetRoomInv ==
  ASSUME RoomInv, NEW w \in Workers, GetRoomByID(w)
  PROVE  RoomInv'
  <1>1. PICK c : c = job[w]
    OBVIOUS
  <1>2. JobInv(c) /\ JobTypeOK(c) /\ OnItsWay(c) /\ c.pc = "room" /\ ~At(w, "saving")
    BY <1>1 DEF RoomInv, JobInv, GetRoomByID, At
  <1>3. c.op \in RoomOps \cup MessageOps /\ c.op # "none" /\ c.op # "direct"
    BY <1>2 DEF OnItsWay, RoomOps, MessageOps, MessageWrites
  <1>4. room.kind # "none"
    BY <1>2, <1>3 DEF JobInv, KindOK
  <1>5. Fields \subseteq DOMAIN c
    BY <1>2, JobFields
  <1>6. PICK hit \in BOOLEAN : hit = (cache.kind # "none")
    OBVIOUS
  <1>7. PICK d \in BOOLEAN : d = (hit /\ cache # room)
    OBVIOUS
  <1>8. PICK r : r = IF hit THEN cache ELSE room
    OBVIOUS
  <1>9. PICK j : j = [c EXCEPT !.room = r, !.roomAt = Saves, !.dirty = d]
    OBVIOUS
  <1>10. r \in RoomRows /\ r.kind = room.kind /\ r.name \in Known /\ (~d => r = room)
    <2>1. room.name \in Known /\ room \in RoomRows
      BY <1>4 DEF RoomInv, TablesInv, Known, TypesInv
    <2>2. hit => cache \in RoomRows /\ cache.kind = room.kind /\ cache.name \in Known
      BY <1>4, <1>6 DEF RoomInv, CacheInv, TypesInv
    <2> QED BY <1>7, <1>8, <2>1, <2>2
  <1>11. /\ Same(j, c) /\ j.room = r /\ j.now = c.now /\ j.pc = c.pc /\ j.roomAt = Saves /\ j.dirty = d
         /\ DOMAIN j = DOMAIN c
    BY <1>5, <1>9 DEF Same, Fields
  <1>12. Fields \subseteq DOMAIN j
    BY <1>5, <1>11
  <1>13. /\ Work(w, IF hit THEN AfterRoom(j) ELSE [j EXCEPT !.pc = "warm"])
         /\ UNCHANGED << clock, tables, cache, leaked, blurred >>
    BY <1>1, <1>6, <1>7, <1>8, <1>9 DEF GetRoomByID
  <1>14. PICK z : z = IF hit THEN AfterRoom(j) ELSE [j EXCEPT !.pc = "warm"]
    OBVIOUS
  <1>15. PICK step : step = IF ~hit THEN "warm" ELSE IF j.op \in {"hide", "mark"} THEN "commit" ELSE "members"
    OBVIOUS
  <1>16. z = [j EXCEPT !.pc = step]
    BY <1>3, <1>11, <1>14, <1>15 DEF AfterRoom, Same
  <1>17. Same(z, c) /\ z.room = r /\ z.now = c.now /\ z.pc = step /\ z.roomAt = Saves /\ z.dirty = d
    BY <1>11, <1>12, <1>16 DEF Same, Fields
  <1>18. z.op = c.op /\ j.op = c.op
    BY <1>11, <1>17 DEF Same
  <1>19. JobInv(z)
    BY <1>2, <1>10, <1>15, <1>17, <1>18, LoadedJob
  <1>20. z.pc # "saving"
    BY <1>15, <1>17
  <1> QED BY <1>1, <1>2, <1>3, <1>13, <1>14, <1>17, <1>19, <1>20, GoesOn

\* Redis has been asked to keep what was read.
LEMMA WarmedJob ==
  ASSUME RoomInv, NEW c, JobInv(c), c.pc = "warm", c.op # "direct", NEW j, j = AfterRoom(c)
  PROVE  JobInv(j) /\ j.pc \in {"members", "commit"} /\ j.now = c.now /\ j.op = c.op
  <1>1. /\ JobTypeOK(c) /\ OnItsWay(c) /\ GivenOK(c) /\ KindOK(c) /\ NameOK(c) /\ RenameOK(c) /\ DeletionOK(c)
        /\ (Undated(c) => c.now = 0) /\ c.base <= Saves /\ c.roomAt <= Saves
    BY DEF JobInv
  <1>2. c.op \in RoomOps \cup MessageOps
    BY <1>1 DEF OnItsWay, RoomOps, MessageOps
  <1>3. Fields \subseteq DOMAIN c
    BY <1>1, JobFields
  <1>4. PICK step : step = IF c.op \in {"hide", "mark"} THEN "commit" ELSE "members"
    OBVIOUS
  <1>5. j = [c EXCEPT !.pc = step]
    BY <1>4 DEF AfterRoom
  <1>6. Same(j, c) /\ j.room = c.room /\ j.now = c.now /\ j.pc = step /\ j.roomAt = c.roomAt /\ j.dirty = c.dirty
    BY <1>3, <1>5 DEF Same, Fields
  <1>7. step \in {"members", "commit"}
    BY <1>4
  <1>8. JobTypeOK(j)
    BY <1>1, <1>6, <1>7 DEF JobTypeOK, Same, Steps
  <1>9. OnItsWay(j)
    BY <1>2, <1>4, <1>6 DEF OnItsWay, Same, RoomOps, MessageOps, MessageWrites
  <1>10. Undated(j) => j.now = 0
    BY <1>1, <1>6, <1>7 DEF Undated, Same
  <1>11. GivenOK(j)
    BY <1>1, <1>6 DEF GivenOK, Same
  <1>12. Loaded(c) /\ Loaded(j) /\ ~Making(j) /\ ~Renaming(j) /\ ~Renaming(c)
    BY <1>2, <1>6, <1>7 DEF Loaded, Making, Renaming, Same, RoomOps, MessageOps, MessageWrites, Creations
  <1>13. KindOK(j)
    BY <1>1, <1>6, <1>7, <1>12 DEF KindOK, Same
  <1>14. NameOK(j) /\ RenameOK(j)
    BY <1>1, <1>6, <1>12 DEF NameOK, RenameOK, Same
  <1>15. DeletionOK(j)
    BY <1>1, <1>6 DEF DeletionOK, Same
  <1>16. j.roomAt <= Saves /\ j.base <= Saves
    BY <1>1, <1>6 DEF Same
  <1> QED BY <1>6, <1>7, <1>8, <1>9, <1>10, <1>11, <1>13, <1>14, <1>15, <1>16 DEF JobInv, Same

\* WarmCache keeps the invariant.
LEMMA WarmCacheInv ==
  ASSUME RoomInv, NEW w \in Workers, WarmCache(w)
  PROVE  RoomInv'
  <1>1. PICK c : c = job[w]
    OBVIOUS
  <1>2. JobInv(c) /\ OnItsWay(c) /\ c.pc = "warm" /\ ~At(w, "saving")
    BY <1>1 DEF RoomInv, JobInv, WarmCache, At
  <1>3. PICK j : j = AfterRoom(c)
    OBVIOUS
  <1>4. Work(w, j) /\ UNCHANGED << clock, tables, leaked >>
    BY <1>1, <1>3 DEF WarmCache
  <1>5. JobInv(j) /\ j.pc # "saving" /\ (Waits(j) => w \in WaitingSet)
    <2>1. CASE c.op = "direct"
      <3>1. j = Idle
        BY <1>3, <2>1 DEF AfterRoom
      <3> QED BY <3>1, IdleOK DEF RoomInv, Idle, Waits
    <2>2. CASE c.op # "direct"
      <3>1. JobInv(j) /\ j.pc \in {"members", "commit"} /\ j.now = c.now /\ j.op = c.op
        BY <1>2, <1>3, <2>2, WarmedJob
      <3> QED BY <1>1, <3>1 DEF Waits, WaitingSet, IsIdle
    <2> QED BY <2>1, <2>2
  <1>6. Aside(w, j)
    BY <1>2, <1>4, <1>5 DEF Aside
  <1>7. ClockInv' /\ clock' \in Nat
    BY <1>4, <1>5, ClockStays DEF RoomInv, TypesInv
  <1>8. Loaded(c) /\ c.room \in RoomRows /\ c.room.kind = room.kind /\ room.kind # "none" /\ c.room.name \in Known
    <2>1. Loaded(c)
      BY <1>2 DEF OnItsWay, Loaded, RoomOps, MessageOps
    <2> QED BY <1>2, <2>1 DEF JobInv, JobTypeOK, KindOK, NameOK
  <1>9. CASE UNCHANGED << cache, blurred >>
    <2>1. blurred' \in BOOLEAN /\ cache' \in RoomRows
      BY <1>9 DEF RoomInv, TypesInv
    <2> QED BY <1>5, <1>6, <1>7, <1>9, <2>1, AsideInv, AsideCache
  <1>10. CASE cache' = c.room /\ blurred' = (c.room # room \/ RoomIsLocked(w))
    <2>1. blurred' \in BOOLEAN /\ cache' \in RoomRows
      BY <1>8, <1>10
    <2>2. /\ Saving' = Saving /\ Known' = Known
          /\ \A x \in Saving : job'[x] = job[x]
      BY <1>6, AsideKnown
    <2>3. room' = room
      BY <1>4 DEF tables
    <2>4. Saving # {} => RoomIsLocked(w)
      BY <1>2 DEF Saving, RoomIsLocked
    <2>5. Saving' # {} => blurred'
      BY <1>10, <2>2, <2>4
    <2>6. ~blurred' => cache' = room'
      BY <1>10, <2>3
    <2>7. CacheFollowsRow'
      BY <2>6 DEF CacheFollowsRow
    <2>8. \A x \in Saving' : cache'.kind # "none" /\ ~blurred' => cache' = job'[x].room
      BY <2>5
    <2>9. cache'.name \in Known' /\ cache'.kind = room'.kind /\ room'.kind # "none"
      BY <1>8, <1>10, <2>2, <2>3
    <2>10. CacheInv'
      BY <2>7, <2>8, <2>9 DEF CacheInv
    <2> QED BY <1>5, <1>6, <1>7, <2>1, <2>10, AsideInv
  <1> QED BY <1>1, <1>9, <1>10 DEF WarmCache

\* A job that has read the members.
LEMMA DecidedJob ==
  ASSUME RoomInv, NEW c, JobInv(c), c.pc = "members", NEW j, Same(j, c), j.room = c.room, j.roomAt = c.roomAt, j.dirty = c.dirty,
         j.now \in Nat,
         \/ j.pc = "commit" /\ j.op \in MessageOps
         \/ j.pc = "update" /\ j.op \in RoomOps /\ (j.op \in {"add", "remove"} => j.room.kind = "group")
  PROVE  JobInv(j)
  <1>1. /\ JobTypeOK(c) /\ OnItsWay(c) /\ GivenOK(c) /\ KindOK(c) /\ NameOK(c) /\ RenameOK(c) /\ DeletionOK(c)
        /\ c.base <= Saves /\ c.roomAt <= Saves
    BY DEF JobInv
  <1>2. JobTypeOK(j)
    BY <1>1 DEF JobTypeOK, Same, Steps
  <1>3. c.op \in RoomOps \cup MessageWrites
    BY <1>1 DEF OnItsWay
  <1>4. OnItsWay(j)
    BY <1>3 DEF OnItsWay, Same, RoomOps, MessageOps, MessageWrites
  <1>5. ~Undated(j)
    BY DEF Undated, RoomOps, MessageOps, MessageWrites
  <1>6. GivenOK(j)
    BY <1>1 DEF GivenOK, Same
  <1>7. Loaded(c) /\ Loaded(j) /\ ~Making(j) /\ ~Renaming(j) /\ ~Renaming(c)
    BY <1>3 DEF Loaded, Making, Renaming, Same, RoomOps, MessageOps, MessageWrites, Creations
  <1>8. KindOK(j)
    BY <1>1, <1>7 DEF KindOK, Same, RoomOps, MessageOps, MessageWrites
  <1>9. NameOK(j) /\ RenameOK(j)
    BY <1>1, <1>7 DEF NameOK, RenameOK, Same
  <1>10. DeletionOK(j)
    BY <1>1 DEF DeletionOK, Same
  <1>11. j.roomAt <= Saves /\ j.base <= Saves
    BY <1>1 DEF Same
  <1> QED BY <1>2, <1>4, <1>5, <1>6, <1>8, <1>9, <1>10, <1>11 DEF JobInv

\* ListRoomMembers keeps the invariant.
LEMMA ListMembersInv ==
  ASSUME RoomInv, NEW w \in Workers, ListRoomMembers(w)
  PROVE  RoomInv'
  <1>1. PICK c : c = job[w]
    OBVIOUS
  <1>2. JobInv(c) /\ JobTypeOK(c) /\ OnItsWay(c) /\ c.pc = "members" /\ ~At(w, "saving")
    BY <1>1 DEF RoomInv, JobInv, ListRoomMembers, At
  <1>3. c.op \in RoomOps \cup MessageWrites /\ c.op # "none"
    BY <1>2 DEF OnItsWay, RoomOps, MessageWrites
  <1>4. Fields \subseteq DOMAIN c
    BY <1>2, JobFields
  <1>5. PICK j : j = [c EXCEPT !.members = members, !.seen = Saves]
    OBVIOUS
  <1>6. Same(j, c) /\ j.room = c.room /\ j.now = c.now /\ j.pc = c.pc /\ j.roomAt = c.roomAt /\ j.dirty = c.dirty
    BY <1>4, <1>5 DEF Same, Fields
  <1>7. Fields \subseteq DOMAIN j /\ j.op = c.op
    BY <1>4, <1>6 DEF Same
  <1>8. UNCHANGED << tables, cache, leaked, blurred >> /\ clock \in Nat
    BY DEF ListRoomMembers, RoomInv, TypesInv
  <1>9. ASSUME NEW x, Work(w, [j EXCEPT !.pc = "commit", !.last = x]), clock' = clock, j.op \in MessageOps
        PROVE  RoomInv'
    <2>1. PICK z : z = [j EXCEPT !.pc = "commit", !.last = x]
      OBVIOUS
    <2>2. Same(z, c) /\ z.room = c.room /\ z.now = c.now /\ z.pc = "commit" /\ z.roomAt = c.roomAt /\ z.dirty = c.dirty /\ z.op = j.op
      BY <1>6, <1>7, <2>1 DEF Same, Fields
    <2>3. c.now \in Nat
      BY <1>2 DEF JobTypeOK
    <2>4. JobInv(z)
      BY <1>2, <1>9, <2>2, <2>3, DecidedJob
    <2>5. Work(w, z) /\ z.pc # "saving"
      BY <1>9, <2>1, <2>2
    <2> QED BY <1>1, <1>2, <1>3, <1>8, <1>9, <2>2, <2>4, <2>5, GoesOn
  <1>10. ASSUME NEW now, now = clock + 1, Work(w, [j EXCEPT !.now = now, !.pc = "update"]), clock' = now, j.op \notin MessageOps, Accepted(j)
         PROVE  RoomInv'
    <2>1. PICK z : z = [j EXCEPT !.now = now, !.pc = "update"]
      OBVIOUS
    <2>2. Same(z, c) /\ z.room = c.room /\ z.now = now /\ z.pc = "update" /\ z.roomAt = c.roomAt /\ z.dirty = c.dirty /\ z.op = j.op
      BY <1>6, <1>7, <2>1 DEF Same, Fields
    <2>3. now \in Nat /\ now # 0
      BY <1>8, <1>10
    <2>4. j.op \in RoomOps
      BY <1>3, <1>7, <1>10 DEF MessageOps
    <2>5. j.op \in {"add", "remove"} => j.room.kind = "group"
      BY <1>10 DEF Accepted, CanManageGroup, CanRemoveFrom
    <2>6. JobInv(z)
      BY <1>2, <1>6, <2>2, <2>3, <2>4, <2>5, DecidedJob
    <2>7. Work(w, z) /\ z.pc # "saving" /\ Undated(c)
      BY <1>2, <1>7, <1>10, <2>1, <2>2, <2>4 DEF Undated
    <2> QED BY <1>1, <1>2, <1>3, <1>8, <1>10, <2>2, <2>3, <2>6, <2>7, GoesOn
  <1>11. CASE Done(w) /\ clock' = clock
    BY <1>2, <1>8, <1>11, EndsInv
  <1> QED BY <1>1, <1>5, <1>9, <1>10, <1>11 DEF ListRoomMembers

\* A message before and after its command.
LEMMA ChangedRow ==
  ASSUME NEW j, j.msg \in MessageRows, j.by \in Accounts, NEW now \in Nat
  PROVE  Changed(j, now) \in MessageRows /\ (j.msg.deleted => Changed(j, now).deleted)
  <1>1. CASE j.op = "edit"
    <2>1. PICK m : m = [j.msg EXCEPT !.body = now]
      OBVIOUS
    <2>2. Changed(j, now) = m
      BY <1>1, <2>1 DEF Changed, Edit
    <2>3. m \in MessageRows /\ m.deleted = j.msg.deleted
      BY <2>1 DEF MessageRows
    <2> QED BY <2>2, <2>3
  <1>2. CASE j.op = "delete"
    <2>1. PICK m : m = [j.msg EXCEPT !.body = 0, !.deleted = TRUE]
      OBVIOUS
    <2>2. Changed(j, now) = m
      BY <1>2, <2>1 DEF Changed, DeleteForEveryone
    <2>3. m \in MessageRows /\ m.deleted = TRUE
      BY <2>1 DEF MessageRows
    <2> QED BY <2>2, <2>3
  <1>3. CASE j.op = "react"
    <2>1. PICK L \in SUBSET Accounts : L = IF j.by \in j.msg.likes THEN j.msg.likes \ {j.by} ELSE j.msg.likes \cup {j.by}
      BY DEF MessageRows
    <2>2. PICK m : m = [j.msg EXCEPT !.likes = L]
      OBVIOUS
    <2>3. Changed(j, now) = m
      BY <1>3, <2>1, <2>2 DEF Changed, ToggleReaction
    <2>4. m \in MessageRows /\ m.deleted = j.msg.deleted
      BY <2>2 DEF MessageRows
    <2> QED BY <2>3, <2>4
  <1>4. CASE j.op \notin {"edit", "delete", "react"}
    BY <1>4 DEF Changed
  <1> QED BY <1>1, <1>2, <1>3, <1>4

\* LoadMessage keeps the invariant.
LEMMA LoadMessageInv ==
  ASSUME RoomInv, NEW w \in Workers, LoadMessage(w)
  PROVE  RoomInv'
  <1>1. PICK c : c = job[w]
    OBVIOUS
  <1>2. JobInv(c) /\ JobTypeOK(c) /\ OnItsWay(c) /\ c.pc = "message" /\ ~At(w, "saving")
    BY <1>1 DEF RoomInv, JobInv, LoadMessage, At
  <1>3. c.op \in MessageOps \cup {"forward"} /\ c.op # "none" /\ Undated(c)
    BY <1>2 DEF OnItsWay, MessageOps, MessageWrites, Undated, RoomOps
  <1>4. Fields \subseteq DOMAIN c
    BY <1>2, JobFields
  <1>5. c.id \in DOMAIN messages /\ c.by \in Accounts /\ room.kind # "none"
    BY <1>2, <1>3 DEF JobInv, GivenOK, KindOK, RoomOps
  <1>6. messages[c.id] \in MessageRows /\ clock \in Nat /\ OutboxInv /\ Saves \in Nat
    BY <1>5 DEF RoomInv, TypesInv, OutboxInv
  <1>7. PICK j : j = [c EXCEPT !.msg = messages[c.id], !.base = Saves]
    OBVIOUS
  <1>8. /\ j.op = c.op /\ j.by = c.by /\ j.who = c.who /\ j.id = c.id /\ j.val = c.val /\ DOMAIN j = DOMAIN c
        /\ j.msg = messages[c.id] /\ j.base = Saves /\ j.pc = c.pc /\ j.now = c.now /\ j.room = c.room
        /\ j.roomAt = c.roomAt /\ j.dirty = c.dirty
    BY <1>4, <1>7 DEF Fields
  <1>9. UNCHANGED << tables, cache, leaked, blurred >>
    BY DEF LoadMessage
  <1>10. ASSUME NEW z, DOMAIN z = DOMAIN c, z.op = c.op, z.by = c.by, z.who = c.who, z.id = c.id, z.val = c.val,
                z.msg \in MessageRows, j.msg.deleted => z.msg.deleted, z.base = Saves, z.room = c.room, z.roomAt = c.roomAt,
                z.dirty = c.dirty, z.now \in Nat, z.op = "forward" => z.now = 0,
                \/ z.pc = "lock" /\ z.op \in MessageWrites
                \/ z.pc = "room" /\ z.op \notin MessageWrites
         PROVE  JobInv(z)
    <2>1. JobTypeOK(z)
      BY <1>2, <1>6, <1>10 DEF JobTypeOK, Steps
    <2>2. OnItsWay(z)
      BY <1>3, <1>10 DEF OnItsWay, RoomOps, MessageOps
    <2>3. ~Loaded(z) /\ ~Making(z) /\ ~Renaming(z) /\ z.pc # "update" /\ z.pc # "saving" /\ room.kind # "none"
      BY <1>5, <1>10 DEF Loaded, Making, Renaming
    <2>4. Undated(z) => z.now = 0
      BY <1>3, <1>10 DEF Undated, RoomOps, MessageOps, MessageWrites
    <2>5. KindOK(z) /\ NameOK(z) /\ RenameOK(z)
      BY <2>3 DEF KindOK, NameOK, RenameOK
    <2>6. GivenOK(z)
      BY <1>2, <1>10 DEF JobInv, GivenOK
    <2>7. DeletionOK(z)
      <3> SUFFICES ASSUME NEW i \in Events("message"), IsDeletion(i), outbox[i].id = z.id
                   PROVE  z.msg.deleted \/ Undone(i)
        BY DEF DeletionOK
      <3>1. messages[outbox[i].id].deleted \/ Undone(i)
        BY DEF RoomInv, TablesInv, DeletedStaysDeleted, IsDeletion, Undone
      <3> QED BY <1>8, <1>10, <3>1
    <2>8. z.roomAt <= Saves /\ z.base <= Saves
      BY <1>2, <1>6, <1>10 DEF JobInv
    <2> QED BY <2>1, <2>2, <2>4, <2>5, <2>6, <2>7, <2>8 DEF JobInv
  <1>11. ASSUME j.op = "forward", Work(w, [j EXCEPT !.pc = "room"]), clock' = clock PROVE RoomInv'
    <2>1. PICK z : z = [j EXCEPT !.pc = "room"]
      OBVIOUS
    <2>2. /\ z.op = c.op /\ z.by = c.by /\ z.who = c.who /\ z.id = c.id /\ z.val = c.val /\ DOMAIN z = DOMAIN c
          /\ z.msg = j.msg /\ z.base = Saves /\ z.pc = "room" /\ z.now = c.now /\ z.room = c.room
          /\ z.roomAt = c.roomAt /\ z.dirty = c.dirty
      BY <1>4, <1>8, <2>1 DEF Fields
    <2>3. c.now = 0
      BY <1>2, <1>3 DEF JobInv
    <2>4. JobInv(z)
      BY <1>6, <1>8, <1>10, <1>11, <2>2, <2>3 DEF MessageWrites
    <2>5. Work(w, z) /\ z.pc # "saving"
      BY <1>11, <2>1, <2>2
    <2> QED BY <1>1, <1>2, <1>3, <1>9, <1>11, <2>2, <2>4, <2>5, GoesOn
  <1>12. ASSUME j.op # "forward", NEW now, now = clock + 1, clock' = now, NEW mine,
                Work(w, [j EXCEPT !.now = now, !.msg = Changed(j, now), !.members = mine,
                            !.pc = IF j.op \in MessageWrites THEN "lock" ELSE "room"])
         PROVE  RoomInv'
    <2>1. now \in Nat /\ now # 0
      BY <1>6, <1>12
    <2>2. PICK m : m = Changed(j, now)
      OBVIOUS
    <2>3. m \in MessageRows /\ (j.msg.deleted => m.deleted)
      BY <1>5, <1>6, <1>8, <2>1, <2>2, ChangedRow
    <2>4. PICK step : step = IF j.op \in MessageWrites THEN "lock" ELSE "room"
      OBVIOUS
    <2>5. PICK z : z = [j EXCEPT !.now = now, !.msg = m, !.members = mine, !.pc = step]
      OBVIOUS
    <2>6. /\ z.op = c.op /\ z.by = c.by /\ z.who = c.who /\ z.id = c.id /\ z.val = c.val /\ DOMAIN z = DOMAIN c
          /\ z.msg = m /\ z.base = Saves /\ z.pc = step /\ z.now = now /\ z.room = c.room
          /\ z.roomAt = c.roomAt /\ z.dirty = c.dirty
      BY <1>4, <1>8, <2>5 DEF Fields
    <2>7. JobInv(z)
      BY <1>8, <1>10, <1>12, <2>1, <2>3, <2>4, <2>6
    <2>8. Work(w, z) /\ z.pc # "saving"
      BY <1>12, <2>2, <2>4, <2>5, <2>6
    <2> QED BY <1>1, <1>2, <1>3, <1>9, <1>12, <2>1, <2>6, <2>7, <2>8, GoesOn
  <1>13. CASE Done(w) /\ clock' = clock
    BY <1>2, <1>9, <1>13, EndsInv
  <1> QED BY <1>1, <1>7, <1>11, <1>12, <1>13 DEF LoadMessage

\* UpdateMessage keeps the invariant.
LEMMA UpdateMessageInv ==
  ASSUME RoomInv, NEW w \in Workers, UpdateMessage(w)
  PROVE  RoomInv'
  <1>1. PICK c : c = job[w]
    OBVIOUS
  <1>2. JobInv(c) /\ JobTypeOK(c) /\ OnItsWay(c) /\ c.pc = "lock" /\ ~At(w, "saving")
    BY <1>1 DEF RoomInv, JobInv, UpdateMessage, At
  <1>3. c.op \in MessageWrites /\ c.op # "none"
    BY <1>2 DEF OnItsWay, MessageWrites
  <1>4. Fields \subseteq DOMAIN c
    BY <1>2, JobFields
  <1>5. PICK z : z = [c EXCEPT !.pc = "room"]
    OBVIOUS
  <1>6. Same(z, c) /\ z.room = c.room /\ z.now = c.now /\ z.pc = "room" /\ z.roomAt = c.roomAt /\ z.dirty = c.dirty /\ z.op = c.op
    BY <1>4, <1>5 DEF Same, Fields
  <1>7. JobTypeOK(z)
    BY <1>2, <1>6 DEF JobTypeOK, Same, Steps
  <1>8. OnItsWay(z) /\ ~Undated(z) /\ ~Loaded(z) /\ ~Making(z) /\ ~Renaming(z)
    BY <1>3, <1>6 DEF OnItsWay, Undated, Loaded, Making, Renaming, MessageWrites, RoomOps
  <1>9. KindOK(z) /\ NameOK(z) /\ RenameOK(z) /\ DeletionOK(z) /\ GivenOK(z)
    BY <1>2, <1>6, <1>8 DEF JobInv, KindOK, NameOK, RenameOK, DeletionOK, GivenOK, Same
  <1>10. JobInv(z)
    BY <1>2, <1>6, <1>7, <1>8, <1>9 DEF JobInv, Same
  <1>11. Work(w, z) /\ UNCHANGED << clock, tables, cache, leaked, blurred >>
    BY <1>1, <1>5 DEF UpdateMessage
  <1> QED BY <1>1, <1>2, <1>3, <1>6, <1>10, <1>11, GoesOn

-----------------------------------------------------------------------------
(* The row is locked: UpdateRoom and CreateRoom begin a save, which ends or fails. *)

\* A worker that takes the lock, and may set Redis, keeps the invariant.
LEMMA StartsSaving ==
  ASSUME RoomInv, NEW w \in Workers, NEW z, Work(w, z), Saving = {}, z.pc = "saving",
         UNCHANGED << clock, tables, leaked >>, SetCache(z.room),
         z.now = job[w].now, z.op = job[w].op, z.op # "none",
         JobTypeOK(z), OnItsWay(z), z.roomAt <= Saves, z.base <= Saves, GivenOK(z), KindOK(z),
         RenameOK(z), DeletionOK(z),
         z.op \in Creations => room.kind = "none",
         z.op \notin Creations => room.kind # "none" /\ z.room.kind = room.kind,
         z.op \notin Creations \cup {"rename"} => z.room.name \in Announced \cup leaked
  PROVE  RoomInv'
  <1>1. /\ DOMAIN job' = Workers /\ job'[w] = z
        /\ \A x \in Workers \ {w} : job'[x] = job[x]
    BY WorkAlone
  <1>2. Saving' = {w}
    BY <1>1 DEF Saving, At
  <1>3. Announced' = Announced /\ UNCHANGED << room, members, messages, outbox >>
    BY DEF Announced, Events, tables
  <1>4. Known = Announced \cup leaked
    BY DEF Known
  <1>5. Known \subseteq Known'
    BY <1>3, <1>4 DEF Known
  <1>6. z.room.name \in Known'
    BY <1>1, <1>2, <1>3 DEF Known
  <1>7. \A x \in Workers : JobInv(job[x])'
    <2> TAKE x \in Workers
    <2>1. PICK y : y = job'[x]
      OBVIOUS
    <2>2. CASE x = w
      <3>1. NameOK(y)'
        BY <1>1, <1>6, <2>1, <2>2 DEF NameOK
      <3>2. ~Undated(y)
        BY <1>1, <2>1, <2>2 DEF Undated
      <3>3. JobInv(y)'
        BY <1>1, <2>1, <2>2, <3>1, <3>2, RestStays
      <3> QED BY <2>1, <3>3
    <2>3. CASE x # w
      <3>1. JobInv(y)
        BY <1>1, <2>1, <2>3 DEF RoomInv
      <3>2. JobInv(y)'
        BY <1>5, <3>1, StaysRight
      <3> QED BY <2>1, <3>2
    <2> QED BY <2>2, <2>3
  <1>8. SavingInv'
    BY <1>1, <1>2, <1>3 DEF SavingInv
  <1>9. TablesInv' /\ OutboxInv'
    BY AsideTables
  <1>10. ClockInv'
    BY ClockStays DEF Waits, WaitingSet, IsIdle
  <1>11. z.room \in RoomRows /\ z.room.kind # "none"
    <2>1. z.room \in RoomRows
      BY DEF JobTypeOK
    <2>2. z.op \in Creations => z.room.kind # "none"
      BY DEF KindOK, Making, Creations
    <2> QED BY <2>1, <2>2
  <1>12. CacheInv' /\ cache' \in RoomRows /\ blurred' \in BOOLEAN
    <2>0. CacheFollowsRow'
      BY <1>2 DEF CacheFollowsRow, Saving
    <2>1. CASE cache' = z.room /\ blurred' = FALSE
      <3>1. \A x \in Saving' : cache' = job'[x].room
        BY <1>1, <1>2, <2>1
      <3>2. room'.kind # "none" => cache'.kind = room'.kind
        BY <1>3, <2>1
      <3>3. room'.kind = "none" => \E x \in Saving' : job'[x].op \in Creations /\ cache' = job'[x].room
        BY <1>1, <1>2, <1>3, <2>1
      <3>4. CacheInv'
        BY <1>6, <2>0, <2>1, <3>1, <3>2, <3>3 DEF CacheInv
      <3> QED BY <1>11, <2>1, <3>4
    <2>2. CASE cache' = cache /\ blurred' = (blurred \/ cache.kind # "none")
      <3>1. cache.kind # "none" => blurred'
        BY <2>2
      <3>2. cache'.kind # "none" => cache'.name \in Known' /\ room'.kind # "none" /\ cache'.kind = room'.kind
        BY <1>3, <1>5, <2>2 DEF RoomInv, CacheInv
      <3>3. \A x \in Saving' : cache'.kind # "none" /\ ~blurred' => cache' = job'[x].room
        BY <2>2, <3>1
      <3>4. CacheInv'
        BY <2>0, <3>2, <3>3 DEF CacheInv
      <3>5. cache' \in RoomRows
        BY <2>2 DEF RoomInv, TypesInv
      <3>6. blurred' \in BOOLEAN
        BY <2>2, Zenon
      <3> QED BY <3>4, <3>5, <3>6
    <2> QED BY <2>1, <2>2 DEF SetCache
  <1>13. TypesInv'
    BY <1>1, <1>3, <1>12 DEF RoomInv, TypesInv
  <1> QED BY <1>7, <1>8, <1>9, <1>10, <1>12, <1>13 DEF RoomInv

\* The lock is free for whoever takes it.
LEMMA NobodySaves ==
  ASSUME NEW w \in Workers, ~RoomIsLocked(w), ~At(w, "saving") PROVE Saving = {}
  BY DEF Saving, RoomIsLocked

\* CreateRoom keeps the invariant.
LEMMA CreateRoomInv ==
  ASSUME RoomInv, NEW w \in Workers, CreateRoom(w)
  PROVE  RoomInv'
  <1>1. PICK c : c = job[w]
    OBVIOUS
  <1>2. JobInv(c) /\ JobTypeOK(c) /\ OnItsWay(c) /\ c.pc = "insert" /\ ~At(w, "saving")
    BY <1>1 DEF RoomInv, JobInv, CreateRoom, At
  <1>3. c.op \in Creations /\ c.op # "none" /\ c.op \notin RoomOps \cup MessageOps
    BY <1>2 DEF OnItsWay, Creations, RoomOps, MessageOps, MessageWrites
  <1>4. Saving = {} /\ UNCHANGED << clock, tables, leaked >>
    BY <1>2, NobodySaves DEF CreateRoom
  <1>5. CASE Done(w) /\ UNCHANGED << cache, blurred >>
    BY <1>2, <1>4, <1>5, EndsInv
  <1>6. CASE room.kind = "none" /\ SetCache(c.room) /\ Work(w, [c EXCEPT !.pc = "saving"])
    <2>1. Fields \subseteq DOMAIN c
      BY <1>2, JobFields
    <2>2. PICK z : z = [c EXCEPT !.pc = "saving"]
      OBVIOUS
    <2>3. /\ Same(z, c) /\ z.room = c.room /\ z.now = c.now /\ z.pc = "saving" /\ z.roomAt = c.roomAt /\ z.dirty = c.dirty
          /\ z.op = c.op /\ z.members = c.members
      BY <2>1, <2>2 DEF Same, Fields
    <2>4. JobTypeOK(z)
      BY <1>2, <2>3 DEF JobTypeOK, Same, Steps
    <2>5. OnItsWay(z) /\ ~Loaded(z) /\ ~Renaming(z) /\ Making(c) /\ Making(z)
      BY <1>2, <1>3, <2>3 DEF OnItsWay, Loaded, Renaming, Making, Creations, RoomOps, MessageOps, MessageWrites
    <2>6. GivenOK(z) /\ RenameOK(z) /\ DeletionOK(z)
      BY <1>2, <1>3, <2>3 DEF JobInv, GivenOK, RenameOK, DeletionOK, Same, MessageOps
    <2>7. KindOK(z)
      BY <1>2, <1>3, <2>3, <2>5 DEF JobInv, KindOK, RoomOps
    <2>8. z.roomAt <= Saves /\ z.base <= Saves
      BY <1>2, <2>3 DEF JobInv, Same
    <2>9. SetCache(z.room) /\ Work(w, z)
      BY <1>6, <2>2, <2>3
    <2>10. z.now = job[w].now /\ z.op = job[w].op /\ z.op # "none" /\ z.op \in Creations
      BY <1>1, <1>3, <2>3
    <2> QED BY <1>4, <1>6, <2>3, <2>4, <2>5, <2>6, <2>7, <2>8, <2>9, <2>10, StartsSaving
  <1> QED BY <1>1, <1>5, <1>6 DEF CreateRoom

\* A command leaves the kind of the room, and its name unless it renames it.
LEMMA RowOfRoom ==
  ASSUME NEW j, JobTypeOK(j), j.op \in RoomOps, j.op = "rename" => j.val \in Names
  PROVE  /\ RoomOf(j) \in RoomRows /\ RoomOf(j).kind = j.room.kind
         /\ RoomOf(j).name = IF j.op = "rename" THEN j.val ELSE j.room.name
  <1>1. j.room \in RoomRows /\ j.now \in Nat /\ j.id \in Nat
    BY DEF JobTypeOK
  <1>2. j.op \notin Creations
    BY DEF RoomOps, Creations
  <1>3. CASE j.op = "rename"
    <2>1. RoomOf(j) = [j.room EXCEPT !.name = j.val, !.at = j.now]
      BY <1>2, <1>3 DEF RoomOf, UpdateDetails
    <2> QED BY <1>1, <1>3, <2>1 DEF RoomRows
  <1>4. CASE j.op = "pin"
    <2>1. RoomOf(j) = [j.room EXCEPT !.pin = j.id, !.at = j.now]
      BY <1>2, <1>4 DEF RoomOf, PinMessage
    <2> QED BY <1>1, <1>4, <2>1 DEF RoomRows
  <1>5. CASE j.op # "rename" /\ j.op # "pin"
    <2>1. RoomOf(j) = [j.room EXCEPT !.at = j.now]
      BY <1>2, <1>5 DEF RoomOf, Touch
    <2> QED BY <1>1, <1>5, <2>1 DEF RoomRows
  <1> QED BY <1>3, <1>4, <1>5

\* UpdateRoom keeps the invariant.
LEMMA UpdateRoomInv ==
  ASSUME RoomInv, NEW w \in Workers, UpdateRoom(w)
  PROVE  RoomInv'
  <1>1. PICK c : c = job[w]
    OBVIOUS
  <1>2. JobInv(c) /\ JobTypeOK(c) /\ OnItsWay(c) /\ c.pc = "update" /\ ~At(w, "saving")
    BY <1>1 DEF RoomInv, JobInv, UpdateRoom, At
  <1>3. c.op \in RoomOps /\ c.op # "none" /\ c.op \notin Creations /\ c.op \notin MessageOps /\ c.op # "direct"
    BY <1>2 DEF OnItsWay, Creations, RoomOps, MessageOps, MessageWrites
  <1>4. Saving = {} /\ UNCHANGED << clock, tables, leaked >>
    BY <1>2, NobodySaves DEF UpdateRoom
  <1>5. Fields \subseteq DOMAIN c
    BY <1>2, JobFields
  <1>6. PICK r : r = RoomOf(c)
    OBVIOUS
  <1>7. r \in RoomRows /\ r.kind = c.room.kind /\ r.name = IF c.op = "rename" THEN c.val ELSE c.room.name
    BY <1>2, <1>3, <1>6, RowOfRoom DEF JobInv, GivenOK
  <1>8. PICK z : z = [c EXCEPT !.room = r, !.pc = "saving"]
    OBVIOUS
  <1>9. /\ Same(z, c) /\ z.room = r /\ z.now = c.now /\ z.pc = "saving" /\ z.roomAt = c.roomAt /\ z.dirty = c.dirty
        /\ z.op = c.op /\ z.val = c.val
    BY <1>5, <1>8 DEF Same, Fields
  <1>10. JobTypeOK(z)
    BY <1>2, <1>7, <1>9 DEF JobTypeOK, Same, Steps
  <1>11. OnItsWay(z) /\ Loaded(c) /\ ~Renaming(c) /\ ~Making(z)
    BY <1>2, <1>3, <1>9 DEF OnItsWay, Loaded, Renaming, Making
  <1>12. GivenOK(z) /\ DeletionOK(z)
    BY <1>2, <1>3, <1>9 DEF JobInv, GivenOK, DeletionOK, Same, MessageOps
  <1>13. KindOK(z)
    BY <1>2, <1>3, <1>7, <1>9, <1>11 DEF JobInv, KindOK, Renaming
  <1>14. RenameOK(z)
    BY <1>2, <1>3, <1>7, <1>9, <1>11 DEF JobInv, RenameOK, Renaming
  <1>15. z.roomAt <= Saves /\ z.base <= Saves
    BY <1>2, <1>9 DEF JobInv, Same
  <1>16. room.kind # "none" /\ z.room.kind = room.kind
    BY <1>2, <1>7, <1>9, <1>11 DEF JobInv, KindOK
  <1>17. z.op # "rename" => z.room.name \in Announced \cup leaked
    <2>1. c.room.name \in Known
      BY <1>2, <1>11 DEF JobInv, NameOK
    <2>2. Known = Announced \cup leaked
      BY <1>4 DEF Known
    <2> QED BY <1>7, <1>9, <2>1, <2>2
  <1>18. SetCache(z.room) /\ Work(w, z)
    BY <1>1, <1>6, <1>8, <1>9 DEF UpdateRoom
  <1>19. z.now = job[w].now /\ z.op = job[w].op /\ z.op # "none" /\ z.op \notin Creations
    BY <1>1, <1>3, <1>9
  <1> QED BY <1>4, <1>9, <1>10, <1>11, <1>12, <1>13, <1>14, <1>15, <1>16, <1>17, <1>18, <1>19, StartsSaving

\* Fail keeps the invariant: what it leaves in Redis is counted as leaked and blurred.
LEMMA FailInv ==
  ASSUME RoomInv, NEW w \in Workers, Fail(w)
  PROVE  RoomInv'
  <1>1. Done(w) /\ UNCHANGED << clock, tables >> /\ job[w].op # "none"
    BY DEF Fail, IsIdle
  <1>2. CASE ~At(w, "saving")
    <2>1. cache' = cache /\ leaked' = leaked
      BY <1>2 DEF Fail
    <2>2. blurred' = blurred
      BY <1>2 DEF Fail, RoomInv, TypesInv
    <2> QED BY <1>1, <1>2, <2>1, <2>2, EndsInv
  <1>3. CASE At(w, "saving")
    <2>1. PICK c : c = job[w]
      OBVIOUS
    <2>2. JobInv(c) /\ c.pc = "saving"
      BY <1>3, <2>1 DEF RoomInv, At
    <2>3. Saving = {w}
      BY <1>3 DEF RoomInv, SavingInv, Saving
    <2>4. /\ DOMAIN job' = Workers /\ job'[w] = Idle
          /\ \A x \in Workers \ {w} : job'[x] = job[x]
      BY <1>1, WorkAlone DEF Done
    <2>5. Saving' = {}
      BY <2>3, <2>4 DEF Saving, At, Idle
    <2>6. Announced' = Announced /\ UNCHANGED << room, members, messages, outbox >>
      BY <1>1 DEF Announced, Events, tables
    <2>7. leaked' = IF c.op = "rename" THEN leaked \cup {c.val} ELSE leaked
      BY <1>3, <2>1 DEF Fail
    <2>8. leaked \subseteq leaked' /\ leaked' \subseteq Names
      BY <2>2, <2>7 DEF RoomInv, TypesInv, JobInv, GivenOK
    <2>9. Known' = Announced \cup leaked'
      BY <2>5, <2>6 DEF Known
    <2>10. c.op \notin Creations => Known \subseteq Known'
      <3>1. CASE c.op = "rename"
        <4>1. c.room.name = c.val
          BY <2>2, <3>1 DEF JobInv, KindOK, Renaming
        <4> QED BY <2>1, <2>3, <2>7, <2>8, <2>9, <3>1, <4>1 DEF Known
      <3>2. CASE c.op # "rename"
        BY <2>1, <2>3, <2>8, <2>9, <3>2 DEF Known
      <3> QED BY <3>1, <3>2
    <2>11. c.op \in Creations => room.kind = "none"
      BY <2>1, <2>3 DEF RoomInv, SavingInv
    <2>12. \A x \in Workers : JobInv(job[x])'
      <3> TAKE x \in Workers
      <3>1. PICK y : y = job'[x]
        OBVIOUS
      <3>2. JobInv(y)
        BY <2>4, <3>1, IdleOK DEF RoomInv
      <3>3. NameOK(y)'
        <4>1. CASE c.op \in Creations
          <5>1. ~Loaded(y)
            BY <2>11, <3>2, <4>1 DEF JobInv, KindOK
          <5> QED BY <5>1 DEF NameOK, Loaded
        <4>2. CASE c.op \notin Creations
          BY <2>10, <3>2, <4>2 DEF JobInv, NameOK, Loaded
        <4> QED BY <4>1, <4>2
      <3>4. JobInv(y)'
        BY <1>1, <3>2, <3>3, RestStays DEF JobInv
      <3> QED BY <3>1, <3>4
    <2>13. SavingInv'
      BY <2>5 DEF SavingInv
    <2>14. TablesInv' /\ OutboxInv'
      BY <1>1, <2>8, AsideTables
    <2>15. ClockInv'
      BY <1>1, ClockStays DEF Done, Waits, Idle
    <2>16. PICK told \in BOOLEAN : told = (cache = c.room)
      OBVIOUS
    <2>17. /\ cache' = IF told /\ c.op \in Creations THEN NoRoom ELSE cache
           /\ blurred' = (blurred \/ (told /\ c.op \notin Creations))
      BY <1>3, <2>1, <2>16 DEF Fail
    <2>18. cache' \in RoomRows
      <3>1. NoRoom \in RoomRows
        BY DEF NoRoom, RoomRows, Kinds
      <3> QED BY <2>17, <3>1 DEF RoomInv, TypesInv
    <2>19. blurred' \in BOOLEAN
      BY <2>17, Zenon
    <2>20. cache'.kind # "none" => cache' = cache /\ c.op \notin Creations
      <3>1. CASE c.op \in Creations
        <4>1. cache.kind # "none" => cache = c.room
          BY <2>1, <2>3, <2>11, <3>1 DEF RoomInv, CacheInv
        <4> QED BY <2>16, <2>17, <3>1, <4>1 DEF NoRoom
      <3>2. CASE c.op \notin Creations
        BY <2>17, <3>2
      <3> QED BY <3>1, <3>2
    <2>21. cache'.kind # "none" => blurred'
      <3>1. cache.kind # "none" /\ ~blurred => cache = c.room
        BY <2>1, <2>3 DEF RoomInv, CacheInv
      <3> QED BY <2>16, <2>17, <2>20, <3>1
    <2>22. cache'.kind # "none" => cache'.name \in Known' /\ cache'.kind = room'.kind /\ room'.kind # "none"
      <3>1. c.op \notin Creations => room.kind # "none"
        BY <2>2 DEF JobInv, KindOK, OnItsWay, RoomOps, MessageOps, Creations
      <3> QED BY <2>6, <2>10, <2>20, <3>1 DEF RoomInv, CacheInv
    <2>23. CacheInv'
      BY <2>5, <2>21, <2>22 DEF CacheInv, CacheFollowsRow
    <2>24. TypesInv'
      BY <1>1, <2>4, <2>6, <2>8, <2>18, <2>19 DEF RoomInv, TypesInv
    <2> QED BY <2>12, <2>13, <2>14, <2>15, <2>23, <2>24 DEF RoomInv
  <1> QED BY <1>2, <1>3

\* CacheExpires keeps the invariant.
LEMMA CacheExpiresInv ==
  ASSUME RoomInv, CacheExpires
  PROVE  RoomInv'
  <1>1. UNCHANGED << clock, tables, job, leaked >> /\ cache' = NoRoom /\ blurred' = FALSE
    BY DEF CacheExpires
  <1>2. UNCHANGED << room, members, messages, outbox >>
    BY <1>1 DEF tables
  <1>3. Saving' = Saving /\ Known' = Known
    BY <1>1, <1>2 DEF Saving, Known, At, Announced, Events
  <1>4. \A x \in Workers : JobInv(job[x])'
    <2> TAKE x \in Workers
    <2>1. PICK y : y = job'[x]
      OBVIOUS
    <2>2. JobInv(y)
      BY <1>1, <2>1 DEF RoomInv
    <2>3. JobInv(y)'
      BY <1>1, <1>3, <2>2, StaysRight
    <2> QED BY <2>1, <2>3
  <1>5. SavingInv'
    BY <1>1, <1>2, <1>3 DEF RoomInv, SavingInv
  <1>6. TablesInv' /\ OutboxInv'
    BY <1>1, AsideTables
  <1>7. ClockInv'
    BY <1>1 DEF RoomInv, ClockInv, WaitingSet, IsIdle
  <1>8. CacheInv'
    BY <1>1 DEF CacheInv, CacheFollowsRow, NoRoom
  <1>9. NoRoom \in RoomRows /\ blurred' \in BOOLEAN
    BY <1>1 DEF NoRoom, RoomRows, Kinds
  <1>10. TypesInv'
    BY <1>1, <1>2, <1>9 DEF RoomInv, TypesInv
  <1> QED BY <1>4, <1>5, <1>6, <1>7, <1>8, <1>10 DEF RoomInv

-----------------------------------------------------------------------------
(* The outbox grows. *)

Numbered(e, n) == [x \in DOMAIN e \cup {"n"} |-> IF x = "n" THEN n ELSE e[x]]

\* The number of the save is added to an event, whose other fields stay.
LEMMA NumberedFields ==
  ASSUME NEW e, NEW n
  PROVE  Numbered(e, n).n = n /\ \A x \in DOMAIN e : x # "n" => Numbered(e, n)[x] = e[x]
  BY DEF Numbered

\* The fields of the room's synchronisation event,
LEMMA RoomSync ==
  ASSUME NEW j, NEW last, NEW own, NEW n, NEW e,
         e = Numbered(buildRoomAggregateProjectionSyncEvent(j, last, own), n)
  PROVE  e.n = n /\ e.t = "room" /\ e.own = own /\ e.roomAt = j.roomAt /\ e.dirty = j.dirty
  <1>1. PICK s : s = buildRoomAggregateProjectionSyncEvent(j, last, own)
    OBVIOUS
  <1>2. /\ {"t", "own", "roomAt", "dirty"} \subseteq DOMAIN s
        /\ s.t = "room" /\ s.own = own /\ s.roomAt = j.roomAt /\ s.dirty = j.dirty
    BY <1>1 DEF buildRoomAggregateProjectionSyncEvent
  <1> QED BY <1>1, <1>2, NumberedFields

\* and of the message's.
LEMMA MessageSync ==
  ASSUME NEW j, NEW id, NEW msg, NEW ms, NEW receipts, NEW hidden, NEW n, NEW e,
         e = Numbered(buildMessageAggregateProjectionSyncEvent(j, id, msg, ms, receipts, hidden), n)
  PROVE  e.n = n /\ e.t = "message" /\ e.id = id /\ e.msg = msg /\ e.op = j.op /\ e.base = j.base
  <1>1. PICK s : s = buildMessageAggregateProjectionSyncEvent(j, id, msg, ms, receipts, hidden)
    OBVIOUS
  <1>2. /\ {"t", "id", "msg", "op", "base"} \subseteq DOMAIN s
        /\ s.t = "message" /\ s.id = id /\ s.msg = msg /\ s.op = j.op /\ s.base = j.base
    BY <1>1 DEF buildMessageAggregateProjectionSyncEvent
  <1> QED BY <1>1, <1>2, NumberedFields

\* What the event of a command on the room says.
Tells(e, j) ==
    \/ j.op \in Creations /\ e.t = "created" /\ e.who = DOMAIN j.members /\ e.name = j.room.name
    \/ j.op = "add" /\ e.t = "added" /\ e.who = {j.who}
    \/ j.op = "remove" /\ e.t = "removed" /\ e.who = {j.who}
    \/ j.op = "rename" /\ e.t = "renamed" /\ e.name = j.val
    \/ j.op = "pin" /\ e.t = "pinned"

\* Every command on the room but send and forward leaves one event that says what it did.
LEMMA EventTells ==
  ASSUME NEW j, NEW n, j.op \in Creations \cup RoomOps
  PROVE  \/ j.op \in {"send", "forward"} /\ DomainEvent(j) = << >>
         \/ \E e : DomainEvent(j) = << e >> /\ Tells(Numbered(e, n), j)
  <1>1. CASE j.op \in Creations
    <2>1. PICK e : e = [t |-> "created", who |-> DOMAIN j.members, name |-> j.room.name]
      OBVIOUS
    <2>2. {"t", "who", "name"} \subseteq DOMAIN e /\ e.t = "created" /\ e.who = DOMAIN j.members /\ e.name = j.room.name
      BY <2>1
    <2>3. DomainEvent(j) = << e >>
      BY <1>1, <2>1 DEF DomainEvent, Creations
    <2>4. Tells(Numbered(e, n), j)
      BY <1>1, <2>2, NumberedFields DEF Tells
    <2> QED BY <2>3, <2>4
  <1>2. CASE j.op = "add"
    <2>1. PICK e : e = [t |-> "added", who |-> {j.who}]
      OBVIOUS
    <2>2. {"t", "who"} \subseteq DOMAIN e /\ e.t = "added" /\ e.who = {j.who}
      BY <2>1
    <2>3. DomainEvent(j) = << e >>
      BY <1>2, <2>1 DEF DomainEvent, Creations
    <2>4. Tells(Numbered(e, n), j)
      BY <1>2, <2>2, NumberedFields DEF Tells
    <2> QED BY <2>3, <2>4
  <1>3. CASE j.op = "remove"
    <2>1. PICK e : e = [t |-> "removed", who |-> {j.who}]
      OBVIOUS
    <2>2. {"t", "who"} \subseteq DOMAIN e /\ e.t = "removed" /\ e.who = {j.who}
      BY <2>1
    <2>3. DomainEvent(j) = << e >>
      BY <1>3, <2>1 DEF DomainEvent, Creations
    <2>4. Tells(Numbered(e, n), j)
      BY <1>3, <2>2, NumberedFields DEF Tells
    <2> QED BY <2>3, <2>4
  <1>4. CASE j.op = "rename"
    <2>1. PICK e : e = [t |-> "renamed", name |-> j.val]
      OBVIOUS
    <2>2. {"t", "name"} \subseteq DOMAIN e /\ e.t = "renamed" /\ e.name = j.val
      BY <2>1
    <2>3. DomainEvent(j) = << e >>
      BY <1>4, <2>1 DEF DomainEvent, Creations
    <2>4. Tells(Numbered(e, n), j)
      BY <1>4, <2>2, NumberedFields DEF Tells
    <2> QED BY <2>3, <2>4
  <1>5. CASE j.op = "pin"
    <2>1. PICK e : e = [t |-> "pinned", id |-> j.id]
      OBVIOUS
    <2>2. {"t"} \subseteq DOMAIN e /\ e.t = "pinned"
      BY <2>1
    <2>3. DomainEvent(j) = << e >>
      BY <1>5, <2>1 DEF DomainEvent, Creations
    <2>4. Tells(Numbered(e, n), j)
      BY <1>5, <2>2, NumberedFields DEF Tells
    <2> QED BY <2>3, <2>4
  <1>6. CASE j.op \in {"send", "forward"}
    BY <1>6 DEF DomainEvent, Creations
  <1> QED BY <1>1, <1>2, <1>3, <1>4, <1>5, <1>6 DEF RoomOps

\* One save more, whose events come after the others.
News == DOMAIN outbox' \ DOMAIN outbox
Grows ==
    /\ IsASeq(outbox') /\ Saves' = Saves + 1 /\ News # {}
    /\ \A i \in DOMAIN outbox : i \in DOMAIN outbox' /\ outbox'[i] = outbox[i]
    /\ \A i \in News : outbox'[i].n = Saves + 1 /\ i \in Nat /\ i > Len(outbox)

\* What appendRoomOutboxEvents does.
LEMMA Appending ==
  ASSUME OutboxInv, NEW events, IsASeq(events), Len(events) > 0, appendRoomOutboxEvents(events)
  PROVE  /\ Grows
         /\ News = { Len(outbox) + k : k \in 1 .. Len(events) }
         /\ \A k \in 1 .. Len(events) : outbox'[Len(outbox) + k] = Numbered(events[k], Saves + 1)
  <1>1. Len(outbox) \in Nat /\ DOMAIN outbox = 1 .. Len(outbox) /\ IsASeq(outbox)
    BY SeqDomain DEF OutboxInv
  <1>2. Len(events) \in Nat /\ DOMAIN events = 1 .. Len(events)
    BY SeqDomain
  <1>3. PICK more : more = [i \in DOMAIN events |->
                [x \in DOMAIN events[i] \cup {"n"} |-> IF x = "n" THEN Saves + 1 ELSE events[i][x]]]
    OBVIOUS
  <1>4. outbox' = outbox \o more
    BY <1>3 DEF appendRoomOutboxEvents
  <1>5. \A k \in 1 .. Len(events) : more[k] = Numbered(events[k], Saves + 1)
    BY <1>2, <1>3 DEF Numbered
  <1>6. IsASeq(more) /\ Len(more) = Len(events)
    <2>1. PICK S : S = { more[k] : k \in 1 .. Len(events) }
      OBVIOUS
    <2>2. more \in [1 .. Len(events) -> S]
      BY <1>2, <1>3, <2>1
    <2>3. more \in Seq(S)
      BY <1>2, <2>2
    <2>4. IsASeq(more) /\ Len(more) \in Nat /\ DOMAIN more = 1 .. Len(more)
      BY <2>3 DEF IsASeq
    <2>5. 1 .. Len(more) = 1 .. Len(events)
      BY <1>2, <1>3, <2>4
    <2>6. Len(events) \in 1 .. Len(events)
      BY <1>2
    <2>7. Len(events) \in 1 .. Len(more)
      BY <2>5, <2>6
    <2>8. Len(more) \in 1 .. Len(more)
      BY <2>4, <2>7
    <2>9. Len(more) \in 1 .. Len(events)
      BY <2>5, <2>8
    <2>10. PICK m, n : m = Len(more) /\ n = Len(events)
      OBVIOUS
    <2>11. m \in Nat /\ n \in Nat /\ n \in 1 .. m /\ m \in 1 .. n
      BY <1>2, <2>4, <2>7, <2>9, <2>10
    <2>12. m = n
      BY <2>11
    <2> QED BY <2>4, <2>10, <2>12
  <1>7. /\ IsASeq(outbox') /\ Len(outbox') = Len(outbox) + Len(events)
        /\ \A i \in 1 .. Len(outbox) : outbox'[i] = outbox[i]
        /\ \A i \in 1 .. Len(events) : outbox'[Len(outbox) + i] = more[i]
    BY <1>1, <1>4, <1>6, Joins
  <1>8. Len(outbox') \in Nat /\ DOMAIN outbox' = 1 .. Len(outbox')
    BY <1>7, SeqDomain
  <1>9. News = { Len(outbox) + k : k \in 1 .. Len(events) }
    <2>1. ASSUME NEW i \in News PROVE \E k \in 1 .. Len(events) : i = Len(outbox) + k
      <3>1. i \in 1 .. (Len(outbox) + Len(events)) /\ ~(i \in 1 .. Len(outbox))
        BY <1>1, <1>7, <1>8, <2>1 DEF News
      <3>2. i - Len(outbox) \in 1 .. Len(events) /\ i = Len(outbox) + (i - Len(outbox))
        BY <1>1, <1>2, <3>1
      <3> QED BY <3>2
    <2>2. ASSUME NEW k \in 1 .. Len(events) PROVE Len(outbox) + k \in News
      BY <1>1, <1>2, <1>7, <1>8 DEF News
    <2> QED BY <2>1, <2>2
  <1>10. \A k \in 1 .. Len(events) : outbox'[Len(outbox) + k] = Numbered(events[k], Saves + 1)
    BY <1>5, <1>7
  <1>11. \A i \in News : outbox'[i].n = Saves + 1 /\ i \in Nat /\ i > Len(outbox)
    BY <1>1, <1>2, <1>9, <1>10, NumberedFields
  <1>12. Len(outbox') \in News
    BY <1>1, <1>2, <1>7, <1>8 DEF News
  <1>13. Saves' = Saves + 1
    <2>1. outbox' # << >>
      BY <1>7, <1>8, <1>12, NoSeq DEF News
    <2>2. outbox'[Len(outbox')].n = Saves + 1
      BY <1>11, <1>12
    <2>3. Saves' = outbox'[Len(outbox')].n
      BY <2>1 DEF Saves
    <2> QED BY <2>2, <2>3
  <1>14. \A i \in DOMAIN outbox : i \in DOMAIN outbox' /\ outbox'[i] = outbox[i]
    BY <1>1, <1>2, <1>7, <1>8
  <1> QED BY <1>7, <1>9, <1>10, <1>11, <1>12, <1>13, <1>14 DEF Grows

\* What was said of older events stays true when the outbox grows.
LEMMA EventsGrow ==
  ASSUME OutboxInv, Grows
  PROVE  /\ \A t : Events(t)' = Events(t) \cup { i \in News : outbox'[i].t = t }
         /\ \A t : \A i \in Events(t) : i \in DOMAIN outbox /\ outbox'[i] = outbox[i] /\ outbox[i].n <= Saves
         /\ Len(outbox) \in Nat /\ DOMAIN outbox = 1 .. Len(outbox) /\ Saves \in Nat
         /\ \A i \in DOMAIN outbox : Reverted(i) => Reverted(i)'
         /\ \A i \in DOMAIN outbox : Undone(i) => Undone(i)'
         /\ \A i \in DOMAIN outbox : IsLast(i)' => IsLast(i)
         /\ Announced \subseteq Announced'
  <1>1. Len(outbox) \in Nat /\ DOMAIN outbox = 1 .. Len(outbox) /\ Saves \in Nat
    BY SeqDomain DEF OutboxInv
  <1>2. ASSUME NEW t PROVE Events(t)' = Events(t) \cup { i \in News : outbox'[i].t = t }
    <2>1. Events(t)' = { i \in DOMAIN outbox' : outbox'[i].t = t }
      BY DEF Events
    <2>2. DOMAIN outbox' = DOMAIN outbox \cup News
      BY DEF Grows, News
    <2> QED BY <2>1, <2>2 DEF Events, Grows
  <1>3. \A t : \A i \in Events(t) : i \in DOMAIN outbox /\ outbox'[i] = outbox[i] /\ outbox[i].n <= Saves
    BY DEF Events, Grows, OutboxInv
  <1>4. ASSUME NEW i \in DOMAIN outbox, Reverted(i) PROVE Reverted(i)'
    <2>1. PICK k \in Events("room") : /\ outbox[k].own /\ outbox[k].n > outbox[i].n
                                      /\ outbox[k].roomAt < outbox[i].n \/ outbox[k].dirty
      BY <1>4 DEF Reverted
    <2>2. k \in Events("room")' /\ outbox'[k] = outbox[k] /\ outbox'[i] = outbox[i]
      BY <1>2, <1>3 DEF Grows
    <2> QED BY <2>1, <2>2 DEF Reverted
  <1>5. ASSUME NEW i \in DOMAIN outbox, Undone(i) PROVE Undone(i)'
    <2>1. PICK k \in Events("message") : /\ outbox[k].id = outbox[i].id /\ outbox[k].n > outbox[i].n
                                         /\ outbox[k].base < outbox[i].n /\ outbox[k].op \in MessageWrites
      BY <1>5 DEF Undone
    <2>2. k \in Events("message")' /\ outbox'[k] = outbox[k] /\ outbox'[i] = outbox[i]
      BY <1>2, <1>3 DEF Grows
    <2> QED BY <2>1, <2>2 DEF Undone
  <1>6. ASSUME NEW i \in DOMAIN outbox, IsLast(i)' PROVE IsLast(i)
    BY <1>2, <1>6 DEF IsLast
  <1>7. Announced \subseteq Announced'
    <2>1. ASSUME NEW i \in Events("created") \cup Events("renamed")
          PROVE  i \in (Events("created") \cup Events("renamed"))' /\ outbox'[i].name = outbox[i].name
      BY <1>2, <1>3
    <2> QED BY <2>1 DEF Announced
  <1> QED BY <1>1, <1>2, <1>3, <1>4, <1>5, <1>6, <1>7

\* What a job has read is as old as it was.
LEMMA GrowthKeepsJob ==
  ASSUME OutboxInv, Grows, NEW y, JobInv(y), KindOK(y)', NameOK(y)', DOMAIN messages \subseteq DOMAIN messages'
  PROVE  JobInv(y)'
  <1>1. /\ JobTypeOK(y) /\ OnItsWay(y) /\ (Undated(y) => y.now = 0) /\ y.roomAt <= Saves /\ y.base <= Saves
        /\ GivenOK(y) /\ RenameOK(y) /\ DeletionOK(y)
    BY DEF JobInv
  <1>2. y.roomAt \in Nat /\ y.base \in Nat /\ Saves \in Nat /\ Saves' = Saves + 1
    BY <1>1, EventsGrow DEF JobTypeOK, Grows
  <1>3. y.roomAt <= Saves' /\ y.base <= Saves'
    BY <1>1, <1>2
  <1>4. ASSUME NEW t, NEW i \in Events(t)', outbox'[i].n <= Saves
        PROVE  i \in Events(t) /\ i \in DOMAIN outbox /\ outbox'[i] = outbox[i]
    <2>1. i \notin News
      BY <1>2, <1>4 DEF Grows
    <2> QED BY <2>1, EventsGrow
  <1>5. RenameOK(y)'
    <2> SUFFICES ASSUME y.op \in RoomOps /\ Loaded(y) /\ ~Renaming(y), NEW i \in Events("renamed")',
                        IsLast(i)', outbox'[i].n <= y.roomAt, ~y.dirty
                 PROVE  Reverted(i)' \/ y.room.name = outbox'[i].name
      BY DEF RenameOK, Loaded, Renaming
    <2>1. i \in Events("renamed") /\ i \in DOMAIN outbox
      <3>1. outbox'[i].n = Saves + 1 \/ i \notin News
        BY DEF Grows
      <3>2. i \notin News
        BY <1>1, <1>2, <3>1
      <3> QED BY <3>2, EventsGrow
    <2>2. outbox'[i] = outbox[i] /\ IsLast(i)
      BY <2>1, EventsGrow
    <2>3. Reverted(i) \/ y.room.name = outbox[i].name
      BY <1>1, <2>1, <2>2 DEF RenameOK
    <2> QED BY <2>1, <2>2, <2>3, EventsGrow
  <1>6. DeletionOK(y)'
    <2> SUFFICES ASSUME y.op \in MessageWrites, y.pc # "message", NEW i \in Events("message")',
                        IsDeletion(i)', outbox'[i].id = y.id, outbox'[i].n <= y.base
                 PROVE  y.msg.deleted \/ Undone(i)'
      BY DEF DeletionOK
    <2>1. i \in Events("message") /\ i \in DOMAIN outbox
      <3>1. outbox'[i].n = Saves + 1 \/ i \notin News
        BY DEF Grows
      <3>2. i \notin News
        BY <1>1, <1>2, <3>1
      <3> QED BY <3>2, EventsGrow
    <2>2. outbox'[i] = outbox[i]
      BY <2>1, EventsGrow
    <2>3. IsDeletion(i)
      BY <2>2 DEF IsDeletion
    <2>4. y.msg.deleted \/ Undone(i)
      BY <1>1, <2>1, <2>2, <2>3 DEF DeletionOK
    <2> QED BY <2>1, <2>4, EventsGrow
  <1>7. GivenOK(y)'
    BY <1>1 DEF GivenOK
  <1>8. JobTypeOK(y)' /\ OnItsWay(y)' /\ (Undated(y)' => y.now = 0)
    BY <1>1 DEF JobTypeOK, OnItsWay, Undated
  <1> QED BY <1>3, <1>5, <1>6, <1>7, <1>8 DEF JobInv

\* The numbering stays right.
LEMMA GrowthKeepsOutbox ==
  ASSUME OutboxInv, Grows, DOMAIN messages \subseteq DOMAIN messages',
         \A i \in News : outbox'[i].t = "message" => outbox'[i].id \in DOMAIN messages'
  PROVE  OutboxInv'
  <1>1. Saves \in Nat /\ Saves' = Saves + 1 /\ Saves' \in Nat
    BY DEF OutboxInv, Grows
  <1>2. ASSUME NEW i \in DOMAIN outbox' PROVE outbox'[i].n \in Nat /\ outbox'[i].n <= Saves'
    <2>1. CASE i \in News
      BY <1>1, <2>1 DEF Grows
    <2>2. CASE i \in DOMAIN outbox
      BY <1>1, <2>2 DEF Grows, OutboxInv
    <2> QED BY <2>1, <2>2 DEF News
  <1>3. ASSUME NEW i \in Events("message")' PROVE outbox'[i].id \in DOMAIN messages'
    <2>1. CASE i \in Events("message")
      BY <2>1, EventsGrow DEF OutboxInv
    <2>2. CASE i \in News /\ outbox'[i].t = "message"
      BY <2>2
    <2> QED BY <2>1, <2>2, EventsGrow
  <1>4. IsASeq(outbox')
    BY DEF Grows
  <1> QED BY <1>1, <1>2, <1>3, <1>4 DEF OutboxInv

\* An account's membership: the save says nothing of it, or has the last word.
Heard(a) == { i \in News : outbox'[i].t \in {"created", "added", "removed"} /\ a \in outbox'[i].who }

\* Either way an account's membership is what its last event says.
LEMMA MembershipGrows ==
  ASSUME RoomInv, Grows, NEW a \in Accounts,
         \/ Heard(a) = {} /\ (a \in DOMAIN members' <=> a \in DOMAIN members)
         \/ \E i : Heard(a) = {i} /\ (a \in DOMAIN members' <=> outbox'[i].t # "removed")
  PROVE  a \in DOMAIN members' <=> /\ MemberEvents(a)' # {}
                                   /\ outbox'[Max(MemberEvents(a)')].t # "removed"
  <1>0. OutboxInv
    BY DEF RoomInv
  <1>1. MemberEvents(a)' = MemberEvents(a) \cup Heard(a)
    <2>1. MemberEvents(a)' = { i \in (Events("created") \cup Events("added") \cup Events("removed"))' : a \in outbox'[i].who }
      BY DEF MemberEvents
    <2>2. \A i \in Events("created") \cup Events("added") \cup Events("removed") : outbox'[i] = outbox[i]
      BY <1>0, EventsGrow
    <2>3. (Events("created") \cup Events("added") \cup Events("removed"))'
             = (Events("created") \cup Events("added") \cup Events("removed"))
                 \cup { i \in News : outbox'[i].t \in {"created", "added", "removed"} }
      BY <1>0, EventsGrow
    <2> QED BY <2>1, <2>2, <2>3 DEF MemberEvents, Heard
  <1>2. /\ MemberEvents(a) \subseteq 1 .. Len(outbox) /\ Len(outbox) \in Nat
        /\ \A i \in MemberEvents(a) : outbox'[i] = outbox[i]
    BY <1>0, EventsGrow DEF MemberEvents, Events
  <1>3. a \in DOMAIN members <=> MemberEvents(a) # {} /\ outbox[Max(MemberEvents(a))].t # "removed"
    BY DEF RoomInv, TablesInv, MembersAreAnnounced
  <1>4. CASE Heard(a) = {} /\ (a \in DOMAIN members' <=> a \in DOMAIN members)
    <2>1. MemberEvents(a)' = MemberEvents(a)
      BY <1>1, <1>4
    <2>2. MemberEvents(a) # {} => outbox'[Max(MemberEvents(a))] = outbox[Max(MemberEvents(a))]
      BY <1>2, MaxIsGreatest
    <2> QED BY <1>3, <1>4, <2>1, <2>2
  <1>5. ASSUME NEW i, Heard(a) = {i}, a \in DOMAIN members' <=> outbox'[i].t # "removed"
        PROVE  a \in DOMAIN members' <=> MemberEvents(a)' # {} /\ outbox'[Max(MemberEvents(a)')].t # "removed"
    <2>1. i \in Nat /\ i > Len(outbox)
      BY <1>5 DEF Heard, Grows
    <2>2. PICK E : E = MemberEvents(a)'
      OBVIOUS
    <2>3. E = MemberEvents(a) \cup {i}
      BY <1>1, <1>5, <2>2
    <2>4. E \subseteq 1 .. i /\ i \in E
      BY <1>2, <2>1, <2>3
    <2>5. Max(E) \in E /\ \A y \in E : y <= Max(E)
      BY <2>1, <2>4, MaxIsGreatest
    <2>6. Max(E) = i
      <3>1. PICK m : m = Max(E)
        OBVIOUS
      <3>2. m \in 1 .. i /\ i <= m
        BY <2>4, <2>5, <3>1
      <3> QED BY <2>1, <3>1, <3>2
    <2> QED BY <1>5, <2>2, <2>4, <2>6
  <1> QED BY <1>4, <1>5

\* The events of a save of the room.
LEMMA SavedEvents ==
  ASSUME OutboxInv, NEW w \in Workers, NEW j, j = job[w], SaveRoom(w), j.op \in Creations \cup RoomOps
  PROVE  /\ Grows
         /\ Len(outbox) + 1 \in News
         /\ \A e : e = outbox'[Len(outbox) + 1] =>
                e.t = "room" /\ e.own = TRUE /\ e.roomAt = j.roomAt /\ e.dirty = j.dirty
         /\ \A i \in News : outbox'[i].t = "message" => outbox'[i].id = Len(messages) + 1 /\ outbox'[i].op = j.op
         /\ \A i \in News : outbox'[i].t \in {"created", "added", "removed", "renamed"} => Tells(outbox'[i], j) /\ i = Len(outbox) + 3
         /\ j.op \notin {"send", "forward"} => Len(outbox) + 3 \in News /\ Tells(outbox'[Len(outbox) + 3], j)
  <1>1. Len(outbox) \in Nat
    BY SeqDomain DEF OutboxInv
  <1>2. PICK id : id = Len(messages) + 1
    OBVIOUS
  <1>3. PICK e1 : e1 = buildRoomAggregateProjectionSyncEvent(j, [id |-> id, body |-> MessageOf(j).body], TRUE)
    OBVIOUS
  <1>4. PICK e2 : e2 = buildMessageAggregateProjectionSyncEvent(j, id, MessageOf(j), NoOne, ReceiptsOf(j), {})
    OBVIOUS
  <1>5. PICK sent : sent = [t |-> "sent", id |-> id]
    OBVIOUS
  <1>6. PICK d : d = DomainEvent(j)
    OBVIOUS
  <1>7. appendRoomOutboxEvents(<< e1, e2 >> \o d \o << sent >>)
    BY <1>2, <1>3, <1>4, <1>5, <1>6 DEF SaveRoom
  <1>8. PICK n : n = Saves + 1
    OBVIOUS
  <1>9. \A e : e = Numbered(e1, n) => e.t = "room" /\ e.own = TRUE /\ e.roomAt = j.roomAt /\ e.dirty = j.dirty
    <2> TAKE e
    <2> HAVE e = Numbered(e1, n)
    <2>1. PICK own \in BOOLEAN : own = TRUE
      OBVIOUS
    <2>2. PICK l : l = [id |-> id, body |-> MessageOf(j).body]
      OBVIOUS
    <2>3. e = Numbered(buildRoomAggregateProjectionSyncEvent(j, l, own), n)
      BY <1>3, <2>1, <2>2
    <2>4. e.t = "room" /\ e.own = own /\ e.roomAt = j.roomAt /\ e.dirty = j.dirty
      BY <2>3, RoomSync
    <2> QED BY <2>1, <2>4
  <1>10. \A e : e = Numbered(e2, n) => e.t = "message" /\ e.id = id /\ e.op = j.op
    BY <1>4, MessageSync
  <1>11. Numbered(sent, n).t = "sent"
    <2>1. "t" \in DOMAIN sent /\ sent.t = "sent"
      BY <1>5
    <2> QED BY <2>1, NumberedFields
  <1>12. PICK p : p = << e1, e2 >>
    OBVIOUS
  <1>17. IsASeq(p) /\ Len(p) = 2 /\ p[1] = e1 /\ p[2] = e2
    BY <1>12, TwoSeq
  <1>13. PICK q : q = << sent >>
    OBVIOUS
  <1>18. IsASeq(q) /\ Len(q) = 1 /\ q[1] = sent
    BY <1>13, OneSeq
  <1>19. appendRoomOutboxEvents(Joined(Joined(p, d), q))
    BY <1>7, <1>12, <1>13 DEF Joined
  <1>20. /\ \A i : i \in 1 .. 1 <=> i = 1
         /\ \A i : i \in 1 .. 2 <=> i \in {1, 2}
         /\ \A i : i \in 1 .. 3 <=> i \in {1, 2, 3}
    OBVIOUS
  <1>14. CASE j.op \in {"send", "forward"} /\ d = << >>
    <2>1. IsASeq(d) /\ Len(d) = 0
      BY <1>14, NoSeq
    <2>2. PICK f : f = Joined(p, d)
      OBVIOUS
    <2>3. IsASeq(f) /\ Len(f) = 2 /\ f[1] = e1 /\ f[2] = e2
      BY <1>17, <1>20, <2>1, <2>2, JoinedSeq
    <2>4. PICK g : g = Joined(f, q)
      OBVIOUS
    <2>5. IsASeq(g) /\ Len(g) = 3 /\ g[1] = e1 /\ g[2] = e2 /\ g[3] = sent
      <3>0. IsASeq(f) /\ IsASeq(q)
        BY <1>18, <2>3, <2>4
      <3>1. /\ IsASeq(g) /\ Len(g) = Len(f) + Len(q)
            /\ \A i \in 1 .. Len(f) : g[i] = f[i]
            /\ \A i \in 1 .. Len(q) : g[Len(f) + i] = q[i]
        BY <3>0, <2>4, JoinedSeq
      <3>2. g[Len(f) + 1] = q[1] /\ Len(f) + 1 \in Nat
        BY <1>18, <2>3, <2>4, <1>20, <3>1
      <3> QED BY <1>18, <2>3, <2>4, <1>20, <3>1, <3>2
    <2>6. appendRoomOutboxEvents(g) /\ Len(g) > 0
      BY <1>19, <2>2, <2>4, <2>5
    <2>7. /\ Grows /\ News = { Len(outbox) + k : k \in 1 .. 3 }
          /\ \A k \in 1 .. 3 : outbox'[Len(outbox) + k] = Numbered(g[k], n)
      BY <1>8, <2>5, <2>6, Appending
    <2>8. News = {Len(outbox) + 1, Len(outbox) + 2, Len(outbox) + 3}
      BY <1>1, <2>7
    <2>9. /\ outbox'[Len(outbox) + 1] = Numbered(e1, n) /\ outbox'[Len(outbox) + 2] = Numbered(e2, n)
          /\ outbox'[Len(outbox) + 3] = Numbered(sent, n)
      BY <2>5, <2>7
    <2>10. Len(outbox) + 1 \in News
      BY <2>8
    <2>11. \A i \in News : outbox'[i].t = "message" => outbox'[i].id = id /\ outbox'[i].op = j.op
      BY <1>9, <1>10, <1>11, <2>8, <2>9
    <2>12. \A i \in News : outbox'[i].t \notin {"created", "added", "removed", "renamed"}
      BY <1>9, <1>10, <1>11, <2>8, <2>9
    <2> QED BY <1>2, <1>9, <1>14, <2>7, <2>9, <2>10, <2>11, <2>12
  <1>15. ASSUME NEW e, d = << e >>, Tells(Numbered(e, n), j)
         PROVE  /\ Grows
                /\ Len(outbox) + 1 \in News /\ Len(outbox) + 3 \in News
                /\ outbox'[Len(outbox) + 1] = Numbered(e1, n)
                /\ Tells(outbox'[Len(outbox) + 3], j)
                /\ \A i \in News : outbox'[i].t = "message" => outbox'[i].id = id /\ outbox'[i].op = j.op
                /\ \A i \in News : outbox'[i].t \in {"created", "added", "removed", "renamed"} => i = Len(outbox) + 3
    <2>1. IsASeq(d) /\ Len(d) = 1 /\ d[1] = e
      BY <1>15, OneSeq
    <2>2. PICK f : f = Joined(p, d)
      OBVIOUS
    <2>3. IsASeq(f) /\ Len(f) = 3 /\ f[1] = e1 /\ f[2] = e2 /\ f[3] = e
      <3>0. IsASeq(p) /\ IsASeq(d)
        BY <1>17, <2>1, <2>2
      <3>1. /\ IsASeq(f) /\ Len(f) = Len(p) + Len(d)
            /\ \A i \in 1 .. Len(p) : f[i] = p[i]
            /\ \A i \in 1 .. Len(d) : f[Len(p) + i] = d[i]
        BY <3>0, <2>2, JoinedSeq
      <3>2. f[Len(p) + 1] = d[1] /\ Len(p) + 1 \in Nat
        BY <1>17, <2>1, <2>2, <1>20, <3>1
      <3> QED BY <1>17, <2>1, <2>2, <1>20, <3>1, <3>2
    <2>4. PICK g : g = Joined(f, q)
      OBVIOUS
    <2>5. IsASeq(g) /\ Len(g) = 4 /\ g[1] = e1 /\ g[2] = e2 /\ g[3] = e /\ g[4] = sent
      <3>0. IsASeq(f) /\ IsASeq(q)
        BY <1>18, <2>3, <2>4
      <3>1. /\ IsASeq(g) /\ Len(g) = Len(f) + Len(q)
            /\ \A i \in 1 .. Len(f) : g[i] = f[i]
            /\ \A i \in 1 .. Len(q) : g[Len(f) + i] = q[i]
        BY <3>0, <2>4, JoinedSeq
      <3>2. g[Len(f) + 1] = q[1] /\ Len(f) + 1 \in Nat
        BY <1>18, <2>3, <2>4, <1>20, <3>1
      <3> QED BY <1>18, <2>3, <2>4, <1>20, <3>1, <3>2
    <2>6. appendRoomOutboxEvents(g) /\ Len(g) > 0
      BY <1>19, <2>2, <2>4, <2>5
    <2>7. /\ Grows /\ News = { Len(outbox) + k : k \in 1 .. 4 }
          /\ \A k \in 1 .. 4 : outbox'[Len(outbox) + k] = Numbered(g[k], n)
      BY <1>8, <2>5, <2>6, Appending
    <2>8. News = {Len(outbox) + 1, Len(outbox) + 2, Len(outbox) + 3, Len(outbox) + 4}
      BY <1>1, <2>7
    <2>9. /\ outbox'[Len(outbox) + 1] = Numbered(e1, n) /\ outbox'[Len(outbox) + 2] = Numbered(e2, n)
          /\ outbox'[Len(outbox) + 3] = Numbered(e, n) /\ outbox'[Len(outbox) + 4] = Numbered(sent, n)
      BY <2>5, <2>7
    <2>10. Len(outbox) + 1 \in News /\ Len(outbox) + 3 \in News
      BY <2>8
    <2>11. Numbered(e, n).t # "message"
      BY <1>15 DEF Tells
    <2>12. \A i \in News : outbox'[i].t = "message" => outbox'[i].id = id /\ outbox'[i].op = j.op
      BY <1>9, <1>10, <1>11, <2>8, <2>9, <2>11
    <2>13. \A i \in News : outbox'[i].t \in {"created", "added", "removed", "renamed"} => i = Len(outbox) + 3
      BY <1>9, <1>10, <1>11, <2>8, <2>9
    <2> QED BY <1>15, <2>7, <2>9, <2>10, <2>12, <2>13
  <1>16. CASE \E e : d = << e >> /\ Tells(Numbered(e, n), j)
    <2>1. PICK e : d = << e >> /\ Tells(Numbered(e, n), j)
      BY <1>16
    <2>2. /\ Grows
          /\ Len(outbox) + 1 \in News /\ Len(outbox) + 3 \in News
          /\ outbox'[Len(outbox) + 1] = Numbered(e1, n)
          /\ Tells(outbox'[Len(outbox) + 3], j)
          /\ \A i \in News : outbox'[i].t = "message" => outbox'[i].id = id /\ outbox'[i].op = j.op
          /\ \A i \in News : outbox'[i].t \in {"created", "added", "removed", "renamed"} => i = Len(outbox) + 3
      BY <1>15, <2>1
    <2> QED BY <1>2, <1>9, <2>2
  <1> QED BY <1>6, <1>14, <1>16, EventTells

-----------------------------------------------------------------------------
(* A save of the room commits. *)

\* What is known of it.
RoomSaved(w, j) ==
    /\ j = job[w] /\ JobInv(j) /\ j.pc = "saving" /\ j.op \in Creations \cup RoomOps /\ Saving = {w}
    /\ Grows
    /\ room' = j.room /\ j.room \in RoomRows /\ j.room.kind # "none"
    /\ members' = SaveMembers(j)
    /\ leaked' = leaked /\ cache' = cache /\ blurred' = blurred /\ clock' = clock /\ Done(w)

\* SaveRoom is such a step.
LEMMA RoomIsSaved ==
  ASSUME RoomInv, NEW w \in Workers, SaveRoom(w), NEW j, j = job[w]
  PROVE  RoomSaved(w, j)
  <1>1. JobInv(j) /\ j.pc = "saving"
    BY DEF RoomInv, SaveRoom, At
  <1>2. j.op \in Creations \cup RoomOps
    BY <1>1 DEF JobInv, OnItsWay, Creations
  <1>3. Saving = {w}
    BY <1>1 DEF RoomInv, SavingInv, Saving, At
  <1>4. Grows
    BY <1>2, SavedEvents DEF RoomInv
  <1>5. /\ room' = j.room /\ members' = SaveMembers(j)
        /\ leaked' = leaked /\ cache' = cache /\ blurred' = blurred /\ clock' = clock /\ Done(w)
    BY DEF SaveRoom
  <1>6. j.room \in RoomRows
    BY <1>1 DEF JobInv, JobTypeOK
  <1>7. j.room.kind # "none"
    <2>1. CASE j.op \in Creations
      BY <1>1, <2>1 DEF JobInv, KindOK, Making, Creations
    <2>2. CASE j.op \in RoomOps
      BY <1>1, <2>2 DEF JobInv, KindOK, Loaded
    <2> QED BY <1>2, <2>1, <2>2
  <1> QED BY <1>1, <1>2, <1>3, <1>4, <1>5, <1>6, <1>7 DEF RoomSaved

\* The members there are after the save, by command.
LEMMA MembersAreSaved ==
  ASSUME NEW j
  PROVE  /\ j.op \in Creations => SaveMembers(j) = j.members
         /\ j.op = "remove" => DOMAIN SaveMembers(j) = DOMAIN members \ {j.who}
         /\ j.op = "add" => DOMAIN SaveMembers(j) = DOMAIN members \cup {j.who}
         /\ j.op \notin Creations \cup {"remove", "add"} => SaveMembers(j) = members
  <1>1. CASE j.op \in Creations
    BY <1>1 DEF SaveMembers, Creations
  <1>2. CASE j.op = "remove"
    <2>1. SaveMembers(j) = RemoveMember(members, j.who)
      BY <1>2 DEF SaveMembers, Creations
    <2>2. DOMAIN RemoveMember(members, j.who) = DOMAIN members \ {j.who}
      BY DEF RemoveMember
    <2> QED BY <1>2, <2>1, <2>2 DEF Creations
  <1>3. CASE j.op = "add"
    <2>1. CASE j.who \notin DOMAIN members
      <3>1. SaveMembers(j) = AddMember(members, j.who, j.val, j.now)
        BY <1>3, <2>1 DEF SaveMembers, Creations
      <3>2. DOMAIN AddMember(members, j.who, j.val, j.now) = DOMAIN members \cup {j.who}
        BY DEF AddMember
      <3> QED BY <1>3, <3>1, <3>2 DEF Creations
    <2>2. CASE j.who \in DOMAIN members
      <3>1. SaveMembers(j) = members
        BY <1>3, <2>2 DEF SaveMembers, Creations
      <3> QED BY <1>3, <2>2, <3>1 DEF Creations
    <2> QED BY <2>1, <2>2
  <1>4. CASE j.op \notin Creations \cup {"remove", "add"}
    BY <1>4 DEF SaveMembers
  <1> QED BY <1>1, <1>2, <1>3, <1>4

\* The members stay what their events say, and a direct conversation stays for two.
LEMMA SaveRoomMembers ==
  ASSUME RoomInv, NEW w \in Workers, SaveRoom(w), NEW j, RoomSaved(w, j)
  PROVE  MembersAreAnnounced' /\ DirectIsForTwo' /\ DOMAIN members' \subseteq Accounts
  <1>0. OutboxInv /\ j = job[w] /\ j.op \in Creations \cup RoomOps /\ Grows /\ JobInv(j) /\ room' = j.room
    BY DEF RoomInv, RoomSaved
  <1>1. /\ \A i \in News : outbox'[i].t \in {"created", "added", "removed", "renamed"} => Tells(outbox'[i], j) /\ i = Len(outbox) + 3
        /\ j.op \notin {"send", "forward"} => Len(outbox) + 3 \in News /\ Tells(outbox'[Len(outbox) + 3], j)
    BY <1>0, SavedEvents
  <1>2. PICK x : x = Len(outbox) + 3
    OBVIOUS
  <1>3. PICK e : e = outbox'[x]
    OBVIOUS
  <1>4. ASSUME NEW a
        PROVE  Heard(a) = IF x \in News /\ e.t \in {"created", "added", "removed"} /\ a \in e.who THEN {x} ELSE {}
    BY <1>1, <1>2, <1>3 DEF Heard
  <1>5. members' = SaveMembers(j) /\ DOMAIN members \subseteq Accounts
    BY DEF RoomSaved, RoomInv, TypesInv
  <1>6. CASE j.op \in Creations
    <2>1. members' = j.members /\ DOMAIN j.members \subseteq Accounts /\ j.room.kind = j.op
      BY <1>0, <1>5, <1>6, MembersAreSaved DEF RoomSaved, JobInv, KindOK, Making
    <2>2. room.kind = "none"
      BY <1>0, <1>6 DEF RoomSaved, RoomInv, SavingInv
    <2>3. DOMAIN members = {}
      BY <2>2 DEF RoomInv, TablesInv
    <2>4. x \in News /\ e.t = "created" /\ e.who = DOMAIN j.members
      BY <1>1, <1>2, <1>3, <1>6 DEF Tells, Creations
    <2>5. ASSUME NEW a \in Accounts
          PROVE  a \in DOMAIN members' <=> MemberEvents(a)' # {} /\ outbox'[Max(MemberEvents(a)')].t # "removed"
      <3>1. CASE a \in DOMAIN j.members
        <4>1. Heard(a) = {x} /\ (a \in DOMAIN members' <=> outbox'[x].t # "removed")
          BY <1>3, <1>4, <2>1, <2>4, <3>1
        <4> QED BY <1>0, <4>1, MembershipGrows
      <3>2. CASE a \notin DOMAIN j.members
        <4>1. Heard(a) = {} /\ (a \in DOMAIN members' <=> a \in DOMAIN members)
          BY <1>4, <2>1, <2>3, <2>4, <3>2
        <4> QED BY <1>0, <4>1, MembershipGrows
      <3> QED BY <3>1, <3>2
    <2>6. room'.kind = "direct" => Cardinality(DOMAIN members') = 2
      BY <1>0, <1>6, <2>1 DEF RoomSaved, JobInv, KindOK, Making
    <2> QED BY <2>1, <2>5, <2>6 DEF MembersAreAnnounced, DirectIsForTwo
  <1>7. CASE j.op \in {"add", "remove"}
    <2>1. /\ j.op = "add" => DOMAIN members' = DOMAIN members \cup {j.who}
          /\ j.op = "remove" => DOMAIN members' = DOMAIN members \ {j.who}
          /\ j.who \in Accounts
      BY <1>0, <1>5, <1>7, MembersAreSaved DEF JobInv, GivenOK
    <2>2. /\ x \in News /\ e.who = {j.who}
          /\ j.op = "add" => e.t = "added"
          /\ j.op = "remove" => e.t = "removed"
      BY <1>1, <1>2, <1>3, <1>7 DEF Tells, Creations
    <2>3. ASSUME NEW a \in Accounts
          PROVE  a \in DOMAIN members' <=> MemberEvents(a)' # {} /\ outbox'[Max(MemberEvents(a)')].t # "removed"
      <3>1. CASE a = j.who
        <4>1. Heard(a) = {x} /\ (a \in DOMAIN members' <=> outbox'[x].t # "removed")
          BY <1>3, <1>4, <1>7, <2>1, <2>2, <3>1
        <4> QED BY <1>0, <4>1, MembershipGrows
      <3>2. CASE a # j.who
        <4>1. Heard(a) = {} /\ (a \in DOMAIN members' <=> a \in DOMAIN members)
          BY <1>4, <1>7, <2>1, <2>2, <3>2
        <4> QED BY <1>0, <4>1, MembershipGrows
      <3> QED BY <3>1, <3>2
    <2>4. room'.kind = "group"
      BY <1>0, <1>7 DEF RoomSaved, JobInv, KindOK
    <2> QED BY <1>5, <1>7, <2>1, <2>3, <2>4 DEF MembersAreAnnounced, DirectIsForTwo
  <1>8. CASE j.op \notin Creations \cup {"add", "remove"}
    <2>1. members' = members
      BY <1>5, <1>8, MembersAreSaved
    <2>2. x \in News => e.t \notin {"created", "added", "removed"}
      BY <1>1, <1>2, <1>3, <1>8 DEF Tells
    <2>3. ASSUME NEW a \in Accounts
          PROVE  a \in DOMAIN members' <=> MemberEvents(a)' # {} /\ outbox'[Max(MemberEvents(a)')].t # "removed"
      <3>1. Heard(a) = {} /\ (a \in DOMAIN members' <=> a \in DOMAIN members)
        BY <1>4, <2>1, <2>2
      <3> QED BY <1>0, <3>1, MembershipGrows
    <2>4. room'.kind = room.kind
      BY <1>0, <1>8 DEF RoomSaved, JobInv, KindOK, Loaded
    <2>5. DirectIsForTwo'
      BY <2>1, <2>4 DEF DirectIsForTwo, RoomInv, TablesInv
    <2> QED BY <1>5, <2>1, <2>3, <2>5 DEF MembersAreAnnounced
  <1> QED BY <1>6, <1>7, <1>8

\* The name that is saved, and every name known before, is announced or leaked afterwards.
LEMMA SaveRoomNames ==
  ASSUME RoomInv, NEW w \in Workers, SaveRoom(w), NEW j, RoomSaved(w, j)
  PROVE  j.room.name \in Announced' \cup leaked /\ Known \subseteq Announced' \cup leaked
  <1>0. OutboxInv /\ j = job[w] /\ j.op \in Creations \cup RoomOps /\ Grows /\ JobInv(j) /\ j.pc = "saving" /\ Saving = {w}
    BY DEF RoomInv, RoomSaved
  <1>1. Announced \subseteq Announced'
    BY <1>0, EventsGrow
  <1>2. CASE j.op \in Creations \cup {"rename"}
    <2>1. PICK x : x = Len(outbox) + 3
      OBVIOUS
    <2>2. x \in News /\ Tells(outbox'[x], j)
      BY <1>0, <1>2, <2>1, SavedEvents DEF Creations
    <2>3. outbox'[x].name = j.room.name /\ outbox'[x].t \in {"created", "renamed"}
      BY <1>0, <1>2, <2>2 DEF Tells, JobInv, KindOK, Renaming, Creations
    <2>4. x \in Events("created")' \cup Events("renamed")'
      BY <1>0, <2>2, <2>3, EventsGrow
    <2>5. j.room.name \in Announced'
      BY <2>3, <2>4 DEF Announced
    <2>6. Known = Announced \cup leaked \cup {j.room.name}
      BY <1>0, <1>2 DEF Known
    <2> QED BY <1>1, <2>5, <2>6
  <1>3. CASE j.op \notin Creations \cup {"rename"}
    <2>1. Known = Announced \cup leaked
      BY <1>0, <1>3 DEF Known
    <2>2. j.room.name \in Known
      BY <1>0, <1>3 DEF JobInv, NameOK, Loaded
    <2> QED BY <1>1, <2>1, <2>2
  <1> QED BY <1>2, <1>3

\* The last rename stays, or the save that reverts it was made of an older reading or a wrong copy.
LEMMA SaveRoomRename ==
  ASSUME RoomInv, NEW w \in Workers, SaveRoom(w), NEW j, RoomSaved(w, j), OutboxInv'
  PROVE  RenameSticks'
  <1>0. /\ OutboxInv /\ j = job[w] /\ j.op \in Creations \cup RoomOps /\ Grows /\ JobInv(j) /\ j.pc = "saving"
        /\ room' = j.room /\ Saving = {w}
    BY DEF RoomInv, RoomSaved
  <1>1. /\ \A i \in News : outbox'[i].t = "renamed" => j.op = "rename" /\ outbox'[i].name = j.val
        /\ j.op = "rename" => \E i \in News : outbox'[i].t = "renamed"
    <2>1. /\ \A i \in News : outbox'[i].t = "renamed" => Tells(outbox'[i], j)
          /\ j.op = "rename" => Len(outbox) + 3 \in News /\ Tells(outbox'[Len(outbox) + 3], j)
      BY <1>0, SavedEvents
    <2> QED BY <2>1 DEF Tells, Creations
  <1>2. SUFFICES ASSUME NEW i \in Events("renamed")', i = Max(Events("renamed")')
                 PROVE  Reverted(i)' \/ room'.name = outbox'[i].name
    BY DEF RenameSticks, Reverted
  <1>3. PICK E : E = Events("renamed")'
    OBVIOUS
  <1>4. \A k \in E : k <= i
    <2>1. Len(outbox') \in Nat /\ DOMAIN outbox' = 1 .. Len(outbox')
      BY SeqDomain DEF OutboxInv
    <2>2. E \subseteq 1 .. Len(outbox')
      BY <1>3, <2>1 DEF Events
    <2> QED BY <1>2, <1>3, <2>1, <2>2, MaxIsGreatest
  <1>5. CASE i \in News
    <2>1. j.op = "rename" /\ outbox'[i].name = j.val
      BY <1>0, <1>1, <1>5 DEF Events
    <2>2. j.room.name = j.val
      BY <1>0, <2>1 DEF JobInv, KindOK, Renaming
    <2> QED BY <1>0, <2>1, <2>2
  <1>6. CASE i \notin News
    <2>1. i \in Events("renamed") /\ i \in DOMAIN outbox /\ outbox'[i] = outbox[i] /\ outbox[i].n <= Saves
      BY <1>0, <1>6, EventsGrow
    <2>2. i \in Nat /\ i <= Len(outbox) /\ Len(outbox) \in Nat /\ Saves \in Nat /\ outbox[i].n \in Nat
      BY <1>0, <2>1, EventsGrow DEF OutboxInv
    <2>3. j.op # "rename"
      <3> SUFFICES ASSUME j.op = "rename" PROVE FALSE
        OBVIOUS
      <3>1. PICK k \in News : outbox'[k].t = "renamed"
        BY <1>1
      <3>2. k \in E /\ k \in Nat /\ k > Len(outbox)
        BY <1>0, <1>3, <3>1, EventsGrow DEF Grows
      <3> QED BY <1>4, <2>2, <3>2
    <2>4. IsLast(i)
      BY <1>0, <1>3, <1>4, EventsGrow DEF IsLast
    <2>5. j.op \in RoomOps
      <3>1. CASE j.op \in Creations
        <4>1. outbox = << >>
          BY <1>0, <3>1 DEF RoomInv, SavingInv, TablesInv
        <4> QED BY <2>1, <4>1
      <3> QED BY <1>0, <3>1
    <2>6. j.roomAt \in Nat /\ (outbox[i].n <= j.roomAt /\ ~j.dirty => Reverted(i) \/ j.room.name = outbox[i].name)
      BY <1>0, <2>1, <2>3, <2>4, <2>5 DEF JobInv, JobTypeOK, RenameOK, Loaded, Renaming
    <2>7. CASE outbox[i].n <= j.roomAt /\ ~j.dirty
      BY <1>0, <2>1, <2>6, <2>7, EventsGrow
    <2>8. CASE j.roomAt < outbox[i].n \/ j.dirty
      <3>1. PICK k : k = Len(outbox) + 1
        OBVIOUS
      <3>2. PICK e : e = outbox'[k]
        OBVIOUS
      <3>3. k \in News /\ e.t = "room" /\ e.own = TRUE /\ e.roomAt = j.roomAt /\ e.dirty = j.dirty
        BY <1>0, <3>1, <3>2, SavedEvents
      <3>4. k \in Events("room")' /\ e.n = Saves + 1
        BY <1>0, <3>2, <3>3, EventsGrow DEF Grows
      <3>5. e.n > outbox'[i].n
        BY <2>1, <2>2, <3>4
      <3>6. e.roomAt < outbox'[i].n \/ e.dirty
        BY <2>1, <2>8, <3>3
      <3>7. e.own
        BY <3>3
      <3> QED BY <3>2, <3>4, <3>5, <3>6, <3>7 DEF Reverted
    <2> QED BY <2>2, <2>6, <2>7, <2>8
  <1> QED BY <1>5, <1>6

\* The message a command leaves is a row.
LEMMA NewRow ==
  ASSUME NEW j, JobInv(j), j.op \in Creations \cup RoomOps
  PROVE  MessageOf(j) \in MessageRows
  <1>1. j.by \in Accounts /\ j.now \in Nat /\ j.msg \in MessageRows
    BY DEF JobInv, GivenOK, JobTypeOK, Creations, RoomOps
  <1>2. ASSUME NEW type \in {"none", "text", "system"}, NEW body \in Nat
        PROVE  NewMessage(j.by, type, body, j.now) \in MessageRows
    BY <1>1 DEF NewMessage, NoMessage, MessageRows
  <1>3. j.msg.type \in {"none", "text", "system"} /\ j.msg.body \in Nat
    BY <1>1 DEF MessageRows
  <1>4. \/ MessageOf(j) = NewMessage(j.by, "text", j.now, j.now)
        \/ MessageOf(j) = NewMessage(j.by, j.msg.type, j.msg.body, j.now)
        \/ MessageOf(j) = NewMessage(j.by, "system", j.now, j.now)
    BY DEF MessageOf
  <1> QED BY <1>1, <1>2, <1>3, <1>4

\* The message is added to the others, whose deletions stay.
LEMMA SaveRoomMessages ==
  ASSUME RoomInv, NEW w \in Workers, SaveRoom(w), NEW j, RoomSaved(w, j)
  PROVE  /\ messages' \in Seq(MessageRows) /\ DOMAIN messages \subseteq DOMAIN messages'
         /\ OutboxInv' /\ DeletedStaysDeleted'
  <1>0. OutboxInv /\ j = job[w] /\ j.op \in Creations \cup RoomOps /\ Grows /\ JobInv(j) /\ messages \in Seq(MessageRows)
    BY DEF RoomInv, RoomSaved, TypesInv
  <1>1. PICK m : m = MessageOf(j)
    OBVIOUS
  <1>2. m \in MessageRows
    BY <1>0, <1>1, NewRow
  <1>3. messages' = Append(messages, m)
    BY <1>0, <1>1 DEF SaveRoom
  <1>4. /\ messages' \in Seq(MessageRows) /\ Len(messages) \in Nat /\ Len(messages') = Len(messages) + 1
        /\ \A i \in 1 .. Len(messages) : messages'[i] = messages[i]
    BY <1>0, <1>2, <1>3
  <1>5. DOMAIN messages = 1 .. Len(messages) /\ DOMAIN messages' = 1 .. Len(messages')
    BY <1>0, <1>4
  <1>6. DOMAIN messages \subseteq DOMAIN messages' /\ Len(messages) + 1 \in DOMAIN messages'
    BY <1>4, <1>5
  <1>7. \A i \in News : outbox'[i].t = "message" => outbox'[i].id = Len(messages) + 1 /\ outbox'[i].op = j.op
    BY <1>0, SavedEvents
  <1>8. OutboxInv'
    BY <1>0, <1>6, <1>7, GrowthKeepsOutbox
  <1>9. DeletedStaysDeleted'
    <2> SUFFICES ASSUME NEW i \in Events("message")', outbox'[i].msg.deleted, outbox'[i].op = "delete"
                 PROVE  messages'[outbox'[i].id].deleted \/ Undone(i)'
      BY DEF DeletedStaysDeleted, Undone
    <2>1. i \notin News
      BY <1>0, <1>7 DEF Events, Creations, RoomOps
    <2>2. i \in Events("message") /\ outbox'[i] = outbox[i] /\ i \in DOMAIN outbox
      BY <1>0, <2>1, EventsGrow
    <2>3. messages[outbox[i].id].deleted \/ Undone(i)
      BY <2>2 DEF RoomInv, TablesInv, DeletedStaysDeleted, Undone
    <2>4. outbox[i].id \in DOMAIN messages
      BY <1>0, <2>2 DEF OutboxInv
    <2> QED BY <1>0, <1>4, <1>5, <2>2, <2>3, <2>4, EventsGrow
  <1> QED BY <1>4, <1>6, <1>8, <1>9

\* The jobs after a commit, the one that ended included.
LEMMA JobsAfterSave ==
  ASSUME RoomInv, NEW w \in Workers, Done(w), Grows, DOMAIN messages \subseteq DOMAIN messages',
         Known \subseteq Known',
         room'.kind # "none", room.kind # "none" => room'.kind = room.kind
  PROVE  \A x \in Workers : JobInv(job[x])'
  <1>1. /\ DOMAIN job' = Workers /\ job'[w] = Idle
        /\ \A x \in Workers \ {w} : job'[x] = job[x]
    BY WorkAlone DEF Done
  <1> TAKE x \in Workers
  <1>2. PICK y : y = job'[x]
    OBVIOUS
  <1>3. JobInv(y) /\ OutboxInv
    BY <1>1, <1>2, IdleOK DEF RoomInv
  <1>4. KindOK(y)'
    BY <1>3 DEF JobInv, KindOK, Loaded, Making, Renaming
  <1>5. NameOK(y)'
    BY <1>3 DEF JobInv, NameOK, Loaded
  <1>6. JobInv(y)'
    BY <1>3, <1>4, <1>5, GrowthKeepsJob
  <1> QED BY <1>2, <1>6

\* SaveRoom keeps the invariant.
LEMMA SaveRoomInv ==
  ASSUME RoomInv, NEW w \in Workers, SaveRoom(w)
  PROVE  RoomInv'
  <1>1. PICK j : j = job[w]
    OBVIOUS
  <1>2. RoomSaved(w, j)
    BY <1>1, RoomIsSaved
  <1>3. /\ OutboxInv /\ j.op \in Creations \cup RoomOps /\ Grows /\ JobInv(j) /\ j.pc = "saving" /\ Saving = {w}
        /\ room' = j.room /\ j.room \in RoomRows /\ j.room.kind # "none"
        /\ leaked' = leaked /\ cache' = cache /\ blurred' = blurred /\ clock' = clock /\ Done(w)
    BY <1>2 DEF RoomInv, RoomSaved
  <1>4. /\ DOMAIN job' = Workers /\ job'[w] = Idle
        /\ \A x \in Workers \ {w} : job'[x] = job[x]
    BY <1>3, WorkAlone DEF Done
  <1>5. Saving' = {}
    BY <1>3, <1>4 DEF Saving, At, Idle
  <1>6. Known' = Announced' \cup leaked
    BY <1>3, <1>5 DEF Known
  <1>7. j.room.name \in Known' /\ Known \subseteq Known'
    BY <1>2, <1>6, SaveRoomNames
  <1>8. /\ messages' \in Seq(MessageRows) /\ DOMAIN messages \subseteq DOMAIN messages'
        /\ OutboxInv' /\ DeletedStaysDeleted'
    BY <1>2, SaveRoomMessages
  <1>9. MembersAreAnnounced' /\ DirectIsForTwo' /\ DOMAIN members' \subseteq Accounts
    BY <1>2, SaveRoomMembers
  <1>10. RenameSticks'
    BY <1>2, <1>8, SaveRoomRename
  <1>11. TablesInv'
    BY <1>3, <1>6, <1>7, <1>8, <1>9, <1>10 DEF TablesInv
  <1>12. room.kind # "none" => room'.kind = room.kind /\ j.op \notin Creations
    <2>1. j.op \in Creations => room.kind = "none"
      BY <1>1, <1>3 DEF RoomInv, SavingInv
    <2>2. j.op \in RoomOps => j.room.kind = room.kind
      BY <1>3 DEF JobInv, KindOK, Loaded
    <2> QED BY <1>3, <2>1, <2>2
  <1>13. \A x \in Workers : JobInv(job[x])'
    BY <1>3, <1>7, <1>8, <1>12, JobsAfterSave
  <1>14. SavingInv'
    BY <1>5 DEF SavingInv
  <1>15. ClockInv'
    BY <1>3, ClockStays DEF Done, Waits, Idle
  <1>16. CacheInv'
    <2>1. cache'.kind # "none" => cache'.name \in Known'
      BY <1>3, <1>7 DEF RoomInv, CacheInv
    <2>2. cache'.kind # "none" => cache'.kind = room'.kind
      <3>1. CASE room.kind = "none"
        BY <1>1, <1>3, <3>1 DEF RoomInv, CacheInv
      <3>2. CASE room.kind # "none"
        BY <1>3, <1>12, <3>2 DEF RoomInv, CacheInv
      <3> QED BY <3>1, <3>2
    <2>3. CacheFollowsRow'
      <3>1. cache.kind # "none" /\ ~blurred => cache = j.room
        BY <1>1, <1>3 DEF RoomInv, CacheInv
      <3> QED BY <1>3, <3>1 DEF CacheFollowsRow
    <2> QED BY <1>3, <1>5, <2>1, <2>2, <2>3 DEF CacheInv
  <1>17. TypesInv'
    BY <1>3, <1>4, <1>8, <1>9 DEF RoomInv, TypesInv
  <1> QED BY <1>8, <1>11, <1>13, <1>14, <1>15, <1>16, <1>17 DEF RoomInv

-----------------------------------------------------------------------------
(* A save of a message commits. *)

\* Its events: the message's own, and of the room one that is not its own.
MessageSaved(j) ==
    /\ Grows
    /\ \A i \in News : outbox'[i].t \in {"message", "room"}
    /\ \A i \in News : outbox'[i].t = "message" =>
          outbox'[i].id = j.id /\ outbox'[i].msg = j.msg /\ outbox'[i].op = j.op /\ outbox'[i].base = j.base
    /\ Len(outbox) + 1 \in News /\ outbox'[Len(outbox) + 1].t = "message"

\* SaveMessage's events are those.
LEMMA MessageIsSaved ==
  ASSUME OutboxInv, NEW j, NEW ms, NEW receipts, NEW hidden, NEW sync,
         sync = buildMessageAggregateProjectionSyncEvent(j, j.id, j.msg, ms, receipts, hidden),
         \/ appendRoomOutboxEvents(<< sync, buildRoomAggregateProjectionSyncEvent(j, j.last, FALSE) >>)
         \/ appendRoomOutboxEvents(<< sync >>)
  PROVE  MessageSaved(j)
  <1>1. Len(outbox) \in Nat
    BY SeqDomain DEF OutboxInv
  <1>2. PICK n : n = Saves + 1
    OBVIOUS
  <1>3. PICK e : e = Numbered(sync, n)
    OBVIOUS
  <1>4. e.t = "message" /\ e.id = j.id /\ e.msg = j.msg /\ e.op = j.op /\ e.base = j.base
    BY <1>3, MessageSync
  <1>5. CASE appendRoomOutboxEvents(<< sync, buildRoomAggregateProjectionSyncEvent(j, j.last, FALSE) >>)
    <2>1. PICK r : r = buildRoomAggregateProjectionSyncEvent(j, j.last, FALSE)
      OBVIOUS
    <2>2. PICK f : f = Numbered(r, n)
      OBVIOUS
    <2>3. f.t = "room"
      <3>1. "t" \in DOMAIN r /\ r.t = "room"
        BY <2>1 DEF buildRoomAggregateProjectionSyncEvent
      <3> QED BY <2>2, <3>1, NumberedFields
    <2>4. PICK g : g = << sync, r >>
      OBVIOUS
    <2>5. IsASeq(g) /\ Len(g) = 2 /\ g[1] = sync /\ g[2] = r
      BY <2>4, TwoSeq
    <2>6. appendRoomOutboxEvents(g) /\ Len(g) > 0
      BY <1>5, <2>1, <2>4, <2>5
    <2>7. /\ Grows /\ News = { Len(outbox) + k : k \in 1 .. 2 }
          /\ \A k \in 1 .. 2 : outbox'[Len(outbox) + k] = Numbered(g[k], n)
      BY <1>2, <2>5, <2>6, Appending
    <2>8. News = {Len(outbox) + 1, Len(outbox) + 2}
      BY <1>1, <2>7
    <2>9. outbox'[Len(outbox) + 1] = e /\ outbox'[Len(outbox) + 2] = f
      BY <1>3, <2>2, <2>5, <2>7
    <2> QED BY <1>4, <2>3, <2>7, <2>8, <2>9 DEF MessageSaved
  <1>6. CASE appendRoomOutboxEvents(<< sync >>)
    <2>4. PICK g : g = << sync >>
      OBVIOUS
    <2>5. IsASeq(g) /\ Len(g) = 1 /\ g[1] = sync
      BY <2>4, OneSeq
    <2>6. appendRoomOutboxEvents(g) /\ Len(g) > 0
      BY <1>6, <2>4, <2>5
    <2>7. /\ Grows /\ News = { Len(outbox) + k : k \in 1 .. 1 }
          /\ \A k \in 1 .. 1 : outbox'[Len(outbox) + k] = Numbered(g[k], n)
      BY <1>2, <2>5, <2>6, Appending
    <2>8. News = {Len(outbox) + 1}
      BY <1>1, <2>7
    <2>9. outbox'[Len(outbox) + 1] = e
      BY <1>3, <2>5, <2>7
    <2> QED BY <1>4, <2>7, <2>8, <2>9 DEF MessageSaved
  <1> QED BY <1>5, <1>6

\* The same tables but for one message and a member's receipt.
LEMMA SaveMessageChanges ==
  ASSUME RoomInv, NEW w \in Workers, SaveMessage(w), NEW j, j = job[w]
  PROVE  /\ MessageSaved(j) /\ JobInv(j) /\ j.op \in MessageOps /\ j.id \in DOMAIN messages /\ ~At(w, "saving")
         /\ DOMAIN members' = DOMAIN members
         /\ messages' \in Seq(MessageRows) /\ DOMAIN messages' = DOMAIN messages
         /\ \/ j.op \in MessageWrites /\ messages' = [messages EXCEPT ![j.id] = j.msg]
            \/ j.op \notin MessageWrites /\ messages' = messages
  <1>1. JobInv(j) /\ j.pc = "commit" /\ ~At(w, "saving") /\ OutboxInv /\ messages \in Seq(MessageRows)
    BY DEF RoomInv, SaveMessage, At, TypesInv
  <1>2. j.op \in MessageOps /\ j.id \in DOMAIN messages /\ j.msg \in MessageRows
    <2>1. j.op \in MessageOps
      BY <1>1 DEF JobInv, OnItsWay, MessageOps
    <2> QED BY <1>1, <2>1 DEF JobInv, GivenOK, JobTypeOK
  <1>3. PICK sync : sync = buildMessageAggregateProjectionSyncEvent(j, j.id, j.msg,
                     IF j.op = "mark" THEN j.members ELSE NoOne,
                     IF j.op = "mark" THEN {<< j.by, j.val >>} ELSE {},
                     IF j.op = "hide" THEN {j.by} ELSE {})
    OBVIOUS
  <1>4. \/ /\ j.op \in MessageWrites
           /\ messages' = [messages EXCEPT ![j.id] = j.msg]
           /\ appendRoomOutboxEvents(<< sync, buildRoomAggregateProjectionSyncEvent(j, j.last, FALSE) >>)
           /\ members' = members
        \/ /\ j.op \notin MessageWrites
           /\ members' = UpdateRoomMember(IF j.op = "mark" THEN j.members ELSE NoOne)
           /\ appendRoomOutboxEvents(<< sync >>)
           /\ messages' = messages
    BY <1>3 DEF SaveMessage
  <1>5. MessageSaved(j)
    BY <1>1, <1>3, <1>4, MessageIsSaved
  <1>6. DOMAIN members' = DOMAIN members
    BY <1>4 DEF UpdateRoomMember
  <1>7. messages' \in Seq(MessageRows) /\ DOMAIN messages' = DOMAIN messages
    BY <1>1, <1>2, <1>4
  <1> QED BY <1>1, <1>2, <1>4, <1>5, <1>6, <1>7

\* A deleted message comes back only by a command that had loaded it before its deletion.
LEMMA SaveMessageDeleted ==
  ASSUME RoomInv, NEW w \in Workers, SaveMessage(w), NEW j, j = job[w]
  PROVE  DeletedStaysDeleted'
  <1>1. /\ MessageSaved(j) /\ JobInv(j) /\ j.op \in MessageOps /\ j.id \in DOMAIN messages
        /\ messages' \in Seq(MessageRows) /\ DOMAIN messages' = DOMAIN messages
        /\ \/ j.op \in MessageWrites /\ messages' = [messages EXCEPT ![j.id] = j.msg]
           \/ j.op \notin MessageWrites /\ messages' = messages
    BY SaveMessageChanges
  <1>2. Grows /\ OutboxInv /\ j.pc = "commit"
    BY <1>1 DEF MessageSaved, RoomInv, SaveMessage, At
  <1> SUFFICES ASSUME NEW i \in Events("message")', outbox'[i].msg.deleted, outbox'[i].op = "delete"
               PROVE  messages'[outbox'[i].id].deleted \/ Undone(i)'
    BY DEF DeletedStaysDeleted, Undone
  <1>3. CASE i \in News
    <2>1. outbox'[i].id = j.id /\ outbox'[i].msg = j.msg /\ outbox'[i].op = j.op
      BY <1>1, <1>3 DEF MessageSaved, Events
    <2>2. messages'[j.id] = j.msg
      BY <1>1, <2>1 DEF MessageWrites
    <2> QED BY <2>1, <2>2
  <1>4. CASE i \notin News
    <2>1. i \in Events("message") /\ outbox'[i] = outbox[i] /\ i \in DOMAIN outbox /\ outbox[i].n <= Saves
      BY <1>2, <1>4, EventsGrow
    <2>2. outbox[i].id \in DOMAIN messages /\ outbox[i].n \in Nat /\ Saves \in Nat
      BY <1>2, <2>1 DEF OutboxInv
    <2>3. messages[outbox[i].id].deleted \/ Undone(i)
      BY <2>1 DEF RoomInv, TablesInv, DeletedStaysDeleted, Undone
    <2>4. CASE Undone(i)
      BY <1>2, <2>1, <2>4, EventsGrow
    <2>5. CASE messages'[outbox[i].id] = messages[outbox[i].id] /\ ~Undone(i)
      BY <2>1, <2>3, <2>5
    <2>6. CASE j.op \in MessageWrites /\ outbox[i].id = j.id
      <3>1. messages'[j.id] = j.msg
        BY <1>1, <2>6
      <3>2. j.base \in Nat
        BY <1>1 DEF JobInv, JobTypeOK
      <3>3. CASE outbox[i].n <= j.base
        <4>1. IsDeletion(i)
          BY <2>1 DEF IsDeletion
        <4>2. j.msg.deleted \/ Undone(i)
          BY <1>1, <1>2, <2>1, <2>6, <3>3, <4>1 DEF JobInv, DeletionOK
        <4> QED BY <2>1, <2>4, <2>6, <3>1, <4>2
      <3>4. CASE j.base < outbox[i].n
        <4>1. PICK k : k = Len(outbox) + 1
          OBVIOUS
        <4>2. PICK e : e = outbox'[k]
          OBVIOUS
        <4>3. k \in News /\ e.t = "message" /\ e.id = j.id /\ e.op = j.op /\ e.base = j.base
          BY <1>1, <4>1, <4>2 DEF MessageSaved
        <4>4. k \in Events("message")' /\ e.n = Saves + 1
          BY <1>2, <4>2, <4>3, EventsGrow DEF Grows
        <4>5. e.n > outbox'[i].n /\ e.base < outbox'[i].n /\ e.id = outbox'[i].id /\ e.op \in MessageWrites
          BY <2>1, <2>2, <2>6, <3>4, <4>3, <4>4
        <4> QED BY <4>2, <4>4, <4>5 DEF Undone
      <3> QED BY <2>2, <3>2, <3>3, <3>4
    <2>7. messages'[outbox[i].id] = messages[outbox[i].id] \/ (j.op \in MessageWrites /\ outbox[i].id = j.id)
      BY <1>1, <2>2
    <2> QED BY <2>4, <2>5, <2>6, <2>7
  <1> QED BY <1>3, <1>4

\* SaveMessage keeps the invariant.
LEMMA SaveMessageInv ==
  ASSUME RoomInv, NEW w \in Workers, SaveMessage(w)
  PROVE  RoomInv'
  <1>1. PICK j : j = job[w]
    OBVIOUS
  <1>2. /\ MessageSaved(j) /\ JobInv(j) /\ j.op \in MessageOps /\ j.id \in DOMAIN messages /\ ~At(w, "saving")
        /\ DOMAIN members' = DOMAIN members
        /\ messages' \in Seq(MessageRows) /\ DOMAIN messages' = DOMAIN messages
    BY <1>1, SaveMessageChanges
  <1>3. Grows /\ OutboxInv /\ Done(w) /\ UNCHANGED << clock, room, cache, leaked, blurred >>
    BY <1>2 DEF MessageSaved, RoomInv, SaveMessage
  <1>4. /\ DOMAIN job' = Workers /\ job'[w] = Idle
        /\ \A x \in Workers \ {w} : job'[x] = job[x]
    BY <1>3, WorkAlone DEF Done
  <1>5. Saving' = Saving /\ \A x \in Saving : job'[x] = job[x]
    BY <1>2, <1>4 DEF Saving, At, Idle
  <1>6. \A i \in News : outbox'[i].t \in {"message", "room"}
    BY <1>2 DEF MessageSaved
  <1>7. /\ Events("created")' = Events("created") /\ Events("renamed")' = Events("renamed")
        /\ \A i \in Events("created") \cup Events("renamed") : outbox'[i] = outbox[i]
    BY <1>3, <1>6, EventsGrow
  <1>8. Announced' = Announced
    BY <1>7 DEF Announced
  <1>9. Known' = Known
    <2>1. { x \in Saving : job[x].op \in Creations \cup {"rename"} }' = { x \in Saving : job[x].op \in Creations \cup {"rename"} }
      BY <1>5
    <2> QED BY <1>3, <1>5, <1>8, <2>1 DEF Known
  <1>10. room.kind # "none" /\ room' = room
    BY <1>2, <1>3 DEF JobInv, KindOK
  <1>11. \A x \in Workers : JobInv(job[x])'
    BY <1>2, <1>3, <1>9, <1>10, JobsAfterSave
  <1>12. OutboxInv'
    BY <1>2, <1>3, GrowthKeepsOutbox DEF MessageSaved
  <1>13. MembersAreAnnounced'
    <2>1. ASSUME NEW a \in Accounts
          PROVE  a \in DOMAIN members' <=> MemberEvents(a)' # {} /\ outbox'[Max(MemberEvents(a)')].t # "removed"
      <3>1. Heard(a) = {} /\ (a \in DOMAIN members' <=> a \in DOMAIN members)
        BY <1>2, <1>6 DEF Heard
      <3> QED BY <1>3, <3>1, MembershipGrows
    <2> QED BY <2>1 DEF MembersAreAnnounced
  <1>14. DirectIsForTwo'
    BY <1>2, <1>10 DEF RoomInv, TablesInv, DirectIsForTwo
  <1>15. RenameSticks'
    <2> SUFFICES ASSUME NEW i \in Events("renamed")', i = Max(Events("renamed")')
                 PROVE  Reverted(i)' \/ room'.name = outbox'[i].name
      BY DEF RenameSticks, Reverted
    <2>1. i \in Events("renamed") /\ i = Max(Events("renamed")) /\ outbox'[i] = outbox[i] /\ i \in DOMAIN outbox
      BY <1>7 DEF Events
    <2>2. Reverted(i) \/ room.name = outbox[i].name
      BY <2>1 DEF RoomInv, TablesInv, RenameSticks, Reverted
    <2> QED BY <1>3, <1>10, <2>1, <2>2, EventsGrow
  <1>16. TablesInv'
    BY <1>1, <1>3, <1>8, <1>10, <1>13, <1>14, <1>15, SaveMessageDeleted DEF RoomInv, TablesInv
  <1>17. SavingInv'
    BY <1>5, <1>10 DEF RoomInv, SavingInv
  <1>18. ClockInv'
    BY <1>3, ClockStays DEF Done, Waits, Idle
  <1>19. CacheInv'
    <2>1. (\A x \in Workers : ~At(x, "saving")) <=> Saving = {}
      BY DEF Saving
    <2>2. (\A x \in Workers : ~At(x, "saving"))' <=> Saving' = {}
      BY DEF Saving
    <2>3. CacheFollowsRow'
      BY <1>3, <1>5, <2>1, <2>2 DEF RoomInv, CacheInv, CacheFollowsRow
    <2> QED BY <1>3, <1>5, <1>9, <1>10, <2>3 DEF RoomInv, CacheInv
  <1>20. TypesInv'
    BY <1>2, <1>3, <1>4 DEF RoomInv, TypesInv
  <1> QED BY <1>11, <1>12, <1>16, <1>17, <1>18, <1>19, <1>20 DEF RoomInv

-----------------------------------------------------------------------------
(* The theorem about the room. *)

\* So does a step that changes nothing.
LEMMA RoomStutters ==
  ASSUME RoomInv, UNCHANGED roomVars
  PROVE  RoomInv'
  <1>1. UNCHANGED << clock, room, members, messages, outbox, cache, job, leaked, blurred >> /\ UNCHANGED tables
    BY DEF roomVars, tables
  <1>2. Saving' = Saving /\ Known' = Known
    BY <1>1 DEF Saving, Known, At, Announced, Events
  <1>3. \A x \in Workers : JobInv(job[x])'
    <2> TAKE x \in Workers
    <2>1. PICK y : y = job'[x]
      OBVIOUS
    <2>2. JobInv(y)
      BY <1>1, <2>1 DEF RoomInv
    <2>3. JobInv(y)'
      BY <1>1, <1>2, <2>2, StaysRight
    <2> QED BY <2>1, <2>3
  <1>4. SavingInv' /\ ClockInv' /\ TypesInv'
    BY <1>1, <1>2 DEF RoomInv, SavingInv, ClockInv, WaitingSet, IsIdle, TypesInv
  <1>5. TablesInv' /\ OutboxInv'
    BY <1>1, AsideTables
  <1>6. CacheInv'
    BY <1>1, <1>2 DEF RoomInv, CacheInv, CacheFollowsRow, At
  <1> QED BY <1>3, <1>4, <1>5, <1>6 DEF RoomInv

\* Every step keeps the invariant.
LEMMA RoomStepInv ==
  ASSUME RoomInv, [RoomNext]_roomVars
  PROVE  RoomInv'
  <1>1. CASE CacheExpires
    BY <1>1, CacheExpiresInv
  <1>2. ASSUME NEW w \in Workers, Commands(w) PROVE RoomInv'
    BY <1>2, CommandsInv
  <1>3. ASSUME NEW w \in Workers, LoadByDirectKey(w) \/ GetRoomByID(w) \/ WarmCache(w) PROVE RoomInv'
    BY <1>3, LookupInv, GetRoomInv, WarmCacheInv
  <1>4. ASSUME NEW w \in Workers, ListRoomMembers(w) \/ LoadMessage(w) PROVE RoomInv'
    BY <1>4, ListMembersInv, LoadMessageInv
  <1>5. ASSUME NEW w \in Workers, CreateRoom(w) \/ UpdateRoom(w) \/ SaveRoom(w) PROVE RoomInv'
    BY <1>5, CreateRoomInv, UpdateRoomInv, SaveRoomInv
  <1>6. ASSUME NEW w \in Workers, UpdateMessage(w) \/ SaveMessage(w) \/ Fail(w) PROVE RoomInv'
    BY <1>6, UpdateMessageInv, SaveMessageInv, FailInv
  <1>7. CASE UNCHANGED roomVars
    BY <1>7, RoomStutters
  <1> QED BY <1>1, <1>2, <1>3, <1>4, <1>5, <1>6, <1>7 DEF RoomNext

\* The invariant implies the property.
LEMMA RoomInvIsSound ==
  ASSUME RoomInv PROVE RoomIsSound
  <1>1. RoomTypeOK
    <2>1. clock \in 0 .. MaxCommands
      BY WaitingNumber, BoundAssumption
    <2>2. room.kind \in Kinds /\ cache.kind \in Kinds
      BY DEF RoomInv, TypesInv, RoomRows
    <2>3. \A w \in Workers : job[w].pc \in Steps
      BY DEF RoomInv, JobInv, JobTypeOK
    <2>4. DOMAIN members \subseteq Accounts /\ leaked \subseteq Names /\ blurred \in BOOLEAN
      BY DEF RoomInv, TypesInv
    <2> QED BY <2>1, <2>2, <2>3, <2>4 DEF RoomTypeOK, Kinds, Steps
  <1>2. NameIsAnnounced
    BY DEF RoomInv, TablesInv, NameIsAnnounced, Announced
  <1> QED BY <1>1, <1>2 DEF RoomInv, TablesInv, CacheInv, RoomIsSound

\* The write side of a room is sound for every set of accounts, workers and names: its
\* members and its name are what its events say, a rename and a deletion stay unless a
\* command worked on an older reading or a wrong copy, a direct conversation is for two,
\* and the copy GetRoomByID finds in Redis is the row but for the faults named.
THEOREM RoomStaysSound == RoomSpec => []RoomIsSound
  <1>1. RoomInit => RoomInv
    BY RoomInitInv
  <1>2. RoomInv /\ [RoomNext]_roomVars => RoomInv'
    BY RoomStepInv
  <1>3. RoomInv => RoomIsSound
    BY RoomInvIsSound
  <1> QED BY <1>1, <1>2, <1>3, PTL DEF RoomSpec

-----------------------------------------------------------------------------
(* The inductive invariant of the hub. *)

\* Connection c is registered, as far as its read pump knows.
Connected(c) ==
    \/ pc[c] \in {"announce", "read", "subscribe", "receive", "unregister"}
    \/ pc[c] \in {"unsubscribe", "close"} /\ ~ending[c]

\* The read pump works on a room and has a subscription in hand in the phases that
\* need them, and has rooms to leave only while it unregisters.
PumpInv(c) ==
    /\ target[c] # None <=> pc[c] \in {"subscribe", "receive", "unsubscribe", "close"}
    /\ held[c] # NoSub <=> pc[c] \in {"receive", "close"}
    /\ pc[c] \in {"new", "announce", "read", "subscribe", "receive"} => ~ending[c]
    /\ pc[c] \in {"unregister", "leave", "withdraw", "gone"} => ending[c]
    /\ leaving[c] # {} => ending[c] /\ pc[c] \in {"leave", "unsubscribe", "close"}

\* A subscription in hand: the one who made it waits for Redis, the one who closes
\* it has detached it and is alone.
HeldInv(c) ==
    held[c] # NoSub =>
        /\ sub[held[c]].of = target[c]
        /\ pc[c] = "receive" => /\ sub[held[c]].owner = c
                                /\ sub[held[c]].state \in {"pending", "closed"}
        /\ pc[c] = "close" => /\ sub[held[c]].state \in {"pending", "consuming", "ended"}
                              /\ \A r \in Rooms : subscriptions[r] # held[c]
                              /\ \A d \in Conns : pc[d] = "close" /\ held[d] = held[c] => d = c

\* A subscription that is alive is registered, or somebody is about to close it.
SubInv(s) ==
    /\ sub[s].state # "free" => sub[s].of \in Rooms /\ sub[s].owner \in Conns
    /\ sub[s].state \in {"pending", "consuming"} =>
          \/ subscriptions[sub[s].of] = s
          \/ \E c \in Conns : pc[c] = "close" /\ held[c] = s

RegisteredInv(r) ==
    subscriptions[r] # NoSub =>
        /\ sub[subscriptions[r]].of = r
        /\ sub[subscriptions[r]].state \in {"pending", "consuming"}

ClosedInv ==
    isClosed => clients = {} /\ \A r \in Rooms : rooms[r] = {} /\ subscriptions[r] = NoSub

\* A connection whose client id is its own is registered while it is connected, and
\* Unregister knows every room it is in.
MemberInv(c) ==
    Unshared(c) =>
        /\ c \in clients => Connected(c)
        /\ Connected(c) /\ ~isClosed => c \in clients
        /\ \A r \in Rooms : c \in rooms[r] =>
              r \in clientRooms[idOf[c]] /\ (c \in clients \/ r \in leaving[c])
        /\ pc[c] \in {"subscribe", "receive"} /\ ~isClosed => c \in rooms[target[c]]

\* Whoever emptied the room is on its way to unsubscribe it.
AudienceInv(r) ==
    subscriptions[r] # NoSub /\ rooms[r] = {} /\ Unshared(sub[subscriptions[r]].owner) =>
        \E c \in Conns : pc[c] = "unsubscribe" /\ target[c] = r

\* Whoever came to a silent room is on its way to subscribe it.
SilenceInv(r) ==
    rooms[r] # {} /\ subscriptions[r] = NoSub /\ silenced[r] = "no" =>
        \E c \in Conns : pc[c] = "subscribe" /\ target[c] = r

Inv ==
    /\ TypeOK
    /\ \A c \in Conns : PumpInv(c)
    /\ \A c \in Conns : HeldInv(c)
    /\ \A s \in Subs : SubInv(s)
    /\ \A r \in Rooms : RegisteredInv(r)
    /\ ClosedInv
    /\ \A c \in Conns : MemberInv(c)
    /\ \A r \in Rooms : AudienceInv(r)
    /\ \A r \in Rooms : SilenceInv(r)
    /\ OfflineIsAnnounced

-----------------------------------------------------------------------------
(* What a step leaves alone *)

\* No subscription changes hands.
KeepsSubs ==
    /\ UNCHANGED << subscriptions, sub, held >>
    /\ \A c \in Conns : held[c] # NoSub => pc'[c] = pc[c] /\ target'[c] = target[c]

LEMMA SubsKept ==
    ASSUME Inv, KeepsSubs, \A c \in Conns : PumpInv(c)'
    PROVE  /\ \A c \in Conns : HeldInv(c)'
           /\ \A s \in Subs : SubInv(s)'
           /\ \A r \in Rooms : RegisteredInv(r)'
  <1>1. ASSUME NEW c \in Conns PROVE HeldInv(c)'
    BY DEF KeepsSubs, Inv, HeldInv
  <1>2. ASSUME NEW s \in Subs PROVE SubInv(s)'
    <2>1. s # NoSub
      BY SubsAssumption
    <2>2. \A c \in Conns : pc[c] = "close" /\ held[c] = s => pc'[c] = "close" /\ held'[c] = s
      BY <2>1 DEF KeepsSubs
    <2> QED BY <2>2 DEF KeepsSubs, Inv, SubInv
  <1>3. \A r \in Rooms : RegisteredInv(r)'
    BY DEF KeepsSubs, Inv, RegisteredInv
  <1> QED BY <1>1, <1>2, <1>3

\* Nobody comes to a room or leaves it, and who has to see to its subscription still has.
KeepsRooms ==
    /\ UNCHANGED << idOf, rooms, subscriptions, sub, silenced >>
    /\ \A c \in Conns : pc[c] \in {"subscribe", "unsubscribe"} => pc'[c] = pc[c] /\ target'[c] = target[c]

LEMMA RoomsKept ==
    ASSUME Inv, KeepsRooms
    PROVE  (\A r \in Rooms : AudienceInv(r)') /\ \A r \in Rooms : SilenceInv(r)'
  <1>1. ASSUME NEW r \in Rooms PROVE AudienceInv(r)'
    <2>1. AudienceInv(r)
      BY DEF Inv
    <2>2. \A c : Unshared(c)' <=> Unshared(c)
      BY DEF KeepsRooms, Unshared
    <2>3. sub' = sub /\ subscriptions' = subscriptions /\ rooms' = rooms
      BY DEF KeepsRooms
    <2>4. Unshared(sub[subscriptions[r]].owner)' <=> Unshared(sub[subscriptions[r]].owner)
      BY <2>3 DEF KeepsRooms, Unshared
    <2> QED BY <2>1, <2>3, <2>4 DEF KeepsRooms, AudienceInv
  <1>2. ASSUME NEW r \in Rooms PROVE SilenceInv(r)'
    BY DEF KeepsRooms, Inv, SilenceInv
  <1> QED BY <1>1, <1>2

\* Connection d does something in its own name, which may be that of others.
OnlyOf(d) ==
    /\ UNCHANGED << idOf, isClosed >>
    /\ \A c \in Conns : idOf[c] # idOf[d] =>
          (c \in clients' <=> c \in clients) /\ \A r \in Rooms : c \in rooms'[r] <=> c \in rooms[r]
    /\ \A i \in ClientIDs : i # idOf[d] => clientRooms'[i] = clientRooms[i]
    /\ \A c \in Conns : c # d => /\ pc'[c] = pc[c] /\ ending'[c] = ending[c]
                                 /\ leaving'[c] = leaving[c] /\ target'[c] = target[c]

LEMMA OthersKept ==
    ASSUME Inv, NEW d \in Conns, OnlyOf(d)
    PROVE  /\ \A c \in Conns \ {d} : MemberInv(c)'
           /\ \A c : Unshared(c)' <=> Unshared(c)
  <1>1. \A c : Unshared(c)' <=> Unshared(c)
    BY DEF OnlyOf, Unshared
  <1>2. ASSUME NEW c \in Conns \ {d} PROVE MemberInv(c)'
    <2> SUFFICES ASSUME Unshared(c)
                 PROVE  /\ c \in clients' => Connected(c)'
                        /\ Connected(c)' /\ ~isClosed' => c \in clients'
                        /\ \A r \in Rooms : c \in rooms'[r] =>
                              r \in clientRooms'[idOf'[c]] /\ (c \in clients' \/ r \in leaving'[c])
                        /\ pc'[c] \in {"subscribe", "receive"} /\ ~isClosed' => c \in rooms'[target'[c]]
      BY <1>1 DEF MemberInv
    <2>1. idOf[c] # idOf[d] /\ idOf[c] \in ClientIDs /\ MemberInv(c)
      BY DEF Unshared, Inv, TypeOK
    <2>2. /\ c \in clients' <=> c \in clients
          /\ \A r \in Rooms : c \in rooms'[r] <=> c \in rooms[r]
          /\ clientRooms'[idOf[c]] = clientRooms[idOf[c]]
          /\ pc'[c] = pc[c] /\ ending'[c] = ending[c] /\ leaving'[c] = leaving[c] /\ target'[c] = target[c]
          /\ idOf' = idOf /\ isClosed' = isClosed
      BY <2>1 DEF OnlyOf
    <2>3. Connected(c)' <=> Connected(c)
      BY <2>2 DEF Connected
    <2>4. pc[c] \in {"subscribe", "receive"} => target[c] \in Rooms
      BY DEF Inv, PumpInv, TypeOK
    <2> QED BY <2>1, <2>2, <2>3, <2>4 DEF MemberInv
  <1> QED BY <1>1, <1>2

\* Nobody goes offline, and who comes online is there.
KeepsPresence ==
    /\ UNCHANGED << idOf, isClosed >>
    /\ \A c \in Conns : Unshared(c) /\ pc'[c] \in {"new", "gone"} => pc[c] \in {"new", "gone"}
    /\ \A u \in Users : online'[u] = "on" =>
          online[u] = "on" \/ \E c \in Conns : userOf[c] = u /\ pc'[c] \notin {"new", "gone"}

LEMMA PresenceKept ==
    ASSUME Inv, KeepsPresence
    PROVE  OfflineIsAnnounced'
  <1> SUFFICES ASSUME NEW u \in Users, ~isClosed', online'[u] = "on",
                      \A c \in Conns : userOf[c] = u => pc'[c] \in {"new", "gone"} /\ Unshared(c)'
               PROVE  FALSE
    BY DEF OfflineIsAnnounced
  <1>1. \A c \in Conns : userOf[c] = u => pc[c] \in {"new", "gone"} /\ Unshared(c)
    BY DEF KeepsPresence, Unshared
  <1>2. online[u] = "on" /\ ~isClosed
    BY DEF KeepsPresence
  <1> QED BY <1>1, <1>2 DEF Inv, OfflineIsAnnounced

\* Maps keyed by client id.
LEMMA MapFacts ==
    ASSUME NEW S, NEW c \in Conns, S \subseteq Conns, OnePerId(S)
    PROVE  /\ Put(S, c) \subseteq Conns /\ OnePerId(Put(S, c)) /\ c \in Put(S, c)
           /\ Without(S, c) \subseteq S /\ OnePerId(Without(S, c)) /\ c \notin Without(S, c)
           /\ ~Holds(S, c) => OnePerId(S \cup {c})
           /\ Unshared(c) => (Holds(S, c) <=> c \in S)
           /\ \A d \in Conns : idOf[d] # idOf[c] =>
                 (d \in Put(S, c) <=> d \in S) /\ (d \in Without(S, c) <=> d \in S)
  BY DEF OnePerId, Put, Without, Holds, Unshared

LEMMA ClosedKept ==
    ASSUME Inv, UNCHANGED << isClosed, clients, rooms, subscriptions >>
    PROVE  ClosedInv'
  BY DEF Inv, ClosedInv

-----------------------------------------------------------------------------
(* Presence and the pumps *)

\* Steps of the pumps that touch neither the hub nor a subscription.
PumpStep(c) ==
    /\ UNCHANGED << hub, sub, target, held, leaving, silenced >>
    /\ TypeOK'
    /\ \A d \in Conns \ {c} : pc'[d] = pc[d] /\ ending'[d] = ending[d]
    /\ pc[c] \in {"new", "announce", "read", "withdraw", "unregister"} \/ pc'[c] = pc[c]
    /\ pc'[c] \in {"announce", "read", "unregister", "gone"} \/ pc'[c] = pc[c]

LEMMA PumpStepInv ==
    ASSUME Inv, NEW c \in Conns, PumpStep(c), PumpInv(c)', MemberInv(c)', OfflineIsAnnounced'
    PROVE  Inv'
  <1>1. \A d \in Conns : PumpInv(d)'
    BY DEF PumpStep, Inv, PumpInv
  <1>2. KeepsSubs
    BY DEF PumpStep, KeepsSubs, Inv, PumpInv, hub
  <1>3. KeepsRooms
    BY DEF PumpStep, KeepsRooms, hub
  <1>4. OnlyOf(c)
    BY DEF PumpStep, OnlyOf, hub
  <1>5. ClosedInv'
    BY ClosedKept DEF PumpStep, hub
  <1>6. \A d \in Conns : MemberInv(d)'
    BY <1>4, OthersKept
  <1>7. TypeOK' /\ OfflineIsAnnounced'
    BY DEF PumpStep
  <1> QED BY <1>1, <1>2, <1>3, <1>5, <1>6, <1>7, SubsKept, RoomsKept DEF Inv

LEMMA AnnounceOnlineInv ==
    ASSUME Inv, NEW c \in Conns, AnnounceOnline(c)
    PROVE  Inv'
  <1>1. /\ pc'[c] = "read" /\ pc[c] = "announce"
        /\ \A d \in Conns \ {c} : pc'[d] = pc[d]
        /\ UNCHANGED << hub, sub, target, held, ending, leaving, open, silenced >>
    BY DEF AnnounceOnline, Goto, Inv, TypeOK
  <1>2. TypeOK'
    BY UserAssumption DEF AnnounceOnline, Goto, Inv, TypeOK, hub, Phases, OnePerId
  <1>3. PumpStep(c)
    BY <1>1, <1>2 DEF PumpStep
  <1>4. PumpInv(c)'
    BY <1>1 DEF Inv, PumpInv
  <1>5. MemberInv(c)'
    BY <1>1 DEF Inv, MemberInv, hub, Connected, Unshared
  <1>6. KeepsPresence
    BY <1>1, UserAssumption DEF KeepsPresence, AnnounceOnline, hub, Inv, TypeOK
  <1> QED BY <1>3, <1>4, <1>5, <1>6, PumpStepInv, PresenceKept

LEMMA RefreshInv ==
    ASSUME Inv, NEW c \in Conns, RefreshPresence(c)
    PROVE  Inv'
  <1>1. /\ pc' = pc /\ pc[c] = "read"
        /\ UNCHANGED << hub, sub, target, held, ending, leaving, silenced >>
    BY DEF RefreshPresence, pump
  <1>2. TypeOK'
    BY UserAssumption DEF RefreshPresence, Inv, TypeOK, hub, pump, OnePerId
  <1>3. PumpStep(c)
    BY <1>1, <1>2 DEF PumpStep
  <1>4. PumpInv(c)' /\ MemberInv(c)'
    BY <1>1 DEF Inv, PumpInv, MemberInv, hub, Connected, Unshared
  <1>5. KeepsPresence
    BY <1>1, UserAssumption DEF KeepsPresence, RefreshPresence, hub, Inv, TypeOK
  <1> QED BY <1>3, <1>4, <1>5, PumpStepInv, PresenceKept

\* The key of a user that no connection announces, or a pump that stops.
LEMMA QuietInv ==
    ASSUME Inv, TypeOK', UNCHANGED << hub, sub, pc, target, held, ending, leaving, silenced >>,
           \A u \in Users : online'[u] = "on" => online[u] = "on"
    PROVE  Inv'
  <1>1. \A c \in Conns : PumpInv(c)' /\ MemberInv(c)'
    BY DEF Inv, PumpInv, MemberInv, hub, Connected, Unshared
  <1>2. KeepsSubs /\ KeepsRooms /\ KeepsPresence
    BY DEF KeepsSubs, KeepsRooms, KeepsPresence, hub
  <1>3. ClosedInv'
    BY ClosedKept DEF hub
  <1> QED BY <1>1, <1>2, <1>3, SubsKept, RoomsKept, PresenceKept DEF Inv

LEMMA PresenceExpiresInv ==
    ASSUME Inv, NEW u \in Users, PresenceExpires(u)
    PROVE  Inv'
  <1>1. TypeOK'
    BY DEF PresenceExpires, Inv, TypeOK, hub, pump, OnePerId
  <1>2. \A v \in Users : online'[v] = "on" => online[v] = "on"
    BY DEF PresenceExpires, Inv, TypeOK
  <1> QED BY <1>1, <1>2, QuietInv DEF PresenceExpires, pump

LEMMA SendOverflowsInv ==
    ASSUME Inv, NEW c \in Conns, SendOverflows(c)
    PROVE  Inv'
  <1>1. TypeOK'
    BY DEF SendOverflows, Inv, TypeOK, hub, OnePerId
  <1> QED BY <1>1, QuietInv DEF SendOverflows

LEMMA WritePumpEndsInv ==
    ASSUME Inv, NEW c \in Conns, WritePumpEnds(c)
    PROVE  Inv'
  <1>1. TypeOK'
    BY DEF WritePumpEnds, Inv, TypeOK, hub, OnePerId
  <1> QED BY <1>1, QuietInv DEF WritePumpEnds

LEMMA ReadPumpEndsInv ==
    ASSUME Inv, NEW c \in Conns, ReadPumpEnds(c)
    PROVE  Inv'
  <1>1. /\ pc'[c] = "unregister" /\ pc[c] = "read" /\ ending'[c] = TRUE
        /\ \A d \in Conns \ {c} : pc'[d] = pc[d] /\ ending'[d] = ending[d]
        /\ UNCHANGED << hub, sub, target, held, leaving, online, silenced >>
    BY DEF ReadPumpEnds, Goto, Inv, TypeOK
  <1>2. TypeOK'
    BY DEF ReadPumpEnds, Goto, Inv, TypeOK, hub, Phases, OnePerId
  <1>3. PumpStep(c)
    BY <1>1, <1>2 DEF PumpStep
  <1>4. PumpInv(c)'
    BY <1>1 DEF Inv, PumpInv
  <1>5. MemberInv(c)'
    BY <1>1 DEF Inv, MemberInv, hub, Connected, Unshared
  <1>6. KeepsPresence
    BY <1>1 DEF KeepsPresence, hub
  <1> QED BY <1>3, <1>4, <1>5, <1>6, PumpStepInv, PresenceKept

\* The key is deleted, or known to be stale, before the connection is gone.
LEMMA AnnounceOfflineInv ==
    ASSUME Inv, NEW c \in Conns, AnnounceOffline(c)
    PROVE  Inv'
  <1>1. /\ pc'[c] = "gone" /\ pc[c] = "withdraw"
        /\ \A d \in Conns \ {c} : pc'[d] = pc[d]
        /\ UNCHANGED << hub, sub, target, held, ending, leaving, writer, silenced >>
    BY DEF AnnounceOffline, Goto, Inv, TypeOK
  <1>2. userOf[c] \in Users /\ online \in [Users -> {"off", "on", "stale"}]
    BY UserAssumption DEF Inv, TypeOK
  <1>3. online' \in [Users -> {"off", "on", "stale"}] /\ online'[userOf[c]] # "on"
        /\ \A u \in Users \ {userOf[c]} : online'[u] = online[u]
    BY <1>2 DEF AnnounceOffline
  <1>4. TypeOK'
    BY <1>3 DEF AnnounceOffline, Goto, Inv, TypeOK, hub, Phases, OnePerId
  <1>5. PumpStep(c)
    BY <1>1, <1>4 DEF PumpStep
  <1>6. PumpInv(c)'
    BY <1>1 DEF Inv, PumpInv
  <1>7. MemberInv(c)'
    BY <1>1 DEF Inv, MemberInv, hub, Connected, Unshared
  <1>8. OfflineIsAnnounced'
    <2> SUFFICES ASSUME NEW u \in Users, ~isClosed', online'[u] = "on",
                        \A d \in Conns : userOf[d] = u => pc'[d] \in {"new", "gone"} /\ Unshared(d)'
                 PROVE  FALSE
      BY DEF OfflineIsAnnounced
    <2>1. u # userOf[c] /\ online[u] = "on" /\ ~isClosed
      BY <1>1, <1>3 DEF hub
    <2>2. \A d \in Conns : userOf[d] = u => pc[d] \in {"new", "gone"} /\ Unshared(d)
      BY <1>1, <2>1 DEF Unshared, hub
    <2> QED BY <2>1, <2>2 DEF Inv, OfflineIsAnnounced
  <1> QED BY <1>5, <1>6, <1>7, <1>8, PumpStepInv

-----------------------------------------------------------------------------
(* Registering and unregistering *)

\* Steps that change who is registered, or what Unregister knows.
LEMMA RegistryStepInv ==
    ASSUME Inv, NEW c \in Conns, TypeOK',
           UNCHANGED << rooms, subscriptions, sub, target, held, ending, silenced >>, OnlyOf(c),
           pc[c] \in {"new", "unregister", "leave"}, pc'[c] \notin {"subscribe", "unsubscribe"},
           PumpInv(c)', MemberInv(c)', ClosedInv', OfflineIsAnnounced'
    PROVE  Inv'
  <1>1. \A d \in Conns : PumpInv(d)'
    BY DEF OnlyOf, Inv, PumpInv
  <1>2. KeepsSubs
    BY DEF OnlyOf, KeepsSubs, Inv, PumpInv
  <1>3. KeepsRooms
    BY DEF OnlyOf, KeepsRooms
  <1>4. \A d \in Conns : MemberInv(d)'
    BY OthersKept
  <1> QED BY <1>1, <1>2, <1>3, <1>4, SubsKept, RoomsKept DEF Inv

LEMMA RegisterInv ==
    ASSUME Inv, NEW c \in Conns, Register(c)
    PROVE  Inv'
  <1>1. /\ pc[c] = "new" /\ ~ending[c] /\ leaving[c] = {}
        /\ UNCHANGED << idOf, isClosed, rooms, clientRooms, subscriptions, sub, target, held, ending,
                        leaving, online, silenced >>
    BY DEF Register, Inv, PumpInv
  <1>2. /\ clients \subseteq Conns /\ OnePerId(clients) /\ pc \in [Conns -> Phases]
    BY DEF Inv, TypeOK
  <1>3. \/ isClosed /\ pc'[c] = "read" /\ clients' = clients
        \/ ~isClosed /\ pc'[c] = "announce" /\ clients' = Put(clients, c)
    BY <1>2 DEF Register, Goto
  <1>4. \A d \in Conns \ {c} : pc'[d] = pc[d]
    BY <1>2 DEF Register, Goto
  <1>5. /\ clients' \subseteq Conns /\ OnePerId(clients')
        /\ ~isClosed => c \in clients'
        /\ \A d \in Conns : idOf[d] # idOf[c] => (d \in clients' <=> d \in clients)
    <2>1. /\ Put(clients, c) \subseteq Conns /\ OnePerId(Put(clients, c)) /\ c \in Put(clients, c)
          /\ \A d \in Conns : idOf[d] # idOf[c] => (d \in Put(clients, c) <=> d \in clients)
      BY <1>2, MapFacts
    <2> QED BY <1>2, <1>3, <2>1
  <1>6. TypeOK'
    <2>1. /\ pc' \in [Conns -> Phases] /\ writer' \in [Conns -> BOOLEAN] /\ open' \in [Conns -> BOOLEAN]
      BY DEF Register, Goto, Inv, TypeOK, Phases
    <2>2. OnePerId(clients)' /\ \A r \in Rooms : OnePerId(rooms[r])'
      BY <1>1, <1>5 DEF OnePerId, Inv, TypeOK
    <2> QED BY <1>1, <1>5, <2>1, <2>2 DEF Inv, TypeOK
  <1>7. OnlyOf(c)
    BY <1>1, <1>4, <1>5 DEF OnlyOf
  <1>8. PumpInv(c)'
    BY <1>1, <1>3 DEF Inv, PumpInv
  <1>9. MemberInv(c)'
    <2>1. MemberInv(c) /\ ~Connected(c) /\ (Unshared(c)' <=> Unshared(c)) /\ Connected(c)'
      BY <1>1, <1>3 DEF Inv, Unshared, Connected
    <2>2. ~isClosed' => c \in clients'
      BY <1>1, <1>5
    <2>3. isClosed => clients = {}
      BY DEF Inv, ClosedInv
    <2>4. pc'[c] \notin {"subscribe", "receive"}
      BY <1>3
    <2> QED BY <1>1, <2>1, <2>2, <2>3, <2>4 DEF MemberInv
  <1>10. ClosedInv'
    BY <1>1, <1>3 DEF Inv, ClosedInv
  <1>11. KeepsPresence
    BY <1>1, <1>3, <1>4 DEF KeepsPresence
  <1>12. OfflineIsAnnounced'
    BY <1>11, PresenceKept
  <1>13. pc'[c] \notin {"subscribe", "unsubscribe"}
    BY <1>3
  <1> QED BY <1>1, <1>6, <1>7, <1>8, <1>9, <1>10, <1>12, <1>13, RegistryStepInv

\* A connection with an id of its own is registered unless the hub was closed, so it
\* leaves its rooms and withdraws its presence.
LEMMA UnregisterInv ==
    ASSUME Inv, NEW c \in Conns, Unregister(c)
    PROVE  Inv'
  <1>1. /\ pc[c] = "unregister" /\ ending[c] /\ leaving[c] = {} /\ target[c] = None /\ held[c] = NoSub
        /\ UNCHANGED << idOf, isClosed, rooms, clientRooms, subscriptions, sub, target, held, ending,
                        writer, online, silenced >>
    BY DEF Unregister, Inv, PumpInv
  <1>2. /\ clients \subseteq Conns /\ OnePerId(clients) /\ pc \in [Conns -> Phases] /\ idOf[c] \in ClientIDs
        /\ clientRooms[idOf[c]] \subseteq Rooms /\ leaving \in [Conns -> SUBSET Rooms]
    BY DEF Inv, TypeOK
  <1>3. \/ /\ Holds(clients, c) /\ pc'[c] = "leave" /\ clients' = Without(clients, c)
           /\ leaving'[c] = clientRooms[idOf[c]]
        \/ ~Holds(clients, c) /\ pc'[c] = "gone" /\ clients' = clients /\ leaving'[c] = leaving[c]
    BY <1>2 DEF Unregister, Goto
  <1>4. \A d \in Conns \ {c} : pc'[d] = pc[d] /\ leaving'[d] = leaving[d]
    BY <1>2 DEF Unregister, Goto
  <1>5. /\ clients' \subseteq Conns /\ OnePerId(clients')
        /\ \A d \in Conns : idOf[d] # idOf[c] => (d \in clients' <=> d \in clients)
    <2>1. /\ Without(clients, c) \subseteq clients /\ OnePerId(Without(clients, c))
          /\ \A d \in Conns : idOf[d] # idOf[c] => (d \in Without(clients, c) <=> d \in clients)
      BY <1>2, MapFacts
    <2> QED BY <1>2, <1>3, <2>1
  <1>6. TypeOK'
    <2>1. pc' \in [Conns -> Phases] /\ open' \in [Conns -> BOOLEAN] /\ leaving' \in [Conns -> SUBSET Rooms]
      BY <1>2 DEF Unregister, Goto, Inv, TypeOK, Phases
    <2>2. OnePerId(clients)' /\ \A r \in Rooms : OnePerId(rooms[r])'
      BY <1>1, <1>5 DEF OnePerId, Inv, TypeOK
    <2> QED BY <1>1, <1>5, <2>1, <2>2 DEF Inv, TypeOK
  <1>7. OnlyOf(c)
    BY <1>1, <1>4, <1>5 DEF OnlyOf
  <1>8. PumpInv(c)'
    BY <1>1, <1>3 DEF PumpInv
  <1>9. Unshared(c) => (Holds(clients, c) <=> c \in clients)
    BY <1>2, MapFacts
  <1>10. MemberInv(c)'
    <2>1. MemberInv(c) /\ (Unshared(c)' <=> Unshared(c)) /\ ~Connected(c)'
      BY <1>1, <1>3 DEF Inv, Unshared, Connected
    <2>2. Unshared(c) => c \notin clients'
      BY <1>2, <1>3, <1>9, MapFacts
    <2> QED BY <1>1, <1>3, <1>9, <2>1, <2>2 DEF MemberInv
  <1>11. ClosedInv'
    BY <1>1, <1>3 DEF Inv, ClosedInv, Without
  <1>12. OfflineIsAnnounced'
    <2>1. CASE isClosed
      BY <1>1, <2>1 DEF OfflineIsAnnounced
    <2>2. CASE ~isClosed
      <3>1. Unshared(c) => c \in clients
        BY <1>1, <2>2 DEF Inv, MemberInv, Connected
      <3>2. Unshared(c) => pc'[c] = "leave"
        BY <1>3, <1>9, <3>1
      <3>3. KeepsPresence
        BY <1>1, <1>4, <3>2 DEF KeepsPresence
      <3> QED BY <3>3, PresenceKept
    <2> QED BY <2>1, <2>2
  <1>13. pc'[c] \notin {"subscribe", "unsubscribe"}
    BY <1>3
  <1> QED BY <1>1, <1>6, <1>7, <1>8, <1>10, <1>11, <1>12, <1>13, RegistryStepInv

LEMMA ForgetInv ==
    ASSUME Inv, NEW c \in Conns, Forget(c)
    PROVE  Inv'
  <1>1. /\ pc[c] = "leave" /\ ending[c] /\ leaving[c] = {} /\ target[c] = None /\ held[c] = NoSub
        /\ UNCHANGED << idOf, isClosed, clients, rooms, subscriptions, sub, target, held, ending, leaving,
                        writer, open, online, silenced >>
    BY DEF Forget, Inv, PumpInv
  <1>2. pc \in [Conns -> Phases] /\ idOf[c] \in ClientIDs /\ clientRooms \in [ClientIDs -> SUBSET Rooms]
    BY DEF Inv, TypeOK
  <1>3. /\ pc'[c] = "withdraw" /\ \A d \in Conns \ {c} : pc'[d] = pc[d]
        /\ \A i \in ClientIDs \ {idOf[c]} : clientRooms'[i] = clientRooms[i]
    BY <1>2 DEF Forget, Goto
  <1>4. TypeOK'
    <2>1. pc' \in [Conns -> Phases] /\ clientRooms' \in [ClientIDs -> SUBSET Rooms]
      BY <1>2 DEF Forget, Goto, Phases
    <2>2. OnePerId(clients)' /\ \A r \in Rooms : OnePerId(rooms[r])'
      BY <1>1 DEF OnePerId, Inv, TypeOK
    <2> QED BY <1>1, <2>1, <2>2 DEF Inv, TypeOK
  <1>5. OnlyOf(c)
    BY <1>1, <1>3 DEF OnlyOf
  <1>6. PumpInv(c)'
    BY <1>1, <1>3 DEF PumpInv
  <1>7. MemberInv(c)'
    <2>1. MemberInv(c) /\ (Unshared(c)' <=> Unshared(c)) /\ ~Connected(c) /\ ~Connected(c)'
      BY <1>1, <1>3 DEF Inv, Unshared, Connected
    <2>2. Unshared(c) => c \notin clients /\ \A r \in Rooms : c \notin rooms[r]
      BY <1>1, <2>1 DEF MemberInv
    <2>3. pc'[c] \notin {"subscribe", "receive"}
      BY <1>3
    <2> QED BY <1>1, <2>1, <2>2, <2>3 DEF MemberInv
  <1>8. ClosedInv'
    BY <1>1, ClosedKept
  <1>9. KeepsPresence
    BY <1>1, <1>3 DEF KeepsPresence
  <1>10. OfflineIsAnnounced' /\ pc'[c] \notin {"subscribe", "unsubscribe"}
    BY <1>3, <1>9, PresenceKept
  <1> QED BY <1>1, <1>4, <1>5, <1>6, <1>7, <1>8, <1>10, RegistryStepInv

-----------------------------------------------------------------------------
(* Joining and leaving *)

LEMMA JoinInv ==
    ASSUME Inv, NEW c \in Conns, NEW r \in Rooms, JoinRoom(c, r)
    PROVE  Inv'
  <1>1. /\ pc[c] = "read" /\ ~isClosed /\ ~ending[c] /\ leaving[c] = {} /\ held[c] = NoSub
        /\ UNCHANGED << idOf, isClosed, subscriptions, sub, held, ending, leaving, writer, open,
                        online, silenced >>
    BY DEF JoinRoom, Inv, PumpInv
  <1>2. /\ clients \subseteq Conns /\ OnePerId(clients) /\ pc \in [Conns -> Phases] /\ idOf[c] \in ClientIDs
        /\ clientRooms \in [ClientIDs -> SUBSET Rooms] /\ target \in [Conns -> Rooms \cup {None}]
        /\ rooms \in [Rooms -> SUBSET Conns] /\ \A x \in Rooms : rooms[x] \subseteq Conns /\ OnePerId(rooms[x])
    BY DEF Inv, TypeOK
  <1>3. /\ pc'[c] = "subscribe" /\ target'[c] = r
        /\ \A d \in Conns \ {c} : pc'[d] = pc[d] /\ target'[d] = target[d]
        /\ rooms'[r] = Put(rooms[r], c) /\ \A x \in Rooms \ {r} : rooms'[x] = rooms[x]
        /\ clientRooms'[idOf[c]] = clientRooms[idOf[c]] \cup {r}
        /\ \A i \in ClientIDs \ {idOf[c]} : clientRooms'[i] = clientRooms[i]
        /\ clients' = IF Holds(clients, c) THEN clients ELSE clients \cup {c}
    BY <1>2 DEF JoinRoom, Goto
  <1>4. /\ Put(rooms[r], c) \subseteq Conns /\ OnePerId(Put(rooms[r], c)) /\ c \in Put(rooms[r], c)
        /\ \A d \in Conns : idOf[d] # idOf[c] => (d \in Put(rooms[r], c) <=> d \in rooms[r])
    BY <1>2, MapFacts
  <1>5. /\ ~Holds(clients, c) => OnePerId(clients \cup {c})
        /\ Unshared(c) => (Holds(clients, c) <=> c \in clients)
    BY <1>2, MapFacts
  <1>6. TypeOK'
    <2>1. /\ pc' \in [Conns -> Phases] /\ target' \in [Conns -> Rooms \cup {None}]
          /\ clientRooms' \in [ClientIDs -> SUBSET Rooms]
      BY <1>2 DEF JoinRoom, Goto, Phases
    <2>2. rooms' \in [Rooms -> SUBSET Conns]
      BY <1>2, <1>4 DEF JoinRoom
    <2>3. clients' \subseteq Conns /\ OnePerId(clients') /\ \A x \in Rooms : OnePerId(rooms'[x])
      BY <1>2, <1>3, <1>4, <1>5
    <2>4. OnePerId(clients)' /\ \A x \in Rooms : OnePerId(rooms[x])'
      BY <1>1, <2>3 DEF OnePerId
    <2> QED BY <1>1, <2>1, <2>2, <2>3, <2>4 DEF Inv, TypeOK
  <1>7. OnlyOf(c)
    BY <1>1, <1>3, <1>4 DEF OnlyOf
  <1>8. \A d \in Conns : PumpInv(d)'
    <2>1. PumpInv(c)'
      BY <1>1, <1>3, NoneAssumption DEF PumpInv
    <2> QED BY <1>1, <1>3, <2>1 DEF Inv, PumpInv
  <1>9. KeepsSubs
    BY <1>1, <1>3 DEF KeepsSubs
  <1>10. \A d \in Conns : MemberInv(d)'
    <2>1. MemberInv(c) /\ (Unshared(c)' <=> Unshared(c)) /\ Connected(c)'
      BY <1>1, <1>3 DEF Inv, Unshared, Connected
    <2>2. Unshared(c) => c \in clients'
      BY <1>3, <1>5
    <2>3. Unshared(c) => \A x \in Rooms : c \in rooms'[x] => x \in clientRooms'[idOf[c]]
      BY <1>3, <2>1 DEF MemberInv
    <2>4. c \in rooms'[target'[c]]
      BY <1>3, <1>4
    <2>5. MemberInv(c)'
      BY <1>1, <2>1, <2>2, <2>3, <2>4 DEF MemberInv
    <2> QED BY <1>7, <2>5, OthersKept
  <1>11. ASSUME NEW x \in Rooms PROVE AudienceInv(x)'
    <2>1. CASE x = r
      BY <1>3, <1>4, <2>1 DEF AudienceInv
    <2>2. CASE x # r
      <3>1. AudienceInv(x) /\ rooms'[x] = rooms[x]
        BY <1>3, <2>2 DEF Inv
      <3>2. Unshared(sub[subscriptions[x]].owner)' <=> Unshared(sub[subscriptions[x]].owner)
        BY <1>1 DEF Unshared
      <3> QED BY <1>1, <1>3, <3>1, <3>2 DEF AudienceInv
    <2> QED BY <2>1, <2>2
  <1>12. ASSUME NEW x \in Rooms PROVE SilenceInv(x)'
    <2>1. CASE x = r
      BY <1>3, <2>1 DEF SilenceInv
    <2>2. CASE x # r
      <3>1. SilenceInv(x) /\ rooms'[x] = rooms[x]
        BY <1>3, <2>2 DEF Inv
      <3> QED BY <1>1, <1>3, <3>1 DEF SilenceInv
    <2> QED BY <2>1, <2>2
  <1>13. ClosedInv'
    BY <1>1 DEF ClosedInv
  <1>14. KeepsPresence
    BY <1>1, <1>3 DEF KeepsPresence
  <1> QED BY <1>6, <1>8, <1>9, <1>10, <1>11, <1>12, <1>13, <1>14, SubsKept, PresenceKept DEF Inv

\* Who leaves a room empty goes on to unsubscribe it.
LEMMA LeaveInv ==
    ASSUME Inv, NEW c \in Conns, NEW r \in Rooms, LeaveRoom(c, r)
    PROVE  Inv'
  <1>1. /\ (pc[c] = "read" /\ ~ending[c] /\ leaving[c] = {}) \/ (pc[c] = "leave" /\ ending[c])
        /\ held[c] = NoSub /\ target[c] = None
        /\ UNCHANGED << idOf, isClosed, clients, subscriptions, sub, held, ending, writer, open,
                        online, silenced >>
    BY DEF LeaveRoom, Inv, PumpInv
  <1>2. /\ pc \in [Conns -> Phases] /\ idOf[c] \in ClientIDs
        /\ clientRooms \in [ClientIDs -> SUBSET Rooms] /\ target \in [Conns -> Rooms \cup {None}]
        /\ leaving \in [Conns -> SUBSET Rooms]
        /\ rooms \in [Rooms -> SUBSET Conns] /\ \A x \in Rooms : rooms[x] \subseteq Conns /\ OnePerId(rooms[x])
    BY DEF Inv, TypeOK
  <1>3. /\ rooms'[r] = Without(rooms[r], c) /\ \A x \in Rooms \ {r} : rooms'[x] = rooms[x]
        /\ clientRooms'[idOf[c]] = clientRooms[idOf[c]] \ {r}
        /\ \A i \in ClientIDs \ {idOf[c]} : clientRooms'[i] = clientRooms[i]
        /\ leaving'[c] = leaving[c] \ {r} /\ \A d \in Conns \ {c} : leaving'[d] = leaving[d]
    BY <1>2 DEF LeaveRoom
  <1>4. \/ rooms[r] # {} /\ Without(rooms[r], c) = {} /\ pc'[c] = "unsubscribe" /\ target'[c] = r
        \/ ~(rooms[r] # {} /\ Without(rooms[r], c) = {}) /\ pc'[c] = pc[c] /\ target'[c] = target[c]
    BY <1>2 DEF LeaveRoom, Goto
  <1>5. \A d \in Conns \ {c} : pc'[d] = pc[d] /\ target'[d] = target[d]
    BY <1>2 DEF LeaveRoom, Goto
  <1>6. /\ Without(rooms[r], c) \subseteq rooms[r] /\ OnePerId(Without(rooms[r], c))
        /\ c \notin Without(rooms[r], c)
        /\ \A d \in Conns : idOf[d] # idOf[c] => (d \in Without(rooms[r], c) <=> d \in rooms[r])
    BY <1>2, MapFacts
  <1>7. TypeOK'
    <2>1. /\ pc' \in [Conns -> Phases] /\ target' \in [Conns -> Rooms \cup {None}]
      BY <1>2 DEF LeaveRoom, Goto, Phases
    <2>2. clientRooms' \in [ClientIDs -> SUBSET Rooms] /\ leaving' \in [Conns -> SUBSET Rooms]
      BY <1>2 DEF LeaveRoom
    <2>3. rooms' \in [Rooms -> SUBSET Conns]
      BY <1>2, <1>6 DEF LeaveRoom
    <2>4. \A x \in Rooms : OnePerId(rooms'[x])
      BY <1>2, <1>3, <1>6
    <2>5. OnePerId(clients)' /\ \A x \in Rooms : OnePerId(rooms[x])'
      BY <1>1, <2>4 DEF OnePerId, Inv, TypeOK
    <2> QED BY <1>1, <2>1, <2>2, <2>3, <2>5 DEF Inv, TypeOK
  <1>8. OnlyOf(c)
    BY <1>1, <1>3, <1>5, <1>6 DEF OnlyOf
  <1>9. \A d \in Conns : PumpInv(d)'
    <2>1. PumpInv(c)'
      BY <1>1, <1>3, <1>4, NoneAssumption DEF PumpInv
    <2> QED BY <1>1, <1>3, <1>5, <2>1 DEF Inv, PumpInv
  <1>10. KeepsSubs
    BY <1>1, <1>5 DEF KeepsSubs
  <1>11. \A d \in Conns : MemberInv(d)'
    <2>1. MemberInv(c) /\ (Unshared(c)' <=> Unshared(c)) /\ (Connected(c)' <=> Connected(c))
      BY <1>1, <1>4 DEF Inv, Unshared, Connected
    <2>2. pc'[c] \notin {"subscribe", "receive"}
      BY <1>1, <1>4
    <2>3. ASSUME Unshared(c), NEW x \in Rooms, c \in rooms'[x]
          PROVE  x \in clientRooms'[idOf[c]] /\ (c \in clients \/ x \in leaving'[c])
      <3>1. x # r /\ c \in rooms[x]
        BY <1>3, <1>6, <2>3
      <3> QED BY <1>3, <2>1, <2>3, <3>1 DEF MemberInv
    <2>4. MemberInv(c)'
      BY <1>1, <2>1, <2>2, <2>3 DEF MemberInv
    <2> QED BY <1>8, <2>4, OthersKept
  <1>12. \A d \in Conns : pc[d] \in {"subscribe", "unsubscribe"} => pc'[d] = pc[d] /\ target'[d] = target[d]
    BY <1>1, <1>5
  <1>13. ASSUME NEW x \in Rooms PROVE AudienceInv(x)'
    <2>1. AudienceInv(x)
      BY DEF Inv
    <2>2. Unshared(sub[subscriptions[x]].owner)' <=> Unshared(sub[subscriptions[x]].owner)
      BY <1>1 DEF Unshared
    <2>3. \/ rooms'[x] = {} => rooms[x] = {}
          \/ pc'[c] = "unsubscribe" /\ target'[c] = x
      BY <1>3, <1>4
    <2> QED BY <1>1, <1>12, <2>1, <2>2, <2>3 DEF AudienceInv
  <1>14. ASSUME NEW x \in Rooms PROVE SilenceInv(x)'
    <2>1. SilenceInv(x) /\ (rooms'[x] # {} => rooms[x] # {})
      BY <1>3, <1>6 DEF Inv
    <2> QED BY <1>1, <1>12, <2>1 DEF SilenceInv
  <1>15. ClosedInv'
    BY <1>1, <1>3, <1>6 DEF Inv, ClosedInv
  <1>16. KeepsPresence
    BY <1>1, <1>4, <1>5 DEF KeepsPresence
  <1> QED BY <1>7, <1>9, <1>10, <1>11, <1>13, <1>14, <1>15, <1>16, SubsKept, PresenceKept DEF Inv

-----------------------------------------------------------------------------
(* Subscribing and unsubscribing *)

SubType == [of : Rooms \cup {None}, owner : Conns \cup {None}, state : SubStates]

LEMMA DropFacts ==
    ASSUME sub \in [Subs -> SubType], NEW s \in Subs, NEW c, Drop(s, c)
    PROVE  /\ sub' \in [Subs -> SubType]
           /\ \A t \in Subs \ {s} : sub'[t] = sub[t]
           /\ \/ /\ \E d \in Conns \ {c} : held[d] = s
                 /\ sub'[s].state = "ended" /\ sub'[s].of = sub[s].of /\ sub'[s].owner = sub[s].owner
              \/ (\A d \in Conns \ {c} : held[d] # s) /\ sub'[s] = Free
  <1>1. Free \in SubType
    BY DEF Free, SubType, SubStates
  <1>2. sub[s] \in SubType
    OBVIOUS
  <1>3. [sub[s] EXCEPT !.state = "ended"] \in SubType
    BY <1>2 DEF SubType, SubStates
  <1>4. CASE \E d \in Conns \ {c} : held[d] = s
    <2>1. sub' = [sub EXCEPT ![s] = [sub[s] EXCEPT !.state = "ended"]]
      BY <1>4 DEF Drop
    <2> QED BY <1>2, <1>3, <1>4, <2>1 DEF SubType
  <1>5. CASE ~\E d \in Conns \ {c} : held[d] = s
    <2>1. sub' = [sub EXCEPT ![s] = Free]
      BY <1>5 DEF Drop
    <2> QED BY <1>1, <1>5, <2>1
  <1> QED BY <1>4, <1>5

LEMMA StateFacts ==
    ASSUME sub \in [Subs -> SubType], NEW s \in Subs, NEW st \in SubStates, SetSub(s, st)
    PROVE  /\ sub' \in [Subs -> SubType]
           /\ \A t \in Subs \ {s} : sub'[t] = sub[t]
           /\ sub'[s].state = st /\ sub'[s].of = sub[s].of /\ sub'[s].owner = sub[s].owner
  BY DEF SetSub, SubType

\* The read pump of c does what follows a critical section about a room.
SubscriptionStep(c) ==
    /\ UNCHANGED << idOf, isClosed, clients, rooms, clientRooms, ending, leaving, writer, open, online >>
    /\ sub' \in [Subs -> SubType] /\ subscriptions' \in [Rooms -> Subs \cup {NoSub}]
    /\ silenced' \in [Rooms -> {"no", "redis", "owner", "race"}]
    /\ held' \in [Conns -> Subs \cup {NoSub}]
    /\ pc' \in [Conns -> Phases] /\ target' \in [Conns -> Rooms \cup {None}]
    /\ \A d \in Conns \ {c} : pc'[d] = pc[d] /\ target'[d] = target[d] /\ held'[d] = held[d]
    /\ \/ pc[c] = "subscribe" /\ pc'[c] = "receive" /\ target'[c] = target[c] /\ held'[c] # NoSub
       \/ pc[c] = "unsubscribe" /\ pc'[c] = "close" /\ target'[c] = target[c] /\ held'[c] # NoSub
       \/ /\ pc[c] \in {"subscribe", "receive", "unsubscribe", "close"}
          /\ pc'[c] = IF ending[c] THEN "leave" ELSE "read"
          /\ target'[c] = None /\ held'[c] = NoSub
    /\ isClosed => \A r \in Rooms : subscriptions'[r] = NoSub

LEMMA SubscriptionStepInv ==
    ASSUME Inv, NEW c \in Conns, SubscriptionStep(c)
    PROVE  /\ TypeOK' /\ ClosedInv' /\ OfflineIsAnnounced'
           /\ \A d \in Conns : PumpInv(d)'
           /\ \A d \in Conns : MemberInv(d)'
           /\ \A d : Unshared(d)' <=> Unshared(d)
  <1>1. PumpInv(c)
    BY DEF Inv
  <1>2. TypeOK'
    <2>1. OnePerId(clients)' /\ \A x \in Rooms : OnePerId(rooms[x])'
      BY DEF SubscriptionStep, OnePerId, Inv, TypeOK
    <2> QED BY <2>1 DEF SubscriptionStep, Inv, TypeOK, SubType
  <1>3. ClosedInv'
    BY DEF SubscriptionStep, Inv, ClosedInv
  <1>4. KeepsPresence
    <2>1. pc'[c] \notin {"new", "gone"}
      BY DEF SubscriptionStep
    <2> QED BY <2>1 DEF SubscriptionStep, KeepsPresence
  <1>5. PumpInv(c)'
    BY <1>1 DEF SubscriptionStep, PumpInv
  <1>6. \A d \in Conns : PumpInv(d)'
    BY <1>5 DEF SubscriptionStep, Inv, PumpInv
  <1>7. OnlyOf(c)
    BY DEF SubscriptionStep, OnlyOf
  <1>8. MemberInv(c)'
    <2>1. MemberInv(c) /\ (Unshared(c)' <=> Unshared(c))
      BY DEF SubscriptionStep, Inv, Unshared
    <2>2. Connected(c)' <=> Connected(c)
      BY <1>1 DEF SubscriptionStep, Connected, PumpInv
    <2>3. pc'[c] \in {"subscribe", "receive"} => pc[c] = "subscribe" /\ target'[c] = target[c]
      BY DEF SubscriptionStep
    <2> QED BY <2>1, <2>2, <2>3 DEF SubscriptionStep, MemberInv
  <1> QED BY <1>2, <1>3, <1>4, <1>6, <1>7, <1>8, OthersKept, PresenceKept

LEMMA SubTypes ==
    ASSUME Inv
    PROVE  /\ sub \in [Subs -> SubType] /\ subscriptions \in [Rooms -> Subs \cup {NoSub}]
           /\ silenced \in [Rooms -> {"no", "redis", "owner", "race"}]
           /\ held \in [Conns -> Subs \cup {NoSub}]
           /\ pc \in [Conns -> Phases] /\ target \in [Conns -> Rooms \cup {None}]
           /\ ending \in [Conns -> BOOLEAN]
           /\ NoSub \notin Subs /\ None \notin Rooms /\ None \notin Conns
  BY SubsAssumption, NoneAssumption DEF Inv, TypeOK, SubType

\* A new subscription is nobody's before it is registered.
LEMMA SubscribeInv ==
    ASSUME Inv, NEW c \in Conns, SubscribeRoom(c)
    PROVE  Inv'
  <1>1. /\ pc[c] = "subscribe" /\ ~ending[c] /\ held[c] = NoSub /\ target[c] \in Rooms
        /\ UNCHANGED << idOf, isClosed, clients, rooms, clientRooms, ending, leaving, writer, open, online >>
    BY SubTypes DEF SubscribeRoom, Inv, PumpInv
  <1>2. CASE isClosed \/ subscriptions[target[c]] # NoSub
    <2>1. /\ pc'[c] = "read" /\ target'[c] = None /\ UNCHANGED << subscriptions, sub, held, silenced >>
          /\ \A d \in Conns \ {c} : pc'[d] = pc[d] /\ target'[d] = target[d]
          /\ pc' \in [Conns -> Phases] /\ target' \in [Conns -> Rooms \cup {None}]
      BY <1>1, <1>2, SubTypes DEF SubscribeRoom, Return, Goto, Phases
    <2>2. SubscriptionStep(c)
      BY <1>1, <2>1, SubTypes DEF SubscriptionStep, Inv, ClosedInv
    <2>3. KeepsSubs
      BY <1>1, <2>1 DEF KeepsSubs
    <2>4. ASSUME NEW x \in Rooms PROVE AudienceInv(x)'
      <3>1. AudienceInv(x)
        BY DEF Inv
      <3>2. Unshared(sub[subscriptions[x]].owner)' <=> Unshared(sub[subscriptions[x]].owner)
        BY <1>1, <2>1 DEF Unshared
      <3> QED BY <1>1, <2>1, <3>1, <3>2 DEF AudienceInv
    <2>5. ASSUME NEW x \in Rooms PROVE SilenceInv(x)'
      <3>1. CASE x = target[c]
        BY <1>1, <1>2, <2>1, <3>1 DEF SilenceInv, Inv, ClosedInv
      <3>2. CASE x # target[c]
        BY <1>1, <2>1, <3>2 DEF SilenceInv, Inv
      <3> QED BY <3>1, <3>2
    <2> QED BY <2>2, <2>3, <2>4, <2>5, SubscriptionStepInv, SubsKept DEF Inv
  <1>3. CASE ~(isClosed \/ subscriptions[target[c]] # NoSub)
    <2>1. PICK s \in Subs :
            /\ s \in Available
            /\ sub' = [sub EXCEPT ![s] = [of |-> target[c], owner |-> c, state |-> "pending"]]
            /\ subscriptions' = [subscriptions EXCEPT ![target[c]] = s]
            /\ Silence(target[c], "no")
            /\ held' = [held EXCEPT ![c] = s]
            /\ Goto(c, "receive")
            /\ UNCHANGED target
      BY <1>3 DEF SubscribeRoom
    <2>2. [of |-> target[c], owner |-> c, state |-> "pending"] \in SubType
      BY <1>1 DEF SubType, SubStates
    <2>3. /\ sub' \in [Subs -> SubType]
          /\ sub'[s].of = target[c] /\ sub'[s].owner = c /\ sub'[s].state = "pending"
          /\ \A t \in Subs \ {s} : sub'[t] = sub[t]
      BY <2>1, <2>2, SubTypes
    <2>4. /\ subscriptions' \in [Rooms -> Subs \cup {NoSub}] /\ subscriptions'[target[c]] = s
          /\ \A x \in Rooms \ {target[c]} : subscriptions'[x] = subscriptions[x]
          /\ silenced' \in [Rooms -> {"no", "redis", "owner", "race"}]
          /\ \A x \in Rooms \ {target[c]} : silenced'[x] = silenced[x]
      BY <1>1, <2>1, SubTypes DEF Silence
    <2>5. /\ held' \in [Conns -> Subs \cup {NoSub}] /\ held'[c] = s
          /\ pc' \in [Conns -> Phases] /\ pc'[c] = "receive" /\ target' = target
          /\ \A d \in Conns \ {c} : pc'[d] = pc[d] /\ held'[d] = held[d]
      BY <2>1, SubTypes DEF Goto, Phases
    <2>6. s # NoSub
      BY SubTypes
    <2>7. SubscriptionStep(c)
      BY <1>1, <1>3, <2>3, <2>4, <2>5, <2>6, SubTypes DEF SubscriptionStep
    <2>8. /\ sub[s].state = "free" /\ \A d \in Conns : held[d] # s
          /\ \A x \in Rooms : subscriptions[x] # s
      <3>1. sub[s].state = "free"
        BY <2>1 DEF Available
      <3>2. ASSUME NEW d \in Conns PROVE held[d] # s
        <4>1. PumpInv(d) /\ HeldInv(d)
          BY DEF Inv
        <4> QED BY <3>1, <4>1, <2>6 DEF PumpInv, HeldInv
      <3> QED BY <3>1, <3>2, <2>6 DEF Inv, RegisteredInv
    <2>9. ASSUME NEW d \in Conns PROVE HeldInv(d)'
      <3>1. CASE d = c
        BY <2>3, <2>5, <3>1 DEF HeldInv
      <3>2. CASE d # c
        <4>1. HeldInv(d) /\ held'[d] = held[d] /\ pc'[d] = pc[d] /\ target'[d] = target[d]
          BY <2>5, <3>2 DEF Inv
        <4>2. held[d] # NoSub => held[d] \in Subs \ {s} /\ sub'[held[d]] = sub[held[d]]
          BY <2>3, <2>8, SubTypes
        <4>3. \A x \in Rooms : subscriptions'[x] = s \/ subscriptions'[x] = subscriptions[x]
          BY <2>4
        <4>4. \A e \in Conns : pc'[e] = "close" => pc[e] = "close" /\ held'[e] = held[e]
          BY <2>5
        <4> QED BY <2>8, <4>1, <4>2, <4>3, <4>4 DEF HeldInv
      <3> QED BY <3>1, <3>2
    <2>10. ASSUME NEW t \in Subs PROVE SubInv(t)'
      <3>1. CASE t = s
        BY <1>1, <2>3, <2>4, <3>1 DEF SubInv
      <3>2. CASE t # s
        <4>1. SubInv(t) /\ sub'[t] = sub[t]
          BY <2>3, <3>2 DEF Inv
        <4>2. sub[t].state \in {"pending", "consuming"} => sub[t].of \in Rooms
          BY <4>1 DEF SubInv
        <4>3. \A x \in Rooms : subscriptions[x] = t => subscriptions'[x] = t
          BY <1>3, <2>4, SubTypes
        <4>4. \A e \in Conns : pc[e] = "close" => pc'[e] = "close" /\ held'[e] = held[e]
          BY <1>1, <2>5
        <4> QED BY <4>1, <4>2, <4>3, <4>4 DEF SubInv
      <3> QED BY <3>1, <3>2
    <2>11. ASSUME NEW x \in Rooms PROVE RegisteredInv(x)'
      <3>1. CASE x = target[c]
        BY <2>3, <2>4, <3>1 DEF RegisteredInv
      <3>2. CASE x # target[c]
        <4>1. RegisteredInv(x) /\ subscriptions'[x] = subscriptions[x]
          BY <2>4, <3>2 DEF Inv
        <4>2. subscriptions[x] # NoSub => sub'[subscriptions[x]] = sub[subscriptions[x]]
          BY <2>3, <2>8, SubTypes
        <4> QED BY <4>1, <4>2 DEF RegisteredInv
      <3> QED BY <3>1, <3>2
    <2>12. ASSUME NEW x \in Rooms PROVE AudienceInv(x)'
      <3>1. CASE x = target[c]
        <4>1. Unshared(c) => c \in rooms[x]
          BY <1>1, <1>3, <3>1 DEF Inv, MemberInv
        <4>2. sub'[subscriptions'[x]].owner = c
          BY <2>3, <2>4, <3>1
        <4>3. Unshared(sub[subscriptions[x]].owner)' => Unshared(c)
          BY <1>1, <4>2 DEF Unshared
        <4> QED BY <1>1, <4>1, <4>3 DEF AudienceInv
      <3>2. CASE x # target[c]
        <4>1. AudienceInv(x) /\ subscriptions'[x] = subscriptions[x]
          BY <2>4, <3>2 DEF Inv
        <4>2. subscriptions[x] # NoSub => sub'[subscriptions[x]] = sub[subscriptions[x]]
          BY <2>3, <2>8, SubTypes
        <4>3. subscriptions[x] # NoSub =>
                (Unshared(sub[subscriptions[x]].owner)' <=> Unshared(sub[subscriptions[x]].owner))
          BY <1>1, <4>1, <4>2 DEF Unshared
        <4> QED BY <1>1, <2>5, <4>1, <4>3 DEF AudienceInv
      <3> QED BY <3>1, <3>2
    <2>13. ASSUME NEW x \in Rooms PROVE SilenceInv(x)'
      <3>1. CASE x = target[c]
        BY <2>4, <2>6, <3>1 DEF SilenceInv
      <3>2. CASE x # target[c]
        BY <1>1, <2>4, <2>5, <3>2 DEF SilenceInv, Inv
      <3> QED BY <3>1, <3>2
    <2> QED BY <2>7, <2>9, <2>10, <2>11, <2>12, <2>13, SubscriptionStepInv DEF Inv
  <1> QED BY <1>2, <1>3

\* Subscription s is over: it is out of the table, and only a closer may still hold it.
Removal(s) ==
    /\ UNCHANGED << idOf, rooms >>
    /\ \A t \in Subs \ {s} : sub'[t] = sub[t]
    /\ \/ sub'[s].state = "ended" /\ sub'[s].of = sub[s].of /\ sub'[s].owner = sub[s].owner
       \/ sub'[s] = Free /\ \A d \in Conns : held'[d] # s
    /\ \A x \in Rooms : subscriptions'[x] = IF subscriptions[x] = s THEN NoSub ELSE subscriptions[x]
    /\ \A x \in Rooms : IF subscriptions[x] = s THEN silenced'[x] # "no" ELSE silenced'[x] = silenced[x]
    /\ \A d \in Conns : \/ held'[d] = held[d] /\ pc'[d] = pc[d] /\ target'[d] = target[d]
                        \/ /\ held'[d] = NoSub /\ pc'[d] \notin {"subscribe", "unsubscribe", "close"}
                           /\ pc[d] \notin {"subscribe", "unsubscribe", "close"}
    /\ \A d \in Conns : held'[d] = s => pc[d] = "close"

LEMMA RemovalInv ==
    ASSUME Inv, NEW s \in Subs, sub[s].of \in Rooms, sub[s].owner \in Conns, Removal(s)
    PROVE  /\ \A d \in Conns : HeldInv(d)'
           /\ \A t \in Subs : SubInv(t)'
           /\ \A x \in Rooms : RegisteredInv(x)'
           /\ \A x \in Rooms : AudienceInv(x)'
           /\ \A x \in Rooms : SilenceInv(x)'
  <1>1. \A d \in Conns : /\ pc'[d] = "close" => pc[d] = "close" /\ held'[d] = held[d] /\ target'[d] = target[d]
                         /\ pc[d] = "close" => pc'[d] = "close" /\ held'[d] = held[d] /\ target'[d] = target[d]
    BY DEF Removal
  <1>2. ASSUME NEW d \in Conns PROVE HeldInv(d)'
    <2> SUFFICES ASSUME held'[d] # NoSub
                 PROVE  HeldInv(d)'
      BY DEF HeldInv
    <2>1. HeldInv(d) /\ held'[d] = held[d] /\ pc'[d] = pc[d] /\ target'[d] = target[d] /\ held[d] \in Subs
      BY SubTypes DEF Removal, Inv
    <2>2. \A x \in Rooms : subscriptions'[x] = held[d] => subscriptions[x] = held[d]
      BY <2>1 DEF Removal
    <2>3. CASE held[d] = s
      <3>1. sub'[s].state = "ended" /\ sub'[s].of = sub[s].of /\ pc[d] = "close"
        BY <2>1, <2>3 DEF Removal
      <3> QED BY <1>1, <2>1, <2>2, <2>3, <3>1 DEF HeldInv
    <2>4. CASE held[d] # s
      <3>1. sub'[held[d]] = sub[held[d]]
        BY <2>1, <2>4 DEF Removal
      <3> QED BY <1>1, <2>1, <2>2, <3>1 DEF HeldInv
    <2> QED BY <2>3, <2>4
  <1>3. ASSUME NEW t \in Subs PROVE SubInv(t)'
    <2>1. CASE t = s
      BY <2>1 DEF Removal, SubInv, Free
    <2>2. CASE t # s
      <3>1. SubInv(t) /\ sub'[t] = sub[t]
        BY <2>2 DEF Removal, Inv
      <3>2. \A x \in Rooms : subscriptions[x] = t => subscriptions'[x] = t
        BY <2>2 DEF Removal
      <3> QED BY <1>1, <3>1, <3>2 DEF SubInv
    <2> QED BY <2>1, <2>2
  <1>4. ASSUME NEW x \in Rooms, subscriptions'[x] # NoSub
        PROVE  /\ subscriptions'[x] = subscriptions[x]
               /\ sub'[subscriptions[x]] = sub[subscriptions[x]]
    BY <1>4, SubTypes DEF Removal
  <1>5. \A x \in Rooms : RegisteredInv(x)'
    BY <1>4 DEF Inv, RegisteredInv
  <1>6. \A d \in Conns : pc[d] \in {"subscribe", "unsubscribe"} => pc'[d] = pc[d] /\ target'[d] = target[d]
    BY DEF Removal
  <1>7. ASSUME NEW x \in Rooms PROVE AudienceInv(x)'
    <2> SUFFICES ASSUME subscriptions'[x] # NoSub
                 PROVE  AudienceInv(x)'
      BY DEF AudienceInv
    <2>1. AudienceInv(x) /\ rooms' = rooms
      BY DEF Inv, Removal
    <2>2. Unshared(sub[subscriptions[x]].owner)' <=> Unshared(sub[subscriptions[x]].owner)
      BY <1>4 DEF Unshared, Removal
    <2> QED BY <1>4, <1>6, <2>1, <2>2 DEF AudienceInv
  <1>8. ASSUME NEW x \in Rooms PROVE SilenceInv(x)'
    <2>1. SilenceInv(x) /\ rooms' = rooms
      BY DEF Inv, Removal
    <2>2. \/ silenced'[x] # "no"
          \/ subscriptions'[x] = subscriptions[x] /\ silenced'[x] = silenced[x]
      BY DEF Removal
    <2> QED BY <1>6, <2>1, <2>2 DEF SilenceInv
  <1> QED BY <1>2, <1>3, <1>5, <1>7, <1>8

\* Whoever waits for Redis made the subscription, so another who holds it closes it.
LEMMA ReceiveInv ==
    ASSUME Inv, NEW c \in Conns, Receive(c)
    PROVE  Inv'
  <1> DEFINE s == held[c]
  <1>1. /\ pc[c] = "receive" /\ ~ending[c] /\ s # NoSub /\ target[c] \in Rooms
        /\ UNCHANGED << idOf, isClosed, clients, rooms, clientRooms, ending, leaving, writer, open, online >>
    BY SubTypes DEF Receive, Inv, PumpInv
  <1>2. /\ s \in Subs /\ sub[s].of = target[c] /\ sub[s].owner = c
    BY <1>1, SubTypes DEF Inv, HeldInv
  <1>3. /\ held'[c] = NoSub /\ target'[c] = None /\ pc'[c] = "read"
        /\ held' \in [Conns -> Subs \cup {NoSub}] /\ pc' \in [Conns -> Phases]
        /\ target' \in [Conns -> Rooms \cup {None}]
        /\ \A d \in Conns \ {c} : pc'[d] = pc[d] /\ target'[d] = target[d] /\ held'[d] = held[d]
    BY <1>1, SubTypes DEF Receive, Return, Goto, Phases
  <1>4. \A d \in Conns \ {c} : held[d] = s => pc[d] = "close"
    <2> SUFFICES ASSUME NEW d \in Conns \ {c}, held[d] = s
                 PROVE  pc[d] = "close"
      OBVIOUS
    <2>1. PumpInv(d) /\ HeldInv(d)
      BY DEF Inv
    <2> QED BY <1>1, <1>2, <2>1 DEF PumpInv, HeldInv
  <1> HIDE DEF s
  <1>5. CASE /\ sub[s].state = "pending" /\ SetSub(s, "consuming")
             /\ UNCHANGED << subscriptions, silenced >>
    <2>1. /\ sub' \in [Subs -> SubType]
          /\ \A t \in Subs \ {s} : sub'[t] = sub[t]
          /\ sub'[s].state = "consuming" /\ sub'[s].of = sub[s].of /\ sub'[s].owner = sub[s].owner
      BY <1>2, <1>5, SubTypes, StateFacts DEF SubStates
    <2>2. SubscriptionStep(c)
      BY <1>1, <1>3, <1>5, <2>1, SubTypes DEF SubscriptionStep, Inv, ClosedInv
    <2>3. \A d \in Conns : /\ pc'[d] = "close" => pc[d] = "close" /\ held'[d] = held[d] /\ target'[d] = target[d]
                           /\ pc[d] = "close" => pc'[d] = "close" /\ held'[d] = held[d] /\ target'[d] = target[d]
      BY <1>1, <1>3
    <2>4. ASSUME NEW d \in Conns PROVE HeldInv(d)'
      <3> SUFFICES ASSUME held'[d] # NoSub
                   PROVE  HeldInv(d)'
        BY DEF HeldInv
      <3>1. HeldInv(d) /\ held'[d] = held[d] /\ pc'[d] = pc[d] /\ target'[d] = target[d] /\ held[d] \in Subs /\ d # c
        BY <1>3, SubTypes DEF Inv
      <3>2. CASE held[d] = s
        BY <1>4, <1>5, <2>1, <2>3, <3>1, <3>2 DEF HeldInv
      <3>3. CASE held[d] # s
        <4>1. sub'[held[d]] = sub[held[d]]
          BY <2>1, <3>1, <3>3
        <4> QED BY <1>5, <2>3, <3>1, <4>1 DEF HeldInv
      <3> QED BY <3>2, <3>3
    <2>5. ASSUME NEW t \in Subs PROVE SubInv(t)'
      <3>1. SubInv(t) /\ sub'[t].of = sub[t].of /\ sub'[t].owner = sub[t].owner
            /\ (sub'[t].state = sub[t].state \/ t = s)
        BY <2>1 DEF Inv
      <3> QED BY <1>5, <2>3, <3>1 DEF SubInv
    <2>6. ASSUME NEW x \in Rooms PROVE RegisteredInv(x)'
      <3>1. RegisteredInv(x) /\ subscriptions[x] \in Subs \cup {NoSub}
        BY SubTypes DEF Inv
      <3> QED BY <1>5, <2>1, <3>1 DEF RegisteredInv
    <2>7. ASSUME NEW x \in Rooms PROVE AudienceInv(x)'
      <3>1. AudienceInv(x) /\ subscriptions[x] \in Subs \cup {NoSub}
        BY SubTypes DEF Inv
      <3>2. subscriptions[x] # NoSub => sub'[subscriptions[x]].owner = sub[subscriptions[x]].owner
        BY <2>1, <3>1
      <3>3. subscriptions[x] # NoSub =>
              (Unshared(sub[subscriptions[x]].owner)' <=> Unshared(sub[subscriptions[x]].owner))
        BY <1>1, <1>5, <3>2 DEF Unshared
      <3> QED BY <1>1, <1>3, <1>5, <3>1, <3>3 DEF AudienceInv
    <2>8. \A x \in Rooms : SilenceInv(x)'
      BY <1>1, <1>3, <1>5 DEF SilenceInv, Inv
    <2> QED BY <2>2, <2>4, <2>5, <2>6, <2>7, <2>8, SubscriptionStepInv DEF Inv
  <1>6. CASE /\ Drop(s, c) /\ removeSubscription(s)
             /\ IF subscriptions[target[c]] = s THEN Silence(target[c], "redis") ELSE UNCHANGED silenced
    <2>1. /\ sub' \in [Subs -> SubType]
          /\ \A t \in Subs \ {s} : sub'[t] = sub[t]
          /\ \/ sub'[s].state = "ended" /\ sub'[s].of = sub[s].of /\ sub'[s].owner = sub[s].owner
             \/ (\A d \in Conns \ {c} : held[d] # s) /\ sub'[s] = Free
      BY <1>2, <1>6, SubTypes, DropFacts
    <2>2. \A x \in Rooms : subscriptions[x] = s => x = target[c]
      BY <1>2, SubTypes DEF Inv, RegisteredInv
    <2>3. /\ subscriptions' \in [Rooms -> Subs \cup {NoSub}]
          /\ \A x \in Rooms : subscriptions'[x] = IF subscriptions[x] = s THEN NoSub ELSE subscriptions[x]
      BY <1>1, <1>2, <1>6, <2>2, SubTypes DEF removeSubscription
    <2>4. /\ silenced' \in [Rooms -> {"no", "redis", "owner", "race"}]
          /\ \A x \in Rooms : IF subscriptions[x] = s THEN silenced'[x] # "no" ELSE silenced'[x] = silenced[x]
      BY <1>1, <1>6, <2>2, SubTypes DEF Silence
    <2>5. isClosed => \A x \in Rooms : subscriptions'[x] = NoSub
      BY <2>3 DEF Inv, ClosedInv
    <2>6. SubscriptionStep(c)
      BY <1>1, <1>3, <2>1, <2>3, <2>4, <2>5 DEF SubscriptionStep
    <2>7. Removal(s)
      <3>1. \A d \in Conns : \/ held'[d] = held[d] /\ pc'[d] = pc[d] /\ target'[d] = target[d]
                             \/ /\ held'[d] = NoSub /\ pc'[d] \notin {"subscribe", "unsubscribe", "close"}
                                /\ pc[d] \notin {"subscribe", "unsubscribe", "close"}
        BY <1>1, <1>3
      <3>2. \A d \in Conns : held'[d] = s => pc[d] = "close"
        BY <1>1, <1>3, <1>4
      <3>3. (\A d \in Conns \ {c} : held[d] # s) => \A d \in Conns : held'[d] # s
        BY <1>1, <1>3
      <3> QED BY <1>1, <2>1, <2>3, <2>4, <3>1, <3>2, <3>3 DEF Removal
    <2> QED BY <1>2, <1>1, <2>6, <2>7, SubscriptionStepInv, RemovalInv DEF Inv
  <1> QED BY <1>5, <1>6 DEF Receive, s

\* Whoever takes a subscription out of the table is the one to close it.
LEMMA DetachInv ==
    ASSUME Inv, NEW c \in Conns, detachSubscription(c)
    PROVE  Inv'
  <1>1. /\ pc[c] = "unsubscribe" /\ held[c] = NoSub /\ target[c] \in Rooms
        /\ UNCHANGED << idOf, isClosed, clients, rooms, clientRooms, sub, ending, leaving, writer, open,
                        online >>
    BY SubTypes DEF detachSubscription, Inv, PumpInv
  <1>2. /\ subscriptions' \in [Rooms -> Subs \cup {NoSub}] /\ subscriptions'[target[c]] = NoSub
        /\ \A x \in Rooms \ {target[c]} : subscriptions'[x] = subscriptions[x]
    BY <1>1, SubTypes DEF detachSubscription
  <1>3. isClosed => \A x \in Rooms : subscriptions'[x] = NoSub
    BY <1>2 DEF Inv, ClosedInv
  <1>4. CASE subscriptions[target[c]] = NoSub
    <2>1. /\ pc'[c] = (IF ending[c] THEN "leave" ELSE "read") /\ target'[c] = None
          /\ UNCHANGED << held, silenced >>
          /\ \A d \in Conns \ {c} : pc'[d] = pc[d] /\ target'[d] = target[d]
          /\ pc' \in [Conns -> Phases] /\ target' \in [Conns -> Rooms \cup {None}]
      BY <1>1, <1>4, SubTypes DEF detachSubscription, Return, Goto, Phases
    <2>2. subscriptions' = subscriptions
      BY <1>2, <1>4, SubTypes
    <2>3. SubscriptionStep(c)
      BY <1>1, <1>2, <1>3, <2>1, SubTypes DEF SubscriptionStep
    <2>4. KeepsSubs
      BY <1>1, <2>1, <2>2 DEF KeepsSubs
    <2>5. ASSUME NEW x \in Rooms PROVE AudienceInv(x)'
      <3>1. AudienceInv(x)
        BY DEF Inv
      <3>2. Unshared(sub[subscriptions[x]].owner)' <=> Unshared(sub[subscriptions[x]].owner)
        BY <1>1, <2>2 DEF Unshared
      <3> QED BY <1>1, <1>4, <2>1, <2>2, <3>1, <3>2 DEF AudienceInv
    <2>6. \A x \in Rooms : SilenceInv(x)'
      BY <1>1, <2>1, <2>2 DEF SilenceInv, Inv
    <2> QED BY <2>3, <2>4, <2>5, <2>6, SubscriptionStepInv, SubsKept DEF Inv
  <1>5. CASE subscriptions[target[c]] # NoSub
    <2> DEFINE s == subscriptions[target[c]]
    <2>1. /\ s \in Subs /\ s # NoSub /\ sub[s].of = target[c] /\ sub[s].state \in {"pending", "consuming"}
      BY <1>1, <1>5, SubTypes DEF Inv, RegisteredInv
    <2>2. /\ pc'[c] = "close" /\ held'[c] = s /\ target' = target
          /\ held' \in [Conns -> Subs \cup {NoSub}] /\ pc' \in [Conns -> Phases]
          /\ \A d \in Conns \ {c} : pc'[d] = pc[d] /\ held'[d] = held[d]
      BY <1>5, <2>1, SubTypes DEF detachSubscription, Goto, Phases
    <2>3. /\ silenced' \in [Rooms -> {"no", "redis", "owner", "race"}]
          /\ \A x \in Rooms \ {target[c]} : silenced'[x] = silenced[x]
          /\ rooms[target[c]] # {} => silenced'[target[c]] = "race"
      BY <1>1, <1>5, SubTypes DEF detachSubscription, Silence
    <2>4. \A x \in Rooms : subscriptions[x] = s => x = target[c]
      BY <2>1 DEF Inv, RegisteredInv
    <2>5. \A d \in Conns : pc[d] = "close" => held[d] # s
      BY <1>1, <2>1 DEF Inv, HeldInv
    <2> HIDE DEF s
    <2>6. SubscriptionStep(c)
      BY <1>1, <1>2, <1>3, <2>1, <2>2, <2>3, SubTypes DEF SubscriptionStep
    <2>7. \A x \in Rooms : subscriptions'[x] # s /\ (subscriptions'[x] # NoSub => subscriptions'[x] = subscriptions[x])
      BY <1>2, <2>1, <2>4
    <2>8. ASSUME NEW d \in Conns PROVE HeldInv(d)'
      <3>1. CASE d = c
        <4>1. \A e \in Conns : pc'[e] = "close" /\ held'[e] = s => e = c
          BY <2>2, <2>5
        <4> QED BY <1>1, <2>1, <2>2, <2>7, <3>1, <4>1 DEF HeldInv
      <3>2. CASE d # c
        <4>1. HeldInv(d) /\ held'[d] = held[d] /\ pc'[d] = pc[d] /\ target'[d] = target[d]
          BY <2>2, <3>2 DEF Inv
        <4>2. pc[d] = "close" /\ held[d] # NoSub =>
                \A x \in Rooms : subscriptions'[x] # held[d]
          BY <2>7, <4>1 DEF HeldInv
        <4>3. pc[d] = "close" /\ held[d] # NoSub =>
                \A e \in Conns : pc'[e] = "close" /\ held'[e] = held[d] => e = d
          BY <2>2, <2>5, <4>1 DEF HeldInv
        <4> QED BY <1>1, <4>1, <4>2, <4>3 DEF HeldInv
      <3> QED BY <3>1, <3>2
    <2>9. ASSUME NEW t \in Subs PROVE SubInv(t)'
      <3>1. SubInv(t)
        BY DEF Inv
      <3>2. CASE t = s
        BY <1>1, <2>2, <3>1, <3>2 DEF SubInv
      <3>3. CASE t # s
        <4>1. \A x \in Rooms : subscriptions[x] = t => subscriptions'[x] = t
          BY <1>2, <3>3 DEF s
        <4>2. \A e \in Conns : pc[e] = "close" => pc'[e] = "close" /\ held'[e] = held[e]
          BY <1>1, <2>2
        <4> QED BY <1>1, <3>1, <4>1, <4>2 DEF SubInv
      <3> QED BY <3>2, <3>3
    <2>10. \A x \in Rooms : RegisteredInv(x)'
      BY <1>1, <2>7 DEF Inv, RegisteredInv
    <2>11. ASSUME NEW x \in Rooms PROVE AudienceInv(x)'
      <3>1. CASE x = target[c]
        BY <1>2, <3>1 DEF AudienceInv
      <3>2. CASE x # target[c]
        <4>1. AudienceInv(x) /\ subscriptions'[x] = subscriptions[x]
          BY <1>2, <3>2 DEF Inv
        <4>2. Unshared(sub[subscriptions[x]].owner)' <=> Unshared(sub[subscriptions[x]].owner)
          BY <1>1, <4>1 DEF Unshared
        <4> QED BY <1>1, <2>2, <3>2, <4>1, <4>2 DEF AudienceInv
      <3> QED BY <3>1, <3>2
    <2>12. ASSUME NEW x \in Rooms PROVE SilenceInv(x)'
      <3>1. CASE x = target[c]
        BY <1>1, <2>3, <3>1 DEF SilenceInv
      <3>2. CASE x # target[c]
        BY <1>1, <1>2, <2>2, <2>3, <3>2 DEF SilenceInv, Inv
      <3> QED BY <3>1, <3>2
    <2> QED BY <2>6, <2>8, <2>9, <2>10, <2>11, <2>12, SubscriptionStepInv DEF Inv
  <1> QED BY <1>4, <1>5

\* A consumer that has ended is forgotten: nobody but its closer held it.
LEMMA CloseDetachedInv ==
    ASSUME Inv, NEW c \in Conns, CloseDetached(c)
    PROVE  Inv'
  <1> DEFINE s == held[c]
  <1>1. /\ pc[c] = "close" /\ s # NoSub /\ s \in Subs
        /\ UNCHANGED << idOf, isClosed, clients, rooms, clientRooms, subscriptions, ending, leaving, writer,
                        open, online, silenced >>
    BY SubTypes DEF CloseDetached, hub, Inv, PumpInv
  <1>2. /\ held'[c] = NoSub /\ target'[c] = None /\ pc'[c] = IF ending[c] THEN "leave" ELSE "read"
        /\ held' \in [Conns -> Subs \cup {NoSub}] /\ pc' \in [Conns -> Phases]
        /\ target' \in [Conns -> Rooms \cup {None}]
        /\ \A d \in Conns \ {c} : pc'[d] = pc[d] /\ target'[d] = target[d] /\ held'[d] = held[d]
    BY <1>1, SubTypes DEF CloseDetached, Return, Goto, Phases
  <1>3. /\ sub[s].state \in {"pending", "consuming", "ended"} /\ \A x \in Rooms : subscriptions[x] # s
        /\ \A d \in Conns \ {c} : held[d] = s => pc[d] = "receive" /\ sub[s].state # "ended"
    <2>1. HeldInv(c)
      BY DEF Inv
    <2>2. ASSUME NEW d \in Conns \ {c}, held[d] = s
          PROVE  pc[d] = "receive" /\ sub[s].state # "ended"
      <3>1. PumpInv(d) /\ HeldInv(d)
        BY DEF Inv
      <3>2. pc[d] # "close"
        BY <1>1, <2>1, <2>2 DEF HeldInv
      <3> QED BY <1>1, <2>2, <3>1, <3>2 DEF PumpInv, HeldInv
    <2> QED BY <1>1, <2>1, <2>2 DEF HeldInv
  <1>4. IF sub[s].state = "ended" THEN Drop(s, c) ELSE SetSub(s, "closed")
    BY DEF CloseDetached
  <1> HIDE DEF s
  <1>5. /\ sub' \in [Subs -> SubType]
        /\ \A t \in Subs \ {s} : sub'[t] = sub[t]
        /\ \/ (\A d \in Conns \ {c} : held[d] # s) /\ sub'[s] = Free
           \/ sub'[s].state = "closed" /\ sub'[s].of = sub[s].of /\ sub'[s].owner = sub[s].owner
    <2>1. CASE sub[s].state = "ended"
      <3>1. \A d \in Conns \ {c} : held[d] # s
        BY <1>3, <2>1
      <3>2. Drop(s, c)
        BY <1>4, <2>1
      <3> QED BY <1>1, <3>1, <3>2, SubTypes, DropFacts
    <2>2. CASE sub[s].state # "ended"
      <3>1. SetSub(s, "closed") /\ "closed" \in SubStates
        BY <1>4, <2>2 DEF SubStates
      <3> QED BY <1>1, <3>1, SubTypes, StateFacts
    <2> QED BY <2>1, <2>2
  <1>6. SubscriptionStep(c)
    BY <1>1, <1>2, <1>5, SubTypes DEF SubscriptionStep, Inv, ClosedInv
  <1>7. ASSUME NEW d \in Conns PROVE HeldInv(d)'
    <2> SUFFICES ASSUME held'[d] # NoSub
                 PROVE  HeldInv(d)'
      BY DEF HeldInv
    <2>1. HeldInv(d) /\ held'[d] = held[d] /\ pc'[d] = pc[d] /\ target'[d] = target[d] /\ held[d] \in Subs /\ d # c
      BY <1>2, SubTypes DEF Inv
    <2>2. \A e \in Conns : pc'[e] = "close" => pc[e] = "close" /\ held'[e] = held[e]
      BY <1>1, <1>2
    <2>3. CASE held[d] = s
      BY <1>1, <1>3, <1>5, <2>1, <2>3 DEF HeldInv
    <2>4. CASE held[d] # s
      <3>1. sub'[held[d]] = sub[held[d]]
        BY <1>5, <2>1, <2>4
      <3> QED BY <1>1, <2>1, <2>2, <3>1 DEF HeldInv
    <2> QED BY <2>3, <2>4
  <1>8. ASSUME NEW t \in Subs PROVE SubInv(t)'
    <2>1. SubInv(t)
      BY DEF Inv
    <2>2. CASE t = s
      BY <1>3, <1>5, <2>1, <2>2 DEF SubInv, Free
    <2>3. CASE t # s
      <3>1. sub'[t] = sub[t]
        BY <1>5, <2>3
      <3>2. \A e \in Conns : pc[e] = "close" /\ held[e] = t => pc'[e] = "close" /\ held'[e] = t
        BY <1>2, <2>3 DEF s
      <3> QED BY <1>1, <2>1, <3>1, <3>2 DEF SubInv
    <2> QED BY <2>2, <2>3
  <1>9. \A x \in Rooms : subscriptions[x] # NoSub => sub'[subscriptions[x]] = sub[subscriptions[x]]
    BY <1>3, <1>5, SubTypes
  <1>10. \A x \in Rooms : RegisteredInv(x)'
    BY <1>1, <1>9 DEF Inv, RegisteredInv
  <1>11. ASSUME NEW x \in Rooms PROVE AudienceInv(x)'
    <2>1. AudienceInv(x)
      BY DEF Inv
    <2>2. subscriptions[x] # NoSub =>
            (Unshared(sub[subscriptions[x]].owner)' <=> Unshared(sub[subscriptions[x]].owner))
      BY <1>1, <1>9 DEF Unshared
    <2> QED BY <1>1, <1>2, <2>1, <2>2 DEF AudienceInv
  <1>12. \A x \in Rooms : SilenceInv(x)'
    BY <1>1, <1>2 DEF SilenceInv, Inv
  <1> QED BY <1>6, <1>7, <1>8, <1>10, <1>11, <1>12, SubscriptionStepInv DEF Inv

LEMMA ConsumerEndsInv ==
    ASSUME Inv, NEW s \in Subs, ConsumerEnds(s)
    PROVE  Inv'
  <1>1. /\ sub[s].state \in {"consuming", "closed"}
        /\ sub[s].state = "closed" => \A d \in Conns : held[d] # s
        /\ Drop(s, None) /\ removeSubscription(s)
        /\ IF subscriptions[sub[s].of] = s THEN Silence(sub[s].of, "owner") ELSE UNCHANGED silenced
        /\ UNCHANGED << idOf, isClosed, clients, rooms, clientRooms, pc, target, held, ending, leaving, writer,
                        open, online >>
    BY DEF ConsumerEnds, pump
  <1>2. sub[s].of \in Rooms /\ sub[s].owner \in Conns
    BY <1>1 DEF Inv, SubInv
  <1>3. /\ sub' \in [Subs -> SubType]
        /\ \A t \in Subs \ {s} : sub'[t] = sub[t]
        /\ \/ sub'[s].state = "ended" /\ sub'[s].of = sub[s].of /\ sub'[s].owner = sub[s].owner
           \/ (\A d \in Conns \ {None} : held[d] # s) /\ sub'[s] = Free
    BY <1>1, SubTypes, DropFacts
  <1>4. \A x \in Rooms : subscriptions[x] = s => x = sub[s].of
    BY SubTypes DEF Inv, RegisteredInv
  <1>5. /\ subscriptions' \in [Rooms -> Subs \cup {NoSub}]
        /\ \A x \in Rooms : subscriptions'[x] = IF subscriptions[x] = s THEN NoSub ELSE subscriptions[x]
    BY <1>1, <1>2, <1>4, SubTypes DEF removeSubscription
  <1>6. /\ silenced' \in [Rooms -> {"no", "redis", "owner", "race"}]
        /\ \A x \in Rooms : IF subscriptions[x] = s THEN silenced'[x] # "no" ELSE silenced'[x] = silenced[x]
    BY <1>1, <1>2, <1>4, SubTypes DEF Silence
  <1>7. ASSUME NEW d \in Conns, held[d] = s PROVE pc[d] = "close"
    <2>1. PumpInv(d) /\ HeldInv(d)
      BY DEF Inv
    <2> QED BY <1>1, <1>7, <2>1, SubTypes DEF PumpInv, HeldInv
  <1>8. Removal(s)
    BY <1>1, <1>3, <1>5, <1>6, <1>7, SubTypes DEF Removal
  <1>9. TypeOK'
    <2>1. OnePerId(clients)' /\ \A x \in Rooms : OnePerId(rooms[x])'
      BY <1>1 DEF OnePerId, Inv, TypeOK
    <2> QED BY <1>1, <1>3, <1>5, <1>6, <2>1 DEF Inv, TypeOK, SubType
  <1>10. \A d \in Conns : PumpInv(d)' /\ MemberInv(d)'
    BY <1>1 DEF Inv, PumpInv, MemberInv, Connected, Unshared
  <1>11. KeepsPresence
    BY <1>1 DEF KeepsPresence
  <1>12. ClosedInv'
    BY <1>1, <1>5 DEF Inv, ClosedInv
  <1> QED BY <1>2, <1>8, <1>9, <1>10, <1>11, <1>12, RemovalInv, PresenceKept DEF Inv

\* Closing the hub closes what is registered; what is not has its closer already.
LEMMA CloseInv ==
    ASSUME Inv, Close
    PROVE  Inv'
  <1>1. /\ isClosed' = TRUE /\ clients' = {} /\ rooms' = [r \in Rooms |-> {}]
        /\ clientRooms' = [i \in ClientIDs |-> {}] /\ subscriptions' = [r \in Rooms |-> NoSub]
        /\ UNCHANGED << idOf, pc, target, held, ending, leaving, writer, online, silenced >>
    BY DEF Close
  <1>2. ASSUME NEW s \in Subs
        PROVE  /\ sub'[s] \in SubType /\ sub'[s].of = sub[s].of /\ sub'[s].owner = sub[s].owner
               /\ IF \E r \in Rooms : subscriptions[r] = s
                  THEN sub'[s].state = "closed" ELSE sub'[s].state = sub[s].state
    <2>1. sub[s] \in SubType
      BY SubTypes
    <2>2. \A r \in Rooms : subscriptions[r] = s => sub[s].state # "ended"
      BY SubTypes DEF Inv, RegisteredInv
    <2>3. CASE \E r \in Rooms : subscriptions[r] = s
      <3>1. sub'[s] = [sub[s] EXCEPT !.state = "closed"]
        BY <2>2, <2>3 DEF Close
      <3> QED BY <2>1, <2>3, <3>1 DEF SubType, SubStates
    <2>4. CASE ~\E r \in Rooms : subscriptions[r] = s
      <3>1. sub'[s] = sub[s]
        BY <2>4 DEF Close
      <3> QED BY <2>1, <2>4, <3>1
    <2> QED BY <2>3, <2>4
  <1>3. TypeOK'
    <2>1. sub' \in [Subs -> SubType]
      <3>1. sub' = [s \in Subs |-> sub'[s]]
        BY DEF Close
      <3> QED BY <1>2, <3>1
    <2>2. open' \in [Conns -> BOOLEAN]
      BY DEF Close, Inv, TypeOK
    <2>3. OnePerId(clients)' /\ \A r \in Rooms : OnePerId(rooms[r])'
      BY <1>1 DEF OnePerId
    <2> QED BY <1>1, <2>1, <2>2, <2>3 DEF Inv, TypeOK, SubType
  <1>4. \A c \in Conns : PumpInv(c)'
    BY <1>1 DEF Inv, PumpInv
  <1>5. ASSUME NEW c \in Conns PROVE HeldInv(c)'
    <2>1. HeldInv(c) /\ held[c] \in Subs \cup {NoSub}
      BY SubTypes DEF Inv
    <2>2. \A r \in Rooms : subscriptions'[r] # held[c] \/ held[c] = NoSub
      BY <1>1
    <2>3. CASE \E r \in Rooms : subscriptions[r] = held[c]
      BY <1>1, <1>2, <2>1, <2>2, <2>3 DEF HeldInv
    <2>4. CASE ~\E r \in Rooms : subscriptions[r] = held[c]
      BY <1>1, <1>2, <2>1, <2>2, <2>4 DEF HeldInv
    <2> QED BY <2>3, <2>4
  <1>6. ASSUME NEW s \in Subs PROVE SubInv(s)'
    <2>1. SubInv(s) /\ sub'[s].of = sub[s].of /\ sub'[s].owner = sub[s].owner
      BY <1>2 DEF Inv
    <2>2. CASE \E r \in Rooms : subscriptions[r] = s
      <3>1. sub'[s].state = "closed" /\ sub[s].state # "free"
        BY <1>2, <2>2, SubTypes DEF Inv, RegisteredInv
      <3> QED BY <2>1, <3>1 DEF SubInv
    <2>3. CASE ~\E r \in Rooms : subscriptions[r] = s
      BY <1>1, <1>2, <2>1, <2>3 DEF SubInv
    <2> QED BY <2>2, <2>3
  <1>7. \A r \in Rooms : RegisteredInv(r)' /\ AudienceInv(r)' /\ SilenceInv(r)'
    BY <1>1 DEF RegisteredInv, AudienceInv, SilenceInv
  <1>8. ClosedInv' /\ OfflineIsAnnounced'
    BY <1>1 DEF ClosedInv, OfflineIsAnnounced
  <1>9. \A c \in Conns : MemberInv(c)'
    BY <1>1 DEF MemberInv
  <1> QED BY <1>3, <1>4, <1>5, <1>6, <1>7, <1>8, <1>9 DEF Inv

-----------------------------------------------------------------------------
(* The theorems about the hub. *)

LEMMA InitInv == Init => Inv
  <1> SUFFICES ASSUME Init PROVE Inv
    OBVIOUS
  <1>1. TypeOK
    <2>1. Free \in [of : Rooms \cup {None}, owner : Conns \cup {None}, state : SubStates]
      BY DEF Free, SubStates
    <2> QED BY <2>1 DEF Init, TypeOK, OnePerId, Phases
  <1>2. \A c \in Conns : PumpInv(c) /\ HeldInv(c) /\ MemberInv(c)
    BY DEF Init, PumpInv, HeldInv, MemberInv, Connected
  <1>3. \A s \in Subs : SubInv(s)
    BY DEF Init, SubInv, Free
  <1>4. \A r \in Rooms : RegisteredInv(r) /\ AudienceInv(r) /\ SilenceInv(r)
    BY DEF Init, RegisteredInv, AudienceInv, SilenceInv
  <1>5. ClosedInv /\ OfflineIsAnnounced
    BY DEF Init, ClosedInv, OfflineIsAnnounced
  <1> QED BY <1>1, <1>2, <1>3, <1>4, <1>5 DEF Inv

LEMMA NextInv == Inv /\ [Next]_vars => Inv'
  <1> SUFFICES ASSUME Inv, [Next]_vars PROVE Inv'
    OBVIOUS
  <1>1. ASSUME NEW c \in Conns, Step(c) PROVE Inv'
    <2>1. CASE AnnounceOnline(c)
      BY <2>1, AnnounceOnlineInv
    <2>2. CASE Unregister(c)
      BY <2>2, UnregisterInv
    <2>3. CASE Forget(c)
      BY <2>3, ForgetInv
    <2>4. CASE AnnounceOffline(c)
      BY <2>4, AnnounceOfflineInv
    <2>5. CASE SubscribeRoom(c)
      BY <2>5, SubscribeInv
    <2>6. CASE Receive(c)
      BY <2>6, ReceiveInv
    <2>7. CASE detachSubscription(c)
      BY <2>7, DetachInv
    <2>8. CASE CloseDetached(c)
      BY <2>8, CloseDetachedInv
    <2>9. CASE \E r \in Rooms : pc[c] = "leave" /\ LeaveRoom(c, r)
      BY <2>9, LeaveInv
    <2> QED BY <1>1, <2>1, <2>2, <2>3, <2>4, <2>5, <2>6, <2>7, <2>8, <2>9 DEF Step
  <1>2. ASSUME NEW c \in Conns, Register(c) PROVE Inv'
    BY <1>2, RegisterInv
  <1>3. ASSUME NEW c \in Conns, RefreshPresence(c) PROVE Inv'
    BY <1>3, RefreshInv
  <1>4. ASSUME NEW c \in Conns, SendOverflows(c) PROVE Inv'
    BY <1>4, SendOverflowsInv
  <1>5. ASSUME NEW c \in Conns, WritePumpEnds(c) PROVE Inv'
    BY <1>5, WritePumpEndsInv
  <1>6. ASSUME NEW c \in Conns, ReadPumpEnds(c) PROVE Inv'
    BY <1>6, ReadPumpEndsInv
  <1>7. ASSUME NEW c \in Conns, NEW r \in Rooms, JoinRoom(c, r) PROVE Inv'
    BY <1>7, JoinInv
  <1>8. ASSUME NEW c \in Conns, NEW r \in Rooms, LeaveRoom(c, r) PROVE Inv'
    BY <1>8, LeaveInv
  <1>9. ASSUME NEW u \in Users, PresenceExpires(u) PROVE Inv'
    BY <1>9, PresenceExpiresInv
  <1>10. ASSUME NEW s \in Subs, ConsumerEnds(s) PROVE Inv'
    BY <1>10, ConsumerEndsInv
  <1>11. CASE Close
    BY <1>11, CloseInv
  <1>12. CASE UNCHANGED vars
    <2>1. UNCHANGED << hub, sub, pc, target, held, ending, leaving, writer, open, online, silenced >>
      BY <1>12 DEF vars, pump
    <2>2. TypeOK'
      BY <2>1 DEF Inv, TypeOK, hub, OnePerId
    <2> QED BY <2>1, <2>2, QuietInv
  <1> QED BY <1>1, <1>2, <1>3, <1>4, <1>5, <1>6, <1>7, <1>8, <1>9, <1>10, <1>11, <1>12 DEF Next

\* Who left is gone from everywhere: every consumer that runs is registered or about to
\* be closed, a subscription has an audience unless somebody is at work on the room, a
\* connection that is gone is in no room and its user not shown online.  This is what
\* the critical sections of hub.go and the calls between them add up to, for any number
\* of connections, also ones that share a client id.
THEOREM HubStaysSound == Spec => []HubIsSound
  <1>1. Inv => HubIsSound
    <2> SUFFICES ASSUME Inv PROVE HubIsSound
      OBVIOUS
    <2>1. NoOrphanConsumer
      BY DEF Inv, SubInv, NoOrphanConsumer
    <2>2. SubscriptionsHaveAudience
      BY DEF Inv, AudienceInv, SubscriptionsHaveAudience, Unsettled
    <2>3. ASSUME NEW c \in Conns, pc[c] = "gone", Unshared(c), NEW r \in Rooms PROVE c \notin rooms[r]
      <3>1. MemberInv(c) /\ PumpInv(c)
        BY DEF Inv
      <3>2. ~Connected(c) /\ leaving[c] = {}
        BY <2>3, <3>1 DEF Connected, PumpInv
      <3> QED BY <2>3, <3>1, <3>2 DEF MemberInv
    <2>4. NoGhosts
      BY <2>3 DEF NoGhosts
    <2> QED BY <2>1, <2>2, <2>4 DEF Inv, HubIsSound
  <1> QED BY <1>1, InitInv, NextInv, PTL DEF Spec

\* A room with clients that nothing feeds has lost its subscription in one of the three
\* ways hub.go knows: Redis failed, the connection that had made it went, or a leaver
\* took it away after the present clients had come.  Never for another reason.
THEOREM SilenceIsAlwaysExplained == Spec => []SilenceIsExplained
  <1>1. Inv => SilenceIsExplained
    BY DEF Inv, SilenceInv, SilenceIsExplained, Unsettled
  <1> QED BY <1>1, InitInv, NextInv, PTL DEF Spec
=============================================================================
