---------------------------- MODULE Notifications ----------------------------
(***************************************************************************)
(* The notifications of one user: NotificationsService.create_and_publish  *)
(* (app/services/notifications_service.py) and the connections they are    *)
(* pushed to (app/routers/websocket_notifications.py).                     *)
(*                                                                         *)
(* A creation inserts a notification, sends it to the connections listed   *)
(* at that moment, and prunes: it deletes what is too old, counts, finds   *)
(* as many of the oldest as exceed the quota, and deletes those.  Creations*)
(* and endpoints interleave at every await; the lock of the connection     *)
(* manager is never held across one, so each of its sections is a step.    *)
(*                                                                         *)
(* A notification is the rank of its created_at.  Contents, reading and    *)
(* marking as read, and the heartbeat are left out.                        *)
(***************************************************************************)
EXTENDS Naturals, FiniteSets, FiniteSetsExt

CONSTANTS
    Creators,       \* creations in progress
    Sockets,        \* connections, each made once
    MaxPerUser,     \* max_per_user
    MaxNotes,       \* bound: notifications, those of the start included
    MaxMishaps      \* bound: calls to Mongo that raise

ASSUME NotesAssumption ==
    /\ IsFiniteSet(Creators) /\ MaxNotes \in Nat /\ MaxMishaps \in Nat
    /\ MaxPerUser \in 0 .. MaxNotes

VARIABLES
    notes,          \* the user's notifications
    lastNote,       \* the latest created_at
    expired,        \* notifications up to this one are older than retain_days
    creator,        \* per creation: see NoCreation
    socket,         \* per connection: the stage of its endpoint
    listed,         \* active_connections[user_id]
    mishaps,
    ungreeted,      \* history: connections whose greeting raised
    crossed         \* history: two creations have been in progress together

notesVars == <<notes, lastNote, expired, creator, socket, listed, mishaps,
               ungreeted, crossed>>

\* History, until its publication has ended: the connections open since it began
\* that it has not been sent to, and those that lingered when it began.
NoCreation == [at |-> "idle", id |-> 0, todo |-> {}, dead |-> {}, count |-> 0, ids |-> {},
               owed |-> {}, lingering |-> {}]

\* The user starts with as many notifications as are kept.
NotesInit ==
    /\ notes = 1 .. MaxPerUser /\ lastNote = MaxPerUser /\ expired = 0
    /\ creator = [c \in Creators |-> NoCreation]
    /\ socket = [w \in Sockets |-> "new"] /\ listed = {} /\ mishaps = 0
    /\ ungreeted = {} /\ crossed = FALSE

-----------------------------------------------------------------------------
\* The connections.

\* connect, once the socket is accepted.
Connect(w) ==
    /\ socket[w] = "new"
    /\ socket' = [socket EXCEPT ![w] = "greeting"] /\ listed' = listed \cup {w}
    /\ UNCHANGED <<notes, lastNote, expired, creator, mishaps, ungreeted, crossed>>

Greet(w) ==
    /\ socket[w] = "greeting"
    /\ socket' = [socket EXCEPT ![w] = "open"]
    /\ UNCHANGED <<notes, lastNote, expired, creator, listed, mishaps, ungreeted,
                   crossed>>

\* The greeting is sent before the try: when it raises nothing disconnects.
GreetRaises(w) ==
    /\ socket[w] = "greeting"
    /\ socket' = [socket EXCEPT ![w] = "over"] /\ ungreeted' = ungreeted \cup {w}
    /\ UNCHANGED <<notes, lastNote, expired, creator, listed, mishaps, crossed>>

\* The peer is gone; the endpoint has yet to notice, or is in its finally.
HangUp(w) ==
    /\ socket[w] = "open"
    /\ socket' = [socket EXCEPT ![w] = "gone"]
    /\ creator' = [c \in Creators |-> [creator[c] EXCEPT !.owed = @ \ {w}]]
    /\ UNCHANGED <<notes, lastNote, expired, listed, mishaps, ungreeted, crossed>>

Unlisted(w) == listed \ {w}

Disconnect(w) ==
    /\ socket[w] = "gone"
    /\ socket' = [socket EXCEPT ![w] = "over"] /\ listed' = Unlisted(w)
    /\ UNCHANGED <<notes, lastNote, expired, creator, mishaps, ungreeted, crossed>>

-----------------------------------------------------------------------------
\* A creation.

Stage(c, stage) == creator' = [creator EXCEPT ![c].at = stage]

Create(c) ==
    /\ creator[c].at = "idle" /\ lastNote < MaxNotes
    /\ lastNote' = lastNote + 1
    /\ creator' = [creator EXCEPT ![c] =
          [NoCreation EXCEPT !.at = "insert", !.id = lastNote',
                             !.owed = {w \in Sockets : socket[w] = "open"},
                             !.lingering = {w \in listed : socket[w] = "over"}]]
    /\ crossed' = (crossed \/ \E d \in Creators : creator[d].at # "idle")
    /\ UNCHANGED <<notes, expired, socket, listed, mishaps, ungreeted>>

InsertNote(c) ==
    /\ creator[c].at = "insert"
    /\ notes' = notes \cup {creator[c].id}
    /\ creator' = [creator EXCEPT ![c].at = "send", ![c].todo = listed]
    /\ UNCHANGED <<lastNote, expired, socket, listed, mishaps, ungreeted, crossed>>

\* send_text: what is sent to a peer that is gone may or may not raise.
Send(c, w) ==
    /\ creator[c].at = "send" /\ w \in creator[c].todo
    /\ \/ /\ socket[w] # "over"
          /\ creator' = [creator EXCEPT ![c].todo = @ \ {w}, ![c].owed = @ \ {w}]
       \/ /\ socket[w] \in {"gone", "over"}
          /\ creator' = [creator EXCEPT ![c].todo = @ \ {w}, ![c].dead = @ \cup {w}]
    /\ UNCHANGED <<notes, lastNote, expired, socket, listed, mishaps, ungreeted, crossed>>

\* Mutant: one dead connection takes the user's whole entry with it.
Living_None(dead) == IF dead = {} THEN listed ELSE {}

Living(dead) == listed \ dead

DropDead(c) ==
    /\ creator[c].at = "send" /\ creator[c].todo = {}
    /\ listed' = Living(creator[c].dead)
    /\ creator' = [creator EXCEPT ![c].at = "expire", ![c].dead = {}]
    /\ UNCHANGED <<notes, lastNote, expired, socket, mishaps, ungreeted, crossed>>

DeleteExpired(c) ==
    /\ creator[c].at = "expire"
    /\ notes' = notes \ (1 .. expired)
    /\ creator' = [creator EXCEPT ![c] = [NoCreation EXCEPT !.at = "count", !.id = creator[c].id]]
    /\ UNCHANGED <<lastNote, expired, socket, listed, mishaps, ungreeted, crossed>>

\* Mutant: one more than the quota asks for.
Excess_OneMore(count) == count - MaxPerUser + 1

Excess(count) == count - MaxPerUser

CountNotes(c) ==
    LET count == Cardinality(notes) IN
    /\ creator[c].at = "count"
    /\ creator' = [creator EXCEPT ![c] = IF count > MaxPerUser
                                         THEN [@ EXCEPT !.at = "find", !.count = count]
                                         ELSE NoCreation]
    /\ UNCHANGED <<notes, lastNote, expired, socket, listed, mishaps, ungreeted, crossed>>

Oldest(k) == {n \in notes : Cardinality({m \in notes : m < n}) < k}

FindOldest(c) ==
    /\ creator[c].at = "find"
    /\ creator' = [creator EXCEPT ![c].at = "delete", ![c].ids = Oldest(Excess(creator[c].count))]
    /\ UNCHANGED <<notes, lastNote, expired, socket, listed, mishaps, ungreeted, crossed>>

DeleteFound(c) ==
    /\ creator[c].at = "delete"
    /\ notes' = notes \ creator[c].ids
    /\ creator' = [creator EXCEPT ![c] = NoCreation]
    /\ UNCHANGED <<lastNote, expired, socket, listed, mishaps, ungreeted, crossed>>

\* A call raises: to the caller if it is the insertion, else it is swallowed.
CreationRaises(c) ==
    /\ creator[c].at \in {"insert", "expire", "count", "find", "delete"}
    /\ mishaps < MaxMishaps /\ mishaps' = mishaps + 1
    /\ creator' = [creator EXCEPT ![c] = NoCreation]
    /\ UNCHANGED <<notes, lastNote, expired, socket, listed, ungreeted, crossed>>

\* The oldest notification passes retain_days.
Expire ==
    /\ notes # {} /\ expired < Min(notes) /\ expired' = Min(notes)
    /\ UNCHANGED <<notes, lastNote, creator, socket, listed, mishaps, ungreeted, crossed>>

NotesNext ==
    \/ \E w \in Sockets : Connect(w) \/ Greet(w) \/ GreetRaises(w) \/ HangUp(w) \/ Disconnect(w)
    \/ \E c \in Creators :
          \/ Create(c) \/ InsertNote(c) \/ (\E w \in Sockets : Send(c, w)) \/ DropDead(c)
          \/ DeleteExpired(c) \/ CountNotes(c) \/ FindOldest(c) \/ DeleteFound(c)
          \/ CreationRaises(c)
    \/ Expire

NotesSpec == NotesInit /\ [][NotesNext]_notesVars

-----------------------------------------------------------------------------
\* Every variable stays in its domain, and a creation carries only what its
\* stage uses.
NotesTypeOK ==
    /\ notes \subseteq 1 .. lastNote /\ lastNote \in 0 .. MaxNotes /\ expired \in 0 .. lastNote
    /\ \A c \in Creators :
          /\ creator[c].at \in {"idle", "insert", "send", "expire", "count", "find", "delete"}
          /\ creator[c].at = "idle" <=> creator[c] = NoCreation
          /\ creator[c].todo \cup creator[c].dead # {} => creator[c].at = "send"
          /\ creator[c].owed \cup creator[c].todo \subseteq Sockets
          /\ creator[c].at \in {"find", "delete"} <=> creator[c].count > MaxPerUser
    /\ \A w \in Sockets : socket[w] \in {"new", "greeting", "open", "gone", "over"}
    /\ listed \subseteq Sockets /\ crossed \in BOOLEAN

NotesAtRest == \A c \in Creators : creator[c].at = "idle"

\* As long as creations follow one another and no call raises, what is kept is
\* exactly the newest, up to the quota and except for what expired.
NewestKept ==
    NotesAtRest /\ ~ crossed /\ mishaps = 0 =>
        {n \in notes : n > expired} = {n \in 1 .. lastNote : n > expired /\ n + MaxPerUser > lastNote}

\* Creations that overlap prune by counts that are stale (create_and_publish
\* counts, then looks for the oldest).  Still the quota holds whenever none is
\* in progress, ...
QuotaAtRest == mishaps = 0 /\ NotesAtRest => Cardinality(notes) <= MaxPerUser

\* ... and of k that overlap none deletes more than what k of them exceed the
\* quota by: at most k * (k - 1) too many are deleted.
LossBounded ==
    LET k == Cardinality(Creators)
        unexpired == {n \in 1 .. lastNote : n > expired} \ {creator[c].id : c \in Creators}
        due == Min({MaxPerUser, Cardinality(unexpired)})
    IN  mishaps = 0 => Cardinality(notes) + k * (k - 1) >= due

\* The pruning keeps the newest and no more than the quota, and what
\* overlapping prunings delete too much is bounded.
QuotaKept == NewestKept /\ QuotaAtRest /\ LossBounded

\* A connection that was open when a creation began and still is when its
\* publication has ended was sent the notification, whichever connections came,
\* went or were dropped as dead by other publications meanwhile
\* (send_personal_message works on a snapshot and takes off only its own dead).
OpenAreSent ==
    \A c \in Creators : creator[c].at = "expire" => creator[c].owed = {}

\* A connection stays listed after its endpoint has ended only if its greeting
\* raised, and then until the end of the next publication.
OnlyUngreetedLinger ==
    /\ \A w \in listed : socket[w] = "over" => w \in ungreeted
    /\ \A c \in Creators : creator[c].at = "expire" =>
          creator[c].lingering \cap listed = {}

\* Publications reach the connections that are open, and the list forgets those
\* that are not.
ConnectionsServed == OpenAreSent /\ OnlyUngreetedLinger
=============================================================================
