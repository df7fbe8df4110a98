------------------------- MODULE VolunteerRegistry -------------------------
(* The volunteer accounts: the list every API instance keeps in memory, the *)
(* two indexes of auth.py over it (username, for logins; id, for every      *)
(* mutation), the table in Postgres that the admin routes write through,    *)
(* and the broadcasts that carry a change to the other instances.  The      *)
(* routes check, await a password hash, Postgres and Redis, and only then   *)
(* act on what they checked.                                                *)
EXTENDS Naturals, Sequences, FiniteSets, SequencesExt

CONSTANTS
    Instance,   \* API instances
    Volunteer,  \* volunteer ids: those of the sample file, others one creation each
    Sample,     \* the volunteers of sample_data.json
    Username,   \* usernames
    NameOf,     \* the username of each volunteer
    Change,     \* updates of a volunteer's position or zone
    AdminChange,\* those that come from the admin's route
    Initial,    \* the position a volunteer is created with
    None,       \* no volunteer
    MaxFaults   \* bound on failed writes, lost messages and restarts

ASSUME ConstantsAssumption ==
    /\ Sample \subseteq Volunteer /\ IsFiniteSet(Sample) /\ AdminChange \subseteq Change
    /\ NameOf \in [Volunteer -> Username]
    /\ None \notin Volunteer /\ None \notin Instance /\ Initial \notin Change
    /\ MaxFaults \in Nat
    /\ \A v, w \in Sample : NameOf[v] = NameOf[w] => v = w

VARIABLES
    list,       \* DB["volunteers"] of each instance
    byName,     \* _volunteer_index of each instance
    byId,       \* the keys of _volunteer_id_index of each instance
    position,   \* what the record of a volunteer says at each instance
    row,        \* Postgres: the volunteer in the row of each username
    rowPosition,\* Postgres: the position in the row of each volunteer
    creating,   \* POST /admin/volunteer of each volunteer
    changing,   \* PUT /volunteer and PUT /admin/volunteer of each change
    deleting,   \* DELETE /admin/volunteer of each volunteer at each instance
    channel,    \* messages on their way to each instance
    disputed,   \* ghost: usernames given to two volunteers at once
    raced,      \* ghost: volunteers with two changes at once
    faults

vars == <<list, byName, byId, position, row, rowPosition, creating, changing,
          deleting, channel, disputed, raced, faults>>

memory == <<list, byName, byId, position>>
postgres == <<row, rowPosition>>
routes == <<creating, changing, deleting>>
ghosts == <<disputed, raced>>

NoTask == [pc |-> "new", at |-> None, of |-> None, seen |-> Initial]
Answered == [NoTask EXCEPT !.pc = "done"]

\* rebuild_volunteer_index(): of two records with one username the later wins.
Rebuilt(l) ==
    [u \in Username |->
        LET named == {k \in DOMAIN l : NameOf[l[k]] = u}
        IN  IF named = {} THEN None ELSE l[CHOOSE k \in named : \A j \in named : j <= k]]

SampleList == SetToSeq(Sample)

Init ==
    /\ list = [i \in Instance |-> SampleList]
    /\ byName = [i \in Instance |-> Rebuilt(SampleList)]
    /\ byId = [i \in Instance |-> Sample]
    /\ position = [i \in Instance |-> [v \in Volunteer |-> Initial]]
    /\ row = [u \in Username |-> None]
    /\ rowPosition = [v \in Volunteer |-> Initial]
    /\ creating = [v \in Volunteer |-> NoTask]
    /\ changing = [c \in Change |-> NoTask]
    /\ deleting = [v \in Volunteer |-> NoTask]
    /\ channel = [i \in Instance |-> <<>>]
    /\ disputed = {} /\ raced = {}
    /\ faults = 0

----------------------------------------------------------------------------
(* The indexes.                                                             *)

\* index_add_volunteer() after an append; an older record of the username is
\* displaced.
Added(i, v) ==
    /\ list' = [list EXCEPT ![i] = Append(@, v)]
    /\ byName' = [byName EXCEPT ![i][NameOf[v]] = v]
    /\ byId' = [byId EXCEPT ![i] = @ \cup {v}]

\* Mutant: the username stays in the index.
TakenOutById(i, v) ==
    /\ list' = [list EXCEPT ![i] = RemoveFirst(@, v)]
    /\ byId' = [byId EXCEPT ![i] = @ \ {v}]
    /\ byName' = byName

\* index_remove_volunteer() and the rebuilt list, which has an id once at most: the
\* username goes only if it belongs to this very record.
TakenOut(i, v) ==
    /\ list' = [list EXCEPT ![i] = RemoveFirst(@, v)]
    /\ byId' = [byId EXCEPT ![i] = @ \ {v}]
    /\ byName' = [byName EXCEPT ![i][NameOf[v]] = IF @ = v THEN None ELSE @]

\* manager.broadcast(): to all other instances, in one order for all.
Publish(i, m) ==
    channel' = [j \in Instance |-> IF j = i THEN channel[j] ELSE Append(channel[j], m)]

Message(type, v, p) == [type |-> type, id |-> v, position |-> p]

----------------------------------------------------------------------------
(* POST /admin/volunteer.                                                   *)

Gone(v) == deleting[v].pc # "new"

\* Some instance or the table has a volunteer of that name, or will have.
InUse(u) ==
    \/ row[u] # None
    \/ \E w \in Volunteer : NameOf[w] = u /\
         \/ creating[w].pc \notin {"new", "done"}
         \/ \E i \in Instance : w \in byId[i]
         \/ \E i \in Instance : \E k \in DOMAIN channel[i] : channel[i][k].id = w

\* The username is free by the index of this instance; the password is hashed.
CheckName(v, i) ==
    /\ v \notin Sample /\ creating[v].pc = "new"
    /\ byName[i][NameOf[v]] = None
    /\ creating' = [creating EXCEPT ![v].pc = "writing", ![v].at = i]
    /\ disputed' = IF InUse(NameOf[v]) THEN disputed \cup {NameOf[v]} ELSE disputed
    /\ UNCHANGED <<memory, postgres, changing, deleting, channel, raced, faults>>

\* write_volunteer(): the first row of a username stays, and a failure is
\* logged.  Its result is not looked at.
WriteVolunteer(v) ==
    /\ creating[v].pc = "writing"
    /\ creating' = [creating EXCEPT ![v].pc = "written"]
    /\ \/ /\ row' = [row EXCEPT ![NameOf[v]] = IF @ = None THEN v ELSE @]
          /\ UNCHANGED faults
       \/ /\ faults < MaxFaults /\ faults' = faults + 1
          /\ UNCHANGED row
    /\ UNCHANGED <<memory, rowPosition, changing, deleting, channel, ghosts>>

\* After it, without another check.
Enlist(v) ==
    /\ creating[v].pc = "written"
    /\ creating' = [creating EXCEPT ![v].pc = "announcing"]
    /\ Added(creating[v].at, v)
    /\ UNCHANGED <<position, postgres, changing, deleting, channel, ghosts, faults>>

\* The cache is invalidated and the record, as it is by now, sent to the others;
\* it may have been deleted meanwhile.
AnnounceCreated(v) ==
    /\ creating[v].pc = "announcing"
    /\ creating' = [creating EXCEPT ![v] = Answered]
    /\ Publish(creating[v].at, Message("VOLUNTEER_CREATED", v, position[creating[v].at][v]))
    /\ disputed' = IF Gone(v) THEN disputed \cup {NameOf[v]} ELSE disputed
    /\ UNCHANGED <<memory, postgres, changing, deleting, raced, faults>>

----------------------------------------------------------------------------
(* PUT /volunteer/{vid} and PUT /admin/volunteer/{vid}.                     *)

\* Two changes of a volunteer overlap until every instance has seen the first.
Unsettled(v) ==
    \/ \E c \in Change : changing[c].of = v /\ changing[c].pc # "done"
    \/ \E i \in Instance : \E k \in DOMAIN channel[i] :
         channel[i][k].id = v /\ channel[i][k].type = "VOLUNTEER_UPDATED"

\* The record in memory changes first ...
Update(c, v, i) ==
    /\ changing[c].pc = "new"
    /\ v \in byId[i]
    /\ changing' = [changing EXCEPT ![c] = [NoTask EXCEPT !.pc = "persisting", !.at = i, !.of = v]]
    /\ position' = [position EXCEPT ![i][v] = c]
    /\ raced' = IF Unsettled(v) THEN raced \cup {v} ELSE raced
    /\ UNCHANGED <<list, byName, byId, postgres, creating, deleting, channel, disputed, faults>>

\* ... then the row, if the volunteer has one: update_volunteer_fields().  The
\* volunteer's route takes its copy for the others before it invalidates the
\* cache; the admin's rebuilds the indexes.
Persist(c) ==
    LET i == changing[c].at
        v == changing[c].of
    IN  /\ changing[c].pc = "persisting"
        /\ changing' = [changing EXCEPT ![c].pc = "announcing", ![c].seen = position[i][v]]
        /\ \/ /\ rowPosition' = IF row[NameOf[v]] = v
                                THEN [rowPosition EXCEPT ![v] = c] ELSE rowPosition
              /\ UNCHANGED faults
           \/ /\ faults < MaxFaults /\ faults' = faults + 1
              /\ UNCHANGED rowPosition
        /\ IF c \in AdminChange
           THEN /\ byName' = [byName EXCEPT ![i] = Rebuilt(list[i])]
                /\ byId' = [byId EXCEPT ![i] = ToSet(list[i])]
           ELSE UNCHANGED <<byName, byId>>
        /\ UNCHANGED <<list, position, row, creating, deleting, channel, ghosts>>

\* The admin's route takes its copy only now.
AnnounceUpdated(c) ==
    LET i == changing[c].at
        v == changing[c].of
    IN  /\ changing[c].pc = "announcing"
        /\ changing' = [changing EXCEPT ![c] = Answered]
        /\ Publish(i, Message("VOLUNTEER_UPDATED", v,
                              IF c \in AdminChange THEN position[i][v] ELSE changing[c].seen))
        /\ UNCHANGED <<memory, postgres, creating, deleting, ghosts, faults>>

----------------------------------------------------------------------------
(* DELETE /admin/volunteer/{vid}.                                           *)

Delete(v, i) ==
    /\ deleting[v].pc = "new"
    /\ v \in byId[i]
    /\ deleting' = [deleting EXCEPT ![v].pc = "erasing", ![v].at = i]
    /\ TakenOut(i, v)
    /\ UNCHANGED <<position, postgres, creating, changing, channel, ghosts, faults>>

\* delete_volunteer()
Erase(v) ==
    /\ deleting[v].pc = "erasing"
    /\ deleting' = [deleting EXCEPT ![v].pc = "announcing"]
    /\ \/ /\ row' = [row EXCEPT ![NameOf[v]] = IF @ = v THEN None ELSE @]
          /\ rowPosition' = [rowPosition EXCEPT ![v] = Initial]
          /\ UNCHANGED faults
       \/ /\ faults < MaxFaults /\ faults' = faults + 1
          /\ UNCHANGED postgres
    /\ UNCHANGED <<memory, creating, changing, channel, ghosts>>

AnnounceDeleted(v) ==
    /\ deleting[v].pc = "announcing"
    /\ deleting' = [deleting EXCEPT ![v] = Answered]
    /\ Publish(deleting[v].at, Message("VOLUNTEER_DELETED", v, Initial))
    /\ UNCHANGED <<memory, postgres, creating, changing, ghosts, faults>>

----------------------------------------------------------------------------
(* The other instances, and faults.                                         *)

\* Mutant: an update of an unknown volunteer adds it.
ReceiveUpserts(i) ==
    LET m == Head(channel[i]) IN
    /\ channel[i] # <<>>
    /\ channel' = [channel EXCEPT ![i] = Tail(@)]
    /\ IF m.type = "VOLUNTEER_DELETED"
       THEN TakenOut(i, m.id) /\ UNCHANGED position
       ELSE /\ IF m.id \in byId[i] THEN UNCHANGED <<list, byName, byId>> ELSE Added(i, m.id)
            /\ position' = [position EXCEPT ![i][m.id] = m.position]
    /\ UNCHANGED <<postgres, routes, ghosts, faults>>

\* The volunteer branches of sync_state().
Receive(i) ==
    LET m == Head(channel[i]) IN
    /\ channel[i] # <<>>
    /\ channel' = [channel EXCEPT ![i] = Tail(@)]
    /\ \/ /\ m.type = "VOLUNTEER_CREATED" /\ m.id \notin byId[i]
          /\ Added(i, m.id)
          /\ position' = [position EXCEPT ![i][m.id] = m.position]
       \/ /\ m.type = "VOLUNTEER_UPDATED" /\ m.id \in byId[i]
          /\ position' = [position EXCEPT ![i][m.id] = m.position]
          /\ UNCHANGED <<list, byName, byId>>
       \/ /\ m.type = "VOLUNTEER_DELETED" /\ m.id \in byId[i]
          /\ TakenOut(i, m.id)
          /\ UNCHANGED position
       \/ /\ (m.type = "VOLUNTEER_CREATED") = (m.id \in byId[i])
          /\ UNCHANGED memory
    /\ UNCHANGED <<postgres, routes, ghosts, faults>>

\* Pub/sub forgets what a reconnecting subscriber misses.
Lose(i) ==
    /\ channel[i] # <<>> /\ faults < MaxFaults
    /\ channel' = [channel EXCEPT ![i] = Tail(@)]
    /\ faults' = faults + 1
    /\ UNCHANGED <<memory, postgres, routes, ghosts>>

\* A restart loads the sample file.  load_db_from_postgres() brings back SOS
\* alerts, issues and lost persons; no one reads the volunteers' rows.
Restart(i) ==
    /\ faults < MaxFaults /\ faults' = faults + 1
    /\ list' = [list EXCEPT ![i] = SampleList]
    /\ byName' = [byName EXCEPT ![i] = Rebuilt(SampleList)]
    /\ byId' = [byId EXCEPT ![i] = Sample]
    /\ position' = [position EXCEPT ![i] = [v \in Volunteer |-> Initial]]
    /\ creating' = [v \in Volunteer |-> IF creating[v].at = i
                                        THEN Answered ELSE creating[v]]
    /\ changing' = [c \in Change |-> IF changing[c].at = i
                                     THEN Answered ELSE changing[c]]
    /\ deleting' = [v \in Volunteer |-> IF deleting[v].at = i
                                        THEN Answered ELSE deleting[v]]
    /\ channel' = [channel EXCEPT ![i] = <<>>]
    /\ UNCHANGED <<postgres, disputed, raced>>

Next ==
    \/ \E v \in Volunteer :
        \/ \E i \in Instance : CheckName(v, i) \/ Delete(v, i)
        \/ WriteVolunteer(v) \/ Enlist(v) \/ AnnounceCreated(v)
        \/ Erase(v) \/ AnnounceDeleted(v)
    \/ \E c \in Change :
        \/ \E v \in Volunteer, i \in Instance : Update(c, v, i)
        \/ Persist(c) \/ AnnounceUpdated(c)
    \/ \E i \in Instance : Receive(i) \/ Lose(i) \/ Restart(i)

Spec == Init /\ [][Next]_vars

----------------------------------------------------------------------------
(* Properties.                                                              *)

Listed(i) == ToSet(list[i])

Settled ==
    /\ \A v \in Volunteer : creating[v].pc \in {"new", "done"} /\ deleting[v].pc \in {"new", "done"}
    /\ \A c \in Change : changing[c].pc \in {"new", "done"}
    /\ \A i \in Instance : channel[i] = <<>>

\* The types of the variables; no record is in a list twice.
TypeOK ==
    /\ list \in [Instance -> Seq(Volunteer)]
    /\ \A i \in Instance : IsInjective(list[i])
    /\ byName \in [Instance -> [Username -> Volunteer \cup {None}]]
    /\ byId \in [Instance -> SUBSET Volunteer]
    /\ position \in [Instance -> [Volunteer -> Change \cup {Initial}]]
    /\ row \in [Username -> Volunteer \cup {None}]
    /\ rowPosition \in [Volunteer -> Change \cup {Initial}]
    /\ disputed \subseteq Username /\ raced \subseteq Volunteer
    /\ faults \in 0..MaxFaults

\* Types; and neither index outlives the list: an id that a route can act on and a username
\* that can log in belong to a listed volunteer, whatever creations, deletions,
\* rebuilds and messages of one username overlap.
IndexesFollowList ==
    /\ TypeOK
    /\ \A i \in Instance :
        /\ byId[i] = Listed(i)
        /\ \A u \in Username : byName[i][u] # None =>
             byName[i][u] \in Listed(i) /\ NameOf[byName[i][u]] = u

\* Once every route has answered and every message has arrived, and nothing has
\* failed, all instances list the same volunteers, can find each by its username,
\* and have a row for each that was created; a deleted one is nowhere; a change
\* no other overlapped is the same in every memory and in the row.  Excepted are
\* the usernames of volunteers whose creations overlapped, or whose deletion was
\* announced before the creation.
SettledRegistriesAgree ==
    Settled /\ faults = 0 =>
        \A v \in Volunteer, i \in Instance : NameOf[v] \notin disputed =>
            IF v \in Listed(i)
            THEN /\ ~Gone(v)
                 /\ byName[i][NameOf[v]] = v
                 /\ v \notin Sample => row[NameOf[v]] = v
                 /\ \A j \in Instance : v \in Listed(j)
                 /\ v \notin raced =>
                      /\ \A j \in Instance : position[j][v] = position[i][v]
                      /\ v \notin Sample => rowPosition[v] = position[i][v]
            ELSE row[NameOf[v]] # v
=============================================================================
