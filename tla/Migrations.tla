----------------------------- MODULE Migrations -----------------------------
(***************************************************************************)
(* The database schema under src/alembic/versions: ten revisions, each     *)
(* with an upgrade and a downgrade, applied by alembic commands that may   *)
(* run side by side (each container runs one at its start).                *)
(*                                                                         *)
(* A command reads alembic_version, plans the revisions up or down to its  *)
(* target and runs them in one transaction (env.py), which also moves the  *)
(* row of alembic_version.  The lock of that row, and of the tables a      *)
(* first revision creates, makes a second command wait for the first.      *)
(*                                                                         *)
(* A schema is a set of pairs: a table with the columns it was created     *)
(* with, with a column added later, with an index.                         *)
(***************************************************************************)
EXTENDS Naturals, FiniteSets

CONSTANTS Processes,  \* alembic commands that can run side by side: a bound
          Failed      \* what is left of a schema when a revision raises

VARIABLES rows,    \* the rows of alembic_version, none before the first revision
          schema,  \* the tables, as committed
          pc,      \* "idle" or "running"
          read,    \* the version the command has read, 0 for none
          target   \* the version it was asked for

vars == <<rows, schema, pc, read, target>>

Head == 10

Messages == "agent_messages"
Sessions == "agent_sessions"
Providers == "llm_providers"
Legacy == {Messages, Sessions, Providers}

HasTable(s, t) == <<t, "created">> \in s

Created(t, indexes) == {t} \X ({"created"} \cup indexes)

Without(s, T) == {x \in s : x[1] \notin T}

(* What each revision adds.                                                *)

UsersTable == Created("users", {"idx_users_email", "idx_users_username"})

UserSessionsTable ==
  Created("user_sessions", {"idx_user_sessions_user_id", "idx_user_sessions_jti"})

AgentTables ==
  Created(Providers, {"idx_llm_providers_user_id"})
    \cup Created(Sessions, {"idx_agent_sessions_user_id"})
    \cup Created(Messages, {"idx_agent_messages_session_id"})

SortIndex ==
  {<<Messages, "sort_index">>, <<Messages, "idx_agent_messages_session_sort">>,
   <<Sessions, "deleted_at">>}

EncryptionKey == {<<Providers, "encryption_key_id">>}

AnnotationProject ==
  {Sessions} \X {"annotation_project_id", "ix_agent_sessions_user_project_updated"}

VisionProbe ==
  {Providers} \X {"supports_vision", "vision_probed_at", "vision_probe_detail"}

SessionMode == {<<Sessions, "interaction_mode">>}

MessageMode == {<<Messages, "interaction_mode">>}

Added(v) ==
  <<UsersTable, UserSessionsTable, AgentTables, SortIndex, EncryptionKey,
    AnnotationProject, VisionProbe, SessionMode, MessageMode, {}>>[v]

\* A schema is never taken for a failure.
ASSUME FailedAssumption == \A v \in 0..Head : Failed # UNION {Added(w) : w \in 1..v}

\* Revision 010.
LegacyDropped(s) == Without(s, Legacy)

\* The tables revisions 5 to 9 inspect or alter without asking whether they
\* exist: the inspector raises NoSuchTableError.
Altered(v) ==
  CASE v \in {5, 7} -> {Providers} [] v \in {6, 8} -> {Sessions}
    [] v = 9 -> {Messages} [] OTHER -> {}

Missing(v, s) == \E t \in Altered(v) : ~HasTable(s, t)

\* The tables with a foreign key to users.
Referring == Legacy \cup {"user_sessions"}

-----------------------------------------------------------------------------
(* One revision up or down                                                 *)

\* Mutation: revision 001 creates its table with if_not_exists, like 003.
UpRaisesLenient(v, s) ==
  \/ v = 2 /\ HasTable(s, "user_sessions")
  \/ v \in {2, 3} /\ ~HasTable(s, "users")
  \/ v = 7 /\ VisionProbe \cap s # {}
  \/ Missing(v, s)

\* 003 to 006, 008 and 009 leave alone what they find; 001, 002 and 007 do not.
UpRaises(v, s) ==
  \/ v = 1 /\ HasTable(s, "users")
  \/ v = 2 /\ HasTable(s, "user_sessions")
  \/ v \in {2, 3} /\ ~HasTable(s, "users")
  \/ v = 7 /\ VisionProbe \cap s # {}
  \/ Missing(v, s)

Up(v, s) ==
  IF UpRaises(v, s) THEN Failed
  ELSE IF v = 4 /\ ~(HasTable(s, Messages) /\ HasTable(s, Sessions)) THEN s
  ELSE IF v = 6 /\ <<Sessions, "annotation_project_id">> \in s THEN s
  ELSE IF v = Head THEN LegacyDropped(s)
  ELSE s \cup Added(v)

DownRaises(v, s) ==
  \/ v \in {1, 2, 7} /\ ~(Added(v) \subseteq s)
  \/ v = 1 /\ \E t \in Referring : HasTable(s, t)
  \/ Missing(v, s)

\* Mutation: the downgrade of 007 forgets a column.
DownKeepsDetail(v, s) ==
  IF DownRaises(v, s) THEN Failed
  ELSE IF v = 3 THEN Without(s, Legacy)
  ELSE IF v = 7 THEN s \ (Added(v) \ {<<Providers, "vision_probe_detail">>})
  ELSE s \ Added(v)

\* 001, 002 and 007 drop what must be there, the others what they find; 010
\* does nothing.
Down(v, s) ==
  IF DownRaises(v, s) THEN Failed
  ELSE IF v = 3 THEN Without(s, Legacy)
  ELSE s \ Added(v)

-----------------------------------------------------------------------------
(* A command                                                               *)

\* UpFrom(a, s)[v]: what revisions a + 1 to v make of s; Failed if one raises.
UpFrom(a, s) ==
  LET f[v \in a..Head] ==
        IF v = a THEN s ELSE IF f[v - 1] = Failed THEN Failed ELSE Up(v, f[v - 1])
  IN f

\* DownFrom(a, s)[v]: what the downgrades of a to v + 1 make of s.
DownFrom(a, s) ==
  LET f[v \in 0..a] ==
        IF v = a THEN s ELSE IF f[v + 1] = Failed THEN Failed ELSE Down(v + 1, f[v + 1])
  IN f

Walk(a, b, s) == IF a <= b THEN UpFrom(a, s)[b] ELSE DownFrom(a, s)[b]

Init ==
  /\ rows = {} /\ schema = {}
  /\ pc = [p \in Processes |-> "idle"]
  /\ read = [p \in Processes |-> 0] /\ target = [p \in Processes |-> 0]

Versions == IF rows = {} THEN {0} ELSE rows

\* upgrade or downgrade to version t.
Start(p, t) ==
  /\ pc[p] = "idle"
  /\ pc' = [pc EXCEPT ![p] = "running"]
  /\ \E v \in Versions \ {t} : read' = [read EXCEPT ![p] = v]
  /\ target' = [target EXCEPT ![p] = t]
  /\ UNCHANGED <<rows, schema>>

End(p) ==
  /\ pc' = [pc EXCEPT ![p] = "idle"]
  /\ read' = [read EXCEPT ![p] = 0] /\ target' = [target EXCEPT ![p] = 0]

\* Mutation: nobody counts the rows the UPDATE of alembic_version matches.
MatchesAlways(p) == TRUE

\* The first revision inserts its row, which must be new; any other updates or
\* deletes the row it starts from, and alembic raises unless there was one.
Matches(p) == IF read[p] = 0 THEN 1 \notin rows ELSE read[p] \in rows

\* The rows once the one that was read, a new one for 0, holds the target.
Moved(p) ==
  {IF v = read[p] THEN target[p] ELSE v : v \in rows \cup ({read[p]} \cap {0})}

\* Mutation: a downgrade to base writes version 0.
CommitZero(p) ==
  LET s == Walk(read[p], target[p], schema) IN
  /\ pc[p] = "running"
  /\ Matches(p) /\ s # Failed
  /\ schema' = s
  /\ rows' = Moved(p)
  /\ End(p)

Commit(p) ==
  LET s == Walk(read[p], target[p], schema) IN
  /\ pc[p] = "running"
  /\ Matches(p) /\ s # Failed
  /\ schema' = s
  /\ rows' = Moved(p) \ {0}
  /\ End(p)

\* A revision raises, the row does not match, the process is killed.
Abort(p) ==
  /\ pc[p] = "running"
  /\ End(p)
  /\ UNCHANGED <<rows, schema>>

Next ==
  \E p \in Processes : (\E t \in 0..Head : Start(p, t)) \/ Commit(p) \/ Abort(p)

Spec == Init /\ [][Next]_vars

-----------------------------------------------------------------------------
(* Properties                                                              *)

Items == UNION {Added(v) : v \in 1..Head}

TypeOK ==
  /\ rows \subseteq 1..Head
  /\ schema \subseteq Items
  /\ pc \in [Processes -> {"idle", "running"}]
  /\ read \in [Processes -> 0..Head] /\ target \in [Processes -> 0..Head]

\* Two first upgrades side by side do not leave two version rows, though the
\* second inserts into a table with no row it could lock: CREATE TABLE users
\* stops it.
SingleVersion == Cardinality(rows) <= 1

\* The schema is what the revisions up to the version make of an empty
\* database, whatever was upgraded, downgraded, run twice or killed in between;
\* except that 009, reached from 010, has lost the tables 010 dropped.
SchemaOfVersion ==
  \A v \in Versions :
    schema = UpFrom(0, {})[v] \/ (v = Head - 1 /\ schema = UpFrom(0, {})[Head])

\* alembic upgrade head, run by the entrypoint of the container, would succeed
\* and end in the same schema from wherever earlier commands have left it.
HeadReachable ==
  \A v \in Versions : UpFrom(v, schema)[Head] = UpFrom(0, {})[Head]
=============================================================================
