----------------------------- MODULE Deployment -----------------------------
(***************************************************************************)
(* The deployment workflow (.github/workflows/deploy.yml) against one      *)
(* server and its database: a job per push copies the name of its image to *)
(* the server, runs the migrations in the one "migrate" container of the   *)
(* compose project, and, if they succeed, replaces the running containers. *)
(* Nothing keeps two jobs apart.  The old code runs until it is replaced.  *)
(*                                                                         *)
(* An image is identified with the last revision it carries.               *)
(***************************************************************************)
EXTENDS Migrations, Models

CONSTANTS Jobs, Images, Coords, MaxFaults

\* The revisions a database may be at when the story begins: none, or the last
\* one under which secrets only had their free text "coords".
Starts == {0, MovePoints - 1}
NoImage == 0
Idle == NoImage      \* no migrate container

ASSUME DeploymentAssumption ==
  /\ Images \subseteq Revisions
  /\ Coords \subseteq Int \X Int
  /\ MaxFaults \in Nat

VARIABLES
  schema, version,   \* the database's objects and its alembic_version
  coords, place,     \* of the one secret: its coords, its (latitude, longitude)
  uploaded, env,     \* the images named by .env.deploy.new and by .env
  container,         \* the image the migrate container is running, if it is
  service,           \* the image the api and the workers run, if they do
  pc, image,         \* the jobs
  overlapped,        \* history: the jobs that shared the server with another
  refusal,           \* why the last migration failed
  faults

database == <<schema, version, coords, place>>
jobs == <<pc, image, overlapped>>
vars == <<database, uploaded, env, container, service, jobs, refusal, faults>>

Init ==
  /\ version \in Starts
  /\ schema = SchemaAt(version)
  /\ coords \in IF version = 0 THEN {Unplaced} ELSE Coords \union {Unplaced}
  /\ place = Unplaced
  /\ uploaded = NoImage /\ env = version /\ service = version
  /\ container = Idle
  /\ pc = [j \in Jobs |-> "queued"] /\ image = [j \in Jobs |-> NoImage]
  /\ overlapped = {} /\ refusal = "none" /\ faults = 0

Active(j) == pc[j] \notin {"queued", "done", "failed"}
Waiting == {j \in Jobs : pc[j] = "migrating"}

Goto(j, label) == pc' = [pc EXCEPT ![j] = label]

-----------------------------------------------------------------------------
\* "Copy compose files": scp to .env.deploy.new
Copy(j) ==
  /\ pc[j] = "queued"
  /\ \E i \in Images : image' = [image EXCEPT ![j] = i] /\ uploaded' = i
  /\ overlapped' = IF \E k \in Jobs : Active(k)
                   THEN overlapped \union {j} \union {k \in Jobs : Active(k)} ELSE overlapped
  /\ Goto(j, "copied")
  /\ UNCHANGED <<database, env, container, service, refusal, faults>>

\* mv .env.deploy.new .env, by way of .env.deploy; under set -e a second mv of a
\* file another job has moved ends the job.
Install(j) ==
  /\ pc[j] = "copied"
  /\ IF uploaded = NoImage THEN Goto(j, "failed") /\ UNCHANGED <<uploaded, env>>
     ELSE Goto(j, "installed") /\ env' = uploaded /\ uploaded' = NoImage
  /\ UNCHANGED <<database, container, service, image, overlapped, refusal, faults>>

\* docker compose ... up migrate: with the image .env names now.  A migrate
\* container another job started is joined, or recreated if its image differs:
\* that stops it, and its job's wait ends with an error.
Migrate(j) ==
  /\ pc[j] = "installed"
  /\ container' = env
  /\ pc' = [k \in Jobs |-> CASE k = j -> "migrating"
                             [] k # j /\ k \in Waiting /\ container # env -> "refused"
                             [] OTHER -> pc[k]]
  /\ UNCHANGED <<database, uploaded, env, service, image, overlapped, refusal, faults>>

\* Whether the check constraint on the longitudes can be created.
Placeable(to) == version < MovePoints /\ to >= MovePoints => Constrained(Placed(coords))

\* "alembic upgrade head" ends, and so does the wait of the jobs for it.
EndMigrate ==
  LET run == Upgraded(schema, version, container, Tables(schema))
      refused == CASE version > container  -> "revision"
                   [] version <= container /\ ~run.ok -> "statement"
                   [] version <= container /\ run.ok /\ ~Placeable(container) -> "place"
                   [] OTHER -> "none"
      release(label) == [j \in Jobs |-> IF j \in Waiting THEN label ELSE pc[j]]
  IN
  /\ container # Idle
  /\ container' = Idle
  /\ refusal' = refused
  /\ IF refused = "none"
       THEN /\ schema' = run.schema /\ version' = container
            /\ place' = IF version < MovePoints /\ container >= MovePoints THEN Placed(coords) ELSE place
            /\ pc' = release("migrated")
       ELSE UNCHANGED <<schema, version, place>> /\ pc' = release("refused")
  /\ UNCHANGED <<coords, uploaded, env, service, image, overlapped, faults>>

\* Mutant: the exit status of the migration is lost.
BugRemoveContainer(j) ==
  /\ pc[j] \in {"migrated", "refused"} /\ Goto(j, "rolling")
  /\ container' = Idle
  /\ UNCHANGED <<database, uploaded, env, service, image, overlapped, refusal, faults>>

\* docker compose rm -fsv migrate: whoever's container that is by now.  Then the
\* exit status of the migration is looked at.
RemoveContainer(j) ==
  /\ pc[j] \in {"migrated", "refused"}
  /\ container' = Idle
  /\ pc' = [k \in Jobs |-> CASE k = j -> IF pc[j] = "migrated" THEN "rolling" ELSE "failed"
                             [] k # j /\ k \in Waiting -> "refused"
                             [] OTHER -> pc[k]]
  /\ UNCHANGED <<database, uploaded, env, service, image, overlapped, refusal, faults>>

\* docker compose rm -f -s api celery celery-beat
StopOld(j) ==
  /\ pc[j] = "rolling" /\ Goto(j, "stopped")
  /\ service' = NoImage
  /\ UNCHANGED <<database, uploaded, env, container, image, overlapped, refusal, faults>>

\* docker compose up api celery celery-beat: with the image .env names now.
StartNew(j) ==
  /\ pc[j] = "stopped" /\ Goto(j, "done")
  /\ service' = env
  /\ UNCHANGED <<database, uploaded, env, container, image, overlapped, refusal, faults>>

\* The runner or its connection dies; the migrate container may live on.
Die(j) ==
  /\ Active(j) /\ faults < MaxFaults /\ faults' = faults + 1
  /\ Goto(j, "failed")
  /\ container' \in IF pc[j] = "migrating" THEN {container, Idle} ELSE {container}
  /\ UNCHANGED <<database, uploaded, env, service, image, overlapped, refusal>>

\* "alembic downgrade -1", by hand, on a database nothing uses.
Downgrade ==
  LET run == Downgraded(schema, version) IN
  /\ version > 0 /\ service = NoImage /\ container = Idle /\ \A j \in Jobs : ~Active(j)
  /\ refusal' = IF run.ok THEN "none" ELSE "statement"
  /\ IF run.ok
       THEN /\ schema' = run.schema /\ version' = version - 1
            /\ place' = IF version <= MovePoints THEN Unplaced ELSE place
            /\ coords' = IF "item_secrets" \in Tables(run.schema) THEN coords ELSE Unplaced
       ELSE UNCHANGED database
  /\ UNCHANGED <<uploaded, env, container, service, jobs, faults>>

Next ==
  \/ \E j \in Jobs : \/ Copy(j) \/ Install(j) \/ Migrate(j) \/ RemoveContainer(j)
                     \/ StopOld(j) \/ StartNew(j) \/ Die(j)
  \/ EndMigrate \/ Downgrade

Spec == Init /\ [][Next]_vars

-----------------------------------------------------------------------------
(***************************************************************************)
(* The database is always exactly what the revisions up to its version     *)
(* make of an empty one, whatever failed, was rolled back or was           *)
(* downgraded on the way: every downgrade() undoes its upgrade(), object   *)
(* by object, and a failed migration leaves nothing behind.                *)
(***************************************************************************)
SchemaOfVersion == schema = SchemaAt(version)

\* A revision by itself: its upgrade() turns the schema of the one before into its
\* own, whichever tables had rows when the migration began, and its downgrade() back.
Done(r) == [ok |-> TRUE, schema |-> SchemaAt(r)]
UpgradeApplies(r) ==
  \A from \in 0..(r - 1) : Execute(upgrade[r], Done(r - 1), Tables(SchemaAt(from))) = Done(r)
DowngradeReverts(r) == Downgraded(SchemaAt(r), r) = Done(r - 1)

(***************************************************************************)
(* No statement of any revision is ever refused, up or down: none creates  *)
(* what is there or refers to what is not, none drops what another table   *)
(* still refers to, and none adds a column that must be given to a table   *)
(* that may have rows.  None has been so far, and neither will the next    *)
(* revision nor the downgrade of the last one.                             *)
(***************************************************************************)
MigrationsApply ==
  /\ refusal # "statement"
  /\ version + 1 \in Revisions => UpgradeApplies(version + 1)
  /\ version \in Revisions => DowngradeReverts(version)

(***************************************************************************)
(* 0005 keeps a secret where it was: a pair that starts with a latitude is *)
(* taken as it is, a pair that starts with a longitude beyond +-90 is      *)
(* turned round, a pair with no latitude in it loses its place.  A pair    *)
(* with a latitude and a number that is no longitude is in the way of      *)
(* every later revision.                                                   *)
(***************************************************************************)
SecretsStayPut ==
  version >= MovePoints /\ coords # Unplaced =>
    LET first == coords[1]  second == coords[2] IN
    \/ first \in Latitudes /\ second \in Longitudes /\ place = coords
    \/ first \in Longitudes \ Latitudes /\ second \in Latitudes /\ place = <<second, first>>
    \/ first \notin Latitudes /\ second \notin Latitudes /\ place = Unplaced

\* What code of a schema of its own needs of another.
Serves(given, own) ==
  /\ OfKind(own, {"table", "column", "label", "unique"}) \subseteq given
  /\ {o \in OfKind(given, {"required"}) : o.table \in Tables(own)} \subseteq own

(***************************************************************************)
(* Code that is in service under a later schema than its own keeps all it  *)
(* was written for: tables, columns, enum labels and unique indexes, and   *)
(* no column it does not know has to be given.  (Not before 0005: that one *)
(* drops map_points under the code that reads it.)  Nor will the next      *)
(* revision take any of it from the code of the present one.               *)
(***************************************************************************)
OldCodeServed ==
  /\ MovePoints <= service /\ service <= version => Serves(schema, SchemaAt(service))
  /\ MovePoints <= version /\ version + 1 \in Revisions =>
       Serves(SchemaAt(version + 1), SchemaAt(version))

(***************************************************************************)
(* A job that had the server to itself and ends well has put its own image *)
(* in service, on the schema of that image.  With two jobs at once neither *)
(* is so: .env and the migrate container are shared.                       *)
(***************************************************************************)
GreenJobDeployed ==
  [][\A j \in Jobs \ overlapped : pc[j] = "stopped" /\ pc'[j] = "done" =>
       service' = image[j] /\ version = image[j]]_vars

(***************************************************************************)
(* What the models rely on and the last schema does not have: the tables   *)
(* of the outbox, timestamps of six tables, one enum label and the unique  *)
(* index over XP events.  Everything else the models name is there.        *)
(***************************************************************************)
KnownGaps ==
  OutboxEvent \union ProcessedEvent
  \union Fields("collection_items", Timestamps) \union Fields("user_collections", {"updated_at"})
  \union Fields("event_modifiers", {"updated_at"}) \union Fields("event_items", Timestamps)
  \union Fields("event_goals", Timestamps) \union Fields("user_events", Timestamps)
  \union (UIColorToken \ Enum("ui_color_token", {"cyan", "violetHi", "gold", "pink"}))
  \union Distinct("xp_events", {{"user_id", "source"}})

OnlyKnownGaps == version = 14 => Missing(schema) = KnownGaps

(***************************************************************************)
(* The code in service finds in the database what its models rely on.      *)
(* Known only for the models of the last revision, the ones of this source.*)
(***************************************************************************)
CodeHasSchema == service = 14 => Missing(schema) = {}
=============================================================================
