-------------------------- MODULE DeploymentProofs --------------------------
(***************************************************************************)
(* Proofs about Deployment, for any number of jobs, any images and any     *)
(* coordinates: what a job that had the server to itself leaves behind,    *)
(* where revision 0005 puts a secret, and what holds of the database and   *)
(* of the code in service if each revision is sound by itself.             *)
(*                                                                         *)
(* What one revision does to the schema is not looked into: that is a      *)
(* matter of fourteen given lists of statements, which TLC evaluates.      *)
(* Three definitions without parameters say what it has to find of them    *)
(* (EachUpgradeApplies, EachDowngradeReverts, EachRevisionServes), and the *)
(* theorems that need them name them as assumptions.                       *)
(***************************************************************************)
EXTENDS Deployment, TLAPS

-----------------------------------------------------------------------------
(* Types *)

Labels == {"queued", "copied", "installed", "migrating", "migrated", "refused",
           "rolling", "stopped", "done", "failed"}

TypeOK == /\ pc \in [Jobs -> Labels]
          /\ image \in [Jobs -> Images \union {NoImage}]
          /\ version \in Nat /\ container \in Nat /\ env \in Nat /\ uploaded \in Nat
          /\ coords \in (Int \X Int) \union {Unplaced}

LEMMA ImagesType == Images \subseteq Nat \ {0}
BY DeploymentAssumption DEF Revisions

LEMMA InitTyped == Init => TypeOK
BY DeploymentAssumption DEF Init, TypeOK, Labels, Starts, MovePoints, NoImage, Idle

LEMMA NextTyped == TypeOK /\ [Next]_vars => TypeOK'
<1> SUFFICES ASSUME TypeOK, [Next]_vars PROVE TypeOK'
  OBVIOUS
<1> USE ImagesType DEF TypeOK
<1>1. ASSUME NEW j \in Jobs, Copy(j) PROVE TypeOK'
  BY <1>1 DEF Copy, Goto, Labels, database, NoImage
<1>2. ASSUME NEW j \in Jobs, Install(j) PROVE TypeOK'
  BY <1>2 DEF Install, Goto, Labels, database, NoImage
<1>3. ASSUME NEW j \in Jobs, Migrate(j) PROVE TypeOK'
  BY <1>3 DEF Migrate, Labels, database
<1>4. ASSUME NEW j \in Jobs, RemoveContainer(j) PROVE TypeOK'
  BY <1>4 DEF RemoveContainer, Labels, database, Idle, NoImage
<1>5. ASSUME NEW j \in Jobs, StopOld(j) \/ StartNew(j) PROVE TypeOK'
  BY <1>5 DEF StopOld, StartNew, Goto, Labels, database
<1>6. ASSUME NEW j \in Jobs, Die(j) PROVE TypeOK'
  BY <1>6 DEF Die, Goto, Labels, database, Idle, NoImage
<1>7. CASE EndMigrate
  <2>1. pc' \in [Jobs -> Labels]
    BY <1>7 DEF EndMigrate, Labels
  <2> QED
    BY <1>7, <2>1 DEF EndMigrate, Idle, NoImage
<1>8. CASE Downgrade
  BY <1>8 DEF Downgrade, database, jobs
<1>9. CASE UNCHANGED vars
  BY <1>9 DEF vars, database, jobs
<1> QED
  BY <1>1, <1>2, <1>3, <1>4, <1>5, <1>6, <1>7, <1>8, <1>9 DEF Next

-----------------------------------------------------------------------------
(* A job that is alone *)

\* The steps after which .env names a job's own image, and those after which its
\* migration has ended well.
Installed == {"installed", "migrating", "migrated", "refused", "rolling", "stopped"}
Migrated  == {"migrated", "rolling", "stopped"}

\* What a job knows of the server as long as no other job has been there.
Alone(j) ==
  /\ \A k \in Jobs \ {j} : ~Active(k)
  /\ pc[j] = "copied" => uploaded = image[j]
  /\ pc[j] \in Installed => env = image[j]
  /\ pc[j] = "migrating" => container = image[j]
  /\ pc[j] \in Migrated => version = image[j] /\ container = Idle

AloneInv == \A j \in Jobs \ overlapped : Active(j) => Alone(j) /\ image[j] \in Images

LEMMA InitAlone == Init => AloneInv
BY DEF Init, AloneInv, Active

\* A job that is alone is still alone, and active, if it was so before and nobody
\* else has become active.
LEMMA NextAlone == TypeOK /\ AloneInv /\ [Next]_vars => AloneInv'
<1> SUFFICES ASSUME TypeOK, AloneInv, [Next]_vars,
                    NEW j \in Jobs \ overlapped', Active(j)'
             PROVE  Alone(j)' /\ image'[j] \in Images
  BY DEF AloneInv
<1> USE DEF TypeOK, Active, Labels
<1>1. ASSUME NEW i \in Jobs, Copy(i) PROVE Alone(j)' /\ image'[j] \in Images
  <2>1. ~\E k \in Jobs : Active(k)
    <3>1. SUFFICES ASSUME NEW k \in Jobs, Active(k) PROVE FALSE
      OBVIOUS
    <3>2. i \in overlapped' /\ k \in overlapped'
      BY <1>1, <3>1 DEF Copy
    <3>3. j # i /\ Active(j)
      BY <1>1, <3>2 DEF Copy, Goto
    <3>4. j \in overlapped'
      BY <1>1, <3>1, <3>3 DEF Copy
    <3> QED
      BY <3>4
  <2>2. j = i /\ pc'[j] = "copied" /\ \A k \in Jobs \ {j} : pc'[k] = pc[k]
    BY <1>1, <2>1 DEF Copy, Goto
  <2>3. image'[j] \in Images /\ uploaded' = image'[j]
    BY <1>1, <2>2 DEF Copy
  <2> QED
    BY <2>1, <2>2, <2>3 DEF Alone, Installed, Migrated
<1>2. ASSUME ~\E i \in Jobs : Copy(i)
      PROVE  /\ Active(j) /\ Alone(j) /\ image[j] \in Images
             /\ image' = image /\ \A k \in Jobs \ {j} : ~Active(k)'
  <2>1. image' = image /\ overlapped' = overlapped /\ \A k \in Jobs : Active(k)' => Active(k)
    <3>1. ASSUME NEW k \in Jobs, Install(k) \/ StopOld(k) \/ StartNew(k) \/ Die(k)
          PROVE  image' = image /\ overlapped' = overlapped /\ \A x \in Jobs : Active(x)' => Active(x)
      BY <3>1 DEF Install, StopOld, StartNew, Die, Goto
    <3>2. ASSUME NEW k \in Jobs, Migrate(k) \/ RemoveContainer(k)
          PROVE  image' = image /\ overlapped' = overlapped /\ \A x \in Jobs : Active(x)' => Active(x)
      BY <3>2 DEF Migrate, RemoveContainer, Waiting
    <3>3. CASE EndMigrate
      BY <3>3 DEF EndMigrate, Waiting
    <3>4. CASE Downgrade
      BY <3>4 DEF Downgrade, jobs
    <3>5. CASE UNCHANGED vars
      BY <3>5 DEF vars, jobs
    <3> QED
      BY <1>2, <3>1, <3>2, <3>3, <3>4, <3>5 DEF Next
  <2> QED
    BY <2>1 DEF AloneInv, Alone
<1> USE DEF Alone, Installed, Migrated
<1>3. ASSUME NEW i \in Jobs, Install(i), ~\E k \in Jobs : Copy(k)
      PROVE  Alone(j)' /\ image'[j] \in Images
  BY <1>2, <1>3, ImagesType DEF Install, Goto, NoImage, database
<1>4. ASSUME NEW i \in Jobs, Migrate(i), ~\E k \in Jobs : Copy(k)
      PROVE  Alone(j)' /\ image'[j] \in Images
  BY <1>2, <1>4 DEF Migrate, database
<1>5. ASSUME NEW i \in Jobs, RemoveContainer(i), ~\E k \in Jobs : Copy(k)
      PROVE  Alone(j)' /\ image'[j] \in Images
  BY <1>2, <1>5 DEF RemoveContainer, database
<1>6. ASSUME NEW i \in Jobs, StopOld(i) \/ StartNew(i) \/ Die(i), ~\E k \in Jobs : Copy(k)
      PROVE  Alone(j)' /\ image'[j] \in Images
  BY <1>2, <1>6 DEF StopOld, StartNew, Die, Goto, database
<1>7. ASSUME EndMigrate, ~\E k \in Jobs : Copy(k)
      PROVE  Alone(j)' /\ image'[j] \in Images
  <2>1. /\ container # Idle /\ container' = Idle /\ UNCHANGED <<uploaded, env>>
        /\ \/ version' = container /\ pc' = [k \in Jobs |-> IF k \in Waiting THEN "migrated" ELSE pc[k]]
           \/ version' = version /\ pc' = [k \in Jobs |-> IF k \in Waiting THEN "refused" ELSE pc[k]]
    BY <1>7 DEF EndMigrate
  <2> QED
    BY <1>2, <1>7, <2>1 DEF Waiting
<1>8. ASSUME Downgrade, ~\E k \in Jobs : Copy(k) PROVE Alone(j)' /\ image'[j] \in Images
  BY <1>2, <1>8 DEF Downgrade
<1>9. ASSUME UNCHANGED vars, ~\E k \in Jobs : Copy(k) PROVE Alone(j)' /\ image'[j] \in Images
  BY <1>2, <1>9 DEF vars, database, jobs
<1> QED
  BY <1>1, <1>3, <1>4, <1>5, <1>6, <1>7, <1>8, <1>9 DEF Next

\* The job's last step puts the image of .env in service, which is its own.
LEMMA LastStep ==
  TypeOK /\ AloneInv /\ [Next]_vars =>
    \A j \in Jobs \ overlapped : pc[j] = "stopped" /\ pc'[j] = "done" =>
      service' = image[j] /\ version = image[j]
<1> SUFFICES ASSUME TypeOK, AloneInv, [Next]_vars, NEW j \in Jobs \ overlapped,
                    pc[j] = "stopped", pc'[j] = "done"
             PROVE  service' = image[j] /\ version = image[j]
  OBVIOUS
<1>1. Alone(j)
  BY DEF AloneInv, Active
<1>2. version = image[j] /\ env = image[j]
  BY <1>1 DEF Alone, Installed, Migrated
<1>3. StartNew(j)
  <2>1. ASSUME NEW k \in Jobs, Copy(k) \/ Install(k) \/ StopOld(k) \/ Die(k) PROVE FALSE
    BY <2>1 DEF Copy, Install, StopOld, Die, Goto, TypeOK, Active
  <2>2. ASSUME NEW k \in Jobs, Migrate(k) \/ RemoveContainer(k) PROVE FALSE
    BY <2>2 DEF Migrate, RemoveContainer, Waiting
  <2>3. ASSUME EndMigrate \/ Downgrade \/ UNCHANGED vars PROVE FALSE
    BY <2>3 DEF EndMigrate, Downgrade, Waiting, vars, jobs
  <2>4. ASSUME NEW k \in Jobs, StartNew(k) PROVE k = j
    BY <2>4 DEF StartNew, Goto, TypeOK
  <2> QED
    BY <2>1, <2>2, <2>3, <2>4 DEF Next
<1> QED
  BY <1>2, <1>3 DEF StartNew

\* A deploy job that no other one overlaps and that ends well has put its own image in
\* service, on the schema of that image, whatever jobs before it have left behind.
THEOREM GreenMeansDeployed == Spec => GreenJobDeployed
<1>1. TypeOK /\ AloneInv /\ [Next]_vars =>
        [\A j \in Jobs \ overlapped : pc[j] = "stopped" /\ pc'[j] = "done" =>
           service' = image[j] /\ version = image[j]]_vars
  BY LastStep
<1> QED
  BY <1>1, InitTyped, NextTyped, InitAlone, NextAlone, PTL DEF Spec, GreenJobDeployed

-----------------------------------------------------------------------------
(* Secrets on the map *)

\* From 0005 on a secret is where the UPDATE of that revision has put it.
PlaceInv == version >= MovePoints /\ coords # Unplaced =>
              place = Placed(coords) /\ Constrained(place)

LEMMA NextPlace == TypeOK /\ PlaceInv /\ [Next]_vars => PlaceInv'
<1> SUFFICES ASSUME TypeOK, PlaceInv, [Next]_vars PROVE PlaceInv'
  OBVIOUS
<1>1. CASE UNCHANGED database
  BY <1>1 DEF PlaceInv, database
<1>2. CASE EndMigrate
  <2>1. CASE UNCHANGED <<version, place, coords>>
    BY <2>1 DEF PlaceInv
  <2>2. CASE /\ version' = container /\ coords' = coords /\ version <= container
             /\ Placeable(container)
             /\ place' = IF version < MovePoints /\ container >= MovePoints
                         THEN Placed(coords) ELSE place
    BY <2>2 DEF PlaceInv, Placeable, TypeOK, MovePoints
  <2> QED
    BY <1>2, <2>1, <2>2 DEF EndMigrate, TypeOK
<1>3. CASE Downgrade
  <2>1. CASE UNCHANGED database
    BY <2>1 DEF PlaceInv, database
  <2>2. CASE /\ version' = version - 1 /\ coords' \in {coords, Unplaced}
             /\ place' = IF version <= MovePoints THEN Unplaced ELSE place
    BY <2>2 DEF PlaceInv, TypeOK, MovePoints
  <2> QED
    BY <1>3, <2>1, <2>2 DEF Downgrade
<1>4. CASE UNCHANGED vars
  BY <1>4 DEF PlaceInv, vars, database
<1>5. ASSUME NEW j \in Jobs, \/ Copy(j) \/ Install(j) \/ Migrate(j) \/ RemoveContainer(j)
                             \/ StopOld(j) \/ StartNew(j) \/ Die(j)
      PROVE  UNCHANGED database
  BY <1>5 DEF Copy, Install, Migrate, RemoveContainer, StopOld, StartNew, Die
<1> QED
  BY <1>1, <1>2, <1>3, <1>4, <1>5 DEF Next

\* SecretsStayPut: the UPDATE of 0005 and the check constraint it meets put a pair of
\* coordinates, whichever numbers they are, where it was, or nowhere.
THEOREM SecretsMoved == Spec => []SecretsStayPut
<1>1. Init => PlaceInv
  BY DEF Init, Starts, PlaceInv, MovePoints
<1>2. TypeOK /\ PlaceInv => SecretsStayPut
  <2> SUFFICES ASSUME TypeOK, PlaceInv, version >= MovePoints, coords # Unplaced
               PROVE  LET first == coords[1]  second == coords[2] IN
                        \/ first \in Latitudes /\ second \in Longitudes /\ place = coords
                        \/ first \in Longitudes \ Latitudes /\ second \in Latitudes
                           /\ place = <<second, first>>
                        \/ first \notin Latitudes /\ second \notin Latitudes /\ place = Unplaced
    BY DEF SecretsStayPut
  <2>1. PICK first \in Int, second \in Int : coords = <<first, second>>
    BY DEF TypeOK
  <2>2. place = Placed(<<first, second>>) /\ (place = Unplaced \/ place[2] \in Longitudes)
    BY <2>1 DEF PlaceInv, Constrained
  <2>3. CASE first \in Latitudes
    BY <2>1, <2>2, <2>3 DEF Placed, Unplaced
  <2>4. CASE first \notin Latitudes /\ second \in Latitudes
    BY <2>1, <2>2, <2>4 DEF Placed, Unplaced
  <2>5. CASE first \notin Latitudes /\ second \notin Latitudes
    BY <2>1, <2>2, <2>5 DEF Placed, Unplaced
  <2> QED
    BY <2>3, <2>4, <2>5
<1> QED
  BY <1>1, <1>2, InitTyped, NextTyped, NextPlace, PTL DEF Spec

-----------------------------------------------------------------------------
(* The chain of the revisions *)

\* What MigrationsApply and OldCodeServed look for one revision at a time, of every
\* revision.  The run of two jobs takes the database to each one of them.
EachUpgradeApplies == \A r \in Revisions : UpgradeApplies(r)
EachDowngradeReverts == \A r \in Revisions : DowngradeReverts(r)
EachRevisionServes ==
  \A v \in {0} \union Revisions : MovePoints <= v /\ v + 1 \in Revisions =>
    Serves(SchemaAt(v + 1), SchemaAt(v))

\* From one revision to the next as far as the last one: a set of versions that is left
\* at none of them has all the versions from its first one on.
LEMMA Climb ==
  ASSUME NEW S, NEW from \in 0..14, from \in S,
         \A r \in Revisions : from < r /\ r - 1 \in S => r \in S
  PROVE  from..14 \subseteq S
<1> USE DEF Revisions
<1>1. from + 1 <= 14 => from + 1 \in S
  OBVIOUS
<1>2. from + 2 <= 14 => from + 2 \in S
  BY <1>1
<1>3. from + 3 <= 14 => from + 3 \in S
  BY <1>2
<1>4. from + 4 <= 14 => from + 4 \in S
  BY <1>3
<1>5. from + 5 <= 14 => from + 5 \in S
  BY <1>4
<1>6. from + 6 <= 14 => from + 6 \in S
  BY <1>5
<1>7. from + 7 <= 14 => from + 7 \in S
  BY <1>6
<1>8. from + 8 <= 14 => from + 8 \in S
  BY <1>7
<1>9. from + 9 <= 14 => from + 9 \in S
  BY <1>8
<1>10. from + 10 <= 14 => from + 10 \in S
  BY <1>9
<1>11. from + 11 <= 14 => from + 11 \in S
  BY <1>10
<1>12. from + 12 <= 14 => from + 12 \in S
  BY <1>11
<1>13. from + 13 <= 14 => from + 13 \in S
  BY <1>12
<1>14. from + 14 <= 14 => from + 14 \in S
  BY <1>13
<1> SUFFICES ASSUME NEW r \in from..14 PROVE r \in S
  OBVIOUS
<1>15. r = from \/ \E k \in 1..14 : r = from + k /\ from + k <= 14
  <2>1. r - from \in 0..14 /\ r = from + (r - from)
    OBVIOUS
  <2> QED
    BY <2>1
<1> QED
  BY <1>1, <1>2, <1>3, <1>4, <1>5, <1>6, <1>7, <1>8, <1>9, <1>10, <1>11, <1>12, <1>13, <1>14, <1>15

\* A migration over several revisions is the revisions one after another: if each one
\* applies to the schema of the one before, they apply in one transaction.
LEMMA UpgradeOverSeveral ==
  ASSUME EachUpgradeApplies, NEW from \in 0..14, NEW to \in from..14
  PROVE  Upgraded(SchemaAt(from), from, to, Tables(SchemaAt(from))) = Done(to)
<1> DEFINE filled == Tables(SchemaAt(from))
           Next1(r, before) ==
             CHOOSE done \in {Execute(upgrade[r], b, filled) : b \in {before}} : TRUE
           Runs(f) == f = [r \in from..to |-> IF r = from THEN Done(from)
                                              ELSE Next1(r, f[r - 1])]
<1>1. \A r \in Revisions : from < r => Next1(r, Done(r - 1)) = Done(r)
  <2> SUFFICES ASSUME NEW r \in Revisions, from < r PROVE Next1(r, Done(r - 1)) = Done(r)
    OBVIOUS
  <2>1. Execute(upgrade[r], Done(r - 1), filled) = Done(r)
    BY DEF EachUpgradeApplies, UpgradeApplies, Revisions
  <2>2. {Execute(upgrade[r], b, filled) : b \in {Done(r - 1)}} = {Done(r)}
    BY <2>1
  <2> QED
    BY <2>2
<1> DEFINE g == [r \in from..to |-> Done(r)]
<1> HIDE DEF Next1
<1>2. Runs(g)
  <2>1. \A r \in from..to : g[r] = IF r = from THEN Done(from) ELSE Next1(r, g[r - 1])
    <3> SUFFICES ASSUME NEW r \in from..to, r # from PROVE g[r] = Next1(r, g[r - 1])
      OBVIOUS
    <3>1. r \in Revisions /\ from < r /\ r - 1 \in from..to
      BY DEF Revisions
    <3> QED
      BY <1>1, <3>1
  <2> QED
    BY <2>1
<1>3. \A f : Runs(f) => f[to] = Done(to)
  <2> SUFFICES ASSUME NEW f, Runs(f) PROVE f[to] = Done(to)
    OBVIOUS
  <2> DEFINE S == {r \in 0..14 : r \in from..to => f[r] = Done(r)}
  <2>1. \A r \in from..to : f[r] = IF r = from THEN Done(from) ELSE Next1(r, f[r - 1])
    BY Runs(f)
  <2>2. from \in S
    BY <2>1
  <2>3. \A r \in Revisions : from < r /\ r - 1 \in S => r \in S
    <3> SUFFICES ASSUME NEW r \in Revisions, from < r, r - 1 \in S PROVE r \in S
      OBVIOUS
    <3>1. ASSUME r \in from..to PROVE f[r] = Done(r)
      <4>1. f[r - 1] = Done(r - 1)
        BY <3>1 DEF Revisions
      <4> QED
        BY <1>1, <2>1, <3>1, <4>1
    <3> QED
      BY <3>1 DEF Revisions
  <2> HIDE DEF S
  <2>4. from..14 \subseteq S
    BY <2>2, <2>3, Climb
  <2>5. to \in S
    BY <2>4
  <2> QED
    BY <2>5 DEF S
<1> HIDE DEF g, Runs
<1>4. Runs(CHOOSE f : Runs(f))
  BY <1>2
<1>5. Upgraded(SchemaAt(from), from, to, filled) = (CHOOSE f : Runs(f))[to]
  BY DEF Upgraded, Runs, Next1, Done
<1> QED
  BY <1>3, <1>4, <1>5

\* The database between two steps: at a version of the chain, on the schema of that
\* version, and whatever names an image names one of the chain or none.
ChainInv == /\ version \in 0..14 /\ schema = SchemaAt(version) /\ refusal # "statement"
            /\ {env, uploaded, container, service} \subseteq {0} \union Revisions

LEMMA InitChain == Init => ChainInv
BY DEF Init, ChainInv, Starts, MovePoints, Revisions, NoImage, Idle

LEMMA NextChain ==
  ASSUME EachUpgradeApplies, EachDowngradeReverts
  PROVE  ChainInv /\ [Next]_vars => ChainInv'
<1> SUFFICES ASSUME ChainInv, [Next]_vars PROVE ChainInv'
  OBVIOUS
<1> USE DEF ChainInv
<1>1. Images \subseteq Revisions
  BY DeploymentAssumption
<1>2. ASSUME NEW j \in Jobs, \/ Copy(j) \/ Install(j) \/ Migrate(j) \/ RemoveContainer(j)
                               \/ StopOld(j) \/ StartNew(j) \/ Die(j)
      PROVE  ChainInv'
  <2>1. UNCHANGED <<schema, version, refusal>>
    BY <1>2 DEF Copy, Install, Migrate, RemoveContainer, StopOld, StartNew, Die, database
  <2>2. {env, uploaded, container, service}' \subseteq {0} \union Revisions
    BY <1>1, <1>2 DEF Copy, Install, Migrate, RemoveContainer, StopOld, StartNew, Die,
                      NoImage, Idle
  <2> QED
    BY <2>1, <2>2
<1>3. CASE EndMigrate
  <2>1. UNCHANGED <<env, uploaded, service>> /\ container' = 0
    BY <1>3 DEF EndMigrate, Idle, NoImage
  <2>2. CASE version > container
    <3>1. refusal' # "statement" /\ UNCHANGED <<schema, version>>
      BY <1>3, <2>2 DEF EndMigrate, Revisions
    <3> QED
      BY <2>1, <3>1
  <2>3. CASE version <= container
    <3>1. container \in version..14
      BY <2>3 DEF Revisions
    <3>2. Upgraded(schema, version, container, Tables(schema)) = Done(container)
      BY <3>1, UpgradeOverSeveral
    <3>3. \/ refusal' = "none" /\ schema' = SchemaAt(container) /\ version' = container
          \/ refusal' = "place" /\ UNCHANGED <<schema, version>>
      BY <1>3, <2>3, <3>2 DEF EndMigrate, Done, Revisions
    <3> QED
      BY <2>1, <3>1, <3>3
  <2> QED
    BY <2>2, <2>3 DEF Revisions
<1>4. CASE Downgrade
  <2>1. version \in Revisions
    BY <1>4 DEF Downgrade, Revisions
  <2>2. Downgraded(schema, version) = Done(version - 1)
    BY <2>1 DEF EachDowngradeReverts, DowngradeReverts
  <2>3. refusal' = "none" /\ schema' = SchemaAt(version - 1) /\ version' = version - 1
    BY <1>4, <2>2 DEF Downgrade, Done
  <2>4. UNCHANGED <<env, uploaded, container, service>>
    BY <1>4 DEF Downgrade
  <2> QED
    BY <2>1, <2>3, <2>4 DEF Revisions
<1>5. CASE UNCHANGED vars
  BY <1>5 DEF vars, database
<1> QED
  BY <1>2, <1>3, <1>4, <1>5 DEF Next

\* The revisions apply and revert one by one: then, whichever jobs meet, die or are refused
\* and whatever is downgraded by hand between them, the database has the schema its
\* version says.
THEOREM DatabaseOfItsVersion ==
  ASSUME EachUpgradeApplies, EachDowngradeReverts
  PROVE  Spec => []SchemaOfVersion
<1>1. ChainInv => SchemaOfVersion
  BY DEF ChainInv, SchemaOfVersion
<1>2. ChainInv /\ [Next]_vars => ChainInv'
  BY NextChain
<1> QED
  BY <1>1, <1>2, InitChain, PTL DEF Spec

\* And no migration of any images, over however many revisions, is refused a statement.
THEOREM NoStatementRefused ==
  ASSUME EachUpgradeApplies, EachDowngradeReverts
  PROVE  Spec => []MigrationsApply
<1>1. ChainInv => MigrationsApply
  BY DEF ChainInv, MigrationsApply, EachUpgradeApplies, EachDowngradeReverts
<1>2. ChainInv /\ [Next]_vars => ChainInv'
  BY NextChain
<1> QED
  BY <1>1, <1>2, InitChain, PTL DEF Spec

-----------------------------------------------------------------------------
(* Old code on a later schema *)

LEMMA ServesOnwards ==
  ASSUME NEW first, NEW second, NEW third, Serves(second, first), Serves(third, second)
  PROVE  Serves(third, first)
<1>1. Tables(first) \subseteq Tables(second)
  <2> SUFFICES ASSUME NEW o \in first, o.kind = "table" PROVE o \in second
    BY DEF Tables
  <2> QED
    BY DEF Serves, OfKind
<1>2. OfKind(first, {"table", "column", "label", "unique"}) \subseteq third
  BY DEF Serves, OfKind
<1>3. ASSUME NEW o \in third, o.kind = "required", o.table \in Tables(first)
      PROVE  o \in first
  <2>1. o \in second
    BY <1>1, <1>3 DEF Serves, OfKind
  <2> QED
    BY <1>3, <2>1 DEF Serves, OfKind
<1> QED
  BY <1>2, <1>3 DEF Serves, OfKind

\* No revision takes from the code of the one before what it needs: then none takes it
\* from the code of any earlier one, back to 0005.
LEMMA ServesAllLater ==
  ASSUME EachRevisionServes, NEW own \in MovePoints..14, NEW later \in own..14
  PROVE  Serves(SchemaAt(later), SchemaAt(own))
<1> DEFINE S == {r \in 0..14 : r >= own => Serves(SchemaAt(r), SchemaAt(own))}
<1>1. own \in S /\ own \in 0..14
  <2>1. Serves(SchemaAt(own), SchemaAt(own))
    BY DEF Serves, OfKind
  <2> QED
    BY <2>1 DEF MovePoints
<1>2. \A r \in Revisions : own < r /\ r - 1 \in S => r \in S
  <2> SUFFICES ASSUME NEW r \in Revisions, own < r, r - 1 \in S PROVE r \in S
    OBVIOUS
  <2>1. Serves(SchemaAt(r - 1), SchemaAt(own))
    BY DEF Revisions, MovePoints
  <2>2. r - 1 \in {0} \union Revisions /\ MovePoints <= r - 1 /\ (r - 1) + 1 = r
    BY DEF Revisions, MovePoints
  <2>3. Serves(SchemaAt(r), SchemaAt(r - 1))
    BY <2>2 DEF EachRevisionServes
  <2>4. Serves(SchemaAt(r), SchemaAt(own))
    BY <2>1, <2>3, ServesOnwards
  <2> QED
    BY <2>4 DEF Revisions
<1> HIDE DEF S
<1>3. own..14 \subseteq S
  BY <1>1, <1>2, Climb
<1> QED
  BY <1>3 DEF S, MovePoints

\* The images in service, whichever they are and however far the migrations of other jobs
\* have gone meanwhile, find in the database what their own revision has put there.
THEOREM OldImagesServed ==
  ASSUME EachUpgradeApplies, EachDowngradeReverts, EachRevisionServes
  PROVE  Spec => []OldCodeServed
<1>1. ChainInv => OldCodeServed
  <2> SUFFICES ASSUME ChainInv PROVE OldCodeServed
    OBVIOUS
  <2>1. MovePoints <= service /\ service <= version => Serves(schema, SchemaAt(service))
    BY ServesAllLater DEF ChainInv, MovePoints, Revisions
  <2>2. MovePoints <= version /\ version + 1 \in Revisions =>
          Serves(SchemaAt(version + 1), SchemaAt(version))
    BY DEF ChainInv, EachRevisionServes, Revisions
  <2> QED
    BY <2>1, <2>2 DEF OldCodeServed
<1>2. ChainInv /\ [Next]_vars => ChainInv'
  BY NextChain
<1> QED
  BY <1>1, <1>2, InitChain, PTL DEF Spec
=============================================================================
