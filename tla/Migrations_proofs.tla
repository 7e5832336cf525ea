------------------------- MODULE Migrations_proofs --------------------------
(***************************************************************************)
(* What both migrations and the chunked stream guarantee for any number of *)
(* items, records and runs, and every size of a file and of a chunk.       *)
(***************************************************************************)
EXTENDS MCMigrations, TLAPS

(***************************************************************************)
(* The storage migration                                                   *)
(***************************************************************************)

(* A link that can no longer be opened, and a tool in the middle of a run. *)
Closed(i) == db[i].status \in {"consumed", "husk", "gone"}

Working == tool.pc \in {"next", "copy", "point"}

(* What is claimed was delivered at most once, and is closed.              *)
Claimed ==
  \A i \in Items :
    /\ delivered[i] \in {0, 1}
    /\ delivered[i] = 1 \/ i \in lost => Closed(i)

(* A link that can be opened has its object where its path says, unless    *)
(* the cleanup has had a reason to remove it.                              *)
ObjectsStay ==
  \A i \in Items : Available(i) =>
    /\ db[i].path \in Backends
    /\ db[i].path = "s3" => i \in objects["s3"] \cup swept
    /\ db[i].path = "local" => i \in objects["local"] \cup missed

(* A copy of the cleanup lists what is on local storage, whatever the tool *)
(* has moved since.                                                        *)
CopiesList ==
  \A paths \in active, i \in Items :
    Available(i) /\ db[i].path = "local" => <<i, "local">> \in paths \/ i \in missed

(* What the tool will point to is there.                                   *)
UploadedFirst ==
  tool.pc = "point" => tool.item \in objects["s3"] \cup swept \/ Closed(tool.item)

(* The tool lists what there is.                                           *)
ListedExists ==
  \A i \in Items :
    i \in moved \/ i = tool.item \/ (\E b \in Backends : <<i, b>> \in todo) =>
      db[i].status # "new"

(* Before the first run in maintenance.                                    *)
Beforehand ==
  maintenance /\ runs = 0 =>
    /\ server # "s3" /\ tool = Idle /\ moved = {}
    /\ \A i \in Items : Available(i) => db[i].path = "local"

(* From it on.                                                             *)
Afterwards ==
  maintenance /\ runs # 0 =>
    /\ server # "local" /\ (server = "s3" => tool.pc = "done")
    /\ tool.pc \in {"copy", "point"} => tool.item \in objects["local"]

(* A record that still has a path of the storage directory is one the tool *)
(* will come to, or could not read.                                        *)
LeftBehind ==
  maintenance /\ (Working \/ tool.pc = "done") =>
    \A i \in Items : Available(i) /\ db[i].path = "local" =>
      \/ i \in unlisted
      \/ Working /\ (<<i, "local">> \in todo \/ tool.item = i)

(* The inductive invariant: losing nothing needs to know where every       *)
(* object is, what each list was read from, and how far the tool has come. *)
StorageInv ==
  /\ StorageTypeOK
  /\ Claimed /\ ObjectsStay /\ CopiesList /\ UploadedFirst /\ ListedExists
  /\ Beforehand /\ Afterwards /\ LeftBehind
  /\ RollbackCopiesStay /\ MaintainedMigrationLosesNothing
LEMMA CreateItemKeeps ==
  ASSUME StorageInv, NEW i \in Items, CreateItem(i)
  PROVE  StorageInv'
<1> USE StorageAssumption DEF StorageInv, StorageTypeOK, Backends, Available, toolVars, serverVars
<1>a. /\ i \in Items /\ db'[i] = [status |-> "available", path |-> server]
      /\ \A j \in Items \ {i} : db'[j] = db[j]
  BY DEF CreateItem, ItemRecord, NewItem
<1>1. StorageTypeOK'
  BY <1>a DEF StorageTypeOK, ItemRecord, CreateItem, NewItem
<1>2. Claimed'
  BY <1>a DEF Claimed, Closed, CreateItem, NewItem
<1>3. ObjectsStay'
  BY <1>a DEF ObjectsStay, CreateItem, NewItem
<1>4. CopiesList'
  BY <1>a DEF CopiesList, CreateItem, NewItem
<1>5. UploadedFirst'
  BY <1>a DEF UploadedFirst, Closed, CreateItem, NewItem
<1>6. ListedExists'
  BY <1>a DEF ListedExists, CreateItem, NewItem
<1>7. Beforehand'
  BY <1>a DEF Beforehand, Idle, CreateItem, NewItem
<1>8. Afterwards'
  BY <1>a DEF Afterwards, CreateItem, NewItem
<1>9. LeftBehind'
  <2> SUFFICES ASSUME maintenance, Working \/ tool.pc = "done"
               PROVE  LeftBehind'
    BY DEF CreateItem, LeftBehind, Working
  <2>1. runs # 0 /\ server = "s3"
    BY DEF CreateItem, Beforehand, Idle, Working, Afterwards
  <2>2. db'[i].path = "s3"
    BY <1>a, <2>1
  <2> QED  BY <1>a, <2>2 DEF CreateItem, LeftBehind, Working
<1>10. RollbackCopiesStay'
  <2>1. db[i].status = "new" /\ maintenance' = maintenance /\ moved' = moved
    BY DEF CreateItem, NewItem
  <2>2. i \notin moved /\ moved \subseteq Items
    BY <2>1 DEF ListedExists
  <2>3. objects["local"] \subseteq objects'["local"]
    BY DEF CreateItem
  <2> QED  BY <1>a, <2>1, <2>2, <2>3 DEF RollbackCopiesStay
<1>11. MaintainedMigrationLosesNothing'
  BY <1>a DEF MaintainedMigrationLosesNothing, CreateItem, NewItem
<1> QED  BY <1>1, <1>2, <1>3, <1>4, <1>5, <1>6, <1>7, <1>8, <1>9, <1>10, <1>11

LEMMA OpenItemKeeps ==
  ASSUME StorageInv, NEW i \in Items, OpenItem(i)
  PROVE  StorageInv'
<1> USE StorageAssumption DEF StorageInv, StorageTypeOK, Backends, Available, toolVars, serverVars
<1>a. /\ i \in Items /\ db'[i] = [status |-> "consumed", path |-> "none"]
      /\ \A j \in Items \ {i} : db'[j] = db[j]
  BY DEF OpenItem, ItemRecord, Reaches
<1>1. StorageTypeOK'
  BY <1>a DEF StorageTypeOK, ItemRecord, OpenItem, Reaches
<1>2. Claimed'
  BY <1>a DEF Claimed, Closed, OpenItem, Reaches
<1>3. ObjectsStay'
  BY <1>a DEF ObjectsStay, OpenItem, Reaches
<1>4. CopiesList'
  BY <1>a DEF CopiesList, OpenItem, Reaches
<1>5. UploadedFirst'
  BY <1>a DEF UploadedFirst, Closed, OpenItem, Reaches
<1>6. ListedExists'
  BY <1>a DEF ListedExists, OpenItem, Reaches
<1>7. Beforehand'
  BY <1>a DEF Beforehand, Idle, OpenItem, Reaches
<1>8. Afterwards'
  BY <1>a DEF Afterwards, OpenItem, Reaches
<1>9. LeftBehind'
  BY <1>a DEF LeftBehind, Working, Afterwards, Beforehand, ListedExists, OpenItem, Reaches
<1>10. RollbackCopiesStay'
  BY <1>a DEF RollbackCopiesStay, Afterwards, ListedExists, Beforehand, OpenItem, Reaches
<1>11. MaintainedMigrationLosesNothing'
  <2> SUFFICES ASSUME maintenance, ~Reaches(i)
               PROVE  i \in unlisted \cup missed \cup swept
    BY DEF MaintainedMigrationLosesNothing, OpenItem
  <2>1. Available(i) /\ db[i].path \in Backends /\ server \in Backends
    BY DEF OpenItem, ObjectsStay
  <2>2. CASE runs = 0
    BY <2>1, <2>2 DEF Beforehand, ObjectsStay, Reaches
  <2>3. CASE runs # 0
    <3>1. server = "s3" /\ tool.pc = "done"
      BY <2>1, <2>3 DEF Afterwards
    <3> QED  BY <2>1, <3>1 DEF ObjectsStay, LeftBehind, Working, Reaches
  <2> QED  BY <2>2, <2>3
<1> QED  BY <1>1, <1>2, <1>3, <1>4, <1>5, <1>6, <1>7, <1>8, <1>9, <1>10, <1>11

LEMMA ExpireItemKeeps ==
  ASSUME StorageInv, NEW i \in Items, ExpireItem(i)
  PROVE  StorageInv'
<1> USE StorageAssumption DEF StorageInv, StorageTypeOK, Backends, Available, toolVars, serverVars
<1>a. /\ i \in Items /\ db'[i] = [status |-> "gone", path |-> "none"]
      /\ \A j \in Items \ {i} : db'[j] = db[j]
  BY DEF ExpireItem, ItemRecord, GoneItem
<1>1. StorageTypeOK'
  BY <1>a DEF StorageTypeOK, ItemRecord, ExpireItem, GoneItem
<1>2. Claimed'
  BY <1>a DEF Claimed, Closed, ExpireItem, GoneItem
<1>3. ObjectsStay'
  BY <1>a DEF ObjectsStay, ExpireItem, GoneItem
<1>4. CopiesList'
  BY <1>a DEF CopiesList, ExpireItem, GoneItem
<1>5. UploadedFirst'
  BY <1>a DEF UploadedFirst, Closed, ExpireItem, GoneItem
<1>6. ListedExists'
  BY <1>a DEF ListedExists, ExpireItem, GoneItem
<1>7. Beforehand'
  BY <1>a DEF Beforehand, Idle, ExpireItem, GoneItem
<1>8. Afterwards'
  BY <1>a DEF Afterwards, ExpireItem, GoneItem
<1>9. LeftBehind'
  BY <1>a DEF LeftBehind, Working, Afterwards, Beforehand, ListedExists, ExpireItem, GoneItem
<1>10. RollbackCopiesStay'
  BY <1>a DEF RollbackCopiesStay, Afterwards, ListedExists, Beforehand, ExpireItem, GoneItem
<1>11. MaintainedMigrationLosesNothing'
  BY <1>a DEF MaintainedMigrationLosesNothing, ExpireItem, GoneItem
<1> QED  BY <1>1, <1>2, <1>3, <1>4, <1>5, <1>6, <1>7, <1>8, <1>9, <1>10, <1>11

LEMMA CopyActiveKeeps ==
  ASSUME StorageInv, CopyActive
  PROVE  StorageInv'
<1> USE StorageAssumption DEF StorageInv, StorageTypeOK, Backends, Available, toolVars, serverVars
<1>1. StorageTypeOK'
  <2>1. Paths \subseteq Items \X Backends
    BY DEF Paths, ObjectsStay
  <2>2. \A p \in Paths : <<p[1], Clean(p[2])>> \in Items \X {Clean(b) : b \in Backends}
    BY <2>1
  <2> QED  BY <2>1, <2>2 DEF CopyActive
<1>2. Claimed'
  BY DEF Claimed, Closed, CopyActive, Paths, Clean
<1>3. ObjectsStay'
  BY DEF ObjectsStay, CopyActive, Paths, Clean
<1>4. CopiesList'
  BY DEF CopiesList, CopyActive, Paths, Clean
<1>5. UploadedFirst'
  BY DEF UploadedFirst, Closed, CopyActive, Paths, Clean
<1>6. ListedExists'
  BY DEF ListedExists, CopyActive, Paths, Clean
<1>7. Beforehand'
  BY DEF Beforehand, Idle, CopyActive, Paths, Clean
<1>8. Afterwards'
  BY DEF Afterwards, CopyActive, Paths, Clean
<1>9. LeftBehind'
  BY DEF LeftBehind, Working, Afterwards, Beforehand, ListedExists, CopyActive, Paths, Clean
<1>10. RollbackCopiesStay'
  BY DEF RollbackCopiesStay, Afterwards, ListedExists, Beforehand, CopyActive, Paths, Clean
<1>11. MaintainedMigrationLosesNothing'
  BY DEF MaintainedMigrationLosesNothing, CopyActive, Paths, Clean
<1> QED  BY <1>1, <1>2, <1>3, <1>4, <1>5, <1>6, <1>7, <1>8, <1>9, <1>10, <1>11

LEMMA SweepKeeps ==
  ASSUME StorageInv, Sweep
  PROVE  StorageInv'
<1> USE StorageAssumption DEF StorageInv, StorageTypeOK, Backends, Available, toolVars, serverVars
<1>1. StorageTypeOK'
  BY DEF StorageTypeOK, ItemRecord, Sweep
<1>2. Claimed'
  BY DEF Claimed, Closed, Sweep
<1>3. ObjectsStay'
  <2>1. db' = db /\ missed' = missed /\ swept \subseteq swept'
    BY DEF Sweep
  <2>2. CASE server = "local"
    <3>1. objects'["s3"] = objects["s3"]
      BY <2>2 DEF Sweep
    <3>2. \A i \in Items : Available(i) /\ db[i].path = "local" =>
            i \in objects'["local"] \cup missed
      BY <2>2 DEF Sweep, CopiesList, ObjectsStay
    <3> QED  BY <2>1, <3>1, <3>2 DEF ObjectsStay
  <2>3. CASE server = "s3"
    <3>1. /\ objects'["local"] = objects["local"]
          /\ objects["s3"] \cup swept \subseteq objects'["s3"] \cup swept'
      BY <2>3 DEF Sweep
    <3> QED  BY <2>1, <3>1 DEF ObjectsStay
  <2> QED  BY <2>2, <2>3 DEF Sweep
<1>4. CopiesList'
  BY DEF CopiesList, Sweep
<1>5. UploadedFirst'
  BY DEF UploadedFirst, Closed, Sweep
<1>6. ListedExists'
  BY DEF ListedExists, Sweep
<1>7. Beforehand'
  BY DEF Beforehand, Idle, Sweep
<1>8. Afterwards'
  BY DEF Afterwards, Sweep
<1>9. LeftBehind'
  BY DEF LeftBehind, Working, Afterwards, Beforehand, ListedExists, Sweep
<1>10. RollbackCopiesStay'
  BY DEF RollbackCopiesStay, Afterwards, ListedExists, Beforehand, Sweep
<1>11. MaintainedMigrationLosesNothing'
  BY DEF MaintainedMigrationLosesNothing, Sweep
<1> QED  BY <1>1, <1>2, <1>3, <1>4, <1>5, <1>6, <1>7, <1>8, <1>9, <1>10, <1>11

LEMMA StopServerKeeps ==
  ASSUME StorageInv, StopServer
  PROVE  StorageInv'
<1> USE StorageAssumption DEF StorageInv, StorageTypeOK, Backends, Available, toolVars, serverVars
<1>1. StorageTypeOK'
  BY DEF StorageTypeOK, ItemRecord, StopServer
<1>2. Claimed'
  BY DEF Claimed, Closed, StopServer
<1>3. ObjectsStay'
  BY DEF ObjectsStay, StopServer
<1>4. CopiesList'
  BY DEF CopiesList, StopServer
<1>5. UploadedFirst'
  BY DEF UploadedFirst, Closed, StopServer
<1>6. ListedExists'
  BY DEF ListedExists, StopServer
<1>7. Beforehand'
  BY DEF Beforehand, Idle, StopServer
<1>8. Afterwards'
  BY DEF Afterwards, StopServer
<1>9. LeftBehind'
  BY DEF LeftBehind, Working, Afterwards, Beforehand, ListedExists, StopServer
<1>10. RollbackCopiesStay'
  BY DEF RollbackCopiesStay, Afterwards, ListedExists, Beforehand, StopServer
<1>11. MaintainedMigrationLosesNothing'
  BY DEF MaintainedMigrationLosesNothing, StopServer
<1> QED  BY <1>1, <1>2, <1>3, <1>4, <1>5, <1>6, <1>7, <1>8, <1>9, <1>10, <1>11

LEMMA StartServerKeeps ==
  ASSUME StorageInv, NEW b \in Backends, StartServer(b)
  PROVE  StorageInv'
<1> USE StorageAssumption DEF StorageInv, StorageTypeOK, Backends, Available, toolVars, serverVars
<1>1. StorageTypeOK'
  BY DEF StorageTypeOK, ItemRecord, StartServer
<1>2. Claimed'
  BY DEF Claimed, Closed, StartServer
<1>3. ObjectsStay'
  BY DEF ObjectsStay, StartServer
<1>4. CopiesList'
  BY DEF CopiesList, StartServer
<1>5. UploadedFirst'
  BY DEF UploadedFirst, Closed, StartServer
<1>6. ListedExists'
  BY DEF ListedExists, StartServer
<1>7. Beforehand'
  BY DEF Beforehand, Idle, StartServer
<1>8. Afterwards'
  BY DEF Afterwards, StartServer
<1>9. LeftBehind'
  BY DEF LeftBehind, Working, Afterwards, Beforehand, ListedExists, StartServer
<1>10. RollbackCopiesStay'
  BY DEF RollbackCopiesStay, Afterwards, ListedExists, Beforehand, StartServer
<1>11. MaintainedMigrationLosesNothing'
  BY DEF MaintainedMigrationLosesNothing, StartServer
<1> QED  BY <1>1, <1>2, <1>3, <1>4, <1>5, <1>6, <1>7, <1>8, <1>9, <1>10, <1>11

LEMMA RunToolKeeps ==
  ASSUME StorageInv, RunTool
  PROVE  StorageInv'
<1> USE StorageAssumption DEF StorageInv, StorageTypeOK, Backends, Available, toolVars, serverVars
<1>1. StorageTypeOK'
  <2>1. Paths \subseteq Items \X Backends
    BY DEF Paths, ObjectsStay
  <2>2. todo' \subseteq Paths /\ unlisted' \subseteq Items
    BY <2>1 DEF RunTool
  <2> QED  BY <2>1, <2>2 DEF RunTool
<1>2. Claimed'
  BY DEF Claimed, Closed, RunTool, Paths
<1>3. ObjectsStay'
  BY DEF ObjectsStay, RunTool, Paths
<1>4. CopiesList'
  BY DEF CopiesList, RunTool, Paths
<1>5. UploadedFirst'
  BY DEF UploadedFirst, Closed, RunTool, Paths
<1>6. ListedExists'
  BY DEF ListedExists, RunTool, Paths
<1>7. Beforehand'
  BY DEF Beforehand, Idle, RunTool, Paths
<1>8. Afterwards'
  BY DEF Afterwards, RunTool, Paths
<1>9. LeftBehind'
  BY DEF LeftBehind, Working, Afterwards, Beforehand, ListedExists, RunTool, Paths
<1>10. RollbackCopiesStay'
  BY DEF RollbackCopiesStay, Afterwards, ListedExists, Beforehand, RunTool, Paths
<1>11. MaintainedMigrationLosesNothing'
  BY DEF MaintainedMigrationLosesNothing, RunTool, Paths
<1> QED  BY <1>1, <1>2, <1>3, <1>4, <1>5, <1>6, <1>7, <1>8, <1>9, <1>10, <1>11

LEMMA OpenSourceKeeps ==
  ASSUME StorageInv, NEW p \in todo, OpenSource(p[1], p[2])
  PROVE  StorageInv'
<1> USE StorageAssumption DEF StorageInv, StorageTypeOK, Backends, Available, toolVars, serverVars
<1>1. StorageTypeOK'
  BY DEF StorageTypeOK, ItemRecord, OpenSource
<1>2. Claimed'
  BY DEF Claimed, Closed, OpenSource
<1>3. ObjectsStay'
  BY DEF ObjectsStay, OpenSource
<1>4. CopiesList'
  BY DEF CopiesList, OpenSource
<1>5. UploadedFirst'
  BY DEF UploadedFirst, Closed, OpenSource
<1>6. ListedExists'
  BY DEF ListedExists, OpenSource
<1>7. Beforehand'
  BY DEF Beforehand, Idle, OpenSource
<1>8. Afterwards'
  BY DEF Afterwards, OpenSource
<1>9. LeftBehind'
  BY DEF LeftBehind, Working, Afterwards, Beforehand, ListedExists, OpenSource
<1>10. RollbackCopiesStay'
  BY DEF RollbackCopiesStay, Afterwards, ListedExists, Beforehand, OpenSource
<1>11. MaintainedMigrationLosesNothing'
  BY DEF MaintainedMigrationLosesNothing, OpenSource
<1> QED  BY <1>1, <1>2, <1>3, <1>4, <1>5, <1>6, <1>7, <1>8, <1>9, <1>10, <1>11

LEMMA UploadKeeps ==
  ASSUME StorageInv, Upload
  PROVE  StorageInv'
<1> USE StorageAssumption DEF StorageInv, StorageTypeOK, Backends, Available, toolVars, serverVars
<1>1. StorageTypeOK'
  BY DEF StorageTypeOK, ItemRecord, Upload
<1>2. Claimed'
  BY DEF Claimed, Closed, Upload
<1>3. ObjectsStay'
  BY DEF ObjectsStay, Upload
<1>4. CopiesList'
  BY DEF CopiesList, Upload
<1>5. UploadedFirst'
  BY DEF UploadedFirst, Closed, Upload
<1>6. ListedExists'
  BY DEF ListedExists, Upload
<1>7. Beforehand'
  BY DEF Beforehand, Idle, Upload
<1>8. Afterwards'
  BY DEF Afterwards, Upload
<1>9. LeftBehind'
  BY DEF LeftBehind, Working, Afterwards, Beforehand, ListedExists, Upload
<1>10. RollbackCopiesStay'
  BY DEF RollbackCopiesStay, Afterwards, ListedExists, Beforehand, Upload
<1>11. MaintainedMigrationLosesNothing'
  BY DEF MaintainedMigrationLosesNothing, Upload
<1> QED  BY <1>1, <1>2, <1>3, <1>4, <1>5, <1>6, <1>7, <1>8, <1>9, <1>10, <1>11

LEMMA PointKeeps ==
  ASSUME StorageInv, Point
  PROVE  StorageInv'
<1> USE StorageAssumption DEF StorageInv, StorageTypeOK, Backends, Available, toolVars, serverVars
<1>a. /\ tool.item \in Items /\ db'[tool.item] = Pointed(tool.item)
      /\ \A j \in Items \ {tool.item} : db'[j] = db[j]
  BY DEF Point, ItemRecord, Pointed
<1>1. StorageTypeOK'
  BY <1>a DEF StorageTypeOK, ItemRecord, Point, Pointed
<1>2. Claimed'
  BY <1>a DEF Claimed, Closed, Point, Pointed
<1>3. ObjectsStay'
  <2>1. objects' = objects /\ swept' = swept /\ missed' = missed
    BY DEF Point
  <2>2. \A i \in Items : i = tool.item =>
          /\ db'[i].path = "s3"
          /\ Available(i)' => i \in objects["s3"] \cup swept
    BY <1>a DEF Point, Pointed, UploadedFirst, Closed
  <2>3. \A i \in Items : i # tool.item => db'[i] = db[i]
    BY <1>a
  <2> QED  BY <2>1, <2>2, <2>3 DEF ObjectsStay
<1>4. CopiesList'
  BY <1>a DEF CopiesList, Point, Pointed
<1>5. UploadedFirst'
  BY <1>a DEF UploadedFirst, Closed, Point, Pointed
<1>6. ListedExists'
  BY <1>a DEF ListedExists, Point, Pointed
<1>7. Beforehand'
  BY <1>a DEF Beforehand, Idle, Point, Pointed
<1>8. Afterwards'
  BY <1>a DEF Afterwards, Point, Pointed
<1>9. LeftBehind'
  BY <1>a DEF LeftBehind, Working, Afterwards, Beforehand, ListedExists, Point, Pointed
<1>10. RollbackCopiesStay'
  <2>1. /\ objects' = objects /\ maintenance' = maintenance
        /\ moved' = moved \cup {tool.item} /\ moved \subseteq Items
    BY DEF Point
  <2>2. maintenance => tool.item \in objects["local"]
    BY DEF Point, Beforehand, Idle, Afterwards
  <2>3. \A i \in Items : Available(i)' => Available(i)
    BY <1>a DEF Pointed
  <2> QED  BY <2>1, <2>2, <2>3 DEF RollbackCopiesStay
<1>11. MaintainedMigrationLosesNothing'
  BY <1>a DEF MaintainedMigrationLosesNothing, Point, Pointed
<1> QED  BY <1>1, <1>2, <1>3, <1>4, <1>5, <1>6, <1>7, <1>8, <1>9, <1>10, <1>11

LEMMA ToolStopsKeeps ==
  ASSUME StorageInv, ToolStops
  PROVE  StorageInv'
<1> USE StorageAssumption DEF StorageInv, StorageTypeOK, Backends, Available, toolVars, serverVars
<1>1. StorageTypeOK'
  BY DEF StorageTypeOK, ItemRecord, ToolStops
<1>2. Claimed'
  BY DEF Claimed, Closed, ToolStops
<1>3. ObjectsStay'
  BY DEF ObjectsStay, ToolStops
<1>4. CopiesList'
  BY DEF CopiesList, ToolStops
<1>5. UploadedFirst'
  BY DEF UploadedFirst, Closed, ToolStops
<1>6. ListedExists'
  BY DEF ListedExists, ToolStops
<1>7. Beforehand'
  BY DEF Beforehand, Idle, ToolStops
<1>8. Afterwards'
  BY DEF Afterwards, ToolStops
<1>9. LeftBehind'
  BY DEF LeftBehind, Working, Afterwards, Beforehand, ListedExists, ToolStops
<1>10. RollbackCopiesStay'
  BY DEF RollbackCopiesStay, Afterwards, ListedExists, Beforehand, ToolStops
<1>11. MaintainedMigrationLosesNothing'
  BY DEF MaintainedMigrationLosesNothing, ToolStops
<1> QED  BY <1>1, <1>2, <1>3, <1>4, <1>5, <1>6, <1>7, <1>8, <1>9, <1>10, <1>11

LEMMA FinishKeeps ==
  ASSUME StorageInv, Finish
  PROVE  StorageInv'
<1> USE StorageAssumption DEF StorageInv, StorageTypeOK, Backends, Available, toolVars, serverVars
<1>1. StorageTypeOK'
  BY DEF StorageTypeOK, ItemRecord, Finish
<1>2. Claimed'
  BY DEF Claimed, Closed, Finish
<1>3. ObjectsStay'
  BY DEF ObjectsStay, Finish
<1>4. CopiesList'
  BY DEF CopiesList, Finish
<1>5. UploadedFirst'
  BY DEF UploadedFirst, Closed, Finish
<1>6. ListedExists'
  BY DEF ListedExists, Finish
<1>7. Beforehand'
  BY DEF Beforehand, Idle, Finish
<1>8. Afterwards'
  BY DEF Afterwards, Finish
<1>9. LeftBehind'
  BY DEF LeftBehind, Working, Afterwards, Beforehand, ListedExists, Finish
<1>10. RollbackCopiesStay'
  BY DEF RollbackCopiesStay, Afterwards, ListedExists, Beforehand, Finish
<1>11. MaintainedMigrationLosesNothing'
  BY DEF MaintainedMigrationLosesNothing, Finish
<1> QED  BY <1>1, <1>2, <1>3, <1>4, <1>5, <1>6, <1>7, <1>8, <1>9, <1>10, <1>11

-----------------------------------------------------------------------------
LEMMA StorageInitInv == StorageInit => StorageInv
<1> SUFFICES ASSUME StorageInit
             PROVE  StorageInv
  OBVIOUS
<1>1. \A i \in Items : db[i].status = "new" /\ db[i].path = "none" /\ delivered[i] = 0
  BY DEF StorageInit, NewItem
<1>2. StorageTypeOK
  <2>1. db \in [Items -> ItemRecord] /\ objects \in [Backends -> SUBSET Items]
    BY DEF StorageInit, NewItem, ItemRecord
  <2>2. server \in Backends \cup {"down"} /\ runs \in 0..MaxRuns /\ delivered \in [Items -> Nat]
    BY StorageAssumption DEF StorageInit, Backends
  <2>3. /\ tool \in [pc : {"idle", "next", "copy", "point", "done", "failed"},
                    item : Items \cup {NoItem}]
        /\ tool.item \in Items <=> tool.pc \in {"copy", "point"}
    BY StorageAssumption DEF StorageInit, Idle
  <2> QED  BY <2>1, <2>2, <2>3 DEF StorageInit, StorageTypeOK
<1> QED  BY <1>1, <1>2, StorageAssumption
         DEF StorageInit, StorageInv, Claimed, ObjectsStay, CopiesList, UploadedFirst, ListedExists,
             Beforehand, Afterwards, LeftBehind, RollbackCopiesStay, MaintainedMigrationLosesNothing,
             Available, Working, Idle

LEMMA StorageStep == StorageInv /\ [StorageNext]_storageVars => StorageInv'
<1> SUFFICES ASSUME StorageInv, [StorageNext]_storageVars
             PROVE  StorageInv'
  OBVIOUS
<1>1. CASE UNCHANGED storageVars
  BY <1>1 DEF storageVars, toolVars, serverVars, StorageInv, StorageTypeOK, Claimed, Closed,
              ObjectsStay, CopiesList, UploadedFirst, ListedExists, Beforehand, Afterwards,
              LeftBehind, Working, RollbackCopiesStay, MaintainedMigrationLosesNothing, Available
<1>2. CASE StorageNext
  BY <1>2, CreateItemKeeps, OpenItemKeeps, ExpireItemKeeps, CopyActiveKeeps, SweepKeeps,
     StopServerKeeps, StartServerKeeps, RunToolKeeps, OpenSourceKeeps, UploadKeeps, PointKeeps,
     ToolStopsKeeps, FinishKeeps
     DEF StorageNext
<1> QED  BY <1>1, <1>2

(* MaintainedMigrationLosesNothing is not inductive: whether a claim finds *)
(* its file depends on what the cleanup has copied (CopiesList), on where  *)
(* the objects are (ObjectsStay, UploadedFirst), and on which server may   *)
(* run (Beforehand, Afterwards) with what was moved by then (LeftBehind).  *)
THEOREM StorageInvariant == StorageSpec => []StorageInv
BY StorageInitInv, StorageStep, PTL DEF StorageSpec

(* The variables of the storage migration keep their types.                *)
THEOREM StorageTypeCorrect == StorageSpec => []StorageTypeOK
BY StorageInvariant, PTL DEF StorageInv

(* In maintenance a link that is claimed is delivered, but for a listing   *)
(* that could not read it, or the cleanup of S3: before the first run all  *)
(* there is lies on local storage, and a run that completes has come to    *)
(* every record it could read.                                             *)
THEOREM MaintenanceLosesNothing == StorageSpec => []MaintainedMigrationLosesNothing
BY StorageInvariant, PTL DEF StorageInv

(* A path of S3 is written behind the upload of its object.                *)
THEOREM PathsFollow == StorageSpec => []PathsFollowObjects
<1>1. StorageInv => PathsFollowObjects
  BY DEF StorageInv, ObjectsStay, PathsFollowObjects
<1> QED  BY <1>1, StorageInvariant, PTL

(* No path that is written late opens a link again.                        *)
THEOREM NothingReopens == StorageSpec => []MigrationReopensNothing
<1>1. StorageInv => MigrationReopensNothing
  BY DEF StorageInv, Claimed, Closed, MigrationReopensNothing, Available
<1> QED  BY <1>1, StorageInvariant, PTL

(* In maintenance no server on local storage runs once a path was written. *)
THEOREM RollbackPossible == StorageSpec => []RollbackCopiesStay
BY StorageInvariant, PTL DEF StorageInv

(***************************************************************************)
(* The workspace migration                                                 *)
(***************************************************************************)

(* A run has two different workspaces, and what it holds is from its       *)
(* pattern.                                                                *)
RunOK ==
  /\ ~AtRest => run.from # run.to
  /\ AtRest \/ step.call = "scan" => keys = {}
  /\ step.call \in {"name", "join"} => step.key \in Users

(* Between the two writes of the user the tool is at.                      *)
Between(u) == step.call \in {"name", "join"} /\ step.key = u

(* The user was not moved elsewhere between them.                          *)
MovingHere ==
  \A m \in rehomed : Between(m[1]) => m[2] = run.to

(* MovedUsersAreMembers holds of a user the tool has only read, too.       *)
MovedAreMembers ==
  \A u \in Users, w \in Workspaces :
    <<u, w>> \in rehomed /\ home[u] = w /\ Whole(u) /\ ~Between(u) =>
      <<u, w>> \in member \/ u \in cut

(* The patterns that were scanned.                                         *)
Behind == {p \in DOMAIN Patterns :
             p < step.pattern \/ (p = step.pattern /\ step.call # "scan")}

(* A record of theirs that is still in the workspace the run empties was   *)
(* saved since, or the tool has it before it.                              *)
LeftAreFresh ==
  ~AtRest =>
    \A p \in Behind : \A r \in Records \cap Patterns[p] :
      Exists(r) /\ WorkspaceOf(r) = run.from =>
        r \in fresh \/ r \in keys \/ (step.call = "write" /\ r = step.key)

(* The inductive invariant: moving everybody needs to know what the run    *)
(* still has before it.                                                    *)
WorkspaceInv ==
  WorkspaceTypeOK /\ RunOK /\ MovingHere /\ MovedAreMembers /\ LeftAreFresh

-----------------------------------------------------------------------------
LEMMA PatternsAre ==
  /\ DOMAIN Patterns = 1..4 /\ Len(Patterns) = 4
  /\ Patterns[1] = Links /\ Patterns[2] = Events \cup {AuditIndex}
  /\ Patterns[3] = Users /\ Patterns[4] = ApiKeys
  /\ Records \subseteq Patterns[1] \cup Patterns[2] \cup Patterns[3] \cup Patterns[4]
  /\ Users \subseteq Records /\ LocalUsers \subseteq Users /\ EntraUsers \subseteq Users
  /\ Links \subseteq Records /\ Events \subseteq Records /\ ApiKeys \subseteq Records
BY DEF Patterns, Records, Users

(* A run may end wherever the tool is at rest, or has read a key.          *)
LEMMA EndRunKeeps ==
  ASSUME WorkspaceInv, NEW call \in {"done", "failed"}, EndRun(call), step.call = "read",
         UNCHANGED <<dataVars, starts, stopped, rehomed, cut>>
  PROVE  WorkspaceInv'
<1> USE MigrationAssumption, PatternsAre
        DEF WorkspaceInv, WorkspaceTypeOK, RunOK, AtRest, Exists, Whole, WorkspaceOf, Homes, dataVars
<1>a. /\ step' = [pattern |-> 1, call |-> call, key |-> NoKey]
      /\ run' = [from |-> Default, to |-> Default] /\ keys' = {} /\ fresh' = {}
  BY DEF EndRun, Rest, NoRun
<1>1. WorkspaceTypeOK'
  BY <1>a
<1>2. RunOK'
  BY <1>a
<1>3. MovingHere' /\ MovedAreMembers'
  BY <1>a DEF MovingHere, MovedAreMembers, Between
<1>4. LeftAreFresh'
  BY <1>a DEF LeftAreFresh
<1> QED  BY <1>1, <1>2, <1>3, <1>4

LEMMA CreateRecordKeeps ==
  ASSUME WorkspaceInv, NEW r \in Records, NEW w \in Workspaces, CreateRecord(r, w)
  PROVE  WorkspaceInv'
<1> USE MigrationAssumption, PatternsAre
        DEF WorkspaceInv, WorkspaceTypeOK, RunOK, AtRest, Exists, Whole, WorkspaceOf, Homes, dataVars, runVars
<1>1. WorkspaceTypeOK'
  BY DEF WorkspaceTypeOK, CreateRecord, Saved
<1>2. RunOK'
  BY DEF RunOK, CreateRecord, Saved
<1>3. MovingHere'
  BY DEF MovingHere, Between, CreateRecord, Saved
<1>4. MovedAreMembers'
  BY DEF MovedAreMembers, Between, MovingHere, CreateRecord, Saved
<1>5. LeftAreFresh'
  BY DEF LeftAreFresh, Behind, RunOK, CreateRecord, Saved
<1> QED  BY <1>1, <1>2, <1>3, <1>4, <1>5 DEF WorkspaceInv

LEMMA AdminSaveUserKeeps ==
  ASSUME WorkspaceInv, NEW r \in Records, NEW w \in Workspaces, AdminSaveUser(r, w)
  PROVE  WorkspaceInv'
<1> USE MigrationAssumption, PatternsAre
        DEF WorkspaceInv, WorkspaceTypeOK, RunOK, AtRest, Exists, Whole, WorkspaceOf, Homes, dataVars, runVars
<1>1. WorkspaceTypeOK'
  BY DEF WorkspaceTypeOK, AdminSaveUser, Saved
<1>2. RunOK'
  BY DEF RunOK, AdminSaveUser, Saved
<1>3. MovingHere'
  BY DEF MovingHere, Between, AdminSaveUser, Saved
<1>4. MovedAreMembers'
  BY DEF MovedAreMembers, Between, MovingHere, AdminSaveUser, Saved
<1>5. LeftAreFresh'
  BY DEF LeftAreFresh, Behind, RunOK, AdminSaveUser, Saved
<1> QED  BY <1>1, <1>2, <1>3, <1>4, <1>5 DEF WorkspaceInv

LEMMA AdminDeleteUserKeeps ==
  ASSUME WorkspaceInv, NEW r \in Records, NEW w \in Workspaces, AdminDeleteUser(r, w)
  PROVE  WorkspaceInv'
<1> USE MigrationAssumption, PatternsAre
        DEF WorkspaceInv, WorkspaceTypeOK, RunOK, AtRest, Exists, Whole, WorkspaceOf, Homes, dataVars, runVars
<1>1. WorkspaceTypeOK'
  BY DEF WorkspaceTypeOK, AdminDeleteUser
<1>2. RunOK'
  BY DEF RunOK, AdminDeleteUser
<1>3. MovingHere'
  BY DEF MovingHere, Between, AdminDeleteUser
<1>4. MovedAreMembers'
  BY DEF MovedAreMembers, Between, MovingHere, AdminDeleteUser
<1>5. LeftAreFresh'
  <2>1. UNCHANGED <<run, step, keys, fresh>> /\ Behind' = Behind
    <3>1. UNCHANGED <<run, step, keys, fresh>>
      BY DEF AdminDeleteUser
    <3> QED
      BY <3>1 DEF Behind
  <2>2. ASSUME NEW x \in Records, Exists(x)', WorkspaceOf(x)' = run.from
        PROVE  Exists(x) /\ WorkspaceOf(x) = run.from
    <3>1. home'[x] \in {home[x], "gone"} /\ run' = run
      BY DEF AdminDeleteUser
    <3> QED
      BY <2>2, <3>1
  <2> QED
    BY <2>1, <2>2 DEF LeftAreFresh
<1> QED  BY <1>1, <1>2, <1>3, <1>4, <1>5 DEF WorkspaceInv

LEMMA ExpireRecordKeeps ==
  ASSUME WorkspaceInv, NEW r \in Records, ExpireRecord(r)
  PROVE  WorkspaceInv'
<1> USE MigrationAssumption, PatternsAre
        DEF WorkspaceInv, WorkspaceTypeOK, RunOK, AtRest, Exists, Whole, WorkspaceOf, Homes, dataVars, runVars
<1>1. WorkspaceTypeOK'
  BY DEF WorkspaceTypeOK, ExpireRecord
<1>2. RunOK'
  BY DEF RunOK, ExpireRecord
<1>3. MovingHere'
  BY DEF MovingHere, Between, ExpireRecord
<1>4. MovedAreMembers'
  BY DEF MovedAreMembers, Between, MovingHere, ExpireRecord
<1>5. LeftAreFresh'
  BY DEF LeftAreFresh, Behind, RunOK, ExpireRecord
<1> QED  BY <1>1, <1>2, <1>3, <1>4, <1>5 DEF WorkspaceInv

LEMMA MicrosoftPostKeeps ==
  ASSUME WorkspaceInv, NEW r \in Records, MicrosoftPost(r)
  PROVE  WorkspaceInv'
<1> USE MigrationAssumption, PatternsAre
        DEF WorkspaceInv, WorkspaceTypeOK, RunOK, AtRest, Exists, Whole, WorkspaceOf, Homes, dataVars, runVars
<1>1. WorkspaceTypeOK'
  BY DEF WorkspaceTypeOK, MicrosoftPost, Saved
<1>2. RunOK'
  BY DEF RunOK, MicrosoftPost, Saved
<1>3. MovingHere'
  BY DEF MovingHere, Between, MicrosoftPost, Saved
<1>4. MovedAreMembers'
  BY DEF MovedAreMembers, Between, MovingHere, MicrosoftPost, Saved
<1>5. LeftAreFresh'
  BY DEF LeftAreFresh, Behind, RunOK, MicrosoftPost, Saved
<1> QED  BY <1>1, <1>2, <1>3, <1>4, <1>5 DEF WorkspaceInv

LEMMA RequestKeeps ==
  ASSUME WorkspaceInv, NEW r \in Records, Request(r)
  PROVE  WorkspaceInv'
<1> USE MigrationAssumption, PatternsAre
        DEF WorkspaceInv, WorkspaceTypeOK, RunOK, AtRest, Exists, Whole, WorkspaceOf, Homes, dataVars, runVars
<1>1. WorkspaceTypeOK'
  BY DEF WorkspaceTypeOK, Request
<1>2. RunOK'
  BY DEF RunOK, Request
<1>3. MovingHere'
  BY DEF MovingHere, Between, Request
<1>4. MovedAreMembers'
  BY DEF MovedAreMembers, Between, MovingHere, Request
<1>5. LeftAreFresh'
  BY DEF LeftAreFresh, Behind, RunOK, Request
<1> QED  BY <1>1, <1>2, <1>3, <1>4, <1>5 DEF WorkspaceInv

LEMMA StartRunKeeps ==
  ASSUME WorkspaceInv, NEW from \in Workspaces, NEW to \in Workspaces, StartRun(from, to)
  PROVE  WorkspaceInv'
<1> USE MigrationAssumption, PatternsAre
        DEF WorkspaceInv, WorkspaceTypeOK, RunOK, AtRest, Exists, Whole, WorkspaceOf, Homes, dataVars, runVars
<1>1. WorkspaceTypeOK'
  <2>1. /\ step' \in [pattern : DOMAIN Patterns, key : Records \cup {NoKey},
                     call : {"idle", "scan", "read", "write", "name", "join", "done", "failed"}]
        /\ step'.key \in Records <=> step'.call \in {"write", "name", "join"}
    BY DEF StartRun, Rest
  <2>2. run' \in [from : Workspaces, to : Workspaces] /\ starts' \in 0..MaxStarts
    BY DEF StartRun
  <2>3. step'.call \notin {"read", "write", "name", "join"} /\ stopped' \in BOOLEAN
    BY DEF StartRun, Rest
  <2>4. UNCHANGED <<home, husk, member, indexed, fresh, rehomed, cut>>
    BY DEF StartRun
  <2> QED  BY <2>1, <2>2, <2>3, <2>4
<1>2. RunOK'
  BY DEF RunOK, StartRun, Rest
<1>3. MovingHere'
  BY DEF MovingHere, Between, StartRun, Rest
<1>4. MovedAreMembers'
  BY DEF MovedAreMembers, Between, MovingHere, StartRun, Rest
<1>5. LeftAreFresh'
  BY DEF LeftAreFresh, Behind, RunOK, StartRun, Rest
<1> QED  BY <1>1, <1>2, <1>3, <1>4, <1>5 DEF WorkspaceInv

LEMMA ScanKeysKeeps ==
  ASSUME WorkspaceInv, ScanKeys
  PROVE  WorkspaceInv'
<1> USE MigrationAssumption, PatternsAre
        DEF WorkspaceInv, WorkspaceTypeOK, RunOK, AtRest, Exists, Whole, WorkspaceOf, Homes, dataVars, runVars
<1>1. WorkspaceTypeOK'
  BY DEF WorkspaceTypeOK, ScanKeys, Matching
<1>2. RunOK'
  BY DEF RunOK, ScanKeys, Matching
<1>3. MovingHere'
  BY DEF MovingHere, Between, ScanKeys, Matching
<1>4. MovedAreMembers'
  BY DEF MovedAreMembers, Between, MovingHere, ScanKeys, Matching
<1>5. LeftAreFresh'
  BY DEF LeftAreFresh, Behind, RunOK, ScanKeys, Matching
<1> QED  BY <1>1, <1>2, <1>3, <1>4, <1>5 DEF WorkspaceInv

LEMMA NextPatternKeeps ==
  ASSUME WorkspaceInv, NextPattern
  PROVE  WorkspaceInv'
<1> USE MigrationAssumption, PatternsAre
        DEF WorkspaceInv, WorkspaceTypeOK, RunOK, AtRest, Exists, Whole, WorkspaceOf, Homes, dataVars, runVars
<1>a. step.call = "read" /\ keys = {} /\ UNCHANGED <<dataVars, starts, stopped, rehomed, cut>>
  BY DEF NextPattern
<1>b. CASE step.pattern = Len(Patterns)
  <2>a. EndRun("done")
    BY <1>b DEF NextPattern
  <2> QED  BY <1>a, <2>a, EndRunKeeps
<1>c. CASE step.pattern # Len(Patterns)
  <2>a. /\ step.pattern \in 1..3 /\ UNCHANGED <<run, keys, fresh>>
        /\ step' = [pattern |-> step.pattern + 1, call |-> "scan", key |-> NoKey]
    <3>1. step.pattern \in 1..3
      BY <1>c
    <3>2. step' = [Rest EXCEPT !.pattern = step.pattern + 1, !.call = "scan"]
      BY <1>c DEF NextPattern
    <3>3. UNCHANGED <<run, keys, fresh>>
      BY <1>c DEF NextPattern
    <3> QED  BY <3>1, <3>2, <3>3 DEF Rest
  <2>1. WorkspaceTypeOK'
    BY <1>a, <2>a
  <2>2. RunOK'
    BY <1>a, <2>a
  <2>3. MovingHere' /\ MovedAreMembers'
    BY <1>a, <2>a DEF MovingHere, MovedAreMembers, Between
  <2>4. LeftAreFresh'
    BY <1>a, <2>a DEF LeftAreFresh, Behind
  <2> QED  BY <2>1, <2>2, <2>3, <2>4
<1> QED  BY <1>b, <1>c

LEMMA ReadWorkspaceKeeps ==
  ASSUME WorkspaceInv, NEW k \in keys, ReadWorkspace(k)
  PROVE  WorkspaceInv'
<1> USE MigrationAssumption, PatternsAre
        DEF WorkspaceInv, WorkspaceTypeOK, RunOK, AtRest, Exists, Whole, WorkspaceOf, Homes, dataVars, runVars
<1>a. step.call = "read" /\ UNCHANGED <<dataVars, starts, stopped, rehomed, cut>>
  BY DEF ReadWorkspace
<1>b. CASE k = AuditIndex
  <2>a. EndRun("failed")
    BY <1>b DEF ReadWorkspace
  <2> QED  BY <1>a, <2>a, EndRunKeeps
<1>c. CASE k # AuditIndex
  <2>a. /\ k \in Records /\ keys' = keys \ {k} /\ UNCHANGED <<run, fresh>>
        /\ step' = IF WorkspaceOf(k) = run.from
                   THEN [step EXCEPT !.call = "write", !.key = k] ELSE step
    BY <1>a, <1>c DEF ReadWorkspace
  <2>b. /\ step' \in [pattern : DOMAIN Patterns, key : Records \cup {NoKey},
                     call : {"idle", "scan", "read", "write", "name", "join", "done", "failed"}]
        /\ step'.key \in Records <=> step'.call \in {"write", "name", "join"}
    BY <1>a, <2>a
  <2>1. WorkspaceTypeOK'
    BY <1>a, <2>a, <2>b
  <2>2. RunOK'
    BY <1>a, <2>a
  <2>3. MovingHere' /\ MovedAreMembers'
    BY <1>a, <2>a DEF MovingHere, MovedAreMembers, Between
  <2>4. LeftAreFresh'
    BY <1>a, <2>a DEF LeftAreFresh, Behind
  <2> QED  BY <2>1, <2>2, <2>3, <2>4
<1> QED  BY <1>b, <1>c

LEMMA WriteWorkspaceKeeps ==
  ASSUME WorkspaceInv, WriteWorkspace
  PROVE  WorkspaceInv'
<1> USE MigrationAssumption, PatternsAre
        DEF WorkspaceInv, WorkspaceTypeOK, RunOK, AtRest, Exists, Whole, WorkspaceOf, Homes, dataVars, runVars
<1>1. WorkspaceTypeOK'
  <2>1. /\ step' \in [pattern : DOMAIN Patterns, key : Records \cup {NoKey},
                     call : {"idle", "scan", "read", "write", "name", "join", "done", "failed"}]
        /\ step'.key \in Records <=> step'.call \in {"write", "name", "join"}
    <3>1. step.call = "write" /\ step.key \in Records
      BY DEF WriteWorkspace
    <3>2. CASE step' = [step EXCEPT !.call = "name"]
      BY <3>1, <3>2
    <3>3. CASE step' = [step EXCEPT !.call = "read", !.key = NoKey]
      BY <3>1, <3>3
    <3> QED  BY <3>2, <3>3 DEF WriteWorkspace
  <2>2. /\ home' \in [Records -> Homes]
        /\ husk' \subseteq {r \in Records : Exists(r)'}
    BY DEF WriteWorkspace
  <2>3. /\ keys' \subseteq Patterns[step'.pattern] \/ step'.call \notin {"read", "write", "name", "join"}
        /\ rehomed' \subseteq Users \X Workspaces /\ cut' \subseteq Users
    BY DEF WriteWorkspace, Rehomed
  <2> QED  BY <2>1, <2>2, <2>3 DEF WriteWorkspace
<1>2. RunOK'
  BY DEF RunOK, WriteWorkspace, Rehomed
<1>3. MovingHere'
  BY DEF MovingHere, Between, WriteWorkspace, Rehomed
<1>4. MovedAreMembers'
  BY DEF MovedAreMembers, Between, MovingHere, WriteWorkspace, Rehomed
<1>5. LeftAreFresh'
  BY DEF LeftAreFresh, Behind, RunOK, WriteWorkspace, Rehomed
<1> QED  BY <1>1, <1>2, <1>3, <1>4, <1>5 DEF WorkspaceInv

LEMMA ReadNameKeeps ==
  ASSUME WorkspaceInv, ReadName
  PROVE  WorkspaceInv'
<1> USE MigrationAssumption, PatternsAre
        DEF WorkspaceInv, WorkspaceTypeOK, RunOK, AtRest, Exists, Whole, WorkspaceOf, Homes, dataVars, runVars
<1>1. WorkspaceTypeOK'
  <2>1. /\ step' \in [pattern : DOMAIN Patterns, key : Records \cup {NoKey},
                     call : {"idle", "scan", "read", "write", "name", "join", "done", "failed"}]
        /\ step'.key \in Records <=> step'.call \in {"write", "name", "join"}
    <3>1. step.call = "name" /\ step.key \in Records
      BY DEF ReadName
    <3>2. CASE step' = [step EXCEPT !.call = "join"]
      BY <3>1, <3>2
    <3>3. CASE step' = [step EXCEPT !.call = "read", !.key = NoKey]
      BY <3>1, <3>3
    <3> QED  BY <3>2, <3>3 DEF ReadName
  <2>2. /\ keys' \subseteq Patterns[step'.pattern] \/ step'.call \notin {"read", "write", "name", "join"}
        /\ cut' \subseteq Users
    BY DEF ReadName
  <2> QED  BY <2>1, <2>2 DEF ReadName
<1>2. RunOK'
  BY DEF RunOK, ReadName
<1>3. MovingHere'
  BY DEF MovingHere, Between, ReadName
<1>4. MovedAreMembers'
  BY DEF MovedAreMembers, Between, MovingHere, ReadName
<1>5. LeftAreFresh'
  BY DEF LeftAreFresh, Behind, RunOK, ReadName
<1> QED  BY <1>1, <1>2, <1>3, <1>4, <1>5 DEF WorkspaceInv

LEMMA AddWorkspaceMembershipKeeps ==
  ASSUME WorkspaceInv, AddWorkspaceMembership
  PROVE  WorkspaceInv'
<1> USE MigrationAssumption, PatternsAre
        DEF WorkspaceInv, WorkspaceTypeOK, RunOK, AtRest, Exists, Whole, WorkspaceOf, Homes, dataVars, runVars
<1>1. WorkspaceTypeOK'
  <2>1. /\ step' \in [pattern : DOMAIN Patterns, key : Records \cup {NoKey},
                     call : {"idle", "scan", "read", "write", "name", "join", "done", "failed"}]
        /\ step'.key \in Records <=> step'.call \in {"write", "name", "join"}
    BY DEF AddWorkspaceMembership
  <2>2. /\ keys' \subseteq Patterns[step'.pattern] \/ step'.call \notin {"read", "write", "name", "join"}
        /\ member' \subseteq Users \X Workspaces
    BY DEF AddWorkspaceMembership
  <2> QED  BY <2>1, <2>2 DEF AddWorkspaceMembership
<1>2. RunOK'
  BY DEF RunOK, AddWorkspaceMembership
<1>3. MovingHere'
  BY DEF MovingHere, Between, AddWorkspaceMembership
<1>4. MovedAreMembers'
  BY DEF MovedAreMembers, Between, MovingHere, AddWorkspaceMembership
<1>5. LeftAreFresh'
  BY DEF LeftAreFresh, Behind, RunOK, AddWorkspaceMembership
<1> QED  BY <1>1, <1>2, <1>3, <1>4, <1>5 DEF WorkspaceInv

LEMMA StopToolKeeps ==
  ASSUME WorkspaceInv, StopTool
  PROVE  WorkspaceInv'
<1> USE MigrationAssumption, PatternsAre
        DEF WorkspaceInv, WorkspaceTypeOK, RunOK, AtRest, Exists, Whole, WorkspaceOf, Homes, dataVars, runVars
<1>1. WorkspaceTypeOK'
  BY DEF WorkspaceTypeOK, StopTool, EndRun, Rest, NoRun
<1>2. RunOK'
  BY DEF RunOK, StopTool, EndRun, Rest, NoRun
<1>3. MovingHere'
  BY DEF MovingHere, Between, StopTool, EndRun, Rest, NoRun
<1>4. MovedAreMembers'
  BY DEF MovedAreMembers, Between, MovingHere, StopTool, EndRun, Rest, NoRun
<1>5. LeftAreFresh'
  BY DEF LeftAreFresh, Behind, RunOK, StopTool, EndRun, Rest, NoRun
<1> QED  BY <1>1, <1>2, <1>3, <1>4, <1>5 DEF WorkspaceInv

-----------------------------------------------------------------------------
LEMMA WorkspaceInitInv == WorkspaceInit => WorkspaceInv
<1> SUFFICES ASSUME WorkspaceInit
             PROVE  WorkspaceInv
  OBVIOUS
<1> USE MigrationAssumption, PatternsAre DEF WorkspaceInit, Rest, NoRun, AtRest
<1>1. WorkspaceTypeOK
  <2>1. home \in [Records -> Homes] /\ indexed \in BOOLEAN
    OBVIOUS
  <2>2. /\ run \in [from : Workspaces, to : Workspaces]
        /\ step \in [pattern : DOMAIN Patterns, key : Records \cup {NoKey},
                     call : {"idle", "scan", "read", "write", "name", "join", "done", "failed"}]
        /\ step.key \in Records <=> step.call \in {"write", "name", "join"}
    OBVIOUS
  <2>3. /\ husk = {} /\ member = {} /\ keys = {} /\ starts = 0 /\ stopped = FALSE
        /\ fresh = {} /\ rehomed = {} /\ cut = {} /\ step.call = "idle"
    OBVIOUS
  <2>4. 0 \in 0..MaxStarts
    OBVIOUS
  <2> HIDE DEF WorkspaceInit
  <2> QED  BY <2>1, <2>2, <2>3, <2>4 DEF WorkspaceTypeOK
<1>2. RunOK /\ MovingHere /\ MovedAreMembers /\ LeftAreFresh
  BY DEF RunOK, MovingHere, MovedAreMembers, LeftAreFresh
<1> QED  BY <1>1, <1>2 DEF WorkspaceInv

LEMMA WorkspaceStep == WorkspaceInv /\ [WorkspaceNext]_workspaceVars => WorkspaceInv'
<1> SUFFICES ASSUME WorkspaceInv, [WorkspaceNext]_workspaceVars
             PROVE  WorkspaceInv'
  OBVIOUS
<1>1. CASE UNCHANGED workspaceVars
  BY <1>1 DEF workspaceVars, dataVars, runVars, WorkspaceInv, WorkspaceTypeOK, RunOK, MovingHere,
              MovedAreMembers, LeftAreFresh, AtRest, Exists, Whole, WorkspaceOf, Between, Behind
<1>2. CASE WorkspaceNext
  BY <1>2, CreateRecordKeeps, AdminSaveUserKeeps, AdminDeleteUserKeeps, ExpireRecordKeeps,
     MicrosoftPostKeeps, RequestKeeps, StartRunKeeps, ScanKeysKeeps, NextPatternKeeps,
     ReadWorkspaceKeeps, WriteWorkspaceKeeps, ReadNameKeeps, AddWorkspaceMembershipKeeps,
     StopToolKeeps
     DEF WorkspaceNext
<1> QED  BY <1>1, <1>2

(* What the tool has before it and behind it, in every state.              *)
THEOREM WorkspaceInvariant == WorkspaceSpec => []WorkspaceInv
BY WorkspaceInitInv, WorkspaceStep, PTL DEF WorkspaceSpec

(* The variables of the workspace migration keep their types; a husk       *)
(* exists, and a key is held only between its calls.                       *)
THEOREM WorkspaceTypeCorrect == WorkspaceSpec => []WorkspaceTypeOK
BY WorkspaceInvariant, PTL DEF WorkspaceInv

(* The two writes of a user come apart only where cut says so.             *)
THEOREM MovedUsersJoin == WorkspaceSpec => []MovedUsersAreMembers
<1>1. WorkspaceInv => MovedUsersAreMembers
  BY DEF WorkspaceInv, MovedAreMembers, MovedUsersAreMembers, Between
<1> QED  BY <1>1, WorkspaceInvariant, PTL

(* A run that is done has left only what was saved behind its scans.       *)
THEOREM MovesAll == WorkspaceSpec => CompletedMovesAll
<1>1. WorkspaceInv /\ [WorkspaceNext]_workspaceVars =>
        [NextPattern /\ step'.call = "done" =>
           \A r \in Records : Exists(r) /\ WorkspaceOf(r) = run.from => r \in fresh]_workspaceVars
  <2> SUFFICES ASSUME WorkspaceInv, NextPattern, step'.call = "done",
                      NEW r \in Records, Exists(r), WorkspaceOf(r) = run.from
               PROVE  r \in fresh
    OBVIOUS
  <2>1. step.call = "read" /\ keys = {} /\ step.pattern = 4
    BY PatternsAre DEF NextPattern, Rest, WorkspaceInv, WorkspaceTypeOK
  <2>2. Behind = 1..4 /\ ~AtRest
    BY <2>1, PatternsAre DEF Behind, AtRest
  <2>3. \E p \in 1..4 : r \in Patterns[p]
    BY PatternsAre
  <2> QED  BY <2>1, <2>2, <2>3 DEF WorkspaceInv, LeftAreFresh
<1> QED  BY <1>1, WorkspaceInvariant, PTL DEF WorkspaceSpec, CompletedMovesAll

(***************************************************************************)
(* The chunked stream                                                      *)
(***************************************************************************)

(* Chunks of a file, and what the first of them hold.                      *)
Chunks(bytes) == (bytes + ChunkSize - 1) \div ChunkSize
Sent(bytes, n) == IF n * ChunkSize < bytes THEN n * ChunkSize ELSE bytes

(* What is written is the beginning of the file that the frames read so    *)
(* far hold when they are its own.                                         *)
StreamInv ==
  /\ size \in Nat /\ stored \in Objects(size)
  /\ read \in 0 .. Chunks(size)
  /\ written = [b \in 1 .. Sent(size, read) |-> b]

LEMMA ChunksHold ==
  ASSUME NEW bytes \in Nat
  PROVE  /\ Chunks(bytes) \in Nat
         /\ Chunks(bytes) * ChunkSize \in Nat
         /\ bytes <= Chunks(bytes) * ChunkSize
         /\ Chunks(bytes) * ChunkSize <= bytes + ChunkSize - 1
BY ChunkAssumption DEF Chunks

(* All but the last chunk are full, and none begins behind the end.        *)
LEMMA ChunkBegins ==
  ASSUME NEW bytes \in Nat, NEW n \in 1 .. Chunks(bytes)
  PROVE  (n - 1) * ChunkSize \in Nat /\ (n - 1) * ChunkSize < bytes
<1> DEFINE C == ChunkSize
           N == Chunks(bytes)
<1>1. N \in Nat /\ N * C <= bytes + C - 1 /\ C \in Nat \ {0}
  BY ChunksHold, ChunkAssumption
<1> HIDE DEF N, C
<1>2. n \in Nat /\ n <= N
  BY <1>1 DEF N
<1>3. n * C <= N * C
  BY <1>1, <1>2
<1>4. (n - 1) * C = n * C - C /\ n * C \in Nat
  BY <1>1, <1>2
<1>5. (n - 1) * C \in Nat
  BY <1>1, <1>2
<1>6. N * C \in Nat
  BY <1>1
<1> QED  BY <1>1, <1>3, <1>4, <1>5, <1>6 DEF C

LEMMA FramesAre ==
  ASSUME NEW bytes \in Nat
  PROVE  /\ EncryptReader(bytes) \in
              Seq([number : Nat \ {0}, from : Nat, len : Nat])
         /\ Len(EncryptReader(bytes)) = Chunks(bytes)
         /\ \A n \in 1 .. Chunks(bytes) :
              /\ EncryptReader(bytes)[n].len \in Nat
              /\ EncryptReader(bytes)[n].number = n
              /\ EncryptReader(bytes)[n].from = Sent(bytes, n - 1)
              /\ EncryptReader(bytes)[n].len = Sent(bytes, n) - Sent(bytes, n - 1)
<1> DEFINE C == ChunkSize
           N == Chunks(bytes)
           F(n) == Chunk(n, (n - 1) * C, IF bytes - (n - 1) * C < C THEN bytes - (n - 1) * C ELSE C)
<1>1. N \in Nat /\ C \in Nat \ {0}
  BY ChunksHold, ChunkAssumption
<1>2. EncryptReader(bytes) = [n \in 1..N |-> F(n)]
  BY DEF EncryptReader, Chunks
<1>3. ASSUME NEW n \in 1..N
      PROVE  /\ F(n) \in [number : Nat \ {0}, from : Nat, len : Nat]
             /\ F(n).number = n /\ F(n).from = Sent(bytes, n - 1)
             /\ F(n).len = Sent(bytes, n) - Sent(bytes, n - 1)
  <2>1. PICK f \in Nat : f = (n - 1) * C /\ f < bytes
    BY ChunkBegins
  <2>2. n * C = f + C
    BY <1>1, <2>1
  <2>3. Sent(bytes, n - 1) = f
    BY <2>1 DEF Sent
  <2>4. Sent(bytes, n) = IF f + C < bytes THEN f + C ELSE bytes
    BY <2>2 DEF Sent
  <2>5. F(n) = [number |-> n, from |-> f, len |-> IF bytes - f < C THEN bytes - f ELSE C]
    BY <2>1 DEF Chunk
  <2>6. n \in Nat \ {0}
    BY <1>1
  <2> HIDE DEF F, C, N
  <2> QED  BY <1>1, <2>1, <2>3, <2>4, <2>5, <2>6
<1> HIDE DEF F, N
<1>4. EncryptReader(bytes) \in Seq([number : Nat \ {0}, from : Nat, len : Nat])
  BY <1>1, <1>2, <1>3
<1>5. Len(EncryptReader(bytes)) = N
  BY <1>1, <1>2
<1>6. \A n \in 1..N : EncryptReader(bytes)[n] = F(n)
  BY <1>2
<1> QED  BY <1>3, <1>4, <1>5, <1>6 DEF N

LEMMA SentGrows ==
  ASSUME NEW bytes \in Nat, NEW n \in 0 .. Chunks(bytes)
  PROVE  Sent(bytes, n) \in Nat /\ Sent(bytes, n) <= bytes
<1>1. n * ChunkSize \in Nat
  BY ChunksHold, ChunkAssumption
<1> QED  BY <1>1 DEF Sent

(* A frame that opens is the one of the file that is due.                  *)
LEMMA OpenedIsDue ==
  ASSUME NEW bytes \in Nat, NEW object \in Objects(bytes),
         NEW n \in 1 .. Len(object), Opens(object[n], n)
  PROVE  n \in 1 .. Chunks(bytes) /\ object[n] = EncryptReader(bytes)[n]
<1>1. Len(EncryptReader(bytes)) = Chunks(bytes) /\ Chunks(bytes) \in Nat
  BY FramesAre, ChunksHold
<1>2. DOMAIN EncryptReader(bytes) = 1 .. Chunks(bytes)
  BY <1>1, FramesAre
<1>3. PICK m \in Nat : object \in [1..m -> ToSet(EncryptReader(bytes)) \cup {Damaged}]
  BY <1>1 DEF Objects
<1>4. object[n] \in ToSet(EncryptReader(bytes))
  BY <1>3 DEF Opens
<1>5. PICK k \in 1 .. Chunks(bytes) : object[n] = EncryptReader(bytes)[k]
  BY <1>2, <1>4 DEF ToSet
<1>6. k = n
  BY <1>5, FramesAre DEF Opens
<1> QED  BY <1>5, <1>6

LEMMA StreamInitInv == StreamInit => StreamInv
<1> SUFFICES ASSUME StreamInit
             PROVE  StreamInv
  OBVIOUS
<1>1. size \in Nat
  BY ChunkAssumption DEF StreamInit
<1>2. Sent(size, 0) = 0
  BY <1>1, ChunkAssumption DEF Sent
<1>3. 0 \in 0 .. Chunks(size)
  BY <1>1, ChunksHold
<1>4. <<>> = [b \in 1..0 |-> b]
  OBVIOUS
<1> QED  BY <1>1, <1>2, <1>3, <1>4 DEF StreamInit, StreamInv

LEMMA StreamStep == StreamInv /\ [DecryptReader]_streamVars => StreamInv'
<1> SUFFICES ASSUME StreamInv, DecryptReader
             PROVE  StreamInv'
  BY DEF StreamInv, streamVars
<1>1. size \in Nat /\ stored \in Objects(size) /\ size' = size /\ stored' = stored
  BY DEF StreamInv, DecryptReader
<1>2. read \in Nat /\ Chunks(size) \in Nat
  BY ChunksHold DEF StreamInv
<1>3. Len(stored) \in Nat
  BY <1>1, <1>2, FramesAre DEF Objects
<1>4. read + 1 \in 1 .. Len(stored)
  BY <1>2, <1>3 DEF DecryptReader
<1>5. read + 1 \in 1 .. Chunks(size) /\ stored[read + 1] = EncryptReader(size)[read + 1]
  BY <1>1, <1>4, OpenedIsDue DEF DecryptReader
<1>6. PICK f \in Nat, g \in Nat : f = Sent(size, read) /\ g = Sent(size, read + 1)
  BY <1>1, <1>2, <1>5, SentGrows
<1>7. stored[read + 1].from = f /\ stored[read + 1].len = g - f /\ g - f \in Nat
  <2>1. PICK n \in 1 .. Chunks(size) : n = read + 1 /\ n - 1 = read
    BY <1>2, <1>5
  <2>2. /\ EncryptReader(size)[n].from = Sent(size, n - 1)
        /\ EncryptReader(size)[n].len = Sent(size, n) - Sent(size, n - 1)
    BY <1>1, FramesAre
  <2>3. stored[n] = EncryptReader(size)[n] /\ stored[n].from = f /\ stored[n].len = g - f
    BY <1>5, <1>6, <2>1, <2>2
  <2>4. EncryptReader(size)[n].len \in Nat
    BY <1>1, FramesAre
  <2> QED  BY <2>1, <2>3, <2>4
<1>8. written' = [b \in 1..f |-> b] \o [b \in 1 .. g - f |-> f + b]
  BY <1>6, <1>7 DEF DecryptReader, Plain, StreamInv
<1>9. [b \in 1..f |-> b] \o [b \in 1 .. g - f |-> f + b] = [b \in 1..g |-> b]
  <2>1. Len([b \in 1..f |-> b]) = f /\ Len([b \in 1 .. g - f |-> f + b]) = g - f
    BY <1>6, <1>7
  <2> QED  BY <1>6, <1>7, <2>1
<1>10. read' = read + 1 /\ read + 1 \in 0 .. Chunks(size)
  BY <1>2, <1>5 DEF DecryptReader
<1>11. written' = [b \in 1 .. Sent(size, read + 1) |-> b]
  BY <1>6, <1>8, <1>9
<1> QED  BY <1>1, <1>10, <1>11 DEF StreamInv

(* What was written is the beginning of the file, after every frame.       *)
THEOREM StreamInvariant == StreamSpec => []StreamInv
BY StreamInitInv, StreamStep, PTL DEF StreamSpec

(* Only a beginning of the file is ever written, of any size, with chunks  *)
(* of any size and whatever was stored; all of it when it looks complete,  *)
(* and when all of it is there.                                            *)
THEOREM DamageNoticed == StreamSpec => []DamageIsNoticed
<1>1. ASSUME StreamInv
      PROVE  DamageIsNoticed
  <2> DEFINE whole == [b \in 1..size |-> b]
  <2>1. PICK g \in Nat : g = Sent(size, read) /\ g <= size
    BY <1>1, SentGrows DEF StreamInv
  <2>2. written = [b \in 1..g |-> b] /\ size \in Nat
    BY <1>1, <2>1 DEF StreamInv
  <2>3. Len(written) = g
    BY <2>2
  <2>4. IsPrefix(written, whole)
    BY <2>1, <2>2, <2>3 DEF IsPrefix
  <2>5. Complete => written = whole
    BY <2>2, <2>3 DEF Complete
  <2>6. ASSUME stored = EncryptReader(size), read = Len(stored)
        PROVE  Complete
    <3>1. read = Chunks(size)
      BY <2>2, <2>6, FramesAre
    <3>2. g = size
      BY <2>1, <2>2, <3>1, ChunksHold DEF Sent
    <3> QED  BY <2>3, <3>2 DEF Complete
  <2> QED  BY <2>4, <2>5, <2>6 DEF DamageIsNoticed
<1> QED  BY <1>1, StreamInvariant, PTL

(***************************************************************************)
(* The three together                                                      *)
(***************************************************************************)

(* What MCMigrations starts and carries out is a behaviour of each of its  *)
(* parts, so the theorems above hold of it.                                *)
THEOREM EachOnItsOwn == MCSpec => StorageSpec /\ WorkspaceSpec /\ StreamSpec
<1>1. MCInit => StorageInit /\ WorkspaceInit /\ StreamInit
  BY DEF MCInit
<1>2. [MCNext]_mcVars => /\ [StorageNext]_storageVars
                         /\ [WorkspaceNext]_workspaceVars
                         /\ [DecryptReader]_streamVars
  BY DEF MCNext, mcVars
<1> QED  BY <1>1, <1>2, PTL DEF MCSpec, StorageSpec, WorkspaceSpec, StreamSpec

(* The variables of both migrations keep their types.                      *)
THEOREM TypesCorrect == MCSpec => []TypesOK
BY EachOnItsOwn, StorageTypeCorrect, WorkspaceTypeCorrect, PTL DEF TypesOK
=============================================================================
