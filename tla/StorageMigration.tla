-------------------------- MODULE StorageMigration --------------------------
(***************************************************************************)
(* cmd/migrate-storage copies the objects of available items from the      *)
(* storage directory to S3 and points their records there, while a server  *)
(* may be running on either backend, opening links and cleaning up.        *)
(*                                                                         *)
(* README.md asks for the application to be in maintenance mode during the *)
(* migration; the program has no such mode, so an operator may keep the    *)
(* server down or leave it running, and both are here.  ItemLinks has the  *)
(* links in detail: that a server claims and delivers one is a single step *)
(* of this module, and so is a walk of the cleanup.                        *)
(***************************************************************************)
EXTENDS Naturals, FiniteSets

CONSTANTS
  Items,      \* file links
  NoItem,     \* the tool is not copying
  MaxUnread,  \* bound: items that one listing cannot read
  MaxRuns     \* bound: how often the tool is started

ASSUME StorageAssumption ==
  NoItem \notin Items /\ MaxUnread \in Nat /\ MaxRuns \in Nat

Backends == {"local", "s3"}

VARIABLES
  db,          \* el:item:<id>: its status and the backend its path names
  objects,     \* the objects a backend holds, all of them whole
  server,      \* the backend of the server that runs, or "down"
  maintenance, \* whether the operator follows README.md
  tool,        \* where the tool is, and the item it copies
  todo,        \* what it has listed and not come to
  runs,        \* runs of the tool so far
  active,      \* the cleanup's copies of the active paths; at most one
  delivered,   \* history: how often the file of a link was delivered
  lost,        \* history: links that were claimed and delivered nothing
  moved,       \* history: items whose path the tool has written
  unlisted,    \* history: available items the tool could not read
  missed,      \* history: items that a copy of the cleanup does not list, as
               \* it could not read them or was made before they were
  swept        \* history: items whose object on S3 the cleanup removed

toolVars    == <<tool, todo, runs, moved, unlisted>>
serverVars  == <<server, active, delivered, lost, missed, swept>>
storageVars == <<db, objects, maintenance, toolVars, serverVars>>

-----------------------------------------------------------------------------
(* Records: a husk has a path and nothing else, and no TTL.                *)
ItemRecord == [status : {"new", "available", "consumed", "husk", "gone"},
               path : Backends \cup {"none"}]
NewItem  == [status |-> "new", path |-> "none"]
GoneItem == [status |-> "gone", path |-> "none"]

Available(i) == db[i].status = "available"

(* The pairs of an item and its path that a scan for available items finds.*)
Paths == {<<i, db[i].path>> : i \in {j \in Items : Available(j)}}

Idle == [pc |-> "idle", item |-> NoItem]

StorageInit ==
  /\ db = [i \in Items |-> NewItem]
  /\ objects = [b \in Backends |-> {}]
  /\ server = "local" /\ maintenance \in BOOLEAN
  /\ tool = Idle /\ todo = {} /\ runs = 0
  /\ active = {}
  /\ delivered = [i \in Items |-> 0]
  /\ lost = {} /\ moved = {} /\ unlisted = {} /\ missed = {} /\ swept = {}

-----------------------------------------------------------------------------
(* The server                                                              *)

CreateItem(i) ==
  /\ server \in Backends /\ db[i] = NewItem
  /\ db' = [db EXCEPT ![i] = [status |-> "available", path |-> server]]
  /\ objects' = [objects EXCEPT ![server] = @ \cup {i}]
  /\ missed' = IF active = {} THEN missed ELSE missed \cup {i}
  /\ UNCHANGED <<maintenance, toolVars, server, active, delivered, lost, swept>>

(* A backend opens and deletes only what a path of its own names: the      *)
(* other one's is no file, or no reference, to it.                         *)
Reaches(i) == db[i].path = server /\ i \in objects[server]

(* Claim consumes the item and takes its path; the file is delivered and   *)
(* deleted, or the request ends without it.                                *)
OpenItem(i) ==
  /\ server \in Backends /\ Available(i)
  /\ db' = [db EXCEPT ![i] = [status |-> "consumed", path |-> "none"]]
  /\ IF Reaches(i)
     THEN /\ delivered' = [delivered EXCEPT ![i] = @ + 1]
          /\ objects' = [objects EXCEPT ![server] = @ \ {i}]
          /\ UNCHANGED lost
     ELSE lost' = lost \cup {i} /\ UNCHANGED <<delivered, objects>>
  /\ UNCHANGED <<maintenance, toolVars, server, active, missed, swept>>

(* Redis drops a record whose TTL has run out; a husk has none.            *)
ExpireItem(i) ==
  /\ db[i].status \in {"available", "consumed"}
  /\ db' = [db EXCEPT ![i] = GoneItem]
  /\ UNCHANGED <<objects, maintenance, toolVars, serverVars>>

(* filepath.Clean leaves a path of the storage directory as it is, and     *)
(* turns s3://bucket/key into s3:/bucket/key.                              *)
Clean(path) == IF path = "s3" THEN "s3:/" ELSE path

(* ActiveStorageObjectPaths passes over a key it cannot read.              *)
CopyActive ==
  /\ server \in Backends /\ active = {}
  /\ \E unread \in SUBSET Paths :
       /\ Cardinality(unread) <= MaxUnread
       /\ active' = {{<<p[1], Clean(p[2])>> : p \in Paths \ unread}}
       /\ missed' = missed \cup {p[1] : p \in unread}
  /\ UNCHANGED <<db, objects, maintenance, toolVars, server, delivered, lost, swept>>

(* CleanupOrphans of the backend in use: an object stays when the copy has *)
(* the path that this backend gives it.  That of S3 is never in the copy,  *)
(* where it has lost a slash.                                              *)
Sweep ==
  /\ server \in Backends
  /\ \E paths \in active :
       LET kept == {i \in objects[server] : <<i, server>> \in paths} IN
       /\ objects' = [objects EXCEPT ![server] = kept]
       /\ swept' = IF server = "s3" THEN swept \cup (objects["s3"] \ kept) ELSE swept
  /\ active' = {}
  /\ UNCHANGED <<db, maintenance, toolVars, server, delivered, lost, missed>>

-----------------------------------------------------------------------------
(* The operator                                                            *)

(* Also a crash.                                                           *)
StopServer ==
  /\ server \in Backends
  /\ server' = "down" /\ active' = {}
  /\ UNCHANGED <<db, objects, maintenance, toolVars, delivered, lost, missed, swept>>

(* In maintenance the server starts on local storage before the migration, *)
(* and on S3 after one that was completed; otherwise as anybody likes.     *)
StartServer(b) ==
  /\ server = "down"
  /\ maintenance => IF runs = 0 THEN b = "local" ELSE tool.pc = "done" /\ b = "s3"
  /\ server' = b
  /\ UNCHANGED <<db, objects, maintenance, toolVars, active, delivered, lost, missed, swept>>

-----------------------------------------------------------------------------
(* The tool                                                                *)

(* ListAvailableItems passes over a key it cannot read.                    *)
RunTool ==
  /\ tool.pc \in {"idle", "done", "failed"} /\ runs < MaxRuns
  /\ maintenance => server = "down"
  /\ \E unread \in SUBSET Paths :
       /\ Cardinality(unread) <= MaxUnread
       /\ todo' = Paths \ unread
       /\ unlisted' = unlisted \cup {p[1] : p \in unread}
  /\ tool' = [pc |-> "next", item |-> NoItem]
  /\ runs' = runs + 1
  /\ UNCHANGED <<db, objects, maintenance, serverVars, moved>>

(* local.Open of the path that was listed.  The tool exits when there is   *)
(* no such file: the link was opened meanwhile, or the path is one an      *)
(* earlier run has written.                                                *)
OpenSource(i, path) ==
  /\ tool.pc = "next" /\ <<i, path>> \in todo
  /\ todo' = todo \ {<<i, path>>}
  /\ tool' = IF path = "local" /\ i \in objects["local"]
             THEN [pc |-> "copy", item |-> i]
             ELSE [pc |-> "failed", item |-> NoItem]
  /\ UNCHANGED <<db, objects, maintenance, serverVars, runs, moved, unlisted>>

(* Mutant: the error of the upload is not looked at.                       *)
UploadUnchecked ==
  /\ tool.pc = "copy"
  /\ \E whole \in BOOLEAN :
       objects' = IF whole THEN [objects EXCEPT !["s3"] = @ \cup {tool.item}] ELSE objects
  /\ tool' = [tool EXCEPT !.pc = "point"]
  /\ UNCHANGED <<db, maintenance, serverVars, todo, runs, moved, unlisted>>

(* Mutant: the source is deleted once it is copied.                        *)
UploadMoving ==
  /\ tool.pc = "copy"
  /\ objects' = [objects EXCEPT !["s3"] = @ \cup {tool.item}, !["local"] = @ \ {tool.item}]
  /\ tool' = [tool EXCEPT !.pc = "point"]
  /\ UNCHANGED <<db, maintenance, serverVars, todo, runs, moved, unlisted>>

(* WriteStream of S3 stores the whole object or none.  The open file is    *)
(* read to its end even if it is deleted meanwhile.                        *)
Upload ==
  /\ tool.pc = "copy"
  /\ objects' = [objects EXCEPT !["s3"] = @ \cup {tool.item}]
  /\ tool' = [tool EXCEPT !.pc = "point"]
  /\ UNCHANGED <<db, maintenance, serverVars, todo, runs, moved, unlisted>>

(* Mutant: the item is stored again as it was listed.                      *)
PointedAsListed(i) == [status |-> "available", path |-> "s3"]

(* UpdateStorageObjectPath sets the one field, whatever the record is, and *)
(* creates a key when there is none any more.                              *)
Pointed(i) ==
  [status |-> IF db[i].status = "gone" THEN "husk" ELSE db[i].status, path |-> "s3"]

Point ==
  /\ tool.pc = "point"
  /\ db' = [db EXCEPT ![tool.item] = Pointed(tool.item)]
  /\ moved' = moved \cup {tool.item}
  /\ \E answered \in BOOLEAN :
       tool' = [pc |-> IF answered THEN "next" ELSE "failed", item |-> NoItem]
  /\ UNCHANGED <<objects, maintenance, serverVars, todo, runs, unlisted>>

(* Mutant: the tool stops with an item in its hands.                       *)
ToolStopsHolding ==
  /\ tool.pc \in {"next", "copy", "point"}
  /\ tool' = [tool EXCEPT !.pc = "failed"]
  /\ UNCHANGED <<db, objects, maintenance, serverVars, todo, runs, moved, unlisted>>

(* A call fails, or the tool is stopped: it exits.                         *)
ToolStops ==
  /\ tool.pc \in {"next", "copy", "point"}
  /\ tool' = [pc |-> "failed", item |-> NoItem]
  /\ UNCHANGED <<db, objects, maintenance, serverVars, todo, runs, moved, unlisted>>

(* Mutant: the tool reports success though an item was left.               *)
FinishAnyhow ==
  /\ tool.pc = "next"
  /\ tool' = [pc |-> "done", item |-> NoItem]
  /\ UNCHANGED <<db, objects, maintenance, serverVars, todo, runs, moved, unlisted>>

Finish ==
  /\ tool.pc = "next" /\ todo = {}
  /\ tool' = [pc |-> "done", item |-> NoItem]
  /\ UNCHANGED <<db, objects, maintenance, serverVars, todo, runs, moved, unlisted>>

StorageNext ==
  \/ \E i \in Items : CreateItem(i) \/ OpenItem(i) \/ ExpireItem(i)
  \/ CopyActive \/ Sweep
  \/ StopServer \/ \E b \in Backends : StartServer(b)
  \/ RunTool \/ (\E p \in todo : OpenSource(p[1], p[2]))
  \/ Upload \/ Point \/ ToolStops \/ Finish

StorageSpec == StorageInit /\ [][StorageNext]_storageVars

-----------------------------------------------------------------------------
(* Properties                                                              *)

StorageTypeOK ==
  /\ db \in [Items -> ItemRecord]
  /\ objects \in [Backends -> SUBSET Items]
  /\ server \in Backends \cup {"down"} /\ maintenance \in BOOLEAN
  /\ tool \in [pc : {"idle", "next", "copy", "point", "done", "failed"},
               item : Items \cup {NoItem}]
  /\ tool.item \in Items <=> tool.pc \in {"copy", "point"}
  /\ todo \subseteq Items \X Backends /\ runs \in 0..MaxRuns
  /\ active \subseteq SUBSET (Items \X {Clean(b) : b \in Backends})
  /\ delivered \in [Items -> Nat]
  /\ lost \cup moved \cup unlisted \cup missed \cup swept \subseteq Items

(* Following README.md (the server down from before the tool starts until  *)
(* a run completes, and on S3 after it) every link that is claimed is also *)
(* delivered, unless a listing of the tool or of the cleanup could not     *)
(* read its record, it was created between the two steps of a cleanup      *)
(* (ItemLinks has that race), or the cleanup came to its object on S3.     *)
MaintainedMigrationLosesNothing ==
  maintenance => lost \subseteq unlisted \cup missed \cup swept

(* "Periodically verify cleanup removes ... unreferenced S3 objects": the  *)
(* object of a link that was created on S3 stays while the link can be     *)
(* opened, if the copy of the active paths has it.  It does not.           *)
S3CleanupSparesReferenced ==
  \A i \in Items \ (missed \cup moved) :
    Available(i) /\ db[i].path = "s3" => i \in objects["s3"]

(* "The migration updates Redis object paths only after successful         *)
(* uploads": a link that can be opened and points to S3 has its object     *)
(* there, maintained or not, unless the cleanup of a server on S3 came to  *)
(* the object.                                                             *)
PathsFollowObjects ==
  \A i \in Items :
    Available(i) /\ db[i].path = "s3" => i \in objects["s3"] \cup swept

(* A path that is written after the link was claimed, or has expired, does *)
(* not open it again: whichever backends and runs a file passes through,   *)
(* it is delivered once, and a link that was claimed stays closed.         *)
MigrationReopensNothing ==
  \A i \in Items :
    /\ delivered[i] <= 1
    /\ delivered[i] = 1 \/ i \in lost => ~Available(i)

(* The migration "leaves local source objects in place for rollback": in   *)
(* maintenance, the source of every migrated link that can be opened.  A   *)
(* server on local storage takes it for an orphan.                         *)
RollbackCopiesStay ==
  \A i \in moved : maintenance /\ Available(i) => i \in objects["local"]
=============================================================================
