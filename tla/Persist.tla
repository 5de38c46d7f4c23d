------------------------------ MODULE Persist -------------------------------
(***************************************************************************)
(* How a shutdown writes the catalog to files and how the next server      *)
(* reads it.  There is a file for the master list of databases and one for *)
(* each database, table and column.  A file is truncated when it is        *)
(* opened; what is written to it may stay in the buffer of its stream      *)
(* until it is closed.  A file stays open while those of its elements are  *)
(* written.  The server may be killed between any two of these steps.      *)
(*                                                                         *)
(* A name has no dot in it and no database is called "dbs": then each path *)
(* has a file of its own.  A server starts only when the last one is gone. *)
(***************************************************************************)
EXTENDS Catalog

CONSTANTS
  Unwritable, \* paths whose file cannot be opened: file name too long, or a slash
  MaxCommands \* bound on the commands that change the catalog

ASSUME PathAssumption == Unwritable \subseteq Path
ASSUME CommandAssumption == MaxCommands \in Nat

VARIABLES
  disk, \* the file of each path: its state, and the object written
  up,   \* the server: "serving", "saving", "saved" or "down"
  at,   \* of a save: the path whose file was opened last and is still open
  next, \* of a save: for each open file, the number of its next element
  count \* how many commands there were

vars == <<mem, disk, up, at, next, count>>

Absent   == [state |-> "absent", object |-> New(0)]
Torn     == [state |-> "torn", object |-> New(0)]
Whole(o) == [state |-> "whole", object |-> o]

Init ==
  /\ CatalogInit
  /\ disk = [p \in Path |-> Absent]
  /\ up = "serving"
  /\ at = Master /\ next = <<>>
  /\ count = 0

\* A command of a client.
Serve ==
  /\ up = "serving"
  /\ count < MaxCommands
  /\ Command
  /\ count' = count + 1
  /\ UNCHANGED <<disk, up, at, next>>

\* The process is gone, with its memory and the buffers of its streams.
Exit ==
  /\ mem' = NoDbs
  /\ up' = "down"
  /\ at' = Master /\ next' = <<>>
---------------------------------------------------------------------------
(* Saving.                                                                 *)

\* A master file that is written out before the others.
MasterFirst == Whole(mem[Master])

\* The master file while the databases are written: the number and the names
\* are in the stream's buffer.
MasterWhileSaving == Torn

\* shutdown: persist_dbs opens the master file.
PersistDbs ==
  /\ up = "serving"
  /\ up' = "saving"
  /\ disk' = [disk EXCEPT ![Master] = MasterWhileSaving]
  /\ at' = Master /\ next' = <<1>>
  /\ UNCHANGED <<mem, count>>

\* Is there an element of the innermost open file's object left to write?
Remaining == Last(next) <= Len(mem[at].names)
Element   == Append(at, mem[at].names[Last(next)])

\* A loop that forgets to count.
SameIndex == Append(next, 1)

\* The element's loop begins, and the loop it is in goes on behind it.
NextIndex == Append([next EXCEPT ![Len(next)] = @ + 1], 1)

\* An element whose file cannot be opened is passed over.
SkipUnwritable ==
  IF Element \in Unwritable
  THEN next' = [next EXCEPT ![Len(next)] = @ + 1] /\ UNCHANGED <<mem, disk, up, at>>
  ELSE /\ disk' = [disk EXCEPT ![Element] = Torn]
       /\ at' = Element
       /\ next' = NextIndex
       /\ UNCHANGED <<mem, up>>

\* The file of the next element is opened; if it cannot be, an assertion ends
\* the server, and the files that are open remain without their content.
OpenElement ==
  IF Element \in Unwritable
  THEN Exit /\ UNCHANGED disk
  ELSE /\ disk' = [disk EXCEPT ![Element] = Torn]
       /\ at' = Element
       /\ next' = NextIndex
       /\ UNCHANGED <<mem, up>>

PersistDb ==
  /\ up = "saving" /\ Len(at) = 0 /\ Remaining
  /\ OpenElement
  /\ UNCHANGED count

PersistTable ==
  /\ up = "saving" /\ Len(at) = 1 /\ Remaining
  /\ OpenElement
  /\ UNCHANGED count

PersistColumn ==
  /\ up = "saving" /\ Len(at) = 2 /\ Remaining
  /\ OpenElement
  /\ UNCHANGED count

\* The end of persist_column, persist_table or persist_db: the file is closed.
CloseFile ==
  /\ up = "saving" /\ at # Master /\ ~Remaining
  /\ disk' = [disk EXCEPT ![at] = Whole(mem[at])]
  /\ at' = Front(at) /\ next' = Front(next)
  /\ UNCHANGED <<mem, up, count>>

\* The end of persist_dbs.
CloseMaster ==
  /\ up = "saving" /\ at = Master /\ ~Remaining
  /\ disk' = [disk EXCEPT ![Master] = Whole(mem[Master])]
  /\ up' = "saved"
  /\ next' = <<>>
  /\ UNCHANGED <<mem, at, count>>

\* drop_dbs, with drop_db, drop_table and drop_column: everything in memory is
\* freed.  An assertion fails for a table that was created for no columns and
\* has none; like the exit that follows otherwise, that leaves the files alone.
DropDbs ==
  /\ up = "saved"
  /\ Exit
  /\ UNCHANGED <<disk, count>>

SaveStep ==
  PersistDb \/ PersistTable \/ PersistColumn \/ CloseFile \/ CloseMaster \/ DropDbs

\* A kill, or a failed assertion of a command.
Crash ==
  /\ up # "down"
  /\ Exit
  /\ UNCHANGED <<disk, count>>
---------------------------------------------------------------------------
(* Loading.                                                                *)

\* The files that a start reads: the master file, those of the databases it
\* lists, of the tables that these list, and of the columns that those do.
Objects == [p \in Path |-> disk[p].object]
Listed ==
  LET dbs  == ElementsOf(Objects, Master)
      tbls == UNION { ElementsOf(Objects, p) : p \in dbs }
      cols == UNION { ElementsOf(Objects, p) : p \in tbls }
  IN  {Master} \cup dbs \cup tbls \cup cols

\* Databases allocated anew, for no more than there are.
RoomForNames(o) == [o EXCEPT !.max = Len(o.names)]

\* load_dbs, load_db, load_table, load_column: every array has the room it had
\* before, that of the databases just enough.
Loaded == [p \in Listed |-> IF p = Master THEN RoomForNames(disk[p].object)
                                          ELSE disk[p].object]

\* load_db and load_table assert that there was room for an element.
RoomAsserted == \A p \in Listed : Len(p) \in {1, 2} => disk[p].object.max > 0
Readable     == \A p \in Listed : disk[p].state = "whole"

\* A start.  Without a master file there are no databases.  From an empty one
\* fgets reads nothing: the number of databases is what an uninitialised buffer
\* holds, none at best; otherwise reading them fails an assertion.
LoadDbs ==
  /\ up = "down"
  /\ \/ disk[Master].state # "whole" /\ mem' = NoDbs
     \/ disk[Master].state = "whole" /\ Readable /\ RoomAsserted /\ mem' = Loaded
  /\ up' = "serving"
  /\ UNCHANGED <<disk, at, next, count>>

\* A start that fails an assertion, and leaves everything as it was.
LoadFails ==
  /\ up = "down"
  /\ \/ disk[Master].state = "torn"
     \/ disk[Master].state = "whole" /\ ~(Readable /\ RoomAsserted)
  /\ UNCHANGED vars

Next ==
  \/ Serve
  \/ PersistDbs
  \/ PersistDb
  \/ PersistTable
  \/ PersistColumn
  \/ CloseFile
  \/ CloseMaster
  \/ DropDbs
  \/ Crash
  \/ LoadDbs
  \/ LoadFails

\* The server's own steps of a save: the operating system lets it run on.
Spec == Init /\ [][Next]_vars /\ WF_vars(SaveStep)
---------------------------------------------------------------------------
(* The properties.                                                         *)

\* Types; names are unique where one is looked up, in memory and in the files,
\* as the comments on the structs demand; an object is there if and only if its
\* name is.
TypeOK ==
  /\ DOMAIN mem \subseteq Path
  /\ Range(mem) \subseteq Object
  /\ \A p \in Path : disk[p].object \in Object /\ IsInjective(disk[p].object.names)
  /\ \A p \in DOMAIN mem : IsInjective(mem[p].names)
  /\ DOMAIN mem = {Master} \cup UNION { ElementsOf(mem, p) : p \in DOMAIN mem }
  /\ at \in Path
  /\ up = "saving" => at \in DOMAIN mem /\ Len(next) = Len(at) + 1

\* No array ever lists more elements than have memory, though a restart
\* allocates the databases without reserve and keeps the room of the others.
Allocated == \A p \in DOMAIN mem : Len(p) < 3 => Len(mem[p].names) <= mem[p].max

\* When the master file is whole, so is every file it leads to, and the columns
\* of a table agree on its rows, whatever files of earlier or abandoned saves
\* are still about.
WholeStore ==
  disk[Master].state = "whole" =>
    /\ \A p \in Listed : disk[p].state = "whole"
    /\ \A p, q \in Listed : (Len(p) = 3 /\ Len(q) = 3 /\ Front(p) = Front(q))
                               => disk[p].object.data = disk[q].object.data

\* The only finished saves that no server can start from are those of a database
\* without tables, or of a table created for zero columns and left without any.
Startable ==
  disk[Master].state = "whole" =>
    \/ Readable /\ RoomAsserted
    \/ \E p \in Listed : Len(p) \in {1, 2} /\ disk[p].object.names = <<>>

\* A shutdown ends, by writing everything or by losing it.
SaveEnds == (up = "saving") ~> (up = "down")

\* A start finds all of the last finished save or, after one that did not
\* finish, nothing; never some objects of one save and some of another.
Contents(objects) == [p \in DOMAIN objects |-> [names |-> objects[p].names,
                                                data |-> objects[p].data]]
Saved == INSTANCE Archive
           WITH Empty <- Contents(NoDbs),
                store <- Contents(mem),
                kept <- Contents(IF disk[Master].state = "whole" THEN Loaded ELSE NoDbs)
RefinesArchive == Saved!Spec
=============================================================================
