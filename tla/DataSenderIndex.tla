--------------------------- MODULE DataSenderIndex ---------------------------
(***************************************************************************)
(* The rows of the data senders in ElasticSearch, which say in which       *)
(* projects they are.  The page of a project lists the rows that have its  *)
(* name; reminders and the rest of the application go by the lists of data *)
(* senders in the project documents.  A row is written again, from what    *)
(* all documents say, when a list or the name of a project changes; the    *)
(* deletion of a project and its undoing leave the rows as they are.       *)
(***************************************************************************)
CONSTANTS
  RowWriters,         \* workers of the web server
  ProjectIds, ProjectNames,
  Reporters           \* the data senders

VARIABLES
  project,       \* CouchDB: [project -> [name, members, void]]
  row,           \* ElasticSearch: [data sender -> names of projects]
  writing,       \* [worker -> the rows it still has to write]
  doubtful       \* history: see Rewrites and SetVoid

rowVars == <<project, row, writing, doubtful>>

Resting == [todo |-> {}, found |-> <<>>]

(* _get_project_names_by_datasender_id, the view projects_by_datasenders.  *)
NamesOf(d) == {project[p].name : p \in {q \in ProjectIds :
                 ~project[q].void /\ d \in project[q].members}}

(* Whether a worker has still to write the row of d, having read the names *)
(* for it or not.                                                          *)
WritesRow(w, d) == d \in writing[w].todo \cup DOMAIN writing[w].found

(* Projects without data senders, each with a name of its own.             *)
NewProjects ==
  {f \in [ProjectIds -> [name : ProjectNames, members : {{}}, void : {FALSE}]] :
     \A p, q \in ProjectIds : f[p].name = f[q].name => p = q}

RowsInit ==
  /\ project \in NewProjects
  /\ row = [d \in Reporters |-> {}]
  /\ writing = [w \in RowWriters |-> Resting]
  /\ doubtful = {}

(* The rows of D are to be written after a save.  In doubt is a row that   *)
(* another worker is still writing, until it is next written by one alone. *)
Rewrites(w, D) ==
  /\ writing' = [writing EXCEPT ![w].todo = D]
  /\ doubtful' = (doubtful \ D) \cup {d \in D : \E v \in RowWriters \ {w} : WritesRow(v, d)}

(* _check_if_project_name_unique, the view project_names.                  *)
NameFree(p, n) == \A q \in ProjectIds \ {p} : project[q].name = n => project[q].void

(* associate_data_sender_to_project                                        *)
Associate(w) == \E p \in ProjectIds : \E d \in Reporters \ project[p].members :
  /\ writing[w] = Resting /\ ~project[p].void
  /\ project' = [project EXCEPT ![p].members = @ \cup {d}]
  /\ Rewrites(w, {d})
  /\ UNCHANGED row

(* A mutant of RowsAfterRemoval: the rows that a save writes by itself.    *)
RowsOfMembers(p, d) == project[p].members \ {d}

RowsAfterRemoval(p, d) == {d}

(* Project.delete_datasender                                               *)
RemoveFromProject(w) == \E p \in ProjectIds : \E d \in project[p].members :
  /\ writing[w] = Resting /\ ~project[p].void
  /\ project' = [project EXCEPT ![p].members = @ \ {d}]
  /\ Rewrites(w, RowsAfterRemoval(p, d))
  /\ UNCHANGED row

(* A save with its post-update handler: a new name, data senders imported  *)
(* or a new user's added, reminder settings, activation.                   *)
SaveProject(w) == \E p \in ProjectIds, n \in ProjectNames, D \in SUBSET Reporters :
  /\ writing[w] = Resting /\ ~project[p].void /\ NameFree(p, n)
  /\ project' = [project EXCEPT ![p].name = n, ![p].members = @ \cup D]
  /\ Rewrites(w, project'[p].members)
  /\ UNCHANGED row

(* A data sender is edited: his row is written again after it.             *)
EditDataSender(w) == \E d \in Reporters :
  /\ writing[w] = Resting
  /\ Rewrites(w, {d})
  /\ UNCHANGED <<project, row>>

(* Project.set_void, to delete a project or to undo that: no row is        *)
(* written.                                                                *)
SetVoid == \E p \in ProjectIds :
  /\ NameFree(p, project[p].name)
  /\ project' = [project EXCEPT ![p].void = ~@]
  /\ doubtful' = doubtful \cup project[p].members
  /\ UNCHANGED <<row, writing>>

(* update_datasender_index: the names are read ...                         *)
ReadNames(w) == \E d \in writing[w].todo :
  /\ writing[w].found = <<>>
  /\ writing' = [writing EXCEPT ![w] = [todo |-> @.todo \ {d}, found |-> [x \in {d} |-> NamesOf(d)]]]
  /\ UNCHANGED <<project, row, doubtful>>

(* ... and the row is written.                                             *)
WriteRow(w) == \E d \in DOMAIN writing[w].found :
  /\ row' = [row EXCEPT ![d] = writing[w].found[d]]
  /\ writing' = [writing EXCEPT ![w].found = <<>>]
  /\ UNCHANGED <<project, doubtful>>

(* A database fails, and the rest of the rows are not written.             *)
RowWriterFails(w) ==
  /\ writing[w] # Resting
  /\ doubtful' = doubtful \cup {d \in Reporters : WritesRow(w, d)}
  /\ writing' = [writing EXCEPT ![w] = Resting]
  /\ UNCHANGED <<project, row>>

RowsNext ==
  \/ SetVoid
  \/ \E w \in RowWriters : \/ Associate(w) \/ RemoveFromProject(w) \/ SaveProject(w)
                           \/ EditDataSender(w) \/ ReadNames(w) \/ WriteRow(w) \/ RowWriterFails(w)

RowsSpec == RowsInit /\ [][RowsNext]_rowVars

-----------------------------------------------------------------------------
(* The row of a data sender that nobody is writing names the projects that *)
(* have him, and no other, whoever added, removed, imported or renamed     *)
(* what: only two writers of that row at once, a failure or the deletion   *)
(* of one of his projects puts it in doubt, until it is next written.      *)
RowsNameTheProjects ==
  \A d \in Reporters \ doubtful :
    (\A w \in RowWriters : ~WritesRow(w, d)) => row[d] = NamesOf(d)
=============================================================================
