----------------------------- MODULE SearchIndex -----------------------------
(***************************************************************************)
(* The copies of a project's responses in ElasticSearch, from which the    *)
(* submission log is served, and what keeps them like the documents: a     *)
(* handler after the save of a response, one after the save of the data    *)
(* sender or the subject it is about, whose name is copied, and one after  *)
(* the save of the questionnaire, which throws all copies away when the    *)
(* format of a date changed and queues a Celery task to write them again.  *)
(* Requests and tasks run in several workers, and each reads the databases *)
(* before it writes its copy.                                              *)
(***************************************************************************)
EXTENDS Integers, FiniteSetsExt

CONSTANTS
  WebWorkers, CeleryWorkers,
  Responses, Entities,
  About,              \* [response -> data sender or subject]
  Contents,           \* [response -> what it may say, status and void flag included]
  EntityNames, DateFormats,
  MaxQueued           \* bound: tasks waiting

ASSUME SearchAssumption ==
  /\ WebWorkers \cap CeleryWorkers = {}
  /\ About \in [Responses -> Entities] /\ DOMAIN Contents = Responses /\ MaxQueued \in Nat \ {0}

Workers == WebWorkers \cup CeleryWorkers

VARIABLES
  stored,        \* CouchDB: [response -> content]
  entity_name,   \* CouchDB: [entity -> name]
  date_format,   \* CouchDB: of the questionnaire
  mapped,        \* ElasticSearch: the format in the mapping of the copies
  index,         \* ElasticSearch: [response -> entry]
  at,            \* [worker -> what it is doing]
  queued,        \* async_populate_submission_index, waiting
  unsure         \* history: responses whose writers overlapped, or failed

searchVars == <<stored, entity_name, date_format, mapped, index, at, queued, unsure>>

Unoccupied == [op |-> "idle"]

(* A document of a database is put, new or in the place of the former.     *)
Put(table, r, document) ==
  [x \in DOMAIN table \cup {r} |-> IF x = r THEN document ELSE table[x]]

(* _meta_fields and _update_with_form_model_fields: the names are looked   *)
(* up, and a date is converted to the format of the form.                  *)
Entry(r, content) ==
  [content |-> content, name |-> entity_name[About[r]], format |-> date_format]

(* Whether a job writes, or may still write, the copy of r.                *)
Writes(job, r) ==
  \/ job.op \in {"save", "land"} /\ job.response = r
  \/ job.op \in {"search", "update"} /\ job.entity = About[r]
  \/ job.op \in {"populate", "row"} /\ r \in DOMAIN job.rows

Overlapped(w, R) == {r \in R : \E v \in Workers \ {w} : Writes(at[v], r)}

SearchInit ==
  /\ stored = <<>> /\ index = <<>> /\ queued = 0 /\ unsure = {}
  /\ entity_name \in [Entities -> EntityNames] /\ date_format \in DateFormats /\ mapped = date_format
  /\ at = [w \in Workers |-> Unoccupied]

Do(w, job) == at' = [at EXCEPT ![w] = job]

(* A response is stored or saved again: edited, deleted, or rewritten for  *)
(* a change of the questionnaire.  The handler gets the document itself.   *)
SaveResponse(w) == \E r \in Responses : \E c \in Contents[r] :
  /\ at[w] = Unoccupied
  /\ stored' = Put(stored, r, c)
  /\ Do(w, [op |-> "save", response |-> r, content |-> c])
  /\ unsure' = (unsure \ {r}) \cup Overlapped(w, {r})
  /\ UNCHANGED <<entity_name, date_format, mapped, index, queued>>

(* update_submission_search_index reads the form and the names ...         *)
LookUp(w) ==
  /\ at[w].op = "save"
  /\ Do(w, [op |-> "land", response |-> at[w].response,
            entry |-> Entry(at[w].response, at[w].content)])
  /\ UNCHANGED <<stored, entity_name, date_format, mapped, index, queued, unsure>>

(* ... and writes the whole copy.                                          *)
Land(w) ==
  /\ at[w].op = "land"
  /\ index' = Put(index, at[w].response, at[w].entry)
  /\ Do(w, Unoccupied)
  /\ UNCHANGED <<stored, entity_name, date_format, mapped, queued, unsure>>

(* A data sender or a subject is saved under another name.  Its handlers   *)
(* run one after the other: its own copy, with a refresh of the index,     *)
(* then the copies of the responses about it.                              *)
SaveEntity(w) == \E e \in Entities, n \in EntityNames :
  /\ at[w] = Unoccupied /\ n # entity_name[e]
  /\ entity_name' = [entity_name EXCEPT ![e] = n]
  /\ Do(w, [op |-> "search", entity |-> e, name |-> n])
  /\ unsure' = unsure \cup Overlapped(w, {r \in DOMAIN stored : About[r] = e})
  /\ UNCHANGED <<stored, date_format, mapped, index, queued>>

(* A mutant of CopiesOf: a page of the results, of one.                       *)
FirstPageOfCopies(e) ==
  LET all == {r \in DOMAIN index : About[r] = e}
  IN {r \in all : \A x \in all : r <= x}

(* They are searched by the code of the entity, all of them (query_all).   *)
CopiesOf(e) == {r \in DOMAIN index : About[r] = e}

SearchCopies(w) ==
  /\ at[w].op = "search"
  /\ Do(w, [op |-> "update", entity |-> at[w].entity, name |-> at[w].name,
            found |-> CopiesOf(at[w].entity)])
  /\ UNCHANGED <<stored, entity_name, date_format, mapped, index, queued, unsure>>

(* update_field_in_submission_index.  A copy that is no longer there is an *)
(* error, which ends the loop.                                             *)
UpdateCopy(w) == at[w].op = "update" /\ \E r \in at[w].found :
  /\ IF r \in DOMAIN index
     THEN /\ index' = [index EXCEPT ![r].name = at[w].name]
          /\ Do(w, [at[w] EXCEPT !.found = @ \ {r}])
     ELSE UNCHANGED index /\ Do(w, Unoccupied)
  /\ UNCHANGED <<stored, entity_name, date_format, mapped, queued, unsure>>

Updated(w) ==
  /\ at[w].op = "update" /\ at[w].found = {}
  /\ Do(w, Unoccupied)
  /\ UNCHANGED <<stored, entity_name, date_format, mapped, index, queued, unsure>>

(* The questionnaire is saved, perhaps with another format of a date.  The *)
(* format is compared with the mapping: one that an earlier failure left   *)
(* there, or a handler that is late, hides a change.                       *)
SaveForm(w) == \E f \in DateFormats :
  /\ at[w] = Unoccupied /\ f \notin {date_format} \cap {mapped}
  /\ date_format' = f
  /\ Do(w, [op |-> "mapping", format |-> f])
  /\ unsure' = unsure \cup IF f = mapped THEN DOMAIN stored ELSE {}
  /\ UNCHANGED <<stored, entity_name, mapped, index, queued>>

(* update_store and recreate_elastic_store: the mapping is deleted, and    *)
(* the copies with it, the new one is put, and the task is queued.  The    *)
(* deletion and the new mapping are one step here.                         *)
DeleteMapping(w) ==
  /\ at[w].op = "mapping"
  /\ IF at[w].format = mapped
     THEN UNCHANGED <<mapped, index>> /\ Do(w, Unoccupied)
     ELSE mapped' = at[w].format /\ index' = <<>> /\ Do(w, [op |-> "queue"])
  /\ UNCHANGED <<stored, entity_name, date_format, queued, unsure>>

QueuePopulate(w) ==
  /\ at[w].op = "queue"
  /\ queued < MaxQueued   \* bound
  /\ queued' = queued + 1
  /\ Do(w, Unoccupied)
  /\ UNCHANGED <<stored, entity_name, date_format, mapped, index, unsure>>

(* populate_submission_index reads the responses from the view ...         *)
Populate(w) ==
  /\ at[w] = Unoccupied /\ queued > 0
  /\ queued' = queued - 1
  /\ Do(w, [op |-> "populate", rows |-> stored])
  /\ unsure' = Overlapped(w, DOMAIN stored)
  /\ UNCHANGED <<stored, entity_name, date_format, mapped, index>>

(* ... and treats one after the other as if it were being saved.           *)
PopulateRow(w) == at[w].op = "populate" /\ \E r \in DOMAIN at[w].rows :
  /\ Do(w, [op |-> "row", rows |-> at[w].rows, response |-> r,
            entry |-> Entry(r, at[w].rows[r])])
  /\ UNCHANGED <<stored, entity_name, date_format, mapped, index, queued, unsure>>

LandRow(w) ==
  /\ at[w].op = "row"
  /\ index' = Put(index, at[w].response, at[w].entry)
  /\ Do(w, [op |-> "populate",
            rows |-> [r \in DOMAIN at[w].rows \ {at[w].response} |-> at[w].rows[r]]])
  /\ UNCHANGED <<stored, entity_name, date_format, mapped, queued, unsure>>

Populated(w) ==
  /\ at[w].op = "populate" /\ DOMAIN at[w].rows = {}
  /\ Do(w, Unoccupied)
  /\ UNCHANGED <<stored, entity_name, date_format, mapped, index, queued, unsure>>

(* The database or ElasticSearch fails a job that is under way.  The task  *)
(* is tried again, unless it was its last retry.                           *)
Fail(w) ==
  /\ at[w] # Unoccupied
  /\ Do(w, Unoccupied)
  /\ \/ /\ at[w].op \in {"populate", "row"} /\ queued < MaxQueued
        /\ queued' = queued + 1
        /\ UNCHANGED unsure
     \/ /\ UNCHANGED queued
        /\ unsure' = unsure \cup
             IF at[w].op \in {"save", "land", "search", "update"}
             THEN {r \in DOMAIN stored : Writes(at[w], r)} ELSE DOMAIN stored
  /\ UNCHANGED <<stored, entity_name, date_format, mapped, index>>

SearchNext ==
  \/ \E w \in WebWorkers :
       \/ SaveEntity(w) \/ SearchCopies(w) \/ UpdateCopy(w) \/ Updated(w)
       \/ SaveForm(w) \/ DeleteMapping(w) \/ QueuePopulate(w)
  \/ \E w \in CeleryWorkers :
       Populate(w) \/ PopulateRow(w) \/ LandRow(w) \/ Populated(w)
  \/ \E w \in Workers : SaveResponse(w) \/ LookUp(w) \/ Land(w) \/ Fail(w)

SearchSpec == SearchInit /\ [][SearchNext]_searchVars

-----------------------------------------------------------------------------
(* A response that nobody is writing, while no copies are being recreated, *)
(* is shown in the log as it is in the database, whatever happened to it,  *)
(* its entity, the other responses and the questionnaire: only what two    *)
(* writers did at the same time, or a failure, may have spoilt its copy,   *)
(* and only until it is written again.                                     *)
LogShowsWhatIsStored ==
  (queued = 0 /\ \A w \in Workers : at[w].op \notin {"mapping", "queue"}) =>
    \A r \in DOMAIN stored \ unsure :
      (\A w \in Workers : ~Writes(at[w], r)) =>
        r \in DOMAIN index /\ index[r] = Entry(r, stored[r])
=============================================================================
