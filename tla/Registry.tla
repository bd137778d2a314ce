-------------------------------- MODULE Registry --------------------------------
(***************************************************************************)
(* The registry of the Governance Shell: use cases, workflows and context  *)
(* manifests, which their identifier names and a later write replaces, and *)
(* evidence and cache outcomes, which are appended.  The store is SQLite   *)
(* or the process's memory.  A record of a session is written by the       *)
(* session's actor only, and read by that actor and the admin operator:    *)
(* the owner is looked up in the session store in a step of its own, and   *)
(* that lookup may fail.  Use cases and workflows belong to nobody.        *)
(***************************************************************************)
EXTENDS Naturals

CONSTANTS
    Handlers,      \* requests, each served once
    Actors,        \* ordinary actors
    Operator,      \* AdminOperatorSubject
    OwnedBy,       \* the actor of each session, a function
    RecordIds,     \* identifiers clients choose
    MaxOutages     \* failing database operations and restarts

ASSUME RegistryConstants == {"seed", "earlier"} \cap Handlers = {}

VARIABLES
    kept,       \* is the registry SQLite
    appended,   \* evidence and cache outcomes: records [table, id, sess, by, trust]
    named,      \* use cases, workflows and manifests: records [table, id, sess, by]
    serving,    \* the requests
    outages

registryVars == <<kept, appended, named, serving, outages>>

RecordSessions == DOMAIN OwnedBy
NoSession == "unbound"     \* of a use case or a workflow
Everyone == Actors \cup {Operator}

OpenTables == {"use_case", "workflow"}
Appends    == {"evidence", "outcome"}
Tables     == OpenTables \cup Appends \cup {"manifest"}

NewRequest == [at |-> "idle", op |-> "list", table |-> "evidence", who |-> Operator,
               id |-> "none", sess |-> NoSession, known |-> {}, whole |-> TRUE,
               read |-> {}, answer |-> "none"]

Defaults == [table : OpenTables, id : RecordIds, sess : {NoSession}, by : {"seed"}]

\* Manifests from an earlier process, which the database keeps.
Earlier(s) == [table : {"manifest"}, id : RecordIds, sess : {s}, by : {"earlier"}]

RegistryInit ==
    /\ kept \in BOOLEAN
    /\ appended = {}
    /\ \/ named \in {{}, Defaults}
       \/ kept /\ \E s \in RecordSessions : named = Earlier(s)
    /\ serving = [h \in Handlers |-> NewRequest]
    /\ outages = 0

Outage == outages < MaxOutages /\ outages' = outages + 1

ServingAt(h, step) == serving[h].at = step
ServingGoes(h, step) == serving' = [serving EXCEPT ![h].at = step]
ServingAnswers(h, answer) == serving' = [serving EXCEPT ![h].at = "done", ![h].answer = answer]

\* A request that has not done anything; nothing about it matters any more.
ServingFails(h) == serving' = [serving EXCEPT ![h] = [NewRequest EXCEPT !.at = "failed"]]

\* history: the appended records acknowledged so far
Acknowledged(table) ==
    {h \in Handlers : serving[h].op = "create" /\ serving[h].table = table
                         /\ serving[h].answer = "created"}

\* requireOwnedSession and sessionOwnedByActor, when the lookup works.
Owned(sess, who) == who = Operator \/ (sess \in RecordSessions /\ OwnedBy[sess] = who)

-----------------------------------------------------------------------------
\* A request as it comes to its handler.
Asked(op, table, who, s, i) ==
    [NewRequest EXCEPT !.op = op, !.table = table, !.who = who, !.id = i,
                       !.known = IF op = "list" THEN Acknowledged(table) ELSE {},
                       !.sess = IF table \in OpenTables THEN NoSession ELSE s,
                       !.at = IF op # "create" THEN "read"
                              ELSE IF table \in OpenTables THEN "put" ELSE "owner"]

\* A request is authorized and goes to its handler; manifests cannot be listed, and of the
\* records with a name workflows are not read one by one.
ArriveAtRegistry(h) ==
    /\ ServingAt(h, "idle")
    /\ \E op \in {"create", "get", "list"}, table \in Tables, who \in Everyone,
          s \in RecordSessions, i \in RecordIds :
          /\ op = "get"  => table \in {"manifest", "use_case"}
          /\ op = "list" => table # "manifest" /\ i = CHOOSE j \in RecordIds : TRUE
          /\ op # "create" \/ table \in OpenTables => s = CHOOSE t \in RecordSessions : TRUE
          /\ table \in OpenTables => who = Operator
          /\ serving' = [serving EXCEPT ![h] = Asked(op, table, who, s, i)]
    /\ UNCHANGED <<kept, appended, named, outages>>

\* requireOwnedSession before a write: the session is not found, or is another actor's.
CheckOwner(h) ==
    /\ ServingAt(h, "owner")
    /\ \/ /\ IF Owned(serving[h].sess, serving[h].who)
             THEN ServingGoes(h, "put") ELSE ServingFails(h)
          /\ UNCHANGED outages
       \/ Outage /\ ServingFails(h)
    /\ UNCHANGED <<kept, appended, named>>

Record(h) == [table |-> serving[h].table, id |-> serving[h].id, sess |-> serving[h].sess, by |-> h]

-----------------------------------------------------------------------------
(* Records that are appended.                                              *)

\* evidenceTrustMetadata and trustMetadataFromClient: the server's label of a record.
Trust(external, proven) == IF proven /\ ~external THEN "managed_client" ELSE "self_reported"

Labelled(record, trust) == [table |-> record.table, id |-> record.id, sess |-> record.sess,
                            by |-> record.by, trust |-> trust]

\* The primary keys of the tables.
IdTaken(record) == \E r \in appended : r.table = record.table /\ r.id = record.id

\* Mutant: INSERT OR REPLACE, as for the named records.
InsertReplacing(h, record) ==
    /\ appended' = {r \in appended : ~kept \/ r.table # record.table \/ r.id # record.id}
                     \cup {record}
    /\ ServingAnswers(h, "created")
    /\ UNCHANGED outages

\* AppendEvidence and AppendCacheOutcome: the table refuses a second record under one
\* identifier, the slice in memory does not.
Insert(h, record) ==
    \/ /\ ~kept \/ ~IdTaken(record)
       /\ appended' = appended \cup {record} /\ ServingAnswers(h, "created")
       /\ UNCHANGED outages
    \/ kept /\ IdTaken(record) /\ ServingFails(h) /\ UNCHANGED <<appended, outages>>
    \/ kept /\ Outage /\ ServingFails(h) /\ UNCHANGED appended

CreateEvidence(h) ==
    /\ ServingAt(h, "put") /\ serving[h].table = "evidence"
    /\ \E external, proven \in BOOLEAN : Insert(h, Labelled(Record(h), Trust(external, proven)))
    /\ UNCHANGED <<kept, named>>

CreateCacheOutcome(h) ==
    /\ ServingAt(h, "put") /\ serving[h].table = "outcome"
    /\ Insert(h, Labelled(Record(h), "none"))
    /\ UNCHANGED <<kept, named>>

-----------------------------------------------------------------------------
(* Records with a name.                                                    *)

Find(table, id) == {r \in named : r.table = table /\ r.id = id}

\* INSERT OR REPLACE, or the assignment to the map.
Replacing(record) == (named \ Find(record.table, record.id)) \cup {record}

\* The statement that registers a record, or its error; a required field may be missing.
Register(h) ==
    /\ \/ /\ named' = Replacing(Record(h)) /\ ServingGoes(h, "echo") /\ UNCHANGED outages
       \/ ServingFails(h) /\ UNCHANGED <<named, outages>>
       \/ kept /\ Outage /\ ServingFails(h) /\ UNCHANGED named
    /\ UNCHANGED <<kept, appended>>

CreateUseCase(h) == ServingAt(h, "put") /\ serving[h].table = "use_case" /\ Register(h)

CreateWorkflow(h) == ServingAt(h, "put") /\ serving[h].table = "workflow" /\ Register(h)

CreateManifest(h) == ServingAt(h, "put") /\ serving[h].table = "manifest" /\ Register(h)

\* Each of the three reads the record again under its name and answers with what it finds,
\* by then perhaps another request's record, or with its own when the read fails.
Echo(h) ==
    /\ ServingAt(h, "echo")
    /\ \/ /\ serving' = [serving EXCEPT ![h].at = "done", ![h].answer = "created",
                     ![h].read = Find(serving[h].table, serving[h].id)]
          /\ UNCHANGED outages
       \/ kept /\ Outage /\ ServingAnswers(h, "created")
    /\ UNCHANGED <<kept, appended, named>>

-----------------------------------------------------------------------------
(* Reading.                                                                *)

\* GetManifest and GetUseCase: an error of the query is a record that is not there.
GetNamed(h) ==
    /\ ServingAt(h, "read") /\ serving[h].op = "get"
    /\ LET found == Find(serving[h].table, serving[h].id)
       IN  \/ /\ found # {}
              /\ serving' = [serving EXCEPT ![h].read = found,
                     ![h].at = IF serving[h].table = "manifest" THEN "filter" ELSE "done",
                     ![h].answer = IF serving[h].table = "manifest" THEN "none" ELSE "ok"]
              /\ UNCHANGED outages
           \/ found = {} /\ ServingFails(h) /\ UNCHANGED outages
           \/ kept /\ Outage /\ ServingFails(h)
    /\ UNCHANGED <<kept, appended, named>>

\* ListUseCases and ListWorkflows
ListOpen(h) ==
    /\ ServingAt(h, "read") /\ serving[h].op = "list" /\ serving[h].table \in OpenTables
    /\ \/ /\ serving' = [serving EXCEPT ![h].at = "done", ![h].answer = "ok",
                     ![h].read = {r \in named : r.table = serving[h].table}]
          /\ UNCHANGED outages
       \/ kept /\ Outage /\ ServingFails(h)
    /\ UNCHANGED <<kept, appended, named>>

\* The whole table is read before anything is filtered.
ListAppended(h) ==
    /\ ServingAt(h, "read") /\ serving[h].op = "list" /\ serving[h].table \in Appends
    /\ \/ /\ serving' = [serving EXCEPT ![h].at = "filter",
                     ![h].read = {r \in appended : r.table = serving[h].table}]
          /\ UNCHANGED outages
       \/ kept /\ Outage /\ ServingFails(h)
    /\ UNCHANGED <<kept, appended, named>>

\* Mutant: the owner of what the name meant is checked, and the manifest read again.
CheckManifestThenRead(h) ==
    /\ ServingAt(h, "filter") /\ serving[h].op = "get"
    /\ IF \A r \in serving[h].read : Owned(r.sess, serving[h].who)
       THEN serving' = [serving EXCEPT ![h].at = "done", ![h].answer = "ok",
                     ![h].read = Find("manifest", serving[h].id)]
       ELSE ServingFails(h)
    /\ UNCHANGED <<kept, appended, named, outages>>

\* getManifest: the session of the manifest that was read has to be the reader's.
CheckManifest(h) ==
    /\ ServingAt(h, "filter") /\ serving[h].op = "get"
    /\ \/ /\ IF \A r \in serving[h].read : Owned(r.sess, serving[h].who)
             THEN ServingAnswers(h, "ok") ELSE ServingFails(h)
          /\ UNCHANGED outages
       \/ Outage /\ ServingFails(h)
    /\ UNCHANGED <<kept, appended, named>>

\* filterOwnedEvidence and filterOwnedCacheOutcomes: one lookup for each record; a record
\* whose lookup fails is left out like another actor's, and the list is answered all the same.
Filter(h) ==
    /\ ServingAt(h, "filter") /\ serving[h].op = "list"
    /\ \E failed \in {{}} \cup {{s} : s \in IF serving[h].who = Operator THEN {} ELSE RecordSessions} :
          /\ IF failed = {} THEN UNCHANGED outages ELSE Outage
          /\ serving' = [serving EXCEPT ![h].at = "done", ![h].answer = "ok",
                   ![h].whole = (failed = {}),
                   ![h].read = {r \in @ : r.sess \notin failed /\ Owned(r.sess, serving[h].who)}]
    /\ UNCHANGED <<kept, appended, named>>

\* SeedPOCRegistryDefaults at start: the defaults are registered where their name is free.
Seeded(known) == known \cup {d \in Defaults : \A r \in known : r.table = d.table => r.id # d.id}

RestartRegistry ==
    /\ Outage
    /\ LET known == IF kept THEN named ELSE {} IN named' \in {known, Seeded(known)}
    /\ appended' = IF kept THEN appended ELSE {}
    /\ serving' = [h \in Handlers |->
          IF serving[h].at \in {"idle", "done"} THEN serving[h]
          ELSE [NewRequest EXCEPT !.at = "failed"]]
    /\ UNCHANGED kept

RegistryNext ==
    \/ \E h \in Handlers :
          \/ ArriveAtRegistry(h) \/ CheckOwner(h)
          \/ CreateEvidence(h) \/ CreateCacheOutcome(h)
          \/ CreateUseCase(h) \/ CreateWorkflow(h) \/ CreateManifest(h) \/ Echo(h)
          \/ GetNamed(h) \/ ListOpen(h) \/ ListAppended(h) \/ CheckManifest(h) \/ Filter(h)
    \/ RestartRegistry

RegistrySpec == RegistryInit /\ [][RegistryNext]_registryVars

-----------------------------------------------------------------------------
(* Properties.                                                             *)

\* r is the record request h posted, under the identifier and for the session it named.
Written(r, h) ==
    /\ r.by = h /\ r.table = serving[h].table
    /\ r.id = serving[h].id /\ r.sess = serving[h].sess

\* A record that was acknowledged is found: while the store has not lost its memory,
\* evidence answered 201 stays as it was written, whatever identifier later requests use, and
\* every list that is asked for afterwards, by somebody it belongs to and with no failed
\* lookup, shows it, and once; and a use case or workflow that a client registered is not set
\* back to its default when the process starts.
AcknowledgedIsListed ==
    kept \/ outages = 0 =>
        /\ \A table \in Appends : \A h \in Acknowledged(table) :
              \E r \in appended : Written(r, h)
        /\ \A table \in OpenTables : \A h \in Acknowledged(table) :
              \E r \in Find(table, serving[h].id) : r.by # "seed"
        /\ \A g \in Handlers :
              serving[g].op = "list" /\ serving[g].answer = "ok" /\ serving[g].whole =>
                  \A h \in serving[g].known :
                      serving[h].table \in Appends /\ Owned(serving[h].sess, serving[g].who) =>
                          \E r \in serving[g].read :
                              Written(r, h) /\ {q \in serving[g].read : q.by = h} = {r}

\* What is read is the reader's own: neither a list nor the manifest of a name, which
\* another actor may replace at any step, shows an ordinary actor a record of another
\* actor's session.
ReadsAreOwn ==
    \A h \in Handlers : serving[h].answer = "ok" /\ serving[h].table \notin OpenTables =>
        \A r \in serving[h].read : Owned(r.sess, serving[h].who)

\* The two promises of the registry together: nothing acknowledged is missing, and nothing
\* shown is another actor's (registry.go:555-686, registry_store.go:86-119).
RegistryIsFaithful == AcknowledgedIsListed /\ ReadsAreOwn
=============================================================================
