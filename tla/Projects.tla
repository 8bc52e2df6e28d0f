------------------------------- MODULE Projects -------------------------------
(***************************************************************************)
(* The projects of the web client: folders of the workspace, the sessions  *)
(* of each, and each browser's saved document that names them.  A         *)
(* deletion answers before it is done: what is left of it runs on in the   *)
(* server's memory, beside listings, creations, other                      *)
(* deletions and the documents the browsers save.                          *)
(* Every request is a series of awaits, kept in "work"; each can fail and  *)
(* a crash of the server ends them all.                                    *)
(* Abstracted: a folder is the number of its creation, a session the       *)
(* project it belongs to; web_project, which only keeps the order of the   *)
(* menu; a document's last session, its language, paths and pins.          *)
(***************************************************************************)
EXTENDS Naturals, FiniteSets

CONSTANTS
    Projects,
    Pages,       \* browsers, each with a clientid of its own
    Absent,      \* no folder, no active project, nothing asked for
    MaxDeletes,  \* bound: deletions asked for
    MaxCreates,  \* bound: folders made
    MaxSessions, \* bound: sessions inserted
    MaxWork      \* bound: requests under way at a time

BoundsAssumption == {MaxDeletes, MaxCreates, MaxSessions, MaxWork} \subseteq Nat

VARIABLES
    dirs,     \* Projects -> number of the folder's creation
    sessions, \* number -> [project, late]: inserted after a deletion had
              \* deleted the sessions of the project?
    pending,  \* pendingProjectDeletes
    docs,     \* Pages -> webclientstate: [projects, active]
    menu,     \* Pages -> the page's own document
    work,     \* requests under way: [kind, at, page, project, seen, names]
    deletes,  \* deletions so far
    creates,  \* folders so far
    crossed,  \* projects a deletion was asked for while another was under way
    lost      \* projects whose folder was removed by a deletion that was asked
              \* for another one

vars == <<dirs, sessions, pending, docs, menu, work, deletes, creates, crossed, lost>>

Doc(ps, active) == [projects |-> ps, active |-> active]

Init ==
    /\ dirs = [p \in Projects |-> 0]
    /\ sessions = [n \in {} |-> Absent]
    /\ pending = {}
    /\ docs = [g \in Pages |-> Doc(Projects, Absent)]
    /\ menu = docs
    /\ work = {}
    /\ deletes = 0
    /\ creates = 0
    /\ crossed = {}
    /\ lost = {}

Stored == <<dirs, sessions>>
Bounds == <<deletes, creates>>
Ghosts == <<crossed, lost>>

Work(kind, at, g, p, seen, names) ==
    [kind |-> kind, at |-> at, page |-> g, project |-> p, seen |-> seen, names |-> names]

Begins(w) == Cardinality(work) < MaxWork /\ w \notin work /\ work' = work \cup {w}
Ends(w) == work' = work \ {w}
Goes(w, v) == work' = (work \ {w}) \cup {v}
To(w, at) == Goes(w, [w EXCEPT !.at = at])

\* A list for the page, with a project it would rather have active.
Listing(g, p) == Work("list", "folders", g, p, Absent, {})

-----------------------------------------------------------------------------
(* Documents                                                                *)

\* normalizeWebClientState: the active project is one of the document's.
Normalized(d) ==
    [d EXCEPT !.active = IF @ \in d.projects THEN @
                         ELSE IF d.projects = {} THEN Absent
                         ELSE CHOOSE p \in d.projects : TRUE]

\* saveState: the page goes on with the document and nobody awaits the PUT.
Save(g, d) ==
    /\ menu' = [menu EXCEPT ![g] = Normalized(d)]
    /\ Begins([kind |-> "put", at |-> "put", page |-> g, project |-> Absent, seen |-> Absent,
               names |-> Normalized(d)])

\* upsertWebClientState.
Put(w) ==
    /\ w.kind = "put"
    /\ docs' = [docs EXCEPT ![w.page] = w.names]
    /\ Ends(w)
    /\ UNCHANGED <<Stored, pending, menu, Bounds, Ghosts>>

\* selectProject, selectSession, prepareSessionDraft.
SelectProject(g, p) ==
    /\ p \in menu[g].projects
    /\ Save(g, [menu[g] EXCEPT !.active = p])
    /\ UNCHANGED <<Stored, pending, docs, Bounds, Ghosts>>

\* stateAfterSessionReady: the server has found the folder, the page may not
\* know of it.
SessionReady(g, p) ==
    /\ dirs[p] # Absent
    /\ Save(g, [menu[g] EXCEPT !.active = p])
    /\ UNCHANGED <<Stored, pending, docs, Bounds, Ghosts>>

\* Seeded bug: the project is cut out of the list alone.
StripList(d, p) == [d EXCEPT !.projects = @ \ {p}]

\* What deleteWebProject's UPDATE makes of a document.
Strip(d, p) ==
    [projects |-> d.projects \ {p}, active |-> IF d.active = p THEN Absent ELSE d.active]

-----------------------------------------------------------------------------
(* GET web-projects: the folders, those not being deleted, a row for each   *)
(* that has none; then the page reloads its menu with the answer.           *)

ListFolders(w) ==
    /\ w.kind = "list" /\ w.at = "folders"
    /\ Goes(w, [w EXCEPT !.at = "filter", !.names = {p \in Projects : dirs[p] # Absent}])
    /\ UNCHANGED <<Stored, pending, docs, menu, Bounds, Ghosts>>

\* The upserts run one after another before the answer.
ListFilter(w) ==
    /\ w.kind = "list" /\ w.at = "filter"
    /\ Goes(w, [w EXCEPT !.at = "answer", !.names = @ \ pending])
    /\ UNCHANGED <<Stored, pending, docs, menu, Bounds, Ghosts>>

\* reloadProjectMenu
Reloaded(w) ==
    Doc(w.names, IF w.project \in w.names THEN w.project ELSE menu[w.page].active)

Reload(w) ==
    /\ w.kind = "list" /\ w.at = "answer"
    /\ LET d == Normalized(Reloaded(w)) IN
       /\ menu' = [menu EXCEPT ![w.page] = d]
       /\ Goes(w, [kind |-> "put", at |-> "put", page |-> w.page, project |-> Absent,
                   seen |-> Absent, names |-> d])
    /\ UNCHANGED <<Stored, pending, docs, Bounds, Ghosts>>

\* useProjectMenuInitialization: the page starts with the saved document and a
\* list of its own; nothing is saved.
Load(g) ==
    /\ menu[g] # docs[g]
    /\ LET d == Normalized([docs[g] EXCEPT !.projects = {p \in Projects : dirs[p] # Absent} \ pending])
       IN menu' = [menu EXCEPT ![g] = d]
    /\ work' = {w \in work : w.page # g \/ w.kind # "list"}
    /\ UNCHANGED <<Stored, pending, docs, Bounds, Ghosts>>

-----------------------------------------------------------------------------
(* POST web-projects                                                        *)

\* Seeded bug: mkdir is recursive and a folder that exists does not stop it.
MakeFolderAnyway(p) ==
    dirs' = [dirs EXCEPT ![p] = creates + 1]

MakeFolder(p) ==
    /\ dirs[p] = Absent
    /\ dirs' = [dirs EXCEPT ![p] = creates + 1]

Create(g, p) ==
    /\ creates < MaxCreates
    /\ MakeFolder(p)
    /\ creates' = creates + 1
    /\ Begins(Work("create", "row", g, p, Absent, {}))
    /\ UNCHANGED <<sessions, pending, docs, menu, deletes, Ghosts>>

CreateRow(w) ==
    /\ w.kind = "create"
    /\ Goes(w, Listing(w.page, w.project))
    /\ UNCHANGED <<Stored, pending, docs, menu, Bounds, Ghosts>>

-----------------------------------------------------------------------------
(* DELETE web-projects                                                      *)

Deleting(p) == {w \in work : w.kind \in {"delete", "job"} /\ w.project = p}

\* One at a time for a page and a project (startAction).
Delete(g, p) ==
    /\ p \in menu[g].projects
    /\ ~\E w \in Deleting(p) : w.kind = "delete" /\ w.page = g
    /\ deletes < MaxDeletes
    /\ deletes' = deletes + 1
    /\ Begins(Work("delete", "docs", g, p, dirs[p], {}))
    /\ crossed' = IF Deleting(p) = {} THEN crossed ELSE crossed \cup {p}
    /\ UNCHANGED <<Stored, pending, docs, menu, creates, lost>>

StripDocs(w) ==
    /\ w.kind = "delete" /\ w.at = "docs"
    /\ docs' = [g \in Pages |-> Strip(docs[g], w.project)]
    /\ To(w, "accept")
    /\ UNCHANGED <<Stored, pending, menu, Bounds, Ghosts>>

\* 202: the page lists again, the rest goes on in the background.
Accept(w) ==
    /\ w.kind = "delete" /\ w.at = "accept"
    /\ pending' = pending \cup {w.project}
    /\ work' = (work \ {w}) \cup {[w EXCEPT !.kind = "job", !.at = "sessions", !.page = Absent],
                                  Listing(w.page, Absent)}
    /\ UNCHANGED <<Stored, docs, menu, Bounds, Ghosts>>

Job(w, at) == w.kind = "job" /\ w.at = at

\* Sessions of p from here on are inserted late, those asked for already too.
DeleteSessions(p, rest) ==
    /\ sessions' = [n \in DOMAIN sessions |-> IF sessions[n] # Absent /\ sessions[n].project = p
                                              THEN Absent ELSE sessions[n]]
    /\ work' = {IF v.kind = "session" /\ v.project = p THEN [v EXCEPT !.at = "late"] ELSE v : v \in rest}
    /\ UNCHANGED <<dirs, lost, pending>>

\* The promise is settled: finally takes the project off the set.
RemoveFolder(w, rest) ==
    /\ dirs' = [dirs EXCEPT ![w.project] = Absent]
    /\ lost' = IF w.seen = Absent \/ dirs[w.project] \in {w.seen, Absent} THEN lost
               ELSE lost \cup {w.project}
    /\ pending' = pending \ {w.project}
    /\ work' = rest
    /\ UNCHANGED sessions

\* Seeded bug: the folder goes first.
BackgroundFolderFirst(w) ==
    LET rest == work \ {w} IN
    \/ /\ Job(w, "sessions")
       /\ dirs' = [dirs EXCEPT ![w.project] = Absent]
       /\ To(w, "folder")
       /\ UNCHANGED <<sessions, lost, pending>>
    \/ /\ Job(w, "folder")
       /\ DeleteSessions(w.project, rest)

\* deleteProjectDirectoryAndSessions
Background(w) ==
    LET rest == work \ {w} IN
    \/ Job(w, "sessions") /\ DeleteSessions(w.project, rest \cup {[w EXCEPT !.at = "folder"]})
    \/ Job(w, "folder") /\ RemoveFolder(w, rest)

DeleteInBackground(w) ==
    /\ Background(w)
    /\ UNCHANGED <<docs, menu, Bounds, crossed>>

\* A failed job is logged and still takes its name off.
Released(w) == IF w.kind = "job" THEN pending \ {w.project} ELSE pending

-----------------------------------------------------------------------------
(* Sessions: POST sessions, session.create.  The folder is looked for, then *)
(* the session is inserted.                                                 *)

NewSession(p) ==
    /\ dirs[p] # Absent
    /\ Cardinality(DOMAIN sessions) < MaxSessions
    /\ Begins(Work("session", IF \E w \in work : Job(w, "folder") /\ w.project = p
                              THEN "late" ELSE "insert", Absent, p, Absent, {}))
    /\ UNCHANGED <<Stored, pending, docs, menu, Bounds, Ghosts>>

InsertSession(w) ==
    /\ w.kind = "session"
    /\ LET n == Cardinality(DOMAIN sessions)
       IN sessions' = [i \in DOMAIN sessions \cup {n} |->
                          IF i = n THEN [project |-> w.project, late |-> w.at = "late"]
                          ELSE sessions[i]]
    /\ Ends(w)
    /\ UNCHANGED <<dirs, pending, docs, menu, Bounds, Ghosts>>

-----------------------------------------------------------------------------
(* A query, a request or the file system fails; the server stops.           *)

Fail(w) ==
    /\ Ends(w)
    /\ pending' = Released(w)
    /\ UNCHANGED <<Stored, docs, menu, Bounds, Ghosts>>

Crash ==
    /\ work # {}
    /\ work' = {}
    /\ pending' = {}
    /\ UNCHANGED <<Stored, docs, menu, Bounds, Ghosts>>

WorkStep(w) ==
    \/ Put(w) \/ ListFolders(w) \/ ListFilter(w) \/ Reload(w) \/ CreateRow(w)
    \/ StripDocs(w) \/ Accept(w) \/ DeleteInBackground(w) \/ InsertSession(w)
    \/ Fail(w)

Next ==
    \/ \E g \in Pages, p \in Projects :
         SelectProject(g, p) \/ SessionReady(g, p) \/ Create(g, p) \/ Delete(g, p)
    \/ \E g \in Pages : Load(g)
    \/ \E p \in Projects : NewSession(p)
    \/ \E w \in work : WorkStep(w)
    \/ Crash

\* The awaits of a background job end, one way or the other.
Fairness == \A p \in Projects : WF_vars(\E w \in work : w.kind = "job" /\ w.project = p /\ WorkStep(w))

Spec == Init /\ [][Next]_vars /\ Fairness

-----------------------------------------------------------------------------
(* A deletion that found a folder when it was asked for removes that folder *)
(* and not one that was created since, unless two deletions of the name     *)
(* crossed: a name can be taken again only when its folder is gone.         *)
NewFolderKept == lost \subseteq crossed

(* A session whose project has no folder was inserted after the deletion    *)
(* had deleted the project's sessions: whichever step of it fails and       *)
(* whenever the server stops, no older session is left without its folder.  *)
OrphansAreLate ==
    \A n \in DOMAIN sessions :
        sessions[n] # Absent /\ dirs[sessions[n].project] = Absent => sessions[n].late

(* Two writers of a document that know nothing of each other, the page that *)
(* saves all of it and the deletion that cuts a project out of it in SQL,   *)
(* leave it with an active project that is one of its projects.             *)
ActiveIsListed == \A g \in Pages : docs[g].active \in docs[g].projects \cup {Absent}

=============================================================================
