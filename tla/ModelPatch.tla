------------------------------ MODULE ModelPatch ------------------------------
(***************************************************************************)
(* The LM Studio patch: a tab of the settings surface drafts a model.yaml, *)
(* a manifest and a backup of the model.yaml it found, and writes them     *)
(* into a folder the user picked, file by file, or restores the folder     *)
(* from its manifest.  The server can also patch a hub folder itself.      *)
(* The user may change a folder's model.yaml, pick another folder or close *)
(* the page at any time; every write can fail.                             *)
(* Abstracted: a model.yaml is who wrote it and a number; the fields of    *)
(* the form are the alias alone; downloads, warnings and wording are left  *)
(* out, and so is the search for the hub folder's path.                    *)
(***************************************************************************)
EXTENDS Naturals, FiniteSets, Functions

CONSTANTS
    Folders,    \* folders a patch can go to
    Aliases,    \* aliases the form can hold
    Absent,     \* no file, no manifest, no draft, no folder picked
    MaxDrafts,  \* bound: drafts made
    MaxEdits    \* bound: changes the user makes to a model.yaml

ASSUME BoundsAssumption == {MaxDrafts, MaxEdits} \subseteq Nat

VARIABLES
    yaml,     \* Folders -> its model.yaml
    backups,  \* Folders -> its backup files, by name
    manifest, \* Folders -> its ndx-model-patch.json
    page,     \* the tab: [model, target, draft, asked, pending, at]
    drafts,   \* drafts so far; the last is the name of its backup file
    edits,    \* changes so far; the last is the number of its text
    mine,     \* Folders -> what the user last put there
    crossed   \* folders where a step replaced a text that nothing had read

vars == <<yaml, backups, manifest, page, drafts, edits, mine, crossed>>

Text(who, n) == [by |-> who, n |-> n]

Blank == [model |-> Absent, target |-> Absent, draft |-> Absent, asked |-> Absent,
          pending |-> "", at |-> 0]

Init ==
    /\ yaml \in [Folders -> {Absent, Text("user", 0)}]
    /\ backups = [f \in Folders |-> [n \in {} |-> Absent]]
    /\ manifest = [f \in Folders |-> Absent]
    /\ page = Blank
    /\ drafts = 0
    /\ edits = 0
    /\ mine = yaml
    /\ crossed = {}

Files == <<yaml, backups, manifest, mine, crossed>>
Idle == page.pending = ""

-----------------------------------------------------------------------------
(* The tab.  Its state outlives the component; a reload clears it.          *)

\* readLocalFolderSnapshot of the model's own folder: its model.yaml, if it has
\* one, is the original of a draft made without a target.
Snapshots == {[yaml |-> own] : own \in {Absent, Text("model", 0)}}

SelectModel ==
    /\ Idle
    /\ \E s \in Snapshots : page' = [page EXCEPT !.model = s, !.draft = Absent]
    /\ UNCHANGED <<Files, drafts, edits>>

SelectTarget ==
    /\ Idle
    /\ \E f \in Folders \ {page.target} : page' = [page EXCEPT !.target = f]
    /\ UNCHANGED <<Files, drafts, edits>>

\* createDraft reads the target before it asks the server.
ReadTarget ==
    IF page.target # Absent /\ yaml[page.target] # Absent THEN yaml[page.target]
    ELSE page.model.yaml

\* draftModelFolderPatch: the name of the backup is made of the time.
Drafted(existing, alias) == [existing |-> existing, alias |-> alias, name |-> drafts + 1]

CreateDraft ==
    /\ Idle
    /\ page.model # Absent
    /\ drafts < MaxDrafts
    /\ \E a \in Aliases :
         page' = [page EXCEPT !.pending = "draft", !.asked = Drafted(ReadTarget, a)]
    /\ drafts' = drafts + 1
    /\ UNCHANGED <<Files, edits>>

DraftAnswered ==
    /\ page.pending = "draft"
    /\ page' = [page EXCEPT !.pending = "", !.draft = page.asked, !.asked = Absent]
    /\ UNCHANGED <<Files, drafts, edits>>

\* The draft of before stays, whatever the form or the target is now.
DraftFailed ==
    /\ page.pending = "draft"
    /\ page' = [page EXCEPT !.pending = "", !.asked = Absent]
    /\ UNCHANGED <<Files, drafts, edits>>

Patch(d) == Text("ndx", d.alias)
\* Does f hold what the draft calls its original?
Fresh(f) == yaml[f] = page.draft.existing

Write ==
    /\ Idle
    /\ page.draft # Absent
    /\ page.target # Absent
    /\ page' = [page EXCEPT !.pending = "write", !.at = 1]
    /\ UNCHANGED <<Files, drafts, edits>>

Overwrite(f, text) ==
    /\ yaml' = [yaml EXCEPT ![f] = text]
    /\ UNCHANGED <<backups, manifest, mine>>

\* Seeded bug: every backup of a folder has the same name.
SaveUnderOneName(f, name, text) ==
    backups' = [backups EXCEPT ![f] = [n \in {1} |-> text]]

Save(f, name, text) ==
    backups' = [backups EXCEPT ![f] = [n \in DOMAIN @ \cup {name} |->
                                           IF n = name THEN text ELSE @[n]]]

\* writeLocalPatch: the backup, model.yaml, the manifest, an await at each.
Backup(f, d) ==
    /\ d.existing # Absent
    /\ Save(f, d.name, d.existing)
    /\ UNCHANGED <<yaml, manifest, mine, crossed>>

PutYaml(f, d) ==
    /\ Overwrite(f, Patch(d))
    /\ crossed' = IF Fresh(f) THEN crossed ELSE crossed \cup {f}

PutManifest(f, d) ==
    /\ manifest' = [manifest EXCEPT ![f] = [existed |-> d.existing # Absent, name |-> d.name]]
    /\ UNCHANGED <<yaml, backups, mine, crossed>>

\* Seeded bug: the manifest is written before the files it speaks of.
PutFileManifestFirst(f, d, i) ==
    CASE i = 1 -> PutManifest(f, d)
      [] i = 2 -> Backup(f, d) \/ (d.existing = Absent /\ UNCHANGED Files)
      [] i = 3 -> PutYaml(f, d)

PutFile(f, d, i) ==
    CASE i = 1 -> Backup(f, d) \/ (d.existing = Absent /\ UNCHANGED Files)
      [] i = 2 -> PutYaml(f, d)
      [] i = 3 -> PutManifest(f, d)

WriteNext ==
    /\ page.pending = "write"
    /\ PutFile(page.target, page.draft, page.at)
    /\ page' = IF page.at = 3 THEN [page EXCEPT !.pending = "", !.at = 0]
               ELSE [page EXCEPT !.at = @ + 1]
    /\ UNCHANGED <<drafts, edits>>

Restore ==
    /\ Idle
    /\ page.target # Absent
    /\ page' = [page EXCEPT !.pending = "restore"]
    /\ UNCHANGED <<Files, drafts, edits>>

\* What restoreLocalPatch makes of the folder; Absent removes the file.
Restored(f) ==
    IF manifest[f].existed THEN backups[f][manifest[f].name] ELSE Absent

RestoreDone ==
    LET f == page.target IN
    /\ page.pending = "restore"
    /\ manifest[f] # Absent
    /\ manifest[f].existed => manifest[f].name \in DOMAIN backups[f]
    /\ Overwrite(f, Restored(f))
    /\ crossed' = IF yaml[f] # Absent /\ yaml[f].by = "ndx" THEN crossed ELSE crossed \cup {f}
    /\ page' = [page EXCEPT !.pending = ""]
    /\ UNCHANGED <<drafts, edits>>

\* No permission, no manifest, a full disk: the rest is left undone.
Fails ==
    /\ page.pending \in {"write", "restore"}
    /\ page' = [page EXCEPT !.pending = "", !.at = 0]
    /\ UNCHANGED <<Files, drafts, edits>>

Reload ==
    /\ page # Blank
    /\ page' = Blank
    /\ UNCHANGED <<Files, drafts, edits>>

-----------------------------------------------------------------------------
(* The server: applyModelFolderPatch reads the hub's model.yaml only to say *)
(* whether it is patched, and writes it whatever it holds.                  *)

Apply(f) ==
    /\ \E a \in Aliases : Overwrite(f, Text("ndx", a))
    /\ crossed' = IF yaml[f] = Absent THEN crossed ELSE crossed \cup {f}
    /\ UNCHANGED <<page, drafts, edits>>

-----------------------------------------------------------------------------
(* The user changes a folder's model.yaml by other means.                   *)
Edit(f) ==
    /\ edits < MaxEdits
    /\ edits' = edits + 1
    /\ yaml' = [yaml EXCEPT ![f] = Text("user", edits + 1)]
    /\ mine' = [mine EXCEPT ![f] = Text("user", edits + 1)]
    /\ UNCHANGED <<backups, manifest, page, drafts, crossed>>

Next ==
    \/ SelectModel \/ SelectTarget \/ CreateDraft \/ DraftAnswered \/ DraftFailed
    \/ Write \/ WriteNext \/ Restore \/ RestoreDone \/ Fails \/ Reload
    \/ \E f \in Folders : Apply(f) \/ Edit(f)

Spec == Init /\ [][Next]_vars

-----------------------------------------------------------------------------
(* Whatever step a write ended at, and whatever was written before it: a    *)
(* manifest that speaks of an original stands beside the backup it names,   *)
(* so that restoreLocalPatch can follow it.                                 *)
ManifestRestores ==
    \A f \in Folders :
        manifest[f] # Absent /\ manifest[f].existed => manifest[f].name \in DOMAIN backups[f]

(* What the user last put in a folder is still there or in a backup, as     *)
(* long as every step that replaced it had the text it replaced: the draft  *)
(* was made from this folder and nothing changed it since, the restore      *)
(* found a patch, the server's patch found no file.                         *)
KeptUnlessCrossed ==
    \A f \in Folders \ crossed : mine[f] \in {Absent, yaml[f]} \cup Range(backups[f])

(* The tab's own words: writing into the folder backs up the model.yaml     *)
(* that is there first.  So the patch of the tab never loses the user's.    *)
WriteBacksUp ==
    \A f \in Folders :
        page.pending = "write" /\ page.target = f /\ page.at = 3
            => mine[f] \in {Absent} \cup Range(backups[f])
=============================================================================
