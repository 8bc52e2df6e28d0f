----------------------------- MODULE FilesProofs -----------------------------
(***************************************************************************)
(* What is kept in files, whoever writes it.  The patch of a model folder, *)
(* for any folders, aliases and bounds: what a manifest names is there,    *)
(* and a text of the user's goes only where a step replaced a text it had  *)
(* not read.  The settings, for any catalog and any requests: a document   *)
(* names only what it has.  The projects, for any pages and projects: a    *)
(* deletion takes the folder it found and leaves no session behind.        *)
(***************************************************************************)
EXTENDS FilesParts, TLAPS

-----------------------------------------------------------------------------
(* The patch of a model folder.                                             *)

Texts  == {Absent} \cup [by : {"user", "model", "ndx"}, n : Nat \cup Aliases]
PatchModels == {Absent} \cup [yaml : Texts]
Drafts == {Absent} \cup [existing : Texts, alias : Aliases, name : Nat]

PatchPages == [model : PatchModels, target : Folders \cup {Absent}, draft : Drafts, asked : Drafts,
          pending : {"", "draft", "write", "restore"}, at : 0..3]

(* What the tab writes it has drafted, into a folder it was given.          *)
PageSound ==
    /\ page \in PatchPages
    /\ page.pending \in {"write", "restore"} => page.target \in Folders /\ page.target # Absent
    /\ page.pending = "write" => page.draft # Absent /\ page.at # 0

FilesSound ==
    /\ yaml \in [Folders -> Texts]
    /\ mine \in [Folders -> Texts]
    /\ DOMAIN backups = Folders
    /\ \A f \in Folders : backups[f] \in [DOMAIN backups[f] -> Texts]
    /\ DOMAIN manifest = Folders
    /\ \A f \in Folders : mine[f] = Absent \/ mine[f].by = "user"
    /\ edits \in Nat

(* A backup is named after the draft it was made for, and keeps its text:   *)
(* the names count the drafts, so a new draft's is the name of no file.     *)
NamesCount ==
    /\ drafts \in Nat
    /\ \A f \in Folders : \A n \in DOMAIN backups[f] : n \in Nat /\ n <= drafts
    /\ page.draft # Absent =>
          /\ page.draft.name <= drafts
          /\ \A f \in Folders : page.draft.name \in DOMAIN backups[f]
                => backups[f][page.draft.name] = page.draft.existing
    /\ page.pending = "draft" =>
          /\ page.asked.name <= drafts
          /\ \A f \in Folders : page.asked.name \notin DOMAIN backups[f]

(* Once its first step is done, a write has its backup.                     *)
BackupFirst ==
    page.pending = "write" /\ page.at \in {2, 3} /\ page.draft.existing # Absent
        => page.draft.name \in DOMAIN backups[page.target]

Sound ==
    /\ PageSound /\ FilesSound /\ NamesCount /\ BackupFirst
    /\ ManifestRestores /\ KeptUnlessCrossed

-----------------------------------------------------------------------------
(* The tab, as long as it writes no file                                    *)

LEMMA Blanks == Absent \in PatchModels /\ Absent \in Drafts /\ Blank \in PatchPages /\ {0, 1} \subseteq 0..3
<1>1. Absent \in PatchModels /\ Absent \in Drafts
  BY DEF PatchModels, Drafts
<1>2. {0, 1} \subseteq 0..3
  OBVIOUS
<1> QED BY <1>1, <1>2 DEF Blank, PatchPages

LEMMA TextsOf == \A x \in {"user", "model", "ndx"}, n \in Nat \cup Aliases : Text(x, n) \in Texts
BY DEF Text, Texts

LEMMA InitSound == Init => Sound
<1> SUFFICES ASSUME Init PROVE Sound
  OBVIOUS
<1>1. PageSound
  BY Blanks DEF Init, Blank, PageSound
<1>2. Text("user", 0) \in Texts /\ Absent \in Texts
  BY TextsOf DEF Texts
<1>3. FilesSound
  <2>1. yaml \in [Folders -> Texts] /\ mine = yaml
    BY <1>2 DEF Init
  <2>2. \A f \in Folders : mine[f] = Absent \/ mine[f].by = "user"
    BY DEF Init, Text
  <2> QED BY <2>1, <2>2 DEF Init, FilesSound
<1>4. NamesCount /\ BackupFirst
  BY DEF Init, NamesCount, BackupFirst, Blank
<1>5. ManifestRestores /\ KeptUnlessCrossed
  BY DEF Init, ManifestRestores, KeptUnlessCrossed
<1> QED BY <1>1, <1>3, <1>4, <1>5 DEF Sound

(* A step of the tab that leaves the files needs to keep only what is said  *)
(* of the tab.                                                              *)
LEMMA TabKeeps ==
    ASSUME Sound, UNCHANGED <<Files, drafts, edits>>, PageSound',
           page'.draft \in {Absent, page.draft}
              \/ (page.pending = "draft" /\ page'.draft = page.asked),
           page'.pending # "draft",
           page'.pending = "write" => page'.at = 1
    PROVE  Sound'
<1> USE DEF Sound, Files
<1>1. FilesSound' /\ ManifestRestores' /\ KeptUnlessCrossed'
  BY DEF FilesSound, ManifestRestores, KeptUnlessCrossed
<1>2. BackupFirst'
  BY DEF BackupFirst
<1>3. NamesCount'
  BY DEF NamesCount
<1> QED BY <1>1, <1>2, <1>3

LEMMA TabSteps ==
    ASSUME Sound,
           \/ SelectModel \/ SelectTarget \/ DraftAnswered \/ DraftFailed
           \/ Write \/ Restore \/ Fails \/ Reload
    PROVE  Sound'
<1> USE Blanks DEF PageSound, Idle
<1>0. PageSound
  BY DEF Sound
<1>1. UNCHANGED <<Files, drafts, edits>>
  BY DEF SelectModel, SelectTarget, DraftAnswered, DraftFailed, Write, Restore, Fails, Reload
<1>2. CASE SelectModel
  <2>1. PICK s \in Snapshots : page' = [page EXCEPT !.model = s, !.draft = Absent]
    BY <1>2 DEF SelectModel
  <2>2. s \in PatchModels
    <3>1. PICK own \in Texts : s = [yaml |-> own]
      BY TextsOf DEF Snapshots, Texts
    <3> QED BY <3>1 DEF PatchModels
  <2>3. PageSound' /\ page'.draft = Absent /\ page'.pending = ""
    BY <1>0, <1>2, <2>1, <2>2 DEF PatchPages, SelectModel
  <2> QED BY <1>1, <2>3, TabKeeps
<1>3. CASE SelectTarget
  <2>1. PICK f \in Folders : page' = [page EXCEPT !.target = f]
    BY <1>3 DEF SelectTarget
  <2>2. PageSound' /\ page'.draft = page.draft /\ page'.pending = ""
    BY <1>0, <1>3, <2>1 DEF PatchPages, SelectTarget
  <2> QED BY <1>1, <2>2, TabKeeps
<1>4. CASE DraftAnswered
  <2>1. PageSound' /\ page'.draft = page.asked /\ page'.pending = "" /\ page.pending = "draft"
    BY <1>0, <1>4 DEF PatchPages, DraftAnswered
  <2> QED BY <1>1, <2>1, TabKeeps
<1>5. CASE DraftFailed
  <2>1. PageSound' /\ page'.draft = page.draft /\ page'.pending = ""
    BY <1>0, <1>5 DEF PatchPages, DraftFailed
  <2> QED BY <1>1, <2>1, TabKeeps
<1>6. CASE Write
  <2>1. page' \in PatchPages
    BY <1>0, <1>6 DEF PatchPages, Write
  <2>0. page' = [page EXCEPT !.pending = "write", !.at = 1]
    BY <1>6 DEF Write
  <2>3. page'.draft = page.draft /\ page'.pending = "write" /\ page'.target = page.target
    BY <1>0, <2>0 DEF PatchPages
  <2>4. page'.at = 1
    BY <1>0, <2>0 DEF PatchPages
  <2>2. PageSound' /\ page'.draft = page.draft /\ page'.pending = "write" /\ page'.at = 1
    <3>1. page.draft # Absent /\ page.target # Absent /\ page.target \in Folders
      BY <1>0, <1>6 DEF Write, PatchPages
    <3> QED BY <2>1, <2>3, <2>4, <3>1
  <2> QED BY <1>1, <2>2, TabKeeps
<1>7. CASE Restore
  <2>1. PageSound' /\ page'.draft = page.draft /\ page'.pending = "restore"
    BY <1>0, <1>7 DEF PatchPages, Restore
  <2> QED BY <1>1, <2>1, TabKeeps
<1>8. CASE Fails
  <2>1. page' \in PatchPages
    BY <1>0, <1>8 DEF PatchPages, Fails
  <2>2. PageSound' /\ page'.draft = page.draft /\ page'.pending = ""
    BY <1>0, <1>8, <2>1 DEF PatchPages, Fails
  <2> QED BY <1>1, <2>2, TabKeeps
<1>9. CASE Reload
  <2>1. PageSound' /\ page'.draft = Absent /\ page'.pending = ""
    BY <1>9 DEF Reload, Blank
  <2> QED BY <1>1, <2>1, TabKeeps
<1> QED BY <1>2, <1>3, <1>4, <1>5, <1>6, <1>7, <1>8, <1>9

(* A draft takes a name that no backup has.                                 *)
LEMMA CreateDraftKeeps ==
    ASSUME Sound, CreateDraft
    PROVE  Sound'
<1>1. PICK a \in Aliases :
         page' = [page EXCEPT !.pending = "draft", !.asked = Drafted(ReadTarget, a)]
  BY DEF CreateDraft
<1>2. UNCHANGED <<yaml, backups, manifest, mine, crossed, edits>> /\ drafts' = drafts + 1
      /\ page.model # Absent /\ page.pending = "" /\ page \in PatchPages
  BY DEF CreateDraft, Files, Idle, Sound, PageSound
<1>3. ReadTarget \in Texts
  <2>1. page.model.yaml \in Texts
    BY <1>2 DEF PatchPages, PatchModels
  <2>2. page.target # Absent => yaml[page.target] \in Texts
    BY <1>2 DEF PatchPages, Sound, FilesSound
  <2> QED BY <2>1, <2>2 DEF ReadTarget
<1>4. drafts \in Nat
  BY DEF Sound, NamesCount
<1> DEFINE d == Drafted(ReadTarget, a)
<1>5. d \in Drafts /\ d.name = drafts + 1
  <2> HIDE DEF d
  <2>1. d = [existing |-> ReadTarget, alias |-> a, name |-> drafts + 1]
    BY DEF Drafted, d
  <2> QED BY <1>3, <1>4, <2>1 DEF Drafts
<1> HIDE DEF d
<1>6. /\ page' \in PatchPages /\ page'.asked = d /\ page'.pending = "draft"
      /\ page'.draft = page.draft /\ page'.target = page.target
  BY <1>1, <1>2, <1>5 DEF PatchPages, d
<1>7. PageSound' /\ BackupFirst'
  BY <1>6 DEF PageSound, BackupFirst
<1>8. FilesSound' /\ ManifestRestores' /\ KeptUnlessCrossed'
  BY <1>2 DEF Sound, FilesSound, ManifestRestores, KeptUnlessCrossed
<1>9. NamesCount'
  <2>0. drafts' = drafts + 1 /\ backups' = backups
    BY <1>2
  <2>1. \A f \in Folders : d.name \notin DOMAIN backups[f]
    BY <1>4, <1>5 DEF Sound, NamesCount
  <2>2. page.draft # Absent => page.draft.name \in Nat
    BY <1>2 DEF PatchPages, Drafts
  <2>3. \A n \in Nat : n <= drafts => n <= drafts'
    BY <1>4, <2>0
  <2>4. drafts' \in Nat /\ \A f \in Folders : \A n \in DOMAIN backups'[f] : n \in Nat /\ n <= drafts'
    BY <1>4, <2>0, <2>3 DEF Sound, NamesCount
  <2>5. page'.draft # Absent =>
          /\ page'.draft.name <= drafts'
          /\ \A f \in Folders : page'.draft.name \in DOMAIN backups'[f]
                => backups'[f][page'.draft.name] = page'.draft.existing
    BY <1>6, <2>0, <2>2, <2>3 DEF Sound, NamesCount
  <2>6. d.name <= drafts' /\ \A f \in Folders : d.name \notin DOMAIN backups'[f]
    <3>1. d.name <= drafts'
      BY <1>4, <1>5, <2>0
    <3> QED BY <2>0, <2>1, <3>1
  <2> QED BY <1>6, <2>4, <2>5, <2>6 DEF NamesCount
<1> QED BY <1>7, <1>8, <1>9 DEF Sound

-----------------------------------------------------------------------------
(* The steps that write files                                               *)

(* The first step of a write saves the original, under the draft's name.    *)
LEMMA SaveFacts ==
    ASSUME DOMAIN backups = Folders, NEW f \in Folders, NEW name, NEW text, Save(f, name, text)
    PROVE  /\ DOMAIN backups' = Folders
           /\ \A g \in Folders \ {f} : backups'[g] = backups[g]
           /\ DOMAIN backups'[f] = DOMAIN backups[f] \cup {name}
           /\ backups'[f] = [n \in DOMAIN backups'[f] |-> backups'[f][n]]
           /\ backups'[f][name] = text
           /\ \A n \in DOMAIN backups[f] \ {name} : backups'[f][n] = backups[f][n]
<1> DEFINE b == [n \in DOMAIN backups[f] \cup {name} |-> IF n = name THEN text ELSE backups[f][n]]
<1>1. backups' = [backups EXCEPT ![f] = b]
  BY DEF Save
<1>2. DOMAIN b = DOMAIN backups[f] \cup {name} /\ b[name] = text
      /\ b = [n \in DOMAIN b |-> b[n]]
      /\ \A n \in DOMAIN backups[f] \ {name} : b[n] = backups[f][n]
  OBVIOUS
<1> HIDE DEF b
<1>3. backups'[f] = b /\ DOMAIN backups' = Folders /\ \A g \in Folders \ {f} : backups'[g] = backups[g]
  BY <1>1
<1> QED BY <1>2, <1>3
LEMMA BackupKeeps ==
    ASSUME Sound, NEW f \in Folders, NEW d, page.pending = "write", page.target = f,
           page.draft = d, page.at = 1,
           Backup(f, d) \/ (d.existing = Absent /\ UNCHANGED Files),
           page' = [page EXCEPT !.at = @ + 1], UNCHANGED <<drafts, edits>>
    PROVE  Sound'
<1>1. page \in PatchPages /\ d \in [existing : Texts, alias : Aliases, name : Nat] /\ d # Absent
  BY DEF Sound, PageSound, PatchPages, Drafts
<1>2. page' = [page EXCEPT !.at = 2] /\ 2 \in 0..3
  OBVIOUS
<1>3. page' \in PatchPages
  BY <1>1, <1>2 DEF PatchPages
<1>4. page'.draft = d /\ page'.target = f /\ page'.pending = "write" /\ page'.at = 2
  BY <1>1, <1>2 DEF PatchPages
<1>5. PageSound'
  BY <1>3, <1>4 DEF Sound, PageSound
<1>6. CASE d.existing = Absent /\ UNCHANGED Files
  <2>1. BackupFirst'
    BY <1>4, <1>6 DEF BackupFirst
  <2>2. NamesCount'
    BY <1>4, <1>6 DEF NamesCount, Sound, Files
  <2>3. FilesSound' /\ ManifestRestores' /\ KeptUnlessCrossed'
    BY <1>6 DEF Sound, FilesSound, ManifestRestores, KeptUnlessCrossed, Files
  <2> QED BY <1>5, <2>1, <2>2, <2>3 DEF Sound
<1>7. CASE Backup(f, d)
  <2>1. /\ d.existing # Absent
        /\ Save(f, d.name, d.existing)
        /\ UNCHANGED <<yaml, manifest, mine, crossed>>
    BY <1>7 DEF Backup
  <2>2. /\ DOMAIN backups' = Folders
        /\ \A g \in Folders \ {f} : backups'[g] = backups[g]
        /\ DOMAIN backups'[f] = DOMAIN backups[f] \cup {d.name}
        /\ backups'[f] = [n \in DOMAIN backups'[f] |-> backups'[f][n]]
        /\ backups'[f][d.name] = d.existing
        /\ \A n \in DOMAIN backups[f] \ {d.name} : backups'[f][n] = backups[f][n]
    BY <2>1, SaveFacts DEF Sound, FilesSound
  \* A backup of that name is the same text, from an earlier write.
  <2>3. \A g \in Folders : \A n \in DOMAIN backups[g] :
           n \in DOMAIN backups'[g] /\ backups'[g][n] = backups[g][n]
    <3>1. d.name \in DOMAIN backups[f] => backups[f][d.name] = d.existing
      BY <1>1 DEF Sound, NamesCount
    <3> QED BY <2>2, <3>1
  <2>4. \A g \in Folders : backups'[g] \in [DOMAIN backups'[g] -> Texts]
    BY <1>1, <2>2 DEF Sound, FilesSound
  <2>5. FilesSound'
    BY <2>1, <2>2, <2>4 DEF Sound, FilesSound
  <2>6. ManifestRestores' /\ KeptUnlessCrossed'
    <3>1. \A g \in Folders : Range(backups[g]) \subseteq Range(backups'[g])
      BY <2>3 DEF Range
    <3> QED BY <2>1, <2>3, <3>1 DEF Sound, ManifestRestores, KeptUnlessCrossed
  <2>7. BackupFirst'
    BY <1>4, <2>2 DEF BackupFirst
  <2>8. NamesCount'
    <3>1. d.name \in Nat /\ d.name <= drafts /\ UNCHANGED drafts
      BY <1>1 DEF Sound, NamesCount
    <3>2. \A g \in Folders : \A n \in DOMAIN backups'[g] : n \in Nat /\ n <= drafts
      BY <2>2, <3>1 DEF Sound, NamesCount
    <3>3. \A g \in Folders : d.name \in DOMAIN backups'[g] => backups'[g][d.name] = d.existing
      BY <1>1, <2>2 DEF Sound, NamesCount
    <3> QED BY <1>4, <3>1, <3>2, <3>3 DEF Sound, NamesCount
  <2> QED BY <1>5, <2>5, <2>6, <2>7, <2>8 DEF Sound
<1> QED BY <1>6, <1>7
LEMMA PutYamlKeeps ==
    ASSUME Sound, NEW f \in Folders, NEW d, page.pending = "write", page.target = f,
           page.draft = d, page.at = 2, PutYaml(f, d),
           page' = [page EXCEPT !.at = @ + 1], UNCHANGED <<drafts, edits>>
    PROVE  Sound'
<1>1. page \in PatchPages /\ d \in [existing : Texts, alias : Aliases, name : Nat] /\ d # Absent
  BY DEF Sound, PageSound, PatchPages, Drafts
<1>2. page' = [page EXCEPT !.at = 3] /\ 3 \in 0..3
  OBVIOUS
<1>3. page' \in PatchPages
  BY <1>1, <1>2 DEF PatchPages
<1>4. page'.draft = d /\ page'.target = f /\ page'.pending = "write" /\ page'.at = 3
  BY <1>1, <1>2 DEF PatchPages
<1>5. PageSound'
  BY <1>3, <1>4 DEF Sound, PageSound
<1>6. /\ yaml' = [yaml EXCEPT ![f] = Patch(d)] /\ UNCHANGED <<backups, manifest, mine>>
      /\ crossed' = IF Fresh(f) THEN crossed ELSE crossed \cup {f}
  BY DEF PutYaml, Overwrite
<1>7. BackupFirst'
  BY <1>4, <1>6 DEF Sound, BackupFirst
<1>8. NamesCount'
  BY <1>4, <1>6 DEF Sound, NamesCount
<1>9. FilesSound'
  <2>1. Patch(d) \in Texts
    BY <1>1, TextsOf DEF Patch
  <2> QED BY <1>6, <2>1 DEF Sound, FilesSound
<1>10. KeptUnlessCrossed'
  <2> SUFFICES ASSUME NEW g \in Folders \ crossed'
               PROVE  mine[g] \in {Absent, yaml'[g]} \cup Range(backups[g])
    BY <1>6 DEF KeptUnlessCrossed
  <2>1. g \notin crossed /\ mine[g] \in {Absent, yaml[g]} \cup Range(backups[g])
    BY <1>6 DEF Sound, KeptUnlessCrossed
  <2>2. CASE g # f
    BY <1>6, <2>1, <2>2 DEF Sound, FilesSound
  <2>3. CASE g = f
    <3>1. yaml[f] = d.existing
      BY <1>6, <2>1, <2>3 DEF Fresh
    <3>2. yaml[f] # Absent => yaml[f] \in Range(backups[f])
      <4> SUFFICES ASSUME d.existing # Absent PROVE d.existing \in Range(backups[f])
        BY <3>1
      <4>1. d.name \in DOMAIN backups[f]
        BY DEF Sound, BackupFirst
      <4>2. backups[f][d.name] = d.existing
        BY <1>1, <4>1 DEF Sound, NamesCount
      <4> QED BY <4>1, <4>2 DEF Range
    <3> QED BY <2>1, <2>3, <3>2
  <2> QED BY <2>2, <2>3
<1>11. ManifestRestores'
  BY <1>6 DEF Sound, ManifestRestores
<1> QED BY <1>5, <1>7, <1>8, <1>9, <1>10, <1>11 DEF Sound

LEMMA PutManifestKeeps ==
    ASSUME Sound, NEW f \in Folders, NEW d, page.pending = "write", page.target = f,
           page.draft = d, page.at = 3, PutManifest(f, d),
           page' = [page EXCEPT !.pending = "", !.at = 0], UNCHANGED <<drafts, edits>>
    PROVE  Sound'
<1>1. page \in PatchPages
  BY DEF Sound, PageSound
<1>2. page' \in PatchPages
  BY <1>1, Blanks DEF PatchPages
<1>3. page'.draft = d /\ page'.pending = ""
  BY <1>1 DEF PatchPages
<1>4. PageSound' /\ BackupFirst'
  BY <1>2, <1>3 DEF PageSound, BackupFirst
<1>5. /\ manifest' = [manifest EXCEPT ![f] = [existed |-> d.existing # Absent, name |-> d.name]]
      /\ UNCHANGED <<yaml, backups, mine, crossed>>
  BY DEF PutManifest
<1>6. FilesSound' /\ NamesCount' /\ KeptUnlessCrossed'
  BY <1>3, <1>5 DEF Sound, FilesSound, NamesCount, KeptUnlessCrossed
<1>7. ManifestRestores'
  <2>1. d.existing # Absent => d.name \in DOMAIN backups[f]
    BY DEF Sound, BackupFirst
  <2> DEFINE m == [existed |-> d.existing # Absent, name |-> d.name]
  <2>2. m.existed <=> d.existing # Absent
    OBVIOUS
  <2>3. m.name = d.name
    OBVIOUS
  <2> HIDE DEF m
  <2>4. manifest' = [manifest EXCEPT ![f] = m]
    BY <1>5 DEF m
  <2> QED BY <1>5, <2>1, <2>2, <2>3, <2>4 DEF Sound, FilesSound, ManifestRestores
<1> QED BY <1>4, <1>6, <1>7 DEF Sound

LEMMA WriteKeeps ==
    ASSUME Sound, WriteNext
    PROVE  Sound'
<1> DEFINE f == page.target
           d == page.draft
<1>1. page \in PatchPages /\ page.pending = "write" /\ f \in Folders /\ UNCHANGED <<drafts, edits>>
      /\ page.at \in 0..3 /\ page.at # 0 /\ PutFile(f, d, page.at)
  BY DEF WriteNext, Sound, PageSound, PatchPages
<1>2. page.at \in {1, 2, 3}
  BY <1>1
<1>3. CASE page.at = 1
  <2>1. page' = [page EXCEPT !.at = @ + 1]
    BY <1>3 DEF WriteNext
  <2>2. Backup(f, d) \/ (d.existing = Absent /\ UNCHANGED Files)
    BY <1>1, <1>3 DEF PutFile
  <2> QED BY <1>1, <1>3, <2>1, <2>2, BackupKeeps
<1>4. CASE page.at = 2
  <2>1. page' = [page EXCEPT !.at = @ + 1] /\ PutYaml(f, d)
    BY <1>1, <1>4 DEF WriteNext, PutFile
  <2> QED BY <1>1, <1>4, <2>1, PutYamlKeeps
<1>5. CASE page.at = 3
  <2>1. page' = [page EXCEPT !.pending = "", !.at = 0] /\ PutManifest(f, d)
    BY <1>1, <1>5 DEF WriteNext, PutFile
  <2> QED BY <1>1, <1>5, <2>1, PutManifestKeeps
<1> QED BY <1>2, <1>3, <1>4, <1>5

LEMMA RestoreKeeps ==
    ASSUME Sound, RestoreDone
    PROVE  Sound'
<1> DEFINE f == page.target
<1>1. /\ page \in PatchPages /\ page.pending = "restore" /\ f \in Folders /\ UNCHANGED <<drafts, edits>>
      /\ manifest[f].existed => manifest[f].name \in DOMAIN backups[f]
      /\ yaml' = [yaml EXCEPT ![f] = Restored(f)] /\ UNCHANGED <<backups, manifest, mine>>
      /\ crossed' = IF yaml[f] # Absent /\ yaml[f].by = "ndx" THEN crossed ELSE crossed \cup {f}
  BY DEF RestoreDone, Overwrite, Sound, PageSound
<1>2. page' = [page EXCEPT !.pending = ""]
  BY DEF RestoreDone
<1>3. page' \in PatchPages /\ page'.draft = page.draft /\ page'.pending = ""
  BY <1>1, <1>2 DEF PatchPages
<1> HIDE DEF f
<1>4. Restored(f) \in Texts
  <2>1. Absent \in Texts
    BY DEF Texts
  <2> QED BY <1>1, <2>1 DEF Restored, Sound, FilesSound
<1>5. PageSound' /\ BackupFirst' /\ NamesCount'
  BY <1>1, <1>3 DEF Sound, PageSound, BackupFirst, NamesCount
<1>6. FilesSound' /\ ManifestRestores'
  BY <1>1, <1>4 DEF Sound, FilesSound, ManifestRestores
<1>7. KeptUnlessCrossed'
  <2> SUFFICES ASSUME NEW g \in Folders \ crossed'
               PROVE  mine[g] \in {Absent, yaml'[g]} \cup Range(backups[g])
    BY <1>1 DEF KeptUnlessCrossed
  <2>1. g \notin crossed /\ mine[g] \in {Absent, yaml[g]} \cup Range(backups[g])
    BY <1>1 DEF Sound, KeptUnlessCrossed
  <2>2. CASE g # f
    BY <1>1, <2>1, <2>2 DEF Sound, FilesSound
  <2>3. CASE g = f
    <3>1. yaml[f] # Absent /\ yaml[f].by = "ndx"
      BY <1>1, <2>1, <2>3
    <3>2. mine[f] = Absent \/ mine[f].by = "user"
      BY <1>1 DEF Sound, FilesSound
    <3> QED BY <2>1, <2>3, <3>1, <3>2
  <2> QED BY <2>2, <2>3
<1> QED BY <1>5, <1>6, <1>7 DEF Sound

LEMMA ApplyKeeps ==
    ASSUME Sound, NEW f \in Folders, Apply(f)
    PROVE  Sound'
<1>1. PICK a \in Aliases : yaml' = [yaml EXCEPT ![f] = Text("ndx", a)]
  BY DEF Apply, Overwrite
<1>2. /\ UNCHANGED <<backups, manifest, mine, page, drafts, edits>>
      /\ crossed' = IF yaml[f] = Absent THEN crossed ELSE crossed \cup {f}
  BY DEF Apply, Overwrite
<1>3. Text("ndx", a) \in Texts
  BY TextsOf
<1>4. PageSound' /\ BackupFirst' /\ NamesCount' /\ ManifestRestores'
  BY <1>2 DEF Sound, PageSound, BackupFirst, NamesCount, ManifestRestores
<1>5. FilesSound'
  BY <1>1, <1>2, <1>3 DEF Sound, FilesSound
<1>6. KeptUnlessCrossed'
  BY <1>1, <1>2 DEF Sound, FilesSound, KeptUnlessCrossed
<1> QED BY <1>4, <1>5, <1>6 DEF Sound

LEMMA EditKeeps ==
    ASSUME Sound, NEW f \in Folders, Edit(f)
    PROVE  Sound'
<1> DEFINE t == Text("user", edits + 1)
<1>1. /\ yaml' = [yaml EXCEPT ![f] = t] /\ mine' = [mine EXCEPT ![f] = t] /\ edits' = edits + 1
      /\ UNCHANGED <<backups, manifest, page, drafts, crossed>>
  BY DEF Edit
<1>2. edits + 1 \in Nat
  BY DEF Sound, FilesSound
<1>3. t \in Texts /\ t.by = "user"
  BY <1>2, TextsOf DEF Text
<1> HIDE DEF t
<1>4. PageSound' /\ BackupFirst' /\ NamesCount' /\ ManifestRestores'
  BY <1>1 DEF Sound, PageSound, BackupFirst, NamesCount, ManifestRestores
<1>5. FilesSound'
  <2>1. edits' \in Nat /\ backups' = backups /\ DOMAIN manifest' = Folders
    BY <1>1, <1>2 DEF Sound, FilesSound
  <2>2. yaml' \in [Folders -> Texts] /\ mine' \in [Folders -> Texts]
    BY <1>1, <1>3 DEF Sound, FilesSound
  <2>3. \A g \in Folders : mine'[g] = Absent \/ mine'[g].by = "user"
    BY <1>1, <1>3 DEF Sound, FilesSound
  <2> QED BY <2>1, <2>2, <2>3 DEF Sound, FilesSound
<1>6. KeptUnlessCrossed'
  BY <1>1 DEF Sound, FilesSound, KeptUnlessCrossed
<1> QED BY <1>4, <1>5, <1>6 DEF Sound

-----------------------------------------------------------------------------

LEMMA SoundStays == Sound /\ [Next]_vars => Sound'
<1> SUFFICES ASSUME Sound, [Next]_vars PROVE Sound'
  OBVIOUS
<1>1. CASE UNCHANGED vars
  BY <1>1 DEF vars, Sound, PageSound, FilesSound, NamesCount, BackupFirst, ManifestRestores,
              KeptUnlessCrossed
<1>2. CASE Next
  BY <1>2, TabSteps, CreateDraftKeeps, WriteKeeps, RestoreKeeps, ApplyKeeps, EditKeeps DEF Next
<1> QED BY <1>1, <1>2

(* Wherever a write of the patch was cut off, by an error or by the page,   *)
(* and whatever was written into the folder before: the manifest that       *)
(* restoreLocalPatch reads names no backup that is missing.                 *)
THEOREM ManifestsHold == Spec => []ManifestRestores
<1>1. Sound => ManifestRestores
  BY DEF Sound
<1> QED BY <1>1, InitSound, SoundStays, PTL DEF Spec

(* A text the user put in a folder is there or in a backup, but where a     *)
(* step replaced a text nothing had read: no sequence of drafts, writes     *)
(* that failed half way, restores and edits loses one otherwise.            *)
THEOREM TextsKept == Spec => []KeptUnlessCrossed
<1>1. Sound => KeptUnlessCrossed
  BY DEF Sound
<1> QED BY <1>1, InitSound, SoundStays, PTL DEF Spec

-----------------------------------------------------------------------------
(* settings.json.                                                           *)

(* A document names a default model it has and embeddings of a provider it  *)
(* has.                                                                     *)
Shaped(d) ==
    d = [providers |-> d.providers, models |-> d.models, default |-> d.default, emb |-> d.emb, form |-> d.form]

SoundDoc(d) ==
    /\ Shaped(d)
    /\ d.default # None => d.default \in G!Keys(d)
    /\ d.emb # None => d.emb[1] \in d.providers

RequestKinds ==
    {"createProvider", "createProviderOnly", "updateProvider", "deleteProvider", "createModel", "createEmbedding",
     "updateModel", "deleteModel", "setEmbeddings", "setDefault", "setForm", "get"} \cup G!Syncs

IsRequest(o) ==
    /\ o = [kind |-> o.kind, provider |-> o.provider, name |-> o.name, form |-> o.form]
    /\ o.kind \in RequestKinds

IsSlot(s) == s = [at |-> s.at, op |-> s.op, doc |-> s.doc, by |-> s.by, live |-> s.live]

(* What a request is about to write is as sound as what it was made of.     *)
SoundCopy(s) ==
    /\ IsSlot(s)
    /\ s.at # "unused" => IsRequest(s.op)
    /\ s.at \in {"fetch", "open", "put"} => SoundDoc(s.doc)

Requests ==
    /\ op = [i \in G!Slots |-> op[i]]
    /\ \A i \in G!Slots : SoundCopy(op[i])

SettingsInv == (G!Readable => SoundDoc(settings)) /\ Requests

LEMMA ExceptFacts ==
    ASSUME NEW d, SoundDoc(d) \/ Shaped(d), NEW x
    PROVE  /\ [d EXCEPT !.providers = x] = [providers |-> x, models |-> d.models, default |-> d.default, emb |-> d.emb, form |-> d.form]
           /\ [d EXCEPT !.models = x] = [providers |-> d.providers, models |-> x, default |-> d.default, emb |-> d.emb, form |-> d.form]
           /\ [d EXCEPT !.default = x] = [providers |-> d.providers, models |-> d.models, default |-> x, emb |-> d.emb, form |-> d.form]
           /\ [d EXCEPT !.emb = x] = [providers |-> d.providers, models |-> d.models, default |-> d.default, emb |-> x, form |-> d.form]
           /\ [d EXCEPT !.form = x] = [providers |-> d.providers, models |-> d.models, default |-> d.default, emb |-> d.emb, form |-> x]
<1>1. PICK P, M, D, E, F : d = [providers |-> P, models |-> M, default |-> D, emb |-> E, form |-> F]
  BY DEF SoundDoc, Shaped
<1> QED BY <1>1

LEMMA WithoutFacts ==
    ASSUME NEW d, Shaped(d), NEW keys, NEW w, w = G!Without(d, keys)
    PROVE  /\ Shaped(w) /\ w.providers = d.providers /\ w.default = d.default /\ w.emb = d.emb
           /\ G!Keys(w) = G!Keys(d) \ keys
<1>1. PICK m : m = G!Restrict(d.models, G!Keys(d) \ keys)
  OBVIOUS
<1>2. DOMAIN m = G!Keys(d) \ keys
  BY <1>1 DEF G!Restrict, G!Keys
<1>3. w = [providers |-> d.providers, models |-> m, default |-> d.default, emb |-> d.emb, form |-> d.form]
  <2>1. w = [d EXCEPT !.models = m]
    BY <1>1 DEF G!Without
  <2> QED BY <2>1, ExceptFacts
<1> QED BY <1>2, <1>3 DEF Shaped, G!Keys

LEMMA WithModelFacts ==
    ASSUME NEW d, Shaped(d), NEW p, NEW n, NEW w, w = G!WithModel(d, p, n)
    PROVE  /\ Shaped(w) /\ w.providers = d.providers /\ w.default = d.default /\ w.emb = d.emb
           /\ G!Keys(w) = G!Keys(d) \cup {G!UniqueKey(d, n)}
<1>1. PICK k : k = G!UniqueKey(d, n)
  OBVIOUS
<1>2. PICK m : m = [j \in G!Keys(d) \cup {k} |-> IF j \in G!Keys(d) THEN d.models[j] ELSE <<p, n>>]
  OBVIOUS
<1>3. w = [providers |-> d.providers, models |-> m, default |-> d.default, emb |-> d.emb, form |-> d.form]
  <2>1. w = [d EXCEPT !.models = m]
    BY <1>1, <1>2 DEF G!WithModel
  <2> QED BY <2>1, ExceptFacts
<1> QED BY <1>1, <1>2, <1>3 DEF Shaped, G!Keys

(* A synchronisation only adds entries.                                     *)
LEMMA SyncedFacts ==
    ASSUME NEW d, SoundDoc(d), NEW p, NEW names
    PROVE  SoundDoc(G!Synced(d, p, names))
<1> DEFINE added == {G!UniqueKey(d, n) : n \in {n \in names : G!Found(d, p, n) = {}}}
           m == [k \in G!Keys(d) \cup added |-> IF k \in G!Keys(d) THEN d.models[k] ELSE <<p, k[1]>>]
<1>1. G!Synced(d, p, names) = [d EXCEPT !.models = m]
  BY DEF G!Synced
<1>2. DOMAIN m = G!Keys(d) \cup added
  OBVIOUS
<1> HIDE DEF added, m
<1>3. G!Synced(d, p, names) = [providers |-> d.providers, models |-> m, default |-> d.default, emb |-> d.emb, form |-> d.form]
  BY <1>1, ExceptFacts DEF SoundDoc
<1> QED BY <1>2, <1>3 DEF SoundDoc, Shaped, G!Keys

(* Whatever the default was, the repaired one is an entry.                  *)
LEMMA RedefaultFacts ==
    ASSUME NEW d, Shaped(d), d.emb # None => d.emb[1] \in d.providers, NEW x \in G!Redefault(d)
    PROVE  SoundDoc(x)
<1>1. CASE d.default = None \/ d.default \in G!Keys(d)
  BY <1>1 DEF G!Redefault, SoundDoc
<1>2. CASE d.default # None /\ d.default \notin G!Keys(d) /\ G!Keys(d) = {}
  <2>1. x = [d EXCEPT !.default = None]
    BY <1>2 DEF G!Redefault
  <2>2. x = [providers |-> d.providers, models |-> d.models, default |-> None, emb |-> d.emb, form |-> d.form]
    BY <2>1, ExceptFacts
  <2> QED BY <2>2 DEF SoundDoc, Shaped
<1>3. CASE d.default # None /\ d.default \notin G!Keys(d) /\ G!Keys(d) # {}
  <2>1. PICK k \in G!Keys(d) : x = [d EXCEPT !.default = k]
    BY <1>3 DEF G!Redefault
  <2>2. x = [providers |-> d.providers, models |-> d.models, default |-> k, emb |-> d.emb, form |-> d.form]
    BY <2>1, ExceptFacts
  <2> QED BY <2>2 DEF SoundDoc, Shaped, G!Keys
<1> QED BY <1>1, <1>2, <1>3

LEMMA DeleteProviderFacts ==
    ASSUME NEW d, SoundDoc(d), NEW o, NEW x \in G!DeleteProvider(d, o)
    PROVE  SoundDoc(x)
<1> DEFINE keys == {k \in G!Keys(d) : d.models[k][1] = o.provider}
           emb == IF d.emb # None /\ d.emb[1] = o.provider THEN None ELSE d.emb
           cut == [d EXCEPT !.providers = d.providers \ {o.provider}, !.emb = emb]
           left == G!Without(cut, keys)
<1>1. G!DeleteProvider(d, o) = G!Redefault(left)
  BY DEF G!DeleteProvider
<1>2. cut = [providers |-> d.providers \ {o.provider}, models |-> d.models, default |-> d.default, emb |-> emb, form |-> d.form]
  <2>1. PICK e, ps : e = emb /\ ps = d.providers \ {o.provider}
    OBVIOUS
  <2>2. cut = [d EXCEPT !.providers = ps, !.emb = e]
    BY <2>1
  <2> HIDE DEF emb, cut
  <2>3. PICK P, M, D, E, F : d = [providers |-> P, models |-> M, default |-> D, emb |-> E, form |-> F]
    BY DEF SoundDoc, Shaped
  <2>4. cut = [providers |-> ps, models |-> d.models, default |-> d.default, emb |-> e, form |-> d.form]
    BY <2>2, <2>3
  <2> QED BY <2>1, <2>4
<1>3. Shaped(cut) /\ cut.providers = d.providers \ {o.provider} /\ cut.emb = emb
  <2> HIDE DEF cut, emb
  <2> QED BY <1>2 DEF Shaped
<1>4. emb # None => emb[1] \in d.providers \ {o.provider}
  BY DEF SoundDoc
<1>5. Shaped(left) /\ left.providers = cut.providers /\ left.emb = cut.emb
  <2> HIDE DEF cut, emb, keys
  <2> QED BY <1>3, WithoutFacts
<1> HIDE DEF cut, emb, keys, left
<1> QED BY <1>1, <1>3, <1>4, <1>5, RedefaultFacts

LEMMA DeleteModelFacts ==
    ASSUME NEW d, SoundDoc(d), NEW o, NEW x \in G!DeleteModel(d, o)
    PROVE  SoundDoc(x)
<1> DEFINE emb == IF d.emb = <<o.provider, o.name>> THEN None ELSE d.emb
           cut == [d EXCEPT !.emb = emb]
<1>1. cut = [providers |-> d.providers, models |-> d.models, default |-> d.default, emb |-> emb, form |-> d.form]
  <2> HIDE DEF emb
  <2> QED BY ExceptFacts DEF SoundDoc
<1>2. emb # None => emb[1] \in d.providers
  BY DEF SoundDoc
<1>3. Shaped(cut) /\ cut.providers = d.providers /\ cut.emb = emb
  <2> HIDE DEF cut, emb
  <2> QED BY <1>1 DEF Shaped
<1>4. CASE G!Found(d, o.provider, o.name) = {}
  BY <1>4 DEF G!DeleteModel
<1>5. ASSUME NEW k \in G!Found(d, o.provider, o.name), x \in G!Redefault(G!Without(cut, {k}))
      PROVE  SoundDoc(x)
  <2> DEFINE left == G!Without(cut, {k})
  <2>1. Shaped(left) /\ left.providers = cut.providers /\ left.emb = cut.emb
    <3> HIDE DEF cut, emb
    <3> QED BY <1>3, WithoutFacts
  <2> HIDE DEF cut, emb, left
  <2>2. left.emb # None => left.emb[1] \in left.providers
    BY <2>1, <1>2, <1>3
  <2>3. x \in G!Redefault(left)
    BY <1>5 DEF left
  <2> QED BY <2>1, <2>2, <2>3, RedefaultFacts
<1> QED BY <1>4, <1>5 DEF G!DeleteModel

LEMMA CreateModelFacts ==
    ASSUME NEW d, SoundDoc(d), NEW o, NEW x \in G!CreateModel(d, o)
    PROVE  SoundDoc(x)
<1>1. PICK w : w = G!WithModel(d, o.provider, o.name)
  OBVIOUS
<1>2. PICK k : k = G!UniqueKey(d, o.name)
  OBVIOUS
<1>3. x = [w EXCEPT !.default = IF w.default = None THEN k ELSE w.default]
  BY <1>1, <1>2 DEF G!CreateModel
<1>4. Shaped(w) /\ w.providers = d.providers /\ w.default = d.default /\ w.emb = d.emb /\ G!Keys(w) = G!Keys(d) \cup {k}
  BY <1>1, <1>2, WithModelFacts DEF SoundDoc
<1>5. x = [providers |-> w.providers, models |-> w.models, default |-> IF w.default = None THEN k ELSE w.default,
           emb |-> w.emb, form |-> w.form]
  BY <1>3, <1>4, ExceptFacts
<1> QED BY <1>4, <1>5 DEF SoundDoc, Shaped, G!Keys

(* Each operation keeps a document sound.                                   *)
LEMMA WrittenFacts ==
    ASSUME NEW d, SoundDoc(d), NEW o, IsRequest(o), o.kind \notin G!Syncs \cup {"get", "createProviderOnly"},
           NEW x \in G!Written(d, o)
    PROVE  SoundDoc(x)
<1>1. CASE o.kind = "createProvider"
  <2>1. x = [d EXCEPT !.providers = d.providers \cup {o.provider}]
    BY <1>1 DEF G!Written, G!CreateProvider
  <2>2. x = [providers |-> d.providers \cup {o.provider}, models |-> d.models, default |-> d.default, emb |-> d.emb, form |-> d.form]
    BY <2>1, ExceptFacts
  <2> QED BY <2>2 DEF SoundDoc, Shaped, G!Keys
<1>2. CASE o.kind = "updateProvider"
  BY <1>2 DEF G!Written, G!UpdateProvider
<1>3. CASE o.kind = "deleteProvider"
  <2>1. x \in G!DeleteProvider(d, o)
    BY <1>3 DEF G!Written
  <2> QED BY <2>1, DeleteProviderFacts
<1>4. CASE o.kind = "createModel"
  <2>1. x \in G!CreateModel(d, o)
    BY <1>4 DEF G!Written
  <2> QED BY <2>1, CreateModelFacts
<1>5. CASE o.kind = "createEmbedding"
  <2>1. x = G!WithModel(d, o.provider, o.name)
    BY <1>5 DEF G!Written, G!CreateEmbedding
  <2>2. Shaped(x) /\ x.providers = d.providers /\ x.default = d.default /\ x.emb = d.emb /\ G!Keys(d) \subseteq G!Keys(x)
    BY <2>1, WithModelFacts DEF SoundDoc
  <2> QED BY <2>2 DEF SoundDoc
<1>6. CASE o.kind = "updateModel"
  BY <1>6 DEF G!Written, G!UpdateModel
<1>7. CASE o.kind = "deleteModel"
  <2>1. x \in G!DeleteModel(d, o)
    BY <1>7 DEF G!Written
  <2> QED BY <2>1, DeleteModelFacts
<1>8. CASE o.kind = "setEmbeddings"
  <2>1. x = [d EXCEPT !.emb = <<o.provider, o.name>>] /\ o.provider \in d.providers
    BY <1>8 DEF G!Written, G!SetEmbeddings
  <2>2. x = [providers |-> d.providers, models |-> d.models, default |-> d.default, emb |-> <<o.provider, o.name>>, form |-> d.form]
    BY <2>1, ExceptFacts
  <2> QED BY <2>1, <2>2 DEF SoundDoc, Shaped, G!Keys
<1>9. CASE o.kind = "setDefault"
  <2>1. x \in G!SetDefault(d, o)
    BY <1>9 DEF G!Written
  <2>2. PICK k \in G!Keys(d) : x = [d EXCEPT !.default = k]
    BY <2>1 DEF G!SetDefault
  <2>3. x = [providers |-> d.providers, models |-> d.models, default |-> k, emb |-> d.emb, form |-> d.form]
    BY <2>2, ExceptFacts
  <2> QED BY <2>3 DEF SoundDoc, Shaped, G!Keys
<1>10. CASE o.kind = "setForm"
  <2>1. x = [d EXCEPT !.form = o.form]
    BY <1>10 DEF G!Written, G!SetForm
  <2>2. x = [providers |-> d.providers, models |-> d.models, default |-> d.default, emb |-> d.emb, form |-> o.form]
    BY <2>1, ExceptFacts
  <2> QED BY <2>2 DEF SoundDoc, Shaped, G!Keys
<1> QED BY <1>1, <1>2, <1>3, <1>4, <1>5, <1>6, <1>7, <1>8, <1>9, <1>10 DEF IsRequest, RequestKinds

LEMMA SlotFacts ==
    ASSUME Requests, NEW i \in G!Slots, NEW s, SoundCopy(s), op' = [op EXCEPT ![i] = s]
    PROVE  Requests'
<1>1. op' = [j \in G!Slots |-> IF j = i THEN s ELSE op[j]]
  BY DEF Requests
<1>2. op' = [j \in G!Slots |-> op'[j]]
  BY <1>1
<1>3. \A j \in G!Slots : SoundCopy(op'[j])
  BY <1>1 DEF Requests
<1>4. G!Slots' = G!Slots
  BY DEF G!Slots
<1> QED BY <1>2, <1>3, <1>4 DEF Requests, SoundCopy, IsSlot, IsRequest, SoundDoc, Shaped, G!Keys

LEMMA GoFacts ==
    ASSUME Requests, NEW i \in G!Slots, NEW at, op[i].at # "unused", G!Go(i, at),
           at \in {"fetch", "open", "put"} => op[i].at \in {"fetch", "open", "put"}
    PROVE  Requests'
<1>1. PICK s : s = [op[i] EXCEPT !.at = at]
  OBVIOUS
<1>2. SoundCopy(op[i])
  BY DEF Requests
<1>3. s = [at |-> at, op |-> op[i].op, doc |-> op[i].doc, by |-> op[i].by, live |-> op[i].live]
  <2>1. PICK A, O, D, B, L : op[i] = [at |-> A, op |-> O, doc |-> D, by |-> B, live |-> L]
    BY <1>2 DEF SoundCopy, IsSlot
  <2> QED BY <2>1, <1>1
<1>4. SoundCopy(s)
  BY <1>2, <1>3 DEF SoundCopy, IsSlot
<1>5. op' = [op EXCEPT ![i] = s]
  BY <1>1 DEF G!Go
<1> QED BY <1>4, <1>5, SlotFacts

LEMMA SettingsInit == G!Init => SettingsInv
<1> SUFFICES ASSUME G!Init PROVE SettingsInv
  OBVIOUS
<1>1. SoundDoc(G!Doc0)
  BY DEF G!Doc0, SoundDoc, Shaped
<1>2. ASSUME NEW p, NEW d \in G!Stocked(p) PROVE SoundDoc(d)
  <2>1. PICK m \in Models, e \in Embeddings : d = G!Stock(p, m, e)
    BY <1>2 DEF G!Stocked
  <2>2. PICK mm : mm = [k \in {<<m, 1>>, <<e, 1>>} |-> <<p, k[1]>>]
    OBVIOUS
  <2>3. d = [G!Doc0 EXCEPT !.providers = {p}, !.models = mm, !.default = <<m, 1>>, !.emb = <<p, e>>]
    BY <2>1, <2>2 DEF G!Stock
  <2>4. PICK none : G!Doc0 = [providers |-> {}, models |-> none, default |-> None, emb |-> None, form |-> 0]
    BY DEF G!Doc0
  <2>5. d = [providers |-> {p}, models |-> mm, default |-> <<m, 1>>, emb |-> <<p, e>>, form |-> 0]
    BY <2>3, <2>4
  <2>6. <<m, 1>> \in DOMAIN mm
    BY <2>2
  <2> QED BY <2>5, <2>6 DEF SoundDoc, Shaped, G!Keys
<1>3. SoundDoc(settings)
  BY <1>1, <1>2 DEF G!Init
<1>4. SoundCopy(G!Unused)
  BY DEF SoundCopy, IsSlot, G!Unused
<1>5. op = [i \in G!Slots |-> op[i]] /\ \A i \in G!Slots : SoundCopy(op[i])
  BY <1>4 DEF G!Init
<1> QED BY <1>3, <1>5 DEF SettingsInv, Requests

(* A request that arrives brings no copy.                                   *)
LEMMA ArriveFacts ==
    ASSUME NEW at, at \in {"read", "lookup"}, NEW o, IsRequest(o), NEW by, NEW live
    PROVE  SoundCopy([at |-> at, op |-> o, doc |-> None, by |-> by, live |-> live])
BY DEF SoundCopy, IsSlot

LEMMA OpFacts ==
    /\ \A k \in RequestKinds : \A p, n : IsRequest(G!Op(k, p, n))
    /\ \A o \in G!CatalogOps : IsRequest(o)
    /\ \A o, f : IsRequest(o) => IsRequest(G!Change(o, f))
<1>1. ASSUME NEW k \in RequestKinds, NEW p, NEW n PROVE IsRequest(G!Op(k, p, n))
  BY DEF IsRequest, G!Op
<1>2. ASSUME NEW o \in G!CatalogOps PROVE IsRequest(o)
  <2>1. \E k \in RequestKinds : \E p, n : o = G!Op(k, p, n)
    BY DEF G!CatalogOps, RequestKinds, G!Syncs
  <2> QED BY <1>1, <2>1
<1>3. ASSUME NEW o, NEW f, IsRequest(o) PROVE IsRequest(G!Change(o, f))
  <2>1. PICK K, P, N, F : o = [kind |-> K, provider |-> P, name |-> N, form |-> F] /\ K \in RequestKinds
    BY <1>3 DEF IsRequest
  <2>2. G!Change(o, f) = [kind |-> K, provider |-> P, name |-> N, form |-> f]
    BY <2>1 DEF G!Change
  <2> QED BY <2>1, <2>2 DEF IsRequest
<1> QED BY <1>1, <1>2, <1>3

LEMMA SameSettings ==
    ASSUME SettingsInv, UNCHANGED settings, Requests'
    PROVE  SettingsInv'
<1>1. G!Readable' = G!Readable
  BY DEF G!Readable
<1>2. SoundDoc(settings) => SoundDoc(settings)'
  BY DEF SoundDoc, Shaped, G!Keys
<1> QED BY <1>1, <1>2 DEF SettingsInv

Copies(i, at, d) == op' = [op EXCEPT ![i].at = at, ![i].doc = d]

LEMMA CopyFacts ==
    ASSUME Requests, NEW i \in G!Slots, NEW at, NEW d, op[i].at # "unused", Copies(i, at, d),
           at \in {"fetch", "open", "put"} => SoundDoc(d)
    PROVE  Requests'
<1>0. SoundCopy(op[i])
  BY DEF Requests
<1>1. PICK A, O, D, B, L : op[i] = [at |-> A, op |-> O, doc |-> D, by |-> B, live |-> L]
  BY <1>0 DEF SoundCopy, IsSlot
<1>2. PICK q : q = [op EXCEPT ![i].at = at]
  OBVIOUS
<1>3. op' = [q EXCEPT ![i].doc = d]
  BY <1>2 DEF Copies
<1>4. op = [j \in G!Slots |-> op[j]]
  BY DEF Requests
<1>5. PICK z, s : z = [at |-> at, op |-> O, doc |-> D, by |-> B, live |-> L] /\ s = [at |-> at, op |-> O, doc |-> d, by |-> B, live |-> L]
  OBVIOUS
<1>6. q = [j \in G!Slots |-> IF j = i THEN z ELSE op[j]]
  BY <1>1, <1>2, <1>4, <1>5
<1>7. op' = [j \in G!Slots |-> IF j = i THEN s ELSE op[j]]
  BY <1>3, <1>5, <1>6
<1>8. op' = [op EXCEPT ![i] = s]
  BY <1>4, <1>7
<1>9. IsRequest(O)
  BY <1>0, <1>1 DEF SoundCopy
<1>10. SoundCopy(s)
  BY <1>5, <1>9 DEF SoundCopy, IsSlot
<1> QED BY <1>8, <1>10, SlotFacts

(* A request that answers, waits or takes another step.                     *)
LEMMA ServeFacts ==
    ASSUME SettingsInv, NEW i \in G!Slots, G!Serve(i)
    PROVE  SettingsInv'
<1>0. Requests /\ SoundCopy(op[i])
  BY DEF SettingsInv, Requests
<1>8. PICK A, O, D, B, L : op[i] = [at |-> A, op |-> O, doc |-> D, by |-> B, live |-> L]
  BY <1>0 DEF SoundCopy, IsSlot
<1>1. CASE G!Lookup(i)
  <2>1. Requests'
    <3>1. PICK at \in {"read", "failed"} : G!Go(i, at)
      BY <1>1 DEF G!Lookup
    <3>2. op[i].at = "lookup"
      BY <1>1 DEF G!Lookup
    <3> QED BY <3>1, <3>2, <1>0, GoFacts
  <2> QED BY <1>1, <2>1, SameSettings DEF G!Lookup
<1>2. CASE G!Read(i)
  <2>0. op[i].at = "read" /\ A = "read" /\ IsRequest(O)
    BY <1>2, <1>0, <1>8 DEF G!Read, SoundCopy
  <2>1. CASE G!Go(i, "failed")
    <3>1. Requests'
      BY <2>0, <2>1, <1>0, GoFacts
    <3> QED BY <1>2, <3>1, SameSettings DEF G!Read
  <2>2. CASE G!Readable /\ G!Kind(i) = "get" /\ op' = [op EXCEPT ![i].at = "done", ![i].doc = settings]
    <3>1. Copies(i, "done", settings)
      BY <2>2 DEF Copies
    <3>2. Requests'
      BY <3>1, <2>0, <1>0, CopyFacts
    <3> QED BY <1>2, <3>2, SameSettings DEF G!Read
  <2>3. CASE G!Readable /\ op' = [op EXCEPT ![i].at = "fetch", ![i].doc = settings]
    <3>1. Copies(i, "fetch", settings)
      BY <2>3 DEF Copies
    <3>2. SoundDoc(settings)
      BY <2>3 DEF SettingsInv
    <3>3. Requests'
      BY <3>1, <3>2, <2>0, <1>0, CopyFacts
    <3> QED BY <1>2, <3>3, SameSettings DEF G!Read
  <2>4. CASE /\ G!Readable /\ G!Kind(i) \notin G!Syncs \cup {"get"}
             /\ \E d \in G!Written(settings, IF G!Kind(i) = "createProviderOnly"
                                             THEN [op[i].op EXCEPT !.kind = "createProvider"] ELSE op[i].op) :
                   op' = [op EXCEPT ![i].at = "open", ![i].doc = d]
    <3>1. PICK o : o = IF G!Kind(i) = "createProviderOnly" THEN [op[i].op EXCEPT !.kind = "createProvider"] ELSE op[i].op
      OBVIOUS
    <3>2. PICK d \in G!Written(settings, o) : op' = [op EXCEPT ![i].at = "open", ![i].doc = d]
      BY <2>4, <3>1
    <3>3. IsRequest(o) /\ o.kind \notin G!Syncs \cup {"get", "createProviderOnly"}
      <4>1. PICK K, P, N, F : O = [kind |-> K, provider |-> P, name |-> N, form |-> F] /\ K \in RequestKinds
        BY <2>0 DEF IsRequest
      <4>2. op[i].op = O /\ G!Kind(i) = K
        BY <4>1, <1>8 DEF G!Kind
      <4>3. o = [kind |-> IF K = "createProviderOnly" THEN "createProvider" ELSE K, provider |-> P, name |-> N, form |-> F]
        BY <3>1, <4>1, <4>2
      <4>4. K \notin G!Syncs \cup {"get"}
        BY <2>4, <4>2
      <4> QED BY <4>1, <4>3, <4>4 DEF IsRequest, RequestKinds, G!Syncs
    <3>4. SoundDoc(d)
      BY <2>4, <3>2, <3>3, WrittenFacts DEF SettingsInv
    <3>5. Copies(i, "open", d)
      BY <3>2 DEF Copies
    <3>6. Requests'
      BY <3>4, <3>5, <2>0, <1>0, CopyFacts
    <3> QED BY <1>2, <3>6, SameSettings DEF G!Read
  <2> QED BY <1>2, <2>1, <2>2, <2>3, <2>4 DEF G!Read
<1>3. CASE G!Fetch(i)
  <2>0. op[i].at = "fetch" /\ IsRequest(O) /\ SoundDoc(D)
    BY <1>3, <1>0, <1>8 DEF G!Fetch, SoundCopy
  <2>1. CASE G!Go(i, "list")
    <3>1. Requests'
      BY <2>0, <2>1, <1>0, GoFacts
    <3> QED BY <1>3, <3>1, SameSettings DEF G!Fetch
  <2>2. CASE \E names : op' = [op EXCEPT ![i].at = "open", ![i].doc = G!Synced(op[i].doc, op[i].op.provider, names)]
    <3>1. PICK names : op' = [op EXCEPT ![i].at = "open", ![i].doc = G!Synced(op[i].doc, op[i].op.provider, names)]
      BY <2>2
    <3>2. PICK d : d = G!Synced(op[i].doc, op[i].op.provider, names)
      OBVIOUS
    <3>3. SoundDoc(d)
      BY <3>2, <2>0, <1>8, SyncedFacts
    <3>4. Copies(i, "open", d)
      BY <3>1, <3>2 DEF Copies
    <3>5. Requests'
      BY <3>3, <3>4, <2>0, <1>0, CopyFacts
    <3> QED BY <1>3, <3>5, SameSettings DEF G!Fetch
  <2> QED BY <1>3, <2>1, <2>2 DEF G!Fetch
<1>4. CASE G!OpenFile(i)
  <2>1. Requests'
    BY <1>4, <1>0, GoFacts DEF G!OpenFile
  <2>2. ~G!Readable'
    BY <1>4 DEF G!OpenFile, G!Readable
  <2> QED BY <2>1, <2>2 DEF SettingsInv
<1>5. CASE G!Put(i)
  <2>0. op[i].at = "put" /\ SoundDoc(op[i].doc)
    BY <1>5, <1>0 DEF G!Put, SoundCopy
  <2>1. Requests'
    <3>1. PICK at \in {"list", "done"} : G!Go(i, at)
      BY <1>5 DEF G!Put
    <3> QED BY <2>0, <3>1, <1>0, GoFacts
  <2>2. G!Readable' => SoundDoc(settings)'
    <3>1. CASE settings' = Mixed
      BY <3>1 DEF G!Readable
    <3>2. CASE settings' = op[i].doc
      BY <3>2, <2>0 DEF SoundDoc, Shaped, G!Keys
    <3> QED BY <1>5, <3>1, <3>2 DEF G!Put
  <2> QED BY <2>1, <2>2 DEF SettingsInv
<1>6. CASE G!List(i)
  <2>1. PICK at \in {"done", "failed"} : G!Go(i, at)
    BY <1>6 DEF G!List
  <2>2. Requests'
    BY <1>6, <2>1, <1>0, GoFacts DEF G!List
  <2> QED BY <1>6, <2>2, SameSettings DEF G!List
<1>7. CASE G!Answer(i)
  <2>0. op[i].at # "unused" /\ IsRequest(O) /\ A \notin {"fetch", "open", "put"}
    BY <1>7, <1>0, <1>8 DEF G!Answer, SoundCopy
  <2>1. PICK s : s = [op[i] EXCEPT !.at = "over"]
    OBVIOUS
  <2>2. s = [at |-> "over", op |-> O, doc |-> D, by |-> B, live |-> L]
    BY <2>1, <1>8
  <2>3. SoundCopy(s)
    BY <2>0, <2>2 DEF SoundCopy, IsSlot
  <2>4. PICK o : o = G!Op("sync", op[i].op.provider, None)
    OBVIOUS
  <2>5. PICK t : t = [at |-> "read", op |-> o, doc |-> None, by |-> "background", live |-> FALSE]
    OBVIOUS
  <2>6. SoundCopy(t)
    <3>1. IsRequest(o)
      BY <2>4, OpFacts DEF RequestKinds, G!Syncs
    <3> QED BY <2>5, <3>1, ArriveFacts
  <2>7. PICK k : k = MaxOps + i
    OBVIOUS
  <2>8. op' = [op EXCEPT ![i] = s, ![k] = t] \/ op' = [op EXCEPT ![i] = s]
    BY <1>7, <2>1, <2>4, <2>5, <2>7 DEF G!Answer
  <2>9. op = [j \in G!Slots |-> op[j]] /\ \A j \in G!Slots : SoundCopy(op[j])
    BY <1>0 DEF Requests
  <2>10. Requests'
    <3>1. op' = [j \in G!Slots |-> op'[j]] /\ \A j \in G!Slots : op'[j] \in {s, t, op[j]}
      BY <2>8, <2>9
    <3>2. \A j \in G!Slots : SoundCopy(op'[j])
      BY <3>1, <2>3, <2>6, <2>9
    <3>3. G!Slots' = G!Slots
      BY DEF G!Slots
    <3> QED BY <3>1, <3>2, <3>3 DEF Requests, SoundCopy, IsSlot, IsRequest, SoundDoc, Shaped, G!Keys
  <2> QED BY <1>7, <2>10, SameSettings DEF G!Answer
<1> QED BY <1>1, <1>2, <1>3, <1>4, <1>5, <1>6, <1>7 DEF G!Serve

(* The loads that are cancelled keep what they were to fetch.               *)
LEMMA CancelledFacts ==
    ASSUME Requests
    PROVE  /\ G!Cancelled = [j \in G!Slots |-> G!Cancelled[j]]
           /\ \A j \in G!Slots : SoundCopy(G!Cancelled[j])
<1>1. G!Cancelled = [j \in G!Slots |-> G!Cancelled[j]]
  BY DEF G!Cancelled
<1>2. ASSUME NEW j \in G!Slots PROVE SoundCopy(G!Cancelled[j])
  <2>0. SoundCopy(op[j])
    BY DEF Requests
  <2>1. PICK A, O, D, B, L : op[j] = [at |-> A, op |-> O, doc |-> D, by |-> B, live |-> L]
    BY <2>0 DEF SoundCopy, IsSlot
  <2>6. PICK dead : dead = FALSE
    OBVIOUS
  <2>2. PICK s : s = [op[j] EXCEPT !.live = dead]
    OBVIOUS
  <2>3. s = [at |-> A, op |-> O, doc |-> D, by |-> B, live |-> dead]
    BY <2>1, <2>2
  <2>4. SoundCopy(s)
    BY <2>0, <2>1, <2>3 DEF SoundCopy, IsSlot
  <2>5. G!Cancelled[j] \in {s, op[j]}
    BY <2>6, <2>2 DEF G!Cancelled
  <2> QED BY <2>0, <2>4, <2>5
<1> QED BY <1>1, <1>2

LEMMA LoadFacts ==
    ASSUME Requests, NEW i \in G!Slots, op' = G!Load(i)
    PROVE  Requests'
<1>1. PICK c : c = G!Cancelled
  OBVIOUS
<1>2. PICK t : t = [at |-> "read", op |-> G!Get, doc |-> None, by |-> "load", live |-> TRUE]
  OBVIOUS
<1>3. IsRequest(G!Get)
  BY OpFacts DEF G!Get, RequestKinds
<1>4. SoundCopy(t)
  BY <1>2, <1>3, ArriveFacts
<1>5. c = [j \in G!Slots |-> c[j]] /\ \A j \in G!Slots : SoundCopy(c[j])
  BY <1>1, CancelledFacts
<1>6. op' = [c EXCEPT ![i] = t]
  BY <1>1, <1>2 DEF G!Load
<1>7. op' = [j \in G!Slots |-> op'[j]] /\ \A j \in G!Slots : op'[j] \in {t, c[j]}
  BY <1>5, <1>6
<1>8. G!Slots' = G!Slots
  BY DEF G!Slots
<1>9. \A j \in G!Slots : SoundCopy(op'[j])
  BY <1>4, <1>5, <1>7
<1> QED BY <1>7, <1>8, <1>9 DEF Requests, SoundCopy, IsSlot, IsRequest, SoundDoc, Shaped, G!Keys

LEMMA ArrivalFacts ==
    ASSUME Requests, NEW i \in G!Slots, NEW o, IsRequest(o), NEW by, G!Arrive(i, o, by)
    PROVE  Requests'
<1>1. PICK at \in {"read", "lookup"} : op' = [op EXCEPT ![i] = [at |-> at, op |-> o, doc |-> None, by |-> by, live |-> TRUE]]
  BY DEF G!Arrive
<1> QED BY <1>1, ArriveFacts, SlotFacts

LEMMA DeliverFacts ==
    ASSUME Requests, NEW i \in G!Slots, G!Deliver(i)
    PROVE  Requests'
<1>1. CASE G!Go(i, "over") /\ op[i].at \in {"done", "failed"}
  BY <1>1, GoFacts
<1>2. CASE op' = [op EXCEPT ![i] = [at |-> "read", op |-> G!Get, doc |-> None, by |-> "refresh", live |-> TRUE]]
  <2>1. IsRequest(G!Get)
    BY OpFacts DEF G!Get, RequestKinds
  <2> QED BY <1>2, <2>1, ArriveFacts, SlotFacts
<1> QED BY <1>1, <1>2 DEF G!Deliver, G!Loaded, G!Saved, G!Changed

(* A restart fails what was under way.                                      *)
LEMMA CrashFacts ==
    ASSUME Requests, G!Crash
    PROVE  Requests'
<1>1. ASSUME NEW j \in G!Slots PROVE SoundCopy(op'[j])
  <2>0. SoundCopy(op[j])
    BY DEF Requests
  <2>1. PICK A, O, D, B, L : op[j] = [at |-> A, op |-> O, doc |-> D, by |-> B, live |-> L]
    BY <2>0 DEF SoundCopy, IsSlot
  <2>2. PICK s : s = [op[j] EXCEPT !.at = "failed"]
    OBVIOUS
  <2>3. s = [at |-> "failed", op |-> O, doc |-> D, by |-> B, live |-> L]
    BY <2>1, <2>2
  <2>4. op'[j] = op[j] \/ (op'[j] = s /\ A # "unused")
    BY <2>1, <2>2 DEF G!Crash
  <2> QED BY <2>0, <2>1, <2>3, <2>4 DEF SoundCopy, IsSlot
<1>2. op' = [j \in G!Slots |-> op'[j]]
  BY DEF G!Crash
<1>3. G!Slots' = G!Slots
  BY DEF G!Slots
<1> QED BY <1>1, <1>2, <1>3 DEF Requests, SoundCopy, IsSlot, IsRequest, SoundDoc, Shaped, G!Keys

LEMMA SettingsNext ==
    ASSUME G!BoundsAssumption, SettingsInv, [G!Next]_settingsVars
    PROVE  SettingsInv'
<1>0. Requests
  BY DEF SettingsInv
<1>00. \A i \in 1..MaxOps : i \in G!Slots
  BY DEF G!Slots, G!BoundsAssumption
<1>1. ASSUME NEW i \in G!Slots, G!Serve(i) PROVE SettingsInv'
  BY <1>1, ServeFacts
<1>2. ASSUME NEW i \in G!Slots, G!Deliver(i) PROVE SettingsInv'
  <2>1. UNCHANGED settings
    BY <1>2 DEF G!Deliver, G!Loaded, G!Saved, G!Changed
  <2>2. Requests'
    BY <1>0, <1>2, DeliverFacts
  <2> QED BY <2>1, <2>2, SameSettings
<1>3. ASSUME NEW i \in 1..MaxOps, G!Mount(i) \/ G!Refilter(i) PROVE SettingsInv'
  <2>1. op' = G!Load(i) /\ UNCHANGED settings
    BY <1>3 DEF G!Mount, G!Refilter
  <2>2. Requests'
    BY <1>0, <1>00, <2>1, LoadFacts
  <2> QED BY <2>1, <2>2, SameSettings
<1>4. ASSUME NEW i \in 1..MaxOps, NEW o, IsRequest(o), G!Save(i, o) \/ G!Request(i, o) PROVE SettingsInv'
  <2>1. IsRequest(G!Change(o, tab.shown))
    BY <1>4, OpFacts
  <2>2. PICK q, by : IsRequest(q) /\ G!Arrive(i, q, by)
    BY <1>4, <2>1 DEF G!Save, G!Request
  <2>3. Requests'
    BY <1>0, <1>00, <2>2, ArrivalFacts
  <2>4. UNCHANGED settings
    BY <1>4 DEF G!Save, G!Request
  <2> QED BY <2>3, <2>4, SameSettings
<1>5. CASE G!Unmount
  <2>1. op' = G!Cancelled /\ UNCHANGED settings
    BY <1>5 DEF G!Unmount
  <2>2. G!Slots' = G!Slots
    BY DEF G!Slots
  <2>3. op' = [j \in G!Slots |-> op'[j]] /\ \A j \in G!Slots : SoundCopy(op'[j])
    BY <1>0, <2>1, CancelledFacts
  <2>4. Requests'
    BY <2>2, <2>3 DEF Requests, SoundCopy, IsSlot, IsRequest, SoundDoc, Shaped, G!Keys
  <2> QED BY <2>1, <2>4, SameSettings
<1>6. CASE G!Crash
  <2>1. Requests'
    BY <1>0, <1>6, CrashFacts
  <2> QED BY <1>6, <2>1, SameSettings DEF G!Crash
<1>7. CASE UNCHANGED <<settings, op>>
  <2>1. G!Slots' = G!Slots
    BY DEF G!Slots
  <2>2. op' = [j \in G!Slots |-> op'[j]] /\ \A j \in G!Slots : SoundCopy(op'[j])
    BY <1>0, <1>7 DEF Requests
  <2>3. Requests'
    BY <2>1, <2>2 DEF Requests, SoundCopy, IsSlot, IsRequest, SoundDoc, Shaped, G!Keys
  <2> QED BY <1>7, <2>3, SameSettings
<1>8. IsRequest(G!Op("setForm", None, None))
  BY OpFacts DEF RequestKinds
<1>9. \A o \in G!CatalogOps : IsRequest(o)
  BY OpFacts
<1>10. G!EmbeddingOps \subseteq G!CatalogOps
  BY DEF G!EmbeddingOps
<1>11. CASE G!Next
  <2>1. \/ \E i \in G!Slots : G!Serve(i) \/ G!Deliver(i)
        \/ \E i \in 1..MaxOps : G!Mount(i) \/ G!Refilter(i)
        \/ \E i \in 1..MaxOps : \E o : IsRequest(o) /\ (G!Save(i, o) \/ G!Request(i, o))
        \/ G!Unmount \/ G!Edit \/ G!Crash
    BY <1>8, <1>9, <1>10, <1>11 DEF G!Next
  <2>2. G!Edit => UNCHANGED <<settings, op>>
    BY DEF G!Edit
  <2> QED BY <2>1, <2>2, <1>1, <1>2, <1>3, <1>4, <1>5, <1>6, <1>7
<1> QED BY <1>7, <1>11 DEF settingsVars

(* However the operations on the catalog interleave, whichever updates are  *)
(* lost and wherever the server stops, a document that can be read names a  *)
(* default model it has and embeddings of a provider it has.                *)
THEOREM ReferencesHold ==
    ASSUME G!BoundsAssumption
    PROVE  G!Spec => []References
<1>1. SettingsInv => References
  BY DEF SettingsInv, SoundDoc, References, G!References
<1> QED BY <1>1, SettingsInit, SettingsNext, PTL DEF G!Spec, G!vars, settingsVars

-----------------------------------------------------------------------------
(* The projects.                                                            *)

IsWork(w) == w = [kind |-> w.kind, at |-> w.at, page |-> w.page, project |-> w.project, seen |-> w.seen, names |-> w.names]

IsDoc(d) == d = [projects |-> d.projects, active |-> d.active]

(* A document whose active project is one of its projects.                  *)
Listed(d) == IsDoc(d) /\ d.active \in d.projects \cup {Absent}

Works ==
    /\ dirs = [p \in Projects |-> dirs[p]]
    /\ \A w \in work : IsWork(w)
    /\ \A w \in work : w.kind \in {"delete", "job", "session", "create"} => w.project \in Projects
    /\ \A n \in DOMAIN sessions : sessions[n] # Absent => sessions[n].project \in Projects

(* What is saved, and what is about to be, is a document in order.          *)
Documents ==
    /\ docs = [g \in Pages |-> docs[g]] /\ menu = [g \in Pages |-> menu[g]]
    /\ \A g \in Pages : Listed(docs[g]) /\ IsDoc(menu[g])
    /\ \A w \in work : w.kind = "put" => Listed(w.names)

(* Once the sessions of a project are deleted, those that come are late.    *)
Swept == {p \in Projects : dirs[p] = Absent \/ \E w \in work : J!Job(w, "folder") /\ w.project = p}
Late ==
    /\ \A n \in DOMAIN sessions : sessions[n] # Absent /\ sessions[n].project \in Swept => sessions[n].late
    /\ \A w \in work : w.kind = "session" /\ w.project \in Swept => w.at = "late"

(* While deletions of a project did not cross there is one of it at a time, *)
(* and the folder it found is the project's.                                *)
Apart ==
    \A p \in Projects \ overlapped :
        /\ \A v, w \in J!Deleting(p) : v = w
        /\ \A w \in J!Deleting(p) : w.seen \in {Absent, dirs[p]}

ProjectsInv == Works /\ Documents /\ Late /\ Apart /\ J!NewFolderKept

LEMMA WorkFacts ==
    /\ \A k, at, g, p, seen, names : IsWork(J!Work(k, at, g, p, seen, names))
    /\ \A w, at : IsWork(w) =>
          LET v == [w EXCEPT !.at = at]
          IN IsWork(v) /\ v.at = at /\ v.kind = w.kind /\ v.project = w.project /\ v.seen = w.seen /\ v.names = w.names
<1>1. ASSUME NEW k, NEW at, NEW g, NEW p, NEW seen, NEW names PROVE IsWork(J!Work(k, at, g, p, seen, names))
  BY DEF IsWork, J!Work
<1>2. ASSUME NEW w, NEW at, IsWork(w), NEW v, v = [w EXCEPT !.at = at]
      PROVE  IsWork(v) /\ v.at = at /\ v.kind = w.kind /\ v.project = w.project /\ v.seen = w.seen /\ v.names = w.names
  <2>1. PICK K, A, G1, P, S, N : w = [kind |-> K, at |-> A, page |-> G1, project |-> P, seen |-> S, names |-> N]
    BY <1>2 DEF IsWork
  <2>2. v = [kind |-> K, at |-> at, page |-> G1, project |-> P, seen |-> S, names |-> N]
    BY <1>2, <2>1
  <2> QED BY <2>1, <2>2 DEF IsWork
<1> QED BY <1>1, <1>2

(* What a page saves has an active project that is listed, if it has any.   *)
LEMMA NormalizedFacts ==
    ASSUME NEW d, IsDoc(d)
    PROVE  Listed(J!Normalized(d)) /\ IsDoc(J!Normalized(d))
<1>1. PICK P, A : d = [projects |-> P, active |-> A]
  BY DEF IsDoc
<1>2. PICK a : a = IF A \in P THEN A ELSE IF P = {} THEN Absent ELSE CHOOSE p \in P : TRUE
  OBVIOUS
<1>3. a \in P \cup {Absent}
  BY <1>2
<1>4. J!Normalized(d) = [projects |-> P, active |-> a]
  <2>1. d.projects = P /\ d.active = A
    BY <1>1
  <2>2. J!Normalized(d) = [d EXCEPT !.active = IF d.active \in d.projects THEN d.active
                                              ELSE IF d.projects = {} THEN Absent
                                              ELSE CHOOSE p \in d.projects : TRUE]
    BY DEF J!Normalized
  <2>3. J!Normalized(d) = [d EXCEPT !.active = a]
    BY <1>2, <2>1, <2>2
  <2> QED BY <1>1, <2>3
<1> QED BY <1>3, <1>4 DEF Listed, IsDoc

LEMMA StripFacts ==
    ASSUME NEW d, Listed(d), NEW p
    PROVE  Listed(J!Strip(d, p))
BY DEF Listed, IsDoc, J!Strip

(* A step of a list, a document or a creation, or one that ends requests.   *)
Ordinary(w) ==
    /\ IsWork(w) /\ w.kind \in {"put", "list", "create"}
    /\ w.kind = "create" => w.project \in Projects
    /\ w.kind = "put" => Listed(w.names)

LEMMA OrdinaryFacts ==
    ASSUME ProjectsInv, UNCHANGED <<dirs, sessions, overlapped, lost>>,
           \A w \in work' : w \in work \/ Ordinary(w),
           docs' = [g \in Pages |-> docs'[g]], menu' = [g \in Pages |-> menu'[g]],
           \A g \in Pages : Listed(docs'[g]) /\ IsDoc(menu'[g])
    PROVE  ProjectsInv'
<1>1. Works' /\ Documents'
  BY DEF ProjectsInv, Works, Documents, Ordinary, IsWork, Listed, IsDoc
<1>2. Swept' \subseteq Swept
  BY DEF Swept, J!Job, Ordinary
<1>3. Late'
  BY <1>2 DEF ProjectsInv, Late, Ordinary
<1>4. \A p : J!Deleting(p)' \subseteq J!Deleting(p)
  BY DEF J!Deleting, Ordinary
<1>5. Apart' /\ J!NewFolderKept'
  BY <1>4 DEF ProjectsInv, Apart, J!NewFolderKept
<1> QED BY <1>1, <1>3, <1>5 DEF ProjectsInv

LEMMA ProjectsInit == J!Init => ProjectsInv
<1> SUFFICES ASSUME J!Init PROVE ProjectsInv
  OBVIOUS
<1>1. Listed(J!Doc(Projects, Absent))
  BY DEF Listed, IsDoc, J!Doc
<1>2. work = {} /\ lost = {} /\ DOMAIN sessions = {}
  BY DEF J!Init
<1>3. Works
  BY <1>2 DEF J!Init, Works
<1>4. Documents
  BY <1>1, <1>2 DEF J!Init, Documents, Listed
<1>5. Late /\ Apart /\ J!NewFolderKept
  BY <1>2 DEF Late, Apart, J!Deleting, J!NewFolderKept
<1> QED BY <1>3, <1>4, <1>5 DEF ProjectsInv

LEMMA SavedFacts ==
    ASSUME ProjectsInv, NEW g \in Pages, NEW d, IsDoc(d), J!Save(g, d), UNCHANGED <<dirs, sessions, docs, overlapped, lost>>
    PROVE  ProjectsInv'
<1>1. PICK e : e = J!Normalized(d) /\ Listed(e) /\ IsDoc(e)
  BY NormalizedFacts
<1>2. PICK w : w = [kind |-> "put", at |-> "put", page |-> g, project |-> Absent, seen |-> Absent, names |-> e] /\ work' = work \cup {w}
  BY <1>1 DEF J!Save, J!Begins
<1>3. Ordinary(w)
  BY <1>1, <1>2 DEF Ordinary, IsWork
<1>4. menu' = [menu EXCEPT ![g] = e]
  BY <1>1 DEF J!Save
<1>5. menu' = [x \in Pages |-> menu'[x]] /\ \A x \in Pages : IsDoc(menu'[x])
  BY <1>1, <1>4 DEF ProjectsInv, Documents
<1>6. docs' = [x \in Pages |-> docs'[x]] /\ \A x \in Pages : Listed(docs'[x])
  BY DEF ProjectsInv, Documents
<1> QED BY <1>2, <1>3, <1>5, <1>6, OrdinaryFacts

LEMMA PageFacts ==
    ASSUME ProjectsInv, NEW g \in Pages, NEW p \in Projects, J!SelectProject(g, p) \/ J!SessionReady(g, p)
    PROVE  ProjectsInv'
<1>1. PICK d : d = [menu[g] EXCEPT !.active = p]
  OBVIOUS
<1>2. IsDoc(menu[g])
  BY DEF ProjectsInv, Documents
<1>3. d = [projects |-> menu[g].projects, active |-> p]
  <2>1. PICK P, A : menu[g] = [projects |-> P, active |-> A]
    BY <1>2 DEF IsDoc
  <2> QED BY <1>1, <2>1
<1>4. IsDoc(d)
  BY <1>3 DEF IsDoc
<1>5. J!Save(g, d)
  BY <1>1 DEF J!SelectProject, J!SessionReady
<1>6. UNCHANGED <<dirs, sessions, docs, overlapped, lost>>
  BY DEF J!SelectProject, J!SessionReady, J!Stored, J!Ghosts
<1> QED BY <1>4, <1>5, <1>6, SavedFacts

LEMMA LoadedFacts ==
    ASSUME ProjectsInv, NEW g \in Pages, J!Load(g)
    PROVE  ProjectsInv'
<1>1. PICK ps : ps = {p \in Projects : dirs[p] # Absent} \ pending
  OBVIOUS
<1>2. PICK d : d = [docs[g] EXCEPT !.projects = ps]
  OBVIOUS
<1>3. IsDoc(docs[g])
  BY DEF ProjectsInv, Documents, Listed
<1>4. d = [projects |-> ps, active |-> docs[g].active]
  <2>1. PICK P, A : docs[g] = [projects |-> P, active |-> A]
    BY <1>3 DEF IsDoc
  <2> QED BY <1>2, <2>1
<1>5. PICK e : e = J!Normalized(d) /\ IsDoc(e)
  BY <1>4, NormalizedFacts DEF IsDoc
<1>6. menu' = [menu EXCEPT ![g] = e]
  BY <1>1, <1>2, <1>5 DEF J!Load
<1>7. menu' = [x \in Pages |-> menu'[x]] /\ \A x \in Pages : IsDoc(menu'[x])
  BY <1>5, <1>6 DEF ProjectsInv, Documents
<1>8. UNCHANGED <<dirs, sessions, docs, overlapped, lost>> /\ work' \subseteq work
  BY DEF J!Load, J!Stored, J!Ghosts
<1>9. docs' = [x \in Pages |-> docs'[x]] /\ \A x \in Pages : Listed(docs'[x])
  BY <1>8 DEF ProjectsInv, Documents
<1> QED BY <1>7, <1>8, <1>9, OrdinaryFacts

(* A step of one request, besides the deletions and the sessions.           *)
LEMMA RequestFacts ==
    ASSUME ProjectsInv, NEW w \in work,
           J!Put(w) \/ J!ListFolders(w) \/ J!ListFilter(w) \/ J!Reload(w) \/ J!CreateRow(w) \/ J!Fail(w)
    PROVE  ProjectsInv'
<1>0. UNCHANGED <<dirs, sessions, overlapped, lost>>
  BY DEF J!Put, J!ListFolders, J!ListFilter, J!Reload, J!CreateRow, J!Fail, J!Stored, J!Ghosts
<1>1. /\ IsWork(w)
      /\ docs = [g \in Pages |-> docs[g]] /\ menu = [g \in Pages |-> menu[g]]
      /\ \A g \in Pages : Listed(docs[g]) /\ IsDoc(menu[g])
  BY DEF ProjectsInv, Works, Documents
<1>2. CASE J!Put(w)
  <2>1. Listed(w.names)
    BY <1>2 DEF J!Put, ProjectsInv, Documents
  <2>2. docs' = [docs EXCEPT ![w.page] = w.names] /\ menu' = menu /\ work' \subseteq work
    BY <1>2 DEF J!Put, J!Ends
  <2>3. docs' = [g \in Pages |-> docs'[g]] /\ \A g \in Pages : Listed(docs'[g])
    BY <1>1, <2>1, <2>2
  <2> QED BY <1>0, <1>1, <2>2, <2>3, OrdinaryFacts
<1>3. CASE J!ListFolders(w) \/ J!ListFilter(w)
  <2>1. PICK at, names : work' = (work \ {w}) \cup {[w EXCEPT !.at = at, !.names = names]} /\ w.kind = "list"
    BY <1>3 DEF J!ListFolders, J!ListFilter, J!Goes
  <2>2. PICK v : v = [w EXCEPT !.at = at, !.names = names]
    OBVIOUS
  <2>3. v = [kind |-> "list", at |-> at, page |-> w.page, project |-> w.project, seen |-> w.seen, names |-> names]
    <3>1. PICK K, A, G1, P, S, N : w = [kind |-> K, at |-> A, page |-> G1, project |-> P, seen |-> S, names |-> N]
      BY <1>1 DEF IsWork
    <3> QED BY <2>1, <2>2, <3>1
  <2>4. Ordinary(v)
    BY <2>3 DEF Ordinary, IsWork
  <2>5. UNCHANGED <<docs, menu>>
    BY <1>3 DEF J!ListFolders, J!ListFilter
  <2> QED BY <1>0, <1>1, <2>1, <2>2, <2>4, <2>5, OrdinaryFacts
<1>4. CASE J!Reload(w)
  <2>1. PICK d : d = J!Normalized(J!Reloaded(w)) /\ Listed(d) /\ IsDoc(d)
    <3>1. IsDoc(J!Reloaded(w))
      BY DEF IsDoc, J!Reloaded, J!Doc
    <3> QED BY <3>1, NormalizedFacts
  <2>2. menu' = [menu EXCEPT ![w.page] = d] /\ docs' = docs
    BY <1>4, <2>1 DEF J!Reload
  <2>3. PICK v : v = [kind |-> "put", at |-> "put", page |-> w.page, project |-> Absent, seen |-> Absent, names |-> d]
                 /\ work' = (work \ {w}) \cup {v}
    BY <1>4, <2>1 DEF J!Reload, J!Goes
  <2>4. Ordinary(v)
    BY <2>1, <2>3 DEF Ordinary, IsWork
  <2>5. menu' = [g \in Pages |-> menu'[g]] /\ \A g \in Pages : IsDoc(menu'[g])
    BY <1>1, <2>1, <2>2
  <2> QED BY <1>0, <1>1, <2>2, <2>3, <2>4, <2>5, OrdinaryFacts
<1>5. CASE J!CreateRow(w)
  <2>1. PICK v : v = J!Listing(w.page, w.project) /\ work' = (work \ {w}) \cup {v}
    BY <1>5 DEF J!CreateRow, J!Goes
  <2>2. Ordinary(v)
    BY <2>1, WorkFacts DEF Ordinary, J!Listing, J!Work
  <2>3. UNCHANGED <<docs, menu>>
    BY <1>5 DEF J!CreateRow
  <2> QED BY <1>0, <1>1, <2>1, <2>2, <2>3, OrdinaryFacts
<1>6. CASE J!Fail(w)
  BY <1>0, <1>1, <1>6, OrdinaryFacts DEF J!Fail, J!Ends
<1> QED BY <1>2, <1>3, <1>4, <1>5, <1>6

(* A folder is made only where there is none, which no deletion under way   *)
(* then has found.                                                          *)
LEMMA CreateFacts ==
    ASSUME ProjectsInv, NEW g \in Pages, NEW p \in Projects, J!Create(g, p)
    PROVE  ProjectsInv'
<1>1. PICK v : v = J!Work("create", "row", g, p, Absent, {}) /\ work' = work \cup {v}
  BY DEF J!Create, J!Begins
<1>2. Ordinary(v) /\ v.kind = "create"
  BY <1>1, WorkFacts DEF Ordinary, J!Work
<1>3. UNCHANGED <<sessions, docs, menu, overlapped, lost>> /\ dirs[p] = Absent /\ dirs' = [dirs EXCEPT ![p] = creates + 1]
  BY DEF J!Create, J!MakeFolder, J!Ghosts
<1>4. dirs' = [q \in Projects |-> IF q = p THEN creates + 1 ELSE dirs[q]]
  BY <1>3 DEF ProjectsInv, Works
<1>5. Works'
  BY <1>1, <1>2, <1>3, <1>4 DEF ProjectsInv, Works, Ordinary, IsWork
<1>6. Documents'
  BY <1>1, <1>2, <1>3 DEF ProjectsInv, Documents, IsDoc, Listed
<1>7. Swept' \subseteq Swept
  BY <1>1, <1>2, <1>3, <1>4 DEF Swept, J!Job
<1>8. Late'
  BY <1>1, <1>2, <1>3, <1>5, <1>7 DEF ProjectsInv, Late, Works
<1>9. \A q : J!Deleting(q)' = J!Deleting(q)
  BY <1>1, <1>2 DEF J!Deleting
<1>10. \A q \in Projects \ overlapped : \A w \in J!Deleting(q) : w.seen \in {Absent, dirs'[q]}
  BY <1>3, <1>4 DEF ProjectsInv, Apart
<1>11. Apart' /\ J!NewFolderKept'
  BY <1>3, <1>9, <1>10 DEF ProjectsInv, Apart, J!NewFolderKept
<1> QED BY <1>5, <1>6, <1>8, <1>11 DEF ProjectsInv

LEMMA DeleteFacts ==
    ASSUME ProjectsInv, NEW g \in Pages, NEW p \in Projects, J!Delete(g, p)
    PROVE  ProjectsInv'
<1>1. PICK v : v = J!Work("delete", "docs", g, p, dirs[p], {}) /\ work' = work \cup {v}
  BY DEF J!Delete, J!Begins
<1>2. IsWork(v) /\ v.kind = "delete" /\ v.project = p /\ v.seen = dirs[p]
  BY <1>1, WorkFacts DEF J!Work
<1>3. UNCHANGED <<dirs, sessions, docs, menu, lost>> /\ overlapped' = IF J!Deleting(p) = {} THEN overlapped ELSE overlapped \cup {p}
  BY DEF J!Delete, J!Stored
<1>4. Works' /\ Documents'
  BY <1>1, <1>2, <1>3 DEF ProjectsInv, Works, Documents, IsWork, IsDoc, Listed
<1>5. Swept' \subseteq Swept
  BY <1>1, <1>2, <1>3 DEF Swept, J!Job
<1>6. Late'
  BY <1>1, <1>2, <1>3, <1>5 DEF ProjectsInv, Late
<1>7. \A q : J!Deleting(q)' = IF q = p THEN J!Deleting(q) \cup {v} ELSE J!Deleting(q)
  BY <1>1, <1>2 DEF J!Deleting
<1>8. Apart'
  BY <1>2, <1>3, <1>7 DEF ProjectsInv, Apart
<1>9. J!NewFolderKept'
  BY <1>3 DEF ProjectsInv, J!NewFolderKept
<1> QED BY <1>4, <1>6, <1>8, <1>9 DEF ProjectsInv

(* A deletion goes on: w becomes v.                                         *)
LEMMA DeletionFacts ==
    ASSUME ProjectsInv, NEW w \in work, NEW v, IsWork(v), w.kind \in {"delete", "job"}, v.kind \in {"delete", "job"},
           v.project = w.project, v.seen = w.seen, v.kind # "job" \/ v.at # "folder",
           \A u \in work' : u \in work \ {w} \/ u = v \/ Ordinary(u),
           UNCHANGED <<dirs, sessions, menu, overlapped, lost>>,
           docs' = [g \in Pages |-> docs'[g]], \A g \in Pages : Listed(docs'[g])
    PROVE  ProjectsInv'
<1>1. Works' /\ Documents'
  BY DEF ProjectsInv, Works, Documents, Ordinary, IsWork, Listed, IsDoc
<1>2. Swept' \subseteq Swept
  BY DEF Swept, J!Job, Ordinary
<1>3. Late'
  BY <1>2 DEF ProjectsInv, Late, Ordinary
<1>4. \A p : /\ J!Deleting(p)' \subseteq (J!Deleting(p) \ {w}) \cup {v}
             /\ v \in J!Deleting(p)' => w \in J!Deleting(p)
  BY DEF J!Deleting, Ordinary
<1>5. Apart'
  BY <1>4 DEF ProjectsInv, Apart
<1>6. J!NewFolderKept'
  BY DEF ProjectsInv, J!NewFolderKept
<1> QED BY <1>1, <1>3, <1>5, <1>6 DEF ProjectsInv

LEMMA ForegroundFacts ==
    ASSUME ProjectsInv, NEW w \in work, J!StripDocs(w) \/ J!Accept(w)
    PROVE  ProjectsInv'
<1>0. IsWork(w) /\ docs = [g \in Pages |-> docs[g]] /\ \A g \in Pages : Listed(docs[g])
  BY DEF ProjectsInv, Works, Documents
<1>1. CASE J!StripDocs(w)
  <2>1. PICK v : v = [w EXCEPT !.at = "accept"] /\ work' = (work \ {w}) \cup {v}
    BY <1>1 DEF J!StripDocs, J!To, J!Goes
  <2>2. IsWork(v) /\ v.kind = w.kind /\ v.project = w.project /\ v.seen = w.seen
    BY <1>0, <2>1, WorkFacts
  <2>3. w.kind = "delete" /\ UNCHANGED <<dirs, sessions, menu, overlapped, lost>>
    BY <1>1 DEF J!StripDocs, J!Stored, J!Ghosts
  <2>4. docs' = [g \in Pages |-> docs'[g]] /\ \A g \in Pages : docs'[g] = J!Strip(docs[g], w.project)
    BY <1>1 DEF J!StripDocs
  <2>5. \A g \in Pages : Listed(docs'[g])
    BY <1>0, <2>4, StripFacts
  <2>6. v.kind \in {"delete", "job"} /\ w.kind \in {"delete", "job"} /\ v.kind # "job"
    BY <2>2, <2>3
  <2>7. \A u \in work' : u \in work \ {w} \/ u = v \/ Ordinary(u)
    BY <2>1
  <2> QED BY <2>2, <2>3, <2>4, <2>5, <2>6, <2>7, DeletionFacts
<1>2. CASE J!Accept(w)
  <2>1. PICK v, l : /\ v = [w EXCEPT !.kind = "job", !.at = "sessions", !.page = Absent] /\ l = J!Listing(w.page, Absent)
                    /\ work' = (work \ {w}) \cup {v, l}
    BY <1>2 DEF J!Accept
  <2>2. Ordinary(l)
    BY <2>1, WorkFacts DEF Ordinary, J!Listing, J!Work
  <2>3. v = [kind |-> "job", at |-> "sessions", page |-> Absent, project |-> w.project, seen |-> w.seen, names |-> w.names]
    <3>1. PICK K, A, G1, P, S, N : w = [kind |-> K, at |-> A, page |-> G1, project |-> P, seen |-> S, names |-> N]
      BY <1>0 DEF IsWork
    <3> QED BY <2>1, <3>1
  <2>4. IsWork(v) /\ v.kind = "job" /\ v.at = "sessions" /\ v.project = w.project /\ v.seen = w.seen
    BY <2>3 DEF IsWork
  <2>5. w.kind = "delete" /\ UNCHANGED <<dirs, sessions, docs, menu, overlapped, lost>>
    BY <1>2 DEF J!Accept, J!Stored, J!Ghosts
  <2>6. \A u \in work' : u \in work \ {w} \/ u = v \/ Ordinary(u)
    BY <2>1, <2>2
  <2>7. docs' = [g \in Pages |-> docs'[g]] /\ \A g \in Pages : Listed(docs'[g])
    BY <1>0, <2>5
  <2> QED BY <2>4, <2>5, <2>6, <2>7, DeletionFacts
<1> QED BY <1>1, <1>2

(* The sessions of a project are deleted before its folder, and what is     *)
(* inserted in between is late.                                             *)
LEMMA SessionsGoFacts ==
    ASSUME ProjectsInv, NEW w \in work, J!Job(w, "sessions"),
           J!DeleteSessions(w.project, (work \ {w}) \cup {[w EXCEPT !.at = "folder"]}),
           UNCHANGED <<docs, menu, overlapped>>
    PROVE  ProjectsInv'
<1>0. IsWork(w) /\ w.kind = "job" /\ w.project \in Projects
  BY DEF ProjectsInv, Works, J!Job
<1>1. PICK f : f = [w EXCEPT !.at = "folder"]
  OBVIOUS
<1>2. IsWork(f) /\ f.at = "folder" /\ f.kind = "job" /\ f.project = w.project /\ f.seen = w.seen
  BY <1>0, <1>1, WorkFacts
<1>3. PICK p, rest : p = w.project /\ rest = (work \ {w}) \cup {f}
  OBVIOUS
<1>4. J!DeleteSessions(p, rest)
  BY <1>1, <1>3
<1>5. \A v \in work : IsWork(v)
  BY DEF ProjectsInv, Works
<1>6. \A v \in rest : IsWork(v)
  BY <1>2, <1>3, <1>5
<1>7. ASSUME NEW u \in work'
      PROVE  \E v \in rest : /\ IsWork(u) /\ u.kind = v.kind /\ u.project = v.project /\ u.seen = v.seen /\ u.names = v.names
                             /\ v.kind # "session" => u = v
                             /\ v.kind = "session" => u.at = v.at \/ u.at = "late"
                             /\ v.kind = "session" /\ v.project = p => u.at = "late"
  <2>1. PICK v \in rest : u = IF v.kind = "session" /\ v.project = p THEN [v EXCEPT !.at = "late"] ELSE v
    BY <1>4, <1>7 DEF J!DeleteSessions
  <2>2. CASE v.kind = "session" /\ v.project = p
    <3>1. u = [v EXCEPT !.at = "late"]
      BY <2>1, <2>2
    <3>2. IsWork(u) /\ u.at = "late" /\ u.kind = v.kind /\ u.project = v.project /\ u.seen = v.seen /\ u.names = v.names
      BY <1>6, <3>1, WorkFacts
    <3> QED BY <2>2, <3>2
  <2>3. CASE ~(v.kind = "session" /\ v.project = p)
    <3>1. u = v
      BY <2>1, <2>3
    <3> QED BY <1>6, <2>3, <3>1
  <2> QED BY <2>2, <2>3
<1>8. UNCHANGED <<dirs, lost>> /\ DOMAIN sessions' = DOMAIN sessions
      /\ \A n \in DOMAIN sessions : /\ sessions'[n] \in {sessions[n], Absent}
                                    /\ sessions'[n] # Absent => sessions[n].project # p
  BY <1>4 DEF J!DeleteSessions
<1>9. Works'
  <2>1. \A u \in work' : IsWork(u) /\ (u.kind \in {"delete", "job", "session", "create"} => u.project \in Projects)
    BY <1>0, <1>2, <1>3, <1>7 DEF ProjectsInv, Works
  <2>2. dirs' = [q \in Projects |-> dirs'[q]]
    BY <1>8 DEF ProjectsInv, Works
  <2>3. \A n \in DOMAIN sessions' : sessions'[n] # Absent => sessions'[n].project \in Projects
    BY <1>8 DEF ProjectsInv, Works
  <2> QED BY <2>1, <2>2, <2>3 DEF Works, IsWork
<1>10. Documents'
  <2>1. \A u \in work' : u.kind = "put" => Listed(u.names)
    BY <1>2, <1>3, <1>7 DEF ProjectsInv, Documents
  <2> QED BY <2>1 DEF ProjectsInv, Documents, Listed, IsDoc
<1>11. Swept' \subseteq Swept \cup {p}
  BY <1>2, <1>3, <1>7, <1>8 DEF Swept, J!Job
<1>12. Late'
  <2>1. \A n \in DOMAIN sessions' : sessions'[n] # Absent /\ sessions'[n].project \in Swept' => sessions'[n].late
    BY <1>8, <1>9, <1>11 DEF ProjectsInv, Late, Works
  <2>2. ASSUME NEW u \in work', u.kind = "session", u.project \in Swept'
        PROVE  u.at = "late"
    <3>1. PICK v \in rest : /\ u.kind = v.kind /\ u.project = v.project
                            /\ u.at = v.at \/ u.at = "late"
                            /\ v.project = p => u.at = "late"
      BY <1>7, <2>2
    <3>2. v \in work
      BY <1>2, <1>3, <2>2, <3>1
    <3>3. v.project \in Projects
      BY <2>2, <3>1, <3>2 DEF ProjectsInv, Works
    <3>4. v.project = p \/ v.project \in Swept
      BY <1>11, <2>2, <3>1, <3>3
    <3> QED BY <2>2, <3>1, <3>2, <3>4 DEF ProjectsInv, Late
  <2> QED BY <2>1, <2>2 DEF Late
<1>13. \A q : /\ J!Deleting(q)' \subseteq (J!Deleting(q) \ {w}) \cup {f}
              /\ f \in J!Deleting(q)' => w \in J!Deleting(q)
  BY <1>0, <1>2, <1>3, <1>7 DEF J!Deleting
<1>14. Apart'
  BY <1>2, <1>8, <1>13 DEF ProjectsInv, Apart
<1>15. J!NewFolderKept'
  BY <1>8 DEF ProjectsInv, J!NewFolderKept
<1> QED BY <1>9, <1>10, <1>12, <1>14, <1>15 DEF ProjectsInv

(* The folder goes last; when it is not the one the deletion found, another *)
(* deletion of its name has been under way with it.                         *)
LEMMA FolderGoesFacts ==
    ASSUME ProjectsInv, NEW w \in work, J!Job(w, "folder"), J!RemoveFolder(w, work \ {w}), UNCHANGED <<docs, menu, overlapped>>
    PROVE  ProjectsInv'
<1>0. PICK p \in Projects : p = w.project /\ w.kind = "job" /\ w.at = "folder"
  BY DEF ProjectsInv, Works, J!Job
<1>1. dirs' = [q \in Projects |-> IF q = p THEN Absent ELSE dirs[q]]
  BY <1>0 DEF J!RemoveFolder, ProjectsInv, Works
<1>2. work' = work \ {w} /\ sessions' = sessions
  BY DEF J!RemoveFolder
<1>3. Works' /\ Documents'
  BY <1>1, <1>2 DEF ProjectsInv, Works, Documents, IsWork, Listed, IsDoc
<1>4. Swept' \subseteq Swept
  BY <1>0, <1>1, <1>2 DEF Swept, J!Job
<1>5. Late'
  BY <1>2, <1>4 DEF ProjectsInv, Late, Works
<1>6. w \in J!Deleting(p)
  BY <1>0 DEF J!Deleting
<1>7. \A q : J!Deleting(q)' = J!Deleting(q) \ {w}
  BY <1>2 DEF J!Deleting
<1>8. Apart'
  BY <1>1, <1>6, <1>7 DEF ProjectsInv, Apart
<1>9. lost' = IF w.seen = Absent \/ dirs[p] \in {w.seen, Absent} THEN lost ELSE lost \cup {p}
  BY <1>0 DEF J!RemoveFolder
<1>10. p \notin overlapped => w.seen \in {Absent, dirs[p]}
  BY <1>6 DEF ProjectsInv, Apart
<1>11. J!NewFolderKept'
  BY <1>9, <1>10 DEF ProjectsInv, J!NewFolderKept
<1> QED BY <1>3, <1>5, <1>8, <1>11 DEF ProjectsInv

LEMMA NewSessionFacts ==
    ASSUME ProjectsInv, NEW p \in Projects, J!NewSession(p)
    PROVE  ProjectsInv'
<1>1. PICK at : at = IF \E w \in work : J!Job(w, "folder") /\ w.project = p THEN "late" ELSE "insert"
  OBVIOUS
<1>2. PICK v : v = J!Work("session", at, Absent, p, Absent, {}) /\ work' = work \cup {v}
  BY <1>1 DEF J!NewSession, J!Begins
<1>3. IsWork(v) /\ v.kind = "session" /\ v.project = p /\ v.at = at
  BY <1>2, WorkFacts DEF J!Work
<1>4. UNCHANGED <<dirs, sessions, docs, menu, overlapped, lost>> /\ dirs[p] # Absent
  BY DEF J!NewSession, J!Stored, J!Ghosts
<1>5. Works' /\ Documents'
  BY <1>2, <1>3, <1>4 DEF ProjectsInv, Works, Documents, IsWork, IsDoc, Listed
<1>6. Swept' \subseteq Swept
  BY <1>2, <1>3, <1>4 DEF Swept, J!Job
<1>7. p \in Swept => v.at = "late"
  BY <1>1, <1>3, <1>4 DEF Swept
<1>8. Late'
  BY <1>2, <1>3, <1>4, <1>6, <1>7 DEF ProjectsInv, Late
<1>9. \A q : J!Deleting(q)' = J!Deleting(q)
  BY <1>2, <1>3 DEF J!Deleting
<1>10. Apart' /\ J!NewFolderKept'
  BY <1>4, <1>9 DEF ProjectsInv, Apart, J!NewFolderKept
<1> QED BY <1>5, <1>8, <1>10 DEF ProjectsInv

LEMMA InsertSessionFacts ==
    ASSUME ProjectsInv, NEW w \in work, J!InsertSession(w)
    PROVE  ProjectsInv'
<1>1. w.kind = "session" /\ w.project \in Projects /\ (w.project \in Swept => w.at = "late")
  BY DEF J!InsertSession, ProjectsInv, Works, Late
<1>2. PICK n : sessions' = [i \in DOMAIN sessions \cup {n} |-> IF i = n THEN [project |-> w.project, late |-> w.at = "late"]
                                                            ELSE sessions[i]]
  BY DEF J!InsertSession
<1>3. work' = work \ {w} /\ UNCHANGED <<dirs, docs, menu, overlapped, lost>>
  BY DEF J!InsertSession, J!Ends, J!Ghosts
<1>4. /\ DOMAIN sessions' = DOMAIN sessions \cup {n}
      /\ \A i \in DOMAIN sessions' : i # n => i \in DOMAIN sessions /\ sessions'[i] = sessions[i]
      /\ sessions'[n].project = w.project /\ (sessions'[n].late <=> w.at = "late")
  BY <1>2
<1>5. Works' /\ Documents'
  BY <1>1, <1>3, <1>4 DEF ProjectsInv, Works, Documents, IsWork, IsDoc, Listed
<1>6. Swept' \subseteq Swept
  BY <1>3 DEF Swept
<1>7. Late'
  BY <1>1, <1>3, <1>4, <1>6 DEF ProjectsInv, Late
<1>8. \A q : J!Deleting(q)' \subseteq J!Deleting(q)
  BY <1>3 DEF J!Deleting
<1>9. Apart' /\ J!NewFolderKept'
  BY <1>3, <1>8 DEF ProjectsInv, Apart, J!NewFolderKept
<1> QED BY <1>5, <1>7, <1>9 DEF ProjectsInv

LEMMA ProjectsNext ==
    ASSUME ProjectsInv, [J!Next]_projectsVars
    PROVE  ProjectsInv'
<1>1. ASSUME NEW g \in Pages, NEW p \in Projects, J!SelectProject(g, p) \/ J!SessionReady(g, p) \/ J!Create(g, p) \/ J!Delete(g, p)
      PROVE  ProjectsInv'
  BY <1>1, PageFacts, CreateFacts, DeleteFacts
<1>2. ASSUME NEW g \in Pages, J!Load(g) PROVE ProjectsInv'
  BY <1>2, LoadedFacts
<1>3. ASSUME NEW p \in Projects, J!NewSession(p) PROVE ProjectsInv'
  BY <1>3, NewSessionFacts
<1>4. ASSUME NEW w \in work, J!WorkStep(w) PROVE ProjectsInv'
  <2>1. CASE J!DeleteInBackground(w)
    <3>1. UNCHANGED <<docs, menu, overlapped>>
      BY <2>1 DEF J!DeleteInBackground
    <3> QED BY <2>1, <3>1, SessionsGoFacts, FolderGoesFacts DEF J!DeleteInBackground, J!Background
  <2> QED BY <1>4, <2>1, RequestFacts, ForegroundFacts, InsertSessionFacts DEF J!WorkStep
<1>5. CASE J!Crash
  <2>1. work' = {} /\ UNCHANGED <<dirs, sessions, docs, menu, overlapped, lost>>
    BY <1>5 DEF J!Crash, J!Stored, J!Ghosts
  <2>2. docs' = [g \in Pages |-> docs'[g]] /\ menu' = [g \in Pages |-> menu'[g]] /\ \A g \in Pages : Listed(docs'[g]) /\ IsDoc(menu'[g])
    BY <2>1 DEF ProjectsInv, Documents
  <2> QED BY <2>1, <2>2, OrdinaryFacts
<1>6. CASE UNCHANGED projectsVars
  <2>1. UNCHANGED <<dirs, sessions, docs, menu, work, overlapped, lost>>
    BY <1>6 DEF projectsVars
  <2>2. docs' = [g \in Pages |-> docs'[g]] /\ menu' = [g \in Pages |-> menu'[g]] /\ \A g \in Pages : Listed(docs'[g]) /\ IsDoc(menu'[g])
    BY <2>1 DEF ProjectsInv, Documents
  <2> QED BY <2>1, <2>2, OrdinaryFacts
<1> QED BY <1>1, <1>2, <1>3, <1>4, <1>5, <1>6 DEF J!Next

(* A deletion that found a folder removes that one, unless two deletions of *)
(* the name crossed; no session older than a deletion is left without its   *)
(* folder; and a saved document has an active project that is listed.       *)
THEOREM ProjectsAreKept == J!Spec => []ProjectsKept
<1>1. ProjectsInv => ProjectsKept
  BY DEF ProjectsInv, ProjectsKept, Works, Late, Swept, J!OrphansAreLate, Documents, Listed, J!ActiveIsListed
<1> QED BY <1>1, ProjectsInit, ProjectsNext, PTL DEF J!Spec, J!vars, projectsVars
=============================================================================
