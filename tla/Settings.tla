------------------------------ MODULE Settings ------------------------------
(***************************************************************************)
(* settings.json: the HTTP operations on the provider and model catalog,   *)
(* each of which reads the whole document, changes its copy and writes it  *)
(* back, with nothing that keeps two of them apart; and a tab of the       *)
(* settings surface, whose state outlives the component.  A write first    *)
(* empties the file; two writes that overlap can leave the longer one's    *)
(* tail behind the shorter one.  A synchronisation holds its copy while it *)
(* asks the provider for its models.                                       *)
(* Abstracted: urls, tokens, context sizes and inference values of an      *)
(* entry; the order of the keys; the forms of the tabs, to one value.      *)
(***************************************************************************)
EXTENDS Naturals, FiniteSets, Functions

CONSTANTS
    Providers, Models, Embeddings, \* titles; names a chat, an embedding model can have
    MaxOps, MaxCrashes,            \* bounds: requests, restarts of the server
    Empty, Mixed,                  \* a file emptied by an open; the remains of two writes
    None

BoundsAssumption == {MaxOps, MaxCrashes} \subseteq Nat

ModelNames == Models \cup Embeddings
\* Slot MaxOps + i is the synchronisation that request i leaves behind.
Slots == 1 .. 2 * MaxOps

VARIABLES
    file,    \* settings.json: a document, emptied, or the remains of two writes
    op,      \* the requests: where each is, and its copy of the document
    tab,     \* a tab: is it mounted, its pending, the value it shows
    crashes  \* against MaxCrashes

vars == <<file, op, tab, crashes>>

(***************************************************************************)
(* What an operation makes of the document it read: the documents it may   *)
(* write, none when it throws.                                             *)
(***************************************************************************)
Keys(d) == DOMAIN d.models
\* findSettingsModel: the entries of that provider and name.
Found(d, p, n) == {k \in Keys(d) : d.models[k] = <<p, n>>}
\* uniqueSettingsModelKey.
UniqueKey(d, n) == <<n, CHOOSE i \in 1 .. Cardinality(Keys(d)) + 1 :
                            /\ <<n, i>> \notin Keys(d)
                            /\ \A j \in 1 .. i - 1 : <<n, j>> \in Keys(d)>>
WithModel(d, p, n) == [d EXCEPT !.models = [k \in Keys(d) \cup {UniqueKey(d, n)} |->
                                                IF k \in Keys(d) THEN d.models[k] ELSE <<p, n>>]]
Without(d, keys) == [d EXCEPT !.models = Restrict(d.models, Keys(d) \ keys)]
\* The default falls to the first key left, if there is one.
Redefault(d) == IF d.default = None \/ d.default \in Keys(d) THEN {d}
                ELSE IF Keys(d) = {} THEN {[d EXCEPT !.default = None]}
                ELSE {[d EXCEPT !.default = k] : k \in Keys(d)}
\* One pass over the upstream names.
Synced(d, p, names) ==
    LET new == {n \in names : Found(d, p, n) = {}}
    IN [d EXCEPT !.models = [k \in Keys(d) \cup {UniqueKey(d, n) : n \in new} |->
                                 IF k \in Keys(d) THEN d.models[k] ELSE <<p, k[1]>>]]

CreateProvider(d, o) == {[d EXCEPT !.providers = @ \cup {o.provider}]}
UpdateProvider(d, o) == IF o.provider \in d.providers THEN {d} ELSE {}
(* Seeded bug: the embeddings of a deleted provider stay.                   *)
DeleteProviderOnly(d, o) ==
    Redefault(Without([d EXCEPT !.providers = @ \ {o.provider}],
                      {k \in Keys(d) : d.models[k][1] = o.provider}))
DeleteProvider(d, o) ==
    Redefault(Without([d EXCEPT !.providers = @ \ {o.provider},
                                !.emb = IF @ # None /\ @[1] = o.provider THEN None ELSE @],
                      {k \in Keys(d) : d.models[k][1] = o.provider}))
CreateModel(d, o) ==
    IF o.provider \notin d.providers THEN {}
    ELSE {[WithModel(d, o.provider, o.name) EXCEPT !.default = IF @ = None THEN UniqueKey(d, o.name) ELSE @]}
CreateEmbedding(d, o) ==
    IF o.provider \notin d.providers \/ o.name \notin Embeddings THEN {} ELSE {WithModel(d, o.provider, o.name)}
UpdateModel(d, o) == IF Found(d, o.provider, o.name) = {} THEN {} ELSE {d}
DeleteModel(d, o) ==
    IF Found(d, o.provider, o.name) = {} THEN {d}
    ELSE UNION {Redefault(Without([d EXCEPT !.emb = IF @ = <<o.provider, o.name>> THEN None ELSE @], {k})) :
                    k \in Found(d, o.provider, o.name)}
SetEmbeddings(d, o) ==
    IF o.provider \notin d.providers \/ o.name \notin Embeddings THEN {} ELSE {[d EXCEPT !.emb = <<o.provider, o.name>>]}
\* resolveExistingSettingsModelKey: a key, or the name of an entry.
SetDefault(d, o) == {[d EXCEPT !.default = k] : k \in {k \in Keys(d) : k[1] = o.name}}
SetForm(d, o) == {[d EXCEPT !.form = o.form]}

Written(d, o) ==
    CASE o.kind = "createProvider"  -> CreateProvider(d, o)
      [] o.kind = "updateProvider"  -> UpdateProvider(d, o)
      [] o.kind = "deleteProvider"  -> DeleteProvider(d, o)
      [] o.kind = "createModel"     -> CreateModel(d, o)
      [] o.kind = "createEmbedding" -> CreateEmbedding(d, o)
      [] o.kind = "updateModel"     -> UpdateModel(d, o)
      [] o.kind = "deleteModel"     -> DeleteModel(d, o)
      [] o.kind = "setEmbeddings"   -> SetEmbeddings(d, o)
      [] o.kind = "setDefault"      -> SetDefault(d, o)
      [] o.kind = "setForm"         -> SetForm(d, o)

Op(kind, p, n) == [kind |-> kind, provider |-> p, name |-> n, form |-> None]
Change(o, f) == [o EXCEPT !.form = f]
Syncs == {"sync", "syncEmbeddings"}
\* The requests a page can make of the catalog.
CatalogOps ==
    {Op(k, p, None) : k \in {"createProvider", "createProviderOnly", "updateProvider", "deleteProvider"} \cup Syncs,
                      p \in Providers}
    \cup {Op(k, p, n) : k \in {"createModel", "updateModel", "deleteModel"}, p \in Providers, n \in ModelNames}
    \cup {Op(k, p, n) : k \in {"createEmbedding", "setEmbeddings"}, p \in Providers, n \in Embeddings}
    \cup {Op("setDefault", None, n) : n \in ModelNames}

Doc0 == [providers |-> {}, models |-> [k \in {} |-> None], default |-> None, emb |-> None, form |-> 0]
Stock(p, m, e) == [Doc0 EXCEPT !.providers = {p}, !.models = [k \in {<<m, 1>>, <<e, 1>>} |-> <<p, k[1]>>],
                               !.default = <<m, 1>>, !.emb = <<p, e>>]
Stocked(p) == {Stock(p, m, e) : m \in Models, e \in Embeddings}
Unused == [at |-> "unused", op |-> None, doc |-> None, by |-> None, live |-> FALSE]

Init ==
    /\ file \in {Doc0} \cup Stocked(CHOOSE p \in Providers : TRUE)
    /\ op = [i \in Slots |-> Unused]
    /\ tab = [mounted |-> FALSE, pending |-> "", shown |-> 0]
    /\ crashes = 0

Free(i) == i \in 1 .. MaxOps /\ op[i].at = "unused" /\ \A j \in 1 .. i - 1 : op[j].at # "unused"
Arrive(i, o, by) == op' = [op EXCEPT ![i] = [at |-> IF o.kind \in Syncs THEN "lookup" ELSE "read",
                                             op |-> o, doc |-> None, by |-> by, live |-> TRUE]]
Go(i, at) == op' = [op EXCEPT ![i].at = at]
Readable == file \notin {Empty, Mixed}
Kind(i) == op[i].op.kind

(***************************************************************************)
(* The handlers.                                                           *)
(***************************************************************************)
\* Another page, or another surface of this one.
Request(i, o) ==
    /\ Free(i) /\ Arrive(i, o, "page") /\ UNCHANGED <<file, tab, crashes>>

\* The synchronisation routes look the provider up in a read of their own.
Lookup(i) ==
    /\ op[i].at = "lookup"
    /\ Go(i, IF Readable /\ op[i].op.provider \in file.providers THEN "read" ELSE "failed")
    /\ UNCHANGED <<file, tab, crashes>>

Read(i) ==
    /\ op[i].at = "read"
    /\ IF ~Readable THEN Go(i, "failed")
       ELSE IF Kind(i) = "get" THEN op' = [op EXCEPT ![i].at = "done", ![i].doc = file]
       ELSE IF Kind(i) \in Syncs THEN op' = [op EXCEPT ![i].at = "fetch", ![i].doc = file]
       ELSE LET o == IF Kind(i) = "createProviderOnly" THEN [op[i].op EXCEPT !.kind = "createProvider"] ELSE op[i].op
            IN \/ Written(file, o) = {} /\ Go(i, "failed")
               \/ \E d \in Written(file, o) : op' = [op EXCEPT ![i].at = "open", ![i].doc = d]
    /\ UNCHANGED <<file, tab, crashes>>

\* fetchProviderModels: the provider answers or not; a synchronisation that
\* fails is answered with its error and the models of the file.
Fetch(i) ==
    /\ op[i].at = "fetch"
    /\ \/ \E names \in SUBSET (IF Kind(i) = "sync" THEN Models ELSE Embeddings) :
              op' = [op EXCEPT ![i].at = "open", ![i].doc = Synced(@, op[i].op.provider, names)]
       \/ Go(i, "list")
    /\ UNCHANGED <<file, tab, crashes>>

\* fs.writeFile opens the file, which empties it, ...
OpenFile(i) ==
    /\ op[i].at = "open" /\ file' = Empty /\ Go(i, "put")
    /\ UNCHANGED <<tab, crashes>>

\* ... and writes from its start: over what another write has put there since.
Put(i) ==
    /\ op[i].at = "put"
    /\ \/ file' = op[i].doc
       \/ file # Empty /\ file' = Mixed
    /\ Go(i, IF Kind(i) \in Syncs THEN "list" ELSE "done")
    /\ UNCHANGED <<tab, crashes>>

\* The answer of a synchronisation: the list, in a read of its own.
List(i) ==
    /\ op[i].at = "list"
    /\ Go(i, IF Readable THEN "done" ELSE "failed")
    /\ UNCHANGED <<file, tab, crashes>>

\* A page that is not our tab has its answer; a provider created without
\* skipSync is synchronised in the background.
Answer(i) ==
    /\ op[i].at \in {"done", "failed"} /\ op[i].by \in {"page", "background"}
    /\ op' = IF Kind(i) = "createProvider" /\ op[i].at = "done"
             THEN [op EXCEPT ![i].at = "over",
                             ![MaxOps + i] = [at |-> "read", op |-> Op("sync", op[i].op.provider, None), doc |-> None,
                                              by |-> "background", live |-> FALSE]]
             ELSE [op EXCEPT ![i].at = "over"]
    /\ UNCHANGED <<file, tab, crashes>>

\* The server stops and starts again: its requests fail, a write may be half done.
Crash ==
    /\ crashes < MaxCrashes /\ crashes' = crashes + 1
    /\ op' = [i \in Slots |-> IF op[i].at \in {"lookup", "read", "fetch", "open", "put", "list"}
                              THEN [op[i] EXCEPT !.at = "failed"] ELSE op[i]]
    /\ UNCHANGED <<file, tab>>

(***************************************************************************)
(* The tab.                                                                *)
(***************************************************************************)
Get == Op("get", None, None)
\* The cleanup of the effect cancels the load it started.
Cancelled == [i \in Slots |-> IF op[i].by = "load" THEN [op[i] EXCEPT !.live = FALSE] ELSE op[i]]
Load(i) == [Cancelled EXCEPT ![i] = [at |-> "read", op |-> Get, doc |-> None, by |-> "load", live |-> TRUE]]

Mount(i) ==
    /\ Free(i) /\ ~tab.mounted
    /\ tab' = [tab EXCEPT !.mounted = TRUE, !.pending = "load"] /\ op' = Load(i)
    /\ UNCHANGED <<file, crashes>>

Unmount ==
    /\ tab.mounted /\ tab' = [tab EXCEPT !.mounted = FALSE] /\ op' = Cancelled
    /\ UNCHANGED <<file, crashes>>

\* The status filter of the selfcheck tab: the effect runs again.
Refilter(i) ==
    /\ Free(i) /\ tab.mounted
    /\ tab' = [tab EXCEPT !.pending = "load"] /\ op' = Load(i)
    /\ UNCHANGED <<file, crashes>>

\* The fields can be edited while a request is under way.
Edit ==
    /\ tab.mounted /\ tab' = [tab EXCEPT !.shown = 1 - @]
    /\ UNCHANGED <<file, op, crashes>>

\* Saving the form, or a change of the catalog from the embedding tab.
Save(i, o) ==
    /\ Free(i) /\ tab.mounted /\ tab.pending = ""
    /\ tab' = [tab EXCEPT !.pending = "save"]
    /\ Arrive(i, Change(o, tab.shown), IF o.kind = "setForm" THEN "save" ELSE "change")
    /\ UNCHANGED <<file, crashes>>

\* A load that was cancelled changes nothing, its pending included.
Loaded(i) ==
    /\ op[i].at \in {"done", "failed"} /\ op[i].by = "load"
    /\ tab' = IF ~op[i].live THEN tab
              ELSE [tab EXCEPT !.pending = "", !.shown = IF op[i].at = "done" THEN op[i].doc.form ELSE @]
    /\ Go(i, "over") /\ UNCHANGED <<file, crashes>>

\* The answer to a save or to the refresh after a change counts wherever the page is.
Saved(i) ==
    /\ op[i].at \in {"done", "failed"} /\ op[i].by \in {"save", "refresh"}
    /\ tab' = [tab EXCEPT !.pending = "", !.shown = IF op[i].at = "done" THEN op[i].doc.form ELSE @]
    /\ Go(i, "over") /\ UNCHANGED <<file, crashes>>

\* A change that succeeded is followed by a refresh, still pending.
Changed(i) ==
    /\ op[i].at \in {"done", "failed"} /\ op[i].by = "change"
    /\ IF op[i].at = "failed" THEN tab' = [tab EXCEPT !.pending = ""] /\ Go(i, "over")
       ELSE /\ op' = [op EXCEPT ![i] = [at |-> "read", op |-> Get, doc |-> None, by |-> "refresh", live |-> TRUE]]
            /\ UNCHANGED tab
    /\ UNCHANGED <<file, crashes>>

EmbeddingOps == {o \in CatalogOps : o.kind \in {"createProviderOnly", "updateProvider", "deleteProvider",
                                                "syncEmbeddings", "createEmbedding", "setEmbeddings"}}

Serve(i) == Lookup(i) \/ Read(i) \/ Fetch(i) \/ OpenFile(i) \/ Put(i) \/ List(i) \/ Answer(i)
Deliver(i) == Loaded(i) \/ Saved(i) \/ Changed(i)

Next ==
    \/ \E i \in Slots : Serve(i) \/ Deliver(i)
    \/ \E i \in 1 .. MaxOps : Mount(i) \/ Refilter(i) \/ Save(i, Op("setForm", None, None))
    \/ \E i \in 1 .. MaxOps, o \in CatalogOps : Request(i, o)
    \/ \E i \in 1 .. MaxOps, o \in EmbeddingOps : Save(i, o)
    \/ Unmount \/ Edit \/ Crash

\* Every request is answered, and its answer handled.
Fairness == \A i \in Slots : WF_vars(Serve(i)) /\ WF_vars(Deliver(i))
Spec == Init /\ [][Next]_vars /\ Fairness

(***************************************************************************)
(* Properties.                                                             *)
(***************************************************************************)
\* However the operations on the catalog interleave and whichever updates are
\* lost, a document that can be read names a default model it has and
\* embeddings of a provider it has (deleteSettingsWebProvider and
\* deleteSettingsWebModel repair both).
References ==
    Readable => /\ file.default # None => file.default \in Keys(file)
                /\ file.emb # None => file.emb[1] \in file.providers

=============================================================================
