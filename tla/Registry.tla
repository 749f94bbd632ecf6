------------------------------ MODULE Registry ------------------------------
(***************************************************************************)
(* The model registry's store, its PublishModel RPC and its ListModels     *)
(* RPC (internal/registry/registry.go): a directory of immutable versions, *)
(* a latest pointer in memory, and a changed channel that each new latest  *)
(* closes and replaces.                                                    *)
(*                                                                         *)
(* An upload is received and checked in one step, since until then it      *)
(* touches nothing shared. A publish then takes four steps that a crash, a *)
(* failing disk or another request can fall between: stat the metadata     *)
(* file, rename the model into place, rename the metadata into place, and  *)
(* move latest. A rename is atomic, so to the running machine a file is    *)
(* absent or whole; nothing is synced, so a power failure may lose the     *)
(* bytes or the name of a file that was already renamed, and a store whose *)
(* newest metadata it made unreadable does not open any more.              *)
(***************************************************************************)
EXTENDS ModelStream

CONSTANTS
    Publishers,   \* concurrent PublishModel handlers
    Bodies,       \* whole model files
    Uploads,      \* what trainers send: sequences of messages
    None,         \* no file, no lock holder
    Unreadable,   \* what a metadata file that does not decode decodes to
    MaxFaults     \* bound on failures of every kind together, for TLC

ASSUME RegistryAssumption ==
    /\ None \notin Bodies /\ None \notin Publishers
    /\ MaxFaults \in Nat

\* What a metadata message or file may hold. Whoever announces a digest that a
\* body can have took it from a whole model; a digest may be missing, or be that of
\* nothing, and every other field is as the sender likes.
MetaRecords ==
    [version : Nat, sum : {<<>>, Sum(<<>>)} \cup {Sum(b) : b \in Bodies},
     size : Nat, boundary : Nat, complete : BOOLEAN]

ASSUME UploadsAssumption ==
    /\ None \notin MetaRecords /\ Unreadable \notin MetaRecords \cup {None}
    /\ \A u \in Uploads :
          /\ DOMAIN u = 1..Len(u) /\ Len(u) \in Nat
          /\ \A i \in 1..Len(u) :
                /\ u[i].kind \in {"meta", "chunk", "empty", "error"}
                /\ u[i].kind = "meta" => u[i].meta \in MetaRecords

VARIABLES
    models,     \* on disk: version -> its .model file
    metas,      \* on disk: version -> what its .meta file decodes to
    lost,       \* history: published versions whose files a power failure damaged
    up,         \* whether the registry process runs
    latest,     \* store.latest
    changed,    \* identity of the channel in store.changed
    lock,       \* holder of store.publishing
    pub,        \* the publish each handler is running
    faults      \* how many failures there were

disk == <<models, metas, lost>>
mem == <<up, latest, changed>>
storeVars == <<disk, mem, lock, pub, faults>>

Idle == [pc |-> "idle", meta |-> Blank, body |-> <<>>]

\* store.versions: a version exists once its metadata does.
Published == {v \in Versions : metas[v] # None}

\* How many of some versions are newer than one of them.
NewerThan(S, v) == Cardinality({w \in S : w > v})

\* The newest first, as ListModels reverses store.versions; a limit of 0 or one
\* past the end lists everything, less what cannot be read.
ListModels(limit) ==
    LET all == Cardinality(Published)
        n == IF limit = 0 \/ limit > all THEN all ELSE limit
        shown == {v \in Published : NewerThan(Published, v) < n /\ metas[v] # Unreadable}
    IN  [i \in 1..Cardinality(shown) |-> metas[CHOOSE v \in shown : NewerThan(shown, v) = i - 1]]

\* newStore's choice: the metadata of the last of store.versions, or nil.
Newest == IF Published = {} THEN Blank ELSE metas[Max(Published)]

\* Something fails, k of the failures that a behaviour may contain.
Fault(k) == faults + k <= MaxFaults /\ faults' = faults + k

StoreInit ==
    /\ models = [v \in Versions |-> None]
    /\ metas = [v \in Versions |-> None]
    /\ lost = {}
    /\ up = TRUE /\ latest = Blank /\ changed = 0
    /\ lock = None
    /\ pub = [p \in Publishers |-> Idle]
    /\ faults = 0

-----------------------------------------------------------------------------
(* PublishModel.                                                           *)

\* What receive makes of the uploads, and those of them that validate accepts.
Received == {Receive(u) : u \in Uploads}
Accepted == {rx \in Received : rx.st = "whole" /\ Validate(rx.meta, rx.body)}

\* The upload broke off, is malformed or is refused: nothing is touched.
PublishRefused(p) ==
    /\ up /\ pub[p].pc = "idle" /\ Received # Accepted
    /\ UNCHANGED storeVars

\* A good upload has arrived and waits for the publishing mutex.
PublishReceived(p, rx) ==
    /\ up /\ pub[p].pc = "idle"
    /\ pub' = [pub EXCEPT ![p] = [pc |-> "queued", meta |-> rx.meta, body |-> rx.body]]
    /\ UNCHANGED <<disk, mem, lock, faults>>

\* Mutant: the existence check is made before the mutex is taken, so it is stale.
PublishStatUnlocked(p) ==
    /\ pub[p].pc = "queued"
    /\ pub' = [pub EXCEPT ![p] =
                 IF metas[@.meta.version] # None THEN Idle ELSE [@ EXCEPT !.pc = "model"]]
    /\ UNCHANGED <<disk, mem, lock, faults>>

\* Lock, then stat: a version that has metadata is refused with AlreadyExists.
PublishStat(p) ==
    /\ pub[p].pc = "queued" /\ lock = None
    /\ IF metas[pub[p].meta.version] # None
       THEN pub' = [pub EXCEPT ![p] = Idle] /\ UNCHANGED lock
       ELSE pub' = [pub EXCEPT ![p].pc = "model"] /\ lock' = p
    /\ UNCHANGED <<disk, mem, faults>>

\* Mutant: the metadata is renamed into place before the model.
PublishModelFileAfterMeta(p) ==
    /\ pub[p].pc = "model"
    /\ metas' = [metas EXCEPT ![pub[p].meta.version] = pub[p].meta]
    /\ pub' = [pub EXCEPT ![p].pc = "meta"]
    /\ UNCHANGED <<models, lost, mem, lock, faults>>

\* writeAtomic(modelPath): also over a model that an earlier publish orphaned.
PublishModelFile(p) ==
    /\ pub[p].pc = "model"
    /\ models' = [models EXCEPT ![pub[p].meta.version] = pub[p].body]
    /\ pub' = [pub EXCEPT ![p].pc = "meta"]
    /\ UNCHANGED <<metas, lost, mem, lock, faults>>

PublishMetaFile(p) ==
    /\ pub[p].pc = "meta"
    /\ metas' = [metas EXCEPT ![pub[p].meta.version] = pub[p].meta]
    /\ pub' = [pub EXCEPT ![p].pc = "visible"]
    /\ UNCHANGED <<models, lost, mem, lock, faults>>

\* Mutant: latest follows the publish that finishes last.
PublishVisibleAlways(p) ==
    /\ pub[p].pc = "visible"
    /\ latest' = pub[p].meta /\ changed' = changed + 1
    /\ pub' = [pub EXCEPT ![p] = Idle]
    /\ lock' = None
    /\ UNCHANGED <<disk, up, faults>>

\* Mutant: the watchers' channel is not closed.
PublishVisibleSilently(p) ==
    /\ pub[p].pc = "visible"
    /\ latest' = IF pub[p].meta.version > latest.version THEN pub[p].meta ELSE latest
    /\ pub' = [pub EXCEPT ![p] = Idle]
    /\ lock' = None
    /\ UNCHANGED <<disk, up, changed, faults>>

\* Under store.mu: latest moves, and the channel is closed and replaced, only
\* when the version is newer than latest. Then the RPC answers with success.
PublishVisible(p) ==
    /\ pub[p].pc = "visible"
    /\ IF pub[p].meta.version > latest.version
       THEN latest' = pub[p].meta /\ changed' = changed + 1
       ELSE UNCHANGED <<latest, changed>>
    /\ pub' = [pub EXCEPT ![p] = Idle]
    /\ lock' = None
    /\ UNCHANGED <<disk, up, faults>>

\* The stat, or either file write, fails: the handler answers Internal.
PublishIOError(p) ==
    /\ Fault(1)
    /\ \/ pub[p].pc \in {"model", "meta"}
       \/ pub[p].pc = "queued" /\ lock = None
    /\ pub' = [pub EXCEPT ![p] = Idle]
    /\ lock' = None
    /\ UNCHANGED <<disk, mem>>

-----------------------------------------------------------------------------
\* Memory, locks and requests are gone.
Dies ==
    /\ up
    /\ up' = FALSE /\ latest' = Blank
    /\ lock' = None
    /\ pub' = [p \in Publishers |-> Idle]
    /\ UNCHANGED changed

\* The process dies, the directory stays.
Crash == Fault(1) /\ Dies /\ UNCHANGED disk

\* What is left of a metadata file that was cut short: unreadable if the cut is in a
\* field, else the record of its first fields, in the order in which they are encoded.
\* The empty file is Blank.
FirstFields(meta, i) ==
    [version |-> IF i >= 1 THEN meta.version ELSE 0, size |-> IF i >= 2 THEN meta.size ELSE 0,
     sum |-> IF i >= 3 THEN meta.sum ELSE <<>>, complete |-> i >= 4, boundary |-> 0]
CutShort(meta) == {Unreadable} \cup {FirstFields(meta, i) : i \in 0..4}

\* The machine loses power. writeAtomic did not sync: a published model, or its
\* metadata, may be cut short or gone. It counts as two failures.
PowerFailure(v) ==
    /\ Fault(2) /\ Dies
    /\ v \in Published \ lost
    /\ lost' = lost \cup {v}
    /\ \/ /\ \/ models' = [models EXCEPT ![v] = None]
             \/ \E k \in 0..(metas[v].size - 1) :
                   models' = [models EXCEPT ![v] = SubSeq(@, 1, k)]
          /\ UNCHANGED metas
       \/ /\ \E left \in {None} \cup CutShort(metas[v]) : metas' = [metas EXCEPT ![v] = left]
          /\ UNCHANGED models

\* newStore adopts the newest version on disk, which may be one whose publish
\* was cut off before it became visible.
Restart ==
    /\ ~up /\ Newest # Unreadable
    /\ up' = TRUE /\ latest' = Newest
    /\ UNCHANGED <<disk, changed, lock, pub, faults>>

\* newStore cannot read the newest version's metadata: the process exits, each time
\* it is started.
RestartFails ==
    /\ ~up /\ Newest = Unreadable
    /\ UNCHANGED storeVars

PublishStep(p) ==
    \/ PublishStat(p) \/ PublishModelFile(p) \/ PublishMetaFile(p) \/ PublishVisible(p)

-----------------------------------------------------------------------------
(* Properties.                                                             *)

\* "A reader can never find a version whose bytes are still arriving": unless a
\* power failure damaged it, metadata on disk always describes the model file
\* beside it, whole and with the digest it announces, whatever uploads arrive
\* and wherever a publish is cut off.
ModelBeforeMeta ==
    \A v \in Published \ lost :
        models[v] \in Bodies /\ metas[v] = Meta(v, models[v], metas[v].boundary)

\* A restart "does not silently roll the cluster back", nor does a publish that
\* finishes out of order: while power holds, what nodes are told is the latest
\* is the first model that ListModels names, except while a publish is between
\* its metadata file and the move of latest.
NoRollback ==
    lost = {} /\ up /\ (\A p \in Publishers : pub[p].pc # "visible")
        => <<latest>> = IF Published = {} THEN <<Blank>> ELSE ListModels(1)

\* A published version never changes, not even its file on disk: a node that is
\* downloading it cannot be handed a mix of two models. Power failures aside.
PublishedImmutable ==
    [][\A v \in Published \ lost' : models'[v] = models[v] /\ metas'[v] = metas[v]]_storeVars
=============================================================================
