---------------------------- MODULE ModelRollout ----------------------------
(***************************************************************************)
(* How a published model reaches the cache nodes: the registry's           *)
(* WatchModels and GetModel RPCs (internal/registry/registry.go), each     *)
(* node's Watcher (internal/registry/watcher.go) and the ModelHolder it    *)
(* installs into (internal/cache/lrb.go).                                  *)
(*                                                                         *)
(* A download goes message by message, since the server reads the metadata *)
(* file, sends it, and only then opens the model file and sends its blocks.*)
(*                                                                         *)
(* A watch stream is a server goroutine that polls the store and a FIFO of *)
(* events on their way to the node. A stream that breaks, because the      *)
(* network or the registry failed, loses a suffix of those events; the     *)
(* node learns of the break when it has received the rest, and reconnects  *)
(* after a backoff with the version it has installed.                      *)
(***************************************************************************)
EXTENDS Registry

CONSTANTS
    Nodes,          \* cache nodes
    Boundary,       \* MODEL_BOUNDARY of the nodes
    Unloadable      \* versions refused after the download (parse, feature count)

ASSUME RolloutAssumption ==
    /\ Boundary \in Nat \ {0} /\ Unloadable \subseteq Versions

VARIABLES
    stream,       \* node -> [st, seen, wait, events]: its watch stream
    fetching,     \* node -> [st, version, rx]: the download of its Watcher
    installed,    \* node -> [version, body] in its ModelHolder, version 0 for none
    refused       \* history, node -> versions it logged as refused

nodeVars == <<stream, fetching, installed, refused>>
vars == <<storeVars, nodeVars>>

\* Watcher.compatible: the supported format and this node's boundary.
Compatible(meta) == meta.complete /\ meta.boundary = Boundary

\* In Recv: nothing is being downloaded.
NoFetch == [st |-> "none", version |-> 0, rx |-> Start]
NoModel == [version |-> 0, body |-> <<>>]

\* wait is the channel the server goroutine blocks on, -1 while it polls.
Down == [st |-> "down", seen |-> 0, wait |-> -1, events |-> <<>>]

Init ==
    /\ StoreInit
    /\ stream = [n \in Nodes |-> Down]
    /\ fetching = [n \in Nodes |-> NoFetch]
    /\ installed = [n \in Nodes |-> NoModel]
    /\ refused = [n \in Nodes |-> {}]

-----------------------------------------------------------------------------
(* The registry's side of a stream.                                        *)

\* Mutant: a reconnecting node is served from the beginning.
ConnectFromStart(n) ==
    /\ up /\ stream[n].st = "down"
    /\ stream' = [stream EXCEPT ![n] =
                    [st |-> "open", seen |-> 0, wait |-> -1, events |-> <<>>]]
    /\ UNCHANGED <<storeVars, fetching, installed, refused>>

\* Watcher.watch opens a stream, since the version it has installed.
Connect(n) ==
    /\ up /\ stream[n].st = "down"
    /\ stream' = [stream EXCEPT ![n] =
                    [st |-> "open", seen |-> installed[n].version, wait |-> -1, events |-> <<>>]]
    /\ UNCHANGED <<storeVars, fetching, installed, refused>>

\* One turn of WatchModels: snapshot reads latest and changed together; a newer
\* latest is sent, otherwise the goroutine waits on the channel it read.
ServerPoll(n) ==
    /\ up /\ stream[n].st = "open" /\ stream[n].wait = -1
    /\ stream' = [stream EXCEPT ![n] =
                    IF latest.version > @.seen
                    THEN [st |-> "open", seen |-> latest.version, wait |-> -1,
                          events |-> Append(stream[n].events, latest)]
                    ELSE [@ EXCEPT !.wait = changed]]
    /\ UNCHANGED <<storeVars, fetching, installed, refused>>

\* The channel it waits on was closed.
ServerWake(n) ==
    /\ up /\ stream[n].st = "open" /\ stream[n].wait # -1
    /\ stream[n].wait # changed
    /\ stream' = [stream EXCEPT ![n].wait = -1]
    /\ UNCHANGED <<storeVars, fetching, installed, refused>>

\* A stream that breaks keeps a prefix of the events that were under way.
Broken(s, k) == [st |-> "broken", seen |-> 0, wait |-> -1, events |-> SubSeq(s.events, 1, k)]

StreamBreak(n) ==
    /\ Fault(1) /\ stream[n].st = "open"
    /\ \E k \in 0..Len(stream[n].events) :
          stream' = [stream EXCEPT ![n] = Broken(@, k)]
    /\ UNCHANGED <<disk, mem, lock, pub, fetching, installed, refused>>

\* A registry that dies breaks every stream and download. A stream holds each version at most
\* once, so kept can name every prefix that may still reach its node.
RegistryCrash ==
    /\ Crash \/ \E v \in Versions : PowerFailure(v)
    /\ \E kept \in [Nodes -> 0..Cardinality(Versions)] :
          /\ \A n \in Nodes : kept[n] <= Len(stream[n].events)
          /\ stream' = [n \in Nodes |->
                IF stream[n].st = "open" THEN Broken(stream[n], kept[n]) ELSE stream[n]]
    /\ fetching' = [n \in Nodes |->
          IF fetching[n].st = "body" THEN [fetching[n] EXCEPT !.st = "cut"] ELSE fetching[n]]
    /\ UNCHANGED <<installed, refused>>

-----------------------------------------------------------------------------
(* The node's side: Watcher.watch and Watcher.install.                     *)

Receiving(n) == fetching[n].st = "none" /\ stream[n].st # "down"

\* watch logs the version as refused and goes back to Recv.
Refuses(n, v) ==
    /\ refused' = [refused EXCEPT ![n] = @ \cup {v}]
    /\ fetching' = [fetching EXCEPT ![n] = NoFetch]
    /\ UNCHANGED installed

\* An event arrives. Metadata that is not compatible is refused at once;
\* otherwise the model is asked for.
RecvEvent(n) ==
    LET event == Head(stream[n].events)
    IN  /\ Receiving(n) /\ stream[n].events # <<>>
        /\ stream' = [stream EXCEPT ![n].events = Tail(@)]
        /\ IF ~Compatible(event)
           THEN Refuses(n, event.version)
           ELSE /\ fetching' = [fetching EXCEPT ![n] =
                                  [st |-> "ask", version |-> event.version, rx |-> Start]]
                /\ UNCHANGED <<installed, refused>>
        /\ UNCHANGED <<storeVars>>

\* Recv fails: watch returns, and Run reconnects after the backoff.
RecvError(n) ==
    /\ Receiving(n) /\ stream[n].st = "broken" /\ stream[n].events = <<>>
    /\ stream' = [stream EXCEPT ![n] = Down]
    /\ UNCHANGED <<storeVars, fetching, installed, refused>>

\* GetModel reads the version's metadata and sends it, or answers NotFound, or
\* Internal when it cannot be read.
FetchMeta(n) ==
    LET v == fetching[n].version
    IN  /\ up /\ fetching[n].st = "ask"
        /\ IF metas[v] \in {None, Unreadable}
           THEN Refuses(n, v)
           ELSE /\ fetching' = [fetching EXCEPT ![n] =
                      [st |-> "body", version |-> v,
                       rx |-> ReceiveOne(fetching[n].rx, MetaMsg(metas[v]))]]
                /\ UNCHANGED <<installed, refused>>
        /\ UNCHANGED <<storeVars, stream>>

\* GetModel reads the next block of the model file and sends it. A stream that
\* receive has given up is cancelled.
FetchChunk(n) ==
    LET file == models[fetching[n].version]
        rx == fetching[n].rx
    IN  /\ up /\ fetching[n].st = "body"
        /\ rx.st = "some" /\ file # None /\ Len(rx.body) < Len(file)
        /\ fetching' = [fetching EXCEPT
               ![n].rx = ReceiveOne(rx, ChunkMsg(<<file[Len(rx.body) + 1]>>))]
        /\ UNCHANGED <<storeVars, stream, installed, refused>>

\* The model file has ended, could not be opened, or receive returned early.
\* The served metadata is checked again, model.Load and ModelHolder.Store refuse
\* what they cannot use, and the rest is installed under the version served.
FetchEnd(n) ==
    LET file == models[fetching[n].version]
        rx == fetching[n].rx
        end == ReceiveEnd(IF file = None THEN ReceiveOne(rx, ErrorMsg) ELSE rx)
    IN  /\ up /\ fetching[n].st = "body"
        /\ rx.st = "some" /\ file # None => Len(rx.body) = Len(file)
        /\ IF end.st = "whole" /\ Compatible(end.meta) /\ end.meta.version \notin Unloadable
           THEN /\ installed' = [installed EXCEPT ![n] =
                                   [version |-> end.meta.version, body |-> end.body]]
                /\ fetching' = [fetching EXCEPT ![n] = NoFetch]
                /\ UNCHANGED refused
           ELSE Refuses(n, fetching[n].version)
        /\ UNCHANGED <<storeVars, stream>>

\* The download fails, because the registry is down or died meanwhile. It is
\* logged as a refused model and the watch loop goes on.
FetchFail(n) ==
    /\ \/ fetching[n].st = "cut"
       \/ fetching[n].st = "ask" /\ ~up
    /\ Refuses(n, fetching[n].version)
    /\ UNCHANGED <<storeVars, stream>>

\* The same when the transport fails, or when fetchTimeout has passed.
FetchTimeout(n) ==
    /\ Fault(1) /\ fetching[n].st # "none"
    /\ Refuses(n, fetching[n].version)
    /\ UNCHANGED <<disk, mem, lock, pub, stream>>

\* The node restarts: it has no model until the registry sends one.
NodeRestart(n) ==
    /\ Fault(1)
    /\ stream' = [stream EXCEPT ![n] = Down]
    /\ fetching' = [fetching EXCEPT ![n] = NoFetch]
    /\ installed' = [installed EXCEPT ![n] = NoModel]
    /\ refused' = [refused EXCEPT ![n] = {}]
    /\ UNCHANGED <<disk, mem, lock, pub>>

-----------------------------------------------------------------------------
RegistryStep ==
    /\ \/ \E p \in Publishers :
             \/ PublishRefused(p) \/ \E rx \in Accepted : PublishReceived(p, rx)
             \/ PublishStat(p) \/ PublishModelFile(p)
             \/ PublishMetaFile(p) \/ PublishVisible(p) \/ PublishIOError(p)
       \/ Restart \/ RestartFails
    /\ UNCHANGED nodeVars

\* The goroutine of WatchModels that serves a node.
ServerLoop(n) == ServerPoll(n) \/ ServerWake(n)

\* The goroutine of Watcher.Run, failures of the network left out.
WatchLoop(n) ==
    \/ Connect(n) \/ RecvEvent(n) \/ RecvError(n)
    \/ FetchMeta(n) \/ FetchChunk(n) \/ FetchEnd(n) \/ FetchFail(n)

NodeStep(n) == ServerLoop(n) \/ WatchLoop(n) \/ FetchTimeout(n) \/ StreamBreak(n) \/ NodeRestart(n)

Next == RegistryStep \/ RegistryCrash \/ \E n \in Nodes : NodeStep(n)

\* A node keeps running its watch loop and reconnecting, a registry that died is
\* started again, if it starts, its goroutines are scheduled and a publish under way finishes. No
\* fairness for new publishes, faults or restarts of a node.
Fairness ==
    /\ WF_vars(Restart /\ UNCHANGED nodeVars)
    /\ \A p \in Publishers : WF_vars(PublishStep(p) /\ UNCHANGED nodeVars)
    /\ \A n \in Nodes : WF_vars(ServerLoop(n)) /\ WF_vars(WatchLoop(n))

Spec == Init /\ [][Next]_vars
FairSpec == Spec /\ Fairness

-----------------------------------------------------------------------------
(* Properties.                                                             *)

\* A node evicts only with a whole model that some trainer published, that was
\* trained for its boundary and that it could load: not one that a power failure
\* of the registry cut short, not one whose upload broke off, and not one
\* assembled from the files of two publishes.
InstalledUsable ==
    \A n \in Nodes : LET i == installed[n] IN
        i.version # 0 =>
            /\ i.body \in Bodies /\ i.version \in Versions \ Unloadable
            /\ i.version \notin lost => metas[i.version] = Meta(i.version, i.body, Boundary)

\* A node only ever downloads a model newer than the one it runs, so its model
\* never goes back and "a reconnect does not re-download it" (watcher.go:92),
\* through reconnects, registry restarts, rollbacks that a power failure caused
\* and publishes that finish out of order.
OnlyNewerFetched ==
    \A n \in Nodes : fetching[n].st # "none" => fetching[n].version > installed[n].version

\* Once publishes and faults have stopped, the registry is up and every node runs
\* the latest model or has logged why not: no wakeup of the watch goroutine is lost,
\* no event dropped with a broken stream stays lost, and no download hangs. The
\* exception is a power failure that left the newest metadata unreadable: then the
\* registry never comes up again, and the nodes run what they have.
ConvergesOrLogs ==
    <>[](\/ Newest = Unreadable
         \/ /\ up
            /\ \A n \in Nodes :
                  latest.version <= installed[n].version \/ latest.version \in refused[n])
=============================================================================
