---- MODULE Discovery ----
(***************************************************************************)
(* How a program learns who is there: the Avahi callbacks, the queues they *)
(* fill (discovery_avahi.c, discovery.c) and the main loop that empties    *)
(* them into the lobby (app_poll_discovery_and_update_lobby).              *)
(*                                                                         *)
(* Services are resolved one at a time: one that is found meanwhile waits  *)
(* in a queue, the answer waits in pending_peer, removals in a queue of    *)
(* their own.  All of it runs in one thread; the network and the daemon    *)
(* may act between any two callbacks.  A service is named after the        *)
(* program that advertises it, which may do so on several interfaces; the  *)
(* program's own service, which it skips, is left out.                     *)
(***************************************************************************)
EXTENDS Naturals, FiniteSets, SequencesExt

CONSTANTS Program,
          None,         \* no program
          Announcement, \* pairs <<program, interface>> a browser may report
          MaxQueue,     \* CHESS_AVAHI_PENDING_MAX
          MaxRemovals,  \* CHESS_DISCOVERY_REMOVAL_QUEUE_MAX
          MaxListed,    \* CHESS_MAX_DISCOVERED_PEERS
          MaxChanges    \* bound on what happens outside: announcements, restarts

ASSUME DiscoveryAssumption ==
  /\ None \notin Program /\ \A r \in Announcement : r[1] \in Program
  /\ {MaxQueue, MaxRemovals, MaxListed, MaxChanges} \subseteq Nat

VARIABLES
  advertised, \* what is announced on the network
  heard,      \* what the browser has reported as new and not as removed
  queue,      \* pending_queue: services found and not yet being resolved
  resolving,  \* the service being resolved, or None
  resolvers,  \* resolvers in flight for each program, those given up included
  ready,      \* pending_peer, or None
  removals,   \* removal_queue
  lobby,      \* the programs listed
  started,    \* discovery runs: not during a game
  lost,       \* history: programs whose announcement came to nothing, and why not
  unsure,     \* history: programs whose removal the lobby cannot have seen
  changes

vars == <<advertised, heard, queue, resolving, resolvers, ready, removals, lobby,
          started, lost, unsure, changes>>
pipeline == <<queue, resolving, resolvers, ready>>

InQueue(p) == Contains(queue, p)
OnItsWay(p) == InQueue(p) \/ resolving = p \/ ready = p \/ resolvers[p] > 0
HeardOf(p) == \E r \in heard : r[1] = p

TypeOK ==
  /\ advertised \subseteq Announcement /\ heard \subseteq Announcement
  /\ queue \in Seq(Program) /\ Len(queue) <= MaxQueue /\ IsInjective(queue)
  /\ resolving \in Program \cup {None} /\ ready \in Program \cup {None}
  /\ resolvers \in [Program -> Nat]
  /\ removals \in Seq(Program) /\ Len(removals) <= MaxRemovals
  /\ lobby \subseteq Program /\ Cardinality(lobby) <= MaxListed
  /\ started \in BOOLEAN /\ lost \subseteq Program /\ unsure \subseteq Program
  /\ changes \in 0 .. MaxChanges

Stopped ==
  /\ heard' = {} /\ queue' = <<>> /\ resolving' = None /\ ready' = None
  /\ resolvers' = [p \in Program |-> 0] /\ removals' = <<>> /\ lost' = {}

Init ==
  /\ advertised = {} /\ heard = {} /\ queue = <<>> /\ resolving = None
  /\ ready = None /\ resolvers = [p \in Program |-> 0] /\ removals = <<>>
  /\ lobby = {} /\ started = TRUE /\ lost = {} /\ unsure = {} /\ changes = 0

-----------------------------------------------------------------------------
(* The network                                                               *)

Change == changes < MaxChanges /\ changes' = changes + 1

Advertise(r) ==
  /\ Change /\ r \in Announcement \ advertised /\ advertised' = advertised \cup {r}
  /\ UNCHANGED <<heard, pipeline, removals, lobby, started, lost, unsure>>

Withdraw(r) ==
  /\ Change /\ r \in advertised /\ advertised' = advertised \ {r}
  /\ UNCHANGED <<heard, pipeline, removals, lobby, started, lost, unsure>>

-----------------------------------------------------------------------------
(* avahi_browse_callback                                                     *)

\* Mutant: a service found while an answer waits is resolved at once.
FreeWhenNotResolving == resolving = None

\* Nothing is being resolved and no answer waits.
Free == ready = None /\ resolving = None

\* Creating the resolver may fail: the service is not tried again.
ResolveNow(p) ==
  \/ /\ resolving' = p /\ ready' = None
     /\ resolvers' = [resolvers EXCEPT ![p] = @ + 1]
     /\ lost' = lost \ {p}
  \/ /\ ready' = None /\ lost' = lost \cup {p}
     /\ UNCHANGED <<resolving, resolvers>>

\* AVAHI_BROWSER_NEW
ServiceNew(r) ==
  LET p == r[1]
  IN  /\ started /\ r \in advertised \ heard
      /\ heard' = heard \cup {r} /\ unsure' = unsure \ {p}
      /\ \/ /\ resolving = p \/ InQueue(p)
            /\ lost' = lost \ {p} /\ UNCHANGED pipeline
         \/ /\ resolving # p /\ ~InQueue(p) /\ ~Free /\ Len(queue) < MaxQueue
            /\ queue' = Append(queue, p) /\ lost' = lost \ {p}
            /\ UNCHANGED <<resolving, resolvers, ready>>
         \/ /\ resolving # p /\ ~InQueue(p) /\ ~Free /\ Len(queue) = MaxQueue
            /\ lost' = lost \cup {p} /\ UNCHANGED pipeline
         \/ /\ resolving # p /\ ~InQueue(p) /\ Free
            /\ ResolveNow(p) /\ UNCHANGED queue
      /\ UNCHANGED <<advertised, removals, lobby, started, changes>>

\* Mutant: a removal is dropped when another one waits.
QueuedRemovalIfFirst(p) == IF removals = <<>> THEN <<p>> ELSE removals

\* Queued once, if there is room.
QueuedRemoval(p) ==
  IF Contains(removals, p) \/ Len(removals) = MaxRemovals THEN removals
  ELSE Append(removals, p)

\* AVAHI_BROWSER_REMOVE, on one interface.  Whatever is still on its way for
\* this program is left alone, and may list it after all.
ServiceRemoved(r) ==
  LET p == r[1]
  IN  /\ started /\ r \in heard \ advertised
      /\ heard' = heard \ {r}
      /\ removals' = QueuedRemoval(p)
      /\ unsure' = IF OnItsWay(p) \/ (~Contains(removals, p) /\ Len(removals) = MaxRemovals)
                   THEN unsure \cup {p} ELSE unsure
      /\ lost' = IF \E s \in heard \ {r} : s[1] = p THEN lost \cup {p} ELSE lost
      /\ UNCHANGED <<advertised, pipeline, lobby, started, changes>>

-----------------------------------------------------------------------------
(* avahi_resolver_callback: the daemon may know a service that is gone.      *)

Answer(p) ==
  /\ started /\ resolvers[p] > 0
  /\ resolvers' = [resolvers EXCEPT ![p] = @ - 1]
  /\ IF ready = None THEN ready' = p /\ UNCHANGED lost
     ELSE lost' = lost \cup {p} /\ UNCHANGED ready
  /\ UNCHANGED <<advertised, heard, queue, resolving, removals, lobby, started,
                 unsure, changes>>

\* The program goes on waiting for the answer until it gives up.
AnswerFailed(p) ==
  /\ started /\ resolvers[p] > 0
  /\ resolvers' = [resolvers EXCEPT ![p] = @ - 1]
  /\ lost' = lost \cup {p}
  /\ UNCHANGED <<advertised, heard, queue, resolving, ready, removals, lobby,
                 started, unsure, changes>>

-----------------------------------------------------------------------------
(* The main loop: app_poll_discovery_and_update_lobby                        *)

\* Mutant: the answer is listed before the removals are looked at.
ListedFirst(found) == (lobby \cup found) \ ToSet(removals)

\* chess_discovery_poll_removal until the queue is empty, then the answer, if
\* there is room for it.
Listed(found) ==
  LET stay == lobby \ ToSet(removals)
  IN  IF Cardinality(stay \cup found) <= MaxListed THEN stay \cup found ELSE stay

\* The next queued service whose resolver can be created; those before it that
\* cannot be are dropped.
StartNext(dropped) ==
  /\ ready' = None
  /\ \E k \in 1 .. Len(queue) + 1 :
       LET failed == ToSet(SubSeq(queue, 1, k - 1))
       IN  /\ lost' = (lost \cup failed) \cup dropped
           /\ IF k > Len(queue)
              THEN queue' = <<>> /\ resolving' = None /\ UNCHANGED resolvers
              ELSE /\ queue' = SubSeq(queue, k + 1, Len(queue))
                   /\ resolving' = queue[k]
                   /\ resolvers' = [resolvers EXCEPT ![queue[k]] = @ + 1]

\* chess_discovery_avahi_check_result has something to do.
MayAdvance == ready # None \/ (resolving = None /\ queue # <<>>)

\* An answer ends the resolve in progress, even if it is a late one's.
Poll ==
  LET found == {ready} \ {None}
      here == Listed(found)
  IN  /\ started /\ (MayAdvance \/ removals # <<>>)
      /\ lobby' = here /\ removals' = <<>>
      /\ IF MayAdvance
         THEN StartNext((({resolving} \ found)
                         \cup (IF Cardinality(here) = MaxListed THEN found ELSE {}))
                        \ (here \cup {None}))
         ELSE UNCHANGED <<pipeline, lost>>
      /\ UNCHANGED <<advertised, heard, started, unsure, changes>>

\* Mutant: the timeout is only looked at when nothing else waits.
MayGiveUpIfAlone == ready = None /\ resolving # None /\ queue = <<>>

\* CHESS_AVAHI_RESOLVE_TIMEOUT_MS may have passed.
MayGiveUp == ready = None /\ resolving # None

\* The resolve is given up, not cancelled.
PollTimedOut ==
  /\ started /\ MayGiveUp
  /\ lobby' = Listed({}) /\ removals' = <<>>
  /\ IF queue # <<>> THEN StartNext({resolving})
     ELSE /\ resolving' = None /\ lost' = lost \cup {resolving}
          /\ UNCHANGED <<queue, resolvers, ready>>
  /\ UNCHANGED <<advertised, heard, started, unsure, changes>>

-----------------------------------------------------------------------------
(* chess_discovery_stop and chess_discovery_start around a game              *)

GameBegins ==
  /\ started /\ lobby # {} /\ started' = FALSE /\ Stopped
  /\ unsure' = lobby
  /\ UNCHANGED <<advertised, lobby, changes>>

\* app_return_to_lobby forgets whom it listed.
ReturnToLobby ==
  /\ Change /\ ~started /\ started' = TRUE /\ Stopped
  /\ lobby' = {} /\ unsure' = {}
  /\ UNCHANGED advertised

\* app_handle_peer_disconnect keeps the others listed; it also restarts
\* discovery when the connection that breaks was only a challenge's.
PeerDisconnects(p) ==
  /\ Change /\ Stopped
  /\ started' = TRUE
  /\ lobby' = IF started THEN lobby ELSE lobby \ {p}
  /\ unsure' = lobby'
  /\ UNCHANGED advertised

Next ==
  \/ \E r \in Announcement :
       Advertise(r) \/ Withdraw(r) \/ ServiceNew(r) \/ ServiceRemoved(r)
  \/ \E p \in Program : Answer(p) \/ AnswerFailed(p) \/ PeerDisconnects(p)
  \/ Poll \/ PollTimedOut \/ GameBegins \/ ReturnToLobby

Spec == Init /\ [][Next]_vars

\* The main loop polls in every frame, and time passes.  The daemon and the
\* network owe nothing.
FairSpec == Spec /\ WF_vars(Poll) /\ WF_vars(PollTimedOut)

-----------------------------------------------------------------------------
(* Properties *)

\* A program the browser has reported is listed or on its way to the lobby
\* unless its announcement came to nothing in one of the ways the code has: the
\* queue or the lobby is full, a resolver fails, an answer comes too late, finds
\* another one waiting or ends another's turn, or the program was removed on one
\* of its interfaces only.
\* No order of callbacks and polls loses it otherwise.
NobodyVanishes ==
  \A p \in Program : HeardOf(p) => p \in lobby \/ OnItsWay(p) \/ p \in lost

\* A program listed and no longer there will be removed, unless its removal came
\* while it was still being resolved, or no removal could be queued, or
\* discovery did not run when it left.
GhostsExplained ==
  \A p \in lobby : HeardOf(p) \/ Contains(removals, p) \/ p \in unsure

\* A queued service gets its turn, however the resolves before it end.
QueueMoves == \A p \in Program : InQueue(p) ~> ~InQueue(p)

\* An answer waits until a poll lists it, whatever else is found meanwhile; only
\* a full lobby or a restart of discovery drops it.
AnswerKept ==
  [][ready # None /\ ready' # ready =>
       \/ ready \in lobby' \/ Cardinality(lobby') = MaxListed
       \/ GameBegins \/ \E p \in Program : PeerDisconnects(p)]_vars
====
