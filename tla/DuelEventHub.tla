------------------------------ MODULE DuelEventHub ------------------------------
(* Duel events on their way to the plugins of one room:                         *)
(*   src/src/shared/room/domain/duel-events/DuelEventDispatcher.ts,             *)
(*   src/src/shared/room/domain/duel-events/DuelEventPluginHub.ts, and the      *)
(*   registration side of src/src/bootstrap/bootstrapPlugins.ts.                *)
(* Every room state is a new attachment with a dispatcher of its own, so the    *)
(* dueling state of the next duel starts the plugins afresh.                    *)
EXTENDS Naturals, Sequences, SequencesExt, FiniteSets

CONSTANTS
  Plugins,
  Kinds,           \* event kinds (DuelEvents.ts)
  Subscriptions,   \* <<plugin, kind>>, in the order the plugins subscribed
  MaxQueue,        \* DuelEventPluginHubOptions.maxQueue
  MaxViolations,   \* DuelEventPluginHubOptions.maxViolations
  MaxAttachments,  \* bound: states of the room
  MaxEvents        \* bound: events of the room

ASSUME HubBounds ==
  /\ Subscriptions \in Seq(Plugins \X Kinds)
  /\ MaxQueue \in Nat \ {0} /\ MaxViolations \in Nat \ {0}
  /\ MaxAttachments \in Nat /\ MaxEvents \in Nat

Consumers == (1..MaxAttachments) \X Plugins

VARIABLES
  attached,    \* room states attached so far
  dispatched,  \* events dispatched so far; the n-th one is n
  queue, draining, violations, disconnected,  \* PluginDeliveryState, per consumer
  handling,    \* the event whose handler is awaited, as a sequence of at most one
  addressed,   \* history: events dispatched to a consumer while it was connected
  handled      \* history: events its handler was called with

hubVars == <<attached, dispatched, queue, draining, violations, disconnected,
             handling, addressed, handled>>

HubTypeOK ==
  /\ attached \in 0..MaxAttachments /\ dispatched \in 0..MaxEvents
  /\ queue \in [Consumers -> Seq(1..MaxEvents)]
  /\ \A c \in Consumers : Len(queue[c]) <= MaxQueue
  /\ draining \in [Consumers -> BOOLEAN]
  /\ violations \in [Consumers -> 0..MaxViolations]
  /\ disconnected \in [Consumers -> BOOLEAN]
  /\ handling \in [Consumers -> Seq(1..MaxEvents)]
  /\ \A c \in Consumers : Len(handling[c]) <= 1
  /\ addressed \in [Consumers -> Seq(1..MaxEvents)]
  /\ handled \in [Consumers -> Seq(1..MaxEvents)]

HubInit ==
  /\ attached = 0 /\ dispatched = 0
  /\ queue = [c \in Consumers |-> <<>>] /\ handling = [c \in Consumers |-> <<>>]
  /\ draining = [c \in Consumers |-> FALSE]
  /\ violations = [c \in Consumers |-> 0]
  /\ disconnected = [c \in Consumers |-> FALSE]
  /\ addressed = [c \in Consumers |-> <<>>] /\ handled = [c \in Consumers |-> <<>>]

--------------------------------------------------------------------------------
(* A state of the room is built and attached to the hub.                        *)
AttachState ==
  /\ attached < MaxAttachments
  /\ attached' = attached + 1
  /\ UNCHANGED <<dispatched, queue, draining, violations, disconnected, handling,
                 addressed, handled>>

Copies(plugin, kind) ==
  Cardinality({i \in DOMAIN Subscriptions : Subscriptions[i] = <<plugin, kind>>})

(* enqueue, once per subscription of the plugin to that kind: an event that     *)
(* does not fit disconnects the plugin.                                         *)
Fits(c, kind) == Copies(c[2], kind) <= MaxQueue - Len(queue[c])

Events(c, kind) == [i \in 1..Copies(c[2], kind) |-> dispatched + 1]

(* Dispatch runs every handler of the kind, in the frame of the duel; all that  *)
(* a plugin's handler does there is to enqueue.                                 *)
Dispatch(a, kind) ==
  LET hears(c) == c[1] = a /\ ~disconnected[c]
  IN /\ a <= attached /\ dispatched < MaxEvents
     /\ dispatched' = dispatched + 1
     /\ addressed' = [c \in Consumers |->
          IF hears(c) THEN addressed[c] \o Events(c, kind) ELSE addressed[c]]
     /\ queue' = [c \in Consumers |->
          CASE hears(c) /\ Fits(c, kind)  -> queue[c] \o Events(c, kind)
            [] hears(c) /\ ~Fits(c, kind) -> <<>>
            [] OTHER                      -> queue[c]]
     /\ disconnected' = [c \in Consumers |->
          disconnected[c] \/ (hears(c) /\ ~Fits(c, kind))]
     /\ draining' = [c \in Consumers |->
          draining[c] \/ (hears(c) /\ Events(c, kind) # <<>> /\ Len(queue[c]) < MaxQueue)]
     /\ UNCHANGED <<attached, violations, handling, handled>>

(* One turn of drain's loop: the next event is handed to its handler, or the    *)
(* loop ends.  `cut` is whether the plugin is disconnected by then.             *)
TakeNext(c, cut) ==
  IF queue[c] # <<>> /\ ~cut
  THEN /\ handling' = [handling EXCEPT ![c] = <<Head(queue[c])>>]
       /\ handled' = [handled EXCEPT ![c] = Append(@, Head(queue[c]))]
       /\ queue' = [queue EXCEPT ![c] = Tail(@)]
       /\ UNCHANGED draining
  ELSE /\ handling' = [handling EXCEPT ![c] = <<>>]
       /\ queue' = [queue EXCEPT ![c] = IF cut THEN <<>> ELSE @]
       /\ draining' = [draining EXCEPT ![c] = FALSE]
       /\ UNCHANGED handled

(* The microtask drain was queued as.                                           *)
DrainStarts(c) ==
  /\ draining[c] /\ handling[c] = <<>>
  /\ TakeNext(c, disconnected[c])
  /\ UNCHANGED <<attached, dispatched, violations, disconnected, addressed>>

(* Mutant of HandlerReturns: the loop forgets to look at `disconnected`.        *)
HandlerReturns_Deaf(c, slow) ==
  LET cut == slow /\ violations[c] + 1 >= MaxViolations
  IN /\ handling[c] # <<>>
     /\ violations' = [violations EXCEPT ![c] = IF slow THEN @ + 1 ELSE @]
     /\ disconnected' = [disconnected EXCEPT ![c] = @ \/ cut]
     /\ TakeNext(c, FALSE)
     /\ UNCHANGED <<attached, dispatched, addressed>>

(* The awaited handler settles, or throws: its error is logged and it is timed  *)
(* all the same.  The MaxViolations-th slow one disconnects the plugin.         *)
HandlerReturns(c, slow) ==
  LET cut == slow /\ violations[c] + 1 >= MaxViolations
  IN /\ handling[c] # <<>>
     /\ violations' = [violations EXCEPT ![c] = IF slow THEN @ + 1 ELSE @]
     /\ disconnected' = [disconnected EXCEPT ![c] = @ \/ cut]
     /\ TakeNext(c, disconnected[c] \/ cut)
     /\ UNCHANGED <<attached, dispatched, addressed>>

HubNext ==
  \/ AttachState
  \/ \E a \in 1..MaxAttachments, kind \in Kinds : Dispatch(a, kind)
  \/ \E c \in Consumers : DrainStarts(c) \/ \E slow \in BOOLEAN : HandlerReturns(c, slow)

(* Microtasks run.  That a handler returns is the plugin's part: nothing but a  *)
(* full queue ends the wait for one that does not.                              *)
HubFair == \A c \in Consumers :
  /\ WF_hubVars(DrainStarts(c))
  /\ WF_hubVars(\E slow \in BOOLEAN : HandlerReturns(c, slow))

HubSpec == HubInit /\ [][HubNext]_hubVars /\ HubFair

--------------------------------------------------------------------------------
(* What a plugin sees of one room state is a prefix of the events dispatched    *)
(* there, in order, without a gap or a repeat, and nothing once it has been     *)
(* disconnected: all or nothing, as the hub's header has it.                    *)
EventFeeds == INSTANCE OrderedFeed
  WITH Feeds <- Consumers, sent <- addressed, got <- handled,
       open <- {c \in Consumers : c[1] <= attached /\ ~disconnected[c]}

HubIsOrderedFeed == EventFeeds!Spec

(* As long as its handlers return, a plugin that stays connected receives every *)
(* event addressed to it.                                                       *)
EveryEventHandled ==
  \A c \in Consumers :
    (handled[c] # addressed[c]) ~> (handled[c] = addressed[c] \/ disconnected[c])
================================================================================
