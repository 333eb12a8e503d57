------------------------------ MODULE CoreChannel ------------------------------
(* src/src/edopro/room/domain/CoreChannel.ts: JSON-line commands to the core    *)
(* process of one EDOPro room.  A command is written once; after a write that   *)
(* returns false the rest wait for "drain".  Each duel attaches a new core.     *)
EXTENDS Naturals, Sequences, SequencesExt

CONSTANTS
  CoreCommands, \* what the room may tell its core (RESPONSE, REFRESH_FIELD, ...)
  MaxCores,     \* bound: duels of the room
  MaxCommands   \* bound: commands sent to one core

ASSUME ChannelBounds == MaxCores \in Nat /\ MaxCommands \in Nat

VARIABLES
  core,        \* the attached core, numbered in order; 0 before the first one
  pending,     \* the queue
  isWaitingDrain,
  listeners,   \* cores whose stdin has a "drain" listener
  exited,      \* cores whose process is gone
  written,     \* history: lines the attached core's stdin accepted
  asked        \* history: commands sent since that core was attached

chanVars == <<core, pending, isWaitingDrain, listeners, exited, written, asked>>

ChanTypeOK ==
  /\ core \in 0..MaxCores
  /\ pending \in Seq(CoreCommands) /\ written \in Seq(CoreCommands) /\ asked \in Seq(CoreCommands)
  /\ isWaitingDrain \in BOOLEAN
  /\ listeners \subseteq 1..MaxCores /\ exited \subseteq 1..MaxCores

ChanInit ==
  /\ core = 0 /\ pending = <<>> /\ isWaitingDrain = FALSE
  /\ listeners = {} /\ exited = {}
  /\ written = <<>> /\ asked = <<>>

--------------------------------------------------------------------------------
(* flush: write the queue until a write reports a full pipe.  `queue` is the    *)
(* queue it starts from and `heard` the listeners besides the one it adds.      *)
Flush(queue, heard) ==
  IF core = 0
  THEN /\ pending' = <<>> /\ listeners' = heard
       /\ UNCHANGED <<isWaitingDrain, written>>
  ELSE \E n \in 0..Len(queue), full \in BOOLEAN :
         /\ IF full THEN n > 0 ELSE n = Len(queue)
         /\ written' = written \o SubSeq(queue, 1, n)
         /\ pending' = SubSeq(queue, n + 1, Len(queue))
         /\ isWaitingDrain' = full
         /\ listeners' = IF full THEN heard \cup {core} ELSE heard

(* Mutants of Attach: the last core's queue, or its wait, outlives it.          *)
Attach_KeepsQueue ==
  /\ core < MaxCores
  /\ core' = core + 1 /\ isWaitingDrain' = FALSE
  /\ written' = <<>> /\ asked' = <<>>
  /\ UNCHANGED <<pending, listeners, exited>>

Attach_KeepsWait ==
  /\ core < MaxCores
  /\ core' = core + 1 /\ pending' = <<>>
  /\ written' = <<>> /\ asked' = <<>>
  /\ UNCHANGED <<isWaitingDrain, listeners, exited>>

(* attach: the next duel's core.  Whatever the last one had not read is gone.   *)
Attach ==
  /\ core < MaxCores
  /\ core' = core + 1
  /\ pending' = <<>> /\ isWaitingDrain' = FALSE
  /\ written' = <<>> /\ asked' = <<>>
  /\ UNCHANGED <<listeners, exited>>

Send(command) ==
  /\ Len(asked) < MaxCommands
  /\ asked' = IF core = 0 THEN asked ELSE Append(asked, command)
  /\ IF isWaitingDrain
     THEN /\ pending' = Append(pending, command)
          /\ UNCHANGED <<isWaitingDrain, written, listeners>>
     ELSE Flush(Append(pending, command), listeners)
  /\ UNCHANGED <<core, exited>>

(* Mutant of Drain: whoever drains ends the wait.                               *)
Drain_OfAnyCore(c) ==
  /\ c \in listeners \ exited
  /\ Flush(pending, listeners \ {c})
  /\ UNCHANGED <<core, exited, asked>>

(* The "drain" listener of one core.  The listener of a replaced core is heard  *)
(* too, and must not end the wait of the core that replaced it.                 *)
Drain(c) ==
  /\ c \in listeners \ exited
  /\ IF c # core
     THEN /\ listeners' = listeners \ {c}
          /\ UNCHANGED <<pending, isWaitingDrain, written>>
     ELSE Flush(pending, listeners \ {c})
  /\ UNCHANGED <<core, exited, asked>>

(* The process ends; the room learns of it from the log only.                   *)
CoreExits(c) ==
  /\ c \in 1..core \ exited
  /\ exited' = exited \cup {c}
  /\ UNCHANGED <<core, pending, isWaitingDrain, listeners, written, asked>>

ChanNext ==
  \/ Attach
  \/ \E command \in CoreCommands : Send(command)
  \/ \E c \in 1..MaxCores : Drain(c) \/ CoreExits(c)

(* Node emits "drain" once the pipe of a live process has emptied.              *)
ChanFair == \A c \in 1..MaxCores : WF_chanVars(Drain(c))

ChanSpec == ChanInit /\ [][ChanNext]_chanVars /\ ChanFair

--------------------------------------------------------------------------------
(* The commands an attached core has read are the first of those the room sent  *)
(* it, in order: none is written twice, out of order, or to the core of another *)
(* duel.                                                                        *)
CommandFeed == INSTANCE OrderedFeed
  WITH Feeds <- {"core"},
       sent <- [f \in {"core"} |-> asked], got <- [f \in {"core"} |-> written],
       open <- {f \in {"core"} : core # 0}

ChannelIsOrderedFeed == CommandFeed!Spec

(* The room waits exactly when the attached core owes it a "drain": the drain   *)
(* of a core that was replaced does not end the wait of its successor.          *)
WaitsForItsOwnDrain == core # 0 => (isWaitingDrain <=> core \in listeners)

(* What the room tells a core it reads in order and once, and a full pipe is      *)
(* written to again only when its own core has drained it, not when the core of   *)
(* the last duel does.                                                            *)
ChannelHolds == ChannelIsOrderedFeed /\ [][WaitsForItsOwnDrain']_chanVars

(* CoreCommands held back by a full pipe reach the core, or another core replaces   *)
(* it, unless its process is gone.                                              *)
QueueReachesCore ==
  \A c \in 1..MaxCores :
    (core = c /\ pending # <<>>) ~> (core # c \/ pending = <<>> \/ c \in exited)
================================================================================
